------------------------------ MODULE HashedMap ------------------------------
(***************************************************************************)
(* What a hashed associative container promises (closed_hash_map and, with *)
(* one payload, closed_hash_set): a map from keys, and nothing about where *)
(* its elements are or in which order they come.                           *)
(***************************************************************************)
CONSTANTS
  Key, Payload,
  Absent        (* the payload of a key that is not in the map *)

VARIABLES
  map,
  result        (* what the last operation returned *)

TypeOK ==
  /\ map \in [Key -> Payload \cup {Absent}]
  /\ result \in {"none", "new", "replaced", "threw", "erased", "absent"}

Init == map = [k \in Key |-> Absent] /\ result = "none"

(* insert puts the element in, in place of one with the same key. *)
Insert(k, p) ==
  /\ map' = [map EXCEPT ![k] = p]
  /\ result' = IF map[k] = Absent THEN "new" ELSE "replaced"

(* erase takes an element out; clear takes them out one by one. *)
Erase(k) ==
  /\ map[k] # Absent
  /\ map' = [map EXCEPT ![k] = Absent]
  /\ result' = "erased"

EraseNothing(k) ==
  /\ map[k] = Absent
  /\ result' = "absent"
  /\ UNCHANGED map

(* An operation whose element cannot be copied has no effect. *)
Throw == result' = "threw" /\ UNCHANGED map

Next ==
  \/ \E k \in Key, p \in Payload : Insert(k, p)
  \/ \E k \in Key : Erase(k) \/ EraseNothing(k)
  \/ Throw

Spec == Init /\ [][Next]_<<map, result>>
=============================================================================
