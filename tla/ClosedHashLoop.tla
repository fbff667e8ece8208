--------------------------- MODULE ClosedHashLoop ---------------------------
(***************************************************************************)
(* A client that runs over a closed_hash_set from begin() to end() and     *)
(* erases some of the elements it comes to, going on with the iterator     *)
(* that erase returns, as clear() itself does with all of them.  It may    *)
(* call find on the way.                                                   *)
(***************************************************************************)
EXTENDS ClosedHash

NoLoop == -3

VARIABLES
  it,       (* the client's iterator, NoLoop outside of its loop *)
  start,    (* the elements in the table when the loop began     *)
  visits,   (* how often the loop came to the element of a key   *)
  erased    (* the keys of the elements it erased                *)

lvars == <<vars, it, start, visits, erased>>

LInit ==
  /\ Init
  /\ it = NoLoop /\ start = {} /\ visits = [key \in Key |-> 0] /\ erased = {}

(* The operations of the table, outside of the loop. *)
LOther == it = NoLoop /\ Next /\ UNCHANGED <<it, start, visits, erased>>

LBegin ==
  /\ it = NoLoop /\ phase = "idle"
  /\ it' = Begin(table) /\ start' = Contents(table)
  /\ visits' = [key \in Key |-> 0] /\ erased' = {}
  /\ UNCHANGED vars

Visited == visits' = [visits EXCEPT ![table.value[it].key] = @ + 1]

LKeep ==
  /\ it \notin {NoLoop, UsedTail}
  /\ Visited
  /\ it' = table.next[it]
  /\ UNCHANGED <<vars, start, erased>>

LErase ==
  /\ it \notin {NoLoop, UsedTail}
  /\ Visited
  /\ erased' = erased \cup {table.value[it].key}
  /\ Erase(it)
  /\ it' = AfterErase(table, it)
  /\ UNCHANGED start

LEnd ==
  /\ it = UsedTail
  /\ it' = NoLoop /\ start' = {} /\ visits' = [key \in Key |-> 0] /\ erased' = {}
  /\ UNCHANGED vars

LNext == LOther \/ LBegin \/ LKeep \/ LErase \/ LEnd

LSpec == LInit /\ [][LNext]_lvars

-----------------------------------------------------------------------------
(* A loop that erases as it goes comes to every element once, though erase moves
   elements from one node to another, and leaves exactly those it did not erase. *)
VisitsEachOnce ==
  it # NoLoop =>
    /\ \A key \in Key : visits[key] <= (IF \E e \in start : e.key = key THEN 1 ELSE 0)
    /\ it = UsedTail =>
         /\ \A e \in start : visits[e.key] = 1
         /\ Contents(table) = {e \in start : e.key \notin erased}
=============================================================================
