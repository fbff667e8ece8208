----------------------------- MODULE ClosedHash -----------------------------
(***************************************************************************)
(* closed_hash_set / closed_hash_map: a hash table whose nodes lie in one  *)
(* array and in two circular doubly linked lists, the used and the free    *)
(* nodes.  The node an element hashes to is its home; while the home is    *)
(* taken by another element of the same bucket the element is `misplaced`: *)
(* it lies in a free node, linked in right after the home.  An element     *)
(* that turns up at a home used by a misplaced one moves that one away.    *)
(*                                                                         *)
(* A table is a record: nodes are the numbers below its capacity, the      *)
(* tails of the two lists negative numbers.  A table without header is one *)
(* of capacity 0.  Rebuilding a table (reserve, copy) inserts the elements *)
(* one at a time in a new one: one step each.                              *)
(***************************************************************************)
EXTENDS Integers, FiniteSets

CONSTANTS
  Key, Payload,
  Hash,         (* the hasher                                              *)
  PrimeTable,   (* bound: the capacities in prime_table that are reached   *)
  None          (* no element: storage destroyed, or never constructed     *)

Element == [key : Key, payload : Payload]

ASSUME HashAssumption == Hash \in [Key -> Nat]
ASSUME PrimeTableAssumption == PrimeTable \subseteq Nat \ {0}
ASSUME NoneAssumption == None \notin Element \cup Payload

FreeTail == -1
UsedTail == -2

VARIABLES
  movable,  (* is_movable<T>: other elements are copied, which may throw   *)
  table,    (* the container                                               *)
  tmp,      (* the table being built by reserve or by a copy               *)
  at,       (* the iterator of the loop that runs over the table           *)
  pending,  (* the element whose insert called reserve                     *)
  phase,    (* the loop that runs: idle, move, copy, clear                 *)
  result    (* what the last insert or erase returned                      *)

vars == <<movable, table, tmp, at, pending, phase, result>>

(* lower_bound(prime_table, n). *)
Fits(n) == {p \in PrimeTable : p >= n}
LowerBound(n) == CHOOSE p \in Fits(n) : \A q \in Fits(n) : p <= q

(* allocate: all nodes are free, linked in the order of the storage. *)
Allocated(n) ==
  [capacity |-> n, size |-> 0,
   next  |-> [x \in -2..n-1 |-> IF x = UsedTail THEN UsedTail
                                ELSE IF x = n - 1 THEN FreeTail ELSE x + 1],
   prior |-> [x \in -2..n-1 |-> IF x = UsedTail THEN UsedTail
                                ELSE IF x = FreeTail THEN n - 1 ELSE x - 1],
   state |-> [x \in 0..n-1 |-> "free"],
   value |-> [x \in 0..n-1 |-> None]]

Node(h) == 0..h.capacity - 1
Used(h) == {x \in Node(h) : h.state[x] # "free"}
Free(h) == {x \in Node(h) : h.state[x] = "free"}

(* begin(), and begin_free(). *)
Begin(h) == h.next[UsedTail]
BeginFree(h) == h.next[FreeTail]

(* set_next, skip_node, and splice_node_range for a single node. *)
SetNext(h, x, y) == [h EXCEPT !.next[x] = y, !.prior[y] = x]
SkipNode(h, x) == SetNext(h, h.prior[x], h.next[x])
SpliceNode(h, location, x) == SetNext(SetNext(h, location, x), x, h.next[location])

InsertRaw(h, x, element, state) ==
  SkipNode([h EXCEPT !.value[x] = element, !.state[x] = state], x)

(* Mutant: the destroyed node is not given back. *)
EraseRawLost(h, x) == [h EXCEPT !.value[x] = None, !.state[x] = "free"]

EraseRaw(h, x) == SpliceNode([h EXCEPT !.value[x] = None, !.state[x] = "free"], FreeTail, x)

Bucket(h, key) == Hash[key] % h.capacity

(* The loop of find goes on to the next node unless it is end() or a home. *)
GoesOn(h, x) == h.next[x] # UsedTail /\ h.state[h.next[x]] # "home"

(* The nodes that find(node, key) comes to. *)
Passed(h, node) ==
  {x \in Used(h) : \A S \in SUBSET Used(h) :
     (node \in S /\ \A y \in S : GoesOn(h, y) => h.next[y] \in S) => x \in S}

(* The nodes of a home's bucket with the given key. *)
Matches(h, node, key) ==
  {x \in Passed(h, node) : h.value[x].key = key}

(* find(key): end() is the tail of the used nodes. *)
Find(h, key) ==
  IF h.size = 0 THEN UsedTail
  ELSE IF h.state[Bucket(h, key)] # "home" THEN UsedTail
  ELSE IF Matches(h, Bucket(h, key), key) = {} THEN UsedTail
  ELSE CHOOSE x \in Matches(h, Bucket(h, key), key) : TRUE

-----------------------------------------------------------------------------
(* insert of an element of which the table has no other, whose home is free. *)
InsertedHome(h, element) ==
  LET node == Bucket(h, element.key)
      g    == SpliceNode(InsertRaw(h, node, element, "home"), UsedTail, node)
  IN  [g EXCEPT !.size = @ + 1]

(* ... whose home has another element of the bucket. *)
InsertedMisplaced(h, element) ==
  LET g == SpliceNode(InsertRaw(h, BeginFree(h), element, "misplaced"),
                      Bucket(h, element.key), BeginFree(h))
  IN  [g EXCEPT !.size = @ + 1]

(* Mutant: the element moved away is linked in after its neighbour. *)
MovedAwayLate(h, node) ==
  LET free == BeginFree(h)
      g == InsertRaw(h, free, h.value[node], "misplaced")
  IN  EraseRaw(SpliceNode(SkipNode(g, node), g.next[node], free), node)

(* The misplaced element at a node moves to a free node, linked in its stead. *)
MovedAway(h, node) ==
  LET free == BeginFree(h)
      g == InsertRaw(h, free, h.value[node], "misplaced")
  IN  EraseRaw(SetNext(SetNext(g, g.prior[node], free), free, g.next[node]), node)

(* There is an element with the key already, in the bucket of its home. *)
Overwrites(h, element) ==
  h.state[Bucket(h, element.key)] = "home" /\ Find(h, element.key) # UsedTail

(* insert(x), when there is room: the table after it. *)
Inserted(h, element) ==
  LET node == Bucket(h, element.key)
  IN  IF Overwrites(h, element) THEN [h EXCEPT !.value[Find(h, element.key)] = element]
      ELSE CASE h.state[node] = "home"      -> InsertedMisplaced(h, element)
             [] h.state[node] = "misplaced" -> InsertedHome(MovedAway(h, node), element)
             [] h.state[node] = "free"      -> InsertedHome(h, element)

(* ... or the table if the constructor of the new element throws: the element in
   its way has been moved by then. *)
Interrupted(h, element) ==
  LET node == Bucket(h, element.key)
  IN  IF h.state[node] = "misplaced" THEN MovedAway(h, node) ELSE h

(* Erasing a home that is followed by an element of its bucket: that element
   takes the home and its node is the one given back. *)
TakesHome(h, x) ==
  /\ h.state[x] = "home"
  /\ h.next[x] # UsedTail /\ h.state[h.next[x]] = "misplaced"

(* erase(location): the table after it (swap and assignment do not throw). *)
Erased(h, x) ==
  LET y == h.next[x]
      g == IF TakesHome(h, x)
           THEN EraseRaw(SkipNode([h EXCEPT !.value[x] = h.value[y], !.value[y] = h.value[x]], y), y)
           ELSE EraseRaw(SkipNode(h, x), x)
  IN  [g EXCEPT !.size = @ - 1]

(* Mutant: the node after the one given back. *)
AfterEraseSkips(h, x) == IF TakesHome(h, x) THEN h.next[h.next[x]] ELSE h.next[x]

(* The iterator that erase(location) returns. *)
AfterErase(h, x) == IF TakesHome(h, x) THEN x ELSE h.next[x]

-----------------------------------------------------------------------------
Init ==
  /\ movable \in BOOLEAN
  /\ table = Allocated(0) /\ tmp = Allocated(0)
  /\ at = UsedTail /\ pending = None /\ phase = "idle"
  /\ result = "none"

Idle == phase = "idle" /\ UNCHANGED <<movable, tmp, at, pending, phase>>

(* insert(x) in a table with room, and what it returns. *)
InsertInto(h, element) ==
  \/ /\ table' = Inserted(h, element)
     /\ result' = IF Overwrites(h, element) THEN "replaced" ELSE "new"
  \/ /\ ~movable
     /\ table' = Interrupted(h, element)
     /\ result' = "threw"

Insert(element) ==
  /\ Idle /\ table.size # table.capacity
  /\ InsertInto(table, element)

(* A loop that inserts the elements of the table in a new one. *)
Rebuild(loop, capacity, element) ==
  /\ phase = "idle"
  /\ phase' = loop /\ tmp' = Allocated(capacity)
  /\ at' = Begin(table) /\ pending' = element
  /\ UNCHANGED <<movable, table, result>>

(* insert(x) in a full table reserves first, even if it then overwrites. *)
InsertFull(element) ==
  LET n == IF table.size = 0 THEN 3 ELSE 2 * table.size
  IN  /\ table.size = table.capacity /\ Fits(n) # {}
      /\ Rebuild("move", LowerBound(n), element)

(* reserve(n) of more than the capacity. *)
Reserve(n) ==
  /\ n > table.capacity /\ Fits(n) # {}
  /\ Rebuild("move", LowerBound(n), None)

(* x = y, where y is a copy of x: the copy of an empty table has no header. *)
Copy ==
  /\ table.size = 0 \/ Fits(table.size) # {}
  /\ Rebuild("copy", IF table.size = 0 THEN 0 ELSE LowerBound(table.size), None)

(* Mutant: the loop does not insert its last element. *)
RebuildOneSkips ==
  /\ phase \in {"move", "copy"} /\ at # UsedTail
  /\ tmp' = IF table.next[at] = UsedTail THEN tmp ELSE Inserted(tmp, table.value[at])
  /\ table' = IF phase = "move" /\ movable THEN [table EXCEPT !.value[at] = None] ELSE table
  /\ at' = table.next[at]
  /\ UNCHANGED <<movable, pending, phase, result>>

(* One round of move_insert, or of insert(first, last). *)
RebuildOne ==
  /\ phase \in {"move", "copy"} /\ at # UsedTail
  /\ tmp' = Inserted(tmp, table.value[at])
  /\ table' = IF phase = "move" /\ movable THEN [table EXCEPT !.value[at] = None] ELSE table
  /\ at' = table.next[at]
  /\ UNCHANGED <<movable, pending, phase, result>>

(* The tables are swapped, the old one destroyed, and insert goes on. *)
RebuildEnd ==
  /\ phase \in {"move", "copy"} /\ at = UsedTail
  /\ IF pending = None THEN table' = tmp /\ UNCHANGED result ELSE InsertInto(tmp, pending)
  /\ tmp' = Allocated(0) /\ pending' = None /\ phase' = "idle"
  /\ UNCHANGED <<movable, at>>

(* Copying an element throws: the new table is given up. *)
RebuildThrows ==
  /\ phase \in {"move", "copy"} /\ at # UsedTail
  /\ phase = "move" => ~movable
  /\ tmp' = Allocated(0) /\ pending' = None /\ phase' = "idle" /\ at' = UsedTail
  /\ result' = "threw"
  /\ UNCHANGED <<movable, table>>

(* erase(iterator). *)
Erase(x) ==
  /\ Idle /\ x \in Used(table)
  /\ table' = Erased(table, x) /\ result' = "erased"

(* erase(key) of a key that is found, or not. *)
EraseKey(key) ==
  /\ phase = "idle"
  /\ Find(table, key) # UsedTail
  /\ Erase(Find(table, key))

EraseNothing(key) ==
  /\ Idle /\ Find(table, key) = UsedTail
  /\ result' = "absent"
  /\ UNCHANGED table

(* clear: erase from begin() on, wherever erase says to go on. *)
Clear ==
  /\ phase = "idle" /\ table.capacity # 0
  /\ phase' = "clear" /\ at' = Begin(table)
  /\ UNCHANGED <<movable, table, tmp, pending, result>>

ClearOne ==
  /\ phase = "clear" /\ at # UsedTail
  /\ table' = Erased(table, at) /\ result' = "erased"
  /\ at' = AfterErase(table, at)
  /\ UNCHANGED <<movable, tmp, pending, phase>>

ClearEnd ==
  /\ phase = "clear" /\ at = UsedTail
  /\ phase' = "idle"
  /\ UNCHANGED <<movable, table, tmp, at, pending, result>>

Next ==
  \/ \E element \in Element : Insert(element) \/ InsertFull(element)
  \/ \E n \in PrimeTable : Reserve(n)
  \/ Copy
  \/ RebuildOne
  \/ RebuildEnd
  \/ RebuildThrows
  \/ \E key \in Key : EraseKey(key) \/ EraseNothing(key)
  \/ Clear
  \/ ClearOne
  \/ ClearEnd

Spec == Init /\ [][Next]_vars

-----------------------------------------------------------------------------
(* The elements that lie in a table's used nodes, wherever those are linked. *)
Contents(h) == {h.value[x] : x \in Used(h)} \ {None}

(* While elements are moved the container is what both tables have. *)
Held == Contents(table) \cup IF phase = "move" THEN Contents(tmp) ELSE {}

(* The map a container stands for. *)
MapOf(elements) ==
  [key \in Key |-> IF \E e \in elements : e.key = key
                   THEN (CHOOSE e \in elements : e.key = key).payload
                   ELSE None]

Abstract == INSTANCE HashedMap WITH Absent <- None, map <- MapOf(Held)

(* Every operation does to the map what it returns: inserting, erasing and
   displacing neither lose an element nor leave a second one of its key behind,
   an insert that throws changes nothing, and rebuilding, element by element,
   leaves the map what it was. *)
ImplementsMap == Abstract!Spec

(* The list of a tail is circular, both ways, and runs through all the nodes:
   no nodes form a circle of their own. *)
Circular(h, tail, nodes) ==
  /\ \A x \in nodes \cup {tail} :
       /\ h.next[x] \in nodes \cup {tail} /\ h.prior[h.next[x]] = x
       /\ h.prior[x] \in nodes \cup {tail} /\ h.next[h.prior[x]] = x
  /\ \A S \in SUBSET nodes : S # {} => \E x \in S : h.prior[x] \notin S

WellLinked(h) ==
  /\ Circular(h, UsedTail, Used(h))
  /\ Free(h) # {} => BeginFree(h) \in Free(h)
  /\ h.size = Cardinality(Used(h))

(* After every operation iteration runs through every used node once, insert is
   given a free node as long as there is one, and size() is right: relinking the
   nodes of two lists in place neither loses a node nor lets one be in both. *)
NoNodeLost == WellLinked(table) /\ WellLinked(tmp)

(* find returns the node of the element with the key wherever it has been
   displaced to, and end() when there is none: an element is reachable from the
   home of its bucket through every insert, erase, displacement and rebuild. *)
FindsExactly ==
  \A h \in (IF phase = "move" THEN {tmp} ELSE {table, tmp}) : \A key \in Key :
     LET having == {x \in Used(h) : h.value[x].key = key}
     IN  IF having = {} THEN Find(h, key) = UsedTail ELSE having = {Find(h, key)}

(* clear takes out every element though erase moves elements under its iterator. *)
ClearEmpties == phase = "clear" /\ at = UsedTail => Used(table) = {}
=============================================================================
