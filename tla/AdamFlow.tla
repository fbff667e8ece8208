------------------------------ MODULE AdamFlow ------------------------------
(***************************************************************************)
(* The flow solver of the Adam property model (sheet_t::implementation_t): *)
(* the interface cells of a sheet, their priorities, the relate clauses    *)
(* between them, and the part of update() that decides which cell each     *)
(* relate clause derives.                                                  *)
(*                                                                         *)
(* A relate clause ("relation") is a set of terms; a term is the set of    *)
(* cells on the left of one `<==`.  The order in which a clause lists the  *)
(* cells of a term is data the solver does not depend on: where the code   *)
(* walks a term's names the model walks them in an arbitrary order.        *)
(* relation_count_m is a size_t that the code only compares with zero; it  *)
(* is an Int here, so that an underflow shows as a negative count.         *)
(***************************************************************************)
EXTENDS Integers, Sequences, FiniteSets

CONSTANTS
  Cell,         (* names of the interface cells a sheet may hold           *)
  NoCell,       (* no cell                                                 *)
  Shapes,       (* the relate clauses a sheet may declare                  *)
  MaxRelations, (* bound: relate clauses in the sheet                      *)
  MaxHigh,      (* bound: priority_high never exceeds it                   *)
  MaxLow        (* bound: no update starts with priority_low below -MaxLow *)

ASSUME CellAssumption == IsFiniteSet(Cell) /\ NoCell \notin Cell
(* The parser wants two relate expressions at least; here their cells differ. *)
ASSUME ShapesAssumption ==
  \A s \in Shapes : s \subseteq (SUBSET Cell) \ {{}} /\ \E t, u \in s : t # u
ASSUME BoundsAssumption == MaxRelations \in Nat /\ MaxHigh \in Nat /\ MaxLow \in Nat

VARIABLES
  interface,          (* the interface cells added so far                  *)
  linked,             (* those whose output is applied back to the input   *)
  relations,          (* relation_cell_set_m: [terms, conditional]         *)
  priority,           (* priority_m of the input half of each cell         *)
  priority_high, priority_low,
  relation_count,     (* relation_count_m of the output half               *)
  resolved,           (* output halves with resolved_m                     *)
  rel_resolved,       (* relations with resolved_m                         *)
  term,               (* term_m: the relation and term that derive a cell  *)
  priority_accessed,  (* the cells whose priority the last flow read       *)
  stack,              (* `cells` in flow: the stack of cells to visit      *)
  cell,               (* `cell` in flow: the cell whose relations are read *)
  visit,              (* the first relation the running loop has not read  *)
  phase               (* where update() is                                 *)

sheetVars == <<interface, linked, relations>>
prioVars  == <<priority, priority_high, priority_low>>
flowVars  == <<relation_count, resolved, rel_resolved, term>>
loopVars  == <<stack, cell, visit>>
vars == <<sheetVars, prioVars, flowVars, priority_accessed, loopVars, phase>>

NoTerm == <<0, {}>>

Relation == DOMAIN relations
Terms(r) == relations[r].terms

(* edges_m: the cells on the left of some term of relation r. *)
Edges(r) == UNION Terms(r)

(* relation_index_m, in the order the relations were added. *)
RelationIndex(c) == {r \in Relation : c \in Edges(r)}

(* The ways to list a finite set of cells. *)
Listings(S) ==
  {s \in [1..Cardinality(S) -> S] : \A i, j \in DOMAIN s : s[i] = s[j] => i = j}

(* std::sort by priority: cells of one priority come in any order. *)
SortedListings(S) ==
  {s \in Listings(S) : \A i, j \in DOMAIN s : i < j => priority[s[i]] <= priority[s[j]]}

(* ++priority_high_m for each cell listed in s. *)
Raise(s) ==
  /\ priority_high + Len(s) <= MaxHigh
  /\ priority_high' = priority_high + Len(s)
  /\ priority' = [c \in Cell |->
                    IF \E i \in DOMAIN s : s[i] = c
                    THEN priority_high + (CHOOSE i \in DOMAIN s : s[i] = c)
                    ELSE priority[c]]
  /\ UNCHANGED priority_low

-----------------------------------------------------------------------------
Init ==
  /\ interface = {} /\ linked = {} /\ relations = <<>>
  /\ priority = [c \in Cell |-> 0] /\ priority_high = 0 /\ priority_low = 0
  /\ relation_count = [c \in Cell |-> 0]
  /\ resolved = {} /\ rel_resolved = {}
  /\ term = [c \in Cell |-> NoTerm]
  /\ priority_accessed = {}
  /\ stack = <<>> /\ cell = NoCell /\ visit = 0
  /\ phase = "idle"

(* Mutant: a cell without initializer is not entered in the index. *)
AddInterfaceUnindexed(c, link, initialized) ==
  /\ phase = "idle" /\ c \notin interface
  /\ interface' = IF initialized THEN interface \cup {c} ELSE interface
  /\ linked' = IF link THEN linked \cup {c} ELSE linked
  /\ IF initialized THEN Raise(<<c>>) ELSE UNCHANGED prioVars
  /\ UNCHANGED <<relations, flowVars, priority_accessed, loopVars, phase>>

(* add_interface: both overloads; without an initializer the priority is 0. *)
AddInterface(c, link, initialized) ==
  /\ phase = "idle" /\ c \notin interface
  /\ interface' = interface \cup {c}
  /\ linked' = IF link THEN linked \cup {c} ELSE linked
  /\ IF initialized THEN Raise(<<c>>) ELSE UNCHANGED prioVars
  /\ UNCHANGED <<relations, flowVars, priority_accessed, loopVars, phase>>

(* add_interface with a name in use: the initializer is evaluated and bumps
   priority_high_m before the name is refused; the cells pushed are in no index. *)
AddInterfaceRefused(c) ==
  /\ phase = "idle" /\ c \in interface
  /\ priority_high < MaxHigh
  /\ priority_high' = priority_high + 1
  /\ UNCHANGED <<sheetVars, priority, priority_low, flowVars, priority_accessed, loopVars, phase>>

(* add_relation: a clause that names a missing cell throws half attached and
   the sheet is given up, so only clauses over existing cells are added. *)
AddRelation(terms, conditional) ==
  /\ phase = "idle" /\ Len(relations) < MaxRelations
  /\ UNION terms \subseteq interface
  /\ relations' = Append(relations, [terms |-> terms, conditional |-> conditional])
  /\ UNCHANGED <<interface, linked, prioVars, flowVars, priority_accessed, loopVars, phase>>

(* set(name, value). *)
Set(c) ==
  /\ phase = "idle" /\ c \in interface
  /\ Raise(<<c>>)
  /\ UNCHANGED <<sheetVars, flowVars, priority_accessed, loopVars, phase>>

(* set on a plain input cell counts as well, though no flow reads its priority. *)
SetInput ==
  /\ phase = "idle" /\ priority_high < MaxHigh
  /\ priority_high' = priority_high + 1
  /\ UNCHANGED <<sheetVars, priority, priority_low, flowVars, priority_accessed, loopVars, phase>>

(* touch(first, last): names that are not in the sheet are ignored. *)
Touch(S) ==
  /\ phase = "idle"
  /\ \E s \in SortedListings(S \cap interface) : Raise(s)
  /\ UNCHANGED <<sheetVars, flowVars, priority_accessed, loopVars, phase>>

(* reinitialize: initialize_one on the dirty cells, in the order of a hash index. *)
Reinitialize(S) ==
  /\ phase = "idle" /\ S \subseteq interface
  /\ \E s \in Listings(S) : Raise(s)
  /\ UNCHANGED <<sheetVars, flowVars, priority_accessed, loopVars, phase>>

-----------------------------------------------------------------------------
(* Mutant: clear_dirty leaves term_m. *)
BeginUpdateKeepsTerms ==
  /\ phase = "idle" /\ priority_low >= -MaxLow
  /\ phase' = "conditionals" /\ visit' = 1
  /\ relation_count' = [c \in Cell |-> Cardinality(RelationIndex(c))]
  /\ resolved' = {} /\ rel_resolved' = {}
  /\ UNCHANGED <<sheetVars, prioVars, term, priority_accessed, stack, cell>>

(* update(): clear_dirty on every cell, clear_resolved on every relation. *)
BeginUpdate ==
  /\ phase = "idle" /\ priority_low >= -MaxLow
  /\ phase' = "conditionals" /\ visit' = 1
  /\ relation_count' = [c \in Cell |-> Cardinality(RelationIndex(c))]
  /\ resolved' = {} /\ rel_resolved' = {}
  /\ term' = [c \in Cell |-> NoTerm]
  /\ UNCHANGED <<sheetVars, prioVars, priority_accessed, stack, cell>>

(* The conditionals are evaluated in the order of the relations; `visit` is the
   first relation not looked at yet. *)
Unsolved == {r \in Relation : r >= visit /\ relations[r].conditional}
SolvesNext(r) ==
  /\ phase = "conditionals"
  /\ r \in Unsolved /\ \A q \in Unsolved : r <= q

ConditionalHolds(r) ==
  /\ SolvesNext(r)
  /\ visit' = r + 1
  /\ UNCHANGED <<sheetVars, prioVars, flowVars, priority_accessed, stack, cell, phase>>

(* Mutant: the cells of a relation whose conditional is false are not let go. *)
ConditionalFailsHeld(r) ==
  /\ SolvesNext(r)
  /\ visit' = r + 1
  /\ rel_resolved' = rel_resolved \cup {r}
  /\ UNCHANGED <<sheetVars, prioVars, relation_count, resolved, term, priority_accessed,
                 stack, cell, phase>>

(* A relation whose conditional is false lets go of its cells and is resolved. *)
ConditionalFails(r) ==
  /\ SolvesNext(r)
  /\ visit' = r + 1
  /\ rel_resolved' = rel_resolved \cup {r}
  /\ relation_count' = [c \in Cell |-> IF c \in Edges(r) THEN relation_count[c] - 1
                                                         ELSE relation_count[c]]
  /\ UNCHANGED <<sheetVars, prioVars, resolved, term, priority_accessed, stack, cell, phase>>

(* Evaluating a conditional throws: update is left as it is. *)
ConditionalThrows ==
  /\ phase = "conditionals" /\ Unsolved # {}
  /\ phase' = "idle" /\ visit' = 0
  /\ UNCHANGED <<sheetVars, prioVars, flowVars, priority_accessed, stack, cell>>

EndConditionals ==
  /\ phase = "conditionals" /\ Unsolved = {}
  /\ phase' = "flow" /\ visit' = 0
  /\ UNCHANGED <<sheetVars, prioVars, flowVars, priority_accessed, stack, cell>>

(* Mutant: flow does not sort. *)
BeginFlowUnsorted ==
  /\ phase = "flow"
  /\ LET cells == UNION {Edges(r) : r \in Relation \ rel_resolved}
     IN  /\ stack' \in Listings(cells)
         /\ priority_accessed' = cells
  /\ phase' = "pop"
  /\ UNCHANGED <<sheetVars, prioVars, flowVars, cell, visit>>

(* flow: the cells of unresolved relations, highest priority last. *)
BeginFlow ==
  /\ phase = "flow"
  /\ LET cells == UNION {Edges(r) : r \in Relation \ rel_resolved}
     IN  /\ stack' \in SortedListings(cells)
         /\ priority_accessed' = cells
  /\ phase' = "pop"
  /\ UNCHANGED <<sheetVars, prioVars, flowVars, cell, visit>>

Top == stack[Len(stack)]
Popped == SubSeq(stack, 1, Len(stack) - 1)

(* Mutant: a cell is skipped before it is popped. *)
SkipCellKept ==
  /\ phase = "pop" /\ stack # <<>>
  /\ relation_count[Top] = 0
  /\ UNCHANGED vars

(* A cell whose relations are all resolved is dropped. *)
SkipCell ==
  /\ phase = "pop" /\ stack # <<>>
  /\ relation_count[Top] = 0
  /\ stack' = Popped
  /\ UNCHANGED <<sheetVars, prioVars, flowVars, priority_accessed, cell, visit, phase>>

(* Mutant: the cell is read without being marked resolved. *)
PopCellOpen ==
  /\ phase = "pop" /\ stack # <<>>
  /\ relation_count[Top] # 0
  /\ stack' = Popped
  /\ cell' = Top /\ visit' = 1
  /\ phase' = "visit"
  /\ UNCHANGED <<sheetVars, prioVars, relation_count, resolved, rel_resolved, term, priority_accessed>>

PopCell ==
  /\ phase = "pop" /\ stack # <<>>
  /\ relation_count[Top] # 0
  /\ stack' = Popped
  /\ cell' = Top /\ visit' = 1
  /\ resolved' = resolved \cup {Top}
  /\ phase' = "visit"
  /\ UNCHANGED <<sheetVars, prioVars, relation_count, rel_resolved, term, priority_accessed>>

(* Mutant: relations that are resolved are read again. *)
ToVisitAgain == {r \in RelationIndex(cell) : r >= visit}

(* The unresolved relations of the cell that the loop has still to read. *)
ToVisit == {r \in RelationIndex(cell) : r >= visit /\ r \notin rel_resolved}

(* Mutant: a term is resolved when all of its cells are. *)
OpenTermsAll(r) == {t \in Terms(r) : ~(t \subseteq resolved)}

(* A term is resolved when any of its cells is. *)
OpenTerms(r) == {t \in Terms(r) : t \cap resolved = {}}

VisitsNext(r) ==
  /\ phase = "visit"
  /\ r \in ToVisit /\ \A q \in ToVisit : r <= q
  /\ visit' = r + 1

(* Two or more open terms (nothing to flow yet), or none: in a build without
   asserts the code goes on to the next relation in both cases. *)
PassRelation(r) ==
  /\ VisitsNext(r)
  /\ Cardinality(OpenTerms(r)) # 1
  /\ relation_count' = [relation_count EXCEPT ![cell] = @ - 1]
  /\ UNCHANGED <<sheetVars, prioVars, resolved, rel_resolved, term, priority_accessed,
                 stack, cell, phase>>

(* The cells of t that the clause leaves attached to other relations. *)
StillAttached(t) == {c \in t : relation_count[c] # 1}

(* Mutant: the cells of the terms that lose stay attached. *)
CountAfterTerm(r, t) ==
  [c \in Cell |-> IF c \in t \cup {cell} THEN relation_count[c] - 1 ELSE relation_count[c]]

(* relation_count_m after the clause flows out through term t. *)
CountAfter(r, t) ==
  LET derived == [c \in Cell |-> IF c \in t \cup {cell} THEN relation_count[c] - 1
                                                       ELSE relation_count[c]]
      still   == (UNION (Terms(r) \ {t})) \ (resolved \cup (t \ StillAttached(t)))
  IN  [c \in Cell |-> IF c \in still THEN derived[c] - 1 ELSE derived[c]]

(* Mutant: derived cells keep the priority they had. *)
LowerNone(t, s) == UNCHANGED <<priority, priority_low>>

(* --priority_low_m for each linked cell of t, as s lists them. *)
Lower(t, s) ==
  LET linkedUpTo(i) == {j \in 1..i : s[j] \in linked}
  IN  /\ priority' = [c \in Cell |->
             IF c \in t \cap linked
             THEN priority_low - Cardinality(linkedUpTo(CHOOSE i \in DOMAIN s : s[i] = c))
             ELSE priority[c]]
      /\ priority_low' = priority_low - Cardinality(t \cap linked)

(* One open term: the relation derives its cells.  A linked cell gets a priority
   below all others; a cell that other relations still hold goes on top of the
   stack, the others are resolved. *)
ApplyRelation(r) ==
  /\ VisitsNext(r)
  /\ \E t \in OpenTerms(r) :
       /\ OpenTerms(r) = {t}
       /\ rel_resolved' = rel_resolved \cup {r}
       /\ term' = [c \in Cell |-> IF c \in t THEN <<r, t>> ELSE term[c]]
       /\ relation_count' = CountAfter(r, t)
       /\ resolved' = resolved \cup (t \ StillAttached(t))
       /\ \E s \in Listings(t) :
            /\ Lower(t, s)
            /\ \E p \in Listings(StillAttached(t)) :
                 /\ \A i, j \in DOMAIN p : i < j =>
                      \E k, l \in DOMAIN s : k < l /\ s[k] = p[i] /\ s[l] = p[j]
                 /\ stack' = stack \o p
  /\ UNCHANGED <<sheetVars, priority_high, priority_accessed, cell, phase>>

EndCell ==
  /\ phase = "visit" /\ ToVisit = {}
  /\ cell' = NoCell /\ visit' = 0
  /\ phase' = "pop"
  /\ UNCHANGED <<sheetVars, prioVars, flowVars, priority_accessed, stack>>

EndFlow ==
  /\ phase = "pop" /\ stack = <<>>
  /\ phase' = "flowed"
  /\ UNCHANGED <<sheetVars, prioVars, flowVars, priority_accessed, loopVars>>

(* The rest of update() evaluates cells and calls monitors, or throws; it
   leaves the flow's state alone. *)
EndUpdate ==
  /\ phase = "flowed"
  /\ phase' = "idle"
  /\ UNCHANGED <<sheetVars, prioVars, flowVars, priority_accessed, loopVars>>

-----------------------------------------------------------------------------
Client ==
  \/ \E c \in Cell, link, initialized \in BOOLEAN : AddInterface(c, link, initialized)
  \/ \E c \in Cell : AddInterfaceRefused(c)
  \/ \E terms \in Shapes, conditional \in BOOLEAN : AddRelation(terms, conditional)
  \/ \E c \in Cell : Set(c)
  \/ SetInput
  \/ \E S \in SUBSET Cell : Touch(S)
  \/ \E S \in SUBSET Cell : Reinitialize(S)

Flow ==
  \/ BeginFlow
  \/ SkipCell
  \/ PopCell
  \/ \E r \in Relation : PassRelation(r)
  \/ \E r \in Relation : ApplyRelation(r)
  \/ EndCell
  \/ EndFlow

Conditionals ==
  \/ \E r \in Relation : ConditionalHolds(r) \/ ConditionalFails(r)
  \/ ConditionalThrows
  \/ EndConditionals

Update == BeginUpdate \/ Conditionals \/ Flow \/ EndUpdate

Next == Client \/ Update

(* update() is one call on one thread: once begun its steps are taken. *)
Fairness == WF_vars(Conditionals \/ Flow \/ EndUpdate)

Spec == Init /\ [][Next]_vars
FairSpec == Spec /\ Fairness

-----------------------------------------------------------------------------
(* Every variable has its type. *)
TypeOK ==
  /\ interface \subseteq Cell /\ linked \subseteq interface
  /\ relations \in Seq([terms : Shapes, conditional : BOOLEAN])
  /\ priority \in [Cell -> Int] /\ priority_high \in Nat /\ priority_low \in Int
  /\ relation_count \in [Cell -> Int]
  /\ resolved \subseteq Cell /\ rel_resolved \subseteq Relation
  /\ \A c \in Cell : term[c] # NoTerm =>
        term[c][1] \in Relation /\ term[c][2] \in Terms(term[c][1])
  /\ priority_accessed \subseteq Cell
  /\ stack \in Seq(Cell) /\ cell \in Cell \cup {NoCell} /\ visit \in Nat
  /\ phase \in {"idle", "conditionals", "flow", "pop", "visit", "flowed"}

Disjoint(r) == \A s, t \in Terms(r) : s # t => s \cap t = {}

Counting == phase \in {"conditionals", "flow", "pop", "visit", "flowed"} /\ \A r \in Relation : Disjoint(r)

(* The number of unresolved relations that still hold cell c. *)
Held(c) == IF c = cell THEN Cardinality(ToVisit)
           ELSE IF c \in resolved THEN 0
           ELSE Cardinality(RelationIndex(c) \ rel_resolved)

(* relation_count_m counts exactly the unresolved relations that still hold a
   cell: while its relations are being read, those not read yet; nothing once it
   is resolved.  So the count never wraps below zero, and the assertion "Cell
   still belongs to relation but all relations resolved." holds.  Clauses whose
   terms share a cell break it: see CellLetGo. *)
CountExact == Counting => \A c \in Cell : relation_count[c] = Held(c)

(* The code asserts "Cell still belongs to relation but all relations resolved.",
   whatever terms a clause has. *)
CellLetGo == (phase = "visit" /\ ToVisit = {}) => relation_count[cell] = 0

(* An update that has begun ends: flow's loop cannot go on for ever, over-constrained
   sheets and clauses whose terms share cells included. *)
UpdateEnds == (phase = "conditionals") ~> (phase = "idle")
=============================================================================
