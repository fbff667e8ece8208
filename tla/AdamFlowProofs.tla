--------------------------- MODULE AdamFlowProofs ---------------------------
(***************************************************************************)
(* What TLAPS proves of AdamFlow for every set of cells and clauses: every *)
(* variable keeps its type, and relation_count counts exactly the          *)
(* relations that still hold a cell.                                       *)
(***************************************************************************)
EXTENDS AdamFlow, TLAPS, FiniteSetTheorems, SequenceTheorems

USE CellAssumption, BoundsAssumption

-----------------------------------------------------------------------------
(* What listings are: finite sequences of the cells they list. *)
LEMMA ListingType ==
  ASSUME NEW S \in SUBSET Cell, NEW s \in Listings(S)
  PROVE  /\ IsFiniteSet(S) /\ Cardinality(S) \in Nat
         /\ s \in Seq(S) /\ s \in Seq(Cell) /\ Len(s) = Cardinality(S)
         /\ DOMAIN s = 1..Len(s)
<1>1. IsFiniteSet(S) /\ Cardinality(S) \in Nat
  BY FS_Subset, FS_CardinalityType
<1>2. s \in [1..Cardinality(S) -> S]
  BY DEF Listings
<1> QED BY <1>1, <1>2

(* Every cell of the set is at some position. *)
LEMMA ListingHits ==
  ASSUME NEW S \in SUBSET Cell, NEW s \in Listings(S), NEW c \in S
  PROVE  /\ (CHOOSE i \in DOMAIN s : s[i] = c) \in 1..Cardinality(S)
         /\ s[CHOOSE i \in DOMAIN s : s[i] = c] = c
<1>1. s \in [1..Cardinality(S) -> S] /\ \A i, j \in DOMAIN s : s[i] = s[j] => i = j
  BY DEF Listings
<1>2. IsFiniteSet(S) /\ IsFiniteSet(1..Cardinality(S)) /\ Cardinality(1..Cardinality(S)) = Cardinality(S)
  BY ListingType, FS_Interval
<1>3. s \in Injection(1..Cardinality(S), S)
  BY <1>1 DEF Injection, IsInjective
<1>4. s \in Surjection(1..Cardinality(S), S)
  BY <1>2, <1>3, FS_Injection
<1>5. \E i \in DOMAIN s : s[i] = c
  BY <1>1, <1>4 DEF Surjection
<1> QED BY <1>1, <1>5

(* What std::sort may produce is a listing of the same cells. *)
LEMMA SortedListingType ==
  ASSUME NEW S \in SUBSET Cell, NEW s \in SortedListings(S)
  PROVE  s \in Listings(S)
BY DEF SortedListings

(* A sheet's clauses have terms that are nonempty sets of cells. *)
LEMMA ClauseType ==
  ASSUME TypeOK
  PROVE  /\ Relation = 1..Len(relations) /\ IsFiniteSet(Relation)
         /\ \A r \in Relation : /\ Terms(r) \in Shapes
                                /\ Terms(r) \subseteq SUBSET Cell
                                /\ Edges(r) \subseteq Cell
<1>1. Relation = 1..Len(relations) /\ Len(relations) \in Nat
  BY DEF TypeOK, Relation
<1>2. IsFiniteSet(Relation)
  BY <1>1, FS_Interval
<1>3. ASSUME NEW r \in Relation PROVE Terms(r) \in Shapes
  <2>1. relations[r] \in [terms : Shapes, conditional : BOOLEAN]
    BY <1>1, ElementOfSeq DEF TypeOK
  <2> QED BY <2>1 DEF Terms
<1>4. ASSUME NEW r \in Relation PROVE Terms(r) \subseteq SUBSET Cell /\ Edges(r) \subseteq Cell
  BY <1>3, ShapesAssumption DEF Edges
<1> QED BY <1>1, <1>2, <1>3, <1>4

(* Raising the listed cells keeps the priorities' types. *)
LEMMA RaiseType ==
  ASSUME TypeOK, NEW s \in Seq(Cell), DOMAIN s = 1..Len(s), Raise(s)
  PROVE  /\ priority' \in [Cell -> Int] /\ priority_high' \in Nat /\ priority_low' \in Int
<1>1. Len(s) \in Nat
  OBVIOUS
<1>2. priority_high' \in Nat /\ priority_low' \in Int
  BY <1>1 DEF TypeOK, Raise
<1>3. ASSUME NEW c \in Cell
      PROVE  (IF \E i \in DOMAIN s : s[i] = c
              THEN priority_high + (CHOOSE i \in DOMAIN s : s[i] = c)
              ELSE priority[c]) \in Int
  <2>1. CASE \E i \in DOMAIN s : s[i] = c
    <3>1. (CHOOSE i \in DOMAIN s : s[i] = c) \in DOMAIN s
      BY <2>1
    <3> QED BY <2>1, <3>1, <1>1 DEF TypeOK
  <2>2. CASE ~ \E i \in DOMAIN s : s[i] = c
    BY <2>2 DEF TypeOK
  <2> QED BY <2>1, <2>2
<1>4. priority' \in [Cell -> Int]
  BY <1>3 DEF Raise
<1> QED BY <1>2, <1>4

(* The index of a cell is finite, so clear_dirty counts it. *)
LEMMA RelationIndexType ==
  ASSUME TypeOK
  PROVE  \A c : IsFiniteSet(RelationIndex(c)) /\ Cardinality(RelationIndex(c)) \in Nat
<1> TAKE c
<1>1. RelationIndex(c) \subseteq Relation
  BY DEF RelationIndex
<1> QED BY <1>1, ClauseType, FS_Subset, FS_CardinalityType

-----------------------------------------------------------------------------
(* The calls a client makes between updates keep the types. *)
LEMMA TypeClient ==
  ASSUME TypeOK, Client
  PROVE  TypeOK'
<1> USE DEF TypeOK, sheetVars, prioVars, flowVars, loopVars
<1>1. ASSUME NEW c \in Cell, NEW link \in BOOLEAN, NEW initialized \in BOOLEAN,
             AddInterface(c, link, initialized)
      PROVE  TypeOK'
  <2>1. priority' \in [Cell -> Int] /\ priority_high' \in Nat /\ priority_low' \in Int
    <3>1. CASE initialized
      BY <1>1, <3>1, RaiseType, <<c>> \in Seq(Cell), DOMAIN <<c>> = 1..Len(<<c>>)
         DEF AddInterface
    <3>2. CASE ~initialized
      BY <1>1, <3>2 DEF AddInterface
    <3> QED BY <3>1, <3>2
  <2> QED BY <1>1, <2>1 DEF AddInterface, Relation, Terms
<1>2. ASSUME NEW c \in Cell, AddInterfaceRefused(c) PROVE TypeOK'
  BY <1>2 DEF AddInterfaceRefused, Relation, Terms
<1>3. ASSUME NEW terms \in Shapes, NEW conditional \in BOOLEAN, AddRelation(terms, conditional)
      PROVE  TypeOK'
  <2> DEFINE new == [terms |-> terms, conditional |-> conditional]
  <2>1. relations' = Append(relations, new) /\ new \in [terms : Shapes, conditional : BOOLEAN]
    BY <1>3 DEF AddRelation
  <2> HIDE DEF new
  <2>2. relations' \in Seq([terms : Shapes, conditional : BOOLEAN])
    BY <2>1
  <2>3. Relation' = Relation \cup {Len(relations) + 1} /\ \A r \in Relation : Terms(r)' = Terms(r)
    BY <2>1, <2>2 DEF Relation, Terms
  <2> QED BY <1>3, <2>2, <2>3 DEF AddRelation
<1>4. ASSUME NEW c \in Cell, Set(c) PROVE TypeOK'
  <2>1. priority' \in [Cell -> Int] /\ priority_high' \in Nat /\ priority_low' \in Int
    BY <1>4, RaiseType, <<c>> \in Seq(Cell), DOMAIN <<c>> = 1..Len(<<c>>) DEF Set
  <2> QED BY <1>4, <2>1 DEF Set, Relation, Terms
<1>5. ASSUME NEW S \in SUBSET Cell, Touch(S) PROVE TypeOK'
  <2>1. PICK s \in SortedListings(S \cap interface) : Raise(s)
    BY <1>5 DEF Touch
  <2>2. s \in Seq(Cell) /\ DOMAIN s = 1..Len(s)
    BY SortedListingType, ListingType, S \cap interface \in SUBSET Cell
  <2>3. priority' \in [Cell -> Int] /\ priority_high' \in Nat /\ priority_low' \in Int
    BY <2>1, <2>2, RaiseType
  <2> QED BY <1>5, <2>3 DEF Touch, Relation, Terms
<1>6. ASSUME NEW S \in SUBSET Cell, Reinitialize(S) PROVE TypeOK'
  <2>1. PICK s \in Listings(S) : Raise(s)
    BY <1>6 DEF Reinitialize
  <2>2. s \in Seq(Cell) /\ DOMAIN s = 1..Len(s)
    BY ListingType
  <2>3. priority' \in [Cell -> Int] /\ priority_high' \in Nat /\ priority_low' \in Int
    BY <2>1, <2>2, RaiseType
  <2> QED BY <1>6, <2>3 DEF Reinitialize, Relation, Terms
<1>7. CASE SetInput
  BY <1>7 DEF SetInput, Relation, Terms
<1> HIDE DEF TypeOK
<1> QED BY <1>1, <1>2, <1>3, <1>4, <1>5, <1>6, <1>7 DEF Client

(* Applying a relate clause keeps the types. *)
LEMMA ApplyType ==
  ASSUME TypeOK, NEW r \in Relation, ApplyRelation(r)
  PROVE  TypeOK'
<1> USE DEF sheetVars, prioVars, flowVars, loopVars
<1>1. PICK t \in OpenTerms(r) :
        /\ rel_resolved' = rel_resolved \cup {r}
        /\ term' = [c \in Cell |-> IF c \in t THEN <<r, t>> ELSE term[c]]
        /\ relation_count' = CountAfter(r, t)
        /\ resolved' = resolved \cup (t \ StillAttached(t))
        /\ \E s \in Listings(t) :
             LET linkedUpTo(i) == {j \in 1..i : s[j] \in linked}
             IN  /\ priority' = [c \in Cell |->
                       IF c \in t \cap linked
                       THEN priority_low - Cardinality(linkedUpTo(CHOOSE i \in DOMAIN s : s[i] = c))
                       ELSE priority[c]]
                 /\ priority_low' = priority_low - Cardinality(t \cap linked)
                 /\ \E p \in Listings(StillAttached(t)) : stack' = stack \o p
  BY DEF ApplyRelation, Lower
<1>2. t \in Terms(r) /\ t \in SUBSET Cell /\ StillAttached(t) \in SUBSET Cell
  BY ClauseType DEF OpenTerms, StillAttached
<1>3. relation_count' \in [Cell -> Int]
  BY <1>1 DEF CountAfter, TypeOK
<1>4. priority' \in [Cell -> Int]
  <2>1. PICK s \in Listings(t) : priority' = [c \in Cell |->
          IF c \in t \cap linked
          THEN priority_low - Cardinality({j \in 1..(CHOOSE i \in DOMAIN s : s[i] = c) : s[j] \in linked})
          ELSE priority[c]]
    BY <1>1
  <2>2. ASSUME NEW c \in Cell, c \in t
        PROVE  Cardinality({j \in 1..(CHOOSE i \in DOMAIN s : s[i] = c) : s[j] \in linked}) \in Nat
    <3> DEFINE k == CHOOSE i \in DOMAIN s : s[i] = c
    <3>1. k \in Int
      BY <1>2, <2>2, ListingHits
    <3>2. IsFiniteSet({j \in 1..k : s[j] \in linked})
      <4>1. IsFiniteSet(1..k)
        BY <3>1, FS_Interval
      <4>2. {j \in 1..k : s[j] \in linked} \subseteq 1..k
        OBVIOUS
      <4> QED BY <4>1, <4>2, FS_Subset
    <3> QED BY <3>2, FS_CardinalityType
  <2>3. ASSUME NEW c \in Cell
        PROVE  (IF c \in t \cap linked
                THEN priority_low - Cardinality({j \in 1..(CHOOSE i \in DOMAIN s : s[i] = c) : s[j] \in linked})
                ELSE priority[c]) \in Int
    <3>1. priority_low \in Int /\ priority[c] \in Int
      BY DEF TypeOK
    <3>2. CASE c \in t
      <4> DEFINE n == Cardinality({j \in 1..(CHOOSE i \in DOMAIN s : s[i] = c) : s[j] \in linked})
      <4>1. n \in Nat
        BY <2>2, <3>2
      <4> HIDE DEF n
      <4> QED BY <3>1, <4>1 DEF n
    <3> QED BY <3>1, <3>2
  <2> QED BY <2>1, <2>3
<1>5. priority_low' \in Int
  <2>1. IsFiniteSet(t \cap linked)
    BY <1>2, FS_Subset
  <2> QED BY <1>1, <2>1, FS_CardinalityType DEF TypeOK
<1>6. stack' \in Seq(Cell)
  <2>1. PICK p \in Listings(StillAttached(t)) : stack' = stack \o p
    BY <1>1
  <2>2. p \in Seq(Cell)
    BY <1>2, ListingType
  <2> QED BY <2>1, <2>2 DEF TypeOK
<1>7. r \in Nat /\ visit' = r + 1
  BY ClauseType DEF ApplyRelation, VisitsNext
<1>8. \A c \in Cell : term'[c] # NoTerm =>
        term'[c][1] \in Relation /\ term'[c][2] \in Terms(term'[c][1])
  BY <1>1, <1>2 DEF TypeOK
<1>9. UNCHANGED <<sheetVars, priority_high, priority_accessed, cell, phase>>
  BY DEF ApplyRelation
<1>10. resolved' \subseteq Cell /\ rel_resolved' \subseteq Relation
  BY <1>1, <1>2 DEF TypeOK
<1>11. UNCHANGED <<interface, linked, relations>>
  BY <1>9
<1>12. Relation' = Relation /\ \A q : Terms(q)' = Terms(q)
  BY <1>11 DEF Relation, Terms
<1>13. \A c \in Cell : (term[c] # NoTerm)' =>
         (term[c][1] \in Relation /\ term[c][2] \in Terms(term[c][1]))'
  BY <1>8, <1>12
<1> QED BY <1>3, <1>4, <1>5, <1>6, <1>7, <1>9, <1>10, <1>12, <1>13 DEF TypeOK

(* Every step of update keeps the types. *)
LEMMA TypeUpdate ==
  ASSUME TypeOK, Update
  PROVE  TypeOK'
<1> USE DEF sheetVars, prioVars, flowVars, loopVars
<1>1. CASE BeginUpdate
  <2>1. relation_count' \in [Cell -> Int]
    BY <1>1, RelationIndexType DEF BeginUpdate
  <2>2. \A c \in Cell : term'[c] = NoTerm
    BY <1>1 DEF BeginUpdate
  <2> QED BY <1>1, <2>1, <2>2 DEF BeginUpdate, TypeOK, Relation, Terms
<1>2. ASSUME NEW r \in Relation, ConditionalHolds(r) PROVE TypeOK'
  <2>1. r \in Nat
    BY ClauseType
  <2> QED BY <1>2, <2>1 DEF ConditionalHolds, TypeOK, Relation, Terms
<1>3. ASSUME NEW r \in Relation, ConditionalFails(r) PROVE TypeOK'
  <2>1. r \in Nat
    BY ClauseType
  <2>2. \A c \in Cell : relation_count[c] \in Int /\ relation_count[c] - 1 \in Int
    BY DEF TypeOK
  <2>3. relation_count' \in [Cell -> Int]
    BY <1>3, <2>2 DEF ConditionalFails
  <2> QED BY <1>3, <2>1, <2>3 DEF ConditionalFails, TypeOK, Relation, Terms
<1>13. CASE ConditionalThrows
  BY <1>13 DEF ConditionalThrows, TypeOK, Relation, Terms
<1>14. CASE EndConditionals
  BY <1>14 DEF EndConditionals, TypeOK, Relation, Terms
<1>4. CASE BeginFlow
  <2> DEFINE cells == UNION {Edges(r) : r \in Relation \ rel_resolved}
  <2>1. cells \in SUBSET Cell
    BY ClauseType
  <2>2. stack' \in Seq(Cell) /\ priority_accessed' \subseteq Cell
    BY <1>4, <2>1, SortedListingType, ListingType DEF BeginFlow
  <2> QED BY <1>4, <2>2 DEF BeginFlow, TypeOK, Relation, Terms
<1>5. ASSUME stack # <<>>
      PROVE  Top \in Cell /\ Popped \in Seq(Cell)
  <2>1. stack \in Seq(Cell) /\ Len(stack) \in Nat /\ Len(stack) # 0
    BY <1>5 DEF TypeOK
  <2>2. \A i \in 1..Len(stack) - 1 : stack[i] \in Cell
    BY <2>1
  <2>3. Popped \in Seq(Cell)
    BY <2>1, <2>2, SubSeqProperties DEF Popped
  <2> QED BY <2>1, <2>3 DEF Top
<1>6. CASE SkipCell
  BY <1>5, <1>6 DEF SkipCell, TypeOK, Relation, Terms
<1>7. CASE PopCell
  BY <1>5, <1>7 DEF PopCell, TypeOK, Relation, Terms
<1>8. ASSUME NEW r \in Relation, PassRelation(r) PROVE TypeOK'
  <2>1. r \in Nat
    BY ClauseType
  <2>2. relation_count' \in [Cell -> Int]
    <3>1. relation_count' = [relation_count EXCEPT ![cell] = @ - 1] /\ relation_count \in [Cell -> Int]
      BY <1>8 DEF PassRelation, TypeOK
    <3>2. \A c \in Cell : relation_count[c] \in Int /\ relation_count[c] - 1 \in Int
      BY <3>1
    <3> QED BY <3>1, <3>2
  <2> QED BY <1>8, <2>1, <2>2 DEF PassRelation, VisitsNext, TypeOK, Relation, Terms
<1>9. ASSUME NEW r \in Relation, ApplyRelation(r) PROVE TypeOK'
  BY <1>9, ApplyType DEF TypeOK
<1>10. CASE EndCell
  BY <1>10 DEF EndCell, TypeOK, Relation, Terms
<1>11. CASE EndFlow
  BY <1>11 DEF EndFlow, TypeOK, Relation, Terms
<1>12. CASE EndUpdate
  BY <1>12 DEF EndUpdate, TypeOK, Relation, Terms
<1> QED
  BY <1>1, <1>2, <1>3, <1>4, <1>6, <1>7, <1>8, <1>9, <1>10, <1>11, <1>12, <1>13, <1>14
  DEF Update, Conditionals, Flow

(* TypeOK is inductive. *)
LEMMA TypeKept == TypeOK /\ [Next]_vars => TypeOK'
<1> SUFFICES ASSUME TypeOK, [Next]_vars PROVE TypeOK'
  OBVIOUS
<1>1. CASE UNCHANGED vars
  BY <1>1 DEF vars, sheetVars, prioVars, flowVars, loopVars, TypeOK, Relation, Terms
<1> QED BY <1>1, TypeClient, TypeUpdate DEF Next

(* Every variable of the flow solver keeps its type, in every sheet. *)
THEOREM TypeCorrect == Spec => []TypeOK
<1>1. Init => TypeOK
  BY DEF Init, TypeOK, Relation, NoTerm
<1> QED BY <1>1, TypeKept, PTL DEF Spec

-----------------------------------------------------------------------------
(* CountExact is inductive once it is known between which steps a cell's relations
   are read, and that no relation is resolved before its conditional is reached. *)
CellRead ==
  /\ phase = "visit" => cell \in resolved
  /\ phase # "visit" => cell = NoCell

(* While conditionals are evaluated no cell is resolved, and only relations that
   have been evaluated are. *)
CountStart ==
  phase = "conditionals" => resolved = {} /\ \A r \in rel_resolved : r < visit

Steady == TypeOK /\ CellRead /\ CountStart

Counted == \A c \in Cell : relation_count[c] = Held(c)

(* The inductive invariant behind CountExact. *)
CountInv == Steady /\ CountExact

(* Removing a relation that holds a cell takes one from the count. *)
LEMMA OneLess ==
  ASSUME TypeOK, NEW S \in SUBSET Relation, NEW r \in S
  PROVE  Cardinality(S \ {r}) = Cardinality(S) - 1
BY ClauseType, FS_Subset, FS_RemoveElement

(* Steps that leave the solver's bookkeeping alone. *)
LEMMA CountUnchanged ==
  ASSUME Counted, UNCHANGED <<relations, relation_count, resolved, rel_resolved, cell>>,
         visit' = visit \/ cell = NoCell
  PROVE  Counted'
<1>1. Relation' = Relation /\ (\A r : Terms(r)' = Terms(r)) /\ (\A r : Edges(r)' = Edges(r))
  BY DEF Relation, Terms, Edges
<1>2. \A c : RelationIndex(c)' = RelationIndex(c)
  BY <1>1 DEF RelationIndex
<1>3. cell # NoCell => ToVisit' = ToVisit
  BY <1>2 DEF ToVisit
<1>4. \A c \in Cell : Held(c)' = Held(c)
  BY <1>2, <1>3 DEF Held
<1> QED BY <1>4 DEF Counted

(* A relation whose conditional fails lets go of each cell it holds. *)
LEMMA Failing ==
  ASSUME Steady, Counted, NEW r \in Relation, ConditionalFails(r)
  PROVE  CellRead' /\ CountStart' /\ Counted'
<1> USE DEF sheetVars, prioVars, flowVars, loopVars
<1>1. TypeOK /\ cell = NoCell /\ resolved = {} /\ phase = "conditionals" /\ r \in Unsolved
  BY DEF Steady, CellRead, CountStart, ConditionalFails, SolvesNext
<1>2. /\ UNCHANGED <<relations, resolved, cell, phase>> /\ visit' = r + 1
      /\ rel_resolved' = rel_resolved \cup {r}
      /\ relation_count' = [c \in Cell |-> IF c \in Edges(r) THEN relation_count[c] - 1
                                                             ELSE relation_count[c]]
  BY DEF ConditionalFails
<1>3. r \in Nat /\ visit \in Nat /\ r >= visit /\ \A q \in rel_resolved : q \in Nat /\ q < visit
  BY <1>1, ClauseType DEF Unsolved, TypeOK, Steady, CountStart
<1>4. r \notin rel_resolved
  BY <1>3
<1>5. CellRead' /\ CountStart'
  BY <1>1, <1>2, <1>3 DEF CellRead, CountStart
<1>6. Relation' = Relation /\ (\A q : Terms(q)' = Terms(q)) /\ (\A q : Edges(q)' = Edges(q))
  BY <1>2 DEF Relation, Terms, Edges
<1>7. \A c : RelationIndex(c)' = RelationIndex(c)
  BY <1>6 DEF RelationIndex
<1>8. SUFFICES ASSUME NEW c \in Cell
               PROVE  relation_count'[c] = Held(c)'
  BY <1>5 DEF Counted
<1>9. relation_count[c] = Held(c)
  BY DEF Counted
<1>10. Held(c) = Cardinality(RelationIndex(c) \ rel_resolved)
  BY <1>1 DEF Held
<1>11. Held(c)' = Cardinality((RelationIndex(c) \ rel_resolved) \ {r})
  <2>1. RelationIndex(c)' \ rel_resolved' = (RelationIndex(c) \ rel_resolved) \ {r}
    BY <1>2, <1>7
  <2> QED BY <1>1, <1>2, <2>1 DEF Held
<1>12. CASE c \in Edges(r)
  <2>1. r \in RelationIndex(c) \ rel_resolved /\ RelationIndex(c) \ rel_resolved \in SUBSET Relation
    BY <1>4, <1>12 DEF RelationIndex
  <2>2. Held(c)' = Held(c) - 1
    BY <1>1, <1>10, <1>11, <2>1, OneLess
  <2> QED BY <1>2, <1>9, <1>12, <2>2
<1>13. CASE c \notin Edges(r)
  <2>1. (RelationIndex(c) \ rel_resolved) \ {r} = RelationIndex(c) \ rel_resolved
    BY <1>13 DEF RelationIndex
  <2>2. relation_count'[c] = relation_count[c]
    BY <1>2, <1>13
  <2> QED BY <1>9, <1>10, <1>11, <2>1, <2>2
<1> QED BY <1>12, <1>13

(* A relation that is passed over takes one from the count of the cell being read,
   which holds one relation less from then on. *)
LEMMA Passed ==
  ASSUME Steady, Counted, NEW r \in Relation, PassRelation(r)
  PROVE  Counted'
<1> USE DEF sheetVars, prioVars, flowVars, loopVars
<1>1. TypeOK /\ cell \in Cell /\ r \in Nat
  <2>1. TypeOK /\ cell \in resolved
    BY DEF Steady, CellRead, PassRelation, VisitsNext
  <2>2. r \in Nat
    BY <2>1, ClauseType
  <2> QED BY <2>1, <2>2 DEF TypeOK
<1>2. UNCHANGED <<relations, resolved, rel_resolved, cell, phase>> /\ visit' = r + 1
      /\ relation_count' = [relation_count EXCEPT ![cell] = @ - 1]
      /\ r \in ToVisit /\ \A q \in ToVisit : r <= q
  BY DEF PassRelation, VisitsNext
<1>3. Relation' = Relation /\ (\A q : Terms(q)' = Terms(q)) /\ (\A q : Edges(q)' = Edges(q))
  BY <1>2 DEF Relation, Terms, Edges
<1>4. \A c : RelationIndex(c)' = RelationIndex(c)
  BY <1>3 DEF RelationIndex
<1>5. ToVisit' = ToVisit \ {r} /\ ToVisit \in SUBSET Relation
  <2>1. Relation \subseteq Nat
    BY <1>1, ClauseType
  <2>2. RelationIndex(cell)' = RelationIndex(cell)
    BY <1>2, <1>4
  <2>3. ToVisit' = {q \in RelationIndex(cell) : q >= r + 1 /\ q \notin rel_resolved}
    BY <1>2, <2>2 DEF ToVisit
  <2>4. \A q \in RelationIndex(cell) : q \in Nat
    BY <2>1 DEF RelationIndex
  <2>5. \A q \in ToVisit : q \in Nat /\ q >= visit /\ visit \in Nat
    BY <2>4, <1>1 DEF ToVisit, TypeOK
  <2>6. \A q : q \in ToVisit' <=> q \in ToVisit /\ q # r
    <3>1. ToVisit = {q \in RelationIndex(cell) : q >= visit /\ q \notin rel_resolved}
      BY DEF ToVisit
    <3>2. ASSUME NEW q \in RelationIndex(cell), q \notin rel_resolved
          PROVE  q >= r + 1 <=> (q >= visit /\ q # r)
      <4>1. q \in Nat /\ r \in Nat /\ visit \in Nat /\ r >= visit
        BY <2>4, <2>5, <1>1, <1>2, <3>2
      <4>2. q >= visit => r <= q
        BY <3>1, <3>2, <1>2
      <4> QED BY <4>1, <4>2
    <3> QED BY <2>3, <3>1, <3>2
  <2>7. ToVisit \in SUBSET Relation
    BY DEF ToVisit, RelationIndex
  <2> QED BY <2>6, <2>7
<1>6. SUFFICES ASSUME NEW c \in Cell
               PROVE  relation_count'[c] = Held(c)'
  BY DEF Counted
<1>7. relation_count[c] = Held(c)
  BY DEF Counted
<1>8. CASE c = cell
  <2>1. Held(c)' = Cardinality(ToVisit') /\ relation_count[c] = Cardinality(ToVisit)
    BY <1>2, <1>7, <1>8 DEF Held
  <2>2. relation_count'[c] = relation_count[c] - 1
    BY <1>1, <1>2, <1>8 DEF TypeOK
  <2>3. Cardinality(ToVisit \ {r}) = Cardinality(ToVisit) - 1
    BY <1>1, <1>2, <1>5, OneLess
  <2> QED BY <2>1, <2>2, <2>3, <1>5
<1>9. CASE c # cell
  <2>1. Held(c)' = Held(c)
    BY <1>2, <1>4, <1>9 DEF Held
  <2>2. relation_count'[c] = relation_count[c]
    BY <1>1, <1>2, <1>9 DEF TypeOK
  <2> QED BY <2>1, <2>2, <1>7
<1> QED BY <1>8, <1>9

(* A relation that is applied is let go by every one of its cells: by the derived
   ones, by the cell being read, and by those of the other terms. *)
LEMMA Applied ==
  ASSUME Steady, Counted, NEW r \in Relation, ApplyRelation(r), Disjoint(r)
  PROVE  Counted' /\ cell \in resolved'
<1> USE DEF sheetVars, prioVars, flowVars, loopVars
<1>1. TypeOK /\ cell \in Cell /\ cell \in resolved /\ r \in Nat
  <2>1. TypeOK /\ cell \in resolved
    BY DEF Steady, CellRead, ApplyRelation, VisitsNext
  <2>2. r \in Nat
    BY <2>1, ClauseType
  <2> QED BY <2>1, <2>2 DEF TypeOK
<1>2. PICK t \in OpenTerms(r) :
        /\ rel_resolved' = rel_resolved \cup {r}
        /\ relation_count' = CountAfter(r, t)
        /\ resolved' = resolved \cup (t \ StillAttached(t))
  BY DEF ApplyRelation
<1>3. UNCHANGED <<relations, cell, phase>> /\ visit' = r + 1
      /\ r \in ToVisit /\ \A q \in ToVisit : r <= q
  BY DEF ApplyRelation, VisitsNext
<1>4. Relation' = Relation /\ (\A q : Terms(q)' = Terms(q)) /\ (\A q : Edges(q)' = Edges(q))
  BY <1>3 DEF Relation, Terms, Edges
<1>5. \A c : RelationIndex(c)' = RelationIndex(c)
  BY <1>4 DEF RelationIndex
<1>6. ToVisit' = ToVisit \ {r} /\ ToVisit \in SUBSET Relation
  <2>1. Relation \subseteq Nat
    BY <1>1, ClauseType
  <2>2. RelationIndex(cell)' = RelationIndex(cell)
    BY <1>3, <1>5
  <2>3. ToVisit' = {q \in RelationIndex(cell) : q >= r + 1 /\ q \notin rel_resolved \cup {r}}
    BY <1>2, <1>3, <2>2 DEF ToVisit
  <2>4. \A q \in RelationIndex(cell) : q \in Nat
    BY <2>1 DEF RelationIndex
  <2>5. \A q \in ToVisit : q \in Nat /\ q >= visit /\ visit \in Nat
    BY <2>4, <1>1 DEF ToVisit, TypeOK
  <2>6. \A q : q \in ToVisit' <=> q \in ToVisit /\ q # r
    <3>1. ToVisit = {q \in RelationIndex(cell) : q >= visit /\ q \notin rel_resolved}
      BY DEF ToVisit
    <3>2. ASSUME NEW q \in RelationIndex(cell), q \notin rel_resolved
          PROVE  q >= r + 1 <=> (q >= visit /\ q # r)
      <4>1. q \in Nat /\ r \in Nat /\ visit \in Nat /\ r >= visit
        BY <2>4, <2>5, <1>1, <1>3, <3>2
      <4>2. q >= visit => r <= q
        BY <3>1, <3>2, <1>3
      <4> QED BY <4>1, <4>2
    <3> QED BY <2>3, <3>1, <3>2
  <2>7. ToVisit \in SUBSET Relation
    BY DEF ToVisit, RelationIndex
  <2> QED BY <2>6, <2>7
<1>7. r \notin rel_resolved /\ r \in RelationIndex(cell)
  BY <1>3 DEF ToVisit
<1>8. t \in Terms(r) /\ t \subseteq Cell /\ t \cap resolved = {} /\ cell \notin t
  BY <1>1, ClauseType DEF OpenTerms
<1>9. SUFFICES ASSUME NEW c \in Cell
               PROVE  relation_count'[c] = Held(c)'
  BY <1>1, <1>2 DEF Counted
<1>10. (\A d \in Cell : relation_count[d] = Held(d)) /\ Disjoint(r)
  BY DEF Counted
<1> DEFINE others == UNION (Terms(r) \ {t})
<1>11. t \cap others = {} /\ Edges(r) = t \cup others
  BY <1>8, <1>10 DEF Disjoint, Edges
<1>12. relation_count'[c] =
         IF c \in t \cup {cell} THEN relation_count[c] - 1
         ELSE IF c \in others \ resolved THEN relation_count[c] - 1
         ELSE relation_count[c]
  <2>1. c \in others => (c \in others \ (resolved \cup (t \ StillAttached(t))) <=> c \notin resolved)
    BY <1>11
  <2>2. c \in t \cup {cell} => c \notin others \ (resolved \cup (t \ StillAttached(t)))
    BY <1>1, <1>11
  <2>3. relation_count'[c] =
          LET n == IF c \in t \cup {cell} THEN relation_count[c] - 1 ELSE relation_count[c]
          IN  IF c \in others \ (resolved \cup (t \ StillAttached(t))) THEN n - 1 ELSE n
    <3> DEFINE derived == [x \in Cell |-> IF x \in t \cup {cell} THEN relation_count[x] - 1
                                                                ELSE relation_count[x]]
               still == others \ (resolved \cup (t \ StillAttached(t)))
    <3>1. CountAfter(r, t) = [x \in Cell |-> IF x \in still THEN derived[x] - 1 ELSE derived[x]]
      BY DEF CountAfter
    <3>2. CountAfter(r, t)[c] = IF c \in still THEN derived[c] - 1 ELSE derived[c]
      BY <3>1
    <3> QED BY <1>2, <3>2
  <2> QED BY <2>1, <2>2, <2>3
<1>13. RelationIndex(c) \in SUBSET Relation /\ RelationIndex(c) \ rel_resolved \in SUBSET Relation
       /\ (r \in RelationIndex(c) <=> c \in Edges(r))
  BY DEF RelationIndex
<1>14. (RelationIndex(c) \ rel_resolved)' = (RelationIndex(c) \ rel_resolved) \ {r}
  BY <1>2, <1>5
<1>15. CASE c = cell
  <2>1. Held(c)' = Cardinality(ToVisit') /\ relation_count[c] = Cardinality(ToVisit)
    BY <1>3, <1>10, <1>15 DEF Held
  <2>2. Cardinality(ToVisit \ {r}) = Cardinality(ToVisit) - 1
    BY <1>1, <1>3, <1>6, OneLess
  <2> QED BY <1>12, <1>15, <1>6, <2>1, <2>2
<1>16. CASE c # cell /\ c \in resolved
  <2>1. c \notin t /\ c \in resolved'
    BY <1>2, <1>8, <1>16
  <2>2. relation_count'[c] = relation_count[c]
    BY <1>12, <1>16, <2>1
  <2> QED BY <1>3, <1>10, <1>16, <2>1, <2>2 DEF Held
<1>17. CASE c # cell /\ c \notin resolved /\ c \in Edges(r)
  <2>1. relation_count[c] = Cardinality(RelationIndex(c) \ rel_resolved)
    BY <1>10, <1>17 DEF Held
  <2>2. Cardinality((RelationIndex(c) \ rel_resolved) \ {r})
          = Cardinality(RelationIndex(c) \ rel_resolved) - 1
    BY <1>1, <1>7, <1>13, <1>17, OneLess
  <2>3. relation_count'[c] = relation_count[c] - 1
    BY <1>11, <1>12, <1>17
  <2>4. relation_count'[c] = Cardinality((RelationIndex(c) \ rel_resolved)')
    BY <1>14, <2>1, <2>2, <2>3
  <2>5. CASE c \in resolved'
    <3>1. c \in t /\ relation_count[c] = 1
      BY <1>2, <1>17, <2>5 DEF StillAttached
    <3> QED BY <1>3, <1>17, <2>3, <2>5, <3>1 DEF Held
  <2>6. CASE c \notin resolved'
    BY <1>3, <1>17, <2>4, <2>6 DEF Held
  <2> QED BY <2>5, <2>6
<1>18. CASE c # cell /\ c \notin resolved /\ c \notin Edges(r)
  <2>1. c \notin t /\ c \notin others /\ c \notin resolved'
    BY <1>2, <1>11, <1>18
  <2>2. relation_count'[c] = relation_count[c]
    BY <1>12, <1>18, <2>1
  <2>3. (RelationIndex(c) \ rel_resolved) \ {r} = RelationIndex(c) \ rel_resolved
    BY <1>13, <1>18
  <2>4. relation_count[c] = Cardinality(RelationIndex(c) \ rel_resolved)
    BY <1>10, <1>18 DEF Held
  <2> QED BY <1>3, <1>14, <1>18, <2>1, <2>2, <2>3, <2>4 DEF Held
<1> QED BY <1>15, <1>16, <1>17, <1>18

(* A cell is popped with as many relations to read as it is held by. *)
LEMMA Popping ==
  ASSUME Steady, Counted, PopCell
  PROVE  CellRead' /\ CountStart' /\ Counted'
<1> USE DEF sheetVars, prioVars, flowVars, loopVars
<1>1. TypeOK /\ stack # <<>> /\ phase = "pop" /\ cell = NoCell
  BY DEF Steady, CellRead, PopCell
<1>2. Top \in Cell
  <2>1. stack \in Seq(Cell) /\ Len(stack) \in Nat /\ Len(stack) # 0
    BY <1>1 DEF TypeOK
  <2> QED BY <2>1 DEF Top
<1>3. /\ cell' = Top /\ visit' = 1 /\ resolved' = resolved \cup {Top} /\ phase' = "visit"
      /\ UNCHANGED <<relations, relation_count, rel_resolved>>
      /\ relation_count[Top] # 0
  BY DEF PopCell
<1>4. CellRead' /\ CountStart'
  BY <1>3 DEF CellRead, CountStart
<1>5. Relation' = Relation /\ (\A r : Terms(r)' = Terms(r)) /\ (\A r : Edges(r)' = Edges(r))
  BY <1>3 DEF Relation, Terms, Edges
<1>6. \A c : RelationIndex(c)' = RelationIndex(c)
  BY <1>5 DEF RelationIndex
<1>7. ToVisit' = RelationIndex(Top) \ rel_resolved
  <2>1. RelationIndex(cell)' = RelationIndex(Top)
    BY <1>3 DEF RelationIndex, Relation, Edges, Terms
  <2>2. ToVisit' = {q \in RelationIndex(Top) : q >= 1 /\ q \notin rel_resolved}
    BY <1>3, <2>1 DEF ToVisit
  <2>3. \A q \in RelationIndex(Top) : q \in Nat /\ q >= 1
    BY <1>1, ClauseType DEF RelationIndex
  <2> QED BY <2>2, <2>3
<1>8. SUFFICES ASSUME NEW c \in Cell
               PROVE  relation_count'[c] = Held(c)'
  BY <1>4 DEF Counted
<1>9. \A d \in Cell : relation_count[d] = Held(d)
  BY DEF Counted
<1>10. CASE c = Top
  <2>1. c # cell /\ c \notin resolved
    BY <1>1, <1>2, <1>3, <1>9, <1>10 DEF Held
  <2>2. relation_count[c] = Cardinality(RelationIndex(c) \ rel_resolved)
    BY <1>9, <2>1 DEF Held
  <2> QED BY <1>3, <1>7, <1>10, <2>2 DEF Held
<1>11. CASE c # Top
  <2>1. Held(c) = IF c \in resolved THEN 0 ELSE Cardinality(RelationIndex(c) \ rel_resolved)
    BY <1>1 DEF Held
  <2>2. Held(c)' = IF c \in resolved THEN 0 ELSE Cardinality(RelationIndex(c) \ rel_resolved)
    BY <1>3, <1>6, <1>11 DEF Held
  <2> QED BY <1>3, <1>9, <2>1, <2>2
<1> QED BY <1>10, <1>11

(* A cell is let go when no relation of it is left to read. *)
LEMMA Ending ==
  ASSUME Steady, Counted, EndCell
  PROVE  CellRead' /\ CountStart' /\ Counted'
<1> USE DEF sheetVars, prioVars, flowVars, loopVars
<1>1. TypeOK /\ cell \in resolved /\ phase = "visit" /\ ToVisit = {}
  BY DEF Steady, CellRead, EndCell
<1>2. cell' = NoCell /\ phase' = "pop"
      /\ UNCHANGED <<relations, relation_count, resolved, rel_resolved>>
  BY DEF EndCell
<1>3. CellRead' /\ CountStart'
  BY <1>2 DEF CellRead, CountStart
<1>4. Relation' = Relation /\ (\A r : Terms(r)' = Terms(r)) /\ (\A r : Edges(r)' = Edges(r))
  BY <1>2 DEF Relation, Terms, Edges
<1>5. \A c : RelationIndex(c)' = RelationIndex(c)
  BY <1>4 DEF RelationIndex
<1>6. SUFFICES ASSUME NEW c \in Cell
               PROVE  relation_count'[c] = Held(c)'
  BY <1>3 DEF Counted
<1>7. \A d \in Cell : relation_count[d] = Held(d)
  BY DEF Counted
<1>8. Held(c)' = IF c \in resolved THEN 0 ELSE Cardinality(RelationIndex(c) \ rel_resolved)
  BY <1>2, <1>5 DEF Held
<1>9. CASE c = cell
  BY <1>1, <1>2, <1>7, <1>8, <1>9, FS_EmptySet DEF Held
<1>10. CASE c # cell
  BY <1>2, <1>7, <1>8, <1>10 DEF Held
<1> QED BY <1>9, <1>10

(* Every step of update keeps track of the cell that is read. *)
LEMMA ReadUpdate ==
  ASSUME Steady, Update
  PROVE  CellRead' /\ CountStart'
<1> USE DEF CellRead, CountStart
<1>t. TypeOK
  BY DEF Steady
<1>1. CASE BeginUpdate
  BY <1>1 DEF BeginUpdate, Steady
<1>2. ASSUME NEW r \in Relation, ConditionalHolds(r) \/ ConditionalFails(r)
      PROVE  CellRead' /\ CountStart'
  <2>1. /\ phase = "conditionals" /\ phase' = phase /\ cell = NoCell /\ cell' = cell
        /\ visit' = r + 1 /\ r \in Unsolved /\ resolved' = resolved
        /\ rel_resolved' \subseteq rel_resolved \cup {r}
    BY <1>2 DEF ConditionalHolds, ConditionalFails, SolvesNext, Steady, flowVars
  <2>2. r \in Nat /\ visit \in Nat /\ r >= visit /\ \A q \in rel_resolved : q \in Nat /\ q < visit
    <3>1. r >= visit
      BY <2>1 DEF Unsolved
    <3>2. visit \in Nat /\ rel_resolved \subseteq Relation
      BY <1>t DEF TypeOK
    <3>3. \A q \in rel_resolved : q < visit
      BY <2>1 DEF Steady
    <3>4. \A q \in Relation : q \in Nat
      BY <1>t, ClauseType
    <3> QED BY <3>1, <3>2, <3>3, <3>4
  <2>3. resolved = {}
    BY <2>1 DEF Steady
  <2> QED BY <2>1, <2>2, <2>3
<1>3. CASE ConditionalThrows \/ EndConditionals \/ BeginFlow \/ SkipCell \/ EndFlow \/ EndUpdate
  BY <1>3 DEF ConditionalThrows, EndConditionals, BeginFlow, SkipCell, EndFlow, EndUpdate, Steady,
              loopVars
<1>4. CASE PopCell \/ EndCell
  BY <1>4 DEF PopCell, EndCell
<1>5. ASSUME NEW r \in Relation, PassRelation(r) \/ ApplyRelation(r)
      PROVE  CellRead' /\ CountStart'
  <2>1. phase' = "visit" /\ cell' = cell /\ phase = "visit" /\ resolved \subseteq resolved'
    BY <1>5 DEF PassRelation, ApplyRelation, VisitsNext
  <2> QED BY <2>1 DEF Steady
<1> QED BY <1>1, <1>2, <1>3, <1>4, <1>5 DEF Update, Conditionals, Flow

(* Every step of update keeps the counts exact, if the clauses it may still apply
   have terms that share no cell. *)
LEMMA CountUpdate ==
  ASSUME Steady, Update, phase # "idle" => Counted,
         phase = "visit" => \A r \in Relation \ rel_resolved : Disjoint(r)
  PROVE  phase' # "idle" => Counted'
<1> USE DEF sheetVars, prioVars, flowVars, loopVars
<1>t. TypeOK
  BY DEF Steady
<1>1. CASE BeginUpdate
  <2>1. /\ phase' = "conditionals" /\ cell' = NoCell /\ resolved' = {} /\ rel_resolved' = {}
        /\ relations' = relations
        /\ relation_count' = [c \in Cell |-> Cardinality(RelationIndex(c))]
    BY <1>1 DEF BeginUpdate, Steady, CellRead
  <2>2. \A c \in Cell : RelationIndex(c)' \ rel_resolved' = RelationIndex(c)
    BY <2>1 DEF RelationIndex, Relation, Edges, Terms
  <2>3. \A c \in Cell : c # cell' /\ c \notin resolved'
    BY <2>1
  <2>4. \A c \in Cell : Held(c)' = Cardinality(RelationIndex(c))
    BY <2>2, <2>3 DEF Held
  <2> QED BY <2>1, <2>4 DEF Counted
<1>2. ASSUME NEW r \in Relation, ConditionalHolds(r)
      PROVE  Counted'
  <2>1. /\ phase = "conditionals" /\ cell = NoCell
        /\ UNCHANGED <<relations, relation_count, resolved, rel_resolved, cell>>
    BY <1>2 DEF ConditionalHolds, SolvesNext, Steady, CellRead
  <2> QED BY <2>1, CountUnchanged
<1>3. ASSUME NEW r \in Relation, ConditionalFails(r)
      PROVE  Counted'
  <2>1. phase = "conditionals"
    BY <1>3 DEF ConditionalFails, SolvesNext
  <2> QED BY <1>3, <2>1, Failing
<1>4. CASE EndConditionals \/ BeginFlow \/ SkipCell \/ EndFlow
  <2>1. /\ phase # "idle" /\ cell = NoCell
        /\ UNCHANGED <<relations, relation_count, resolved, rel_resolved, cell>>
    BY <1>4 DEF EndConditionals, BeginFlow, SkipCell, EndFlow, Steady, CellRead
  <2> QED BY <2>1, CountUnchanged
<1>5. CASE PopCell
  <2>1. phase = "pop"
    BY <1>5 DEF PopCell
  <2> QED BY <1>5, <2>1, Popping
<1>6. ASSUME NEW r \in Relation, PassRelation(r) \/ ApplyRelation(r)
      PROVE  Counted'
  <2>1. phase = "visit" /\ r \notin rel_resolved
    BY <1>6 DEF PassRelation, ApplyRelation, VisitsNext, ToVisit
  <2> QED BY <1>6, <2>1, Passed, Applied
<1>7. CASE EndCell
  <2>1. phase = "visit"
    BY <1>7 DEF EndCell
  <2> QED BY <1>7, <2>1, Ending
<1>8. CASE ConditionalThrows \/ EndUpdate
  BY <1>8 DEF ConditionalThrows, EndUpdate
<1> QED BY <1>1, <1>2, <1>3, <1>4, <1>5, <1>6, <1>7, <1>8 DEF Update, Conditionals, Flow

(* The calls of a client leave update alone. *)
LEMMA ReadClient ==
  ASSUME Steady, Client
  PROVE  CellRead' /\ CountStart' /\ phase = "idle" /\ phase' = "idle"
<1>1. phase' = "idle" /\ phase = "idle" /\ cell' = cell
  BY DEF Client, AddInterface, AddInterfaceRefused, AddRelation, Set, SetInput, Touch,
         Reinitialize, loopVars
<1> QED BY <1>1 DEF Steady, CellRead, CountStart

(* Steady is inductive. *)
LEMMA SteadyKept == Steady /\ [Next]_vars => Steady'
<1> SUFFICES ASSUME Steady, [Next]_vars PROVE Steady'
  OBVIOUS
<1>1. TypeOK'
  BY TypeKept DEF Steady
<1>2. CASE UNCHANGED vars
  BY <1>1, <1>2 DEF Steady, CellRead, CountStart, vars, flowVars, loopVars
<1>3. CASE Client
  BY <1>1, <1>3, ReadClient DEF Steady
<1>4. CASE Update
  BY <1>1, <1>4, ReadUpdate DEF Steady
<1> QED BY <1>2, <1>3, <1>4 DEF Next

LEMMA InitSteady == Init => Steady
<1>1. Init => TypeOK
  BY DEF Init, TypeOK, Relation, NoTerm
<1> QED BY <1>1 DEF Init, Steady, CellRead, CountStart

(* update leaves the sheet alone. *)
LEMMA SheetUnchanged ==
  ASSUME Update
  PROVE  UNCHANGED sheetVars
BY DEF Update, Conditionals, Flow, BeginUpdate, ConditionalHolds, ConditionalFails,
       ConditionalThrows, EndConditionals, BeginFlow, SkipCell, PopCell, PassRelation,
       ApplyRelation, EndCell, EndFlow, EndUpdate

(* The strengthening is inductive. *)
LEMMA CountInvariant == Spec => []CountInv
<1>1. Init => CountInv
  BY InitSteady DEF Init, CountInv, CountExact, Counting
<1>2. CountInv /\ [Next]_vars => CountInv'
  <2> SUFFICES ASSUME CountInv, [Next]_vars PROVE CountInv'
    OBVIOUS
  <2>1. Steady /\ Steady'
    BY SteadyKept DEF CountInv
  <2>2. CASE Client
    BY <2>1, <2>2, ReadClient DEF CountInv, CountExact, Counting
  <2>3. CASE Update
    <3> SUFFICES ASSUME Counting' PROVE Counted'
      BY <2>1 DEF CountInv, CountExact, Counted
    <3>1. \A r \in Relation : Disjoint(r)
      BY <2>3, SheetUnchanged DEF sheetVars, Counting, Disjoint, Relation, Terms
    <3>2. phase # "idle" => Counting
      BY <2>1, <3>1 DEF Steady, TypeOK, Counting
    <3>3. phase # "idle" => Counted
      BY <3>2 DEF CountInv, CountExact, Counted
    <3>4. phase' # "idle"
      BY DEF Counting
    <3> QED BY <2>1, <2>3, <3>1, <3>3, <3>4, CountUpdate
  <2>4. CASE UNCHANGED vars
    <3>1. UNCHANGED <<relations, relation_count, resolved, rel_resolved, cell, visit, phase>>
      BY <2>4 DEF vars, sheetVars, flowVars, loopVars
    <3> SUFFICES ASSUME Counting' PROVE Counted'
      BY <2>1 DEF CountInv, CountExact, Counted
    <3>2. Counting
      BY <3>1 DEF Counting, Relation, Disjoint, Terms
    <3> QED BY <3>1, <3>2, CountUnchanged DEF CountInv, CountExact, Counted
  <2> QED BY <2>2, <2>3, <2>4 DEF Next
<1> QED BY <1>1, <1>2, PTL DEF Spec

(* The count of every cell is exact in every sheet whose clauses' terms share no
   cell: relation_count_m never underflows. *)
THEOREM CountsExact == Spec => []CountExact
<1>1. CountInv => CountExact
  BY DEF CountInv
<1> QED BY <1>1, CountInvariant, PTL

(* If no two terms of a clause share a cell, the assertion at the end of flow's loop,
   "Cell still belongs to relation but all relations resolved.", always holds. *)
THEOREM CellsLetGo ==
  ASSUME \A s \in Shapes : \A t, u \in s : t # u => t \cap u = {}
  PROVE  Spec => []CellLetGo
<1>1. CountInv => CellLetGo
  <2> SUFFICES ASSUME CountInv, phase = "visit", ToVisit = {}
               PROVE  relation_count[cell] = 0
    BY DEF CellLetGo
  <2>1. TypeOK /\ cell \in Cell
    BY DEF CountInv, Steady, CellRead, TypeOK
  <2>2. \A r \in Relation : Disjoint(r)
    BY <2>1, ClauseType DEF Disjoint
  <2>3. relation_count[cell] = Held(cell)
    BY <2>1, <2>2 DEF CountInv, CountExact, Counting
  <2> QED BY <2>3, FS_EmptySet DEF Held
<1> QED BY <1>1, CountInvariant, PTL

-----------------------------------------------------------------------------
(* What the flow works on are cells of the sheet, and not all of them are derived:
   the cell whose relations were read first keeps its own value. *)
Within ==
  /\ \A r \in Relation : Edges(r) \subseteq interface
  /\ resolved \subseteq interface
  /\ stack \in Seq(interface)
  /\ \A c \in Cell : term[c] # NoTerm => c \in interface
Deriving == \E c \in Cell : term[c] # NoTerm
Sourced == phase = "visit" \/ Deriving => \E c \in resolved : term[c] = NoTerm

LEMMA SourcedUpdate ==
  ASSUME TypeOK, Within, Sourced, Update
  PROVE  Within' /\ Sourced'
<1> USE DEF sheetVars, prioVars, flowVars, loopVars
<1>1. UNCHANGED <<interface, linked, relations>>
  BY SheetUnchanged
<1>2. Relation' = Relation /\ \A r : Edges(r)' = Edges(r)
  BY <1>1 DEF Relation, Edges, Terms
<1>3. \A r \in Relation' : Edges(r)' \subseteq interface'
  BY <1>1, <1>2 DEF Within
<1>4. ASSUME UNCHANGED <<resolved, term, stack>>, phase' # "visit" \/ phase = "visit"
      PROVE  Within' /\ Sourced'
  BY <1>1, <1>3, <1>4 DEF Within, Sourced, Deriving
<1>5. CASE BeginUpdate
  <2>1. /\ resolved' = {} /\ term' = [c \in Cell |-> NoTerm] /\ stack' = stack /\ phase' = "conditionals"
    BY <1>5 DEF BeginUpdate
  <2> QED BY <1>1, <1>3, <2>1 DEF Within, Sourced, Deriving
<1>6. CASE Conditionals
  BY <1>4, <1>6 DEF Conditionals, ConditionalHolds, ConditionalFails, SolvesNext, ConditionalThrows,
                    EndConditionals
<1>7. CASE BeginFlow
  <2> DEFINE cells == UNION {Edges(r) : r \in Relation \ rel_resolved}
  <2>1. stack' \in SortedListings(cells) /\ phase' = "pop" /\ UNCHANGED <<resolved, term>>
    BY <1>7 DEF BeginFlow
  <2>2. cells \subseteq interface /\ cells \in SUBSET Cell
    BY DEF Within, TypeOK
  <2>3. stack' \in Seq(cells)
    BY <2>1, <2>2, SortedListingType, ListingType
  <2> QED BY <1>1, <1>3, <2>1, <2>2, <2>3 DEF Within, Sourced, Deriving
<1>8. CASE SkipCell \/ PopCell
  <2>1. /\ stack \in Seq(interface) /\ stack # <<>>
        /\ stack' = SubSeq(stack, 1, Len(stack) - 1) /\ term' = term
    BY <1>8 DEF SkipCell, PopCell, Popped, Within
  <2>2. Len(stack) \in 1..Len(stack) /\ stack[Len(stack)] \in interface
    BY <2>1
  <2>3. stack' \in Seq(interface)
    BY <2>1
  <2>4. CASE SkipCell
    BY <1>1, <1>3, <2>3, <2>4 DEF SkipCell, Within, Sourced, Deriving
  <2>5. CASE PopCell
    <3>1. resolved' = resolved \cup {stack[Len(stack)]} /\ phase' = "visit"
      BY <2>5 DEF PopCell, Top
    <3>2. stack[Len(stack)] \in Cell
      BY <2>2 DEF TypeOK
    <3>3. \E c \in resolved' : term'[c] = NoTerm
      BY <2>1, <3>1, <3>2 DEF Sourced, Deriving
    <3> QED BY <1>1, <1>3, <2>1, <2>2, <2>3, <3>1, <3>3 DEF Within, Sourced
  <2> QED BY <1>8, <2>4, <2>5
<1>9. ASSUME NEW r \in Relation, ApplyRelation(r) PROVE Within' /\ Sourced'
  <2>1. PICK t \in OpenTerms(r) :
          /\ term' = [c \in Cell |-> IF c \in t THEN <<r, t>> ELSE term[c]]
          /\ resolved' = resolved \cup (t \ StillAttached(t))
          /\ \E p \in Listings(StillAttached(t)) : stack' = stack \o p
    BY <1>9 DEF ApplyRelation
  <2>2. t \subseteq interface /\ t \cap resolved = {} /\ StillAttached(t) \in SUBSET Cell
    <3>1. t \in Terms(r) /\ t \cap resolved = {} /\ t \subseteq Edges(r)
      BY DEF OpenTerms, Edges
    <3> QED BY <3>1, ClauseType DEF Within, StillAttached
  <2>3. phase = "visit" /\ phase' = phase
    BY <1>9 DEF ApplyRelation, VisitsNext
  <2>4. stack' \in Seq(interface)
    <3>1. PICK p \in Listings(StillAttached(t)) : stack' = stack \o p
      BY <2>1
    <3>2. p \in Seq(StillAttached(t)) /\ StillAttached(t) \subseteq interface
      BY <2>2, ListingType DEF StillAttached
    <3>3. p \in Seq(interface) /\ stack \in Seq(interface)
      BY <3>2 DEF Within
    <3> QED BY <3>1, <3>3
  <2>5. PICK c \in resolved : term[c] = NoTerm
    BY <2>3 DEF Sourced
  <2>6. c \in resolved' /\ term'[c] = NoTerm
    BY <2>1, <2>2, <2>5 DEF TypeOK
  <2> QED BY <1>1, <1>3, <2>1, <2>2, <2>3, <2>4, <2>6 DEF Within, Sourced
<1>10. ASSUME NEW r \in Relation, PassRelation(r) PROVE Within' /\ Sourced'
  BY <1>4, <1>10 DEF PassRelation, VisitsNext
<1>11. CASE EndCell \/ EndFlow \/ EndUpdate
  BY <1>4, <1>11 DEF EndCell, EndFlow, EndUpdate
<1> QED BY <1>5, <1>6, <1>7, <1>8, <1>9, <1>10, <1>11 DEF Update, Flow

LEMMA SourcedClient ==
  ASSUME TypeOK, Within, Sourced, Client
  PROVE  Within' /\ Sourced'
<1> USE DEF sheetVars, prioVars, flowVars, loopVars
<1>1. UNCHANGED <<resolved, term, stack, phase>> /\ interface \subseteq interface'
  BY DEF Client, AddInterface, AddInterfaceRefused, AddRelation, Set, SetInput, Touch, Reinitialize
<1>2. \A r \in Relation' : Edges(r)' \subseteq interface'
  <2>1. CASE relations' = relations
    <3>1. Relation' = Relation /\ \A r : Edges(r)' = Edges(r)
      BY <2>1 DEF Relation, Edges, Terms
    <3> QED BY <1>1, <3>1 DEF Within
  <2>2. ASSUME NEW terms \in Shapes, NEW conditional \in BOOLEAN, AddRelation(terms, conditional)
        PROVE  \A r \in Relation' : Edges(r)' \subseteq interface'
    <3> DEFINE q == [terms |-> terms, conditional |-> conditional]
    <3>1. relations' = Append(relations, q) /\ UNION terms \subseteq interface
      BY <2>2 DEF AddRelation
    <3>2. relations \in Seq([terms : Shapes, conditional : BOOLEAN]) /\ q.terms = terms
      BY DEF TypeOK
    <3> HIDE DEF q
    <3>3. \A r \in DOMAIN relations' : \/ r \in DOMAIN relations /\ relations'[r] = relations[r]
                                      \/ relations'[r] = q
      BY <3>1, <3>2
    <3>4. ASSUME NEW r \in Relation' PROVE Edges(r)' \subseteq interface'
      <4>1. CASE r \in DOMAIN relations /\ relations'[r] = relations[r]
        BY <1>1, <4>1 DEF Within, Relation, Edges, Terms
      <4>2. CASE relations'[r] = q
        BY <1>1, <3>1, <3>2, <4>2 DEF Edges, Terms
      <4> QED BY <3>3, <4>1, <4>2 DEF Relation
    <3> QED BY <3>4
  <2> QED BY <2>1, <2>2 DEF Client, AddInterface, AddInterfaceRefused, Set, SetInput, Touch, Reinitialize
<1>3. stack' \in Seq(interface')
  BY <1>1 DEF Within
<1> QED BY <1>1, <1>2, <1>3 DEF Within, Sourced, Deriving

LEMMA FlowSourced == Spec => [](Within /\ Sourced)
<1>1. Init => TypeOK /\ Within /\ Sourced
  BY DEF Init, TypeOK, Relation, NoTerm, Within, Sourced, Deriving
<1>2. TypeOK /\ Within /\ Sourced /\ [Next]_vars => (TypeOK /\ Within /\ Sourced)'
  <2> SUFFICES ASSUME TypeOK, Within, Sourced, [Next]_vars PROVE Within' /\ Sourced'
    BY TypeKept
  <2>1. CASE UNCHANGED vars
    <3>1. UNCHANGED <<interface, relations, resolved, term, stack, phase>>
      BY <2>1 DEF vars, sheetVars, flowVars, loopVars
    <3> QED BY <3>1 DEF Within, Sourced, Deriving, Relation, Edges, Terms
  <2> QED BY <2>1, SourcedUpdate, SourcedClient DEF Next
<1> QED BY <1>1, <1>2, PTL DEF Spec
=============================================================================
