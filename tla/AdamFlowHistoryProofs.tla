----------------------- MODULE AdamFlowHistoryProofs -----------------------
(***************************************************************************)
(* What TLAPS proves of the outcome of a flow, for every set of cells and  *)
(* clauses and whatever the client does.  In any sheet no cell is derived  *)
(* from itself, and a derived linked cell ends below what derives it.      *)
(* Where the terms of the active clauses share no cell, tied together in   *)
(* cycles or not, no clause is found with all its terms resolved, each is  *)
(* applied once, and a cell gives up its value only to cells of no lower   *)
(* priority.                                                               *)
(***************************************************************************)
EXTENDS AdamFlowHistory, AdamFlowProofs

AllSingle == \A r \in Active : Single(r)

(* The cells of the clauses W, and whether those hang together: by as many shared
   cells, at least, as a tree has. *)
Cells(W) == UNION {Edges(r) : r \in W}
Connected(W) == Cardinality(Cells(W)) + Cardinality(W) <= Cardinality(Incidences(W)) + 1

(* What is applied: a clause with one of its terms, each clause once. *)
Ledger ==
  /\ off \subseteq rel_resolved
  /\ \A p \in applied : /\ p \in Relation \X SUBSET Cell
                        /\ p[1] \in rel_resolved \ off /\ p[2] \in Terms(p[1])
  /\ \A p, q \in applied : p[1] = q[1] => p = q
  /\ \A r \in rel_resolved \ off : \E p \in applied : p[1] = r
  /\ \A c \in Cell : term[c] # NoTerm => term[c] \in applied /\ c \in term[c][2]
  /\ phase \in {"conditionals", "flow"} => resolved = {} /\ rel_resolved = off

Booked == Steady /\ before \in [Cell -> Int] /\ Ledger

(* No priority is below priority_low. *)
Lowest == priority_low <= 0 /\ \A c \in Cell : priority_low <= priority[c]

(* With terms of one cell the other cells of an applied clause are resolved. *)
Contributors == AllSingle => \A p \in applied : Edges(p[1]) \ p[2] \subseteq resolved
Below ==
  phase # "idle" /\ AllSingle =>
    \A p \in applied : \A d \in p[2] \cap linked : \A x \in Edges(p[1]) \ p[2] :
      priority[d] < priority[x]
Acyclic ==
  AllSingle => \A S \in SUBSET Cell : S # {} => \E c \in S :
    term[c] # NoTerm => (Edges(term[c][1]) \ term[c][2]) \cap S = {}
SingleInv == Contributors /\ Below /\ Acyclic

(* Clause r derives the cells of its one open term t. *)
Derives(r, t) ==
  /\ phase = "visit" /\ phase' = "visit"
  /\ r \in ToVisit /\ r \in Active /\ r \notin rel_resolved
  /\ OpenTerms(r) = {t} /\ t \in Terms(r) /\ t # {} /\ t \subseteq Cell /\ t \cap resolved = {}
  /\ rel_resolved' = rel_resolved \cup {r}
  /\ term' = [c \in Cell |-> IF c \in t THEN <<r, t>> ELSE term[c]]
  /\ applied' = applied \cup {<<r, t>>}
  /\ resolved' = resolved \cup (t \ StillAttached(t))
  /\ \E p \in Listings(StillAttached(t)) : stack' = stack \o p
  /\ UNCHANGED <<interface, linked, relations, off, before, cell>>

-----------------------------------------------------------------------------
USE CellAssumption

(* Sizes of finite sets. *)
LEMMA PartOf ==
  ASSUME NEW S, IsFiniteSet(S), NEW T, T \subseteq S
  PROVE  /\ IsFiniteSet(T) /\ Cardinality(T) \in Nat /\ Cardinality(S) \in Nat
         /\ Cardinality(T) <= Cardinality(S)
<1>1. T \in SUBSET S
  OBVIOUS
<1> QED BY <1>1, FS_Subset, FS_CardinalityType

LEMMA DisjointUnion ==
  ASSUME NEW S, NEW T, IsFiniteSet(S), IsFiniteSet(T), S \cap T = {}
  PROVE  /\ IsFiniteSet(S \cup T)
         /\ Cardinality(S \cup T) = Cardinality(S) + Cardinality(T)
<1>1. /\ IsFiniteSet(S \cup T)
      /\ Cardinality(S \cup T) = Cardinality(S) + Cardinality(T) - Cardinality(S \cap T)
  BY FS_Union
<1>2. Cardinality(S \cap T) = 0
  BY FS_EmptySet
<1>3. Cardinality(S) \in Nat /\ Cardinality(T) \in Nat
  BY FS_CardinalityType
<1> QED BY <1>1, <1>2, <1>3

-----------------------------------------------------------------------------
(* Steps that leave the sheet alone, and which of its clauses are active. *)
LEMMA SameSheet ==
  ASSUME relations' = relations
  PROVE  /\ Relation' = Relation
         /\ \A r : /\ Terms(r)' = Terms(r) /\ Edges(r)' = Edges(r)
                   /\ Disjoint(r)' <=> Disjoint(r)
                   /\ Single(r)' <=> Single(r)
         /\ \A c : RelationIndex(c)' = RelationIndex(c)
         /\ \A W : /\ Cells(W)' = Cells(W) /\ Incidences(W)' = Incidences(W)
                   /\ Connected(W)' <=> Connected(W)
                   /\ Forest(W)' <=> Forest(W)
<1>1. Relation' = Relation /\ \A r : Terms(r)' = Terms(r)
  BY DEF Relation, Terms
<1>2. \A r : Edges(r)' = Edges(r)
  BY <1>1 DEF Edges
<1>3. \A r : (Disjoint(r)' <=> Disjoint(r)) /\ (Single(r)' <=> Single(r))
  BY <1>1 DEF Disjoint, Single
<1>4. \A c : RelationIndex(c)' = RelationIndex(c)
  BY <1>1, <1>2 DEF RelationIndex
<1>5. \A W : Cells(W)' = Cells(W) /\ Incidences(W)' = Incidences(W)
  BY <1>2 DEF Cells, Incidences
<1>6. \A W : Connected(W)' <=> Connected(W)
  BY <1>5 DEF Connected
<1>7. \A W : Forest(W)' <=> Forest(W)
  BY <1>2, <1>5 DEF Forest
<1> QED BY <1>1, <1>2, <1>3, <1>4, <1>5, <1>6, <1>7

LEMMA SameActive ==
  ASSUME relations' = relations, off' = off
  PROVE  /\ Active' = Active /\ (Orderly' <=> Orderly) /\ (AllSingle' <=> AllSingle)
         /\ (Forest(Active)' <=> Forest(Active))
         /\ \A S : Closure(S)' = Closure(S)
<1>1. Active' = Active
  BY SameSheet DEF Active
<1>2. (Orderly' <=> Orderly) /\ (AllSingle' <=> AllSingle)
  BY <1>1, SameSheet DEF Orderly, AllSingle
<1>3. \A S : Closed(S)' <=> Closed(S)
  BY <1>1, SameSheet DEF Closed
<1>4. \A S : Closure(S)' = Closure(S)
  BY <1>3 DEF Closure
<1>5. Forest(Active)' <=> Forest(Active)
  BY <1>1, SameSheet
<1> QED BY <1>1, <1>2, <1>4, <1>5

(* Clauses with terms of one cell are orderly. *)
LEMMA SingleTerms ==
  ASSUME TypeOK, AllSingle
  PROVE  /\ Orderly
         /\ \A r \in Active : \A t \in Terms(r) : \E x \in Cell : t = {x}
<1>1. ASSUME NEW r \in Active, NEW t \in Terms(r) PROVE \E x \in Cell : t = {x}
  <2>1. t \subseteq Cell /\ Cardinality(t) = 1
    BY ClauseType DEF AllSingle, Single, Active
  <2>2. IsFiniteSet(t)
    BY <2>1, PartOf
  <2>3. \E x : t = {x}
    BY <2>1, <2>2, FS_Singleton
  <2> QED BY <2>1, <2>3
<1> QED BY <1>1 DEF Orderly, Disjoint

-----------------------------------------------------------------------------
(* Closures. *)
LEMMA ClosureGrows ==
  ASSUME NEW B \in SUBSET Cell, NEW C \in SUBSET Cell, B \subseteq C
  PROVE  B \subseteq Closure(B) /\ Closure(B) \subseteq Closure(C) /\ Closure(B) \subseteq Cell
BY DEF Closure

(* The closure takes in the last term of an active clause. *)
LEMMA ClosureTakes ==
  ASSUME NEW B \in SUBSET Cell, NEW r \in Active, NEW t \in Terms(r), t \subseteq Cell,
         \A u \in Terms(r) \ {t} : u \cap Closure(B) # {}
  PROVE  t \subseteq Closure(B)
<1> SUFFICES ASSUME NEW c \in t, NEW X \in SUBSET Cell, B \subseteq X, Closed(X)
             PROVE  c \in X
  BY DEF Closure
<1>1. Closure(B) \subseteq X
  BY DEF Closure
<1>2. \A u \in Terms(r) \ {t} : u \cap X # {}
  BY <1>1
<1> QED BY <1>2 DEF Closed

-----------------------------------------------------------------------------
(* Counting what ties clauses together. *)

(* A set in one-to-one correspondence with another has as many elements. *)
LEMMA AsMany ==
  ASSUME NEW S, NEW T, IsFiniteSet(S), NEW f \in [S -> T],
         \A x, y \in S : f[x] = f[y] => x = y, \A z \in T : \E x \in S : f[x] = z
  PROVE  IsFiniteSet(T) /\ Cardinality(T) = Cardinality(S)
<1>1. f \in Bijection(S, T)
  BY DEF Bijection, Injection, Surjection, IsInjective
<1>2. ExistsBijection(S, T)
  BY <1>1 DEF ExistsBijection
<1> QED BY <1>2, FS_Bijection

LEMMA FiniteCells ==
  ASSUME TypeOK, NEW W \in SUBSET Relation
  PROVE  /\ IsFiniteSet(W) /\ Cardinality(W) \in Nat
         /\ Cells(W) \subseteq Cell /\ IsFiniteSet(Cells(W)) /\ Cardinality(Cells(W)) \in Nat
         /\ IsFiniteSet(Incidences(W)) /\ Cardinality(Incidences(W)) \in Nat
<1>1. IsFiniteSet(W)
  BY ClauseType, FS_Subset
<1>2. Cells(W) \subseteq Cell
  BY ClauseType DEF Cells
<1>3. IsFiniteSet(Cells(W))
  BY <1>2, PartOf
<1>4. IsFiniteSet(W \X Cell)
  BY <1>1, FS_Product
<1>5. Incidences(W) \subseteq W \X Cell
  BY DEF Incidences
<1>6. IsFiniteSet(Incidences(W))
  BY <1>4, <1>5, PartOf
<1> QED BY <1>1, <1>2, <1>3, <1>6, FS_CardinalityType

(* What a clause adds to a set of clauses. *)
LEMMA OneMoreClause ==
  ASSUME TypeOK, NEW W \in SUBSET Relation, NEW s \in Relation, s \notin W
  PROVE  /\ Cardinality(W \cup {s}) = Cardinality(W) + 1
         /\ Edges(s) \subseteq Cell /\ IsFiniteSet(Edges(s)) /\ Cardinality(Edges(s)) \in Nat
         /\ IsFiniteSet(Edges(s) \cap Cells(W)) /\ Cardinality(Edges(s) \cap Cells(W)) \in Nat
         /\ Cardinality(Cells(W \cup {s}))
              = Cardinality(Cells(W)) + Cardinality(Edges(s)) - Cardinality(Edges(s) \cap Cells(W))
         /\ Cardinality(Incidences(W \cup {s})) = Cardinality(Incidences(W)) + Cardinality(Edges(s))
<1>1. /\ IsFiniteSet(W) /\ IsFiniteSet(Cells(W)) /\ IsFiniteSet(Incidences(W))
      /\ Cardinality(Cells(W)) \in Nat /\ Cardinality(Incidences(W)) \in Nat
  BY FiniteCells
<1>2. Cardinality(W \cup {s}) = Cardinality(W) + 1
  BY <1>1, FS_AddElement
<1>3. Edges(s) \subseteq Cell /\ IsFiniteSet(Edges(s)) /\ Cardinality(Edges(s)) \in Nat
  BY ClauseType, PartOf
<1>4. IsFiniteSet(Edges(s) \cap Cells(W)) /\ Cardinality(Edges(s) \cap Cells(W)) \in Nat
  BY <1>3, FS_Intersection, FS_CardinalityType
<1>5. Cells(W \cup {s}) = Edges(s) \cup Cells(W)
  BY DEF Cells
<1>6. Cardinality(Edges(s) \cup Cells(W))
        = Cardinality(Edges(s)) + Cardinality(Cells(W)) - Cardinality(Edges(s) \cap Cells(W))
  BY <1>1, <1>3, FS_Union
<1> DEFINE new == {<<s, x>> : x \in Edges(s)}
<1>7. Incidences(W \cup {s}) = Incidences(W) \cup new /\ Incidences(W) \cap new = {}
  BY <1>3 DEF Incidences
<1>8. IsFiniteSet(new) /\ Cardinality(new) = Cardinality(Edges(s))
  <2> DEFINE f == [x \in Edges(s) |-> <<s, x>>]
  <2>1. f \in [Edges(s) -> new]
    OBVIOUS
  <2>2. \A x, y \in Edges(s) : f[x] = f[y] => x = y
    OBVIOUS
  <2>3. \A z \in new : \E x \in Edges(s) : f[x] = z
    OBVIOUS
  <2> HIDE DEF f, new
  <2> QED BY <1>3, <2>1, <2>2, <2>3, AsMany
<1> HIDE DEF new
<1>9. Cardinality(Incidences(W) \cup new) = Cardinality(Incidences(W)) + Cardinality(new)
  BY <1>1, <1>3, <1>7, <1>8, DisjointUnion
<1>10. Cardinality(Cells(W \cup {s}))
         = Cardinality(Cells(W)) + Cardinality(Edges(s)) - Cardinality(Edges(s) \cap Cells(W))
  <2> DEFINE m == Cardinality(Edges(s) \cap Cells(W))
             u == Cardinality(Edges(s) \cup Cells(W))
  <2>1. u = Cardinality(Edges(s)) + Cardinality(Cells(W)) - m /\ m \in Nat
    BY <1>4, <1>6
  <2>2. Cardinality(Cells(W \cup {s})) = u
    BY <1>5
  <2> HIDE DEF m, u
  <2>3. u = Cardinality(Cells(W)) + Cardinality(Edges(s)) - m
    BY <1>1, <1>3, <2>1
  <2> QED BY <2>2, <2>3 DEF m
<1>11. Cardinality(Incidences(W \cup {s})) = Cardinality(Incidences(W)) + Cardinality(Edges(s))
  BY <1>7, <1>8, <1>9
<1> QED BY <1>2, <1>3, <1>4, <1>10, <1>11

(* A clause that shares a cell with connected clauses is connected to them. *)
LEMMA StaysConnected ==
  ASSUME TypeOK, NEW W \in SUBSET Relation, NEW s \in Relation, s \notin W,
         W = {} \/ (Connected(W) /\ Edges(s) \cap Cells(W) # {})
  PROVE  Connected(W \cup {s})
<1> DEFINE m == Cardinality(Edges(s) \cap Cells(W))
<1>1. /\ Cardinality(W) \in Nat /\ Cardinality(Cells(W)) \in Nat /\ Cardinality(Incidences(W)) \in Nat
      /\ Cardinality(Edges(s)) \in Nat /\ m \in Nat
  BY FiniteCells, OneMoreClause
<1>2. /\ Cardinality(W \cup {s}) = Cardinality(W) + 1
      /\ Cardinality(Cells(W \cup {s})) = Cardinality(Cells(W)) + Cardinality(Edges(s)) - m
      /\ Cardinality(Incidences(W \cup {s})) = Cardinality(Incidences(W)) + Cardinality(Edges(s))
  BY OneMoreClause
<1>3. CASE W = {}
  <2>1. Cells(W) = {} /\ Cardinality(W) = 0 /\ Cardinality(Cells(W)) = 0
    BY <1>3, FS_EmptySet DEF Cells
  <2> HIDE DEF m
  <2> QED BY <2>1, <1>1, <1>2 DEF Connected
<1>4. CASE Connected(W) /\ Edges(s) \cap Cells(W) # {}
  <2>1. m # 0
    BY <1>4, OneMoreClause, FS_EmptySet
  <2> HIDE DEF m
  <2> QED BY <2>1, <1>1, <1>2, <1>4 DEF Connected
<1> QED BY <1>3, <1>4

(* In a forest it shares no more than one. *)
LEMMA ForestMeets ==
  ASSUME TypeOK, NEW R \in SUBSET Relation, Forest(R), NEW W \in SUBSET R, Connected(W),
         NEW s \in R, s \notin W, NEW x \in Edges(s) \cap Cells(W), NEW y \in Edges(s) \cap Cells(W)
  PROVE  x = y
<1> DEFINE M == Edges(s) \cap Cells(W)
<1>1. /\ Cardinality(W) \in Nat /\ Cardinality(Cells(W)) \in Nat /\ Cardinality(Incidences(W)) \in Nat
      /\ Cardinality(Edges(s)) \in Nat /\ Cardinality(M) \in Nat /\ IsFiniteSet(M)
  BY FiniteCells, OneMoreClause
<1>2. /\ Cardinality(W \cup {s}) = Cardinality(W) + 1
      /\ Cardinality(Cells(W \cup {s})) = Cardinality(Cells(W)) + Cardinality(Edges(s)) - Cardinality(M)
      /\ Cardinality(Incidences(W \cup {s})) = Cardinality(Incidences(W)) + Cardinality(Edges(s))
  BY OneMoreClause
<1>3. Cardinality(Cells(W \cup {s})) + Cardinality(W \cup {s}) > Cardinality(Incidences(W \cup {s}))
  <2>1. W \cup {s} \in SUBSET R /\ W \cup {s} # {}
    OBVIOUS
  <2> QED BY <2>1 DEF Forest, Cells
<1> HIDE DEF M
<1>4. Cardinality(M) < 2
  BY <1>1, <1>2, <1>3 DEF Connected
<1>5. Cardinality({x}) = 1
  BY FS_Singleton
<1>6. {x} \in SUBSET M /\ y \in M
  BY DEF M
<1>7. Cardinality({x}) = Cardinality(M)
  <2>1. Cardinality({x}) <= Cardinality(M)
    BY <1>1, <1>6, FS_Subset
  <2> QED BY <2>1, <1>1, <1>4, <1>5
<1>8. M = {x}
  BY <1>1, <1>6, <1>7, FS_Subset
<1> QED BY <1>6, <1>8

(* In a forest no cell is derived from itself: a set of cells each derived from one of
   them would be tied together, with its clauses, by one shared cell too many. *)
LEMMA ForestAcyclic ==
  ASSUME TypeOK, Ledger, Forest(Active), NEW S \in SUBSET Cell, S # {}
  PROVE  \E c \in S : term[c] # NoTerm => (Edges(term[c][1]) \ term[c][2]) \cap S = {}
<1> SUFFICES ASSUME \A c \in S : /\ term[c] # NoTerm
                                 /\ (Edges(term[c][1]) \ term[c][2]) \cap S # {}
             PROVE  FALSE
  OBVIOUS
<1> DEFINE Q == {term[c][1] : c \in S}
<1>1. \A c \in S : /\ term[c] \in applied /\ c \in term[c][2]
                   /\ term[c][1] \in Active /\ term[c][2] \in Terms(term[c][1])
                   /\ c \in Edges(term[c][1])
  <2>1. \A c \in S : term[c] \in applied /\ c \in term[c][2]
    BY DEF Ledger
  <2>2. \A p \in applied : p[1] \in Active /\ p[2] \in Terms(p[1])
    BY DEF Ledger, Active
  <2> QED BY <2>1, <2>2 DEF Edges
<1>2. \A c, d \in S : term[c][1] = term[d][1] => term[c][2] = term[d][2]
  BY <1>1 DEF Ledger
<1>3. Q \in SUBSET Active /\ Q # {} /\ Q \in SUBSET Relation
  BY <1>1 DEF Active
<1>4. S \subseteq Cells(Q)
  BY <1>1 DEF Cells
<1>5. Cardinality(Cells(Q)) + Cardinality(Q) > Cardinality(Incidences(Q))
  BY <1>3 DEF Forest, Cells
<1>6. \A c \in Cells(Q) : \E r \in Q : c \in Edges(r) /\ (c \in S => r = term[c][1])
  BY <1>1 DEF Cells
<1>7. \A r \in Q : \E x \in S : x \in Edges(r) /\ \A c \in S : term[c][1] = r => x \notin term[c][2]
  <2> TAKE r \in Q
  <2>1. PICK c \in S : r = term[c][1]
    OBVIOUS
  <2>2. PICK x \in S : x \in Edges(r) /\ x \notin term[c][2]
    BY <2>1
  <2> QED BY <2>1, <2>2, <1>2
<1>8. IsFiniteSet(Cells(Q)) /\ IsFiniteSet(Q) /\ IsFiniteSet(Incidences(Q)) /\ Cells(Q) \subseteq Cell
  BY <1>3, FiniteCells
<1> DEFINE f == [c \in Cells(Q) |-> CHOOSE r \in Q : c \in Edges(r) /\ (c \in S => r = term[c][1])]
           g == [r \in Q |-> CHOOSE x \in S : /\ x \in Edges(r)
                                              /\ \A c \in S : term[c][1] = r => x \notin term[c][2]]
           A == {<<f[c], c>> : c \in Cells(Q)}
           D == {<<r, g[r]>> : r \in Q}
<1>9. \A c \in Cells(Q) : f[c] \in Q /\ c \in Edges(f[c]) /\ (c \in S => f[c] = term[c][1])
  BY <1>6
<1>10. \A r \in Q : g[r] \in S /\ g[r] \in Edges(r) /\ \A c \in S : term[c][1] = r => g[r] \notin term[c][2]
  BY <1>7
<1> HIDE DEF f, g, Q
<1>11. A \subseteq Incidences(Q) /\ D \subseteq Incidences(Q)
  BY <1>8, <1>9, <1>10 DEF Incidences
<1>12. A \cap D = {}
  <2> SUFFICES ASSUME NEW c \in Cells(Q), NEW r \in Q, <<f[c], c>> = <<r, g[r]>> PROVE FALSE
    OBVIOUS
  <2>1. f[c] = r /\ c = g[r]
    OBVIOUS
  <2>2. c \in S /\ term[c][1] = r /\ c \in term[c][2]
    BY <2>1, <1>1, <1>9, <1>10
  <2> QED BY <2>1, <2>2, <1>10
<1>13. IsFiniteSet(A) /\ Cardinality(A) = Cardinality(Cells(Q))
  <2> DEFINE h == [c \in Cells(Q) |-> <<f[c], c>>]
  <2>1. h \in [Cells(Q) -> A] /\ \A z \in A : \E c \in Cells(Q) : h[c] = z
    OBVIOUS
  <2>2. \A c, d \in Cells(Q) : h[c] = h[d] => c = d
    OBVIOUS
  <2> HIDE DEF h, A
  <2> QED BY <1>8, <2>1, <2>2, AsMany, SMTT(30)
<1>14. IsFiniteSet(D) /\ Cardinality(D) = Cardinality(Q)
  <2> DEFINE h == [r \in Q |-> <<r, g[r]>>]
  <2>1. h \in [Q -> D] /\ \A z \in D : \E r \in Q : h[r] = z
    OBVIOUS
  <2>2. \A r, s \in Q : h[r] = h[s] => r = s
    OBVIOUS
  <2> HIDE DEF h, D
  <2> QED BY <1>8, <2>1, <2>2, AsMany
<1>15. Cardinality(A \cup D) = Cardinality(A) + Cardinality(D)
  BY <1>12, <1>13, <1>14, DisjointUnion
<1>16. Cardinality(A \cup D) <= Cardinality(Incidences(Q))
  <2>1. A \cup D \in SUBSET Incidences(Q)
    BY <1>11
  <2> QED BY <2>1, <1>8, FS_Subset
<1>17. Cardinality(Cells(Q)) \in Nat /\ Cardinality(Q) \in Nat /\ Cardinality(Incidences(Q)) \in Nat
  BY <1>8, FS_CardinalityType
<1> QED BY <1>5, <1>13, <1>14, <1>15, <1>16, <1>17

-----------------------------------------------------------------------------
(* The steps, as the history variables see them. *)

(* A cell's term, once there, is a clause of the sheet with cells. *)
LEMMA SheetClauses ==
  ASSUME TypeOK, NEW r \in Relation
  PROVE  /\ r \in Nat \ {0} /\ Edges(r) \subseteq Cell
         /\ \A t \in Terms(r) : t # {} /\ t \subseteq Cell
         /\ \E t, u \in Terms(r) : t # u
<1>1. r \in Nat \ {0} /\ Edges(r) \subseteq Cell /\ Terms(r) \in Shapes
  BY ClauseType
<1> QED BY <1>1, ShapesAssumption

(* A client's call leaves the clauses there are, and update's variables. *)
LEMMA ClientStep ==
  ASSUME TypeOK, Client
  PROVE  /\ phase = "idle" /\ phase' = "idle"
         /\ UNCHANGED <<relation_count, resolved, rel_resolved, term, stack, cell, visit>>
         /\ Relation \subseteq Relation' /\ \A r \in Relation : Terms(r)' = Terms(r)
<1> USE DEF sheetVars, prioVars, flowVars, loopVars
<1>1. /\ phase = "idle" /\ phase' = "idle"
      /\ UNCHANGED <<relation_count, resolved, rel_resolved, term, stack, cell, visit>>
  BY DEF Client, AddInterface, AddInterfaceRefused, AddRelation, Set, SetInput, Touch, Reinitialize
<1>2. ASSUME NEW terms \in Shapes, NEW conditional \in BOOLEAN, AddRelation(terms, conditional)
      PROVE  Relation \subseteq Relation' /\ \A r \in Relation : Terms(r)' = Terms(r)
  <2> DEFINE new == [terms |-> terms, conditional |-> conditional]
  <2>1. relations' = Append(relations, new) /\ new \in [terms : Shapes, conditional : BOOLEAN]
    BY <1>2 DEF AddRelation
  <2> HIDE DEF new
  <2> QED BY <2>1 DEF TypeOK, Relation, Terms
<1>3. ASSUME ~ \E terms \in Shapes, conditional \in BOOLEAN : AddRelation(terms, conditional)
      PROVE  relations' = relations
  BY <1>3 DEF Client, AddInterface, AddInterfaceRefused, Set, SetInput, Touch, Reinitialize
<1>4. Relation \subseteq Relation' /\ \A r \in Relation : Terms(r)' = Terms(r)
  BY <1>2, <1>3 DEF Relation, Terms
<1> QED BY <1>1, <1>4

(* So the clauses that are active stay so. *)
LEMMA ClientActive ==
  ASSUME TypeOK, Client, off' = off
  PROVE  /\ Active \subseteq Active' /\ \A r \in Relation : Edges(r)' = Edges(r)
         /\ Orderly' => Orderly
         /\ AllSingle' => AllSingle
<1>1. Relation \subseteq Relation' /\ \A r \in Relation : Terms(r)' = Terms(r)
  BY ClientStep
<1>2. Active \subseteq Active' /\ \A r \in Relation : Edges(r)' = Edges(r)
  BY <1>1 DEF Active, Edges
<1>3. \A r \in Active : (Disjoint(r)' <=> Disjoint(r)) /\ (Single(r)' <=> Single(r))
  BY <1>1 DEF Active, Disjoint, Single
<1> QED BY <1>2, <1>3 DEF Orderly, AllSingle

(* Every step of update leaves the sheet alone. *)
LEMMA UpdateStep ==
  ASSUME HNext, ~HClient
  PROVE  Update /\ UNCHANGED <<interface, linked, relations>>
<1>1. Update
  BY DEF HNext, HBeginUpdate, HConditionals, HFlow, HEndUpdate, Update
<1> QED BY <1>1, SheetUnchanged DEF sheetVars

LEMMA ApplyStep ==
  ASSUME Steady, Ledger, HFlow, NEW r \in Relation, ApplyRelation(r)
  PROVE  \E t \in SUBSET Cell : Derives(r, t) /\ \E s \in Listings(t) : Lower(t, s)
<1> USE DEF sheetVars, prioVars, flowVars, loopVars
<1>1. TypeOK /\ r \in Nat \ {0} /\ phase = "visit" /\ phase' = phase /\ r \in ToVisit
  BY SheetClauses DEF Steady, ApplyRelation, VisitsNext
<1>2. PICK t \in OpenTerms(r) :
        /\ OpenTerms(r) = {t}
        /\ rel_resolved' = rel_resolved \cup {r}
        /\ term' = [c \in Cell |-> IF c \in t THEN <<r, t>> ELSE term[c]]
        /\ resolved' = resolved \cup (t \ StillAttached(t))
        /\ \E s \in Listings(t) :
             /\ Lower(t, s)
             /\ \E p \in Listings(StillAttached(t)) : stack' = stack \o p
  BY DEF ApplyRelation
<1>3. t \in Terms(r) /\ t \subseteq Cell /\ t # {} /\ t \cap resolved = {}
  BY <1>1, SheetClauses DEF OpenTerms
<1>4. r \notin rel_resolved /\ r \in Active
  BY <1>1 DEF ToVisit, Active, Ledger
<1>5. \A c \in Cell : term'[c] # term[c] <=> c \in t
  <2> TAKE c \in Cell
  <2>1. ASSUME c \in t PROVE term[c] # <<r, t>>
    <3>1. <<r, t>> # NoTerm
      BY <1>1 DEF NoTerm
    <3>2. ASSUME term[c] = <<r, t>> PROVE FALSE
      <4>1. <<r, t>> \in applied
        BY <3>1, <3>2 DEF Ledger
      <4> QED BY <4>1, <1>4 DEF Ledger
    <3> QED BY <3>2
  <2> QED BY <1>2, <2>1
<1>6. applied' = applied \cup {<<r, t>>}
  <2>1. rel_resolved' \ rel_resolved = {r}
    BY <1>2, <1>4
  <2>2. {x \in Cell : term'[x] # term[x]} = t
    BY <1>3, <1>5
  <2>3. {<<q, term'[c][2]>> : q \in {r}, c \in t} = {<<r, t>>}
    <3>1. \A c \in t : term'[c][2] = t
      BY <1>2, <1>3
    <3> QED BY <1>3, <3>1
  <2> QED BY <2>1, <2>2, <2>3 DEF HFlow
<1>7. UNCHANGED <<interface, linked, relations, off, before, cell>>
  BY <1>1 DEF HFlow, ApplyRelation
<1>8. Derives(r, t)
  BY <1>1, <1>2, <1>3, <1>4, <1>6, <1>7 DEF Derives
<1> QED BY <1>2, <1>3, <1>8

(* The other steps of flow derive nothing. *)
LEMMA OtherFlow ==
  ASSUME HFlow, ~ \E r \in Relation : ApplyRelation(r)
  PROVE  /\ UNCHANGED <<interface, linked, relations, off, applied, rel_resolved, term,
                        priority, priority_high, priority_low>>
         /\ resolved \subseteq resolved'
         /\ phase \notin {"idle", "conditionals"} /\ phase' \notin {"idle", "conditionals", "flow"}
<1> USE DEF sheetVars, prioVars, flowVars, loopVars
<1>1. BeginFlow \/ SkipCell \/ PopCell \/ (\E r \in Relation : PassRelation(r)) \/ EndCell \/ EndFlow
  BY DEF HFlow, Flow
<1>2. /\ UNCHANGED <<interface, linked, relations, rel_resolved, term, priority, priority_high,
                     priority_low>>
      /\ resolved \subseteq resolved'
      /\ phase \notin {"idle", "conditionals"} /\ phase' \notin {"idle", "conditionals", "flow"}
  BY <1>1 DEF BeginFlow, SkipCell, PopCell, PassRelation, VisitsNext, EndCell, EndFlow
<1>3. UNCHANGED <<off, applied>>
  BY <1>2 DEF HFlow
<1> QED BY <1>2, <1>3

(* So do the steps before the flow; nothing is derived until it begins. *)
LEMMA ConditionalStep ==
  ASSUME Booked, HConditionals
  PROVE  /\ UNCHANGED <<interface, linked, relations, resolved, term, before, cell,
                        priority, priority_high, priority_low>>
         /\ off' = rel_resolved' /\ applied = {} /\ applied' = {} /\ resolved = {}
         /\ phase = "conditionals" /\ phase' \in {"idle", "conditionals", "flow"}
<1> USE DEF sheetVars, prioVars, flowVars
<1>1. /\ UNCHANGED <<interface, linked, relations, resolved, term, before, applied, cell,
                     priority, priority_high, priority_low>>
      /\ off' = rel_resolved'
      /\ phase = "conditionals" /\ phase' \in {"idle", "conditionals", "flow"}
  BY DEF HConditionals, Conditionals, ConditionalHolds, ConditionalFails, ConditionalThrows,
         EndConditionals, SolvesNext
<1>2. applied = {} /\ resolved = {}
  BY <1>1 DEF Booked, Ledger
<1> QED BY <1>1, <1>2

(* What lowering does to the priorities. *)
LEMMA Lowered ==
  ASSUME TypeOK, NEW t \in SUBSET Cell, NEW s \in Listings(t), Lower(t, s)
  PROVE  /\ priority_low' \in Int /\ priority_low' <= priority_low
         /\ \A c \in t \cap linked :
               /\ priority'[c] \in Int
               /\ priority_low' <= priority'[c] /\ priority'[c] < priority_low
         /\ \A c \in Cell : c \notin t \cap linked => priority'[c] = priority[c]
<1> DEFINE low == t \cap linked
           k(c) == CHOOSE i \in DOMAIN s : s[i] = c
           upTo(i) == {j \in 1..i : s[j] \in linked}
<1>1. /\ \A c \in low : priority'[c] = priority_low - Cardinality(upTo(k(c)))
      /\ \A c \in Cell : c \notin low => priority'[c] = priority[c]
      /\ priority_low' = priority_low - Cardinality(low)
  BY DEF Lower, TypeOK
<1>2. priority_low \in Int /\ IsFiniteSet(low) /\ Cardinality(low) \in Nat
  BY PartOf DEF TypeOK
<1>3. \A c \in low : k(c) \in 1..Cardinality(t) /\ s[k(c)] = c
  BY ListingHits
<1>4. Cardinality(t) \in Nat /\ s \in [1..Cardinality(t) -> t] /\ \A i, j \in DOMAIN s : s[i] = s[j] => i = j
  BY ListingType DEF Listings
<1> HIDE DEF k
<1>5. ASSUME NEW c \in low
      PROVE  /\ Cardinality(upTo(k(c))) \in Nat
             /\ Cardinality(upTo(k(c))) >= 1 /\ Cardinality(upTo(k(c))) <= Cardinality(low)
  <2> DEFINE U == upTo(k(c))
  <2>1. k(c) \in 1..Cardinality(t) /\ s[k(c)] = c
    BY <1>3
  <2>2. \A j \in U : j \in 1..Cardinality(t) /\ s[j] \in low
    BY <1>4, <2>1
  <2>3. k(c) \in U
    BY <2>1, <1>4
  <2> DEFINE f == [j \in U |-> s[j]]
  <2>4. f \in [U -> low] /\ \A i, j \in U : f[i] = f[j] => i = j
    BY <2>2, <1>4
  <2> HIDE DEF U, low, f
  <2>5. f \in Injection(U, low)
    BY <2>4 DEF Injection, IsInjective
  <2>6. IsFiniteSet(U) /\ Cardinality(U) <= Cardinality(low)
    BY <1>2, <2>5, FS_Injection
  <2>7. Cardinality({k(c)}) <= Cardinality(U) /\ Cardinality({k(c)}) = 1 /\ Cardinality(U) \in Nat
    BY <2>3, <2>6, PartOf, FS_Singleton
  <2> QED BY <2>6, <2>7 DEF U
<1>6. ASSUME NEW c \in low
      PROVE  priority'[c] \in Int /\ priority_low' <= priority'[c] /\ priority'[c] < priority_low
  <2> DEFINE n == Cardinality(upTo(k(c)))
             m == Cardinality(low)
  <2>1. n \in Nat /\ n >= 1 /\ n <= m /\ m \in Nat
    BY <1>2, <1>5
  <2>2. priority'[c] = priority_low - n /\ priority_low' = priority_low - m
    BY <1>1
  <2> HIDE DEF n, m
  <2> QED BY <1>2, <2>1, <2>2
<1>7. priority_low' \in Int /\ priority_low' <= priority_low
  <2> HIDE DEF low
  <2> QED BY <1>1, <1>2
<1> QED BY <1>1, <1>6, <1>7

-----------------------------------------------------------------------------
(* The invariant of every sheet. *)
LEMMA HistoryNext == HNext => Next
BY DEF HNext, HClient, HBeginUpdate, HConditionals, HFlow, HEndUpdate, Next, Update

(* Each step keeps the ledger. *)
LEMMA LedgerClient ==
  ASSUME Booked, HClient
  PROVE  Ledger'
<1>1. TypeOK /\ Ledger
  BY DEF Booked, Steady
<1>2. /\ phase' = "idle" /\ UNCHANGED <<resolved, rel_resolved, term, off, applied>>
      /\ Relation \subseteq Relation' /\ \A r \in Relation : Terms(r)' = Terms(r)
  BY <1>1, ClientStep DEF HClient
<1>3. \A p \in applied : /\ p[1] \in Relation /\ p \in Relation' \X SUBSET Cell
                         /\ p[2] \in Terms(p[1]) /\ Terms(p[1])' = Terms(p[1])
  BY <1>1, <1>2 DEF Ledger
<1>4. \A p \in applied : p \in Relation' \X SUBSET Cell /\ p[2] \in Terms(p[1])'
  BY <1>3
<1> QED BY <1>1, <1>2, <1>4 DEF Ledger

LEMMA LedgerApply ==
  ASSUME Booked, NEW r \in Relation, NEW t \in SUBSET Cell, Derives(r, t)
  PROVE  Ledger'
<1>1. /\ Ledger /\ r \in Active /\ t \in Terms(r) /\ r \notin rel_resolved /\ phase' = "visit"
      /\ rel_resolved' = rel_resolved \cup {r}
      /\ term' = [c \in Cell |-> IF c \in t THEN <<r, t>> ELSE term[c]]
      /\ applied' = applied \cup {<<r, t>>}
      /\ UNCHANGED <<relations, off>>
  BY DEF Booked, Derives
<1>2. Relation' = Relation /\ \A q : Terms(q)' = Terms(q)
  BY <1>1, SameSheet
<1>3. r \notin off
  BY <1>1 DEF Active
<1>4. off' \subseteq rel_resolved'
  BY <1>1 DEF Ledger
<1>5. ASSUME NEW p \in applied'
      PROVE  p \in Relation \X SUBSET Cell /\ p[1] \in rel_resolved' \ off /\ p[2] \in Terms(p[1])
  BY <1>1, <1>3, <1>5 DEF Ledger
<1>6. ASSUME NEW p \in applied', NEW q \in applied', p[1] = q[1] PROVE p = q
  BY <1>1, <1>6 DEF Ledger
<1>7. \A q \in rel_resolved' \ off : \E p \in applied' : p[1] = q
  <2> TAKE q \in rel_resolved' \ off
  <2>1. CASE q = r
    <3>1. <<r, t>> \in applied' /\ <<r, t>>[1] = r
      BY <1>1
    <3> QED BY <2>1, <3>1
  <2>2. CASE q \in rel_resolved
    BY <2>2, <1>1 DEF Ledger
  <2> QED BY <2>1, <2>2, <1>1
<1>8. ASSUME NEW c \in Cell, term'[c] # NoTerm
      PROVE  term'[c] \in applied' /\ c \in term'[c][2]
  BY <1>1, <1>8 DEF Ledger
<1> QED BY <1>1, <1>2, <1>4, <1>5, <1>6, <1>7, <1>8 DEF Ledger

LEMMA LedgerUpdate ==
  ASSUME Booked, HNext, ~HClient
  PROVE  Ledger'
<1> USE DEF flowVars, loopVars, sheetVars
<1>1. Steady /\ Ledger /\ relations' = relations
  BY UpdateStep DEF Booked
<1>2. Relation' = Relation /\ \A q : Terms(q)' = Terms(q)
  BY <1>1, SameSheet
<1>3. CASE HBeginUpdate
  <2>1. /\ off' = {} /\ applied' = {} /\ rel_resolved' = {} /\ resolved' = {}
        /\ term' = [c \in Cell |-> NoTerm]
    BY <1>3 DEF HBeginUpdate, BeginUpdate
  <2> QED BY <2>1 DEF Ledger
<1>4. CASE HConditionals
  <2>1. off' = rel_resolved' /\ applied = {} /\ applied' = {} /\ resolved' = {} /\ term' = term
    BY <1>4, ConditionalStep
  <2> QED BY <1>1, <2>1 DEF Ledger
<1>5. CASE HFlow
  <2>1. CASE \E r \in Relation : ApplyRelation(r)
    <3>1. \E r \in Relation : \E t \in SUBSET Cell : Derives(r, t)
      BY <1>1, <1>5, <2>1, ApplyStep
    <3> QED BY <3>1, LedgerApply
  <2>2. CASE ~ \E r \in Relation : ApplyRelation(r)
    <3>1. /\ UNCHANGED <<off, applied, rel_resolved, term>>
          /\ phase' \notin {"conditionals", "flow"}
      BY <1>5, <2>2, OtherFlow
    <3> QED BY <1>1, <1>2, <3>1 DEF Ledger
  <2> QED BY <2>1, <2>2
<1>6. CASE HEndUpdate
  <2>1. phase' = "idle" /\ UNCHANGED <<off, applied, rel_resolved, term>>
    BY <1>6 DEF HEndUpdate, EndUpdate
  <2> QED BY <1>1, <1>2, <2>1 DEF Ledger
<1> QED BY <1>3, <1>4, <1>5, <1>6 DEF HNext

LEMMA BookedKept == Booked /\ [HNext]_hvars => Booked'
<1> SUFFICES ASSUME Booked, [HNext]_hvars PROVE Booked'
  OBVIOUS
<1>1. [Next]_vars
  BY HistoryNext DEF hvars
<1>2. Steady'
  BY <1>1, SteadyKept DEF Booked
<1>3. before' \in [Cell -> Int]
  BY DEF Booked, Steady, TypeOK, HNext, HClient, HBeginUpdate, HConditionals, HFlow, HEndUpdate,
         hvars, historyVars
<1>4. CASE UNCHANGED hvars
  <2>1. UNCHANGED <<relations, phase, resolved, rel_resolved, term, off, applied>>
    BY <1>4 DEF hvars, vars, sheetVars, flowVars, historyVars
  <2>2. Ledger'
    BY <2>1, SameSheet DEF Booked, Ledger
  <2> QED BY <1>2, <1>3, <2>2 DEF Booked
<1>5. CASE HClient
  BY <1>2, <1>3, <1>5, LedgerClient DEF Booked
<1>6. CASE HNext /\ ~HClient
  BY <1>2, <1>3, <1>6, LedgerUpdate DEF Booked
<1> QED BY <1>4, <1>5, <1>6

(* Raising and lowering leave nothing below priority_low. *)
LEMMA LowestKept == Booked /\ Lowest /\ [HNext]_hvars => Lowest'
<1> USE DEF sheetVars, prioVars
<1> SUFFICES ASSUME Booked, Lowest, [HNext]_hvars PROVE Lowest'
  OBVIOUS
<1>t. TypeOK /\ priority_low \in Int /\ priority_high \in Nat /\ priority \in [Cell -> Int]
  BY DEF Booked, Steady, TypeOK
<1>1. ASSUME UNCHANGED prioVars PROVE Lowest'
  BY <1>1 DEF Lowest
<1>2. ASSUME NEW s \in Seq(Cell), DOMAIN s = 1..Len(s), Raise(s) PROVE Lowest'
  <2>1. priority_low' = priority_low
    BY <1>2 DEF Raise
  <2>2. ASSUME NEW c \in Cell PROVE priority_low <= priority'[c]
    <3>1. CASE \E i \in DOMAIN s : s[i] = c
      <4> DEFINE k == CHOOSE i \in DOMAIN s : s[i] = c
      <4>1. k \in 1..Len(s)
        BY <1>2, <3>1
      <4>2. priority'[c] = priority_high + k
        BY <1>2, <3>1 DEF Raise
      <4>3. Len(s) \in Nat
        OBVIOUS
      <4> HIDE DEF k
      <4> QED BY <1>t, <4>1, <4>2, <4>3 DEF Lowest
    <3>2. CASE ~ \E i \in DOMAIN s : s[i] = c
      <4>1. priority'[c] = priority[c]
        BY <1>2, <3>2 DEF Raise
      <4> QED BY <4>1 DEF Lowest
    <3> QED BY <3>1, <3>2
  <2> QED BY <2>1, <2>2 DEF Lowest
<1>3. CASE Client
  <2>1. ASSUME NEW c \in Cell, Raise(<<c>>) PROVE Lowest'
    BY <1>2, <2>1, <<c>> \in Seq(Cell), DOMAIN <<c>> = 1..Len(<<c>>)
  <2>2. ASSUME NEW S \in SUBSET Cell, Touch(S) PROVE Lowest'
    <3>1. PICK s \in SortedListings(S \cap interface) : Raise(s)
      BY <2>2 DEF Touch
    <3>2. s \in Seq(Cell) /\ DOMAIN s = 1..Len(s)
      BY SortedListingType, ListingType, S \cap interface \in SUBSET Cell
    <3> QED BY <1>2, <3>1, <3>2
  <2>3. ASSUME NEW S \in SUBSET Cell, Reinitialize(S) PROVE Lowest'
    <3>1. PICK s \in Listings(S) : Raise(s)
      BY <2>3 DEF Reinitialize
    <3>2. s \in Seq(Cell) /\ DOMAIN s = 1..Len(s)
      BY ListingType
    <3> QED BY <1>2, <3>1, <3>2
  <2>4. ASSUME NEW c \in Cell, NEW link \in BOOLEAN, NEW initialized \in BOOLEAN,
               AddInterface(c, link, initialized)
        PROVE  Lowest'
    BY <2>4, <1>1, <2>1 DEF AddInterface
  <2>5. ASSUME NEW c \in Cell, Set(c) PROVE Lowest'
    BY <2>5, <2>1 DEF Set
  <2>6. ASSUME UNCHANGED <<priority, priority_low>> PROVE Lowest'
    BY <2>6 DEF Lowest
  <2>7. ASSUME NEW c \in Cell, AddInterfaceRefused(c) PROVE Lowest'
    BY <2>7, <2>6 DEF AddInterfaceRefused
  <2>8. ASSUME NEW terms \in Shapes, NEW conditional \in BOOLEAN, AddRelation(terms, conditional)
        PROVE  Lowest'
    BY <2>8, <1>1 DEF AddRelation
  <2>9. CASE SetInput
    BY <2>9, <2>6 DEF SetInput
  <2> QED BY <1>3, <2>2, <2>3, <2>4, <2>5, <2>7, <2>8, <2>9 DEF Client
<1>4. ASSUME HFlow, NEW r \in Relation, ApplyRelation(r) PROVE Lowest'
  <2>1. PICK t \in SUBSET Cell : \E s \in Listings(t) : Lower(t, s)
    BY <1>4, ApplyStep DEF Booked
  <2>2. /\ priority_low' \in Int /\ priority_low' <= priority_low
        /\ \A c \in t \cap linked :
              /\ priority'[c] \in Int
              /\ priority_low' <= priority'[c] /\ priority'[c] < priority_low
        /\ \A c \in Cell : c \notin t \cap linked => priority'[c] = priority[c]
    BY <1>t, <2>1, Lowered
  <2>3. ASSUME NEW c \in Cell PROVE priority_low' <= priority'[c]
    <3>1. priority_low <= priority[c] /\ priority[c] \in Int
      BY <1>t DEF Lowest
    <3> QED BY <1>t, <2>2, <3>1
  <2> QED BY <1>t, <2>2, <2>3 DEF Lowest
<1>5. CASE HFlow /\ ~ \E r \in Relation : ApplyRelation(r)
  BY <1>5, <1>1, OtherFlow
<1>6. CASE HBeginUpdate \/ HConditionals \/ HEndUpdate
  BY <1>6, <1>1, ConditionalStep DEF HBeginUpdate, BeginUpdate, HEndUpdate, EndUpdate
<1>7. CASE UNCHANGED hvars
  BY <1>7, <1>1 DEF hvars, vars
<1> QED BY <1>3, <1>4, <1>5, <1>6, <1>7 DEF HNext, HClient

-----------------------------------------------------------------------------
(* Clauses with terms of one cell: what derives a cell is resolved, so it is not
   lowered again, and every cell lowered goes below all that were there. *)
LEMMA SingleApply ==
  ASSUME Booked, Lowest, SingleInv, AllSingle,
         NEW r \in Relation, NEW t \in SUBSET Cell, Derives(r, t), NEW s \in Listings(t), Lower(t, s)
  PROVE  /\ \A p \in applied' : Edges(p[1]) \ p[2] \subseteq resolved
         /\ \A p \in applied' : \A d \in p[2] \cap linked : \A x \in Edges(p[1]) \ p[2] :
               priority'[d] < priority'[x]
         /\ \A S \in SUBSET Cell : S # {} => \E c \in S :
               term'[c] # NoTerm => (Edges(term'[c][1]) \ term'[c][2]) \cap S = {}
<1>1. /\ TypeOK /\ Ledger /\ r \in Active /\ OpenTerms(r) = {t} /\ t \in Terms(r) /\ t # {}
      /\ t \cap resolved = {} /\ applied' = applied \cup {<<r, t>>}
      /\ term' = [c \in Cell |-> IF c \in t THEN <<r, t>> ELSE term[c]]
      /\ linked \subseteq Cell /\ phase = "visit"
  BY DEF Booked, Steady, TypeOK, Derives
<1>2. \A q \in Active : \A u \in Terms(q) : \E x \in Cell : u = {x}
  BY <1>1, SingleTerms
<1>3. Edges(r) \ t \subseteq resolved
  <2>1. ASSUME NEW u \in Terms(r), u # t PROVE u \subseteq resolved
    <3>1. u \notin OpenTerms(r)
      BY <1>1, <2>1
    <3>2. u \cap resolved # {}
      BY <3>1 DEF OpenTerms
    <3> QED BY <1>1, <1>2, <3>2
  <2> QED BY <2>1 DEF Edges
<1>4. ASSUME NEW p \in applied' PROVE Edges(p[1]) \ p[2] \subseteq resolved
  <2>1. CASE p = <<r, t>>
    BY <1>3, <2>1
  <2>2. CASE p \in applied
    BY <2>2 DEF SingleInv, Contributors
  <2> QED BY <1>1, <2>1, <2>2
<1>5. ASSUME NEW p \in applied', NEW d \in p[2] \cap linked, NEW x \in Edges(p[1]) \ p[2]
      PROVE  priority'[d] < priority'[x]
  <2>1. /\ \A c \in t \cap linked : priority'[c] \in Int /\ priority'[c] < priority_low
        /\ \A c \in Cell : c \notin t \cap linked => priority'[c] = priority[c]
    BY <1>1, Lowered
  <2>2. x \in resolved /\ x \in Cell /\ d \in Cell
    BY <1>1, <1>4 DEF TypeOK
  <2>3. priority'[x] = priority[x] /\ priority[x] \in Int /\ priority[d] \in Int /\ priority_low \in Int
    BY <1>1, <2>1, <2>2 DEF TypeOK
  <2>4. priority_low <= priority[x] /\ priority_low <= priority[d]
    BY <2>2 DEF Lowest
  <2>5. CASE d \in t
    <3>1. priority'[d] \in Int /\ priority'[d] < priority_low
      BY <2>1, <2>5
    <3> QED BY <2>3, <2>4, <3>1
  <2>6. CASE d \notin t
    <3>1. p # <<r, t>>
      BY <2>6
    <3>2. p \in applied
      BY <1>1, <3>1
    <3>3. priority[d] < priority[x]
      BY <1>1, <3>2 DEF SingleInv, Below
    <3> QED BY <2>1, <2>2, <2>3, <2>6, <3>3
  <2> QED BY <2>5, <2>6
<1>6. ASSUME NEW S \in SUBSET Cell, S # {}
      PROVE  \E c \in S : term'[c] # NoTerm => (Edges(term'[c][1]) \ term'[c][2]) \cap S = {}
  <2>1. \A c \in Cell : term'[c] # NoTerm => Edges(term'[c][1]) \ term'[c][2] \subseteq resolved
    <3> SUFFICES ASSUME NEW c \in Cell, term'[c] # NoTerm
                 PROVE  Edges(term'[c][1]) \ term'[c][2] \subseteq resolved
      OBVIOUS
    <3>1. CASE c \in t
      <4>1. term'[c] = <<r, t>>
        BY <1>1, <3>1
      <4> QED BY <4>1, <1>3
    <3>2. CASE c \notin t
      <4>1. term[c] \in applied /\ term'[c] = term[c]
        BY <1>1, <3>2 DEF Ledger
      <4> QED BY <4>1 DEF SingleInv, Contributors
    <3> QED BY <3>1, <3>2
  <2>2. CASE S \cap resolved = {}
    BY <1>6, <2>1, <2>2
  <2>3. CASE S \cap resolved # {}
    <3>1. PICK c \in S \cap resolved :
            term[c] # NoTerm => (Edges(term[c][1]) \ term[c][2]) \cap (S \cap resolved) = {}
      BY <2>3 DEF SingleInv, Acyclic
    <3>2. term'[c] = term[c]
      BY <1>1
    <3> QED BY <2>1, <3>1, <3>2
  <2> QED BY <2>2, <2>3
<1> QED BY <1>4, <1>5, <1>6

LEMMA SingleKept == Booked /\ Lowest /\ SingleInv /\ [HNext]_hvars => SingleInv'
<1> SUFFICES ASSUME Booked, Lowest, SingleInv, [HNext]_hvars PROVE SingleInv'
  OBVIOUS
<1>t. TypeOK /\ Steady /\ Ledger
  BY DEF Booked, Steady
<1>1. CASE HClient
  <2>1. /\ Client /\ phase' = "idle" /\ UNCHANGED <<resolved, term, off, applied>>
        /\ Relation \subseteq Relation'
    BY <1>t, <1>1, ClientStep DEF HClient
  <2>2. (\A r \in Relation : Edges(r)' = Edges(r)) /\ (AllSingle' => AllSingle)
    BY <1>t, <2>1, ClientActive
  <2>3. \A p \in applied : p[1] \in Relation /\ Edges(p[1])' = Edges(p[1])
    BY <1>t, <2>2 DEF Ledger
  <2>4. \A c \in Cell : term[c] # NoTerm => Edges(term[c][1])' = Edges(term[c][1])
    <3> TAKE c \in Cell
    <3> HAVE term[c] # NoTerm
    <3>1. term[c] \in applied
      BY <1>t DEF Ledger
    <3> QED BY <2>1, <2>3, <3>1
  <2>5. Contributors'
    BY <2>1, <2>2, <2>3 DEF SingleInv, Contributors
  <2>6. Acyclic'
    BY <2>1, <2>2, <2>4 DEF SingleInv, Acyclic
  <2>7. Below'
    BY <2>1 DEF Below
  <2> QED BY <2>5, <2>6, <2>7 DEF SingleInv
<1>2. CASE HBeginUpdate
  <2>1. applied' = {} /\ \A c \in Cell : term'[c] = NoTerm
    BY <1>2 DEF HBeginUpdate, BeginUpdate
  <2> QED BY <2>1 DEF SingleInv, Contributors, Below, Acyclic
<1>3. CASE HConditionals
  <2>1. /\ applied = {} /\ applied' = {} /\ term' = term
    BY <1>3, ConditionalStep DEF Booked
  <2>2. \A c \in Cell : term'[c] = NoTerm
    BY <1>t, <2>1 DEF Ledger
  <2> QED BY <2>1, <2>2 DEF SingleInv, Contributors, Below, Acyclic
<1>4. ASSUME UNCHANGED <<linked, relations, off, applied, term, priority>>,
             resolved \subseteq resolved', phase' # "idle" => phase # "idle"
      PROVE  SingleInv'
  <2>1. (AllSingle' <=> AllSingle) /\ \A r : Edges(r)' = Edges(r)
    BY <1>4, SameActive, SameSheet
  <2>2. Contributors'
    BY <1>4, <2>1 DEF SingleInv, Contributors
  <2>3. Below'
    BY <1>4, <2>1 DEF SingleInv, Below
  <2>4. Acyclic'
    BY <1>4, <2>1 DEF SingleInv, Acyclic
  <2> QED BY <2>2, <2>3, <2>4 DEF SingleInv
<1>5. CASE HFlow /\ ~ \E r \in Relation : ApplyRelation(r)
  BY <1>5, <1>4, OtherFlow
<1>6. ASSUME HFlow, NEW r \in Relation, ApplyRelation(r) PROVE SingleInv'
  <2>1. PICK t \in SUBSET Cell : Derives(r, t) /\ \E s \in Listings(t) : Lower(t, s)
    BY <1>t, <1>6, ApplyStep
  <2>2. UNCHANGED <<linked, relations, off>> /\ resolved \subseteq resolved'
    BY <2>1 DEF Derives
  <2>3. (AllSingle' <=> AllSingle) /\ \A q : Edges(q)' = Edges(q)
    BY <2>2, SameActive, SameSheet
  <2>4. AllSingle =>
         /\ \A p \in applied' : Edges(p[1]) \ p[2] \subseteq resolved
         /\ \A p \in applied' : \A d \in p[2] \cap linked : \A x \in Edges(p[1]) \ p[2] :
               priority'[d] < priority'[x]
         /\ \A S \in SUBSET Cell : S # {} => \E c \in S :
               term'[c] # NoTerm => (Edges(term'[c][1]) \ term'[c][2]) \cap S = {}
    BY <2>1, SingleApply
  <2>5. Contributors'
    BY <2>2, <2>3, <2>4 DEF Contributors
  <2>6. Below'
    BY <2>2, <2>3, <2>4 DEF Below
  <2>7. Acyclic'
    BY <2>3, <2>4 DEF Acyclic
  <2> QED BY <2>5, <2>6, <2>7 DEF SingleInv
<1>7. CASE HEndUpdate
  <2>1. UNCHANGED <<linked, relations, off, applied, term, priority, resolved>> /\ phase' = "idle"
    BY <1>7 DEF HEndUpdate, EndUpdate, sheetVars, prioVars, flowVars
  <2> QED BY <2>1, <1>4
<1>8. CASE UNCHANGED hvars
  <2>1. UNCHANGED <<linked, relations, off, applied, term, priority, resolved, phase>>
    BY <1>8 DEF hvars, vars, sheetVars, prioVars, flowVars, historyVars
  <2> QED BY <2>1, <1>4
<1> QED BY <1>1, <1>2, <1>3, <1>5, <1>6, <1>7, <1>8 DEF HNext

LEMMA InitBooked == HInit => Booked /\ Lowest /\ SingleInv
<1> SUFFICES ASSUME HInit PROVE Booked /\ Lowest /\ SingleInv
  OBVIOUS
<1>1. Steady /\ before \in [Cell -> Int]
  BY InitSteady DEF HInit, Steady, TypeOK
<1>2. /\ applied = {} /\ off = {} /\ rel_resolved = {} /\ phase = "idle"
      /\ \A c \in Cell : term[c] = NoTerm /\ priority[c] = 0
      /\ priority_low = 0
  BY DEF HInit, Init
<1>3. Ledger /\ Lowest
  BY <1>2 DEF Ledger, Lowest
<1>4. SingleInv
  BY <1>2 DEF SingleInv, Contributors, Below, Acyclic
<1> QED BY <1>1, <1>3, <1>4 DEF Booked

LEMMA LedgerInvariant == HSpec => [](Booked /\ Lowest /\ SingleInv)
<1>1. HInit => Booked /\ Lowest /\ SingleInv
  BY InitBooked
<1>2. Booked /\ Lowest /\ SingleInv /\ [HNext]_hvars => (Booked /\ Lowest /\ SingleInv)'
  BY BookedKept, LowestKept, SingleKept
<1> QED BY <1>1, <1>2, PTL DEF HSpec

(* No cell is derived, through others, from itself: flow orders the clauses so that
   they can be evaluated one after the other.  So in every sheet whose active clauses
   form a forest, and in every sheet whose terms are single cells, cycles or not. *)
THEOREM NoDerivationCycle == HSpec => []DerivationAcyclic
<1>1. Booked /\ Lowest /\ SingleInv => DerivationAcyclic
  <2> SUFFICES ASSUME Booked, SingleInv, Forest(Active) \/ AllSingle,
                      NEW S \in SUBSET Cell, S # {}
               PROVE  \E c \in S : term[c] # NoTerm => (Edges(term[c][1]) \ term[c][2]) \cap S = {}
    BY DEF DerivationAcyclic, AllSingle
  <2>1. CASE Forest(Active)
    BY <2>1, ForestAcyclic DEF Booked, Steady
  <2>2. CASE AllSingle
    BY <2>2 DEF SingleInv, Acyclic
  <2> QED BY <2>1, <2>2
<1> QED BY <1>1, LedgerInvariant, PTL

(* When the flow is done a derived linked cell has a lower priority than every cell
   its clause derives it from, in every sheet whose terms are single cells: the next
   update derives it again, unless the client set it. *)
THEOREM DerivedGoBelow == HSpec => []DerivedBelowContributors
<1>1. Booked /\ Lowest /\ SingleInv => DerivedBelowContributors
  BY DEF SingleInv, Below, AllSingle, DerivedBelowContributors
<1> QED BY <1>1, LedgerInvariant, PTL

-----------------------------------------------------------------------------
(* CountExact for sheets of which only the active clauses are orderly. *)
Exact == phase = "conditionals" \/ (phase # "idle" /\ Orderly) => Counted

(* A clause that is not resolved has two open terms, one while it is still to read. *)
TwoOpen(r) == \E t, u \in OpenTerms(r) : t # u
StillOpen ==
  phase \in {"flow", "pop", "visit"} /\ Orderly => \A r \in Relation \ rel_resolved :
    TwoOpen(r) \/ (phase = "visit" /\ r \in ToVisit /\ OpenTerms(r) # {})

-----------------------------------------------------------------------------
(* The loop over the relations of a cell goes on to the next. *)
LEMMA NextToVisit ==
  ASSUME TypeOK, NEW r \in Relation, VisitsNext(r), UNCHANGED <<relations, cell>>,
         rel_resolved' \in {rel_resolved, rel_resolved \cup {r}}
  PROVE  ToVisit' = ToVisit \ {r}
<1>1. visit' = r + 1 /\ r \in ToVisit /\ \A q \in ToVisit : r <= q
  BY DEF VisitsNext
<1>2. Relation \subseteq Nat /\ visit \in Nat
  BY ClauseType DEF TypeOK
<1>3. RelationIndex(cell)' = RelationIndex(cell)
  BY SameSheet
<1>4. ToVisit' = {q \in RelationIndex(cell) : q >= r + 1 /\ q \notin rel_resolved'}
  BY <1>1, <1>3 DEF ToVisit
<1>5. ToVisit = {q \in RelationIndex(cell) : q >= visit /\ q \notin rel_resolved}
  BY DEF ToVisit
<1>6. \A q \in RelationIndex(cell) : q \in Nat
  BY <1>2 DEF RelationIndex
<1>7. ASSUME NEW q \in RelationIndex(cell), q \notin rel_resolved
      PROVE  q >= r + 1 <=> (q >= visit /\ q # r)
  <2>1. q \in Nat /\ r \in Nat /\ r >= visit
    BY <1>1, <1>2, <1>5, <1>6
  <2>2. q >= visit => r <= q
    BY <1>1, <1>5, <1>7
  <2> QED BY <1>2, <2>1, <2>2
<1>8. r \in Nat
  BY <1>2
<1>9. \A q \in RelationIndex(cell) : q \in ToVisit' <=> q \in ToVisit /\ q # r
  <2> TAKE q \in RelationIndex(cell)
  <2>1. CASE q \in rel_resolved
    BY <2>1, <1>4, <1>5
  <2>2. CASE q \notin rel_resolved
    <3>1. q # r => (q \notin rel_resolved' )
      BY <2>2
    <3>2. q >= r + 1 => q # r
      BY <1>6, <1>8
    <3> QED BY <1>4, <1>5, <1>7, <2>2, <3>1, <3>2
  <2> QED BY <2>1, <2>2
<1> QED BY <1>4, <1>5, <1>9

(* No relation that is not resolved is left out of the active ones. *)
LEMMA Unresolved ==
  ASSUME Ledger
  PROVE  Relation \ rel_resolved \subseteq Active
BY DEF Ledger, Active

(* A cell that is derived and let go is in no other unresolved clause. *)
LEMMA LetGo ==
  ASSUME Booked, Counted, NEW r \in Relation, NEW t \in SUBSET Cell, Derives(r, t),
         NEW x \in t \ StillAttached(t), NEW q \in Relation \ rel_resolved, q # r
  PROVE  x \notin Edges(q)
<1>1. /\ TypeOK /\ x \notin resolved /\ x \in Cell /\ cell \in resolved
      /\ t \in Terms(r) /\ r \notin rel_resolved
  BY DEF Booked, Steady, CellRead, Derives
<1>2. relation_count[x] = 1
  BY DEF StillAttached
<1>3. Cardinality(RelationIndex(x) \ rel_resolved) = 1
  BY <1>1, <1>2 DEF Counted, Held
<1>4. IsFiniteSet(RelationIndex(x) \ rel_resolved)
  BY <1>1, RelationIndexType, PartOf
<1>5. PICK y : RelationIndex(x) \ rel_resolved = {y}
  BY <1>3, <1>4, FS_Singleton
<1>6. r \in RelationIndex(x) \ rel_resolved
  BY <1>1 DEF RelationIndex, Edges
<1>7. q \notin RelationIndex(x)
  BY <1>5, <1>6
<1> QED BY <1>7 DEF RelationIndex

LEMMA OpenAfter ==
  ASSUME Booked, Counted, NEW r \in Relation, NEW t \in SUBSET Cell, Derives(r, t),
         NEW q \in Relation \ rel_resolved, q # r
  PROVE  OpenTerms(q)' = OpenTerms(q)
<1>1. resolved' = resolved \cup (t \ StillAttached(t)) /\ relations' = relations
  BY DEF Derives
<1>2. Terms(q)' = Terms(q)
  BY <1>1, SameSheet
<1>3. (t \ StillAttached(t)) \cap Edges(q) = {}
  BY LetGo
<1>4. \A u \in Terms(q) : u \cap (t \ StillAttached(t)) = {}
  BY <1>3 DEF Edges
<1> QED BY <1>1, <1>2, <1>4 DEF OpenTerms

(* Between the steps the counts are exact. *)
LEMMA ExactKept == Booked /\ Exact /\ [HNext]_hvars => Exact'
<1> SUFFICES ASSUME Booked, Exact, [HNext]_hvars, phase' = "conditionals" \/ (phase' # "idle" /\ Orderly')
             PROVE  Counted'
  BY DEF Exact
<1>1. Steady /\ Ledger /\ TypeOK
  BY DEF Booked, Steady
<1>2. ASSUME HNext, ~HClient, phase # "idle" => Counted,
             phase = "visit" => \A r \in Relation \ rel_resolved : Disjoint(r)
      PROVE  Counted'
  <2>1. Update /\ phase' # "idle"
    BY <1>2, UpdateStep
  <2> QED BY <1>1, <1>2, <2>1, CountUpdate
<1>3. CASE HClient
  BY <1>1, <1>3, ClientStep DEF HClient
<1>4. CASE HBeginUpdate
  <2>1. phase = "idle" /\ ~HClient
    BY <1>1, <1>4, ClientStep DEF HBeginUpdate, BeginUpdate, HClient
  <2> QED BY <1>2, <1>4, <2>1 DEF HNext
<1>5. CASE HConditionals
  <2>1. phase = "conditionals"
    BY <1>5, ConditionalStep
  <2>2. ~HClient /\ Counted
    BY <1>1, <2>1, ClientStep DEF HClient, Exact
  <2> QED BY <1>2, <1>5, <2>1, <2>2 DEF HNext
<1>6. CASE HFlow
  <2>1. /\ phase \notin {"idle", "conditionals"} /\ phase' \notin {"idle", "conditionals"}
        /\ UNCHANGED <<relations, off>>
    <3>1. CASE \E r \in Relation : ApplyRelation(r)
      BY <1>1, <1>6, <3>1, ApplyStep DEF Derives
    <3>2. CASE ~ \E r \in Relation : ApplyRelation(r)
      BY <1>6, <3>2, OtherFlow
    <3> QED BY <3>1, <3>2
  <2>2. Orderly
    BY <2>1, SameActive
  <2>3. ~HClient /\ Counted
    BY <1>1, <2>1, <2>2, ClientStep DEF HClient, Exact
  <2>4. \A r \in Relation \ rel_resolved : Disjoint(r)
    BY <1>1, <2>2, Unresolved DEF Orderly
  <2> QED BY <1>2, <1>6, <2>3, <2>4 DEF HNext
<1>7. CASE HEndUpdate
  <2>1. /\ phase = "flowed" /\ phase' = "idle"
    BY <1>7 DEF HEndUpdate, EndUpdate
  <2> QED BY <2>1
<1>8. CASE UNCHANGED hvars
  <2>1. UNCHANGED <<relations, relation_count, resolved, rel_resolved, cell, visit, phase, off>>
    BY <1>8 DEF hvars, vars, sheetVars, flowVars, loopVars, historyVars
  <2>2. Orderly' <=> Orderly
    BY <2>1, SameActive
  <2> QED BY <2>1, <2>2, CountUnchanged DEF Exact
<1> QED BY <1>3, <1>4, <1>5, <1>6, <1>7, <1>8 DEF HNext

(* A clause is resolved when it is applied, or keeps an open term to derive. *)
LEMMA StillOpenKept == Booked /\ Exact /\ StillOpen /\ [HNext]_hvars => StillOpen'
<1> SUFFICES ASSUME Booked, Exact, StillOpen, [HNext]_hvars,
                    phase' \in {"flow", "pop", "visit"}, Orderly'
             PROVE  (\A r \in Relation \ rel_resolved :
                       TwoOpen(r) \/ (phase = "visit" /\ r \in ToVisit /\ OpenTerms(r) # {}))'
  BY DEF StillOpen
<1> USE DEF sheetVars, flowVars, loopVars
<1>t. Steady /\ Ledger /\ TypeOK
  BY DEF Booked, Steady
<1>1. CASE HClient
  BY <1>t, <1>1, ClientStep DEF HClient
<1>2. CASE HBeginUpdate
  BY <1>2 DEF HBeginUpdate, BeginUpdate
<1>3. CASE HConditionals
  <2>1. relations' = relations /\ resolved' = {}
    BY <1>3, ConditionalStep
  <2>2. Relation' = Relation /\ \A r : Terms(r)' = Terms(r)
    BY <2>1, SameSheet
  <2>3. \A r \in Relation : \E t, u \in Terms(r) : t # u
    BY <1>t, SheetClauses
  <2>4. \A r : OpenTerms(r)' = Terms(r)
    BY <2>1, <2>2 DEF OpenTerms
  <2>5. \A r \in Relation : TwoOpen(r)'
    BY <2>3, <2>4 DEF TwoOpen
  <2> QED BY <2>2, <2>5
<1>4. CASE HFlow
  <2>1. UNCHANGED <<relations, off>> /\ phase \notin {"idle", "conditionals"}
    <3>1. CASE \E r \in Relation : ApplyRelation(r)
      BY <1>t, <1>4, <3>1, ApplyStep DEF Derives
    <3>2. CASE ~ \E r \in Relation : ApplyRelation(r)
      BY <1>4, <3>2, OtherFlow
    <3> QED BY <3>1, <3>2
  <2>2. Orderly /\ Counted
    BY <2>1, SameActive DEF Exact
  <2>3. Relation' = Relation /\ (\A r : Terms(r)' = Terms(r)) /\ (\A c : RelationIndex(c)' = RelationIndex(c))
    BY <2>1, SameSheet
  <2>4. phase \in {"flow", "pop", "visit"} => \A r \in Relation \ rel_resolved :
          TwoOpen(r) \/ (phase = "visit" /\ r \in ToVisit /\ OpenTerms(r) # {})
    BY <2>2 DEF StillOpen
  <2>5. \A r \in Relation \ rel_resolved : Disjoint(r)
    BY <1>t, <2>2, Unresolved DEF Orderly
  <2>6. CASE BeginFlow \/ SkipCell \/ EndCell
    <3>1. /\ UNCHANGED <<rel_resolved, resolved>> /\ phase \in {"flow", "pop", "visit"}
          /\ phase = "visit" => ToVisit = {}
      BY <2>6 DEF BeginFlow, SkipCell, EndCell
    <3>2. \A r \in Relation \ rel_resolved : TwoOpen(r)
      BY <2>4, <3>1
    <3>3. \A r : OpenTerms(r)' = OpenTerms(r)
      BY <2>3, <3>1 DEF OpenTerms
    <3>4. \A r : TwoOpen(r)' <=> TwoOpen(r)
      BY <3>3 DEF TwoOpen
    <3> QED BY <2>3, <3>1, <3>2, <3>4
  <2>7. CASE PopCell
    <3>1. /\ phase = "pop" /\ phase' = "visit" /\ cell' = Top /\ visit' = 1 /\ rel_resolved' = rel_resolved
          /\ resolved' = resolved \cup {Top}
      BY <2>7 DEF PopCell
    <3>2. \A r \in Relation \ rel_resolved : TwoOpen(r)
      BY <2>4, <3>1
    <3>3. ASSUME NEW r \in Relation \ rel_resolved
          PROVE  TwoOpen(r)' \/ (r \in ToVisit' /\ OpenTerms(r)' # {})
      <4>1. PICK t, u \in OpenTerms(r) : t # u
        BY <3>2 DEF TwoOpen
      <4>2. t \in Terms(r) /\ u \in Terms(r) /\ t \cap resolved = {} /\ u \cap resolved = {}
        BY <4>1 DEF OpenTerms
      <4>3. OpenTerms(r)' = {v \in Terms(r) : v \cap (resolved \cup {Top}) = {}}
        BY <2>3, <3>1 DEF OpenTerms
      <4>4. CASE Top \in Edges(r)
        <5>1. r \in ToVisit'
          <6>1. r \in RelationIndex(Top) /\ r >= 1
            BY <1>t, <4>4, ClauseType DEF RelationIndex
          <6>2. RelationIndex(cell)' = RelationIndex(Top)
            BY <2>1, <3>1 DEF RelationIndex, Relation, Edges, Terms
          <6> QED BY <3>1, <6>1, <6>2 DEF ToVisit
        <5>2. t \cap u = {}
          BY <2>5, <4>1, <4>2 DEF Disjoint
        <5>3. t \in OpenTerms(r)' \/ u \in OpenTerms(r)'
          BY <4>2, <4>3, <5>2
        <5> QED BY <5>1, <5>3
      <4>5. CASE Top \notin Edges(r)
        <5>1. Top \notin t /\ Top \notin u
          BY <4>2, <4>5 DEF Edges
        <5>2. t \in OpenTerms(r)' /\ u \in OpenTerms(r)'
          BY <4>2, <4>3, <5>1
        <5> QED BY <4>1, <5>2 DEF TwoOpen
      <4> QED BY <4>4, <4>5
    <3> QED BY <2>3, <3>1, <3>3
  <2>8. ASSUME NEW r \in Relation, PassRelation(r)
        PROVE  \A q \in Relation' \ rel_resolved' :
                 TwoOpen(q)' \/ (phase' = "visit" /\ q \in ToVisit' /\ OpenTerms(q)' # {})
    <3>1. /\ VisitsNext(r) /\ phase = "visit" /\ phase' = "visit" /\ Cardinality(OpenTerms(r)) # 1
          /\ UNCHANGED <<relations, resolved, rel_resolved, cell>>
      BY <2>8 DEF PassRelation, VisitsNext
    <3>2. ToVisit' = ToVisit \ {r}
      BY <1>t, <3>1, NextToVisit
    <3>3. \A q : OpenTerms(q)' = OpenTerms(q)
      BY <2>3, <3>1 DEF OpenTerms
    <3>4. \A q : TwoOpen(q)' <=> TwoOpen(q)
      BY <3>3 DEF TwoOpen
    <3>5. TwoOpen(r)
      <4>1. r \notin rel_resolved
        BY <3>1 DEF VisitsNext, ToVisit
      <4>2. CASE OpenTerms(r) # {}
        <5>1. PICK t : t \in OpenTerms(r)
          BY <4>2
        <5>2. OpenTerms(r) # {t}
          BY <3>1, FS_Singleton
        <5> QED BY <5>1, <5>2 DEF TwoOpen
      <4> QED BY <2>4, <3>1, <4>1, <4>2
    <3> QED BY <2>3, <2>4, <3>1, <3>2, <3>3, <3>4, <3>5
  <2>9. ASSUME NEW r \in Relation, ApplyRelation(r)
        PROVE  \A q \in Relation' \ rel_resolved' :
                 TwoOpen(q)' \/ (phase' = "visit" /\ q \in ToVisit' /\ OpenTerms(q)' # {})
    <3>1. PICK t \in SUBSET Cell : Derives(r, t)
      BY <1>t, <1>4, <2>9, ApplyStep
    <3>2. /\ VisitsNext(r) /\ phase = "visit" /\ phase' = "visit" /\ rel_resolved' = rel_resolved \cup {r}
          /\ UNCHANGED <<relations, cell>>
      BY <2>9, <3>1 DEF ApplyRelation, Derives
    <3>3. ToVisit' = ToVisit \ {r}
      BY <1>t, <3>2, NextToVisit
    <3>4. \A q \in Relation \ rel_resolved : q # r => OpenTerms(q)' = OpenTerms(q)
      BY <2>2, <3>1, OpenAfter
    <3>5. \A q \in Relation \ rel_resolved : q # r => (TwoOpen(q)' <=> TwoOpen(q))
      BY <3>4 DEF TwoOpen
    <3> QED BY <2>3, <2>4, <3>2, <3>3, <3>4, <3>5
  <2>10. CASE EndFlow
    BY <2>10 DEF EndFlow
  <2> QED BY <1>4, <2>6, <2>7, <2>8, <2>9, <2>10 DEF HFlow, Flow
<1>5. CASE HEndUpdate
  BY <1>5 DEF HEndUpdate, EndUpdate
<1>6. CASE UNCHANGED hvars
  <2>1. UNCHANGED <<relations, resolved, rel_resolved, cell, visit, phase, off>>
    BY <1>6 DEF hvars, vars, historyVars
  <2>2. Orderly /\ Relation' = Relation /\ (\A r : Terms(r)' = Terms(r)) /\ (\A c : RelationIndex(c)' = RelationIndex(c))
    BY <2>1, SameActive, SameSheet
  <2>3. ToVisit' = ToVisit /\ \A r : OpenTerms(r)' = OpenTerms(r)
    BY <2>1, <2>2 DEF ToVisit, OpenTerms
  <2>4. \A r : TwoOpen(r)' <=> TwoOpen(r)
    BY <2>3 DEF TwoOpen
  <2> QED BY <2>1, <2>2, <2>3, <2>4 DEF StillOpen
<1> QED BY <1>1, <1>2, <1>3, <1>4, <1>5, <1>6 DEF HNext

LEMMA OpenInvariant == HSpec => [](Booked /\ Exact /\ StillOpen)
<1>1. HInit => Exact /\ StillOpen
  BY DEF HInit, Init, Exact, StillOpen
<1>2. Booked /\ Exact /\ StillOpen /\ [HNext]_hvars => (Booked /\ Exact /\ StillOpen)'
  BY BookedKept, ExactKept, StillOpenKept
<1>3. HInit => Booked
  BY InitBooked
<1> QED BY <1>1, <1>2, <1>3, PTL DEF HSpec

(* No clause that flow reads has all its terms resolved: the assertion "All terms of
   relation resolved but relation not applied." holds in every sheet of clauses whose
   terms share no cell, also one that over-constrains its cells. *)
THEOREM OverConstrainsNothing == HSpec => []NeverOverConstrained
<1>1. Booked /\ Exact /\ StillOpen => NeverOverConstrained
  <2> SUFFICES ASSUME Booked, StillOpen, phase = "visit", Orderly, NEW r \in ToVisit
               PROVE  OpenTerms(r) # {}
    BY DEF NeverOverConstrained
  <2>1. r \in Relation \ rel_resolved
    BY DEF ToVisit, RelationIndex
  <2> QED BY <2>1 DEF StillOpen, TwoOpen
<1> QED BY <1>1, OpenInvariant, PTL

-----------------------------------------------------------------------------
(* The order of the flow.  Cells that unresolved clauses hold; those of them that are
   derived wait on the stack, above the cells that flow began with. *)
Attached(c) == \E r \in RelationIndex(c) : r \notin rel_resolved
Pending(c) == c \notin resolved /\ Attached(c) /\ \E p \in applied : c \in p[2]

(* Where the flow is: the first n cells of the stack are those it began with and has
   not come to; it took the values of the cells B, from which all others that are
   resolved or on the stack follow; the clauses W are those it applied since it last
   took one of those. *)
Base(n, B) ==
  /\ \A i, j \in 1..n : i < j => before[stack[i]] <= before[stack[j]]
  /\ \A i \in 1..n, b \in B : before[stack[i]] <= before[b]
  /\ \A c \in Cell : c \notin resolved /\ Attached(c) => \E i \in 1..n : stack[i] = c
Wave(n, W, B) ==
  /\ n \in 0..Len(stack)
  /\ Base(n, B)
  /\ B \subseteq resolved /\ resolved \subseteq Closure(B)
  /\ W \subseteq rel_resolved \ off /\ (W = {} \/ Connected(W))
  /\ \A i \in n+1..Len(stack) : stack[i] \in Closure(B) \cap Cells(W)
  /\ \A c \in Cell : Pending(c) => \E i \in n+1..Len(stack) : stack[i] = c
  /\ phase = "visit" => cell \in Cells(W) \/ (W = {} /\ n = Len(stack))

Flowing == phase \in {"pop", "visit"}
Waves ==
  Flowing /\ Orderly =>
    \E n \in 0..Len(stack), W \in SUBSET Relation, B \in SUBSET Cell : Wave(n, W, B)

(* In a forest a cell that is pending shares a clause of the wave with the cell being
   read, so it is not derived again. *)
DerivedOnce ==
  Orderly /\ Forest(Active) => \A p, q \in applied : p # q => p[2] \cap q[2] = {}

AllApplied == phase = "flowed" /\ Orderly => Active \subseteq rel_resolved

OrderInv == Waves /\ AllApplied /\ LosesOnlyToHigher /\ DerivedOnce

-----------------------------------------------------------------------------
LEMMA PoppedCells ==
  ASSUME TypeOK, stack # <<>>
  PROVE  /\ Len(stack) \in Nat \ {0} /\ Top \in Cell /\ Top = stack[Len(stack)]
         /\ Popped \in Seq(Cell) /\ Len(Popped) = Len(stack) - 1
         /\ \A i \in 1..Len(stack)-1 : Popped[i] = stack[i]
<1>1. stack \in Seq(Cell) /\ Len(stack) \in Nat /\ Len(stack) # 0
  BY DEF TypeOK
<1>2. \A i \in 1..Len(stack) - 1 : stack[i] \in Cell
  BY <1>1
<1>3. Popped \in Seq(Cell)
  BY <1>1, <1>2, SubSeqProperties DEF Popped
<1>4. Popped = [i \in 1..Len(stack)-1 |-> stack[i]]
  BY <1>1 DEF Popped
<1>5. Len(Popped) = Len(stack) - 1 /\ \A i \in 1..Len(stack)-1 : Popped[i] = stack[i]
  <2> HIDE DEF Popped
  <2> QED BY <1>1, <1>3, <1>4
<1> QED BY <1>1, <1>3, <1>5 DEF Top

(* The count of the top cell tells whether a clause still holds it. *)
LEMMA TopHeld ==
  ASSUME Booked, Counted, phase = "pop", stack # <<>>
  PROVE  relation_count[Top] # 0 <=> (Top \notin resolved /\ Attached(Top))
<1>1. TypeOK /\ cell = NoCell /\ Top \in Cell
  BY PoppedCells DEF Booked, Steady, CellRead
<1>2. Top # cell
  BY <1>1
<1>3. relation_count[Top] = IF Top \in resolved THEN 0 ELSE Cardinality(RelationIndex(Top) \ rel_resolved)
  BY <1>1, <1>2 DEF Counted, Held
<1>4. IsFiniteSet(RelationIndex(Top) \ rel_resolved)
  BY <1>1, RelationIndexType, PartOf
<1>5. Cardinality(RelationIndex(Top) \ rel_resolved) # 0 <=> Attached(Top)
  BY <1>4, FS_EmptySet DEF Attached
<1> QED BY <1>3, <1>5

(* Flow begins with every cell of a clause that is to be solved. *)
LEMMA WaveBegins ==
  ASSUME Booked, HFlow, BeginFlow
  PROVE  Wave(Len(stack), {}, {})' /\ applied' = {} /\ Len(stack') \in Nat
<1> USE DEF sheetVars, prioVars, flowVars
<1> DEFINE cells == UNION {Edges(r) : r \in Relation \ rel_resolved}
<1>1. /\ TypeOK /\ Ledger /\ phase = "flow"
      /\ stack' \in SortedListings(cells) /\ phase' = "pop" /\ before' = priority
      /\ UNCHANGED <<relations, resolved, rel_resolved, term, off>>
  BY DEF Booked, Steady, HFlow, BeginFlow
<1>2. resolved = {} /\ rel_resolved = off /\ applied = {}
  BY <1>1 DEF Ledger
<1>3. applied' = {}
  <2>1. rel_resolved' \ rel_resolved = {}
    BY <1>1
  <2> QED BY <1>2, <2>1 DEF HFlow
<1>4. cells \in SUBSET Cell
  BY <1>1, ClauseType
<1> HIDE DEF cells
<1>5. /\ stack' \in Listings(cells) /\ stack' \in Seq(Cell) /\ Len(stack') = Cardinality(cells)
      /\ DOMAIN stack' = 1..Len(stack') /\ Cardinality(cells) \in Nat
  BY <1>1, <1>4, SortedListingType, ListingType
<1>6. \A i, j \in 1..Len(stack') : i < j => before'[stack'[i]] <= before'[stack'[j]]
  BY <1>1, <1>5 DEF SortedListings
<1>7. ASSUME NEW c \in Cell, Attached(c)' PROVE \E i \in 1..Len(stack') : stack'[i] = c
  <2>1. c \in cells
    <3>1. PICK r \in RelationIndex(c) : r \notin rel_resolved
      BY <1>1, <1>7, SameSheet DEF Attached
    <3> QED BY <3>1 DEF cells, RelationIndex
  <2>2. \E i \in 1..Cardinality(cells) : stack'[i] = c
    BY <1>4, <1>5, <2>1, ListingHits
  <2> QED BY <1>5, <2>2
<1>8. Base(Len(stack), {})'
  BY <1>6, <1>7 DEF Base
<1>9. \A c \in Cell : ~Pending(c)'
  BY <1>3 DEF Pending
<1>10. resolved' = {} /\ {} \subseteq Closure({})'
  BY <1>1, <1>2
<1>11. Len(stack') \in 0..Len(stack') /\ Len(stack')+1..Len(stack') = {}
  BY <1>5
<1> QED BY <1>1, <1>3, <1>5, <1>8, <1>9, <1>10, <1>11 DEF Wave

(* A cell that no clause holds is dropped. *)
LEMMA WaveSkips ==
  ASSUME Booked, Counted, SkipCell, UNCHANGED <<before, off, applied>>,
         NEW n \in 0..Len(stack), NEW W \in SUBSET Relation, NEW B \in SUBSET Cell, Wave(n, W, B)
  PROVE  \E m \in 0..Len(stack') : Wave(m, W, B)'
<1> USE DEF sheetVars, prioVars, flowVars
<1>1. /\ TypeOK /\ phase = "pop" /\ phase' = "pop" /\ stack # <<>> /\ stack' = Popped
      /\ relation_count[Top] = 0
      /\ UNCHANGED <<relations, resolved, rel_resolved, off, before, applied>>
  BY DEF Booked, Steady, SkipCell
<1>2. Top \in resolved \/ ~Attached(Top)
  BY <1>1, TopHeld
<1> DEFINE L == Len(stack)
<1>3. /\ L \in Nat \ {0} /\ Top = stack[L] /\ Len(stack') = L - 1
      /\ \A i \in 1..L-1 : stack'[i] = stack[i]
  BY <1>1, PoppedCells
<1>4. /\ \A S : Closure(S)' = Closure(S)
      /\ \A V : Cells(V)' = Cells(V) /\ (Connected(V)' <=> Connected(V))
      /\ \A c : RelationIndex(c)' = RelationIndex(c)
  BY <1>1, SameActive, SameSheet
<1>5. \A c : (Attached(c)' <=> Attached(c)) /\ (Pending(c)' <=> Pending(c))
  BY <1>1, <1>4 DEF Attached, Pending
<1>n. n \in Nat /\ n <= L
  BY <1>3
<1> HIDE DEF L
<1>m. PICK m \in Int : m = IF n < L THEN n ELSE n - 1
  BY <1>n
<1>6. m \in 0..Len(stack') /\ m <= n /\ ((m = n /\ n < L) \/ (m = n - 1 /\ n = L))
  <2>1. L \in Nat /\ L # 0 /\ Len(stack') = L - 1
    BY <1>3
  <2>2. CASE n < L
    BY <1>n, <1>m, <2>1, <2>2
  <2>3. CASE n = L
    BY <1>n, <1>m, <2>1, <2>3
  <2> QED BY <1>n, <2>1, <2>2, <2>3
<1>7. ASSUME NEW c \in Cell, c \notin resolved, Attached(c) PROVE \E i \in 1..m : stack'[i] = c
  <2>1. PICK i \in 1..n : stack[i] = c
    BY <1>7 DEF Wave, Base
  <2>2. i # L
    BY <1>2, <1>3, <1>7, <2>1
  <2>3. i \in 1..m /\ i \in 1..L-1
    BY <1>3, <1>n, <1>6, <2>2
  <2> QED BY <1>3, <2>1, <2>3
<1>8. ASSUME NEW c \in Cell, Pending(c) PROVE \E i \in m+1..L-1 : stack'[i] = c
  <2>1. PICK i \in n+1..L : stack[i] = c
    BY <1>8 DEF Wave, L
  <2>2. i # L
    BY <1>2, <1>3, <1>8, <2>1 DEF Pending
  <2>3. i \in m+1..L-1 /\ i \in 1..L-1
    BY <1>3, <1>n, <1>6, <2>2
  <2> QED BY <1>3, <2>1, <2>3
<1>9. \A i \in 1..m : i \in 1..n /\ i \in 1..L-1 /\ stack'[i] = stack[i]
  BY <1>3, <1>n, <1>6
<1>10. \A i \in m+1..L-1 : i \in n+1..L /\ stack'[i] = stack[i]
  BY <1>3, <1>n, <1>6
<1>11. Base(m, B)'
  <2>1. \A i, j \in 1..m : i < j => before'[stack'[i]] <= before'[stack'[j]]
    BY <1>1, <1>9 DEF Wave, Base
  <2>2. \A i \in 1..m, b \in B : before'[stack'[i]] <= before'[b]
    BY <1>1, <1>9 DEF Wave, Base
  <2> QED BY <1>1, <1>5, <1>7, <2>1, <2>2 DEF Base
<1>12. \A i \in m+1..Len(stack') : stack'[i] \in Closure(B) \cap Cells(W)
  BY <1>3, <1>10 DEF Wave, L
<1>13. \A c \in Cell : Pending(c) => \E i \in m+1..Len(stack') : stack'[i] = c
  BY <1>3, <1>8
<1> QED BY <1>1, <1>4, <1>5, <1>6, <1>11, <1>12, <1>13 DEF Wave

(* The next cell is taken: it follows from those that were, or its own value is. *)
LEMMA WavePops ==
  ASSUME Booked, Counted, PopCell, UNCHANGED <<before, off, applied>>,
         NEW n \in 0..Len(stack), NEW W \in SUBSET Relation, NEW B \in SUBSET Cell, Wave(n, W, B)
  PROVE  \E m \in 0..Len(stack'), V \in SUBSET Relation, C \in SUBSET Cell : Wave(m, V, C)'
<1> USE DEF sheetVars, prioVars
<1>1. /\ TypeOK /\ phase = "pop" /\ phase' = "visit" /\ stack # <<>> /\ stack' = Popped
      /\ relation_count[Top] # 0 /\ cell' = Top /\ resolved' = resolved \cup {Top}
      /\ UNCHANGED <<relations, rel_resolved, off, before, applied>>
  BY DEF Booked, Steady, PopCell
<1>2. Top \notin resolved /\ Attached(Top)
  BY <1>1, TopHeld
<1> DEFINE L == Len(stack)
<1>3. /\ L \in Nat \ {0} /\ Top = stack[L] /\ Len(stack') = L - 1 /\ Top \in Cell
      /\ \A i \in 1..L-1 : stack'[i] = stack[i]
  BY <1>1, PoppedCells
<1>4. /\ \A S : Closure(S)' = Closure(S)
      /\ \A V : Cells(V)' = Cells(V) /\ (Connected(V)' <=> Connected(V))
      /\ \A c : RelationIndex(c)' = RelationIndex(c)
  BY <1>1, SameActive, SameSheet
<1>5. \A c : (Attached(c)' <=> Attached(c)) /\ (Pending(c)' <=> Pending(c) /\ c # Top)
  BY <1>1, <1>4 DEF Attached, Pending
<1>6. n \in Nat /\ n <= L
  BY <1>3
<1>7. /\ B \subseteq resolved /\ resolved \subseteq Closure(B)
      /\ W \subseteq rel_resolved \ off /\ (W = {} \/ Connected(W))
      /\ \A i, j \in 1..n : i < j => before[stack[i]] <= before[stack[j]]
      /\ \A i \in 1..n, b \in B : before[stack[i]] <= before[b]
  BY DEF Wave, Base
<1>8. \A c \in Cell : c \notin resolved /\ Attached(c) => \E i \in 1..n : stack[i] = c
  BY DEF Wave, Base
<1>9. /\ \A i \in n+1..L : stack[i] \in Closure(B) \cap Cells(W)
      /\ \A c \in Cell : Pending(c) => \E i \in n+1..L : stack[i] = c
  BY DEF Wave
<1> HIDE DEF L
<1>10. CASE n < L
  <2>1. Top \in Closure(B) \cap Cells(W)
    BY <1>3, <1>6, <1>9, <1>10
  <2>2. \A i \in 1..n : i \in 1..L-1 /\ stack'[i] = stack[i]
    BY <1>3, <1>6, <1>10
  <2>3. Base(n, B)'
    <3>1. \A i, j \in 1..n : i < j => before'[stack'[i]] <= before'[stack'[j]]
      BY <1>1, <1>7, <2>2
    <3>2. \A i \in 1..n, b \in B : before'[stack'[i]] <= before'[b]
      BY <1>1, <1>7, <2>2
    <3>3. \A c \in Cell : c \notin resolved' /\ Attached(c)' => \E i \in 1..n : stack'[i] = c
      BY <1>1, <1>5, <1>8, <2>2
    <3> QED BY <3>1, <3>2, <3>3 DEF Base
  <2>4. \A i \in n+1..Len(stack') : stack'[i] \in Closure(B) \cap Cells(W)
    <3> TAKE i \in n+1..Len(stack')
    <3>1. i \in n+1..L /\ i \in 1..L-1
      BY <1>3, <1>6
    <3> QED BY <1>3, <1>9, <3>1
  <2>5. ASSUME NEW c \in Cell, Pending(c)' PROVE \E i \in n+1..Len(stack') : stack'[i] = c
    <3>1. Pending(c) /\ c # Top
      BY <1>5, <2>5
    <3>2. PICK i \in n+1..L : stack[i] = c
      BY <1>9, <3>1
    <3>3. i # L
      BY <1>3, <3>1, <3>2
    <3>4. i \in n+1..Len(stack') /\ i \in 1..L-1
      BY <1>3, <1>6, <3>3
    <3> QED BY <1>3, <3>2, <3>4
  <2>6. n \in 0..Len(stack')
    BY <1>3, <1>6, <1>10
  <2>7. Wave(n, W, B)'
    BY <1>1, <1>4, <1>7, <2>1, <2>3, <2>4, <2>5, <2>6 DEF Wave
  <2> QED BY <1>1, <2>6, <2>7
<1>11. CASE n = L
  <2>1. PICK m \in Nat : m = L - 1
    BY <1>3
  <2>c. PICK C \in SUBSET Cell : C = B \cup {Top}
    BY <1>3
  <2>2. \A i \in 1..m : i \in 1..n /\ i < L /\ stack'[i] = stack[i]
    BY <1>3, <1>11, <2>1
  <2>3. B \subseteq C /\ Top \in C /\ C \in SUBSET Cell /\ C \subseteq resolved' /\ \A x \in C : x \in B \/ x = stack[L]
    BY <1>1, <1>3, <1>7, <2>c
  <2>4. C \subseteq Closure(C) /\ Closure(B) \subseteq Closure(C)
    BY <2>3, ClosureGrows
  <2>5. Base(m, C)'
    <3>1. \A i, j \in 1..m : i < j => before'[stack'[i]] <= before'[stack'[j]]
      BY <1>1, <1>7, <2>2
    <3>2. \A i \in 1..m, b \in C : before'[stack'[i]] <= before'[b]
      <4> TAKE i \in 1..m, b \in C
      <4>1. i \in 1..n /\ L \in 1..n /\ i < L /\ stack'[i] = stack[i]
        BY <1>3, <1>11, <2>2
      <4>2. b \in B \/ b = stack[L]
        BY <2>3
      <4> QED BY <1>1, <1>7, <4>1, <4>2
    <3>3. ASSUME NEW c \in Cell, c \notin resolved', Attached(c)' PROVE \E i \in 1..m : stack'[i] = c
      <4>1. PICK i \in 1..n : stack[i] = c
        BY <1>1, <1>5, <1>8, <3>3
      <4>2. i # L
        BY <1>1, <1>3, <3>3, <4>1
      <4>3. i \in 1..m
        BY <1>3, <1>11, <2>1, <4>2
      <4> QED BY <2>2, <4>1, <4>3
    <3> QED BY <3>1, <3>2, <3>3 DEF Base
  <2>6. n + 1 .. L = {} /\ m + 1 .. Len(stack') = {} /\ m \in 0..Len(stack') /\ m = Len(stack')
    BY <1>3, <1>11, <2>1
  <2>7. \A c \in Cell : ~Pending(c)'
    BY <1>5, <1>9, <2>6
  <2>8. resolved' \subseteq Closure(C)
    BY <1>1, <1>7, <2>3, <2>4
  <2>9. Wave(m, {}, C)'
    BY <1>4, <2>3, <2>5, <2>6, <2>7, <2>8 DEF Wave
  <2> QED BY <2>3, <2>6, <2>9
<1> QED BY <1>3, <1>6, <1>10, <1>11

(* A step that leaves the stack and what is resolved alone leaves the wave alone. *)
LEMMA WaveStays ==
  ASSUME UNCHANGED <<relations, off, before, applied, resolved, rel_resolved, stack>>,
         phase' = "visit" => phase = "visit" /\ cell' = cell,
         NEW n, NEW W, NEW B, Wave(n, W, B)
  PROVE  Wave(n, W, B)'
<1>1. /\ \A S : Closure(S)' = Closure(S)
      /\ \A V : Cells(V)' = Cells(V) /\ (Connected(V)' <=> Connected(V))
      /\ \A c : RelationIndex(c)' = RelationIndex(c)
  BY SameActive, SameSheet
<1>2. \A c : (Attached(c)' <=> Attached(c)) /\ (Pending(c)' <=> Pending(c))
  BY <1>1 DEF Attached, Pending
<1>3. Base(n, B)' <=> Base(n, B)
  BY <1>2 DEF Base
<1> QED BY <1>1, <1>2, <1>3 DEF Wave

(* What a wave says of a cell that flow has not come to. *)
LEMMA WaveOrders ==
  ASSUME NEW n \in 0..Len(stack), NEW W \in SUBSET Relation, NEW B \in SUBSET Cell,
         Wave(n, W, B), NEW c \in Cell, c \notin resolved, Attached(c)
  PROVE  \A b \in B : before[c] <= before[b]
BY DEF Wave, Base

(* What it says of the clause that derives its term. *)
LEMMA WaveTakes ==
  ASSUME Booked, NEW n \in 0..Len(stack), NEW W \in SUBSET Relation, NEW B \in SUBSET Cell,
         Wave(n, W, B), NEW r \in Relation, NEW t \in SUBSET Cell, Derives(r, t)
  PROVE  /\ t \subseteq Closure(B) /\ t \cap B = {} /\ t \subseteq Edges(r)
         /\ \A c \in t : Attached(c)
         /\ r \notin W /\ cell \in Edges(r) /\ W \cup {r} \subseteq Active
         /\ Connected(W \cup {r})
<1>1. /\ TypeOK /\ phase = "visit" /\ r \in ToVisit /\ r \in Active /\ r \notin rel_resolved
      /\ OpenTerms(r) = {t} /\ t \in Terms(r) /\ t \cap resolved = {}
  BY DEF Booked, Steady, Derives
<1>2. /\ B \subseteq resolved /\ resolved \subseteq Closure(B)
      /\ W \subseteq rel_resolved \ off /\ (W = {} \/ Connected(W))
      /\ cell \in Cells(W) \/ W = {}
  BY <1>1 DEF Wave
<1>3. \A u \in Terms(r) \ {t} : u \cap Closure(B) # {}
  <2> TAKE u \in Terms(r) \ {t}
  <2>1. u \cap resolved # {}
    BY <1>1 DEF OpenTerms
  <2> QED BY <1>2, <2>1
<1>4. t \subseteq Closure(B)
  BY <1>1, <1>3, ClosureTakes
<1>5. t \subseteq Edges(r) /\ cell \in Edges(r)
  BY <1>1 DEF Edges, ToVisit, RelationIndex
<1>6. \A c \in t : Attached(c)
  BY <1>1, <1>5 DEF Attached, RelationIndex
<1>7. r \notin W /\ W \cup {r} \subseteq Active
  BY <1>1, <1>2 DEF Active
<1>8. Connected(W \cup {r})
  <2>1. W = {} \/ (Connected(W) /\ Edges(r) \cap Cells(W) # {})
    BY <1>2, <1>5
  <2> QED BY <1>1, <1>7, <2>1, StaysConnected
<1> QED BY <1>1, <1>2, <1>4, <1>5, <1>6, <1>7, <1>8

(* A clause that derives a term joins the wave. *)
LEMMA WaveApplies ==
  ASSUME Booked, NEW n \in 0..Len(stack), NEW W \in SUBSET Relation, NEW B \in SUBSET Cell,
         Wave(n, W, B), NEW r \in Relation, NEW t \in SUBSET Cell, Derives(r, t)
  PROVE  n \in 0..Len(stack') /\ Wave(n, W \cup {r}, B)'
<1> DEFINE V == W \cup {r}
<1>1. /\ TypeOK /\ r \in Active /\ r \notin rel_resolved /\ t \cap resolved = {}
      /\ rel_resolved' = rel_resolved \cup {r} /\ applied' = applied \cup {<<r, t>>}
      /\ resolved' = resolved \cup (t \ StillAttached(t))
      /\ UNCHANGED <<relations, off, before, cell>>
  BY DEF Booked, Steady, Derives
<1>2. /\ t \subseteq Closure(B) /\ t \subseteq Edges(r) /\ cell \in Edges(r) /\ V \subseteq Active
      /\ Connected(V)
  BY WaveTakes, ZenonT(30)
<1>3. /\ B \subseteq resolved /\ resolved \subseteq Closure(B)
      /\ W \subseteq rel_resolved \ off
      /\ \A i, j \in 1..n : i < j => before[stack[i]] <= before[stack[j]]
      /\ \A i \in 1..n, b \in B : before[stack[i]] <= before[b]
  BY DEF Wave, Base
<1>4. \A c \in Cell : c \notin resolved /\ Attached(c) => \E i \in 1..n : stack[i] = c
  BY DEF Wave, Base
<1> DEFINE L == Len(stack)
<1>5. /\ \A i \in n+1..L : stack[i] \in Closure(B) \cap Cells(W)
      /\ \A c \in Cell : Pending(c) => \E i \in n+1..L : stack[i] = c
  BY DEF Wave
<1>6. PICK p \in Listings(StillAttached(t)) : stack' = stack \o p
  BY DEF Derives
<1> DEFINE P == Len(p)
<1>7. StillAttached(t) \in SUBSET Cell /\ StillAttached(t) \subseteq t
  BY DEF StillAttached
<1>8. /\ p \in Seq(StillAttached(t)) /\ P \in Nat /\ L \in Nat /\ Len(stack') = L + P
      /\ \A c \in StillAttached(t) : \E j \in 1..P : p[j] = c
  <2>1. p \in Seq(StillAttached(t)) /\ P = Cardinality(StillAttached(t))
    BY <1>7, ListingType
  <2>2. stack \in Seq(Cell) /\ p \in Seq(Cell)
    BY <1>1, <1>7, ListingType DEF TypeOK
  <2>3. P \in Nat /\ L \in Nat /\ Len(stack \o p) = L + P
    BY <2>2
  <2>4. \A c \in StillAttached(t) : \E j \in 1..Cardinality(StillAttached(t)) : p[j] = c
    BY <1>7, ListingHits
  <2> QED BY <1>6, <2>1, <2>3, <2>4
<1>9. /\ \A i \in 1..L : stack'[i] = stack[i]
      /\ \A j \in 1..P : stack'[L + j] = p[j] /\ p[j] \in t
  <2>1. stack \in Seq(Cell) /\ p \in Seq(StillAttached(t))
    BY <1>1, <1>8 DEF TypeOK
  <2>2. \A j \in 1..P : p[j] \in t
    BY <1>7, <2>1
  <2>3. p \in Seq(Cell)
    BY <1>7, <2>1
  <2>4. \A i \in 1..L : (stack \o p)[i] = stack[i]
    BY <2>1, <2>3
  <2>5. \A j \in 1..P : (stack \o p)[L + j] = p[j]
    BY <2>1, <2>3
  <2> QED BY <1>6, <2>2, <2>4, <2>5
<1>10. /\ \A S : Closure(S)' = Closure(S)
       /\ \A U : Cells(U)' = Cells(U) /\ (Connected(U)' <=> Connected(U))
       /\ \A c : RelationIndex(c)' = RelationIndex(c)
  BY <1>1, SameActive, SameSheet
<1>11. \A c : Attached(c)' => Attached(c)
  BY <1>1, <1>10 DEF Attached
<1>12. n \in Nat /\ n <= L
  BY <1>8
<1>13. Cells(W) \subseteq Cells(V) /\ Edges(r) \subseteq Cells(V)
  BY DEF Cells
<1>14. V \subseteq rel_resolved' \ off'
  BY <1>1, <1>3 DEF Active
<1> HIDE DEF L, P, V
<1>15. \A i \in 1..n : i \in 1..L /\ stack'[i] = stack[i]
  BY <1>8, <1>9, <1>12
<1>16. Base(n, B)'
  <2>1. \A i, j \in 1..n : i < j => before'[stack'[i]] <= before'[stack'[j]]
    BY <1>1, <1>3, <1>15
  <2>2. \A i \in 1..n, b \in B : before'[stack'[i]] <= before'[b]
    BY <1>1, <1>3, <1>15
  <2>3. \A c \in Cell : c \notin resolved' /\ Attached(c)' => \E i \in 1..n : stack'[i] = c
    BY <1>1, <1>4, <1>11, <1>15
  <2> QED BY <2>1, <2>2, <2>3 DEF Base
<1>17. \A i \in n+1..Len(stack') : stack'[i] \in Closure(B) \cap Cells(V)
  <2> TAKE i \in n+1..Len(stack')
  <2>1. CASE i <= L
    <3>1. i \in n+1..L /\ i \in 1..L
      BY <1>8, <1>12, <2>1
    <3> QED BY <1>5, <1>9, <1>13, <3>1
  <2>2. CASE i > L
    <3>1. i - L \in 1..P /\ L + (i - L) = i
      BY <1>8, <1>12, <2>2
    <3>2. stack'[i] \in t
      BY <1>9, <3>1
    <3> QED BY <1>2, <1>13, <3>2
  <2>3. i \in Int
    BY <1>12
  <2> QED BY <1>8, <2>1, <2>2, <2>3
<1>18. ASSUME NEW c \in Cell, Pending(c)' PROVE \E i \in n+1..Len(stack') : stack'[i] = c
  <2>1. c \notin resolved' /\ c \notin resolved /\ Attached(c)
    BY <1>1, <1>11, <1>18 DEF Pending
  <2>2. CASE c \in t
    <3>1. c \in StillAttached(t)
      BY <1>1, <2>1, <2>2
    <3>2. PICK j \in 1..P : p[j] = c
      BY <1>8, <3>1
    <3>3. L + j \in n+1..Len(stack') /\ stack'[L + j] = c
      BY <1>8, <1>9, <1>12, <3>2
    <3> QED BY <3>3
  <2>3. CASE c \notin t
    <3>1. Pending(c)
      BY <1>1, <1>18, <2>1, <2>3 DEF Pending
    <3>2. PICK i \in n+1..L : stack[i] = c
      BY <1>5, <3>1
    <3>3. i \in n+1..Len(stack') /\ i \in 1..L
      BY <1>8, <1>12, <3>2
    <3> QED BY <1>9, <3>2, <3>3
  <2> QED BY <2>2, <2>3
<1>19. B \subseteq resolved' /\ resolved' \subseteq Closure(B)
  BY <1>1, <1>2, <1>3
<1>20. n \in 0..Len(stack')
  BY <1>8, <1>12
<1>21. cell' \in Cells(V)
  BY <1>1, <1>2, <1>13
<1>22. Wave(n, V, B)'
  BY <1>2, <1>10, <1>14, <1>16, <1>17, <1>18, <1>19, <1>20, <1>21 DEF Wave
<1> QED BY <1>20, <1>22 DEF V

-----------------------------------------------------------------------------
(* While flow reads cells it is on a wave, and when its stack is empty every clause
   is applied. *)
LEMMA WavesKept ==
  ASSUME Booked, Exact, StillOpen, Waves, AllApplied, [HNext]_hvars
  PROVE  Waves' /\ AllApplied'
<1> USE DEF sheetVars, prioVars, flowVars, loopVars
<1>t. TypeOK /\ Ledger
  BY DEF Booked, Steady
<1>1. CASE HFlow
  <2> SUFFICES ASSUME Orderly'
               PROVE  Waves' /\ (phase' = "flowed" => (Active \subseteq rel_resolved)')
    BY DEF Waves, AllApplied
  <2>1. UNCHANGED <<relations, off>> /\ phase \notin {"idle", "conditionals"}
    <3>1. CASE \E r \in Relation : ApplyRelation(r)
      BY <1>t, <1>1, <3>1, ApplyStep DEF Derives, Booked
    <3>2. CASE ~ \E r \in Relation : ApplyRelation(r)
      BY <1>1, <3>2, OtherFlow
    <3> QED BY <3>1, <3>2
  <2>2. Orderly /\ Counted /\ Relation' = Relation /\ Active' = Active
    BY <2>1, SameActive, SameSheet DEF Exact
  <2>3. Flowing => \E n \in 0..Len(stack), W \in SUBSET Relation, B \in SUBSET Cell : Wave(n, W, B)
    BY <2>2 DEF Waves
  <2>4. CASE BeginFlow
    <3>1. phase' = "pop"
      BY <2>4 DEF BeginFlow
    <3>2. Wave(Len(stack), {}, {})' /\ Len(stack') \in Nat
      BY <1>1, <2>4, WaveBegins
    <3>3. Len(stack') \in 0..Len(stack')
      BY <3>2
    <3>4. \E n \in 0..Len(stack'), W \in SUBSET Relation, B \in SUBSET Cell : Wave(n, W, B)'
      <4>1. PICK n \in 0..Len(stack') : n = Len(stack')
        BY <3>3
      <4>2. Wave(n, {}, {})'
        BY <3>2, <4>1 DEF Wave, Base
      <4> QED BY <4>2
    <3> QED BY <2>2, <3>1, <3>4 DEF Waves
  <2>5. CASE SkipCell
    <3>1. Flowing /\ phase' = "pop" /\ UNCHANGED <<before, off, applied>>
      BY <1>1, <2>5 DEF Flowing, HFlow, SkipCell
    <3> QED BY <2>2, <2>3, <2>5, <3>1, WaveSkips DEF Waves
  <2>6. CASE PopCell
    <3>1. Flowing /\ phase' = "visit" /\ UNCHANGED <<before, off, applied>>
      BY <1>1, <2>6 DEF Flowing, HFlow, PopCell
    <3> QED BY <2>2, <2>3, <2>6, <3>1, WavePops DEF Waves
  <2>7. CASE EndCell \/ \E r \in Relation : PassRelation(r)
    <3>1. /\ Flowing /\ phase' \in {"pop", "visit"} /\ (phase' = "visit" => phase = "visit" /\ cell' = cell)
          /\ UNCHANGED <<relations, off, before, applied, resolved, rel_resolved, stack>>
      BY <1>1, <2>7 DEF Flowing, HFlow, EndCell, PassRelation, VisitsNext
    <3> QED BY <2>2, <2>3, <3>1, WaveStays DEF Waves
  <2>8. ASSUME NEW r \in Relation, ApplyRelation(r) PROVE Waves' /\ phase' = "visit"
    <3>1. PICK t \in SUBSET Cell : Derives(r, t)
      BY <1>t, <1>1, <2>8, ApplyStep DEF Booked
    <3>2. Flowing /\ phase' = "visit"
      BY <3>1 DEF Flowing, Derives
    <3>3. PICK n \in 0..Len(stack), W \in SUBSET Relation, B \in SUBSET Cell : Wave(n, W, B)
      BY <2>3, <3>2
    <3>4. n \in 0..Len(stack') /\ Wave(n, W \cup {r}, B)'
      BY <3>1, <3>3, WaveApplies
    <3>5. W \cup {r} \in SUBSET Relation
      OBVIOUS
    <3> HIDE <3>3
    <3> QED BY <2>2, <3>2, <3>4, <3>5 DEF Waves
  <2>9. CASE EndFlow
    <3>1. /\ phase = "pop" /\ phase' = "flowed" /\ stack = <<>> /\ rel_resolved' = rel_resolved
      BY <2>9 DEF EndFlow
    <3>2. PICK n \in 0..0, W \in SUBSET Relation, B \in SUBSET Cell : Wave(n, W, B)
      BY <2>3, <3>1 DEF Flowing
    <3>3. \A c \in Cell : ~(c \notin resolved /\ Attached(c))
      BY <3>2 DEF Wave, Base
    <3>4. ASSUME NEW r \in Relation, r \notin rel_resolved PROVE FALSE
      <4>1. PICK u : u \in OpenTerms(r)
        BY <2>2, <3>1, <3>4 DEF StillOpen, TwoOpen
      <4>2. u \in Terms(r) /\ u \cap resolved = {} /\ u # {} /\ u \subseteq Cell
        BY <1>t, <4>1, SheetClauses DEF OpenTerms
      <4>3. PICK x \in u : x \in Cell /\ x \notin resolved
        BY <4>2
      <4>4. Attached(x)
        BY <3>4, <4>2, <4>3 DEF Attached, RelationIndex, Edges
      <4> QED BY <3>3, <4>3, <4>4
    <3>5. Active \subseteq rel_resolved
      BY <3>4 DEF Active
    <3> QED BY <2>2, <3>1, <3>5 DEF Waves, Flowing
  <2>10. BeginFlow \/ SkipCell \/ PopCell => phase' # "flowed"
    BY DEF BeginFlow, SkipCell, PopCell
  <2>11. EndCell \/ (\E r \in Relation : PassRelation(r)) => phase' # "flowed"
    BY DEF EndCell, PassRelation, VisitsNext
  <2>12. \/ BeginFlow \/ SkipCell \/ PopCell \/ EndCell \/ EndFlow
         \/ (\E r \in Relation : PassRelation(r)) \/ (\E r \in Relation : ApplyRelation(r))
    BY <1>1 DEF HFlow, Flow
  <2> QED BY <2>4, <2>5, <2>6, <2>7, <2>8, <2>9, <2>10, <2>11, <2>12
<1>2. CASE HClient \/ HBeginUpdate \/ HConditionals \/ HEndUpdate
  <2>1. phase' \in {"idle", "conditionals", "flow"}
    BY <1>2, <1>t, ClientStep, ConditionalStep DEF HClient, HBeginUpdate, BeginUpdate, HEndUpdate, EndUpdate
  <2> QED BY <2>1 DEF Waves, Flowing, AllApplied
<1>3. CASE UNCHANGED hvars
  <2>1. /\ UNCHANGED <<relations, off, before, applied, resolved, rel_resolved, stack, phase, cell>>
    BY <1>3 DEF hvars, vars, historyVars
  <2>2. (Orderly' <=> Orderly) /\ Active' = Active /\ Relation' = Relation
    BY <2>1, SameActive, SameSheet
  <2>3. AllApplied'
    BY <2>1, <2>2 DEF AllApplied
  <2>4. Waves'
    BY <2>1, <2>2, WaveStays DEF Waves, Flowing
  <2> QED BY <2>3, <2>4
<1> QED BY <1>1, <1>2, <1>3 DEF HNext

-----------------------------------------------------------------------------
(* What has been derived stays explained by the cells that came first. *)
Higher(p, c) == {x \in Cell \ p[2] : before[x] >= before[c]}
Greedy == Orderly => \A p \in applied : \A c \in p[2] : c \in Closure(Higher(p, c))

LEMMA GreedyIs == Greedy <=> LosesOnlyToHigher
BY DEF Greedy, LosesOnlyToHigher, Higher

LEMMA GreedyKept ==
  ASSUME Booked, Waves, Greedy, DerivedOnce, [HNext]_hvars
  PROVE  Greedy' /\ DerivedOnce'
<1>t. TypeOK /\ Steady /\ Ledger /\ before \in [Cell -> Int]
  BY DEF Booked, Steady
<1>1. ASSUME applied' = {} PROVE Greedy' /\ DerivedOnce'
  BY <1>1 DEF Greedy, DerivedOnce
<1>2. ASSUME UNCHANGED <<relations, off, before, applied>> PROVE Greedy' /\ DerivedOnce'
  <2>1. /\ (Orderly' <=> Orderly) /\ (Forest(Active)' <=> Forest(Active))
        /\ \A S : Closure(S)' = Closure(S)
    BY <1>2, SameActive
  <2>2. \A p, c : Higher(p, c)' = Higher(p, c)
    BY <1>2 DEF Higher
  <2> QED BY <1>2, <2>1, <2>2 DEF Greedy, DerivedOnce
<1>3. CASE HClient
  <2>1. Client /\ UNCHANGED <<off, before, applied>>
    BY <1>3 DEF HClient
  <2>2. Relation \subseteq Relation' /\ \A r \in Relation : Terms(r)' = Terms(r)
    BY <1>t, <2>1, ClientStep
  <2>3. Active \subseteq Active' /\ (\A r \in Relation : Edges(r)' = Edges(r)) /\ (Orderly' => Orderly)
    BY <1>t, <2>1, ClientActive
  <2>4. \A X : Closed(X)' => Closed(X)
    BY <2>2, <2>3 DEF Closed, Active
  <2>5. \A S : Closure(S) \subseteq Closure(S)'
    BY <2>4 DEF Closure
  <2>6. \A p, c : Higher(p, c)' = Higher(p, c)
    BY <2>1 DEF Higher
  <2>7. Greedy'
    BY <2>1, <2>3, <2>5, <2>6 DEF Greedy
  <2>8. Forest(Active)' => Forest(Active)
    <3> SUFFICES ASSUME Forest(Active)', NEW Q \in SUBSET Active, Q # {}
                 PROVE  Cardinality(UNION {Edges(r) : r \in Q}) + Cardinality(Q) > Cardinality(Incidences(Q))
      BY DEF Forest
    <3>1. Q \in SUBSET Active' /\ Q \subseteq Relation
      BY <2>3 DEF Active
    <3>2. \A r \in Q : Edges(r)' = Edges(r)
      BY <2>3, <3>1
    <3>3. {Edges(r)' : r \in Q} = {Edges(r) : r \in Q}
      BY <3>2
    <3>4. Incidences(Q)' = Incidences(Q)
      BY <3>2 DEF Incidences
    <3>5. Cardinality(UNION {Edges(r)' : r \in Q}) + Cardinality(Q) > Cardinality(Incidences(Q)')
      BY <3>1 DEF Forest
    <3> QED BY <3>3, <3>4, <3>5
  <2>9. DerivedOnce'
    BY <2>1, <2>3, <2>8 DEF DerivedOnce
  <2> QED BY <2>7, <2>9
<1>4. CASE HBeginUpdate \/ HConditionals
  BY <1>1, <1>4, ConditionalStep DEF HBeginUpdate
<1>5. CASE HFlow /\ ~ \E r \in Relation : ApplyRelation(r)
  <2>1. UNCHANGED <<relations, off, applied>>
    BY <1>5, OtherFlow
  <2>2. CASE phase = "flow"
    <3>1. applied = {}
      BY <1>t, <2>2 DEF Ledger
    <3> QED BY <1>1, <2>1, <3>1
  <2>3. CASE phase # "flow"
    <3>1. before' = before
      BY <1>5, <2>3 DEF HFlow
    <3> QED BY <1>2, <2>1, <3>1
  <2> QED BY <2>2, <2>3
<1>6. ASSUME HFlow, NEW r \in Relation, ApplyRelation(r) PROVE Greedy' /\ DerivedOnce'
  <2>1. PICK t \in SUBSET Cell : Derives(r, t)
    BY <1>t, <1>6, ApplyStep
  <2>2. /\ Flowing /\ applied' = applied \cup {<<r, t>>} /\ UNCHANGED <<relations, off, before>>
        /\ t \cap resolved = {} /\ t \subseteq Edges(r)
    BY <2>1 DEF Derives, Flowing, Edges
  <2>3. /\ (Orderly' <=> Orderly) /\ (Forest(Active)' <=> Forest(Active))
        /\ \A S : Closure(S)' = Closure(S)
    BY <2>2, SameActive
  <2>4. \A p, c : Higher(p, c)' = Higher(p, c)
    BY <2>2 DEF Higher
  <2> SUFFICES ASSUME Orderly PROVE Greedy' /\ DerivedOnce'
    BY <2>3 DEF Greedy, DerivedOnce
  <2>5. PICK n \in 0..Len(stack), W \in SUBSET Relation, B \in SUBSET Cell : Wave(n, W, B)
    BY <2>2 DEF Waves
  <2>6. /\ t \subseteq Closure(B) /\ t \cap B = {}
        /\ \A c \in t : Attached(c) /\ c \notin resolved /\ c \in Cell
        /\ r \notin W /\ cell \in Edges(r) /\ W \subseteq Active /\ r \in Active
    BY <2>1, <2>2, <2>5, WaveTakes, ZenonT(30)
  <2>7. \A c \in t : c \in Closure(Higher(<<r, t>>, c))
    <3> TAKE c \in t
    <3>0. \A b \in B : before[c] <= before[b]
      BY <2>5, <2>6, WaveOrders
    <3>1. B \subseteq Higher(<<r, t>>, c)
      BY <1>t, <2>6, <3>0 DEF Higher
    <3>2. Higher(<<r, t>>, c) \in SUBSET Cell
      BY DEF Higher
    <3>3. Closure(B) \subseteq Closure(Higher(<<r, t>>, c))
      BY <3>1, <3>2, ClosureGrows
    <3> QED BY <2>6, <3>3
  <2>8. Greedy'
    <3> SUFFICES ASSUME NEW p \in applied', NEW c \in p[2]
                 PROVE  c \in Closure(Higher(p, c))
      BY <2>3, <2>4 DEF Greedy
    <3>1. CASE p \in applied
      BY <3>1 DEF Greedy
    <3>2. CASE p = <<r, t>>
      <4>1. c \in t
        BY <3>2
      <4> QED BY <2>7, <3>2, <4>1
    <3> QED BY <2>2, <3>1, <3>2
  <2>9. ASSUME Forest(Active), NEW q \in applied, NEW c \in t \cap q[2] PROVE FALSE
    <3>1. c \notin resolved /\ c \in Cell /\ cell \in resolved
      BY <2>1, <2>2, <1>t DEF Derives, CellRead, Steady
    <3>2. Pending(c)
      BY <2>6, <2>9, <3>1 DEF Pending
    <3>3. PICK i \in n+1..Len(stack) : stack[i] = c
      BY <2>5, <3>1, <3>2 DEF Wave
    <3>4. c \in Cells(W) /\ n # Len(stack)
      <4>1. c \in Cells(W)
        BY <2>5, <3>3 DEF Wave
      <4>2. n # Len(stack)
        <5>1. Len(stack) \in Nat
          BY <1>t DEF TypeOK
        <5> QED BY <3>3, <5>1
      <4> QED BY <4>1, <4>2
    <3>5. phase = "visit"
      BY <2>1 DEF Derives
    <3>6. cell \in Cells(W) /\ (W = {} \/ Connected(W))
      BY <2>5, <3>4, <3>5 DEF Wave
    <3>7. W # {}
      BY <3>4 DEF Cells
    <3>8. c \in Edges(r) \cap Cells(W) /\ cell \in Edges(r) \cap Cells(W)
      BY <2>2, <2>6, <3>4, <3>6
    <3>9. Active \in SUBSET Relation
      BY DEF Active
    <3>10. c = cell
      BY <1>t, <2>6, <2>9, <3>6, <3>7, <3>8, <3>9, ForestMeets
    <3> QED BY <3>1, <3>10
  <2>10. DerivedOnce'
    <3> SUFFICES ASSUME Forest(Active), NEW p \in applied', NEW q \in applied', p # q
                 PROVE  p[2] \cap q[2] = {}
      BY <2>3 DEF DerivedOnce
    <3>1. CASE p \in applied /\ q \in applied
      BY <3>1 DEF DerivedOnce
    <3>2. CASE p = <<r, t>> /\ q \in applied
      BY <2>9, <3>2
    <3>3. CASE q = <<r, t>> /\ p \in applied
      BY <2>9, <3>3
    <3> QED BY <2>2, <3>1, <3>2, <3>3
  <2> QED BY <2>8, <2>10
<1>7. CASE HEndUpdate
  BY <1>2, <1>7 DEF HEndUpdate, EndUpdate, sheetVars
<1>8. CASE UNCHANGED hvars
  BY <1>2, <1>8 DEF hvars, vars, sheetVars, historyVars
<1> QED BY <1>3, <1>4, <1>5, <1>6, <1>7, <1>8 DEF HNext

LEMMA OrderInvariant == HSpec => [](Booked /\ Waves /\ AllApplied /\ Greedy /\ DerivedOnce)
<1> DEFINE Open == Booked /\ Exact /\ StillOpen
           Order == Waves /\ AllApplied /\ Greedy /\ DerivedOnce
<1>1. HInit => Order
  BY DEF HInit, Init, Waves, Flowing, AllApplied, Greedy, DerivedOnce
<1>2. Open /\ Order /\ [HNext]_hvars => Order'
  <2> SUFFICES ASSUME Open, Order, [HNext]_hvars PROVE Order'
    OBVIOUS
  <2>1. Waves' /\ AllApplied'
    BY WavesKept
  <2>2. Greedy' /\ DerivedOnce'
    BY GreedyKept
  <2> QED BY <2>1, <2>2
<1>3. HSpec => []Open
  BY OpenInvariant
<1> HIDE DEF Order
<1>4. HSpec => []Order
  BY <1>1, <1>2, <1>3, PTL DEF HSpec
<1>5. Open /\ Order => Booked /\ Waves /\ AllApplied /\ Greedy /\ DerivedOnce
  BY DEF Order
<1> QED BY <1>3, <1>4, <1>5, PTL

(* When the flow is done every active clause is applied, each once, in every sheet of
   clauses whose terms share no cell, so the warning "relation unnecessary and
   ignored" is never given; and in a forest no cell is derived by two clauses. *)
THEOREM AppliesEachOnce == HSpec => []EachAppliedOnce
<1>1. Booked /\ Waves /\ AllApplied /\ Greedy /\ DerivedOnce => EachAppliedOnce
  <2> SUFFICES ASSUME Booked, AllApplied, DerivedOnce, phase = "flowed", Orderly
               PROVE  /\ \A r \in Active : \E p \in applied : p[1] = r
                      /\ \A p, q \in applied : p # q => p[1] # q[1]
                      /\ Forest(Active) => \A p, q \in applied : p # q => p[2] \cap q[2] = {}
    BY DEF EachAppliedOnce
  <2>1. \A r \in Active : \E p \in applied : p[1] = r
    BY DEF AllApplied, Booked, Ledger, Active
  <2>2. \A p, q \in applied : p # q => p[1] # q[1]
    BY DEF Booked, Ledger
  <2> QED BY <2>1, <2>2 DEF DerivedOnce
<1> QED BY <1>1, OrderInvariant, PTL

(* A cell that a clause derives follows from cells whose priorities were not below its
   own: flow is greedy in priority order, in every sheet of clauses whose terms share
   no cell. *)
THEOREM HigherPrioritiesWin == HSpec => []LosesOnlyToHigher
<1>1. Booked /\ Waves /\ AllApplied /\ Greedy /\ DerivedOnce => LosesOnlyToHigher
  BY GreedyIs
<1> QED BY <1>1, OrderInvariant, PTL
=============================================================================
