--------------------------- MODULE AdamFlowHistory ---------------------------
(***************************************************************************)
(* AdamFlow with history variables, and what the flow of an update         *)
(* promises.  The history variables record what the code does and never    *)
(* restrict it.                                                            *)
(***************************************************************************)
EXTENDS AdamFlow

VARIABLES
  before,   (* the priorities when the flow began                          *)
  off,      (* the relations whose conditional is false in this update     *)
  applied,  (* the <<relation, term>> pairs this update's flow derived     *)
  previous  (* what the last update did, if the client changed nothing     *)
            (* that can alter the outcome since                            *)

historyVars == <<before, off, applied, previous>>
hvars == <<vars, historyVars>>

None == [off |-> {0}, applied |-> {}]

HInit ==
  /\ Init
  /\ before = priority /\ off = {} /\ applied = {} /\ previous = None

HClient ==
  /\ Client
  /\ previous' = None
  /\ UNCHANGED <<before, off, applied>>

HBeginUpdate ==
  /\ BeginUpdate
  /\ off' = {} /\ applied' = {}
  /\ UNCHANGED <<before, previous>>

HConditionals ==
  /\ Conditionals
  /\ off' = rel_resolved'
  /\ UNCHANGED <<before, applied, previous>>

HFlow ==
  /\ Flow
  /\ before' = IF phase = "flow" THEN priority ELSE before
  /\ applied' = applied \cup {<<r, term'[c][2]>> : r \in rel_resolved' \ rel_resolved,
                                                   c \in {x \in Cell : term'[x] # term[x]}}
  /\ UNCHANGED <<off, previous>>

HEndUpdate ==
  /\ EndUpdate
  /\ previous' = [off |-> off, applied |-> applied]
  /\ UNCHANGED <<before, off, applied>>

HNext == HClient \/ HBeginUpdate \/ HConditionals \/ HFlow \/ HEndUpdate
HSpec == HInit /\ [][HNext]_hvars

-----------------------------------------------------------------------------
Active == Relation \ off

(* The relations of R and their cells form a forest: no set of them is tied
   together by more shared cells than a tree has. *)
Incidences(R) == {p \in R \X Cell : p[2] \in Edges(p[1])}
Forest(R) == \A Q \in SUBSET R :
  Q # {} => Cardinality(UNION {Edges(r) : r \in Q}) + Cardinality(Q) > Cardinality(Incidences(Q))

Single(r) == \A t \in Terms(r) : Cardinality(t) = 1

(* The cells determined by those of S: the least superset of S that holds the
   last open term of every active relation it resolves but for one term. *)
Closed(S) == \A r \in Active : \A t \in Terms(r) :
  (\A u \in Terms(r) \ {t} : u \cap S # {}) => t \subseteq S
Closure(S) ==
  LET T == {X \in SUBSET Cell : S \subseteq X /\ Closed(X)}
  IN  {c \in Cell : \A X \in T : c \in X}

-----------------------------------------------------------------------------
Orderly == \A r \in Active : Disjoint(r)

(* The code asserts that a relation it reads was applied or still has an open term
   ("All terms of relation resolved but relation not applied."), however the clauses
   are tied together. *)
NeverOverConstrained ==
  (phase = "visit" /\ Orderly) => \A r \in ToVisit :
     (\A q \in ToVisit : r <= q) => OpenTerms(r) # {}

(* Every active clause is applied exactly once ("exactly one of the relations in the
   relation set will be evaluated"), so the warning "relation unnecessary and ignored"
   is never given; and in a forest no cell is derived twice. *)
EachAppliedOnce ==
  (phase = "flowed" /\ Orderly) =>
    /\ \A r \in Active : \E p \in applied : p[1] = r
    /\ \A p, q \in applied : p # q => p[1] # q[1]
    /\ Forest(Active) => \A p, q \in applied : p # q => p[2] \cap q[2] = {}

(* A cell gives up its value only to cells that determine it and whose priorities
   were not below its own: the flow is greedy in priority order. *)
LosesOnlyToHigher ==
  Orderly =>
    \A p \in applied : \A c \in p[2] :
      c \in Closure({x \in Cell \ p[2] : before[x] >= before[c]})

(* A derived linked cell ends below every cell that contributes to it, so the next
   update derives it again ("will have a priority lower than any cell contributing
   to it"). *)
DerivedBelowContributors ==
  (phase = "flowed" /\ \A r \in Active : Single(r)) =>
    \A p \in applied : \A d \in p[2] \cap linked : \A x \in Edges(p[1]) \ p[2] :
      priority[d] < priority[x]

(* No cell is derived, through others, from itself. *)
DerivationAcyclic ==
  (Forest(Active) \/ \A r \in Active : Single(r)) =>
    \A S \in SUBSET Cell : S # {} => \E c \in S :
      term[c] # NoTerm => (Edges(term[c][1]) \ term[c][2]) \cap S = {}

(* In such a sheet an update repeated with nothing changed in between, and the same
   conditionals, derives the same cells from the same clauses, whatever order
   std::sort gives to cells of equal priority, as long as the cells are linked or
   have distinct priorities. *)
Ranked == linked = interface \/ \A x, y \in interface : x # y => before[x] # before[y]
Repeatable ==
  [][ (HEndUpdate /\ off = previous.off /\ Forest(Active) /\ Ranked)
        => applied = previous.applied ]_hvars
=============================================================================
