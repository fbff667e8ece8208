----------------------------- MODULE MCAdamFlow -----------------------------
(* AdamFlowHistory on small instances. *)
EXTENDS AdamFlowHistory, TLC

CONSTANTS
  a, b, c, d,
  LinkedChoices  (* the sets of linked cells the built sheets have *)

Three == {a, b, c}
Four == {a, b, c, d}

(* The ways to split S into terms that share no cell. *)
Partitions(S) == {{{x \in S : f[x] = f[y]} : y \in S} : f \in [S -> 1..Cardinality(S)]}

(* Clauses of two or more terms: of one cell each, or any that share no cell. *)
Single3 == {{{x} : x \in S} : S \in {T \in SUBSET Three : Cardinality(T) >= 2}}
Single4 == {{{x} : x \in S} : S \in {T \in SUBSET Four : Cardinality(T) >= 2}}
Disjoint3 == {P \in UNION {Partitions(S) : S \in SUBSET Three} : Cardinality(P) >= 2}
Disjoint4 == {P \in UNION {Partitions(S) : S \in SUBSET Four} : Cardinality(P) >= 2}

Symmetry3 == Permutations(Three)
Symmetry4 == Permutations(Four)

(* Clauses of two or three terms of one or two cells; terms may share cells. *)
Pairs3 == {P \in SUBSET {T \in SUBSET Three : Cardinality(T) \in {1, 2}} :
             Cardinality(P) \in {2, 3}}
SharesCells(P) == \E T, U \in P : T # U /\ T \cap U # {}

(* A sheet whose terms share no cell: four cells, up to MaxRelations clauses.  Three
   clauses have terms of one cell each.  Up to the names of the cells the ones set
   last come first; the others, none or two of them, still have priority 0. *)
DisjointSheet ==
  /\ interface = Four /\ linked \in LinkedChoices
  /\ \E n \in 1..MaxRelations :
       relations \in [1..n -> [terms : IF n > 2 THEN Single4 ELSE Shapes, conditional : {FALSE}]]
  /\ \E n \in {2, 4} : LET rank == a :> n @@ b :> n - 1 @@ c :> n - 2 @@ d :> n - 3
                     IN  /\ priority = [x \in Four |-> IF rank[x] > 0 THEN rank[x] ELSE 0]
                         /\ priority_high = n

(* One or two clauses over three linked cells, one of them at least with terms that
   share cells. *)
SharingSheet ==
  /\ interface = Three /\ linked = Three
  /\ \E n \in {1, 2} : relations \in [1..n -> [terms : Pairs3, conditional : {FALSE}]]
  /\ \E r \in Relation : SharesCells(Terms(r))
  /\ priority = a :> 3 @@ b :> 2 @@ c :> 1 @@ d :> 0 /\ priority_high = 3

(* Sheets that are built and edited, ready for their first update.  add_interface,
   add_relation and set reach each of them. *)
BuiltInit ==
  /\ DisjointSheet \/ SharingSheet
  /\ priority_low = 0
  /\ relation_count = [x \in Cell |-> 0] /\ resolved = {} /\ rel_resolved = {}
  /\ term = [x \in Cell |-> NoTerm] /\ priority_accessed = {}
  /\ stack = <<>> /\ cell = NoCell /\ visit = 0 /\ phase = "idle"
  /\ before = priority /\ off = {} /\ applied = {} /\ previous = None

AllLinked == {Four}
SomeLinked == {Four, {a, c}}

BuiltSpec == BuiltInit /\ [][HBeginUpdate \/ HConditionals \/ HFlow \/ HEndUpdate]_hvars
             /\ Fairness
=============================================================================
