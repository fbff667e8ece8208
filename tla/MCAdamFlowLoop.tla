--------------------------- MODULE MCAdamFlowLoop ---------------------------
(* AdamFlow alone, with clauses whose terms may share cells. *)
EXTENDS AdamFlow, TLC

CONSTANTS a, b, c

Three == {a, b, c}

(* The clause a, b <== ...; b, c <== ...; a, c <== ...; and clauses of single cells. *)
Sharing3 == {{{a, b}, {b, c}, {a, c}}}
              \cup {{{x} : x \in S} : S \in {T \in SUBSET Three : Cardinality(T) >= 2}}
Symmetry3 == Permutations(Three)
=============================================================================
