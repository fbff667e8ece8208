---------------------------- MODULE MCClosedHash ----------------------------
(* ClosedHashLoop on small instances. *)
EXTENDS ClosedHashLoop, TLC

CONSTANTS k1, k2, k3, k4, p1, p2

(* With capacity 3 the keys have the buckets 0 0 0 1, with capacity 7 they have
   0 3 0 1: buckets of three and of two, and misplaced elements at the home of k4. *)
Hashes == k1 :> 0 @@ k2 :> 3 @@ k3 :> 21 @@ k4 :> 1

Symmetry == Permutations(Payload)
=============================================================================
