------------------------------- MODULE Forest -------------------------------
(***************************************************************************)
(* The forest of forest.hpp: every node has a link forward and a link back *)
(* from its leading edge and from its trailing edge, and a walk along them *)
(* passes each node on the way down and on the way up.  A position is a    *)
(* node and an edge; a link holds a node only, and the edge it leads to is *)
(* seen from how the two nodes are linked.  Node 0 is tail(), the root     *)
(* above the topmost nodes.                                                *)
(***************************************************************************)
EXTENDS Naturals, SequencesExt

At(node, edge) == [node |-> node, edge |-> edge]
leading_of(i) == [i EXCEPT !.edge = "leading"]
trailing_of(i) == [i EXCEPT !.edge = "trailing"]

root == At(0, "leading")
end == At(0, "trailing")

\* a node constructed is its own next below it and its own prior above
NewNode(n) == [leading |-> [next |-> n, prior |-> n], trailing |-> [next |-> n, prior |-> n]]

EmptyForest == [n \in {0} |-> NewNode(0)]

(* The edge is leading exactly if the walk goes down, or on to a sibling. *)
increment(F, i) ==
  LET next == F[i.node][i.edge].next
      down == IF i.edge = "leading" THEN next # i.node ELSE F[next].leading.prior = i.node
  IN At(next, IF down THEN "leading" ELSE "trailing")

decrement(F, i) ==
  LET prior == F[i.node][i.edge].prior
      up == IF i.edge = "leading" THEN F[prior].trailing.next = i.node ELSE prior # i.node
  IN At(prior, IF up THEN "trailing" ELSE "leading")

begin(F) == increment(F, root)

set_next(F, x, y) ==
  [[F EXCEPT ![x.node][x.edge].next = y.node] EXCEPT ![y.node][y.edge].prior = x.node]

\* a new node n before a position
insert(F, position, n) ==
  LET linked == set_next([m \in DOMAIN F \cup {n} |-> IF m = n THEN NewNode(n) ELSE F[m]],
                         decrement(F, position), At(n, "leading"))
  IN set_next(linked, increment(linked, At(n, "leading")), position)

(***************************************************************************)
(* Walks over the nodes a filter shows; what is below a hidden node is     *)
(* hidden too.  No walk has more positions than there are edges.           *)
(***************************************************************************)
Repeat(Once(_), start, times) == FoldLeft(LAMBDA i, k : Once(i), start, [k \in 1 .. times |-> k])

skip_forward(F, shown, i) ==
  Repeat(LAMBDA f : IF f.edge = "leading" /\ f # root /\ f.node \notin shown
                    THEN increment(F, trailing_of(f)) ELSE f,
         i, Cardinality(DOMAIN F))

filtered_increment(F, shown, i) == skip_forward(F, shown, increment(F, i))

\* the positions from start, each the Step of the one before, up to stop
Walk(F, Step(_), start, stop) ==
  Front(Repeat(LAMBDA walk : IF Last(walk) = stop THEN walk ELSE Append(walk, Step(Last(walk))),
               <<start>>, 2 * Cardinality(DOMAIN F)))

Nodes(walk) == [k \in DOMAIN walk |-> walk[k].node]

filter_fullorder_range(F, shown) ==
  Walk(F, LAMBDA i : filtered_increment(F, shown, i), skip_forward(F, shown, begin(F)), end)

preorder_range(F, shown) ==
  Nodes(SelectSeq(filter_fullorder_range(F, shown), LAMBDA i : i.edge = "leading"))

postorder_range(F, shown) ==
  Nodes(SelectSeq(filter_fullorder_range(F, shown), LAMBDA i : i.edge = "trailing"))

\* from child_begin to child_end; a child leads to the next one by its trailing edge
child_range(F, shown, n) ==
  Nodes(Walk(F, LAMBDA i : filtered_increment(F, shown, trailing_of(i)),
             filtered_increment(F, shown, At(n, "leading")), At(n, "trailing")))
=============================================================================
