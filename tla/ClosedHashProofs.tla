-------------------------- MODULE ClosedHashProofs --------------------------
(***************************************************************************)
(* The hash table implements a map, for any keys, hash function and        *)
(* capacities.                                                             *)
(***************************************************************************)
EXTENDS ClosedHash, FiniteSetTheorems, WellFoundedInduction, TLAPS

-----------------------------------------------------------------------------
(* Rings: Circular of two functions, apart from the table they belong to. *)
Ring(next, prior, tail, nodes) ==
  /\ \A x \in nodes \cup {tail} :
       /\ next[x] \in nodes \cup {tail} /\ prior[next[x]] = x
       /\ prior[x] \in nodes \cup {tail} /\ next[prior[x]] = x
  /\ \A S \in SUBSET nodes : S # {} => \E x \in S : prior[x] \notin S

(* A ring is untouched by links elsewhere. *)
LEMMA RingElsewhere ==
  ASSUME NEW N, NEW P, NEW N2, NEW P2, NEW t, NEW S, Ring(N, P, t, S),
         \A x \in S \cup {t} : N2[x] = N[x] /\ P2[x] = P[x]
  PROVE  Ring(N2, P2, t, S)
<1>1. \A x \in S \cup {t} :
        /\ N2[x] \in S \cup {t} /\ P2[N2[x]] = x
        /\ P2[x] \in S \cup {t} /\ N2[P2[x]] = x
  BY DEF Ring
<1>2. \A T \in SUBSET S : T # {} => \E x \in T : P2[x] \notin T
  BY DEF Ring
<1> QED BY <1>1, <1>2 DEF Ring

(* Links between the nodes of D, of which a ring has some. *)
Links(N, P, D) == N \in [D -> D] /\ P \in [D -> D]

(* The nodes S and the tail t are all among D. *)
Within(t, S, D) == t \in D /\ S \subseteq D /\ t \notin S

(* set_next(prior(x), next(x)) takes x out of its ring. *)
Skips(N, P, x, N2, P2) ==
  N2 = [N EXCEPT ![P[x]] = N[x]] /\ P2 = [P EXCEPT ![N[x]] = P[x]]

(* Taking node x out of a ring leaves a ring of the others. *)
LEMMA RingSkip ==
  ASSUME NEW D, NEW N, NEW P, Links(N, P, D), NEW t, NEW S, Within(t, S, D),
         Ring(N, P, t, S), NEW x \in S, NEW N2, NEW P2, Skips(N, P, x, N2, P2)
  PROVE  Ring(N2, P2, t, S \ {x})
<1>0. /\ N \in [D -> D] /\ P \in [D -> D] /\ t \in D /\ S \subseteq D /\ t \notin S
      /\ N2 = [N EXCEPT ![P[x]] = N[x]] /\ P2 = [P EXCEPT ![N[x]] = P[x]]
  BY DEF Links, Within, Skips
<1> USE <1>0
<1>1. /\ P[x] \in S \cup {t} /\ N[x] \in S \cup {t} /\ P[x] \in D /\ N[x] \in D
      /\ N[P[x]] = x /\ P[N[x]] = x
  BY DEF Ring
<1>2. P[x] # x /\ N[x] # x
  <2>1. \E y \in {x} : P[y] \notin {x}
    BY DEF Ring
  <2> QED BY <2>1, <1>1
<1>3. \A y \in D : N2[y] = (IF y = P[x] THEN N[x] ELSE N[y]) /\ P2[y] = (IF y = N[x] THEN P[x] ELSE P[y])
  BY <1>1
<1>4. ASSUME NEW y \in (S \ {x}) \cup {t}
      PROVE  /\ N2[y] \in (S \ {x}) \cup {t} /\ P2[N2[y]] = y
             /\ P2[y] \in (S \ {x}) \cup {t} /\ N2[P2[y]] = y
  <2>1. /\ N[y] \in S \cup {t} /\ P[N[y]] = y /\ P[y] \in S \cup {t} /\ N[P[y]] = y /\ y # x
    BY DEF Ring
  <2>2. N2[y] \in (S \ {x}) \cup {t} /\ P2[N2[y]] = y
    <3>1. CASE y = P[x]
      BY <3>1, <1>1, <1>2, <1>3
    <3>2. CASE y # P[x]
      <4>1. N2[y] = N[y] /\ N[y] # x /\ N[y] # N[x]
        BY <3>2, <1>1, <1>3, <2>1
      <4> QED BY <4>1, <1>3, <2>1
    <3> QED BY <3>1, <3>2
  <2>3. P2[y] \in (S \ {x}) \cup {t} /\ N2[P2[y]] = y
    <3>1. CASE y = N[x]
      BY <3>1, <1>1, <1>2, <1>3
    <3>2. CASE y # N[x]
      <4>1. P2[y] = P[y] /\ P[y] # x /\ P[y] # P[x]
        BY <3>2, <1>1, <1>3, <2>1
      <4> QED BY <4>1, <1>3, <2>1
    <3> QED BY <3>1, <3>2
  <2> QED BY <2>2, <2>3
<1>5. ASSUME NEW T \in SUBSET (S \ {x}), T # {}
      PROVE  \E y \in T : P2[y] \notin T
  <2>1. CASE N[x] \in T
    <3> T \cup {x} \in SUBSET S /\ T \cup {x} # {}
      OBVIOUS
    <3>1. \E y \in T \cup {x} : P[y] \notin T \cup {x}
      BY DEF Ring
    <3>2. PICK y \in T \cup {x} : P[y] \notin T \cup {x}
      BY <3>1
    <3>3. CASE y = x
      BY <3>2, <3>3, <2>1, <1>1, <1>3
    <3>4. CASE y # x
      <4>1. y # N[x]
        BY <3>2, <1>1
      <4> QED BY <3>2, <3>4, <4>1, <1>3
    <3> QED BY <3>3, <3>4
  <2>2. CASE N[x] \notin T
    <3>1. \E y \in T : P[y] \notin T
      BY <1>5 DEF Ring
    <3> QED BY <3>1, <2>2, <1>3
  <2> QED BY <2>1, <2>2
<1> QED BY <1>4, <1>5 DEF Ring

(* splice_node_range(l, x, x) puts x in the ring of l, right after it. *)
Splices(N, P, l, x, N2, P2) ==
  /\ N2 = [[N EXCEPT ![l] = x] EXCEPT ![x] = N[l]]
  /\ P2 = [[P EXCEPT ![x] = l] EXCEPT ![N[l]] = x]

(* Putting a node that was not in the ring after node l makes a ring with it. *)
LEMMA RingSplice ==
  ASSUME NEW D, NEW N, NEW P, Links(N, P, D), NEW t, NEW S, Within(t, S, D),
         Ring(N, P, t, S), NEW l \in S \cup {t}, NEW x \in D, x \notin S \cup {t},
         NEW N2, NEW P2, Splices(N, P, l, x, N2, P2)
  PROVE  Ring(N2, P2, t, S \cup {x})
<1>0. /\ N \in [D -> D] /\ P \in [D -> D] /\ t \in D /\ S \subseteq D /\ t \notin S
      /\ N2 = [[N EXCEPT ![l] = x] EXCEPT ![x] = N[l]]
      /\ P2 = [[P EXCEPT ![x] = l] EXCEPT ![N[l]] = x]
  BY DEF Links, Within, Splices
<1> USE <1>0
<1>1. N[l] \in S \cup {t} /\ P[N[l]] = l /\ N[l] \in D /\ l \in D /\ l # x /\ N[l] # x
  BY DEF Ring
<1>2. \A y \in D : /\ N2[y] = (IF y = x THEN N[l] ELSE IF y = l THEN x ELSE N[y])
                   /\ P2[y] = (IF y = x THEN l ELSE IF y = N[l] THEN x ELSE P[y])
  BY <1>1
<1>3. ASSUME NEW y \in (S \cup {x}) \cup {t}
      PROVE  /\ N2[y] \in (S \cup {x}) \cup {t} /\ P2[N2[y]] = y
             /\ P2[y] \in (S \cup {x}) \cup {t} /\ N2[P2[y]] = y
  <2>1. CASE y = x
    BY <2>1, <1>1, <1>2
  <2>2. CASE y # x
    <3>1. /\ N[y] \in S \cup {t} /\ P[N[y]] = y /\ P[y] \in S \cup {t} /\ N[P[y]] = y
          /\ y \in D /\ N[y] \in D /\ P[y] \in D /\ N[y] # x /\ P[y] # x
      BY <2>2 DEF Ring
    <3>2. N2[y] \in (S \cup {x}) \cup {t} /\ P2[N2[y]] = y
      BY <3>1, <2>2, <1>1, <1>2
    <3>3. P2[y] \in (S \cup {x}) \cup {t} /\ N2[P2[y]] = y
      BY <3>1, <2>2, <1>1, <1>2
    <3> QED BY <3>2, <3>3
  <2> QED BY <2>1, <2>2
<1>4. ASSUME NEW T \in SUBSET (S \cup {x}), T # {}
      PROVE  \E y \in T : P2[y] \notin T
  <2>1. CASE T \ {x} = {}
    BY <2>1, <1>1, <1>2, <1>4
  <2>2. CASE T \ {x} # {}
    <3>1. \E y \in T \ {x} : P[y] \notin T \ {x}
      BY <2>2 DEF Ring
    <3>2. PICK y \in T \ {x} : P[y] \notin T \ {x}
      BY <3>1
    <3>3. P[y] \notin T
      BY <3>2 DEF Ring
    <3>4. CASE y = N[l]
      BY <3>2, <3>3, <3>4, <1>1, <1>2
    <3>5. CASE y # N[l]
      BY <3>2, <3>3, <3>5, <1>2
    <3> QED BY <3>4, <3>5
  <2> QED BY <2>1, <2>2
<1> QED BY <1>3, <1>4 DEF Ring

(* set_next(prior(x), y) and set_next(y, next(x)) put y in the place of x. *)
Replaces(N, P, x, y, N2, P2) ==
  /\ N2 = [[N EXCEPT ![P[x]] = y] EXCEPT ![y] = N[x]]
  /\ P2 = [[P EXCEPT ![y] = P[x]] EXCEPT ![N[x]] = y]

(* Linking node y in the stead of x leaves a ring with y for x. *)
LEMMA RingReplace ==
  ASSUME NEW D, NEW N, NEW P, Links(N, P, D), NEW t, NEW S, Within(t, S, D),
         Ring(N, P, t, S), NEW x \in S, NEW y \in D, y \notin S \cup {t},
         NEW N2, NEW P2, Replaces(N, P, x, y, N2, P2)
  PROVE  Ring(N2, P2, t, (S \ {x}) \cup {y})
<1>0. /\ N \in [D -> D] /\ P \in [D -> D] /\ t \in D /\ S \subseteq D /\ t \notin S
      /\ N2 = [[N EXCEPT ![P[x]] = y] EXCEPT ![y] = N[x]]
      /\ P2 = [[P EXCEPT ![y] = P[x]] EXCEPT ![N[x]] = y]
  BY DEF Links, Within, Replaces
<1> USE <1>0
<1>1. /\ P[x] \in S \cup {t} /\ N[x] \in S \cup {t} /\ P[x] \in D /\ N[x] \in D
      /\ N[P[x]] = x /\ P[N[x]] = x
  BY DEF Ring
<1>2. P[x] # x /\ N[x] # x
  <2>1. \E z \in {x} : P[z] \notin {x}
    BY DEF Ring
  <2> QED BY <2>1, <1>1
<1>3. \A z \in D : /\ N2[z] = (IF z = y THEN N[x] ELSE IF z = P[x] THEN y ELSE N[z])
                   /\ P2[z] = (IF z = N[x] THEN y ELSE IF z = y THEN P[x] ELSE P[z])
  BY <1>1
<1>4. ASSUME NEW z \in ((S \ {x}) \cup {y}) \cup {t}
      PROVE  /\ N2[z] \in ((S \ {x}) \cup {y}) \cup {t} /\ P2[N2[z]] = z
             /\ P2[z] \in ((S \ {x}) \cup {y}) \cup {t} /\ N2[P2[z]] = z
  <2>1. CASE z = y
    BY <2>1, <1>1, <1>2, <1>3
  <2>2. CASE z # y
    <3>1. /\ N[z] \in S \cup {t} /\ P[N[z]] = z /\ P[z] \in S \cup {t} /\ N[P[z]] = z
          /\ z \in D /\ N[z] \in D /\ P[z] \in D /\ N[z] # y /\ P[z] # y /\ z # x
      BY <2>2 DEF Ring
    <3>2. N2[z] \in ((S \ {x}) \cup {y}) \cup {t} /\ P2[N2[z]] = z
      <4>1. CASE z = P[x]
        BY <4>1, <2>2, <1>1, <1>2, <1>3
      <4>2. CASE z # P[x]
        <5>1. N2[z] = N[z] /\ N[z] # x /\ N[z] # N[x]
          BY <4>2, <2>2, <3>1, <1>1, <1>3
        <5> QED BY <5>1, <3>1, <1>3
      <4> QED BY <4>1, <4>2
    <3>3. P2[z] \in ((S \ {x}) \cup {y}) \cup {t} /\ N2[P2[z]] = z
      <4>1. CASE z = N[x]
        BY <4>1, <2>2, <1>1, <1>2, <1>3
      <4>2. CASE z # N[x]
        <5>1. P2[z] = P[z] /\ P[z] # x /\ P[z] # P[x]
          BY <4>2, <2>2, <3>1, <1>1, <1>3
        <5> QED BY <5>1, <3>1, <1>3
      <4> QED BY <4>1, <4>2
    <3> QED BY <3>2, <3>3
  <2> QED BY <2>1, <2>2
<1>5. ASSUME NEW T \in SUBSET ((S \ {x}) \cup {y}), T # {}
      PROVE  \E z \in T : P2[z] \notin T
  <2>1. CASE y \in T
    <3> DEFINE U == (T \ {y}) \cup {x}
    <3>1. U \in SUBSET S /\ U # {}
      BY <2>1
    <3>2. \E z \in U : P[z] \notin U
      BY <3>1 DEF Ring
    <3>3. PICK z \in U : P[z] \notin U
      BY <3>2
    <3>4. z \in D /\ P[z] \in S \cup {t} /\ P[z] \notin T
      BY <3>3, <3>1 DEF Ring
    <3>5. CASE z = x
      BY <3>4, <3>5, <2>1, <1>1, <1>3
    <3>6. CASE z # x
      <4>1. z \in T /\ z # N[x] /\ z # y
        BY <3>3, <3>6, <3>1, <1>1
      <4> QED BY <4>1, <3>4, <1>3
    <3> QED BY <3>5, <3>6
  <2>2. CASE y \notin T
    <3>1. T \in SUBSET S /\ \E z \in T : P[z] \notin T
      BY <2>2, <1>5 DEF Ring
    <3>2. PICK z \in T : P[z] \notin T
      BY <3>1
    <3> QED BY <3>1, <3>2, <2>2, <1>3
  <2> QED BY <2>1, <2>2
<1> QED BY <1>4, <1>5 DEF Ring

-----------------------------------------------------------------------------
(* Tables: the type of one, and two lists that share no node. *)
Index(h) == -2..h.capacity - 1

(* A table is a record of its header, links and nodes. *)
Typed(h) ==
  h \in [capacity : Nat, size : Int,
         next : [Index(h) -> Index(h)], prior : [Index(h) -> Index(h)],
         state : [Node(h) -> {"free", "home", "misplaced"}],
         value : [Node(h) -> Element \cup {None}]]

(* U and F are disjoint, and each is a ring with its own tail. *)
Lists(h, U, F) ==
  /\ Typed(h)
  /\ U \subseteq Node(h) /\ F \subseteq Node(h) /\ U \cap F = {}
  /\ Ring(h.next, h.prior, UsedTail, U)
  /\ Ring(h.next, h.prior, FreeTail, F)

(* Everything but the links. *)
SameBut(g, h) ==
  g.capacity = h.capacity /\ g.size = h.size /\ g.state = h.state /\ g.value = h.value

(* Where the links of a table may point. *)
LEMMA Indices ==
  ASSUME NEW h, Typed(h)
  PROVE  /\ UsedTail \in Index(h) /\ FreeTail \in Index(h) /\ UsedTail # FreeTail
         /\ Node(h) \subseteq Index(h) /\ UsedTail \notin Node(h) /\ FreeTail \notin Node(h)
         /\ h.next \in [Index(h) -> Index(h)] /\ h.prior \in [Index(h) -> Index(h)]
BY DEF Typed, Index, Node, UsedTail, FreeTail

(* What set_next does to the links. *)
LEMMA SetNextFields ==
  ASSUME NEW h, Typed(h), NEW x \in Index(h), NEW y \in Index(h)
  PROVE  /\ Typed(SetNext(h, x, y)) /\ SameBut(SetNext(h, x, y), h)
         /\ SetNext(h, x, y).next = [h.next EXCEPT ![x] = y]
         /\ SetNext(h, x, y).prior = [h.prior EXCEPT ![y] = x]
BY DEF Typed, SameBut, SetNext, Index, Node

(* What skip_node does to the links. *)
LEMMA SkipFields ==
  ASSUME NEW h, Typed(h), NEW x \in Index(h)
  PROVE  /\ Typed(SkipNode(h, x)) /\ SameBut(SkipNode(h, x), h)
         /\ SkipNode(h, x).next = [h.next EXCEPT ![h.prior[x]] = h.next[x]]
         /\ SkipNode(h, x).prior = [h.prior EXCEPT ![h.next[x]] = h.prior[x]]
<1>1. h.next[x] \in Index(h) /\ h.prior[x] \in Index(h)
  BY Indices
<1> QED BY <1>1, SetNextFields DEF SkipNode

(* What splice_node_range does to the links. *)
LEMMA SpliceFields ==
  ASSUME NEW h, Typed(h), NEW l \in Index(h), NEW x \in Index(h)
  PROVE  /\ Typed(SpliceNode(h, l, x)) /\ SameBut(SpliceNode(h, l, x), h)
         /\ SpliceNode(h, l, x).next = [[h.next EXCEPT ![l] = x] EXCEPT ![x] = h.next[l]]
         /\ SpliceNode(h, l, x).prior = [[h.prior EXCEPT ![x] = l] EXCEPT ![h.next[l]] = x]
<1> DEFINE g == SetNext(h, l, x)
<1>1. h.next[l] \in Index(h)
  BY Indices
<1>2. /\ Typed(g) /\ SameBut(g, h) /\ g.next = [h.next EXCEPT ![l] = x]
      /\ g.prior = [h.prior EXCEPT ![x] = l]
  BY SetNextFields
<1>3. Index(g) = Index(h)
  BY <1>2 DEF Index, SameBut
<1> HIDE DEF g
<1>4. /\ Typed(SetNext(g, x, h.next[l])) /\ SameBut(SetNext(g, x, h.next[l]), g)
      /\ SetNext(g, x, h.next[l]).next = [g.next EXCEPT ![x] = h.next[l]]
      /\ SetNext(g, x, h.next[l]).prior = [g.prior EXCEPT ![h.next[l]] = x]
  BY <1>1, <1>2, <1>3, SetNextFields
<1>5. SpliceNode(h, l, x) = SetNext(g, x, h.next[l])
  BY DEF SpliceNode, g
<1> QED BY <1>2, <1>4, <1>5 DEF SameBut

(* Two rings that share no node: what happens in one leaves the other alone. *)
Apart(h, t, S, u, T) ==
  /\ Typed(h) /\ t \in Index(h) /\ u \in Index(h)
  /\ t # u /\ t \notin Node(h) /\ u \notin Node(h)
  /\ S \in SUBSET Node(h) /\ T \in SUBSET Node(h) /\ S \cap T = {}
  /\ Ring(h.next, h.prior, t, S) /\ Ring(h.next, h.prior, u, T)

(* The links of g and of h agree in S. *)
Agree(g, h, S) == \A z \in S : g.next[z] = h.next[z] /\ g.prior[z] = h.prior[z]

(* The two lists play the same part, so lemmas on one serve for the other. *)
LEMMA ListsApart ==
  ASSUME NEW h, NEW U, NEW F
  PROVE  /\ Lists(h, U, F) <=> Apart(h, UsedTail, U, FreeTail, F)
         /\ Lists(h, U, F) <=> Apart(h, FreeTail, F, UsedTail, U)
BY Indices DEF Lists, Apart

(* Skipping a node of one list leaves the other as it was. *)
LEMMA SkipApart ==
  ASSUME NEW h, NEW t, NEW S, NEW u, NEW T, Apart(h, t, S, u, T), NEW x \in S
  PROVE  /\ Apart(SkipNode(h, x), t, S \ {x}, u, T)
         /\ Agree(SkipNode(h, x), h, T \cup {u})
<1> DEFINE g == SkipNode(h, x)
<1>1. /\ Node(h) \subseteq Index(h)
      /\ h.next \in [Index(h) -> Index(h)] /\ h.prior \in [Index(h) -> Index(h)]
  BY Indices DEF Apart
<1>2. Typed(h) /\ x \in Index(h)
  BY <1>1 DEF Apart
<1>3. /\ Typed(g) /\ SameBut(g, h)
      /\ g.next = [h.next EXCEPT ![h.prior[x]] = h.next[x]]
      /\ g.prior = [h.prior EXCEPT ![h.next[x]] = h.prior[x]]
  BY <1>2, SkipFields
<1> HIDE DEF g
<1>4. /\ S \in SUBSET Index(h) /\ t \in Index(h) /\ t \notin S
      /\ Ring(h.next, h.prior, t, S)
  BY <1>1 DEF Apart
<1>5. Ring(g.next, g.prior, t, S \ {x})
  <2>1. Links(h.next, h.prior, Index(h)) /\ Within(t, S, Index(h))
    BY <1>1, <1>4 DEF Links, Within
  <2>2. Skips(h.next, h.prior, x, g.next, g.prior)
    BY <1>3 DEF Skips
  <2> QED BY <2>1, <2>2, <1>4, RingSkip
<1>6. h.next[x] \in S \cup {t} /\ h.prior[x] \in S \cup {t}
  BY <1>4 DEF Ring
<1>7. \A z \in T \cup {u} : z # h.next[x] /\ z # h.prior[x] /\ z \in Index(h)
  BY <1>1, <1>6 DEF Apart
<1>8. \A z \in T \cup {u} : g.next[z] = h.next[z] /\ g.prior[z] = h.prior[z]
  BY <1>1, <1>3, <1>7
<1>9. Ring(h.next, h.prior, u, T)
  BY DEF Apart
<1>10. Ring(g.next, g.prior, u, T)
  BY <1>8, <1>9, RingElsewhere
<1>11. Node(g) = Node(h) /\ Index(g) = Index(h)
  BY <1>3 DEF SameBut, Node, Index
<1>12. Apart(g, t, S \ {x}, u, T)
  BY <1>3, <1>5, <1>10, <1>11 DEF Apart
<1> QED BY <1>8, <1>12 DEF Agree, g

(* Splicing a node in one list leaves the other as it was. *)
LEMMA SpliceApart ==
  ASSUME NEW h, NEW t, NEW S, NEW u, NEW T, Apart(h, t, S, u, T),
         NEW l \in S \cup {t}, NEW x \in Node(h), x \notin S, x \notin T
  PROVE  /\ Apart(SpliceNode(h, l, x), t, S \cup {x}, u, T)
         /\ Agree(SpliceNode(h, l, x), h, T \cup {u})
<1> DEFINE g == SpliceNode(h, l, x)
<1>1. /\ Node(h) \subseteq Index(h)
      /\ h.next \in [Index(h) -> Index(h)] /\ h.prior \in [Index(h) -> Index(h)]
  BY Indices DEF Apart
<1>2. Typed(h) /\ x \in Index(h) /\ l \in Index(h)
  BY <1>1 DEF Apart
<1>3. /\ Typed(g) /\ SameBut(g, h)
      /\ g.next = [[h.next EXCEPT ![l] = x] EXCEPT ![x] = h.next[l]]
      /\ g.prior = [[h.prior EXCEPT ![x] = l] EXCEPT ![h.next[l]] = x]
  BY <1>2, SpliceFields
<1> HIDE DEF g
<1>4. /\ S \in SUBSET Index(h) /\ t \in Index(h) /\ t \notin S /\ x \notin S \cup {t}
      /\ Ring(h.next, h.prior, t, S)
  BY <1>1 DEF Apart
<1>5. Ring(g.next, g.prior, t, S \cup {x})
  <2>1. Links(h.next, h.prior, Index(h)) /\ Within(t, S, Index(h))
    BY <1>1, <1>4 DEF Links, Within
  <2>2. Splices(h.next, h.prior, l, x, g.next, g.prior)
    BY <1>3 DEF Splices
  <2> QED BY <2>1, <2>2, <1>2, <1>4, RingSplice
<1>6. h.next[l] \in S \cup {t}
  BY <1>4 DEF Ring
<1>7. \A z \in T \cup {u} : z # h.next[l] /\ z # l /\ z # x /\ z \in Index(h)
  BY <1>1, <1>6 DEF Apart
<1>8. \A z \in T \cup {u} : g.next[z] = h.next[z] /\ g.prior[z] = h.prior[z]
  BY <1>1, <1>3, <1>7
<1>9. Ring(h.next, h.prior, u, T)
  BY DEF Apart
<1>10. Ring(g.next, g.prior, u, T)
  BY <1>8, <1>9, RingElsewhere
<1>11. Node(g) = Node(h) /\ Index(g) = Index(h)
  BY <1>3 DEF SameBut, Node, Index
<1>12. Apart(g, t, S \cup {x}, u, T)
  BY <1>3, <1>5, <1>10, <1>11 DEF Apart
<1> QED BY <1>8, <1>12 DEF Agree, g

-----------------------------------------------------------------------------
(* The steps of insert and erase, with what they do to the used nodes. *)

(* Links do not depend on states, values and the size. *)
LEMMA ListsSame ==
  ASSUME NEW h, NEW U, NEW F, Lists(h, U, F), NEW g, Typed(g),
         g.capacity = h.capacity, g.next = h.next, g.prior = h.prior
  PROVE  Lists(g, U, F)
BY DEF Lists, Node

(* The facts about indices that hold of the two lists. *)
LEMMA ListsIndices ==
  ASSUME NEW h, NEW U, NEW F, Lists(h, U, F)
  PROVE  /\ Typed(h) /\ U \subseteq Node(h) /\ F \subseteq Node(h) /\ U \cap F = {}
         /\ UsedTail \in Index(h) /\ FreeTail \in Index(h)
         /\ Node(h) \subseteq Index(h) /\ UsedTail \notin Node(h) /\ FreeTail \notin Node(h)
         /\ h.next \in [Index(h) -> Index(h)] /\ h.prior \in [Index(h) -> Index(h)]
BY Indices DEF Lists

(* The neighbours of a used node are used nodes or the tail. *)
LEMMA ListsNear ==
  ASSUME NEW h, NEW U, NEW F, Lists(h, U, F), NEW x \in U \cup {UsedTail}
  PROVE  /\ x \in Index(h)
         /\ h.next[x] \in U \cup {UsedTail} /\ h.prior[h.next[x]] = x
         /\ h.prior[x] \in U \cup {UsedTail} /\ h.next[h.prior[x]] = x
         /\ h.next[x] \in Index(h) /\ h.prior[x] \in Index(h)
<1>1. /\ h.next[x] \in U \cup {UsedTail} /\ h.prior[h.next[x]] = x
      /\ h.prior[x] \in U \cup {UsedTail} /\ h.next[h.prior[x]] = x
  BY DEF Lists, Ring
<1>2. U \cup {UsedTail} \subseteq Index(h)
  BY ListsIndices
<1> QED BY <1>1, <1>2

(* skip_node of a used node. *)
LEMMA Unlinked ==
  ASSUME NEW h, NEW U, NEW F, Lists(h, U, F), NEW x \in U
  PROVE  /\ Lists(SkipNode(h, x), U \ {x}, F) /\ SameBut(SkipNode(h, x), h)
         /\ \A z \in U \cup {UsedTail} :
              /\ SkipNode(h, x).prior[z] = (IF z = h.next[x] THEN h.prior[x] ELSE h.prior[z])
              /\ SkipNode(h, x).next[z] = (IF z = h.prior[x] THEN h.next[x] ELSE h.next[z])
<1>1. Typed(h) /\ x \in Index(h)
  BY ListsIndices, ListsNear
<1>2. /\ SameBut(SkipNode(h, x), h)
      /\ SkipNode(h, x).next = [h.next EXCEPT ![h.prior[x]] = h.next[x]]
      /\ SkipNode(h, x).prior = [h.prior EXCEPT ![h.next[x]] = h.prior[x]]
  BY <1>1, SkipFields
<1>3. Lists(SkipNode(h, x), U \ {x}, F)
  BY ListsApart, SkipApart
<1>4. \A z \in U \cup {UsedTail} : z \in Index(h)
  BY ListsIndices
<1> QED BY <1>2, <1>3, <1>4, ListsIndices

(* splice_node_range of a node that is in no list. *)
LEMMA Linked ==
  ASSUME NEW h, NEW U, NEW F, Lists(h, U, F), NEW l \in U \cup {UsedTail},
         NEW x \in Node(h), x \notin U, x \notin F
  PROVE  /\ Lists(SpliceNode(h, l, x), U \cup {x}, F) /\ SameBut(SpliceNode(h, l, x), h)
         /\ SpliceNode(h, l, x).prior[x] = l
         /\ SpliceNode(h, l, x).next[l] = x
         /\ \A z \in U \cup {UsedTail} :
              SpliceNode(h, l, x).prior[z] = (IF z = h.next[l] THEN x ELSE h.prior[z])
<1>1. /\ Typed(h) /\ x \in Index(h) /\ l \in Index(h) /\ h.next[l] \in Index(h)
      /\ h.next[l] # x /\ l # x
  BY ListsIndices, ListsNear
<1>2. /\ SameBut(SpliceNode(h, l, x), h)
      /\ SpliceNode(h, l, x).next = [[h.next EXCEPT ![l] = x] EXCEPT ![x] = h.next[l]]
      /\ SpliceNode(h, l, x).prior = [[h.prior EXCEPT ![x] = l] EXCEPT ![h.next[l]] = x]
  BY <1>1, SpliceFields
<1>3. Lists(SpliceNode(h, l, x), U \cup {x}, F)
  BY ListsApart, SpliceApart
<1>4. \A z \in U \cup {UsedTail} : z \in Index(h) /\ z # x
  BY ListsIndices
<1>5. h.next \in [Index(h) -> Index(h)] /\ h.prior \in [Index(h) -> Index(h)]
  BY ListsIndices
<1>6. SpliceNode(h, l, x).prior[x] = l /\ SpliceNode(h, l, x).next[l] = x
  BY <1>1, <1>2, <1>5
<1>7. \A z \in U \cup {UsedTail} :
        SpliceNode(h, l, x).prior[z] = (IF z = h.next[l] THEN x ELSE h.prior[z])
  BY <1>1, <1>2, <1>4, <1>5
<1> QED BY <1>2, <1>3, <1>6, <1>7

(* Another node takes the place of a used one. *)
StandsIn(h, U, F, x, y, g) ==
  /\ Lists(h, U, F) /\ x \in U
  /\ y \in Node(h) /\ y \notin U /\ y \notin F
  /\ g = SetNext(SetNext(h, h.prior[x], y), y, h.next[x])

(* y has taken the place of x in the used list, and nothing else has changed. *)
StoodIn(h, U, F, x, y, g) ==
  /\ Lists(g, (U \ {x}) \cup {y}, F) /\ SameBut(g, h)
  /\ g.prior[y] = h.prior[x]
  /\ \A z \in U \cup {UsedTail} : g.prior[z] = (IF z = h.next[x] THEN y ELSE h.prior[z])

(* insert's two calls of set_next put the free node in the place of the one moved. *)
LEMMA Replaced ==
  ASSUME NEW h, NEW U, NEW F, NEW x, NEW y, NEW g, StandsIn(h, U, F, x, y, g)
  PROVE  StoodIn(h, U, F, x, y, g)
<1>0. /\ Lists(h, U, F) /\ x \in U /\ y \in Node(h) /\ y \notin U /\ y \notin F
      /\ g = SetNext(SetNext(h, h.prior[x], y), y, h.next[x])
  BY DEF StandsIn
<1> USE <1>0
<1>1. /\ Typed(h) /\ U \in SUBSET Node(h) /\ F \in SUBSET Node(h) /\ U \cap F = {}
      /\ Ring(h.next, h.prior, UsedTail, U) /\ Ring(h.next, h.prior, FreeTail, F)
  BY DEF Lists
<1>2. /\ UsedTail \in Index(h) /\ FreeTail \in Index(h)
      /\ Node(h) \subseteq Index(h) /\ UsedTail \notin Node(h) /\ FreeTail \notin Node(h)
      /\ h.next \in [Index(h) -> Index(h)] /\ h.prior \in [Index(h) -> Index(h)]
  BY ListsIndices
<1>3. /\ h.next[x] \in U \cup {UsedTail} /\ h.prior[x] \in U \cup {UsedTail}
      /\ h.next[x] \in Index(h) /\ h.prior[x] \in Index(h) /\ y \in Index(h)
      /\ h.next[x] # y /\ h.prior[x] # y
  BY <1>2, ListsNear
<1> DEFINE f == SetNext(h, h.prior[x], y)
<1>4. /\ Typed(f) /\ SameBut(f, h) /\ f.next = [h.next EXCEPT ![h.prior[x]] = y]
      /\ f.prior = [h.prior EXCEPT ![y] = h.prior[x]]
  BY <1>1, <1>3, SetNextFields
<1>5. Index(f) = Index(h)
  BY <1>4 DEF Index, SameBut
<1>6. g = SetNext(f, y, h.next[x])
  BY DEF f
<1> HIDE DEF f
<1>7. /\ Typed(g) /\ SameBut(g, f) /\ g.next = [f.next EXCEPT ![y] = h.next[x]]
      /\ g.prior = [f.prior EXCEPT ![h.next[x]] = y]
  BY <1>3, <1>4, <1>5, <1>6, SetNextFields, SMTT(30)
<1>8. /\ Typed(g) /\ SameBut(g, h)
      /\ g.next = [[h.next EXCEPT ![h.prior[x]] = y] EXCEPT ![y] = h.next[x]]
      /\ g.prior = [[h.prior EXCEPT ![y] = h.prior[x]] EXCEPT ![h.next[x]] = y]
  BY <1>4, <1>7 DEF SameBut
<1>9. /\ U \in SUBSET Index(h) /\ UsedTail \notin U /\ y \notin U \cup {UsedTail}
      /\ UsedTail \in Index(h) /\ y \in Index(h)
      /\ h.next \in [Index(h) -> Index(h)] /\ h.prior \in [Index(h) -> Index(h)]
      /\ Ring(h.next, h.prior, UsedTail, U)
  BY <1>1, <1>2
<1>10. Ring(g.next, g.prior, UsedTail, (U \ {x}) \cup {y})
  <2>1. Links(h.next, h.prior, Index(h)) /\ Within(UsedTail, U, Index(h))
    BY <1>9 DEF Links, Within
  <2>2. Replaces(h.next, h.prior, x, y, g.next, g.prior)
    BY <1>8 DEF Replaces
  <2> QED BY <2>1, <2>2, <1>9, RingReplace
<1>11. \A z \in F \cup {FreeTail} : /\ z # h.next[x] /\ z # h.prior[x] /\ z # y /\ z \in Index(h)
  BY <1>1, <1>2, <1>3 DEF UsedTail, FreeTail
<1>12. \A z \in F \cup {FreeTail} : g.next[z] = h.next[z] /\ g.prior[z] = h.prior[z]
  BY <1>2, <1>8, <1>11
<1>13. Ring(g.next, g.prior, FreeTail, F)
  BY <1>1, <1>12, RingElsewhere
<1>14. Node(g) = Node(h)
  BY <1>8 DEF SameBut, Node
<1>15. Lists(g, (U \ {x}) \cup {y}, F)
  BY <1>1, <1>8, <1>10, <1>13, <1>14 DEF Lists
<1>16. g.prior[y] = h.prior[x] /\ \A z \in U \cup {UsedTail} :
              g.prior[z] = (IF z = h.next[x] THEN y ELSE h.prior[z])
  BY <1>1, <1>2, <1>3, <1>8, <1>9
<1> QED BY <1>8, <1>15, <1>16 DEF StoodIn

(* insert_raw: an element is constructed in a free node, which is then in no list. *)
Constructs(h, x, e, s, g) ==
  e \in Element /\ s \in {"home", "misplaced"} /\ g = InsertRaw(h, x, e, s)

(* insert_raw takes a node off the free list and constructs the element in it. *)
LEMMA Constructed ==
  ASSUME NEW h, NEW U, NEW F, Lists(h, U, F), NEW x \in F,
         NEW e, NEW s, NEW g, Constructs(h, x, e, s, g)
  PROVE  /\ Lists(g, U, F \ {x})
         /\ g.capacity = h.capacity /\ g.size = h.size
         /\ g.state = [h.state EXCEPT ![x] = s] /\ g.value = [h.value EXCEPT ![x] = e]
         /\ Agree(g, h, U \cup {UsedTail})
<1> DEFINE f == [h EXCEPT !.value[x] = e, !.state[x] = s]
<1>0. e \in Element /\ s \in {"home", "misplaced"} /\ g = InsertRaw(h, x, e, s)
  BY DEF Constructs
<1>1. Typed(h) /\ x \in Node(h)
  BY DEF Lists
<1>2. /\ Typed(f) /\ f.capacity = h.capacity /\ f.size = h.size
      /\ f.next = h.next /\ f.prior = h.prior
      /\ f.state = [h.state EXCEPT ![x] = s] /\ f.value = [h.value EXCEPT ![x] = e]
  BY <1>0, <1>1 DEF Typed, Index, Node
<1>3. g = SkipNode(f, x)
  BY <1>0 DEF InsertRaw
<1> HIDE DEF f
<1>4. Lists(f, U, F)
  BY <1>2, ListsSame
<1>5. Lists(g, U, F \ {x}) /\ Agree(g, f, U \cup {UsedTail})
  <2>1. Apart(f, FreeTail, F, UsedTail, U)
    BY <1>4, ListsApart
  <2>2. Apart(g, FreeTail, F \ {x}, UsedTail, U) /\ Agree(g, f, U \cup {UsedTail})
    BY <2>1, <1>3, SkipApart
  <2> QED BY <2>2, ListsApart
<1>6. Typed(f) /\ x \in Index(f)
  BY <1>1, <1>2, Indices DEF Index, Node
<1>7. SameBut(g, f)
  BY <1>3, <1>6, SkipFields
<1> QED BY <1>2, <1>5, <1>7 DEF SameBut, Agree

(* erase_raw: a node that is in no list is given back. *)
LEMMA GivenBack ==
  ASSUME NEW h, NEW U, NEW F, Lists(h, U, F), NEW x \in Node(h), x \notin U, x \notin F,
         NEW g, g = EraseRaw(h, x)
  PROVE  /\ Lists(g, U, F \cup {x})
         /\ g.capacity = h.capacity /\ g.size = h.size
         /\ g.state = [h.state EXCEPT ![x] = "free"] /\ g.value = [h.value EXCEPT ![x] = None]
         /\ Agree(g, h, U \cup {UsedTail})
<1> DEFINE f == [h EXCEPT !.value[x] = None, !.state[x] = "free"]
<1>1. Typed(h)
  BY DEF Lists
<1>2. /\ Typed(f) /\ f.capacity = h.capacity /\ f.size = h.size
      /\ f.next = h.next /\ f.prior = h.prior
      /\ f.state = [h.state EXCEPT ![x] = "free"] /\ f.value = [h.value EXCEPT ![x] = None]
  BY <1>1 DEF Typed, Index, Node
<1>3. g = SpliceNode(f, FreeTail, x)
  BY DEF EraseRaw
<1> HIDE DEF f
<1>4. Lists(f, U, F) /\ x \in Node(f)
  BY <1>2, ListsSame DEF Node
<1>5. FreeTail \in F \cup {FreeTail}
  OBVIOUS
<1>6. Lists(g, U, F \cup {x}) /\ Agree(g, f, U \cup {UsedTail})
  BY <1>3, <1>4, <1>5, ListsApart, SpliceApart
<1>7. Typed(f) /\ x \in Index(f) /\ FreeTail \in Index(f)
  BY <1>2, <1>4, Indices
<1>8. SameBut(g, f)
  <2>1. SameBut(SpliceNode(f, FreeTail, x), f)
    BY <1>7, SpliceFields
  <2> QED BY <2>1, <1>3
<1> QED BY <1>2, <1>6, <1>8 DEF SameBut, Agree

-----------------------------------------------------------------------------
(* A table that was just allocated. *)
LEMMA LeastNode ==
  ASSUME NEW S \in SUBSET Nat, S # {}
  PROVE  \E x \in S : \A y \in S : ~ (y < x)
<1>1. \E x \in S : \A y \in S : ~ (<<y, x>> \in OpToRel(<, Nat))
  BY NatLessThanWellFounded, WFMin, Zenon
<1>2. \A x \in S, y \in S : y < x => <<y, x>> \in OpToRel(<, Nat)
  BY DEF OpToRel
<1> QED BY <1>1, <1>2, Zenon

(* allocate makes a table whose nodes are all in the free list. *)
LEMMA AllocatedLists ==
  ASSUME NEW n \in Nat
  PROVE  /\ Lists(Allocated(n), {}, Node(Allocated(n)))
         /\ Used(Allocated(n)) = {} /\ Free(Allocated(n)) = Node(Allocated(n))
         /\ Allocated(n).capacity = n /\ Allocated(n).size = 0
<1> DEFINE h == Allocated(n)
<1>1. Used(h) = {} /\ Free(h) = Node(h) /\ h.capacity = n /\ h.size = 0
  BY DEF Used, Free, Node, Allocated
<1>2. Index(h) = -2..n-1 /\ Node(h) = 0..n-1
  BY DEF Index, Node, Allocated
<1>3. /\ \A x \in -2..n-1 : h.next[x] = (IF x = -2 THEN -2 ELSE IF x = n - 1 THEN -1 ELSE x + 1)
      /\ \A x \in -2..n-1 : h.prior[x] = (IF x = -2 THEN -2 ELSE IF x = -1 THEN n - 1 ELSE x - 1)
  BY DEF Allocated, UsedTail, FreeTail
<1>4. Typed(h)
  <2>1. h.next \in [-2..n-1 -> -2..n-1] /\ h.prior \in [-2..n-1 -> -2..n-1]
    BY DEF Allocated, UsedTail, FreeTail
  <2>2. h.state \in [0..n-1 -> {"free", "home", "misplaced"}] /\ h.value \in [0..n-1 -> Element \cup {None}]
    BY DEF Allocated
  <2>3. h = [capacity |-> h.capacity, size |-> h.size, next |-> h.next, prior |-> h.prior,
             state |-> h.state, value |-> h.value]
    BY DEF Allocated
  <2> HIDE DEF h
  <2> QED BY <1>1, <1>2, <2>1, <2>2, <2>3 DEF Typed
<1> HIDE DEF h
<1>5. Ring(h.next, h.prior, UsedTail, {})
  BY <1>3 DEF Ring, UsedTail
<1>6. Ring(h.next, h.prior, FreeTail, 0..n-1)
  <2>1. ASSUME NEW x \in (0..n-1) \cup {-1}
        PROVE  /\ h.next[x] \in (0..n-1) \cup {-1} /\ h.prior[h.next[x]] = x
               /\ h.prior[x] \in (0..n-1) \cup {-1} /\ h.next[h.prior[x]] = x
    BY <1>3
  <2>2. ASSUME NEW S \in SUBSET (0..n-1), S # {}
        PROVE  \E x \in S : h.prior[x] \notin S
    <3>1. PICK x \in S : \A y \in S : ~ (y < x)
      BY <2>2, LeastNode
    <3>2. x \in 0..n-1 /\ h.prior[x] = x - 1 /\ x - 1 < x
      BY <1>3
    <3> QED BY <3>1, <3>2
  <2> QED BY <2>1, <2>2 DEF Ring, FreeTail
<1>7. Lists(h, {}, Node(h))
  BY <1>2, <1>4, <1>5, <1>6 DEF Lists
<1> QED BY <1>1, <1>7 DEF h

-----------------------------------------------------------------------------
(* A table in order: its lists are its used and its free nodes, and size counts.
   This much holds of the old table even while its elements are moved away. *)
Sound(h) == Lists(h, Used(h), Free(h)) /\ h.size = Cardinality(Used(h))

(* Where the element at a node belongs. *)
HomeOf(h, x) == Bucket(h, h.value[x].key)

(* A home has an element that belongs there; a misplaced element follows, in the used
   list, one of its own bucket; no two elements have the same key.  So the elements of
   a bucket are the home and the misplaced nodes right after it, which is what find,
   and erase when it fills the home from the next node, rely on. *)
Chains(h) ==
  /\ \A x \in Used(h) : h.value[x] \in Element
  /\ \A x \in Used(h) : h.state[x] = "home" => HomeOf(h, x) = x
  /\ \A x \in Used(h) : h.state[x] = "misplaced" =>
       h.prior[x] \in Used(h) /\ HomeOf(h, h.prior[x]) = HomeOf(h, x)
  /\ \A x, y \in Used(h) : h.value[x].key = h.value[y].key => x = y

(* What holds of every table between two operations. *)
Good(h) == Sound(h) /\ Chains(h)

(* The nodes are finitely many, each used or free. *)
LEMMA Counts ==
  ASSUME NEW h, Typed(h)
  PROVE  /\ IsFiniteSet(Used(h)) /\ IsFiniteSet(Free(h)) /\ IsFiniteSet(Node(h))
         /\ Cardinality(Used(h)) \in Nat /\ Cardinality(Free(h)) \in Nat
         /\ Cardinality(Used(h)) + Cardinality(Free(h)) = h.capacity
         /\ h.capacity \in Nat
         /\ \A x \in Used(h) : h.state[x] \in {"home", "misplaced"}
<1>1. h.capacity \in Nat /\ h.state \in [Node(h) -> {"free", "home", "misplaced"}]
  BY DEF Typed
<1>2. IsFiniteSet(Node(h)) /\ Cardinality(Node(h)) = h.capacity
  <2>1. 0 \in Int /\ h.capacity - 1 \in Int
    BY <1>1
  <2>2. /\ IsFiniteSet(0..h.capacity-1)
        /\ Cardinality(0..h.capacity-1) = IF 0 > h.capacity-1 THEN 0 ELSE (h.capacity-1)-0+1
    BY <2>1, FS_Interval
  <2> QED BY <1>1, <2>2 DEF Node
<1>3. Used(h) \in SUBSET Node(h) /\ Free(h) \in SUBSET Node(h)
  BY DEF Used, Free
<1>4. /\ IsFiniteSet(Used(h)) /\ IsFiniteSet(Free(h))
  BY <1>2, <1>3, FS_Subset
<1>5. Cardinality(Used(h)) \in Nat /\ Cardinality(Free(h)) \in Nat
  BY <1>4, FS_CardinalityType
<1>6. Used(h) \cap Free(h) = {} /\ Used(h) \cup Free(h) = Node(h)
  BY DEF Used, Free
<1>7. Cardinality(Used(h) \cup Free(h)) =
        Cardinality(Used(h)) + Cardinality(Free(h)) - Cardinality(Used(h) \cap Free(h))
  BY <1>4, FS_Union
<1>8. Cardinality(Used(h) \cap Free(h)) = 0
  BY <1>6, FS_EmptySet
<1>9. Cardinality(Used(h)) + Cardinality(Free(h)) = h.capacity
  <2>1. h.capacity = Cardinality(Used(h)) + Cardinality(Free(h)) - 0
    BY <1>2, <1>6, <1>7, <1>8
  <2> QED BY <2>1, <1>5
<1>10. \A x \in Used(h) : h.state[x] \in {"home", "misplaced"}
  BY <1>1 DEF Used
<1> QED BY <1>1, <1>2, <1>4, <1>5, <1>9, <1>10

(* insert_raw is given a free node as long as the table is not full. *)
LEMMA Room ==
  ASSUME NEW h, Sound(h)
  PROVE  /\ h.size \in Nat /\ h.size <= h.capacity
         /\ Free(h) # {} => BeginFree(h) \in Free(h)
         /\ h.size # h.capacity => BeginFree(h) \in Free(h) /\ h.capacity # 0
         /\ h.size = 0 <=> Used(h) = {}
<1>1. Typed(h) /\ h.size = Cardinality(Used(h)) /\ Ring(h.next, h.prior, FreeTail, Free(h))
  BY DEF Sound, Lists
<1>2. /\ IsFiniteSet(Used(h)) /\ IsFiniteSet(Free(h))
      /\ Cardinality(Used(h)) \in Nat /\ Cardinality(Free(h)) \in Nat
      /\ Cardinality(Used(h)) + Cardinality(Free(h)) = h.capacity
      /\ h.capacity \in Nat
  BY <1>1, Counts
<1>3. h.size \in Nat /\ h.size <= h.capacity
  BY <1>1, <1>2
<1>4. ASSUME Free(h) # {} PROVE BeginFree(h) \in Free(h)
  <2>1. PICK x \in Free(h) : h.prior[x] \notin Free(h)
    BY <1>1, <1>4 DEF Ring
  <2>2. h.prior[x] = FreeTail /\ h.next[h.prior[x]] = x
    BY <1>1, <2>1 DEF Ring
  <2> QED BY <2>2 DEF BeginFree
<1>5. h.size # h.capacity => Free(h) # {}
  <2>1. Free(h) = {} => Cardinality(Free(h)) = 0
    BY <1>2, FS_EmptySet
  <2> QED BY <1>1, <1>2, <2>1
<1>6. h.size # h.capacity => h.capacity # 0
  BY <1>3
<1>7. h.size = 0 <=> Used(h) = {}
  BY <1>1, <1>2, FS_EmptySet
<1> QED BY <1>3, <1>4, <1>5, <1>6, <1>7

(* A bucket is a node of the table. *)
LEMMA BucketNode ==
  ASSUME NEW h, Typed(h), h.capacity # 0, NEW e \in Element
  PROVE  Bucket(h, e.key) \in Node(h)
<1>1. h.capacity \in Nat /\ h.capacity > 0 /\ Hash[e.key] \in Nat
  BY HashAssumption DEF Typed, Element
<1>2. Hash[e.key] % h.capacity \in 0..h.capacity-1
  BY <1>1
<1> QED BY <1>2 DEF Bucket, Node

(* A used node is not its own neighbour. *)
LEMMA NotItself ==
  ASSUME NEW h, NEW U, NEW F, Lists(h, U, F), NEW x \in U
  PROVE  h.prior[x] # x /\ h.next[x] # x
<1>1. {x} \in SUBSET U /\ {x} # {}
  OBVIOUS
<1>2. \E y \in {x} : h.prior[y] \notin {x}
  BY <1>1 DEF Lists, Ring
<1>3. h.prior[x] # x
  BY <1>2
<1>4. h.prior[h.next[x]] = x
  BY ListsNear
<1> QED BY <1>3, <1>4

(* Changing the size changes nothing else. *)
LEMMA Resized ==
  ASSUME NEW h, Typed(h), NEW n \in Int
  PROVE  /\ Typed([h EXCEPT !.size = n])
         /\ [h EXCEPT !.size = n].size = n
         /\ [h EXCEPT !.size = n].capacity = h.capacity
         /\ [h EXCEPT !.size = n].next = h.next /\ [h EXCEPT !.size = n].prior = h.prior
         /\ [h EXCEPT !.size = n].state = h.state /\ [h EXCEPT !.size = n].value = h.value
BY DEF Typed, Index, Node

-----------------------------------------------------------------------------
(* A new element in a free node x, linked in after l. *)
Put(h, x, l, e, s) == [SpliceNode(InsertRaw(h, x, e, s), l, x) EXCEPT !.size = @ + 1]

(* What putting an element in a free node, linked after l, does to a sound table. *)
LEMMA PutEffect ==
  ASSUME NEW h, Sound(h), NEW x \in Free(h), NEW l \in Used(h) \cup {UsedTail},
         NEW e \in Element, NEW s \in {"home", "misplaced"}, NEW g, g = Put(h, x, l, e, s)
  PROVE  /\ Sound(g)
         /\ Used(g) = Used(h) \cup {x} /\ Free(g) = Free(h) \ {x}
         /\ g.capacity = h.capacity /\ g.size = h.size + 1
         /\ g.state[x] = s /\ \A z \in Used(h) : g.state[z] = h.state[z]
         /\ g.value[x] = e /\ \A z \in Used(h) : g.value[z] = h.value[z]
         /\ g.prior[x] = l
         /\ \A z \in Used(h) : g.prior[z] = (IF z = h.next[l] THEN x ELSE h.prior[z])
<1> DEFINE i == InsertRaw(h, x, e, s)
           k == SpliceNode(i, l, x)
<1>1. Lists(h, Used(h), Free(h)) /\ h.size = Cardinality(Used(h)) /\ Typed(h)
  BY DEF Sound, Lists
<1>3. g = [k EXCEPT !.size = k.size + 1]
  BY DEF Put
<1>0. Constructs(h, x, e, s, i)
  BY DEF Constructs
<1> HIDE DEF i
<1>2. /\ Lists(i, Used(h), Free(h) \ {x})
      /\ i.capacity = h.capacity /\ i.size = h.size
      /\ i.state = [h.state EXCEPT ![x] = s] /\ i.value = [h.value EXCEPT ![x] = e]
      /\ Agree(i, h, Used(h) \cup {UsedTail})
  BY <1>0, <1>1, Constructed
<1>4. x \in Node(h) /\ x \notin Used(h) /\ Node(i) = Node(h)
  BY <1>2 DEF Free, Used, Node
<1>5. /\ Lists(k, Used(h) \cup {x}, Free(h) \ {x}) /\ SameBut(k, i)
      /\ k.prior[x] = l
      /\ \A z \in Used(h) \cup {UsedTail} : k.prior[z] = (IF z = i.next[l] THEN x ELSE i.prior[z])
  BY <1>2, <1>4, Linked
<1> HIDE DEF k
<1>6. Typed(k) /\ k.size + 1 \in Int
  BY <1>5 DEF Lists, Typed
<1>7. /\ Typed(g) /\ g.capacity = k.capacity /\ g.next = k.next /\ g.prior = k.prior
      /\ g.state = k.state /\ g.value = k.value /\ g.size = k.size + 1
  BY <1>3, <1>6, Resized
<1>8. Lists(g, Used(h) \cup {x}, Free(h) \ {x})
  BY <1>5, <1>7, ListsSame
<1>9. /\ g.capacity = h.capacity /\ g.size = h.size + 1
      /\ g.state = [h.state EXCEPT ![x] = s] /\ g.value = [h.value EXCEPT ![x] = e]
  BY <1>2, <1>5, <1>7 DEF SameBut
<1>10. h.state \in [Node(h) -> {"free", "home", "misplaced"}] /\ h.value \in [Node(h) -> Element \cup {None}]
  BY <1>1 DEF Typed
<1>11. \A z \in Node(h) : /\ g.state[z] = (IF z = x THEN s ELSE h.state[z])
                          /\ g.value[z] = (IF z = x THEN e ELSE h.value[z])
  BY <1>4, <1>9, <1>10
<1>12. Node(g) = Node(h)
  BY <1>9 DEF Node
<1>13. Used(g) = Used(h) \cup {x} /\ Free(g) = Free(h) \ {x}
  BY <1>4, <1>11, <1>12 DEF Used, Free
<1>14. Cardinality(Used(h) \cup {x}) = Cardinality(Used(h)) + 1
  BY <1>1, <1>4, Counts, FS_AddElement
<1>15. Sound(g)
  BY <1>1, <1>8, <1>9, <1>13, <1>14 DEF Sound
<1>16. \A z \in Used(h) : g.prior[z] = (IF z = h.next[l] THEN x ELSE h.prior[z])
  BY <1>2, <1>5, <1>7 DEF Agree
<1>17. /\ g.state[x] = s /\ \A z \in Used(h) : g.state[z] = h.state[z]
       /\ g.value[x] = e /\ \A z \in Used(h) : g.value[z] = h.value[z]
  BY <1>4, <1>11 DEF Used
<1> QED BY <1>5, <1>7, <1>9, <1>13, <1>15, <1>16, <1>17

(* A used node y given back. *)
TakenOut(h, y) == [EraseRaw(SkipNode(h, y), y) EXCEPT !.size = @ - 1]

(* What taking a used node out does to a sound table. *)
LEMMA TakenOutEffect ==
  ASSUME NEW h, Sound(h), NEW y \in Used(h), NEW g, g = TakenOut(h, y)
  PROVE  /\ Sound(g)
         /\ Used(g) = Used(h) \ {y} /\ Free(g) = Free(h) \cup {y}
         /\ g.capacity = h.capacity /\ g.size = h.size - 1
         /\ \A z \in Used(h) \ {y} : g.state[z] = h.state[z] /\ g.value[z] = h.value[z]
         /\ \A z \in Used(h) \ {y} : g.prior[z] = (IF z = h.next[y] THEN h.prior[y] ELSE h.prior[z])
         /\ \A z \in (Used(h) \ {y}) \cup {UsedTail} :
              g.next[z] = (IF z = h.prior[y] THEN h.next[y] ELSE h.next[z])
<1> DEFINE i == SkipNode(h, y)
           k == EraseRaw(i, y)
<1>1. Lists(h, Used(h), Free(h)) /\ h.size = Cardinality(Used(h)) /\ Typed(h)
  BY DEF Sound, Lists
<1>2. /\ Lists(i, Used(h) \ {y}, Free(h)) /\ SameBut(i, h)
      /\ \A z \in Used(h) \cup {UsedTail} :
              /\ i.prior[z] = (IF z = h.next[y] THEN h.prior[y] ELSE h.prior[z])
              /\ i.next[z] = (IF z = h.prior[y] THEN h.next[y] ELSE h.next[z])
  BY <1>1, Unlinked
<1>3. g = [k EXCEPT !.size = k.size - 1]
  BY DEF TakenOut
<1> HIDE DEF i
<1>4. y \in Node(h) /\ y \notin Free(h) /\ Node(i) = Node(h)
  BY <1>2 DEF Free, Used, Node, SameBut
<1>5. /\ Lists(k, Used(h) \ {y}, Free(h) \cup {y})
      /\ k.capacity = i.capacity /\ k.size = i.size
      /\ k.state = [i.state EXCEPT ![y] = "free"] /\ k.value = [i.value EXCEPT ![y] = None]
      /\ Agree(k, i, (Used(h) \ {y}) \cup {UsedTail})
  <2>1. y \in Node(i) /\ y \notin Used(h) \ {y}
    BY <1>4
  <2> QED BY <1>2, <1>4, <2>1, GivenBack
<1> HIDE DEF k
<1>6. Typed(k) /\ k.size - 1 \in Int
  BY <1>5 DEF Lists, Typed
<1>7. /\ Typed(g) /\ g.capacity = k.capacity /\ g.next = k.next /\ g.prior = k.prior
      /\ g.state = k.state /\ g.value = k.value /\ g.size = k.size - 1
  BY <1>3, <1>6, Resized
<1>8. Lists(g, Used(h) \ {y}, Free(h) \cup {y})
  BY <1>5, <1>7, ListsSame
<1>9. /\ g.capacity = h.capacity /\ g.size = h.size - 1
      /\ g.state = [h.state EXCEPT ![y] = "free"] /\ g.value = [h.value EXCEPT ![y] = None]
  BY <1>2, <1>5, <1>7 DEF SameBut
<1>10. h.state \in [Node(h) -> {"free", "home", "misplaced"}] /\ h.value \in [Node(h) -> Element \cup {None}]
  BY <1>1 DEF Typed
<1>11. \A z \in Node(h) : /\ g.state[z] = (IF z = y THEN "free" ELSE h.state[z])
                          /\ g.value[z] = (IF z = y THEN None ELSE h.value[z])
  BY <1>4, <1>9, <1>10
<1>12. Node(g) = Node(h)
  BY <1>9 DEF Node
<1>13. Used(g) = Used(h) \ {y} /\ Free(g) = Free(h) \cup {y}
  BY <1>4, <1>11, <1>12 DEF Used, Free
<1>14. Cardinality(Used(h) \ {y}) = Cardinality(Used(h)) - 1
  BY <1>1, Counts, FS_RemoveElement
<1>15. Sound(g)
  BY <1>1, <1>8, <1>9, <1>13, <1>14 DEF Sound
<1>16. /\ \A z \in Used(h) \ {y} : g.prior[z] = (IF z = h.next[y] THEN h.prior[y] ELSE h.prior[z])
       /\ \A z \in (Used(h) \ {y}) \cup {UsedTail} :
              g.next[z] = (IF z = h.prior[y] THEN h.next[y] ELSE h.next[z])
  BY <1>2, <1>5, <1>7 DEF Agree
<1>17. \A z \in Used(h) \ {y} : g.state[z] = h.state[z] /\ g.value[z] = h.value[z]
  BY <1>11 DEF Used
<1> QED BY <1>9, <1>13, <1>15, <1>16, <1>17

(* A used node x that a free node takes the place of. *)
LEMMA MovedAwayEffect ==
  ASSUME NEW h, Sound(h), NEW x \in Used(h), h.value[x] \in Element,
         NEW f \in Free(h), f = BeginFree(h), NEW g, g = MovedAway(h, x)
  PROVE  /\ Sound(g)
         /\ Used(g) = (Used(h) \ {x}) \cup {f} /\ Free(g) = (Free(h) \ {f}) \cup {x}
         /\ g.capacity = h.capacity /\ g.size = h.size
         /\ g.state[f] = "misplaced" /\ g.value[f] = h.value[x]
         /\ \A z \in Used(h) \ {x} : g.state[z] = h.state[z] /\ g.value[z] = h.value[z]
         /\ g.prior[f] = h.prior[x]
         /\ \A z \in Used(h) \ {x} : g.prior[z] = (IF z = h.next[x] THEN f ELSE h.prior[z])
<1> DEFINE e == h.value[x]
           i == InsertRaw(h, f, e, "misplaced")
           j == SetNext(SetNext(i, i.prior[x], f), f, i.next[x])
<1>1. Lists(h, Used(h), Free(h)) /\ h.size = Cardinality(Used(h)) /\ Typed(h)
  BY DEF Sound, Lists
<1>2. Constructs(h, f, e, "misplaced", i)
  BY DEF Constructs
<1>3. g = EraseRaw(j, x)
  BY DEF MovedAway
<1>20. e = h.value[x]
  OBVIOUS
<1> HIDE DEF e, i
<1>4. /\ Lists(i, Used(h), Free(h) \ {f})
      /\ i.capacity = h.capacity /\ i.size = h.size
      /\ i.state = [h.state EXCEPT ![f] = "misplaced"] /\ i.value = [h.value EXCEPT ![f] = e]
      /\ Agree(i, h, Used(h) \cup {UsedTail})
  <2>1. f \in Free(h)
    OBVIOUS
  <2> QED BY ONLY <1>1, <1>2, <2>1, Constructed
<1>5. f \in Node(h) /\ f \notin Used(h) /\ Node(i) = Node(h) /\ x \in Node(h) /\ x \notin Free(h)
  BY <1>4 DEF Free, Used, Node
<1>6. /\ Lists(j, (Used(h) \ {x}) \cup {f}, Free(h) \ {f}) /\ SameBut(j, i)
      /\ j.prior[f] = i.prior[x]
      /\ \A z \in Used(h) \cup {UsedTail} : j.prior[z] = (IF z = i.next[x] THEN f ELSE i.prior[z])
  <2>1. StandsIn(i, Used(h), Free(h) \ {f}, x, f, j)
    BY <1>4, <1>5 DEF StandsIn
  <2> HIDE DEF j
  <2>2. StoodIn(i, Used(h), Free(h) \ {f}, x, f, j)
    BY <2>1, Replaced, Zenon
  <2> QED BY <2>2 DEF StoodIn
<1> HIDE DEF j
<1>7. /\ Lists(g, (Used(h) \ {x}) \cup {f}, (Free(h) \ {f}) \cup {x})
      /\ g.capacity = j.capacity /\ g.size = j.size
      /\ g.state = [j.state EXCEPT ![x] = "free"] /\ g.value = [j.value EXCEPT ![x] = None]
      /\ Agree(g, j, ((Used(h) \ {x}) \cup {f}) \cup {UsedTail})
  <2> DEFINE U == (Used(h) \ {x}) \cup {f}
             F == Free(h) \ {f}
  <2>1. Lists(j, U, F) /\ x \in Node(j) /\ x \notin U /\ x \notin F
    BY <1>5, <1>6 DEF SameBut, Node
  <2> HIDE DEF U, F
  <2>2. /\ Lists(g, U, F \cup {x})
        /\ g.capacity = j.capacity /\ g.size = j.size
        /\ g.state = [j.state EXCEPT ![x] = "free"] /\ g.value = [j.value EXCEPT ![x] = None]
        /\ Agree(g, j, U \cup {UsedTail})
    BY <1>3, <2>1, GivenBack
  <2> QED BY <2>2 DEF U, F
<1>8. /\ g.capacity = h.capacity /\ g.size = h.size
      /\ g.state = [[h.state EXCEPT ![f] = "misplaced"] EXCEPT ![x] = "free"]
      /\ g.value = [[h.value EXCEPT ![f] = h.value[x]] EXCEPT ![x] = None]
  BY <1>4, <1>6, <1>7, <1>20 DEF SameBut
<1>9. h.state \in [Node(h) -> {"free", "home", "misplaced"}] /\ h.value \in [Node(h) -> Element \cup {None}]
  BY <1>1 DEF Typed
<1>10. \A z \in Node(h) :
         /\ g.state[z] = (IF z = x THEN "free" ELSE IF z = f THEN "misplaced" ELSE h.state[z])
         /\ g.value[z] = (IF z = x THEN None ELSE IF z = f THEN h.value[x] ELSE h.value[z])
  BY <1>5, <1>8, <1>9
<1>11. Node(g) = Node(h)
  BY <1>8 DEF Node
<1>12. Used(g) = (Used(h) \ {x}) \cup {f} /\ Free(g) = (Free(h) \ {f}) \cup {x}
  BY <1>5, <1>10, <1>11 DEF Used, Free
<1>13. Cardinality((Used(h) \ {x}) \cup {f}) = Cardinality(Used(h))
  <2>1. IsFiniteSet(Used(h)) /\ Cardinality(Used(h)) \in Nat
    BY <1>1, Counts
  <2>2. IsFiniteSet(Used(h) \ {x}) /\ Cardinality(Used(h) \ {x}) = Cardinality(Used(h)) - 1
    BY <2>1, FS_RemoveElement
  <2>3. f \notin Used(h) \ {x}
    BY <1>5
  <2>4. Cardinality((Used(h) \ {x}) \cup {f}) = Cardinality(Used(h) \ {x}) + 1
    BY <2>2, <2>3, FS_AddElement
  <2> QED BY <2>1, <2>2, <2>4
<1>14. Sound(g)
  BY <1>1, <1>7, <1>8, <1>12, <1>13 DEF Sound
<1>15. g.prior[f] = h.prior[x]
  BY <1>4, <1>6, <1>7 DEF Agree
<1>16. \A z \in Used(h) \ {x} : g.prior[z] = (IF z = h.next[x] THEN f ELSE h.prior[z])
  BY <1>4, <1>6, <1>7 DEF Agree
<1>17. f # x /\ \A z \in Used(h) \ {x} : z \in Node(h) /\ z # f
  BY <1>5 DEF Used
<1>18. g.state[f] = "misplaced" /\ g.value[f] = h.value[x]
  BY <1>5, <1>10, <1>17
<1>19. \A z \in Used(h) \ {x} : g.state[z] = h.state[z] /\ g.value[z] = h.value[z]
  BY <1>10, <1>17
<1> QED BY <1>8, <1>12, <1>14, <1>15, <1>16, <1>18, <1>19

-----------------------------------------------------------------------------
(* What the steps do to the order of a table, and to its elements. *)
LEMMA Near ==
  ASSUME NEW h, Sound(h), NEW x \in Used(h) \cup {UsedTail}
  PROVE  /\ h.next[x] \in Used(h) \cup {UsedTail} /\ h.prior[h.next[x]] = x
         /\ h.prior[x] \in Used(h) \cup {UsedTail} /\ h.next[h.prior[x]] = x
         /\ x # UsedTail => h.prior[x] # x /\ h.next[x] # x
         /\ UsedTail \notin Used(h)
<1>1. Lists(h, Used(h), Free(h))
  BY DEF Sound
<1>2. UsedTail \notin Used(h)
  BY <1>1, ListsIndices
<1> QED BY <1>1, <1>2, ListsNear, NotItself

(* The elements in the used nodes. *)
Elements(h) == {h.value[x] : x \in Used(h)}

(* In a table in order no used node is without its element. *)
LEMMA GoodContents ==
  ASSUME NEW h, Chains(h)
  PROVE  Contents(h) = Elements(h) /\ Contents(h) \subseteq Element
BY NoneAssumption DEF Contents, Elements, Chains

(* Putting in an element of a new key, at its home or after one of its bucket, leaves
   the table in order. *)
LEMMA PutGood ==
  ASSUME NEW h, Good(h), NEW x \in Free(h), NEW l \in Used(h) \cup {UsedTail},
         NEW e \in Element, NEW s \in {"home", "misplaced"},
         s = "home" => l = UsedTail /\ Bucket(h, e.key) = x,
         s = "misplaced" => l \in Used(h) /\ HomeOf(h, l) = Bucket(h, e.key),
         \A z \in Used(h) : h.value[z].key # e.key,
         NEW g, g = Put(h, x, l, e, s)
  PROVE  /\ Good(g) /\ Elements(g) = Elements(h) \cup {e}
         /\ g.capacity = h.capacity /\ g.size = h.size + 1
<1>1. /\ Sound(g)
      /\ Used(g) = Used(h) \cup {x} /\ Free(g) = Free(h) \ {x}
      /\ g.capacity = h.capacity /\ g.size = h.size + 1
      /\ g.state[x] = s /\ \A z \in Used(h) : g.state[z] = h.state[z]
      /\ g.value[x] = e /\ \A z \in Used(h) : g.value[z] = h.value[z]
      /\ g.prior[x] = l
      /\ \A z \in Used(h) : g.prior[z] = (IF z = h.next[l] THEN x ELSE h.prior[z])
  BY PutEffect DEF Good
<1>2. \A key : Bucket(g, key) = Bucket(h, key)
  BY <1>1 DEF Bucket
<1>3. x \notin Used(h)
  BY DEF Used, Free
<1>4. HomeOf(g, x) = Bucket(h, e.key) /\ \A z \in Used(h) : HomeOf(g, z) = HomeOf(h, z)
  BY <1>1, <1>2 DEF HomeOf
<1>5. /\ \A z \in Used(h) : h.value[z] \in Element
      /\ \A z \in Used(h) : h.state[z] = "home" => HomeOf(h, z) = z
      /\ \A z \in Used(h) : h.state[z] = "misplaced" =>
           h.prior[z] \in Used(h) /\ HomeOf(h, h.prior[z]) = HomeOf(h, z)
      /\ \A z, y \in Used(h) : h.value[z].key = h.value[y].key => z = y
  BY DEF Good, Chains
<1>6. \A z \in Used(g) : g.value[z] \in Element
  BY <1>1, <1>5
<1>7. \A z \in Used(g) : g.state[z] = "home" => HomeOf(g, z) = z
  BY <1>1, <1>4, <1>5
<1>8. ASSUME NEW z \in Used(g), g.state[z] = "misplaced"
      PROVE  g.prior[z] \in Used(g) /\ HomeOf(g, g.prior[z]) = HomeOf(g, z)
  <2>1. CASE z = x
    BY <2>1, <1>1, <1>4, <1>8
  <2>2. CASE z # x /\ z # h.next[l]
    BY <2>2, <1>1, <1>4, <1>5, <1>8
  <2>3. CASE z # x /\ z = h.next[l]
    <3>1. z \in Used(h) /\ h.state[z] = "misplaced" /\ g.prior[z] = x /\ h.prior[z] = l
      BY <2>3, <1>1, <1>8, Near DEF Good
    <3>2. l \in Used(h) /\ HomeOf(h, l) = HomeOf(h, z)
      BY <3>1, <1>5
    <3>3. l # UsedTail
      BY <3>2, Near DEF Good
    <3>4. HomeOf(h, l) = Bucket(h, e.key)
      BY <3>3
    <3> QED BY <3>1, <3>2, <3>4, <1>1, <1>4
  <2> QED BY <2>1, <2>2, <2>3
<1>9. \A z, y \in Used(g) : g.value[z].key = g.value[y].key => z = y
  BY <1>1, <1>5
<1>10. Elements(g) = Elements(h) \cup {e}
  BY <1>1, <1>3 DEF Elements
<1> QED BY <1>1, <1>6, <1>7, <1>8, <1>9, <1>10 DEF Good, Chains

(* Taking out an element, but a home with others of its bucket, leaves it in order. *)
LEMMA TakenOutGood ==
  ASSUME NEW h, Good(h), NEW y \in Used(h),
         h.state[y] = "home" => h.next[y] = UsedTail \/ h.state[h.next[y]] # "misplaced",
         NEW g, g = TakenOut(h, y)
  PROVE  Good(g) /\ Elements(g) = Elements(h) \ {h.value[y]}
<1>1. /\ Sound(g)
      /\ Used(g) = Used(h) \ {y} /\ Free(g) = Free(h) \cup {y}
      /\ g.capacity = h.capacity /\ g.size = h.size - 1
      /\ \A z \in Used(h) \ {y} : g.state[z] = h.state[z] /\ g.value[z] = h.value[z]
      /\ \A z \in Used(h) \ {y} : g.prior[z] = (IF z = h.next[y] THEN h.prior[y] ELSE h.prior[z])
  BY TakenOutEffect DEF Good
<1>2. \A key : Bucket(g, key) = Bucket(h, key)
  BY <1>1 DEF Bucket
<1>3. \A z \in Used(g) : HomeOf(g, z) = HomeOf(h, z)
  BY <1>1, <1>2 DEF HomeOf
<1>4. /\ \A z \in Used(h) : h.value[z] \in Element
      /\ \A z \in Used(h) : h.state[z] = "home" => HomeOf(h, z) = z
      /\ \A z \in Used(h) : h.state[z] = "misplaced" =>
           h.prior[z] \in Used(h) /\ HomeOf(h, h.prior[z]) = HomeOf(h, z)
      /\ \A z, w \in Used(h) : h.value[z].key = h.value[w].key => z = w
  BY DEF Good, Chains
<1>5. \A z \in Used(g) : g.value[z] \in Element
  BY <1>1, <1>4
<1>6. \A z \in Used(g) : g.state[z] = "home" => HomeOf(g, z) = z
  BY <1>1, <1>3, <1>4
<1>7. ASSUME NEW z \in Used(g), g.state[z] = "misplaced"
      PROVE  g.prior[z] \in Used(g) /\ HomeOf(g, g.prior[z]) = HomeOf(g, z)
  <2>1. /\ z \in Used(h) /\ z # y /\ h.state[z] = "misplaced"
        /\ h.prior[z] \in Used(h) /\ HomeOf(h, h.prior[z]) = HomeOf(h, z)
    BY <1>1, <1>4, <1>7
  <2>2. CASE z = h.next[y]
    <3>1. h.prior[z] = y /\ h.next[y] # UsedTail /\ h.prior[y] # y
      BY <2>1, <2>2, Near DEF Good
    <3>2. h.state[y] = "misplaced"
      <4>1. h.state[y] \in {"home", "misplaced"}
        BY Counts DEF Good, Sound, Lists
      <4> QED BY <4>1, <3>1, <2>1, <2>2
    <3>3. h.prior[y] \in Used(h) /\ HomeOf(h, h.prior[y]) = HomeOf(h, y)
      BY <3>2, <1>4
    <3>4. g.prior[z] = h.prior[y]
      BY <1>1, <2>1, <2>2
    <3> QED BY <3>1, <3>3, <3>4, <2>1, <1>1, <1>3
  <2>3. CASE z # h.next[y]
    <3>1. g.prior[z] = h.prior[z]
      BY <1>1, <2>1, <2>3
    <3>2. h.prior[z] # y
      BY <2>1, <2>3, Near DEF Good
    <3> QED BY <3>1, <3>2, <2>1, <1>1, <1>3
  <2> QED BY <2>2, <2>3
<1>8. \A z, w \in Used(g) : g.value[z].key = g.value[w].key => z = w
  BY <1>1, <1>4
<1>9. Elements(g) = Elements(h) \ {h.value[y]}
  BY <1>1, <1>4 DEF Elements
<1> QED BY <1>1, <1>5, <1>6, <1>7, <1>8, <1>9 DEF Good, Chains

(* Moving a misplaced element away frees its node and leaves the table in order. *)
LEMMA MovedAwayGood ==
  ASSUME NEW h, Good(h), NEW x \in Used(h), h.state[x] = "misplaced",
         NEW f \in Free(h), f = BeginFree(h), NEW g, g = MovedAway(h, x)
  PROVE  /\ Good(g) /\ Elements(g) = Elements(h)
         /\ x \in Free(g) /\ g.capacity = h.capacity /\ g.size = h.size
<1>1. h.value[x] \in Element
  BY DEF Good, Chains
<1>2. /\ Sound(g)
      /\ Used(g) = (Used(h) \ {x}) \cup {f} /\ Free(g) = (Free(h) \ {f}) \cup {x}
      /\ g.capacity = h.capacity /\ g.size = h.size
      /\ g.state[f] = "misplaced" /\ g.value[f] = h.value[x]
      /\ \A z \in Used(h) \ {x} : g.state[z] = h.state[z] /\ g.value[z] = h.value[z]
      /\ g.prior[f] = h.prior[x]
      /\ \A z \in Used(h) \ {x} : g.prior[z] = (IF z = h.next[x] THEN f ELSE h.prior[z])
  BY <1>1, MovedAwayEffect DEF Good
<1>3. \A key : Bucket(g, key) = Bucket(h, key)
  BY <1>2 DEF Bucket
<1>4. HomeOf(g, f) = HomeOf(h, x) /\ \A z \in Used(h) \ {x} : HomeOf(g, z) = HomeOf(h, z)
  BY <1>2, <1>3 DEF HomeOf
<1>5. /\ \A z \in Used(h) : h.value[z] \in Element
      /\ \A z \in Used(h) : h.state[z] = "home" => HomeOf(h, z) = z
      /\ \A z \in Used(h) : h.state[z] = "misplaced" =>
           h.prior[z] \in Used(h) /\ HomeOf(h, h.prior[z]) = HomeOf(h, z)
      /\ \A z, w \in Used(h) : h.value[z].key = h.value[w].key => z = w
  BY DEF Good, Chains
<1>6. f \notin Used(h) /\ x \notin Free(h)
  BY DEF Used, Free
<1>7. \A z \in Used(g) : g.value[z] \in Element
  BY <1>2, <1>5
<1>8. \A z \in Used(g) : g.state[z] = "home" => HomeOf(g, z) = z
  BY <1>2, <1>4, <1>5
<1>9. ASSUME NEW z \in Used(g), g.state[z] = "misplaced"
      PROVE  g.prior[z] \in Used(g) /\ HomeOf(g, g.prior[z]) = HomeOf(g, z)
  <2>1. CASE z = f
    <3>1. h.prior[x] \in Used(h) /\ HomeOf(h, h.prior[x]) = HomeOf(h, x) /\ h.prior[x] # x
      BY <1>5, Near DEF Good
    <3> QED BY <2>1, <3>1, <1>2, <1>4
  <2>2. CASE z # f /\ z = h.next[x]
    <3>1. z \in Used(h) \ {x} /\ h.state[z] = "misplaced" /\ g.prior[z] = f /\ h.prior[z] = x
      BY <2>2, <1>2, <1>9, Near DEF Good
    <3>2. HomeOf(h, x) = HomeOf(h, z)
      BY <3>1, <1>5
    <3> QED BY <3>1, <3>2, <1>2, <1>4
  <2>3. CASE z # f /\ z # h.next[x]
    <3>1. z \in Used(h) \ {x} /\ h.state[z] = "misplaced" /\ g.prior[z] = h.prior[z]
      BY <2>3, <1>2, <1>9
    <3>2. h.prior[z] \in Used(h) /\ HomeOf(h, h.prior[z]) = HomeOf(h, z)
      BY <3>1, <1>5
    <3>3. h.prior[z] # x
      BY <2>3, <3>1, Near DEF Good
    <3> QED BY <3>1, <3>2, <3>3, <1>2, <1>4
  <2> QED BY <2>1, <2>2, <2>3
<1>10. \A z, w \in Used(g) : g.value[z].key = g.value[w].key => z = w
  <2>1. ASSUME NEW z \in Used(g), NEW w \in Used(g), g.value[z].key = g.value[w].key
        PROVE  z = w
    <3>1. CASE z = f /\ w = f
      BY <3>1
    <3>2. CASE z = f /\ w # f
      BY <3>2, <2>1, <1>2, <1>5
    <3>3. CASE z # f /\ w = f
      BY <3>3, <2>1, <1>2, <1>5
    <3>4. CASE z # f /\ w # f
      BY <3>4, <2>1, <1>2, <1>5
    <3> QED BY <3>1, <3>2, <3>3, <3>4
  <2> QED BY <2>1
<1>11. Elements(g) = Elements(h)
  <2>1. \A z \in Used(g) : g.value[z] = h.value[IF z = f THEN x ELSE z] /\ (IF z = f THEN x ELSE z) \in Used(h)
    BY <1>2
  <2>2. \A z \in Used(h) : h.value[z] = g.value[IF z = x THEN f ELSE z] /\ (IF z = x THEN f ELSE z) \in Used(g)
    BY <1>2
  <2>3. \A v \in Elements(g) : v \in Elements(h)
    BY <2>1 DEF Elements
  <2>4. \A v \in Elements(h) : v \in Elements(g)
    BY <2>2 DEF Elements
  <2> QED BY <2>3, <2>4
<1> QED BY <1>2, <1>7, <1>8, <1>9, <1>10, <1>11 DEF Good, Chains

(* An element assigned over one with the same key. *)
LEMMA OverwrittenGood ==
  ASSUME NEW h, Good(h), NEW x \in Used(h), NEW e \in Element, h.value[x].key = e.key,
         NEW g, g = [h EXCEPT !.value[x] = e]
  PROVE  /\ Good(g) /\ g.capacity = h.capacity /\ g.size = h.size
         /\ Elements(g) = {c \in Elements(h) : c.key # e.key} \cup {e}
<1>1. Typed(h) /\ Lists(h, Used(h), Free(h)) /\ x \in Node(h)
  BY DEF Good, Sound, Lists, Used
<1>2. /\ Typed(g) /\ g.capacity = h.capacity /\ g.size = h.size
      /\ g.next = h.next /\ g.prior = h.prior /\ g.state = h.state
      /\ g.value = [h.value EXCEPT ![x] = e]
  BY <1>1 DEF Typed, Index, Node
<1>3. Used(g) = Used(h) /\ Free(g) = Free(h)
  BY <1>2 DEF Used, Free, Node
<1>4. \A z \in Used(h) : g.value[z] = (IF z = x THEN e ELSE h.value[z])
  <2>1. h.value \in [Node(h) -> Element \cup {None}]
    BY <1>1 DEF Typed
  <2> QED BY <2>1, <1>2 DEF Used
<1>5. Sound(g)
  <2>1. Lists(g, Used(h), Free(h))
    BY <1>1, <1>2, ListsSame
  <2> QED BY <2>1, <1>2, <1>3 DEF Good, Sound
<1>6. \A z \in Used(h) : g.value[z].key = h.value[z].key
  BY <1>4
<1>7. \A z \in Used(h) : HomeOf(g, z) = HomeOf(h, z)
  BY <1>2, <1>6 DEF HomeOf, Bucket
<1>8. Chains(g)
  BY <1>2, <1>3, <1>4, <1>6, <1>7 DEF Good, Chains
<1>9. Elements(g) = {c \in Elements(h) : c.key # e.key} \cup {e}
  <2>1. \A z \in Used(h) : z # x => h.value[z].key # e.key
    BY DEF Good, Chains
  <2>2. ASSUME NEW c \in Elements(g) PROVE c \in {d \in Elements(h) : d.key # e.key} \cup {e}
    BY <2>1, <1>3, <1>4 DEF Elements
  <2>3. ASSUME NEW c \in Elements(h), c.key # e.key PROVE c \in Elements(g)
    BY <2>3, <1>3, <1>4 DEF Elements
  <2>4. e \in Elements(g)
    BY <1>3, <1>4 DEF Elements
  <2> QED BY <2>2, <2>3, <2>4
<1> QED BY <1>2, <1>5, <1>8, <1>9 DEF Good

(* Two elements of a bucket that trade their nodes. *)
Swapped(h, x, y) == [h EXCEPT !.value[x] = h.value[y], !.value[y] = h.value[x]]

(* Two elements of one bucket may change places. *)
LEMMA SwappedGood ==
  ASSUME NEW h, Good(h), NEW x \in Used(h), NEW y \in Used(h), x # y, HomeOf(h, x) = HomeOf(h, y),
         NEW g, g = Swapped(h, x, y)
  PROVE  /\ Good(g) /\ g.capacity = h.capacity /\ g.size = h.size
         /\ g.next = h.next /\ g.prior = h.prior /\ g.state = h.state
         /\ Elements(g) = Elements(h) /\ Used(g) = Used(h)
         /\ g.value[y] = h.value[x]
<1>1. Typed(h) /\ Lists(h, Used(h), Free(h)) /\ x \in Node(h) /\ y \in Node(h)
  BY DEF Good, Sound, Lists, Used
<1>2. h.value[x] \in Element /\ h.value[y] \in Element
  BY DEF Good, Chains
<1>3. /\ Typed(g) /\ g.capacity = h.capacity /\ g.size = h.size
      /\ g.next = h.next /\ g.prior = h.prior /\ g.state = h.state
      /\ g.value = [h.value EXCEPT ![x] = h.value[y], ![y] = h.value[x]]
  BY <1>1, <1>2 DEF Typed, Index, Node, Swapped
<1>4. Used(g) = Used(h) /\ Free(g) = Free(h)
  BY <1>3 DEF Used, Free, Node
<1>5. \A z \in Used(h) : g.value[z] = (IF z = x THEN h.value[y] ELSE IF z = y THEN h.value[x] ELSE h.value[z])
  <2>1. h.value \in [Node(h) -> Element \cup {None}]
    BY <1>1 DEF Typed
  <2> QED BY <2>1, <1>1, <1>3 DEF Used
<1>6. Sound(g)
  <2>1. Lists(g, Used(h), Free(h))
    BY <1>1, <1>3, ListsSame
  <2> QED BY <2>1, <1>3, <1>4 DEF Good, Sound
<1>7. \A z \in Used(h) : HomeOf(g, z) = HomeOf(h, z)
  BY <1>3, <1>5 DEF HomeOf, Bucket
<1>8. \A z, w \in Used(h) : h.value[z].key = h.value[w].key => z = w
  BY DEF Good, Chains
<1>9. ASSUME NEW z \in Used(h), NEW w \in Used(h), g.value[z].key = g.value[w].key
      PROVE  z = w
  <2> DEFINE t(v) == IF v = x THEN y ELSE IF v = y THEN x ELSE v
  <2>1. t(z) \in Used(h) /\ t(w) \in Used(h) /\ g.value[z] = h.value[t(z)] /\ g.value[w] = h.value[t(w)]
    BY <1>5
  <2>2. t(z) = t(w)
    BY <2>1, <1>8, <1>9
  <2> QED BY <2>2
<1>10. Chains(g)
  <2>1. \A z \in Used(g) : g.value[z] \in Element
    BY <1>2, <1>4, <1>5 DEF Good, Chains
  <2>2. /\ \A z \in Used(h) : h.state[z] = "home" => HomeOf(h, z) = z
        /\ \A z \in Used(h) : h.state[z] = "misplaced" =>
             h.prior[z] \in Used(h) /\ HomeOf(h, h.prior[z]) = HomeOf(h, z)
    BY DEF Good, Chains
  <2>3. /\ \A z \in Used(g) : g.state[z] = "home" => HomeOf(g, z) = z
        /\ \A z \in Used(g) : g.state[z] = "misplaced" =>
             g.prior[z] \in Used(g) /\ HomeOf(g, g.prior[z]) = HomeOf(g, z)
    BY <2>2, <1>3, <1>4, <1>7
  <2> QED BY <2>1, <2>3, <1>4, <1>9 DEF Chains
<1>11. Elements(g) = Elements(h)
  <2> DEFINE t(v) == IF v = x THEN y ELSE IF v = y THEN x ELSE v
  <2>1. \A z \in Used(h) : t(z) \in Used(h) /\ g.value[z] = h.value[t(z)] /\ h.value[z] = g.value[t(z)]
    BY <1>5
  <2> QED BY <2>1, <1>4 DEF Elements
<1> QED BY <1>3, <1>4, <1>5, <1>6, <1>10, <1>11 DEF Good

-----------------------------------------------------------------------------
(* find. *)

(* The home of a used node is used, and find comes to the node from there. *)
LEMMA Reached ==
  ASSUME NEW h, Good(h), NEW x \in Used(h), NEW b, b = HomeOf(h, x)
  PROVE  b \in Used(h) /\ h.state[b] = "home" /\ x \in Passed(h, b)
<1> DEFINE B == {y \in Used(h) : HomeOf(h, y) = b}
<1>1. \A S \in SUBSET Used(h) : S # {} => \E y \in S : h.prior[y] \notin S
  BY DEF Good, Sound, Lists, Ring
<1>2. \A y \in Used(h) : h.state[y] \in {"home", "misplaced"}
  BY Counts DEF Good, Sound, Lists
<1>3. /\ \A z \in Used(h) : h.state[z] = "home" => HomeOf(h, z) = z
      /\ \A z \in Used(h) : h.state[z] = "misplaced" =>
           h.prior[z] \in Used(h) /\ HomeOf(h, h.prior[z]) = HomeOf(h, z)
  BY DEF Good, Chains
<1>4. b \in Used(h) /\ h.state[b] = "home"
  <2>1. B \in SUBSET Used(h) /\ B # {}
    OBVIOUS
  <2>2. \E y \in B : h.prior[y] \notin B
    BY <2>1, <1>1
  <2>3. PICK y \in B : h.prior[y] \notin B
    BY <2>2
  <2>4. h.state[y] # "misplaced"
    BY <2>3, <1>3
  <2> QED BY <2>3, <2>4, <1>2, <1>3
<1>5. ASSUME NEW S \in SUBSET Used(h), b \in S, \A y \in S : GoesOn(h, y) => h.next[y] \in S
      PROVE  x \in S
  <2>1. SUFFICES ASSUME B \ S # {} PROVE FALSE
    OBVIOUS
  <2>2. B \ S \in SUBSET Used(h)
    OBVIOUS
  <2>3. \E y \in B \ S : h.prior[y] \notin B \ S
    BY <2>1, <2>2, <1>1
  <2>4. PICK y \in B \ S : h.prior[y] \notin B \ S
    BY <2>3
  <2>5. y \in Used(h) /\ y # b /\ HomeOf(h, y) = b
    BY <2>4, <1>5
  <2>6. h.state[y] = "misplaced"
    BY <2>5, <1>2, <1>3
  <2>7. h.prior[y] \in S
    BY <2>4, <2>5, <2>6, <1>3
  <2>8. h.next[h.prior[y]] = y /\ y # UsedTail
    BY <2>5, Near DEF Good
  <2>9. GoesOn(h, h.prior[y])
    BY <2>6, <2>8 DEF GoesOn
  <2> QED BY <2>4, <2>7, <2>8, <2>9, <1>5
<1>6. x \in Passed(h, b)
  BY <1>5 DEF Passed
<1> QED BY <1>4, <1>6

(* find returns the node that has the key, and end() if there is none. *)
LEMMA Found ==
  ASSUME NEW h, Good(h), NEW key
  PROVE  /\ (\A x \in Used(h) : h.value[x].key # key) => Find(h, key) = UsedTail
         /\ \A x \in Used(h) : h.value[x].key = key => Find(h, key) = x
<1>1. Matches(h, Bucket(h, key), key) \subseteq {x \in Used(h) : h.value[x].key = key}
  BY DEF Matches, Passed
<1>2. ASSUME \A x \in Used(h) : h.value[x].key # key
      PROVE  Find(h, key) = UsedTail
  <2>1. Matches(h, Bucket(h, key), key) = {}
    BY <1>1, <1>2
  <2> QED BY <2>1 DEF Find
<1>3. ASSUME NEW x \in Used(h), h.value[x].key = key
      PROVE  Find(h, key) = x
  <2>1. HomeOf(h, x) = Bucket(h, key)
    BY <1>3 DEF HomeOf
  <2>2. h.state[Bucket(h, key)] = "home" /\ x \in Passed(h, Bucket(h, key))
    BY <2>1, Reached
  <2>3. x \in Matches(h, Bucket(h, key), key)
    BY <2>2, <1>3 DEF Matches
  <2>4. \A y \in Matches(h, Bucket(h, key), key) : y = x
    BY <1>1, <1>3 DEF Good, Chains
  <2>5. (CHOOSE y \in Matches(h, Bucket(h, key), key) : TRUE) = x
    BY <2>3, <2>4
  <2>6. h.size # 0
    BY Room DEF Good
  <2> QED BY <2>2, <2>3, <2>5, <2>6 DEF Find
<1> QED BY <1>2, <1>3

-----------------------------------------------------------------------------
(* insert and erase. *)
Has(h, key) == \E x \in Used(h) : h.value[x].key = key

(* insert overwrites exactly when the table has the key. *)
LEMMA OverwritesWhatItHas ==
  ASSUME NEW h, Good(h), NEW e \in Element
  PROVE  /\ Overwrites(h, e) <=> Has(h, e.key)
         /\ Overwrites(h, e) => Find(h, e.key) \in Used(h) /\ h.value[Find(h, e.key)].key = e.key
<1>1. UsedTail \notin Used(h)
  BY Near DEF Good
<1>2. ASSUME NEW x \in Used(h), h.value[x].key = e.key
      PROVE  Overwrites(h, e) /\ Find(h, e.key) \in Used(h) /\ h.value[Find(h, e.key)].key = e.key
  <2>1. Find(h, e.key) = x
    BY <1>2, Found
  <2>2. h.state[HomeOf(h, x)] = "home"
    BY Reached
  <2> QED BY <1>1, <1>2, <2>1, <2>2 DEF Overwrites, HomeOf
<1>3. ASSUME ~ Has(h, e.key) PROVE ~ Overwrites(h, e)
  BY <1>3, Found DEF Has, Overwrites
<1> QED BY <1>2, <1>3 DEF Has

(* insert leaves a table in order that has the element in place of the one with
   its key, and counts it if it is new. *)
LEMMA InsertedGood ==
  ASSUME NEW h, Good(h), h.size # h.capacity, NEW e \in Element, NEW g, g = Inserted(h, e)
  PROVE  /\ Good(g) /\ g.capacity = h.capacity
         /\ Elements(g) = {c \in Elements(h) : c.key # e.key} \cup {e}
         /\ g.size = (IF Has(h, e.key) THEN h.size ELSE h.size + 1)
<1>1. /\ BeginFree(h) \in Free(h) /\ h.capacity # 0 /\ Typed(h) /\ Sound(h)
  BY Room DEF Good, Sound, Lists
<1> DEFINE b == Bucket(h, e.key)
<1>2. b \in Node(h) /\ h.state[b] \in {"free", "home", "misplaced"}
  BY <1>1, BucketNode DEF Typed
<1>3. CASE Overwrites(h, e)
  <2>1. g = [h EXCEPT !.value[Find(h, e.key)] = e]
    BY <1>3 DEF Inserted
  <2>2. Find(h, e.key) \in Used(h) /\ h.value[Find(h, e.key)].key = e.key /\ Has(h, e.key)
    BY <1>3, OverwritesWhatItHas
  <2> QED BY <2>1, <2>2, OverwrittenGood
<1>4. CASE ~ Overwrites(h, e)
  <2>1. ~ Has(h, e.key) /\ \A z \in Used(h) : h.value[z].key # e.key
    BY <1>4, OverwritesWhatItHas DEF Has
  <2>2. \A c \in Elements(h) : c.key # e.key
    BY <2>1 DEF Elements
  <2>3. SUFFICES /\ Good(g) /\ g.capacity = h.capacity /\ g.size = h.size + 1
                 /\ Elements(g) = Elements(h) \cup {e}
    BY <2>1, <2>2
  <2>4. CASE h.state[b] = "home"
    <3>1. g = Put(h, BeginFree(h), b, e, "misplaced")
      BY <1>4, <2>4 DEF Inserted, InsertedMisplaced, Put
    <3>2. b \in Used(h) /\ HomeOf(h, b) = b
      BY <1>2, <2>4 DEF Used, Good, Chains
    <3> HIDE DEF b
    <3> QED BY <1>1, <2>1, <3>1, <3>2, PutGood DEF b
  <2>5. CASE h.state[b] = "misplaced"
    <3> DEFINE k == MovedAway(h, b)
    <3>1. b \in Used(h)
      BY <1>2, <2>5 DEF Used
    <3>2. /\ Good(k) /\ Elements(k) = Elements(h)
          /\ b \in Free(k) /\ k.capacity = h.capacity /\ k.size = h.size
      BY <1>1, <2>5, <3>1, MovedAwayGood
    <3>3. Bucket(k, e.key) = b
      BY <3>2 DEF Bucket
    <3>4. g = InsertedHome(k, e)
      BY <1>4, <2>5 DEF Inserted
    <3> HIDE DEF k
    <3>5. g = Put(k, b, UsedTail, e, "home")
      BY <3>3, <3>4 DEF InsertedHome, Put
    <3>6. \A z \in Used(k) : k.value[z].key # e.key
      BY <2>2, <3>2 DEF Elements
    <3> HIDE DEF b
    <3>7. /\ Good(g) /\ Elements(g) = Elements(k) \cup {e}
          /\ g.capacity = k.capacity /\ g.size = k.size + 1
      BY <3>2, <3>3, <3>5, <3>6, PutGood
    <3> QED BY <3>2, <3>7
  <2>6. CASE h.state[b] = "free"
    <3>1. g = Put(h, b, UsedTail, e, "home")
      BY <1>4, <2>6 DEF Inserted, InsertedHome, Put
    <3>2. b \in Free(h)
      BY <1>2, <2>6 DEF Free
    <3> HIDE DEF b
    <3> QED BY <2>1, <3>1, <3>2, PutGood DEF b
  <2> QED BY <1>2, <2>4, <2>5, <2>6
<1> QED BY <1>3, <1>4

(* insert that throws leaves a table in order with the same elements. *)
LEMMA InterruptedGood ==
  ASSUME NEW h, Good(h), h.size # h.capacity, NEW e \in Element, NEW g, g = Interrupted(h, e)
  PROVE  Good(g) /\ Elements(g) = Elements(h) /\ g.capacity = h.capacity /\ g.size = h.size
<1>1. BeginFree(h) \in Free(h) /\ h.capacity # 0 /\ Typed(h)
  BY Room DEF Good, Sound, Lists
<1>2. Bucket(h, e.key) \in Node(h)
  BY <1>1, BucketNode
<1>3. CASE h.state[Bucket(h, e.key)] = "misplaced"
  <2>1. Bucket(h, e.key) \in Used(h) /\ g = MovedAway(h, Bucket(h, e.key))
    BY <1>2, <1>3 DEF Used, Interrupted
  <2> QED BY <1>1, <1>3, <2>1, MovedAwayGood
<1>4. CASE h.state[Bucket(h, e.key)] # "misplaced"
  BY <1>4 DEF Interrupted
<1> QED BY <1>3, <1>4

(* erase leaves a table in order without the element, and returns begin() if it
   was given begin(). *)
LEMMA ErasedGood ==
  ASSUME NEW h, Good(h), NEW x \in Used(h), NEW g, g = Erased(h, x)
  PROVE  /\ Good(g) /\ g.capacity = h.capacity
         /\ Elements(g) = Elements(h) \ {h.value[x]}
         /\ x = Begin(h) => AfterErase(h, x) = Begin(g)
<1>1. /\ h.next[x] \in Used(h) \cup {UsedTail} /\ h.prior[h.next[x]] = x
      /\ h.prior[x] \in Used(h) \cup {UsedTail} /\ h.next[h.prior[x]] = x
      /\ h.prior[x] # x /\ h.next[x] # x
      /\ UsedTail \notin Used(h)
      /\ h.prior[h.next[UsedTail]] = UsedTail
  BY Near DEF Good
<1>2. CASE TakesHome(h, x)
  <2> DEFINE y == h.next[x]
             f == Swapped(h, x, y)
  <2>1. h.state[x] = "home" /\ y \in Used(h) /\ h.state[y] = "misplaced" /\ x # y
    BY <1>1, <1>2 DEF TakesHome
  <2>2. HomeOf(h, x) = HomeOf(h, y)
    BY <1>1, <2>1 DEF Good, Chains
  <2>3. g = TakenOut(f, y)
    BY <1>2 DEF Erased, TakenOut, Swapped
  <2>4. h.prior[y] = x
    BY <1>1
  <2> HIDE DEF y
  <2>5. /\ Good(f) /\ f.capacity = h.capacity /\ f.size = h.size
        /\ f.next = h.next /\ f.prior = h.prior /\ f.state = h.state
        /\ Elements(f) = Elements(h) /\ Used(f) = Used(h)
        /\ f.value[y] = h.value[x]
    BY <2>1, <2>2, SwappedGood
  <2> HIDE DEF f
  <2>6. Good(g) /\ Elements(g) = Elements(f) \ {f.value[y]}
    BY <2>1, <2>3, <2>5, TakenOutGood
  <2>7. /\ g.capacity = f.capacity
        /\ \A z \in (Used(f) \ {y}) \cup {UsedTail} :
              g.next[z] = (IF z = f.prior[y] THEN f.next[y] ELSE f.next[z])
    BY <2>1, <2>3, <2>5, TakenOutEffect DEF Good
  <2>8. g.next[UsedTail] = h.next[UsedTail]
    BY <1>1, <2>4, <2>5, <2>7
  <2> QED BY <1>2, <2>5, <2>6, <2>7, <2>8 DEF AfterErase, Begin
<1>3. CASE ~ TakesHome(h, x)
  <2>1. g = TakenOut(h, x)
    BY <1>3 DEF Erased, TakenOut
  <2>2. h.state[x] = "home" => h.next[x] = UsedTail \/ h.state[h.next[x]] # "misplaced"
    BY <1>3 DEF TakesHome
  <2>3. Good(g) /\ Elements(g) = Elements(h) \ {h.value[x]}
    BY <2>1, <2>2, TakenOutGood
  <2>4. /\ g.capacity = h.capacity
        /\ \A z \in (Used(h) \ {x}) \cup {UsedTail} :
              g.next[z] = (IF z = h.prior[x] THEN h.next[x] ELSE h.next[z])
    BY <2>1, TakenOutEffect DEF Good
  <2>5. x = Begin(h) => g.next[UsedTail] = h.next[x]
    BY <1>1, <2>4 DEF Begin
  <2> QED BY <1>3, <2>3, <2>4, <2>5 DEF AfterErase, Begin
<1> QED BY <1>2, <1>3

(* A table that is allocated is in order and empty. *)
LEMMA AllocatedGood ==
  ASSUME NEW n \in Nat
  PROVE  /\ Good(Allocated(n)) /\ Elements(Allocated(n)) = {} /\ Used(Allocated(n)) = {}
         /\ Allocated(n).capacity = n /\ Allocated(n).size = 0
<1>1. /\ Lists(Allocated(n), {}, Node(Allocated(n)))
      /\ Used(Allocated(n)) = {} /\ Free(Allocated(n)) = Node(Allocated(n))
      /\ Allocated(n).capacity = n /\ Allocated(n).size = 0
  BY AllocatedLists
<1>2. Sound(Allocated(n))
  BY <1>1, FS_EmptySet DEF Sound
<1> QED BY <1>1, <1>2 DEF Good, Chains, Elements

-----------------------------------------------------------------------------
(* The loop that inserts the elements of table h in table k: it has come to x,
   has done the nodes D, and the old table loses its elements if m. *)
Loop(h, k, x, D, m) ==
  /\ Sound(h) /\ Good(k)
  /\ D \subseteq Used(h) /\ x \in (Used(h) \ D) \cup {UsedTail}
  /\ \A y \in D \cup {UsedTail} : h.next[y] \in D \cup {x}
  /\ \A y \in D : h.prior[y] \in D \cup {UsedTail}
  /\ x # UsedTail => h.prior[x] \in D \cup {UsedTail}
  /\ k.size = Cardinality(D)
  /\ \A y \in Used(h) \ D : h.value[y] \in Element /\ ~ Has(k, h.value[y].key)
  /\ \A y, z \in Used(h) \ D : h.value[y].key = h.value[z].key => y = z
  /\ m => \A y \in D : h.value[y] = None
  /\ ~m => Good(h) /\ Elements(k) = {h.value[y] : y \in D}

(* A table has a key if it has an element of that key. *)
LEMMA HasElement ==
  ASSUME NEW h, NEW key
  PROVE  Has(h, key) <=> \E c \in Elements(h) : c.key = key
BY DEF Has, Elements

(* A rebuild begins with nothing done. *)
LEMMA LoopStart ==
  ASSUME NEW h, Good(h), NEW c \in Nat, NEW m \in BOOLEAN
  PROVE  Loop(h, Allocated(c), Begin(h), {}, m)
<1> DEFINE k == Allocated(c)
           x == Begin(h)
<1>1. Good(k) /\ Elements(k) = {} /\ Used(k) = {} /\ k.size = 0
  BY AllocatedGood
<1> HIDE DEF k
<1>2. /\ x \in Used(h) \cup {UsedTail} /\ h.prior[x] = UsedTail /\ h.next[UsedTail] = x
  BY Near DEF Good, Begin
<1> HIDE DEF x
<1>3. k.size = Cardinality({})
  BY <1>1, FS_EmptySet
<1>4. \A key : ~ Has(k, key)
  BY <1>1 DEF Has
<1>5. /\ \A y \in Used(h) \ {} : h.value[y] \in Element /\ ~ Has(k, h.value[y].key)
      /\ \A y, z \in Used(h) \ {} : h.value[y].key = h.value[z].key => y = z
  BY <1>4 DEF Good, Chains
<1>6. Elements(k) = {h.value[y] : y \in {}}
  BY <1>1
<1> QED BY <1>1, <1>2, <1>3, <1>5, <1>6 DEF Loop, Good, k, x

(* The value of a used node is moved from. *)
Emptied(h, x) == [h EXCEPT !.value[x] = None]

(* An element that is moved out leaves the lists of its table alone. *)
LEMMA EmptiedSound ==
  ASSUME NEW h, Sound(h), NEW x \in Used(h), NEW g, g = Emptied(h, x)
  PROVE  /\ Sound(g) /\ Used(g) = Used(h) /\ g.capacity = h.capacity /\ g.size = h.size
         /\ g.next = h.next /\ g.prior = h.prior
         /\ \A y \in Used(h) : g.value[y] = (IF y = x THEN None ELSE h.value[y])
<1>1. Typed(h) /\ Lists(h, Used(h), Free(h)) /\ x \in Node(h)
  BY DEF Sound, Lists, Used
<1>2. /\ Typed(g) /\ g.capacity = h.capacity /\ g.size = h.size
      /\ g.next = h.next /\ g.prior = h.prior /\ g.state = h.state
      /\ g.value = [h.value EXCEPT ![x] = None]
  BY <1>1 DEF Typed, Index, Node, Emptied
<1>3. Used(g) = Used(h) /\ Free(g) = Free(h)
  BY <1>2 DEF Used, Free, Node
<1>4. \A y \in Used(h) : g.value[y] = (IF y = x THEN None ELSE h.value[y])
  <2>1. h.value \in [Node(h) -> Element \cup {None}]
    BY <1>1 DEF Typed
  <2> QED BY <2>1, <1>2 DEF Used
<1>5. Lists(g, Used(h), Free(h))
  BY <1>1, <1>2, ListsSame
<1> QED BY <1>2, <1>3, <1>4, <1>5 DEF Sound

(* One round of the loop, after which the tables are h2 and k2, and what it comes to. *)
Round(h, k, x, D, m, h2, k2) ==
  /\ m \in BOOLEAN /\ Loop(h, k, x, D, m)
  /\ x # UsedTail /\ k.capacity >= h.size
  /\ m => h2 = Emptied(h, x)
  /\ ~m => h2 = h
  /\ k2 = Inserted(k, h.value[x])

(* A round has done node x and lost no element of the two tables. *)
RoundDone(h, k, x, D, m, h2, k2) ==
  /\ Loop(h2, k2, h.next[x], D \cup {x}, m)
  /\ h2.size = h.size /\ k2.capacity = k.capacity
  /\ Contents(h2) \cup Contents(k2) = Contents(h) \cup Contents(k)

(* A round of a rebuild, which moves or copies one element, keeps the loop going. *)
LEMMA LoopStep ==
  ASSUME NEW h, NEW k, NEW x, NEW D, NEW m, NEW h2, NEW k2, Round(h, k, x, D, m, h2, k2)
  PROVE  RoundDone(h, k, x, D, m, h2, k2)
<1> DEFINE v == h.value[x]
<1>0. /\ m \in BOOLEAN /\ Loop(h, k, x, D, m) /\ x # UsedTail /\ k.capacity >= h.size
      /\ (m => h2 = Emptied(h, x)) /\ (~m => h2 = h) /\ k2 = Inserted(k, v)
  BY DEF Round
<1>1. /\ Sound(h) /\ Good(k) /\ D \subseteq Used(h) /\ x \in Used(h) /\ x \notin D
      /\ \A y \in D \cup {UsedTail} : h.next[y] \in D \cup {x}
      /\ \A y \in D : h.prior[y] \in D \cup {UsedTail}
      /\ h.prior[x] \in D \cup {UsedTail}
      /\ k.size = Cardinality(D)
  BY <1>0 DEF Loop
<1>2. /\ \A y \in Used(h) \ D : h.value[y] \in Element /\ ~ Has(k, h.value[y].key)
      /\ \A y, z \in Used(h) \ D : h.value[y].key = h.value[z].key => y = z
      /\ m => \A y \in D : h.value[y] = None
      /\ ~m => Good(h) /\ Elements(k) = {h.value[y] : y \in D}
  BY <1>0 DEF Loop
<1>3. v \in Element /\ ~ Has(k, v.key) /\ None \notin Element
  BY <1>1, <1>2, NoneAssumption
<1>4. /\ Sound(h2) /\ Used(h2) = Used(h) /\ h2.size = h.size
      /\ h2.next = h.next /\ h2.prior = h.prior
      /\ \A y \in Used(h) : h2.value[y] = (IF m /\ y = x THEN None ELSE h.value[y])
      /\ ~m => h2 = h
  <2>1. CASE m
    BY <2>1, <1>0, <1>1, EmptiedSound, SMTT(30)
  <2>2. CASE ~m
    BY <2>2, <1>0, <1>1
  <2> QED BY <2>1, <2>2, <1>0
<1>5. IsFiniteSet(D) /\ Cardinality(D) \in Nat /\ Cardinality(D) # k.capacity /\ Cardinality(D \cup {x}) = Cardinality(D) + 1
  <2>1. IsFiniteSet(Used(h)) /\ h.size = Cardinality(Used(h)) /\ h.size \in Nat
    BY <1>1, Counts DEF Sound, Lists
  <2>2. D \cup {x} \in SUBSET Used(h)
    BY <1>1
  <2>3. IsFiniteSet(D \cup {x}) /\ Cardinality(D \cup {x}) <= Cardinality(Used(h))
    BY <2>1, <2>2, FS_Subset
  <2>4. D \in SUBSET Used(h)
    BY <1>1
  <2>5. IsFiniteSet(D)
    BY <2>1, <2>4, FS_Subset
  <2>6. Cardinality(D) \in Nat
    BY <2>5, FS_CardinalityType
  <2>7. Cardinality(D \cup {x}) = Cardinality(D) + 1
    BY <2>5, <1>1, FS_AddElement
  <2>8. k.capacity \in Nat
    BY <1>1, Counts DEF Good, Sound, Lists
  <2>9. Cardinality(D) + 1 <= h.size
    BY <2>1, <2>3, <2>7
  <2>10. Cardinality(D) # k.capacity
    BY <1>0, <2>1, <2>6, <2>8, <2>9
  <2> QED BY <2>5, <2>6, <2>7, <2>10
<1>6. /\ Good(k2) /\ k2.capacity = k.capacity /\ k2.size = k.size + 1
      /\ Elements(k2) = Elements(k) \cup {v}
  <2> HIDE DEF v
  <2>1. k2 = Inserted(k, v)
    BY <1>0
  <2>2. /\ Good(k2) /\ k2.capacity = k.capacity
        /\ Elements(k2) = {c \in Elements(k) : c.key # v.key} \cup {v}
        /\ k2.size = (IF Has(k, v.key) THEN k.size ELSE k.size + 1)
    BY <1>1, <1>3, <1>5, <2>1, InsertedGood
  <2>3. \A c \in Elements(k) : c.key # v.key
    BY <1>3, HasElement
  <2> QED BY <1>3, <2>2, <2>3
<1>7. /\ h.next[x] \in Used(h) \cup {UsedTail} /\ h.prior[h.next[x]] = x
      /\ UsedTail \notin Used(h) /\ h.next[x] # x
  BY <1>1, Near
<1>8. h.next[x] \in (Used(h) \ (D \cup {x})) \cup {UsedTail}
  <2>1. ASSUME h.next[x] \in D PROVE FALSE
    BY <2>1, <1>1, <1>7
  <2> QED BY <2>1, <1>7
<1>9. \A y \in Used(h) \ (D \cup {x}) : h2.value[y] \in Element /\ ~ Has(k2, h2.value[y].key)
  <2>1. ASSUME NEW y \in Used(h) \ (D \cup {x}) PROVE h2.value[y] \in Element /\ ~ Has(k2, h2.value[y].key)
    <3>1. h2.value[y] = h.value[y] /\ h.value[y] \in Element /\ ~ Has(k, h.value[y].key)
      BY <1>2, <1>4
    <3>2. h.value[y].key # v.key
      BY <1>1, <1>2
    <3>3. \A c \in Elements(k2) : c.key # h.value[y].key
      BY <3>1, <3>2, <1>6, HasElement
    <3> QED BY <3>1, <3>3, HasElement
  <2> QED BY <2>1
<1>10. \A y, z \in Used(h) \ (D \cup {x}) : h2.value[y].key = h2.value[z].key => y = z
  BY <1>2, <1>4
<1>11. m => \A y \in D \cup {x} : h2.value[y] = None
  BY <1>1, <1>2, <1>4
<1>12. ~m => Good(h2) /\ Elements(k2) = {h2.value[y] : y \in D \cup {x}}
  BY <1>2, <1>4, <1>6
<1>13. Loop(h2, k2, h.next[x], D \cup {x}, m)
  <2>1. D \cup {x} \subseteq Used(h2)
    BY <1>1, <1>4
  <2>2. /\ \A y \in (D \cup {x}) \cup {UsedTail} : h2.next[y] \in (D \cup {x}) \cup {h.next[x]}
        /\ \A y \in D \cup {x} : h2.prior[y] \in (D \cup {x}) \cup {UsedTail}
        /\ h2.prior[h.next[x]] \in (D \cup {x}) \cup {UsedTail}
    BY <1>1, <1>4, <1>7
  <2>3. k2.size = Cardinality(D \cup {x})
    BY <1>1, <1>5, <1>6
  <2> QED BY <2>1, <2>2, <2>3, <1>4, <1>6, <1>8, <1>9, <1>10, <1>11, <1>12 DEF Loop
<1>14. Contents(h2) \cup Contents(k2) = Contents(h) \cup Contents(k)
  <2>1. Contents(k) = Elements(k) /\ Contents(k2) = Elements(k2)
    BY <1>1, <1>6, GoodContents DEF Good
  <2>2. Contents(h2) \cup {v} = Contents(h)
    <3>1. ASSUME NEW c \in Contents(h) PROVE c \in Contents(h2) \cup {v}
      BY <3>1, <1>4 DEF Contents
    <3>2. ASSUME NEW c \in Contents(h2) PROVE c \in Contents(h)
      BY <3>2, <1>4 DEF Contents
    <3>3. v \in Contents(h)
      BY <1>1, <1>3 DEF Contents
    <3> QED BY <3>1, <3>2, <3>3
  <2> QED BY <2>1, <2>2, <1>6
<1> QED BY <1>4, <1>6, <1>13, <1>14 DEF RoundDone

(* When the loop is at end() the new table has all the elements. *)
LEMMA LoopEnd ==
  ASSUME NEW h, NEW k, NEW D, NEW m \in BOOLEAN, Loop(h, k, UsedTail, D, m)
  PROVE  /\ Good(k) /\ k.size = h.size
         /\ Contents(h) \cup Contents(k) = Elements(k)
         /\ ~m => Contents(h) = Elements(k)
<1>1. /\ Sound(h) /\ Good(k) /\ D \subseteq Used(h)
      /\ \A y \in D \cup {UsedTail} : h.next[y] \in D \cup {UsedTail}
      /\ k.size = Cardinality(D)
      /\ m => \A y \in D : h.value[y] = None
      /\ ~m => Good(h) /\ Elements(k) = {h.value[y] : y \in D}
  BY DEF Loop
<1>2. Used(h) = D
  <2>1. SUFFICES ASSUME Used(h) \ D # {} PROVE FALSE
    BY <1>1
  <2>2. Used(h) \ D \in SUBSET Used(h)
    OBVIOUS
  <2>3. \E y \in Used(h) \ D : h.prior[y] \notin Used(h) \ D
    BY <1>1, <2>1, <2>2 DEF Sound, Lists, Ring
  <2>4. PICK y \in Used(h) \ D : h.prior[y] \notin Used(h) \ D
    BY <2>3
  <2>5. h.prior[y] \in D \cup {UsedTail} /\ h.next[h.prior[y]] = y /\ y # UsedTail
    BY <1>1, <2>4, Near
  <2> QED BY <1>1, <2>4, <2>5
<1>3. k.size = h.size
  BY <1>1, <1>2 DEF Sound
<1>4. Contents(k) = Elements(k)
  BY <1>1, GoodContents DEF Good
<1>5. CASE m
  <2>1. Contents(h) = {}
    BY <1>1, <1>2, <1>5 DEF Contents
  <2> QED BY <2>1, <1>1, <1>3, <1>4, <1>5
<1>6. CASE ~m
  <2>1. Contents(h) = Elements(h) /\ Elements(h) = Elements(k)
    BY <1>1, <1>2, <1>6, GoodContents DEF Good, Elements
  <2> QED BY <2>1, <1>1, <1>3, <1>4
<1> QED BY <1>5, <1>6

-----------------------------------------------------------------------------
(* The map that a set of elements stands for. *)
OnePerKey(E) == E \subseteq Element /\ \A c, d \in E : c.key = d.key => c = d

(* What MapOf is for elements of distinct keys. *)
LEMMA MapAt ==
  ASSUME NEW E, OnePerKey(E)
  PROVE  /\ DOMAIN MapOf(E) = Key /\ MapOf(E) = [key \in Key |-> MapOf(E)[key]]
         /\ \A e \in E : MapOf(E)[e.key] = e.payload
         /\ \A key \in Key : (\A e \in E : e.key # key) => MapOf(E)[key] = None
<1>1. DOMAIN MapOf(E) = Key /\ MapOf(E) = [key \in Key |-> MapOf(E)[key]]
  BY DEF MapOf
<1>2. ASSUME NEW e \in E PROVE MapOf(E)[e.key] = e.payload
  <2>1. (CHOOSE c \in E : c.key = e.key) = e
    BY DEF OnePerKey
  <2>2. e.key \in Key
    BY DEF OnePerKey, Element
  <2> QED BY <2>1, <2>2 DEF MapOf
<1>3. ASSUME NEW key \in Key, \A e \in E : e.key # key PROVE MapOf(E)[key] = None
  BY <1>3 DEF MapOf
<1> QED BY <1>1, <1>2, <1>3

(* The elements of a table in order have distinct keys. *)
LEMMA GoodOnePerKey ==
  ASSUME NEW h, Good(h)
  PROVE  OnePerKey(Elements(h))
BY DEF OnePerKey, Elements, Good, Chains

(* Replacing the element of a key is what insert does to a map. *)
LEMMA MapInserted ==
  ASSUME NEW h, Good(h), NEW e \in Element,
         NEW E, E = {c \in Elements(h) : c.key # e.key} \cup {e}
  PROVE  /\ MapOf(E) = [MapOf(Elements(h)) EXCEPT ![e.key] = e.payload]
         /\ MapOf(Elements(h))[e.key] = None <=> ~ Has(h, e.key)
<1> DEFINE H == Elements(h)
<1>1. OnePerKey(H)
  BY GoodOnePerKey
<1>2. Has(h, e.key) <=> \E c \in H : c.key = e.key
  BY HasElement
<1> HIDE DEF H
<1>3. OnePerKey(E)
  BY <1>1 DEF OnePerKey, H
<1>4. e.key \in Key /\ e.payload \in Payload
  BY DEF Element
<1>5. ASSUME NEW key \in Key
      PROVE  MapOf(E)[key] = [MapOf(H) EXCEPT ![e.key] = e.payload][key]
  <2>1. [MapOf(H) EXCEPT ![e.key] = e.payload][key] = (IF key = e.key THEN e.payload ELSE MapOf(H)[key])
    BY <1>1, MapAt
  <2>2. CASE key = e.key
    <3>1. e \in E
      OBVIOUS
    <3>2. MapOf(E)[e.key] = e.payload
      BY <1>3, <3>1, MapAt
    <3> QED BY <2>1, <2>2, <3>2
  <2>3. CASE key # e.key /\ \A c \in H : c.key # key
    <3>1. \A c \in E : c.key # key
      BY <2>3 DEF H
    <3>2. MapOf(E)[key] = None
      BY <1>3, <3>1, MapAt
    <3>3. MapOf(H)[key] = None
      BY <1>1, <2>3, MapAt
    <3> QED BY <2>1, <2>3, <3>2, <3>3
  <2>4. ASSUME key # e.key, NEW c \in H, c.key = key
        PROVE  MapOf(E)[key] = [MapOf(H) EXCEPT ![e.key] = e.payload][key]
    <3>1. c \in E
      BY <2>4 DEF H
    <3>2. MapOf(E)[c.key] = c.payload
      BY <1>3, <3>1, MapAt
    <3>3. MapOf(H)[c.key] = c.payload
      BY <1>1, MapAt
    <3> QED BY <2>1, <2>4, <3>2, <3>3
  <2> QED BY <2>2, <2>3, <2>4
<1>6. /\ MapOf(E) = [key \in Key |-> MapOf(E)[key]]
      /\ MapOf(H) = [key \in Key |-> MapOf(H)[key]]
  BY <1>1, <1>3, MapAt
<1>7. MapOf(E) = [MapOf(H) EXCEPT ![e.key] = e.payload]
  BY <1>5, <1>6
<1>8. MapOf(H)[e.key] = None <=> ~ Has(h, e.key)
  <2>1. CASE \A c \in H : c.key # e.key
    BY <2>1, <1>1, <1>2, <1>4, MapAt
  <2>2. ASSUME NEW c \in H, c.key = e.key
        PROVE  MapOf(H)[e.key] # None /\ Has(h, e.key)
    <3>1. MapOf(H)[c.key] = c.payload
      BY <1>1, MapAt
    <3>2. c.payload \in Payload
      BY <1>1 DEF OnePerKey, Element
    <3> QED BY <2>2, <3>1, <3>2, <1>2, NoneAssumption
  <2> QED BY <2>1, <2>2
<1> QED BY <1>7, <1>8 DEF H

(* Taking out an element is what erase does to a map. *)
LEMMA MapErased ==
  ASSUME NEW h, Good(h), NEW x \in Used(h)
  PROVE  /\ MapOf(Elements(h) \ {h.value[x]}) = [MapOf(Elements(h)) EXCEPT ![h.value[x].key] = None]
         /\ MapOf(Elements(h))[h.value[x].key] # None
         /\ h.value[x].key \in Key
<1> DEFINE H == Elements(h)
           v == h.value[x]
           E == H \ {v}
<1>1. OnePerKey(H) /\ v \in H
  BY GoodOnePerKey DEF Elements
<1> HIDE DEF H, v
<1>2. OnePerKey(E)
  BY <1>1 DEF OnePerKey
<1>3. v.key \in Key /\ v.payload \in Payload
  BY <1>1 DEF OnePerKey, Element
<1>4. MapOf(H)[v.key] # None
  BY <1>1, <1>3, MapAt, NoneAssumption
<1> HIDE DEF E
<1>5. ASSUME NEW key \in Key
      PROVE  MapOf(E)[key] = [MapOf(H) EXCEPT ![v.key] = None][key]
  <2>1. [MapOf(H) EXCEPT ![v.key] = None][key] = (IF key = v.key THEN None ELSE MapOf(H)[key])
    BY <1>1, MapAt
  <2>2. CASE key = v.key
    <3>1. \A c \in E : c.key # key
      BY <2>2, <1>1 DEF OnePerKey, E
    <3>2. MapOf(E)[key] = None
      BY <1>2, <3>1, MapAt
    <3> QED BY <2>1, <2>2, <3>2
  <2>3. CASE key # v.key /\ \A c \in H : c.key # key
    <3>1. \A c \in E : c.key # key
      BY <2>3 DEF E
    <3>2. MapOf(E)[key] = None
      BY <1>2, <3>1, MapAt
    <3>3. MapOf(H)[key] = None
      BY <1>1, <2>3, MapAt
    <3> QED BY <2>1, <2>3, <3>2, <3>3
  <2>4. ASSUME key # v.key, NEW c \in H, c.key = key
        PROVE  MapOf(E)[key] = [MapOf(H) EXCEPT ![v.key] = None][key]
    <3>1. c \in E
      BY <2>4 DEF E
    <3>2. MapOf(E)[c.key] = c.payload
      BY <1>2, <3>1, MapAt
    <3>3. MapOf(H)[c.key] = c.payload
      BY <1>1, MapAt
    <3> QED BY <2>1, <2>4, <3>2, <3>3
  <2> QED BY <2>2, <2>3, <2>4
<1>6. /\ MapOf(E) = [key \in Key |-> MapOf(E)[key]]
      /\ MapOf(H) = [key \in Key |-> MapOf(H)[key]]
  BY <1>1, <1>2, MapAt
<1>7. MapOf(E) = [MapOf(H) EXCEPT ![v.key] = None]
  BY <1>5, <1>6
<1> QED BY <1>3, <1>4, <1>7 DEF H, v, E

-----------------------------------------------------------------------------
(* The inductive invariant. *)
Moves == phase = "move" /\ movable

(* The table is good except while it is being rebuilt, when the loop has come to a
   prefix D of its used list; the new table is always good and has room for the
   elements to come, and for the one that insert is waiting to put in. *)
Inv ==
  /\ movable \in BOOLEAN /\ phase \in {"idle", "move", "copy", "clear"}
  /\ pending \in Element \cup {None}
  /\ Good(tmp)
  /\ phase \in {"idle", "clear"} => Good(table)
  /\ phase \in {"move", "copy"} =>
       /\ \E D : Loop(table, tmp, at, D, Moves)
       /\ tmp.capacity >= table.size
       /\ pending # None => tmp.capacity > table.size
  /\ phase = "clear" => at = Begin(table)

(* What a step does to the map of HashedMap. *)
MapStep == Abstract!Next \/ UNCHANGED <<MapOf(Held), result>>

(* Outside of a rebuild by moves the container is what its table has. *)
LEMMA HeldIs ==
  /\ phase # "move" /\ Good(table) => Held = Elements(table)
  /\ (phase # "move" /\ Good(table) => Held = Elements(table))'
BY GoodContents DEF Held, Good

(* insert in a table with room does to the map what it returns, or throws. *)
LEMMA InsertIntoMap ==
  ASSUME NEW h, Good(h), h.size # h.capacity, NEW e \in Element, InsertInto(h, e),
         MapOf(Held) = MapOf(Elements(h)), phase' # "move"
  PROVE  Good(table') /\ MapStep
<1>1. CASE /\ table' = Inserted(h, e)
           /\ result' = IF Overwrites(h, e) THEN "replaced" ELSE "new"
  <2>1. Good(table') /\ Elements(table') = {c \in Elements(h) : c.key # e.key} \cup {e}
    BY <1>1, InsertedGood
  <2>2. /\ MapOf(Elements(table')) = [MapOf(Elements(h)) EXCEPT ![e.key] = e.payload]
        /\ MapOf(Elements(h))[e.key] = None <=> ~ Has(h, e.key)
    BY <2>1, MapInserted
  <2>3. result' = IF MapOf(Elements(h))[e.key] = None THEN "new" ELSE "replaced"
    BY <1>1, <2>2, OverwritesWhatItHas
  <2>4. MapOf(Held)' = MapOf(Elements(table'))
    BY <2>1, HeldIs
  <2>5. Abstract!Insert(e.key, e.payload)
    BY <2>2, <2>3, <2>4 DEF Abstract!Insert
  <2>6. e.key \in Key /\ e.payload \in Payload
    BY DEF Element
  <2>7. Abstract!Next
    BY <2>5, <2>6, Zenon DEF Abstract!Next
  <2> QED BY <2>1, <2>7 DEF MapStep
<1>2. CASE table' = Interrupted(h, e) /\ result' = "threw"
  <2>1. Good(table') /\ Elements(table') = Elements(h)
    BY <1>2, InterruptedGood
  <2>2. MapOf(Held)' = MapOf(Held)
    BY <2>1, HeldIs
  <2>3. Abstract!Throw
    BY <1>2, <2>2 DEF Abstract!Throw
  <2> QED BY <2>1, <2>3 DEF MapStep, Abstract!Next
<1> QED BY <1>1, <1>2 DEF InsertInto

(* erase does to the map what it returns. *)
LEMMA ErasedMap ==
  ASSUME Good(table), NEW x \in Used(table), table' = Erased(table, x), result' = "erased",
         phase # "move", phase' = phase
  PROVE  Good(table') /\ MapStep
<1>1. Good(table') /\ Elements(table') = Elements(table) \ {table.value[x]}
  BY ErasedGood
<1>2. /\ MapOf(Elements(table')) = [MapOf(Elements(table)) EXCEPT ![table.value[x].key] = None]
      /\ MapOf(Elements(table))[table.value[x].key] # None
      /\ table.value[x].key \in Key
  BY <1>1, MapErased
<1>3. Held = Elements(table) /\ Held' = Elements(table')
  BY <1>1, HeldIs
<1>4. MapOf(Held)' = MapOf(Elements(table'))
  BY <1>3
<1>5. Abstract!Erase(table.value[x].key)
  BY <1>2, <1>3, <1>4 DEF Abstract!Erase
<1>6. Abstract!Next
  BY <1>2, <1>5, Zenon DEF Abstract!Next
<1> QED BY <1>1, <1>6 DEF MapStep

(* lower_bound finds a capacity that is not too small. *)
LEMMA Fitting ==
  ASSUME NEW n \in Nat, Fits(n) # {}
  PROVE  LowerBound(n) \in Nat /\ LowerBound(n) >= n
<1>1. Fits(n) \in SUBSET Nat
  BY PrimeTableAssumption DEF Fits
<1>2. PICK p \in Fits(n) : \A q \in Fits(n) : ~ (q < p)
  BY <1>1, LeastNode
<1>3. \A q \in Fits(n) : p <= q
  BY <1>1, <1>2
<1>4. LowerBound(n) \in Fits(n)
  BY <1>2, <1>3 DEF LowerBound
<1> QED BY <1>1, <1>4 DEF Fits

(* A rebuild begins, and the map is what it was. *)
LEMMA RebuildKeeps ==
  ASSUME Inv, NEW loop \in {"move", "copy"}, NEW n \in Nat, NEW e \in Element \cup {None},
         n >= table.size, e # None => n > table.size, Rebuild(loop, n, e)
  PROVE  Inv' /\ MapStep
<1>1. /\ phase = "idle" /\ phase' = loop /\ tmp' = Allocated(n) /\ at' = Begin(table)
      /\ pending' = e /\ movable' = movable /\ table' = table /\ result' = result
  BY DEF Rebuild
<1>2. Good(table) /\ movable \in BOOLEAN
  BY <1>1 DEF Inv
<1>3. /\ Good(tmp') /\ Elements(tmp') = {} /\ tmp'.capacity = n
  BY <1>1, AllocatedGood
<1>4. Moves' \in BOOLEAN
  BY <1>1, <1>2 DEF Moves
<1>5. Loop(table', tmp', at', {}, Moves')
  BY <1>1, <1>2, <1>4, LoopStart
<1>6. Inv'
  BY <1>1, <1>2, <1>3, <1>5 DEF Inv
<1>7. Held = Elements(table)
  BY <1>1, <1>2, HeldIs
<1>8. Held' = Elements(table)
  <2>1. Contents(table') = Elements(table) /\ Contents(tmp') = {}
    BY <1>1, <1>2, <1>3, GoodContents DEF Good
  <2> QED BY <2>1 DEF Held
<1> QED BY <1>1, <1>6, <1>7, <1>8 DEF MapStep

-----------------------------------------------------------------------------
(* One lemma per action. *)
LEMMA IdleKeeps ==
  ASSUME Inv, phase = "idle", Good(table'), UNCHANGED <<movable, tmp, at, pending, phase>>
  PROVE  Inv'
BY DEF Inv

(* insert in a table with room. *)
LEMMA InsertKeeps ==
  ASSUME Inv, NEW e \in Element, Insert(e)
  PROVE  Inv' /\ MapStep
<1>1. /\ phase = "idle" /\ UNCHANGED <<movable, tmp, at, pending, phase>>
      /\ table.size # table.capacity /\ InsertInto(table, e)
  BY DEF Insert, Idle
<1>2. Good(table) /\ Held = Elements(table) /\ phase' # "move"
  BY <1>1, HeldIs DEF Inv
<1>3. Good(table') /\ MapStep
  BY <1>1, <1>2, InsertIntoMap
<1> QED BY <1>1, <1>3, IdleKeeps

(* insert in a full table begins a rebuild with room for one more. *)
LEMMA InsertFullKeeps ==
  ASSUME Inv, NEW e \in Element, InsertFull(e)
  PROVE  Inv' /\ MapStep
<1> DEFINE n == IF table.size = 0 THEN 3 ELSE 2 * table.size
<1>1. phase = "idle" /\ Fits(n) # {} /\ Rebuild("move", LowerBound(n), e)
  BY DEF InsertFull, Rebuild
<1>2. table.size \in Nat
  BY <1>1, Room DEF Inv, Good
<1>3. n \in Nat /\ n > table.size
  BY <1>2
<1> HIDE DEF n
<1>4. LowerBound(n) \in Nat /\ LowerBound(n) >= n
  BY <1>1, <1>3, Fitting
<1>5. LowerBound(n) >= table.size /\ LowerBound(n) > table.size
  BY <1>2, <1>3, <1>4
<1> QED BY <1>1, <1>4, <1>5, RebuildKeeps

(* reserve begins a rebuild. *)
LEMMA ReserveKeeps ==
  ASSUME Inv, NEW n \in PrimeTable, Reserve(n)
  PROVE  Inv' /\ MapStep
<1>1. phase = "idle" /\ n > table.capacity /\ Fits(n) # {} /\ Rebuild("move", LowerBound(n), None)
  BY DEF Reserve, Rebuild
<1>2. table.size \in Nat /\ table.size <= table.capacity /\ table.capacity \in Nat /\ n \in Nat
  BY <1>1, Room, PrimeTableAssumption DEF Inv, Good, Sound, Lists, Typed
<1>3. LowerBound(n) \in Nat /\ LowerBound(n) >= n
  BY <1>1, <1>2, Fitting
<1>4. LowerBound(n) >= table.size
  BY <1>1, <1>2, <1>3
<1> QED BY <1>1, <1>3, <1>4, RebuildKeeps

(* The copy constructor begins one. *)
LEMMA CopyKeeps ==
  ASSUME Inv, Copy
  PROVE  Inv' /\ MapStep
<1> DEFINE n == IF table.size = 0 THEN 0 ELSE LowerBound(table.size)
<1>1. phase = "idle" /\ (table.size = 0 \/ Fits(table.size) # {}) /\ Rebuild("copy", n, None)
  BY DEF Copy, Rebuild
<1>2. table.size \in Nat
  BY <1>1, Room DEF Inv, Good
<1>3. n \in Nat /\ n >= table.size
  <2>1. CASE table.size = 0
    BY <2>1
  <2>2. CASE table.size # 0
    BY <2>2, <1>1, <1>2, Fitting
  <2> QED BY <2>1, <2>2
<1> HIDE DEF n
<1> QED BY <1>1, <1>3, RebuildKeeps

(* A round of a rebuild leaves the map as it was, by moves and by copies. *)
LEMMA RebuildOneKeeps ==
  ASSUME Inv, RebuildOne
  PROVE  Inv' /\ MapStep
<1>1. /\ phase \in {"move", "copy"} /\ at # UsedTail
      /\ tmp' = Inserted(tmp, table.value[at])
      /\ table' = (IF Moves THEN Emptied(table, at) ELSE table)
      /\ at' = table.next[at]
      /\ UNCHANGED <<movable, pending, phase, result>>
  BY DEF RebuildOne, Moves, Emptied
<1>2. PICK D : Loop(table, tmp, at, D, Moves)
  BY <1>1 DEF Inv
<1>3. Moves \in BOOLEAN /\ tmp.capacity >= table.size
  BY <1>1 DEF Inv, Moves
<1>4. /\ Loop(table', tmp', at', D \cup {at}, Moves)
      /\ table'.size = table.size /\ tmp'.capacity = tmp.capacity
      /\ Contents(table') \cup Contents(tmp') = Contents(table) \cup Contents(tmp)
  <2>1. Round(table, tmp, at, D, Moves, table', tmp')
    BY <1>1, <1>2, <1>3 DEF Round
  <2>2. RoundDone(table, tmp, at, D, Moves, table', tmp')
    BY <2>1, LoopStep, Zenon
  <2> QED BY <1>1, <2>2 DEF RoundDone
<1>5. Moves' = Moves
  BY <1>1 DEF Moves
<1>6. Good(tmp')
  BY <1>4 DEF Loop
<1>7. \E E : Loop(table', tmp', at', E, Moves')
  BY <1>4, <1>5
<1>8. Inv'
  BY <1>1, <1>4, <1>6, <1>7 DEF Inv
<1>9. Held' = Held
  <2>1. CASE phase = "move"
    BY <2>1, <1>1, <1>4 DEF Held
  <2>2. CASE phase # "move"
    BY <2>2, <1>1 DEF Held, Moves
  <2> QED BY <2>1, <2>2
<1> QED BY <1>1, <1>8, <1>9 DEF MapStep

(* The end of a rebuild: swap, and the insert that was waiting. *)
LEMMA RebuildEndKeeps ==
  ASSUME Inv, RebuildEnd
  PROVE  Inv' /\ MapStep
<1>1. /\ phase \in {"move", "copy"} /\ at = UsedTail
      /\ tmp' = Allocated(0) /\ pending' = None /\ phase' = "idle"
      /\ UNCHANGED <<movable, at>>
  BY DEF RebuildEnd
<1>2. PICK D : Loop(table, tmp, UsedTail, D, Moves)
  BY <1>1 DEF Inv
<1>3. Moves \in BOOLEAN
  BY DEF Inv, Moves
<1>4. /\ Good(tmp) /\ tmp.size = table.size
      /\ Contents(table) \cup Contents(tmp) = Elements(tmp)
      /\ ~Moves => Contents(table) = Elements(tmp)
  BY <1>2, <1>3, LoopEnd
<1>5. Held = Elements(tmp)
  BY <1>4 DEF Held, Moves
<1>6. Good(table') /\ MapStep
  <2>1. CASE pending = None
    <3>1. table' = tmp /\ result' = result
      BY <2>1 DEF RebuildEnd
    <3>2. Held' = Elements(tmp)
      BY <1>1, <1>4, <3>1, HeldIs
    <3> QED BY <1>4, <1>5, <3>1, <3>2 DEF MapStep
  <2>2. CASE pending # None
    <3>1. pending \in Element /\ InsertInto(tmp, pending)
      BY <2>2 DEF RebuildEnd, Inv
    <3>2. tmp.capacity > table.size /\ table.size \in Nat
      <4>1. tmp.size \in Nat /\ tmp.capacity > table.size
        BY <1>1, <1>4, <2>2, Room DEF Inv, Good
      <4> QED BY <4>1, <1>4
    <3>3. tmp.size # tmp.capacity
      BY <3>2, <1>4
    <3>4. MapOf(Held) = MapOf(Elements(tmp)) /\ phase' # "move"
      BY <1>1, <1>5
    <3> QED BY <1>4, <3>1, <3>3, <3>4, InsertIntoMap
  <2> QED BY <2>1, <2>2
<1>7. Good(tmp')
  BY <1>1, AllocatedGood
<1> QED BY <1>1, <1>6, <1>7 DEF Inv

(* A copy that throws gives the new table up; the old one is whole. *)
LEMMA RebuildThrowsKeeps ==
  ASSUME Inv, RebuildThrows
  PROVE  Inv' /\ MapStep
<1>1. /\ phase \in {"move", "copy"} /\ ~ Moves
      /\ tmp' = Allocated(0) /\ pending' = None /\ phase' = "idle" /\ at' = UsedTail
      /\ result' = "threw" /\ UNCHANGED <<movable, table>>
  BY DEF RebuildThrows, Moves
<1>2. PICK D : Loop(table, tmp, at, D, Moves)
  BY <1>1 DEF Inv
<1>3. Good(table) /\ Elements(tmp) = {table.value[y] : y \in D} /\ D \subseteq Used(table) /\ Good(tmp)
  BY <1>1, <1>2 DEF Loop
<1>4. Inv'
  BY <1>1, <1>3, AllocatedGood DEF Inv
<1>5. Held = Elements(table)
  <2>1. Contents(table) = Elements(table) /\ Contents(tmp) = Elements(tmp)
    BY <1>3, GoodContents DEF Good
  <2>2. Elements(tmp) \subseteq Elements(table)
    BY <1>3 DEF Elements
  <2> QED BY <2>1, <2>2 DEF Held
<1>6. Held' = Elements(table)
  BY <1>1, <1>3, HeldIs
<1>7. Abstract!Throw
  BY <1>1, <1>5, <1>6 DEF Abstract!Throw
<1> QED BY <1>4, <1>7 DEF MapStep, Abstract!Next

(* erase of a key that is there. *)
LEMMA EraseKeyKeeps ==
  ASSUME Inv, NEW key \in Key, EraseKey(key)
  PROVE  Inv' /\ MapStep
<1> DEFINE x == Find(table, key)
<1>1. /\ phase = "idle" /\ UNCHANGED <<movable, tmp, at, pending, phase>>
      /\ x \in Used(table) /\ table' = Erased(table, x) /\ result' = "erased"
  BY DEF EraseKey, Erase, Idle
<1>2. Good(table) /\ phase # "move" /\ phase' = phase
  BY <1>1 DEF Inv
<1> HIDE DEF x
<1>3. Good(table') /\ MapStep
  BY <1>1, <1>2, ErasedMap
<1> QED BY <1>1, <1>3, IdleKeeps

(* erase of a key that is not there. *)
LEMMA EraseNothingKeeps ==
  ASSUME Inv, NEW key \in Key, EraseNothing(key)
  PROVE  Inv' /\ MapStep
<1>1. /\ phase = "idle" /\ UNCHANGED <<movable, tmp, at, pending, phase>>
      /\ Find(table, key) = UsedTail /\ result' = "absent" /\ table' = table
  BY DEF EraseNothing, Idle
<1>2. Good(table) /\ phase' = phase
  BY <1>1 DEF Inv
<1>3. ~ Has(table, key)
  BY <1>1, <1>2, Found, Near DEF Has, Good
<1>4. Held = Elements(table) /\ Held' = Elements(table)
  BY <1>1, <1>2, HeldIs
<1>5. MapOf(Elements(table))[key] = None
  BY <1>2, <1>3, GoodOnePerKey, MapAt, HasElement
<1>6. Abstract!EraseNothing(key)
  BY <1>1, <1>4, <1>5 DEF Abstract!EraseNothing
<1>7. MapStep
  BY <1>6, Zenon DEF MapStep, Abstract!Next
<1> QED BY <1>1, <1>2, <1>7, IdleKeeps

(* clear begins and ends. *)
LEMMA ClearKeeps ==
  ASSUME Inv, Clear \/ ClearEnd
  PROVE  Inv' /\ MapStep
<1>1. /\ phase \in {"idle", "clear"} /\ phase' \in {"idle", "clear"}
      /\ phase' = "clear" => at' = Begin(table)
      /\ UNCHANGED <<movable, table, tmp, pending, result>>
  BY DEF Clear, ClearEnd
<1>2. Inv'
  BY <1>1 DEF Inv
<1>3. Held' = Held
  BY <1>1 DEF Held
<1> QED BY <1>1, <1>2, <1>3 DEF MapStep

(* clear erases the first element and is at the first again. *)
LEMMA ClearOneKeeps ==
  ASSUME Inv, ClearOne
  PROVE  Inv' /\ MapStep
<1>1. /\ phase = "clear" /\ at # UsedTail
      /\ table' = Erased(table, at) /\ result' = "erased" /\ at' = AfterErase(table, at)
      /\ UNCHANGED <<movable, tmp, pending, phase>>
  BY DEF ClearOne
<1>2. Good(table) /\ at = Begin(table)
  BY <1>1 DEF Inv
<1>3. at \in Used(table)
  BY <1>1, <1>2, Near DEF Good, Begin
<1>4. Good(table') /\ MapStep
  BY <1>1, <1>2, <1>3, ErasedMap
<1>5. at' = Begin(table')
  BY <1>1, <1>2, <1>3, ErasedGood
<1> QED BY <1>1, <1>4, <1>5 DEF Inv

(* The empty table has no node and stands for the empty map. *)
LEMMA InitInv ==
  ASSUME Init
  PROVE  Inv /\ Abstract!Init
<1>1. /\ movable \in BOOLEAN /\ phase = "idle" /\ pending = None /\ result = "none"
      /\ table = Allocated(0) /\ tmp = Allocated(0)
  BY DEF Init
<1>2. Good(table) /\ Good(tmp) /\ Elements(table) = {}
  BY <1>1, AllocatedGood
<1>3. Inv
  BY <1>1, <1>2 DEF Inv
<1>4. Held = {}
  BY <1>1, <1>2, HeldIs
<1>5. MapOf(Held) = [key \in Key |-> None]
  BY <1>4 DEF MapOf
<1> QED BY <1>1, <1>3, <1>5 DEF Abstract!Init

(* Inv is inductive, and every step is one of HashedMap or a stutter. *)
LEMMA StepKeeps ==
  ASSUME Inv, [Next]_vars
  PROVE  Inv' /\ MapStep
<1>1. CASE UNCHANGED vars
  <2>1. Inv'
    BY <1>1 DEF Inv, vars, Moves
  <2>2. MapOf(Held)' = MapOf(Held) /\ result' = result
    BY <1>1 DEF vars, Held
  <2> QED BY <2>1, <2>2 DEF MapStep
<1>2. CASE Next
  <2>1. ASSUME NEW e \in Element, Insert(e) \/ InsertFull(e) PROVE Inv' /\ MapStep
    BY <2>1, InsertKeeps, InsertFullKeeps
  <2>2. ASSUME NEW n \in PrimeTable, Reserve(n) PROVE Inv' /\ MapStep
    BY <2>2, ReserveKeeps
  <2>3. ASSUME NEW key \in Key, EraseKey(key) \/ EraseNothing(key) PROVE Inv' /\ MapStep
    BY <2>3, EraseKeyKeeps, EraseNothingKeeps
  <2>4. ASSUME Copy \/ RebuildOne \/ RebuildEnd \/ RebuildThrows PROVE Inv' /\ MapStep
    BY <2>4, CopyKeeps, RebuildOneKeeps, RebuildEndKeeps, RebuildThrowsKeeps
  <2>5. ASSUME Clear \/ ClearOne \/ ClearEnd PROVE Inv' /\ MapStep
    BY <2>5, ClearKeeps, ClearOneKeeps
  <2> QED BY <1>2, <2>1, <2>2, <2>3, <2>4, <2>5, Zenon DEF Next
<1> QED BY <1>1, <1>2

-----------------------------------------------------------------------------
(* NoNodeLost is the part of the invariant that is about the lists. *)
LEMMA SoundLinked ==
  ASSUME NEW h, Sound(h)
  PROVE  WellLinked(h)
<1>1. Circular(h, UsedTail, Used(h))
  BY DEF Sound, Lists, Ring, Circular
<1>2. Free(h) # {} => BeginFree(h) \in Free(h)
  BY Room
<1> QED BY <1>1, <1>2 DEF Sound, WellLinked

(* The invariant holds in every reachable state. *)
LEMMA InvariantHolds == Spec => []Inv
<1>1. Init => Inv
  BY InitInv
<1>2. Inv /\ [Next]_vars => Inv'
  BY StepKeeps
<1> QED BY <1>1, <1>2, PTL DEF Spec

(* Through every insert, erase, displacement, rebuild and interrupted insert, of any
   keys in tables of any capacity, no node is lost from the lists and size() is right. *)
THEOREM NodesKept == Spec => []NoNodeLost
<1>1. Inv => NoNodeLost
  <2> SUFFICES ASSUME Inv PROVE NoNodeLost
    OBVIOUS
  <2>1. Sound(tmp)
    BY DEF Inv, Good
  <2>2. Sound(table)
    BY DEF Inv, Good, Loop
  <2> QED BY <2>1, <2>2, SoundLinked DEF NoNodeLost
<1> QED BY <1>1, InvariantHolds, PTL

(* find finds an element wherever it was displaced to, for every hash function. *)
THEOREM FindIsExact == Spec => []FindsExactly
<1>1. Inv => FindsExactly
  <2> SUFFICES ASSUME Inv, NEW h \in (IF phase = "move" THEN {tmp} ELSE {table, tmp}), NEW key \in Key
               PROVE  LET having == {x \in Used(h) : h.value[x].key = key}
                      IN  IF having = {} THEN Find(h, key) = UsedTail ELSE having = {Find(h, key)}
    BY DEF FindsExactly
  <2>1. Good(h)
    <3>1. phase = "copy" => Good(table)
      BY DEF Inv, Loop, Moves
    <3> QED BY <3>1 DEF Inv
  <2>2. CASE \A x \in Used(h) : h.value[x].key # key
    BY <2>1, <2>2, Found
  <2>3. ASSUME NEW x \in Used(h), h.value[x].key = key
        PROVE  {y \in Used(h) : h.value[y].key = key} = {Find(h, key)}
    <3>1. Find(h, key) = x
      BY <2>1, <2>3, Found
    <3>2. \A y \in Used(h) : h.value[y].key = key => y = x
      BY <2>1, <2>3 DEF Good, Chains
    <3> QED BY <3>1, <3>2, <2>3
  <2> QED BY <2>2, <2>3
<1> QED BY <1>1, InvariantHolds, PTL

(* clear empties the table. *)
THEOREM ClearIsComplete == Spec => []ClearEmpties
<1>1. Inv => ClearEmpties
  <2> SUFFICES ASSUME Inv, phase = "clear", at = UsedTail PROVE Used(table) = {}
    BY DEF ClearEmpties
  <2>1. Good(table) /\ table.next[UsedTail] = UsedTail
    BY DEF Inv, Begin
  <2>2. SUFFICES ASSUME Used(table) # {} PROVE FALSE
    OBVIOUS
  <2>3. \E x \in Used(table) : table.prior[x] \notin Used(table)
    BY <2>1, <2>2 DEF Good, Sound, Lists, Ring
  <2>4. PICK x \in Used(table) : table.prior[x] \notin Used(table)
    BY <2>3
  <2> QED BY <2>1, <2>4, Near DEF Good
<1> QED BY <1>1, InvariantHolds, PTL

(* The hash table, element by element and with every throw, implements the map. *)
THEOREM MapImplemented == Spec => ImplementsMap
<1>1. Init => Abstract!Init
  BY InitInv
<1>2. Inv /\ [Next]_vars => [Abstract!Next]_<<MapOf(Held), result>>
  BY StepKeeps DEF MapStep
<1> QED BY <1>1, <1>2, InvariantHolds, PTL DEF Spec, ImplementsMap, Abstract!Spec
=============================================================================
