-------------------------------- MODULE Eve --------------------------------
(***************************************************************************)
(* The layout engine Eve (eve.cpp): a tree of views, solved slice by slice *)
(* (horizontal, then vertical) by passes over the visible views in         *)
(* preorder or postorder.  A pass is an operator from the views to the     *)
(* views; the actions are the calls of the client and the passes between   *)
(* them.                                                                   *)
(***************************************************************************)
EXTENDS Integers, Sequences, SequencesExt

CONSTANTS
  Layout,      \* the layout attributes a client may ask for, by name
  Trees,       \* bound: the trees a client builds, as the calls <<parent, name>>
  Calls,       \* the arguments of evaluate and adjust: options, width, height
  NaNRounds    \* what lround_half_up may return for a NaN (undefined in C++)

Slices == {"horizontal", "vertical"}
Forward == {"forward", "forward_fill"}
Reversed == {"reverse", "reverse_fill"}
Filled == {"forward_fill", "reverse_fill"}
Padded == Filled \cup {"center", "proportional"}

ASSUME LayoutAssumption ==
  \A k \in DOMAIN Layout : \A s \in Slices :
     /\ Layout[k][s].child_alignment \in Forward \cup Reversed \cup Padded
     /\ Layout[k].spacing # <<>>

ASSUME TreesAssumption ==
  \A t \in Trees : \A v \in DOMAIN t :
     /\ t[v][1] \in 0 .. v - 1 /\ (t[v][1] = 0) = (v = 1)
     /\ Layout[IF v = 1 THEN t[1][2] ELSE t[t[v][1]][2]].container

VARIABLES
  plan,     \* the tree this client builds
  view,     \* the view_proxy_t of each view, numbered in the order of add_placeable
  proxies,  \* proxies_m: the forest of the views (Forest)
  pc,       \* the pass that comes next, "idle" between calls
  slice,    \* the slice being solved
  call,     \* the arguments of the running call
  limiter,  \* solve's limiter
  outcome,  \* how the last call ended: "placed", "threw", "none" before it ends
  fresh     \* (history) no view was shown, hidden or added since evaluate

vars == <<plan, view, proxies, pc, slice, call, limiter, outcome, fresh>>

(***************************************************************************)
(* The tree and the orders the passes visit it in.                         *)
(***************************************************************************)
Placement(v) == IF Layout[view[v].kind].container
                THEN Layout[view[v].kind].placement ELSE "leaf"

is_with(v, s) == \/ Placement(v) = "column" /\ s = "vertical"
                 \/ Placement(v) = "row" /\ s = "horizontal"

Tree == INSTANCE Forest

Visible == {v \in DOMAIN view : view[v].visible}
Children(v) == Tree!child_range(proxies, Visible, v)
Preorder == Tree!preorder_range(proxies, Visible)
Postorder == Tree!postorder_range(proxies, Visible)

\* for_each_position: a pass over the views of an order
Each(Pass(_, _, _), V, order, s) ==
  FoldLeft(LAMBDA W, v : Pass(W, v, s), V, order)

\* Both constructors of a proxy: the attributes asked for, every length yet unset.
NewSlice(a) ==
  [alignment |-> a.alignment, suppress |-> a.suppress,
   extents |-> [length |-> 0, outset |-> <<0, 0>>, frame |-> <<0, 0>>, guides |-> <<>>],
   place |-> [length |-> 0, position |-> 0, outset |-> <<0, 0>>, guides |-> <<>>],
   container |-> 0, measured |-> 0, forward |-> <<>>, reverse |-> <<>>]

NewProxy(k) ==
  [kind |-> k, visible |-> TRUE, calculated |-> FALSE, before |-> 0,
   horizontal |-> NewSlice(Layout[k].horizontal),
   vertical |-> NewSlice(Layout[k].vertical)]

Attribute(V, v, s) == Layout[V[v].kind][s]

\* what margin and frame take at the two ends of a container
Near(V, v, s) == V[v][s].extents.frame[1] + Attribute(V, v, s).margin[1]
Far(V, v, s) == V[v][s].extents.frame[2] + Attribute(V, v, s).margin[2]

\* the child w hands its guides of this direction to its container
Hands(V, w, s, direction) ==
  /\ ~V[w][s].suppress
  /\ V[w][s].alignment \in IF direction = "forward"
                           THEN Forward \cup Filled ELSE Reversed \cup Filled

Guided(V, w, s, direction) ==
  Placement(w) = "leaf" /\ V[w][s][direction] # <<>>

(***************************************************************************)
(* calculate, calculate_vertical.                                          *)
(***************************************************************************)
\* what the widget of a view measures: its text is short or long
Measure(V, v, text) == Layout[V[v].kind].measure[text]

Reset(x, extents) ==
  [x EXCEPT !.extents = extents,
            !.place.length = extents.length, !.place.outset = extents.outset,
            !.place.guides = extents.guides, !.container = extents.length]

Calculate(V, v, text) ==
  LET m == Measure(V, v, text) IN
  [V EXCEPT ![v].calculated = TRUE,
            ![v].vertical.extents = m.vertical,
            ![v].horizontal = Reset(@, m.horizontal)]

\* A two-pass widget (wrapped text) has one height when it is given more than
\* the width it measured, and another when it is not.
MeasureVertical(V, v) ==
  LET heights == Layout[V[v].kind].wraps
      wide == V[v].horizontal.place.length > V[v].horizontal.extents.length
  IN IF heights = <<>> THEN V[v].vertical.extents
     ELSE [V[v].vertical.extents EXCEPT !.length = heights[IF wide THEN 2 ELSE 1]]

CalculateVertical(V, v, s) ==
  [V EXCEPT ![v].vertical = Reset(@, MeasureVertical(V, v))]

(***************************************************************************)
(* adjust: resolve the default alignments, hand the guides of the leaves   *)
(* to the engine and make room for them in the containers.                 *)
(***************************************************************************)
\* (\o makes TLC compute the elements of a guide set once)
Vector(guides) == guides \o <<>>

FromFarEnd(length, guides) == Reverse(Vector([k \in DOMAIN guides |-> length - guides[k]]))

AdjustChild(V, v, w, s) ==
  LET x == V[w][s]
      a == IF x.alignment = "default" THEN Attribute(V, v, s).child_alignment
           ELSE x.alignment
      leaf == Placement(w) = "leaf"
  IN [x EXCEPT !.alignment = a,
               !.suppress = @ \/ a \notin Forward \cup Reversed,
               !.forward = IF leaf /\ a \in Forward THEN x.extents.guides ELSE @,
               !.reverse = IF leaf /\ a \in Reversed
                           THEN FromFarEnd(x.extents.length, x.extents.guides) ELSE @]

Spacing(V, v, i) ==
  LET spacing == Layout[V[v].kind].spacing
  IN spacing[Min({i, Len(spacing)})]

\* adjust_with has a guide for each of a child's, adjust_cross lets children share.
GuideCount(V, cs, s, direction, with) ==
  LET counts == [i \in DOMAIN cs |-> IF Hands(V, cs[i], s, direction)
                                     THEN Len(V[cs[i]][s][direction]) ELSE 0]
  IN IF with THEN FoldLeft(+, 0, counts) ELSE Max({0} \cup ToSet(counts))

(* Mutant: the guides are resized, never cleared. *)
AdjustKeeps(V, v, s) ==
  LET cs == Children(v)
      with == is_with(v, s)
      W == FoldLeftDomain(
             LAMBDA U, i : [U EXCEPT ![cs[i]][s] = AdjustChild(V, v, cs[i], s),
                                     ![cs[i]].before = IF with THEN Spacing(V, v, i) ELSE @],
             V, cs)
      Resized(direction) ==
        LET old == V[v][s][direction] IN
        [k \in 1 .. GuideCount(W, cs, s, direction, with) |->
           IF k \in DOMAIN old THEN old[k] ELSE 0]
  IN IF Placement(v) = "leaf" THEN V
     ELSE [W EXCEPT ![v][s].forward = Resized("forward"), ![v][s].reverse = Resized("reverse")]

Adjust(V, v, s) ==
  LET cs == Children(v)
      with == is_with(v, s)
      W == FoldLeftDomain(
             LAMBDA U, i : [U EXCEPT ![cs[i]][s] = AdjustChild(V, v, cs[i], s),
                                     ![cs[i]].before = IF with THEN Spacing(V, v, i) ELSE @],
             V, cs)
      Cleared(direction) == [k \in 1 .. GuideCount(W, cs, s, direction, with) |-> 0]
  IN IF Placement(v) = "leaf" THEN V
     ELSE [W EXCEPT ![v][s].forward = Cleared("forward"),
                    ![v][s].reverse = Cleared("reverse")]

(***************************************************************************)
(* solve_up: a container collects the guides and the lengths of its        *)
(* children.                                                               *)
(***************************************************************************)
RaisedBy(acc, g) ==
  SubSeq(acc.guides, 1, acc.at)
    \o [k \in DOMAIN g |-> Max({acc.guides[acc.at + k], g[k] + acc.length})]
    \o SubSeq(acc.guides, acc.at + Len(g) + 1, Len(acc.guides))

(* Mutant: a leaf stays where it begins, its guide elsewhere. *)
GatherUnmoved(acc, V, w, s, direction) ==
  IF Hands(V, w, s, direction)
  THEN [acc EXCEPT !.guides = RaisedBy(acc, V[w][s][direction]), !.at = @ + Len(V[w][s][direction])]
  ELSE acc

\* One child of solve_up_with: acc.at guides of the container are taken, the
\* child's raise the next ones, and a leaf moves to where its first guide is.
Taken(acc, guides, length, start) ==
  [guides |-> guides, at |-> acc.at + length, length |-> start, shift |-> acc.shift + start - acc.length]

GuidedStart(acc, V, w, s, direction, own) ==
  IF Guided(V, w, s, direction) THEN own[acc.at + 1] - V[w][s][direction][1] ELSE acc.length

Gather(acc, V, w, s, direction) ==
  IF Hands(V, w, s, direction)
  THEN LET raised == RaisedBy(acc, V[w][s][direction])
       IN Taken(acc, raised, Len(V[w][s][direction]), GuidedStart(acc, V, w, s, direction, raised))
  ELSE acc

Balanced(V, v, s, guides) ==
  LET widest == Max({guides[k + 1] - guides[k] : k \in 1 .. Len(guides) - 1})
  IN IF Attribute(V, v, s).balance /\ Len(guides) > 2
     THEN [k \in DOMAIN guides |-> guides[1] + (k - 1) * widest]
     ELSE guides

\* the container has these guides, and room for its children
Solved(V, v, s, forward, reverse, length) ==
  [V EXCEPT ![v][s].forward = forward, ![v][s].reverse = reverse,
            ![v][s].measured = length, ![v][s].container = Max({length, @})]

Gathered(V, v, s, f, r) ==
  Solved(V, v, s, Balanced(V, v, s, f.guides), r.guides, f.length + r.shift)

SolveUpWith(V, v, s) ==
  Gathered(V, v, s,
    FoldLeft(LAMBDA acc, w : [Gather([acc EXCEPT !.length = @ + V[w].before], V, w, s, "forward")
                                EXCEPT !.length = @ + V[w][s].container],
             [guides |-> V[v][s].forward, at |-> 0, length |-> Near(V, v, s), shift |-> 0],
             Children(v)),
    FoldLeft(LAMBDA acc, w : [Gather(acc, V, w, s, "reverse")
                                EXCEPT !.length = @ + V[w][s].container + V[w].before],
             [guides |-> V[v][s].reverse, at |-> 0, length |-> Far(V, v, s), shift |-> Far(V, v, s)],
             Reverse(Children(v))))

(* Mutant: the margin of the container is left out. *)
LeadUnmargined(V, v, w, s) ==
  V[v][s].extents.frame[1]
    + IF V[w][s].alignment \in Forward THEN Layout[V[w].kind].indent ELSE 0

\* where solve_up_cross and solve_down_cross let a child begin and end
Lead(V, v, w, s) ==
  Near(V, v, s) + IF V[w][s].alignment \in Forward THEN Layout[V[w].kind].indent ELSE 0
Trail(V, v, w, s) ==
  Far(V, v, s) + IF V[w][s].alignment \in Reversed THEN Layout[V[w].kind].indent ELSE 0

SolveUpCross(V, v, s) ==
  LET cs == ToSet(Children(v))
      Raised(direction, Offset(_)) ==
        Vector([k \in DOMAIN V[v][s][direction] |->
                  Max({V[v][s][direction][k]}
                      \cup {V[w][s][direction][k] + Offset(w) :
                              w \in {c \in cs : Hands(V, c, s, direction)
                                                /\ k \in DOMAIN V[c][s][direction]}})])
      f == Raised("forward", LAMBDA w : Lead(V, v, w, s))
      r == Raised("reverse", LAMBDA w : Trail(V, v, w, s))
      Snapped(w, direction, guides, otherwise) ==
        IF Guided(V, w, s, direction) /\ Hands(V, w, s, direction)
        THEN guides[1] - V[w][s][direction][1] ELSE otherwise
      Extent(w) == V[w][s].container + Snapped(w, "forward", f, Lead(V, v, w, s))
                                     + Snapped(w, "reverse", r, Trail(V, v, w, s))
  IN Solved(V, v, s, f, r, Max({Near(V, v, s) + Far(V, v, s)} \cup {Extent(w) : w \in cs}))

SolveUp(V, v, s) ==
  IF Placement(v) = "leaf" THEN V
  ELSE IF is_with(v, s) THEN SolveUpWith(V, v, s) ELSE SolveUpCross(V, v, s)

(***************************************************************************)
(* solve_down: a container imposes its guides on its children.             *)
(***************************************************************************)
\* One child: its guides become those of the container seen from its start.
Impose(acc, w, s, direction, own) ==
  LET g == acc.view[w][s][direction]
      start == GuidedStart(acc, acc.view, w, s, direction, own)
      new == Vector([k \in DOMAIN g |-> own[acc.at + k] - start])
  IN IF Hands(acc.view, w, s, direction)
     THEN [view |-> [acc.view EXCEPT ![w][s][direction] = new], at |-> acc.at + Len(g),
           length |-> start, progress |-> acc.progress \/ new # g]
     ELSE acc

\* solve_down_with stops behind the first child it has changed.
SolveDownWith(V, v, s) ==
  LET FromEnd(acc, w) ==
        IF acc.progress THEN acc
        ELSE [Impose(acc, w, s, "reverse", V[v][s].reverse)
                EXCEPT !.length = @ + V[w][s].container + V[w].before]
      FromStart(acc, w) ==
        IF acc.progress THEN acc
        ELSE [Impose([acc EXCEPT !.length = @ + V[w].before], w, s, "forward", V[v][s].forward)
                EXCEPT !.length = @ + V[w][s].container]
      r == FoldLeft(FromEnd, [view |-> V, at |-> 0, length |-> Far(V, v, s),
                              progress |-> FALSE], Reverse(Children(v)))
  IN FoldLeft(FromStart, [r EXCEPT !.at = 0, !.length = Near(V, v, s)], Children(v))

SolveDownCross(V, v, s) ==
  LET Child(acc, w) ==
        Impose([Impose([acc EXCEPT !.at = 0, !.length = Lead(V, v, w, s)],
                       w, s, "forward", V[v][s].forward)
                 EXCEPT !.at = 0, !.length = Trail(V, v, w, s)],
               w, s, "reverse", V[v][s].reverse)
  IN FoldLeft(Child, [view |-> V, at |-> 0, length |-> 0, progress |-> FALSE], Children(v))

Join(acc, down) == [view |-> down.view, progress |-> acc.progress \/ down.progress]

Down(V, v, s) == IF is_with(v, s) THEN SolveDownWith(V, v, s) ELSE SolveDownCross(V, v, s)

(* Mutant: the progress of the last view only. *)
SolveDownLast(acc, v, s) ==
  IF Placement(v) = "leaf" THEN [acc EXCEPT !.progress = FALSE]
  ELSE Join([acc EXCEPT !.progress = FALSE], Down(acc.view, v, s))

SolveDown(acc, v, s) ==
  IF Placement(v) = "leaf" THEN acc ELSE Join(acc, Down(acc.view, v, s))

(***************************************************************************)
(* layout: a container, whose own length is known, places its children.    *)
(***************************************************************************)
\* division of C++, towards zero
Quotient(a, b) == IF a >= 0 THEN a \div b ELSE -((-a) \div b)

\* lround_half_up(double(a) / double(b) * c); 0 / 0 is a NaN
Proportion(a, b, c, nan) ==
  IF b # 0 THEN (IF b > 0 THEN 2 * a * c + b ELSE -(2 * a * c + b)) \div (2 * (IF b > 0 THEN b ELSE -b))
  ELSE nan

Place(V, w, s, length, position) ==
  [V EXCEPT ![w][s].place.length = length, ![w][s].place.position = position]

Share(acc, x, takers) == IF x.alignment \in takers THEN Quotient(acc.rest, acc.padded) ELSE 0
Padding(acc, x, takers) == IF x.alignment \in takers THEN acc.padded - 1 ELSE acc.padded

\* One of the reverse aligned children at the end of a row, from the far end.
PlaceFromEnd(acc, v, w, s) ==
  LET x == acc.view[w][s]
      guided == ~x.suppress /\ x.reverse # <<>>
      extra == Share(acc, x, {"reverse_fill"})
      length == x.container + extra
      end == acc.length - IF guided /\ Placement(w) = "leaf"
                          THEN acc.view[v][s].reverse[acc.at + 1] - x.reverse[1] ELSE 0
  IN [acc EXCEPT !.view = Place(@, w, s, length, end - length),
                 !.length = end - length - acc.view[w].before,
                 !.at = @ + IF guided THEN Len(x.reverse) ELSE 0,
                 !.padded = Padding(acc, x, {"reverse_fill"}), !.rest = @ - extra]

\* One of the children before them, from the near end; a reverse aligned one throws.
PlaceFromStart(acc, v, w, s, nan) ==
  LET x == acc.view[w][s]
      guided == ~x.suppress /\ x.alignment \in Forward /\ x.forward # <<>>
      takers == Padded \ {"reverse_fill"}
      extra == Share(acc, x, takers)
      start == IF guided /\ Placement(w) = "leaf"
               THEN acc.view[v][s].forward[acc.at + 1] - x.forward[1]
               ELSE acc.length + acc.view[w].before
      position == CASE x.alignment = "center" -> start + Quotient(extra, 2)
                    [] x.alignment = "proportional" ->
                         start + Proportion(start - Near(acc.view, v, s),
                                            acc.available - (x.container + extra), extra, nan)
                    [] OTHER -> start
  IN IF acc.threw THEN acc
     ELSE IF x.alignment \in Reversed
     THEN [acc EXCEPT !.threw = TRUE, !.view[w][s].place.length = x.container]
     ELSE [acc EXCEPT
             !.view = Place(@, w, s, x.container + IF x.alignment = "forward_fill" THEN extra ELSE 0,
                            position),
             !.length = start + x.container + extra,
             !.at = @ + IF guided THEN Len(x.forward) ELSE 0,
             !.padded = Padding(acc, x, takers), !.rest = @ - extra]

LayoutWith(V, v, s, nan) ==
  LET cs == Children(v)
      split == Max({0} \cup {i \in DOMAIN cs : V[cs[i]][s].alignment \notin Reversed})
      first == [view |-> V, at |-> 0, length |-> V[v][s].place.length - Far(V, v, s),
                padded |-> Cardinality({i \in DOMAIN cs : V[cs[i]][s].alignment \in Padded}),
                rest |-> V[v][s].place.length - V[v][s].measured,
                available |-> V[v][s].place.length - Near(V, v, s) - Far(V, v, s),
                threw |-> FALSE]
      r == FoldLeft(LAMBDA acc, w : PlaceFromEnd(acc, v, w, s), first,
                    Reverse(SubSeq(cs, split + 1, Len(cs))))
  IN FoldLeft(LAMBDA acc, w : PlaceFromStart(acc, v, w, s, nan),
              [r EXCEPT !.at = 0, !.length = Near(V, v, s)], SubSeq(cs, 1, split))

(* Mutant: a leaf is put where it begins, not on its guide. *)
LayoutChildCrossUnsnapped(V, v, w, s) ==
  LET x == V[w][s]
      lead == Lead(V, v, w, s)
      trail == V[v][s].place.length - Trail(V, v, w, s)
      length == IF x.alignment \in Filled THEN trail - lead ELSE x.container
  IN CASE x.alignment \in Forward -> Place(V, w, s, length, lead)
       [] x.alignment \in Reversed -> Place(V, w, s, length, trail - x.container)
       [] OTHER -> Place(V, w, s, x.container, Quotient(trail + lead - x.container, 2))

LayoutChildCross(V, v, w, s) ==
  LET x == V[w][s]
      P == V[v][s]
      lead == Lead(V, v, w, s)
      trail == P.place.length - Trail(V, v, w, s)
      snaps == ~x.suppress /\ Placement(w) = "leaf"
      start == IF snaps /\ x.forward # <<>> THEN P.forward[1] - x.forward[1] ELSE lead
      end == IF snaps /\ x.reverse # <<>>
             THEN P.place.length - (P.reverse[1] - x.reverse[1]) ELSE trail
  IN CASE x.alignment \in Forward ->
            Place(V, w, s, IF x.alignment \in Filled THEN trail - start ELSE x.container, start)
       [] x.alignment \in Reversed ->
            Place(V, w, s, IF x.alignment \in Filled THEN end - lead ELSE x.container,
                  end - x.container)
       [] OTHER -> Place(V, w, s, x.container, Quotient(trail + lead - x.container, 2))

Laid(acc) == [view |-> acc.view, threw |-> acc.threw]

\* A pass of layout ends where a container throws.
LayoutView(acc, v, s, nan) ==
  IF Placement(v) = "leaf" \/ acc.threw THEN acc
  ELSE IF is_with(v, s)
  THEN Laid(LayoutWith(acc.view, v, s, nan))
  ELSE [acc EXCEPT !.view = FoldLeft(LAMBDA V, w : LayoutChildCross(V, v, w, s), @, Children(v))]

(***************************************************************************)
(* adjust_outsets and flatten.                                             *)
(***************************************************************************)
AdjustOutsets(V, v, s) ==
  LET cs == Children(v)
      P == V[v][s]
      Before(w) == V[w][s].place.position - V[w][s].place.outset[1]
      After(w) == P.place.length - (V[w][s].place.position + V[w][s].place.length
                                    + V[w][s].place.outset[2])
      near == IF is_with(v, s) THEN Before(cs[1])
              ELSE Min({P.extents.frame[1]} \cup {Before(w) : w \in ToSet(cs)})
      far == IF is_with(v, s) THEN After(Last(cs))
             ELSE Min({P.extents.frame[2]} \cup {After(w) : w \in ToSet(cs)})
  IN [V EXCEPT ![v][s].place.outset =
        IF cs = <<>> THEN P.extents.outset
        ELSE <<Max({@[1], -near}), Max({@[2], -far})>>]

Flatten(V, v, s, options) ==
  LET x == V[v][s]
      guides == CASE x.alignment \in Forward -> x.forward
                  [] x.alignment \in Reversed -> FromFarEnd(x.place.length, x.reverse)
                  [] OTHER -> x.place.guides
      W == [V EXCEPT ![v][s].place.guides = guides]
      moved == IF options = "nested" /\ Layout[V[v].kind].create THEN <<>> ELSE Children(v)
  IN FoldLeft(LAMBDA U, w : [U EXCEPT ![w][s].place.position = @ + x.place.position], W, moved)

(***************************************************************************)
(* The passes of adjust.                                                   *)
(***************************************************************************)
Top == Tree!begin(proxies).node

Prepare(V, s) ==
  LET W == IF s = "vertical" THEN Each(CalculateVertical, V, Postorder, s) ELSE V
  IN Each(SolveUp, Each(Adjust, W, Postorder, s), Postorder, s)

Round(V, s) ==
  [FoldLeft(LAMBDA acc, v : SolveDown(acc, v, s), [view |-> V, progress |-> FALSE], Preorder)
     EXCEPT !.view = Each(SolveUp, @, Postorder, s)]

\* layout with an optional length for the topmost view
LaidOut(V, s, length, nan) ==
  FoldLeft(LAMBDA acc, v : LayoutView(acc, v, s, nan),
           [view |-> [V EXCEPT ![Top][s].place.length =
                        IF length # 0 THEN length ELSE V[Top][s].container],
            threw |-> FALSE], Preorder)

Finish(V, s, options) ==
  FoldLeft(LAMBDA W, v : Flatten(W, v, s, options), Each(AdjustOutsets, V, Postorder, s), Preorder)

Length(c, s) == IF s = "horizontal" THEN c.width ELSE c.height

(***************************************************************************)
(* The calls of the client.                                                *)
(***************************************************************************)
Init ==
  /\ plan \in Trees
  /\ view = <<>> /\ proxies = Tree!EmptyForest
  /\ pc = "idle" /\ slice = "horizontal" /\ limiter = 0
  /\ call = CHOOSE c \in Calls : TRUE
  /\ outcome = "none" /\ fresh = FALSE

\* The client builds the tree, one topmost view with views under containers,
\* before it lays it out.
AddPlaceable(parent, k) ==
  LET v == Len(view) + 1 IN
  /\ pc = "idle" /\ v \in DOMAIN plan /\ plan[v] = <<parent, k>>
  /\ view' = Append(view, NewProxy(k))
  /\ LET position == IF Layout[k].rtl THEN Tree!increment(proxies, Tree!At(parent, "leading"))
                     ELSE Tree!At(parent, "trailing")
     IN proxies' = Tree!insert(proxies, position, v)
  /\ UNCHANGED <<plan, pc, slice, call, limiter, outcome, fresh>>

set_visible(v, visible) ==
  /\ pc = "idle" /\ Layout[view[v].kind].optional /\ visible # view[v].visible
  /\ view' = [view EXCEPT ![v].visible = visible]
  /\ outcome' = "none" /\ fresh' = FALSE
  /\ UNCHANGED <<plan, proxies, pc, slice, call, limiter>>

Begin(c) ==
  /\ pc = "idle" /\ Len(view) = Len(plan)
  /\ pc' = "adjust" /\ slice' = "horizontal" /\ call' = c /\ outcome' = "none"
  /\ UNCHANGED <<plan, proxies, limiter>>

Evaluate(c, text) ==
  /\ Begin(c)
  /\ view' = Each(Calculate, view, Postorder, text)
  /\ fresh' = TRUE

\* A client calls evaluate before adjust: each view shown has been measured.
AdjustCall(c) ==
  /\ Begin(c)
  /\ \A v \in ToSet(Preorder) : view[v].calculated
  /\ UNCHANGED <<view, fresh>>

(***************************************************************************)
(* The passes between a call and its return.                               *)
(***************************************************************************)
AdjustPass ==
  /\ pc = "adjust" /\ pc' = "solve"
  /\ view' = Prepare(view, slice)
  /\ limiter' = Len(view) + 1
  /\ UNCHANGED <<plan, proxies, slice, call, outcome, fresh>>

SolveRound ==
  /\ pc = "solve"
  /\ \E r \in {Round(view, slice)} :
       /\ view' = r.view /\ limiter' = limiter - 1
       /\ pc' = IF r.progress /\ limiter' # 0 THEN "solve" ELSE "layout"
  /\ UNCHANGED <<plan, proxies, slice, call, outcome, fresh>>

LayoutPass ==
  /\ pc = "layout"
  /\ \E nan \in NaNRounds : \E laid \in {LaidOut(view, slice, Length(call, slice), nan)} :
       IF laid.threw THEN /\ view' = laid.view /\ pc' = "idle" /\ outcome' = "threw"
                          /\ UNCHANGED slice
       ELSE /\ view' = Finish(laid.view, slice, call.options)
            /\ IF slice = "horizontal"
               THEN slice' = "vertical" /\ pc' = "adjust" /\ UNCHANGED outcome
               ELSE outcome' = "placed" /\ pc' = "idle" /\ UNCHANGED slice
  /\ UNCHANGED <<plan, proxies, call, limiter, fresh>>

Next ==
  \/ \E parent \in 0 .. Len(view), k \in DOMAIN Layout : AddPlaceable(parent, k)
  \/ \E v \in DOMAIN view, visible \in BOOLEAN : set_visible(v, visible)
  \/ \E c \in Calls, text \in {"short", "long"} : Evaluate(c, text)
  \/ \E c \in Calls : AdjustCall(c)
  \/ AdjustPass
  \/ SolveRound
  \/ LayoutPass

Spec == Init /\ [][Next]_vars
=============================================================================
