----------------------------- MODULE EveLayout -----------------------------
(***************************************************************************)
(* What a layout of Eve promises: the guides settle before anything is     *)
(* placed, children stay inside their container and do not overlap, views  *)
(* that share a guide meet on it, and an adjust forgets the last one.      *)
(***************************************************************************)
EXTENDS Eve

placed == outcome = "placed"
Shown == ToSet(Preorder)

\* position and end of a view in its container, whichever coordinates were asked for
Position(w, s) ==
  LET v == plan[w][1] IN
  view[w][s].place.position
    - IF v = 0 \/ (call.options = "nested" /\ Layout[view[v].kind].create) THEN 0
      ELSE view[v][s].place.position
End(w, s) == Position(w, s) + view[w][s].place.length

Takes(w, s, direction, aligned) ==
  /\ Guided(view, w, s, direction) /\ ~view[w][s].suppress
  /\ view[w][s].alignment \in aligned

\* Three things the code does to a row (or, downwards, a column).  A guided leaf
\* aligned to the end moves by its guide's whole distance from the end of the
\* row (eve.cpp:922), not from where it would begin.
EndGuided(v, s) ==
  is_with(v, s) /\ \E w \in ToSet(Children(v)) : Takes(w, s, "reverse", Reversed)

\* A guided leaf is put back on its guide in a row longer than it was solved for,
\* the views before it having taken their share of the space (eve.cpp:996).
StretchedGuided(v, s) ==
  /\ is_with(v, s) /\ view[v][s].place.length # view[v][s].measured
  /\ \E w \in ToSet(Children(v)) : Takes(w, s, "forward", Forward)

\* A proportional view alone in its row is placed by 0 / 0 (eve.cpp:1024).
AloneProportional(v, w, s) ==
  is_with(v, s) /\ Len(Children(v)) = 1 /\ view[w][s].alignment = "proportional"

\* And one to an overlay or across a row: a reverse_fill view gets the length of
\* a filled one and the position of one that is not (eve.cpp:1118, 1121).
EndFilled(v, w, s) == ~is_with(v, s) /\ view[w][s].alignment = "reverse_fill"

(***************************************************************************)
(* solve leaves its loop because the guides are settled, never because the *)
(* limiter ran out ("Failing to make forward progress"), and one more pass *)
(* down and up would change no view.                                       *)
(***************************************************************************)
SolveSettles ==
  pc = "layout" => limiter > 0 /\ Round(view, slice).view = view

(***************************************************************************)
(* Every view lies inside the margins and the frame of its container, in   *)
(* both slices, however much larger than measured the topmost view is made *)
(* and whichever views are hidden; the exceptions are those above.         *)
(***************************************************************************)
ChildrenInside ==
  placed => \A v \in Shown, s \in Slices : \A w \in ToSet(Children(v)) :
     \/ EndGuided(v, s) \/ AloneProportional(v, w, s) \/ EndFilled(v, w, s)
     \/ /\ Position(w, s) >= Near(view, v, s)
        /\ End(w, s) <= view[v][s].place.length - Far(view, v, s)

\* spacing_m of a container: what lies before its i-th child, the last value repeated
Gap(v, i) == LET spacing == Layout[view[v].kind].spacing IN spacing[Min({i, Len(spacing)})]

(***************************************************************************)
(* Two views next to each other in a row or a column are as far apart at   *)
(* least as the container's spacing before the second one says, and the    *)
(* first is as far behind the margin, whatever guides moved them.          *)
(***************************************************************************)
SpacingKept ==
  placed => \A v \in Shown, s \in Slices :
     is_with(v, s) => \/ EndGuided(v, s) \/ StretchedGuided(v, s)
                      \/ \A i \in DOMAIN Children(v) :
                           LET w == Children(v)[i] IN
                           \/ AloneProportional(v, w, s)
                           \/ Position(w, s) >= Gap(v, i) + IF i = 1 THEN Near(view, v, s)
                                                            ELSE End(Children(v)[i - 1], s)

(***************************************************************************)
(* A guide of a view placed across a container (a field in a column, say)  *)
(* meets the guide of the container: the baselines of views side by side,  *)
(* and the label edges of rows below each other, are the same line.        *)
(***************************************************************************)
GuidesMeet ==
  placed => \A v \in Shown, s \in Slices : ~is_with(v, s) =>
     \A w \in ToSet(Children(v)) :
        LET x == view[w][s]
            P == view[v][s]
        IN ~x.suppress =>
             /\ x.alignment \in Forward => \A k \in DOMAIN x.forward :
                  Position(w, s) + x.forward[k] = P.forward[k]
             /\ x.alignment = "reverse" => \A k \in DOMAIN x.reverse :
                  P.place.length - End(w, s) + x.reverse[k] = P.reverse[k]

(***************************************************************************)
(* The layout of views added just now, by one evaluate.                    *)
(***************************************************************************)
Anew(V) ==
  FoldLeftDomain(LAMBDA U, v :
    [U EXCEPT ![v] = [NewProxy(V[v].kind) EXCEPT !.visible = V[v].visible]], V, V)

Settled(V, s) ==
  FoldLeft(LAMBDA r, k : IF r.progress THEN Round(r.view, s) ELSE r,
           [view |-> V, progress |-> TRUE], view).view

Text == IF \E v \in Shown : view[v].horizontal.extents # Measure(view, v, "short").horizontal
        THEN "long" ELSE "short"

\* What a client sees of a layout, its outsets left out: those of a container
\* only grow, since adjust does not measure again (eve.cpp:785).
SameLayout(V) ==
  \A v \in Shown, s \in Slices :
     /\ view[v][s].place.position = V[v][s].place.position
     /\ view[v][s].place.length = V[v][s].place.length
     /\ view[v][s].place.guides = V[v][s].place.guides

LaidOutAnew(V, s, nan) ==
  Finish(LaidOut(Settled(Prepare(V, s), s), s, Length(call, s), nan).view, s, call.options)

(***************************************************************************)
(* A resize forgets: after any adjusts, to larger and smaller sizes and to *)
(* the other coordinates, the views are where one evaluate of new views    *)
(* with the arguments of the last call puts them, guides included.  (While *)
(* no view was shown or hidden since evaluate, which must then come first.)*)
(***************************************************************************)
ResizeForgets ==
  placed /\ fresh =>
    \E nan \in [Slices -> NaNRounds] :
      SameLayout(FoldLeft(LAMBDA V, s : LaidOutAnew(V, s, nan[s]),
                          Each(Calculate, Anew(view), Postorder, Text), <<"horizontal", "vertical">>))
=============================================================================
