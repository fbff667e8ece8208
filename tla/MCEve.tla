------------------------------- MODULE MCEve -------------------------------
(***************************************************************************)
(* Small trees of views for Eve.                                           *)
(***************************************************************************)
EXTENDS EveLayout

Extent(length, outset, guides) ==
  [length |-> length, outset |-> <<outset, outset>>, frame |-> <<0, 0>>, guides |-> guides]

Align(alignment, children, margin, suppress, balance) ==
  [alignment |-> alignment, child_alignment |-> children, suppress |-> suppress,
   balance |-> balance, margin |-> <<margin, margin>>]

Plain(alignment) == Align(alignment, "forward", 0, FALSE, FALSE)

Nothing == [horizontal |-> Extent(0, 0, <<>>), vertical |-> Extent(0, 0, <<>>)]

Box(placement, create, horizontal, vertical) ==
  [placement |-> placement, container |-> TRUE, create |-> create, indent |-> 0,
   spacing |-> <<0, 1>>, rtl |-> FALSE, optional |-> FALSE, wraps |-> <<>>,
   measure |-> [short |-> Nothing, long |-> Nothing],
   horizontal |-> horizontal, vertical |-> vertical]

Leaf(short, long, height, horizontal) ==
  [placement |-> "leaf", container |-> FALSE, create |-> TRUE, indent |-> 0,
   spacing |-> <<0, 10>>, rtl |-> FALSE, optional |-> FALSE, wraps |-> <<>>,
   measure |-> [short |-> [horizontal |-> short, vertical |-> height],
                long |-> [horizontal |-> long, vertical |-> height]],
   horizontal |-> Plain(horizontal), vertical |-> Plain("default")]

MCLayout ==
  [window |-> Box("column", TRUE, Align("default", "forward_fill", 2, FALSE, FALSE),
                  Align("default", "forward", 1, TRUE, FALSE)),
   row |-> Box("row", FALSE, Plain("default"), Plain("default")),
   mid |-> [Box("row", TRUE, Align("center", "center", 1, FALSE, FALSE), Plain("default"))
              EXCEPT !.spacing = <<5, 0>>],
   right |-> [Box("row", FALSE, Align("reverse", "reverse", 0, TRUE, FALSE), Plain("default"))
                EXCEPT !.spacing = <<0, 2, 1>>],
   three |-> [Box("row", FALSE, Plain("default"), Plain("default")) EXCEPT !.spacing = <<3, 0, 2>>],
   wide |-> Box("row", FALSE, Align("reverse_fill", "proportional", 0, FALSE, FALSE), Plain("default")),
   even |-> Box("column", FALSE, Align("forward", "reverse_fill", 0, FALSE, FALSE),
                Align("default", "forward", 0, TRUE, TRUE)),
   overlay |-> Box("overlay", FALSE, Align("default", "forward_fill", 0, FALSE, FALSE),
                   Align("default", "forward_fill", 0, FALSE, FALSE)),
   field |-> Leaf(Extent(5, 1, <<2>>), Extent(7, 1, <<4>>), Extent(2, 0, <<1>>), "forward_fill"),
   label |-> Leaf(Extent(3, 0, <<1>>), Extent(4, 0, <<2>>), Extent(3, 1, <<2>>), "forward"),
   rlabel |-> Leaf(Extent(3, 0, <<1>>), Extent(4, 0, <<2>>), Extent(3, 1, <<2>>), "reverse"),
   rfield |-> [Leaf(Extent(5, 0, <<1>>), Extent(5, 0, <<1>>), Extent(3, 1, <<2>>), "reverse_fill") EXCEPT !.rtl = TRUE],
   even2 |-> Leaf(Extent(3, 0, <<1,3>>), Extent(3, 0, <<1,3>>), Extent(3, 1, <<2>>), "forward"),
   prop |-> Leaf(Extent(3, 0, <<>>), Extent(3, 0, <<>>), Extent(3, 1, <<>>), "default"),
   button |-> [Leaf(Extent(3, 1, <<>>), Extent(3, 1, <<>>), Extent(2, 1, <<1>>), "default")
                 EXCEPT !.indent = 1, !.optional = TRUE],
   text |-> [Leaf(Extent(4, 0, <<>>), Extent(4, 0, <<>>), Extent(3, 0, <<1, 2>>), "forward_fill")
               EXCEPT !.wraps = <<3, 1>>]]

Contents == {<<"field", "label", "text">>, <<"label", "rlabel", "even2">>,
             <<"rlabel", "label", "field">>, <<"rfield", "prop", "label">>,
             <<"prop", "text", "rlabel">>}

\* a container of two views and a view below it; three views in a row; a view alone
\* in a row; two rows of a label and a field; a row in an overlay in a row
MCTrees ==
  {<< <<0, "window">>, <<1, row>>, <<2, c[1]>>, <<2, c[2]>>, <<1, c[3]>> >> :
      row \in {"row", "mid", "right", "overlay", "wide", "even"}, c \in Contents}
  \cup {<< <<0, "window">>, <<1, "row">>, <<2, "even2">>, <<2, "label">>, <<1, "button">> >>,
        << <<0, "window">>, <<1, "even">>, <<2, "field">>, <<2, "button">>, <<1, "rlabel">> >>,
        << <<0, "window">>, <<1, "mid">>, <<2, "button">>, <<2, "label">>, <<1, "text">> >>}
  \cup {<< <<0, "window">>, <<1, row>>, <<2, leaf>>, <<2, "field">>, <<2, "button">>,
                           <<1, "field">> >> :
           row \in {"three", "right"}, leaf \in {"label", "even2"}}
  \cup {<< <<0, "window">>, <<1, "wide">>, <<2, leaf>> >> : leaf \in {"prop", "rfield"}}
  \cup {<< <<0, "window">>, <<1, "row">>, <<2, "label">>, <<2, "field">>,
                           <<1, lower>>, <<5, "text">>, <<5, leaf>> >> :
           lower \in {"row", "even"}, leaf \in {"field", "even2"}}
  \cup {<< <<0, "window">>, <<1, "row">>, <<2, "overlay">>, <<3, "row">>, <<4, "label">>,
            <<4, "even2">>, <<2, leaf>> >> : leaf \in {"field", "rlabel"}}

MCCalls == {[options |-> "nested", width |-> 0, height |-> 0],
            [options |-> "flat", width |-> 40, height |-> 40]}

MCNaNRounds == {0, -1000}
=============================================================================
