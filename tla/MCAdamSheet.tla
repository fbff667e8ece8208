---------------------------- MODULE MCAdamSheet ----------------------------
(***************************************************************************)
(* AdamSheet for small sheets of interface cells "a" to "c", a plain input *)
(* "i", a constant "k", an output "o", a logic cell "l" and an invariant   *)
(* "v"; each sheet has some of them.                                       *)
(***************************************************************************)
EXTENDS AdamSheet, TLC

CONSTANTS Chosen  (* the names of the sheets of a run *)

(* Expressions over small numbers: an operation and the names it reads in turn. *)
E(op, reads) == [op |-> op, reads |-> reads]
Var(n) == E("var", <<n>>)
Const(v) == [op |-> "const", reads |-> <<>>, value |-> v]

MCStep(e, vals) ==
  LET read == [do |-> "read", name |-> e.reads[Len(vals) + 1]]
      return(v) == [do |-> "return", value |-> v]
  IN  CASE e.op = "const" -> return(e.value)
        [] e.op = "choose" ->       (* p ? x : y *)
             IF Len(vals) = 0 THEN read
             ELSE IF Len(vals) > 1 THEN return(vals[2])
             ELSE [do |-> "read", name |-> e.reads[IF vals[1] = 1 THEN 2 ELSE 3]]
        [] e.op = "twice" ->        (* x == 1 ? x : 0 *)
             IF Len(vals) = 0 \/ (Len(vals) = 1 /\ vals[1] = 1) THEN read
             ELSE return(IF Len(vals) = 1 THEN 0 ELSE vals[2])
        [] OTHER ->
             IF Len(vals) < Len(e.reads) THEN read
             ELSE CASE e.op = "var" -> return(vals[1])
                    [] e.op = "not" -> return(IF vals[1] = 0 THEN 1 ELSE 0)
                    [] e.op = "and" -> return(IF vals[1] = 0 THEN 0 ELSE vals[2])
                    [] e.op = "fails" -> IF vals[1] = 1 THEN [do |-> "throw"] ELSE return(vals[2])

-----------------------------------------------------------------------------
(* A relate clause between cells x and y, each derived as expression e of the other. *)
Relate(when, x, y, op) ==
  [ terms |-> {{x}, {y}}, when |-> when,
    derive |-> {x} :> (x :> E(op, <<y>>)) @@ {y} :> (y :> E(op, <<x>>)) ]

Fresh == [n \in Declared |-> CASE n = "k" -> Const(1) [] n \in Cell -> Const(0) [] OTHER -> NoExpr]

(* Every cell has the plain filter but for those that expr gives another. *)
Sheet(order, links, init, expr, rels) ==
  LET cells == {order[i] : i \in DOMAIN order} \cap Cell
  IN  [order |-> order, linked |-> links, init |-> init @@ Fresh,
       expr |-> expr @@ [n \in cells |-> Var(n)], relations |-> rels,
       queries |-> {}, monitored |-> {},
       touches |-> [c \in Cell |-> {}]]

Queried(s) == [s EXCEPT !.queries = {Var(n) : n \in DOMAIN s.expr \ {"b", "l"}}]
Watched(s, n) == [s EXCEPT !.monitored = {n}]

AllSheets ==
  ("related" :>       (* a and b derive one another, o reads both; a is watched *)
     [Sheet(<<"a", "b">>, {"a", "b"}, <<>>,
            "o" :> E("and", <<"b", "a">>), <<Relate(NoExpr, "a", "b", "not")>>)
        EXCEPT !.touches["a"] = {{"b"}}]) @@
  ("conditional" :>   (* a and b follow one another while i holds *)
     Watched(Sheet(<<"i", "a", "b">>, {}, <<>>, "o" :> E("and", <<"l", "b">>) @@ "l" :> Var("a"),
                   <<Relate(Var("i"), "a", "b", "var")>>), "o")) @@
  ("filtered" :>      (* b follows a through a filter that reads i as well *)
     Sheet(<<"i", "a", "b">>, {"a", "b"}, <<>>,
           "b" :> E("and", <<"b", "i">>) @@ "o" :> Var("b"), <<Relate(NoExpr, "a", "b", "var")>>)) @@
  ("initialized" :>   (* a is initialized from i, b from a and k *)
     Sheet(<<"i", "k", "a", "b">>, {"a"},
           "a" :> E("not", <<"i">>) @@ "b" :> E("and", <<"a", "k">>), <<>>, <<>>)) @@
  ("restarted" :>     (* a is initialized from i and k, and watched *)
     [Sheet(<<"i", "k", "a">>, {"a"}, "a" :> E("and", <<"i", "k">>), <<>>, <<>>)
        EXCEPT !.monitored = {"a"}, !.touches["a"] = {{}}]) @@
  ("chosen" :>        (* o chooses by i between l, made from a, and b *)
     Sheet(<<"i", "a", "b">>, {"b"}, <<>>,
           "o" :> E("choose", <<"i", "l", "b">>) @@ "l" :> E("not", <<"a">>), <<>>)) @@
  ("chained" :>       (* l and v are made from a *)
     Queried(Sheet(<<"a", "b">>, {"b"}, <<>>,
       "l" :> E("not", <<"a">>) @@ "v" :> E("and", <<"a", "l">>), <<>>))) @@
  ("failing" :>       (* l throws when a holds; b is unlinked and reads it *)
     Watched(Sheet(<<"a", "b">>, {"a"}, <<>>,
       "b" :> E("not", <<"b">>) @@ "l" :> E("fails", <<"a", "b">>) @@ "o" :> Var("l"), <<>>), "b")) @@
  ("failingcell" :>   (* the filter of a throws when b holds *)
     Queried(Sheet(<<"k", "a", "b">>, {"b"}, <<>>, "a" :> E("fails", <<"b", "k">>), <<>>))) @@
  ("forward" :>       (* an initializer reads a cell declared after it *)
     Queried(Sheet(<<"a", "b">>, {}, "a" :> Var("b"), <<>>, <<>>))) @@
  ("cyclic" :>        (* a and b read each other while i does not hold *)
     Queried(Sheet(<<"i", "a", "b">>, {}, <<>>,
       "a" :> E("choose", <<"i", "a", "b">>) @@ "b" :> E("choose", <<"i", "b", "a">>), <<>>))) @@
  ("attached" :>      (* a conditional reads a cell of the clause it governs *)
     Queried(Sheet(<<"a", "b">>, {}, <<>>, <<>>, <<Relate(Var("a"), "a", "b", "var")>>))) @@
  ("overfiltered" :>  (* the filter of b reads b twice *)
     Sheet(<<"a", "b">>, {}, <<>>, "b" :> E("twice", <<"b", "b">>), <<Relate(NoExpr, "a", "b", "var")>>)) @@
  ("entangled" :>     (* a is what o is, and o what a is *)
     Watched(Sheet(<<"a">>, {}, <<>>, "a" :> Var("o") @@ "o" :> Var("a"), <<>>), "o")) @@
  ("governed" :>      (* a and b are related while c holds *)
     Sheet(<<"a", "b", "c">>, {}, <<>>, "o" :> Var("a"), <<Relate(Var("c"), "a", "b", "not")>>)) @@
  ("touching" :>      (* a and b are related while i holds; c is watched, touching a *)
     [Sheet(<<"i", "a", "b", "c">>, {}, <<>>, "o" :> Const(1), <<Relate(Var("i"), "a", "b", "var")>>)
        EXCEPT !.touches["c"] = {{"a"}}])

MCSheets == {AllSheets[s] : s \in Chosen}
MCShapes == {{{x}, {y}} : x, y \in Cell} \ {{{x}} : x \in Cell}
=============================================================================
