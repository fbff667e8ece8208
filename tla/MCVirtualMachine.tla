--------------------------- MODULE MCVirtualMachine ---------------------------
(***************************************************************************)
(* Texts of operators, and texts of arrays, dictionaries and calls.        *)
(***************************************************************************)
EXTENDS VirtualMachine, TLC

\* spellings of one token
Mark(s) == <<s, << <<s, "">> >> >>
Id(x) == <<x, << <<"identifier", x>> >> >>
Key(k) == <<k, << <<"keyword", k>> >> >>
Num(n) == <<ToString(n), << Number(n) >> >>

\* y is a cell defined by an expression that throws when x is a number
Cells(x) ==
  LET Defined == Definition(<<Id("x"), Mark("||"), Id("x"), Mark("=="), Num(2)>>)
  IN [n \in {"x", "y", "m", "max", "scale", "tru", "truex"} |->
        CASE n = "x" -> x [] n = "y" -> Defined [] n = "m" -> Throw [] OTHER -> Number(3)]

Client(words, marks, length, values) ==
  {[words |-> {<<w>> : w \in words \cup {Mark(s) : s \in marks}}, cells |-> Cells(x),
    length |-> length, left |-> 3] :
     x \in values}

\* a client that writes longer phrases too
With(phrases, clients) == {[c EXCEPT !.words = @ \cup phrases] : c \in clients}

\* spellings the lexer must tell from one another, or refuse
Confusing == {
  <<" \n ", <<>> >>, <<"0x1f", <<Number(31)>> >>, <<"0xg", <<Number(0), <<"identifier", "xg">> >> >>,
  <<"2.0", <<Number(2)>> >>, <<"'a'", << <<"string", "a">> >> >>,
  <<"'a \"' \n\"x\"", << <<"string", "a \"x">> >> >>,
  <<"/**a***/", << <<"lead_comment", "">> >> >>, <<"//a\n", << <<"trail_comment", "">> >> >>}
  \cup {<<spelling, <<Error>> >> : spelling \in {"/*a", "|", "#"}}
  \cup {<<spelling, <<OpenString>> >> : spelling \in {"'a", "'a' \"x'"}}

MCClients == UNION {
  {[c EXCEPT !.left = 1] : c \in
     With({<<w>> : w \in Confusing},
          Client({Id("x"), Id("tru"), Id("truex"), Key("true"), Num(0)},
                 {"<", "<=", "<==", "=", "-", "->", "!", "&&", "[", "]"}, 3, {Boolean(TRUE)}))},
  Client({Id("x"), Id("y"), Key("false")}, {"||", "&&", "!", "=="}, 6, {Boolean(TRUE), Number(2)}),
  Client({Id("x"), Num(2)}, {"+", "*", "-", "<", "=="}, 5, {Number(3)}),
  With({<<Mark("("), Num(2), Mark("-")>>, <<Id("x"), Mark(")")>>},
       Client({Num(2)}, {"*", "-"}, 8, {Number(3)})),
  Client({Id("x"), Id("y"), Num(2)}, {"?", ":", "||", "(", ")"}, 5, {Boolean(TRUE), Boolean(FALSE)}),
  Client({Id("x"), Num(0)}, {"[", "]", ",", "-", "=="}, 6, {Array(<<Number(0)>>)}),
  Client({Id("x"), Id("m"), Num(2)}, {"{", "}", ":", ",", ".", "@"}, 6,
         {Dictionary({<<"m", Number(2)>>})}),
  Client({Id("x"), Id("m"), Id("max"), Id("scale"), Num(2)}, {"(", ")", ":", ","}, 6, {Number(3)}),
  With({<<Id("x"), Mark("?")>>, <<Mark("("), Id("y"), Mark("||")>>, <<Num(2), Mark(":")>>},
       Client({Id("x")}, {")"}, 12, {Boolean(TRUE)})),
  With({<<Mark("{"), Id("m"), Mark(":")>>, <<Mark(","), Id("x"), Mark(":")>>, <<Mark("["), Num(2), Mark(",")>>,
        <<Mark("."), Id("m")>>},
       Client({Id("x")}, {"}", "]"}, 9, {Number(0)}))}
=============================================================================
