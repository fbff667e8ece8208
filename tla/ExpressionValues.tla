--------------------------- MODULE ExpressionValues ---------------------------
(***************************************************************************)
(* The values of expressions and the operators and functions of            *)
(* virtual_machine.cpp on them.  A value is a pair of its type and what it *)
(* holds.  Numbers are integers: "/" and "%" are left out.                 *)
(***************************************************************************)
EXTENDS Integers, Sequences, FiniteSetsExt

Number(n) == <<"number", n>>
Boolean(b) == <<"boolean", b>>
Name(n) == <<"name", n>>
Array(s) == <<"array", s>>
Dictionary(pairs) == <<"dictionary", pairs>>      \* a set of names with their values
Empty == <<"empty", "">>
Throw == <<"throw">>                              \* in the place of a value: an exception

Is(type, v) == v[1] = type

\* A cast to another type than the operand's throws.
Unary(op, v) ==
  CASE op = "negate" /\ Is("number", v) -> Number(-v[2])
    [] op = "not" /\ Is("boolean", v) -> Boolean(~v[2])
    [] OTHER -> Throw

Arithmetic(op, m, n) ==
  CASE op = "+" -> Number(m + n)
    [] op = "-" -> Number(m - n)
    [] op = "*" -> Number(m * n)
    [] op = "<" -> Boolean(m < n)
    [] op = ">" -> Boolean(m > n)
    [] op = "<=" -> Boolean(m <= n)
    [] op = ">=" -> Boolean(m >= n)

Binary(op, a, b) ==
  CASE op = "==" -> Boolean(a = b)
    [] op = "!=" -> Boolean(a # b)
    [] OTHER -> IF Is("number", a) /\ Is("number", b) THEN Arithmetic(op, a[2], b[2]) ELSE Throw

Index(a, b) ==
  LET found == IF Is("dictionary", a) THEN {p \in a[2] : Name(p[1]) = b} ELSE {}
  IN CASE Is("name", b) -> IF found = {} THEN Throw ELSE (CHOOSE p \in found : TRUE)[2]
       [] Is("number", b) /\ Is("array", a) ->
            IF b[2] \in 0 .. Len(a[2]) - 1 THEN a[2][b[2] + 1] ELSE Throw
       [] OTHER -> Throw

Largest(arguments) ==
  CASE arguments = <<>> -> Throw
    [] Len(arguments) = 1 -> arguments[1]
    [] OTHER -> IF \A i \in DOMAIN arguments : Is("number", arguments[i])
                THEN Number(Max({arguments[i][2] : i \in DOMAIN arguments}))
                ELSE Throw

\* get_value: an argument that is missing or of another type keeps its default.
Scaled(arguments) ==
  LET Given(name, default) ==
        LET numbers == {p \in arguments : p[1] = name /\ Is("number", p[2])}
        IN IF numbers = {} THEN default ELSE (CHOOSE p \in numbers : TRUE)[2][2]
  IN Number(Given("m", 1) * Given("x", 0) + Given("b", 0))

\* a function of the tables; no lookup for others is installed
Call(function, argument) ==
  CASE function = "max" /\ Is("array", argument) -> Largest(argument[2])
    [] function = "typeof" /\ Is("array", argument) /\ argument[2] # <<>> ->
         Name(argument[2][1][1])
    [] function = "scale" /\ Is("dictionary", argument) -> Scaled(argument[2])
    [] OTHER -> Throw

\* dictionary_t::insert keeps the first of the values of a name.
FirstOfEach(pairs) ==
  {pairs[i] : i \in {i \in DOMAIN pairs : \A j \in 1 .. i - 1 : pairs[j][1] # pairs[i][1]}}
=============================================================================
