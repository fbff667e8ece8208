-------------------------- MODULE ExpressionMeaning --------------------------
(***************************************************************************)
(* What an expression means, by its grammar alone: each part of a text is  *)
(* split in every way a rule of the grammar allows (the comments of        *)
(* expression_parser.cpp and reference_expression_section.dox), and means  *)
(* the value of its operator on what the parts mean.  An outcome is the    *)
(* value, or Throw, and the variables read on the way.  Where the document *)
(* and the code differ it is the code that is followed: "{}" is a          *)
(* dictionary, "@" takes a keyword too, and unary "+" any type.            *)
(***************************************************************************)
EXTENDS ExpressionValues

Outcome(reads, value) == [reads |-> reads, value |-> value]

\* an operator on the outcomes of its operands, from left to right
Then(a, b, value) ==
  IF a.value = Throw THEN a
  ELSE Outcome(a.reads \o b.reads, IF b.value = Throw THEN Throw ELSE value)

Sum(op, a, b) ==
  IF op \in {"||", "&&"}
  THEN CASE ~Is("boolean", a.value) -> Outcome(a.reads, Throw)
         [] a.value = Boolean(op = "||") -> a
         [] OTHER -> Then(a, b, IF Is("boolean", b.value) THEN b.value ELSE Throw)
  ELSE Then(a, b, IF Throw \in {a.value, b.value} THEN Throw ELSE Binary(op, a.value, b.value))

Choice(a, b, c) ==
  IF ~Is("boolean", a.value) THEN Outcome(a.reads, Throw)
  ELSE LET chosen == IF a.value[2] THEN b ELSE c IN Then(a, chosen, chosen.value)

Sign(op, a) ==
  CASE a.value = Throw \/ op = "+" -> a
    [] OTHER -> Outcome(a.reads, Unary(IF op = "-" THEN "negate" ELSE "not", a.value))

\* lists are outcomes too: of an array, or of pairs in the order they are written
Extend(list, a, item) ==
  Then(list, a, IF Throw \in {list.value, a.value} THEN Throw ELSE Append(list.value, item))

Mapped(list, F(_)) ==
  IF list.value = Throw THEN list ELSE Outcome(list.reads, F(list.value))

Calls(function, list) == Mapped(list, LAMBDA v : Call(function, v))

Levels == <<{"||"}, {"&&"}, {"==", "!="}, {"<", ">", "<=", ">="}, {"+", "-"}, {"*"}>>

(***************************************************************************)
(* The outcomes of the parts i to j of a text; c has the text and what     *)
(* each variable means.                                                    *)
(***************************************************************************)
RECURSIVE Expression(_, _, _), Binaries(_, _, _, _), UnaryPart(_, _, _), Postfix(_, _, _),
          Arguments(_, _, _), NamedArguments(_, _, _)

Kind(c, i) == c.text[i][1]
Places(c, i, j, kinds) == {k \in i .. j : Kind(c, k) \in kinds}

Expression(c, i, j) ==
  Binaries(c, 1, i, j)
  \cup UNION {{Choice(x, y, z) : x \in Binaries(c, 1, i, q - 1), y \in Expression(c, q + 1, p - 1),
                                 z \in Expression(c, p + 1, j)}
                : <<q, p>> \in {<<q, p>> \in Places(c, i + 1, j, {"?"}) \X Places(c, i + 1, j, {":"}) : q < p}}

Binaries(c, level, i, j) ==
  LET Part(m, n) == IF level = Len(Levels) THEN UnaryPart(c, m, n) ELSE Binaries(c, level + 1, m, n)
  IN Part(i, j)
     \cup UNION {{Sum(Kind(c, k), a, b) : a \in Binaries(c, level, i, k - 1), b \in Part(k + 1, j)}
                   : k \in Places(c, i + 1, j - 1, Levels[level])}

UnaryPart(c, i, j) ==
  Postfix(c, i, j)
  \cup IF i < j /\ Kind(c, i) \in {"-", "!", "+"}
       THEN {Sign(Kind(c, i), a) : a \in UnaryPart(c, i + 1, j)} ELSE {}

Encloses(c, i, j, open, close) == i < j /\ Kind(c, i) = open /\ Kind(c, j) = close

Argument(c, k, j) ==
  IF k + 1 < j /\ Kind(c, k) = "identifier" /\ Kind(c, k + 1) = ":"
  THEN Expression(c, k + 2, j) ELSE {}

Arguments(c, i, j) ==
  {Extend(Outcome(<<>>, <<>>), a, a.value) : a \in Expression(c, i, j)}
  \cup UNION {{Extend(list, a, a.value) : list \in Arguments(c, i, k - 1), a \in Expression(c, k + 1, j)}
                : k \in Places(c, i + 1, j - 1, {","})}

NamedArguments(c, i, j) ==
  {Extend(Outcome(<<>>, <<>>), a, <<c.text[i][2], a.value>>) : a \in Argument(c, i, j)}
  \cup UNION {{Extend(list, a, <<c.text[k + 1][2], a.value>>) :
                 list \in NamedArguments(c, i, k - 1), a \in Argument(c, k + 1, j)}
                : k \in Places(c, i + 1, j - 1, {","})}

Arrays(c, i, j) ==
  IF i > j THEN {Outcome(<<>>, Array(<<>>))}
  ELSE {Mapped(list, Array) : list \in Arguments(c, i, j)}

Dictionaries(c, i, j) ==
  {Mapped(list, LAMBDA pairs : Dictionary(FirstOfEach(pairs))) : list \in NamedArguments(c, i, j)}

Literals(c, i) ==
  CASE Kind(c, i) \in {"number", "string"} -> {Outcome(<<>>, c.text[i])}
    [] Kind(c, i) = "keyword" /\ c.text[i][2] = "empty" -> {Outcome(<<>>, Empty)}
    [] Kind(c, i) = "keyword" -> {Outcome(<<>>, Boolean(c.text[i][2] = "true"))}
    [] Kind(c, i) = "identifier" -> {c.variables[c.text[i][2]]}
    [] OTHER -> {}

Primary(c, i, j) ==
  UNION {
    IF i = j THEN Literals(c, i) ELSE {},
    IF i + 1 = j /\ Kind(c, i) = "@" /\ Kind(c, j) \in {"identifier", "keyword"}
      THEN {Outcome(<<>>, Name(c.text[j][2]))} ELSE {},
    IF Encloses(c, i, j, "(", ")") THEN Expression(c, i + 1, j - 1) ELSE {},
    IF Encloses(c, i, j, "[", "]") THEN Arrays(c, i + 1, j - 1) ELSE {},
    IF Encloses(c, i, j, "{", "}")
      THEN Dictionaries(c, i + 1, j - 1) \cup (IF i + 1 = j THEN {Outcome(<<>>, Dictionary({}))} ELSE {})
      ELSE {},
    IF Encloses(c, i, j, "identifier", ")") /\ Kind(c, i + 1) = "("
      THEN {Calls(c.text[i][2], list) : list \in Arrays(c, i + 2, j - 1) \cup Dictionaries(c, i + 2, j - 1)}
      ELSE {}}

Postfix(c, i, j) ==
  Primary(c, i, j)
  \cup UNION {{Then(a, b, IF Throw \in {a.value, b.value} THEN Throw ELSE Index(a.value, b.value)) :
                 a \in Postfix(c, i, k - 1), b \in Expression(c, k + 1, j - 1)}
                : k \in IF Kind(c, j) = "]" THEN Places(c, i + 1, j - 2, {"["}) ELSE {}}
  \cup IF i + 1 < j /\ Kind(c, j - 1) = "." /\ Kind(c, j) = "identifier"
       THEN {IF a.value = Throw THEN a ELSE Outcome(a.reads, Index(a.value, Name(c.text[j][2]))) :
               a \in Postfix(c, i, j - 2)}
       ELSE {}

Meanings(text, variables) ==
  IF text = <<>> THEN {} ELSE Expression([text |-> text, variables |-> variables], 1, Len(text))
=============================================================================
