--------------------------- MODULE ExpressionParser ---------------------------
(***************************************************************************)
(* expression_parser.cpp: the recursive descent from tokens to the code of *)
(* the virtual machine, with the ring of two tokens it puts them back in   *)
(* (lex_shared.hpp, circular_queue.hpp).  An operator takes the state of   *)
(* the parser and returns the next; hit says whether it found its part of  *)
(* the grammar, err that it threw.  A text is a sequence of spellings, each    *)
(* with the tokens it is meant to be.                                      *)
(***************************************************************************)
EXTENDS Lexer

(***************************************************************************)
(* The tokens a text is meant to be, and how it is spelled.                *)
(***************************************************************************)
OpenString == <<"open", "">>

\* Strings next to each other are one, and an open one spoils those before it.
Joined(tokens, token) ==
  LET after == tokens # <<>> /\ Last(tokens)[1] = "string" IN
  CASE token[1] = "string" /\ after -> Append(Front(tokens), <<"string", Last(tokens)[2] \o token[2]>>)
    [] token = OpenString -> Append(IF after THEN Front(tokens) ELSE tokens, Error)
    [] OTHER -> Append(tokens, token)

Tokens(text) == FoldLeft(Joined, <<>>, FlattenSeq([i \in DOMAIN text |-> text[i][2]]))

\* Spellings that would run together are written apart.
RunTogether(a, b) ==
  \/ Last(a) \in Letter \cup Digit /\ Head(b) \in Letter \cup Digit
  \/ Last(a) \in Digit /\ Head(b) = "."
  \/ Last(a) \in DOMAIN Match /\ Head(b) = Match[Last(a)]

Spelled(text) ==
  FoldLeft(LAMBDA a, lexeme :
    LET b == Chars(lexeme[1]) IN
    IF a # <<>> /\ RunTogether(a, b) THEN a \o <<" ">> \o b ELSE a \o b, <<>>, text)

(***************************************************************************)
(* The parser.                                                             *)
(***************************************************************************)
Capacity == 2
Operator(op) == <<"op", op>>           \* a name with a leading dot

Start(text) ==
  [in |-> Reader(Spelled(text)), meant |-> Tokens(text),
   ring |-> [i \in 1 .. Capacity |-> Eof], begin |-> 1, end |-> 1, empty |-> TRUE,
   token |-> Eof, at |-> 1, inOrder |-> TRUE,              \* the last token got, and which it should be
   hit |-> FALSE, err |-> FALSE, code |-> <<>>]

Hit(s) == [s EXCEPT !.hit = ~s.err]
Miss(s) == [s EXCEPT !.hit = FALSE]
Throws(s) == [s EXCEPT !.hit = FALSE, !.err = TRUE]
Require(s) == IF s.hit THEN s ELSE Throws(s)
Push(s, item) == [s EXCEPT !.code = Append(@, item)]

\* what follows a part that was found, that was not, or that may be left out
OnHit(s, Then(_)) == IF s.hit THEN Then(s) ELSE s
OrElse(s, Part(_)) == IF s.hit \/ s.err THEN s ELSE Part(s)
Either(s, Then(_), Part(_)) == IF s.hit THEN Then(s) ELSE Part(s)

(***************************************************************************)
(* The ring of tokens.                                                     *)
(***************************************************************************)
After(i) == (i % Capacity) + 1
Before(i) == IF i = 1 THEN Capacity ELSE i - 1

push_back(s, token) ==
  LET full == ~s.empty /\ s.begin = s.end IN
  [s EXCEPT !.ring[s.end] = token, !.end = After(@), !.empty = FALSE,
            !.begin = IF full THEN After(s.end) ELSE @]

pop_front(s) == [s EXCEPT !.begin = After(@), !.empty = After(s.begin) = s.end]

Filled(s, lexed) == [push_back(s, lexed[2]) EXCEPT !.in = lexed[1]]

Got(s, token) ==
  [pop_front(s) EXCEPT !.token = token, !.at = @ + 1, !.err = token = Error,
     !.inOrder = @ /\ token = (IF s.at <= Len(s.meant) THEN s.meant[s.at] ELSE Eof)]

GotFront(s) == Got(s, s.ring[s.begin])

get_token(s) ==
  IF s.err THEN [s EXCEPT !.token = Error]
  ELSE GotFront(IF s.empty THEN Filled(s, Lex(s.in)) ELSE s)

(* Mutant: a put back at the first slot stays there. *)
PutbackUnwrapped(s) ==
  [s EXCEPT !.begin = IF @ = 1 THEN 1 ELSE @ - 1, !.empty = FALSE, !.at = @ - 1]

putback(s) == [s EXCEPT !.begin = Before(@), !.empty = FALSE, !.at = @ - 1]

Accepted(s, accepts) == IF accepts THEN Hit(s) ELSE Miss(putback(s))

OfKind(s, kinds) == Accepted(s, s.token[1] \in kinds)
is_token(s, kinds) == OfKind(get_token(s), kinds)

OfKeyword(s, keywords) == Accepted(s, s.token[1] = "keyword" /\ s.token[2] \in keywords)
is_keyword(s, keywords) == OfKeyword(get_token(s), keywords)

\* the value is moved out of the ring
MoveToken(s, kinds) ==
  OnHit(is_token(s, kinds), LAMBDA g : [g EXCEPT !.ring[Before(g.begin)] = <<g.token[1]>>])

require_token(s, kind) == IF s.err THEN s ELSE Require(is_token(s, {kind}))

(***************************************************************************)
(* The grammar.                                                            *)
(***************************************************************************)
\* the binary operators, the loosest first; the operand of the first two is an array
Operators == <<{"||"}, {"&&"}, {"==", "!="}, {"<", ">", "<=", ">="}, {"+", "-"}, {"*"}>>
Logical(level) == level <= 2

RECURSIVE is_expression(_), Level(_, _), More(_, _), is_unary_expression(_), Indexes(_),
          is_argument_list(_), MoreArguments(_, _), is_named_argument(_),
          MoreNamedArguments(_, _), is_primary_expression(_), is_variable_or_function(_)

is_expression(s) ==
  OnHit(Level(1, s), LAMBDA first :
    Either(is_token(first, {"?"}), LAMBDA question :
      OnHit(Require(is_expression([question EXCEPT !.code = <<>>])), LAMBDA second :
      OnHit(require_token(second, ":"), LAMBDA colon :
      OnHit(Require(is_expression([colon EXCEPT !.code = <<>>])), LAMBDA third :
        [third EXCEPT !.code =
           first.code \o <<Array(second.code), Array(@), Operator("?")>>]))), Hit))

Operand(level, s) ==
  IF level = Len(Operators) THEN is_unary_expression(s) ELSE Level(level + 1, s)

Level(level, s) == OnHit(Operand(level, s), LAMBDA first : More(level, first))

More(level, s) ==
  Either(is_token(s, Operators[level]), LAMBDA op :
    OnHit(Require(Operand(level, IF Logical(level) THEN [op EXCEPT !.code = <<>>] ELSE op)), LAMBDA right :
      More(level, [right EXCEPT !.code =
        Append(IF Logical(level) THEN s.code \o <<Array(@)>> ELSE @, Operator(op.token[1]))])), Hit)

is_postfix_expression(s) == OnHit(is_primary_expression(s), LAMBDA primary : Indexes(primary))

Signed(op, operand) ==
  IF op = "+" THEN operand ELSE Push(operand, Operator(IF op = "-" THEN "negate" ELSE "not"))

(* Mutant: the operand of a unary operator has none itself. *)
UnaryOfPostfix(s) ==
  OrElse(is_postfix_expression(s), LAMBDA postfix :
    OnHit(is_token(postfix, {"-", "!", "+"}), LAMBDA op :
      OnHit(Require(is_postfix_expression(op)), LAMBDA operand : Signed(op.token[1], operand))))

is_unary_expression(s) ==
  OrElse(is_postfix_expression(s), LAMBDA postfix :
    OnHit(is_token(postfix, {"-", "!", "+"}), LAMBDA op :
      OnHit(Require(is_unary_expression(op)), LAMBDA operand : Signed(op.token[1], operand))))

Indexes(s) ==
  Either(is_token(s, {"["}),
    LAMBDA open : OnHit(require_token(Require(is_expression(open)), "]"),
                        LAMBDA close : Indexes(Push(close, Operator("index")))),
    LAMBDA other : Either(is_token(other, {"."}),
      LAMBDA dot : OnHit(require_token(dot, "identifier"), LAMBDA name :
        Indexes(Push(Push(name, Name(name.token[2])), Operator("index")))),
      Hit))

\* a list is found; code that makes it of its count items
List(s, count, kind) == Hit(Push(Push(s, Number(count)), Operator(kind)))

is_argument_list(s) == OnHit(is_expression(s), LAMBDA first : MoreArguments(first, 1))

MoreArguments(s, count) ==
  Either(is_token(s, {","}),
    LAMBDA comma : OnHit(Require(is_expression(comma)), LAMBDA next : MoreArguments(next, count + 1)),
    LAMBDA end : List(end, count, "array"))

\* This is the one point in the grammar that needs two tokens.
is_named_argument(s) ==
  OnHit(is_token(s, {"identifier"}), LAMBDA ident :
    Either(is_token(ident, {":"}),
      LAMBDA colon : Require(is_expression(Push(colon, Name(ident.token[2])))),
      LAMBDA other : Miss(putback(other))))

is_named_argument_list(s) == OnHit(is_named_argument(s), LAMBDA first : MoreNamedArguments(first, 1))

MoreNamedArguments(s, count) ==
  Either(is_token(s, {","}),
    LAMBDA comma : OnHit(Require(is_named_argument(comma)),
                         LAMBDA next : MoreNamedArguments(next, count + 1)),
    LAMBDA end : List(end, count, "dictionary"))

\* a list that may be left out, and the token after it
Closed(s, default, close) == require_token(IF s.hit \/ s.err THEN s ELSE Push(s, default), close)

is_array(s) ==
  OnHit(is_token(s, {"["}), LAMBDA open : Closed(is_argument_list(open), Array(<<>>), "]"))

is_dictionary(s) ==
  OnHit(is_token(s, {"{"}), LAMBDA open : Closed(is_named_argument_list(open), Dictionary({}), "}"))

is_argument_expression_list(s) ==
  OrElse(is_named_argument_list(s), LAMBDA other : is_argument_list(other))

is_variable_or_function(s) ==
  OnHit(MoveToken(s, {"identifier"}), LAMBDA ident :
    Either(is_token(ident, {"("}),
      LAMBDA open : OnHit(Closed(is_argument_expression_list(open), Array(<<>>), ")"), LAMBDA close :
        Push(Push(close, Name(ident.token[2])), Operator("function"))),
      LAMBDA other : Hit(Push(Push(other, Name(ident.token[2])), Operator("variable")))))

is_name(s) ==
  OnHit(is_token(s, {"@"}), LAMBDA at :
    OnHit(Require(MoveToken(at, {"keyword", "identifier"})), LAMBDA name :
      Push(name, Name(name.token[2]))))

Keyword(name) == IF name = "empty" THEN Empty ELSE Boolean(name = "true")

is_literal(s) == OnHit(MoveToken(s, {"number", "string"}), LAMBDA token : Push(token, token.token))

is_constant(s) ==
  OnHit(is_keyword(s, {"true", "false", "empty"}), LAMBDA keyword : Push(keyword, Keyword(keyword.token[2])))

is_parenthesized(s) ==
  OnHit(is_token(s, {"("}), LAMBDA open : require_token(Require(is_expression(open)), ")"))

is_primary_expression(s) ==
  OrElse(OrElse(OrElse(OrElse(OrElse(OrElse(
    is_name(s), is_literal), is_constant), is_array), is_dictionary),
    LAMBDA other : is_variable_or_function(other)), LAMBDA other : is_parenthesized(other))

\* The client asks for an expression, and that the text ends there.
Parse(text) == require_token(Require(is_expression(Start(text))), "eof")
=============================================================================
