---------------------------- MODULE VirtualMachine ----------------------------
(***************************************************************************)
(* The virtual machine (virtual_machine.cpp) as a sheet uses it: texts are *)
(* parsed and evaluated one after the other on one machine, a variable is  *)
(* a value, throws, or is computed by another evaluation of the machine in *)
(* the middle of this one, and what an exception leaves on the value stack *)
(* stays there.                                                            *)
(***************************************************************************)
EXTENDS ExpressionParser

CONSTANTS
  Clients,            \* [words: the phrases of spellings its texts are made of, cells: a
                      \* function from identifiers to a value, Throw, or a definition,
                      \* length: a bound of its texts, left: the same on a machine with
                      \* operands left on its stack]
  MaxLeft             \* bound: the operands that may be left

VARIABLES
  client,             \* one of Clients, fixed
  text,               \* what the client writes
  phase,              \* "writing", "running", "returned", "threw", "rejected"
  stack,              \* value_stack_m
  frames,             \* the calls of evaluate: their code, the next item, what their caller is
  base,               \* the stack before the client's call
  reads,              \* the variables looked up
  inOrder,            \* (history) the parser has got the tokens of the text in order
  answer              \* what the client took from the stack

vars == <<client, text, phase, stack, frames, base, reads, answer, inOrder>>
machine == <<stack, frames, base, reads, answer>>

Definition(words) == <<"definition", words>>

(***************************************************************************)
(* A bound of the texts: one is written on only as long as no two tokens   *)
(* stand together that no expression has together.                         *)
(***************************************************************************)
Starts == {"identifier", "number", "string", "keyword", "@", "(", "[", "{", "-", "!", "+"}
Ends == {"identifier", "number", "string", "keyword", ")", "]", "}"}

Follows(a, b) ==
  CASE a \in Ends -> b \notin Starts \ {"-", "+", "[", "("} /\ (b = "(" => a = "identifier")
    [] a = "." -> b = "identifier"
    [] a = "@" -> b \in {"identifier", "keyword"}
    [] OTHER -> b \in Starts \/ <<a, b>> \in {<<"(", ")">>, <<"[", "]">>, <<"{", "}">>}

Plausible ==
  LET tokens == Tokens(text) IN
  /\ Error \notin ToSet(tokens)
  /\ \A i \in 1 .. Len(tokens) - 1 : Follows(tokens[i][1], tokens[i + 1][1])

Init ==
  /\ client \in Clients /\ text = <<>> /\ phase = "writing"
  /\ stack = <<>> /\ frames = <<>> /\ base = <<>> /\ reads = <<>> /\ answer = Empty
  /\ inOrder = TRUE

Write ==
  /\ phase = "writing"
  /\ Len(text) < IF base = <<>> THEN client.length ELSE client.left
  /\ Plausible
  /\ \E phrase \in client.words : text' = text \o phrase
  /\ UNCHANGED <<client, phase, machine, inOrder>>

Evaluate ==
  /\ phase = "writing"
  /\ \E s \in {Parse(text)} :
       /\ inOrder' = s.inOrder
       /\ IF s.hit
          THEN /\ phase' = "running"
               /\ frames' = <<[code |-> s.code, at |-> 1, caller |-> "client"]>>
          ELSE phase' = "rejected" /\ UNCHANGED frames
  /\ UNCHANGED <<client, text, stack, base, reads, answer>>

\* The client goes on with this machine, or takes a new one.
Again ==
  /\ phase \in {"returned", "threw", "rejected"}
  /\ stack' \in {stack, <<>>} /\ Len(stack') <= MaxLeft
  /\ phase' = "writing" /\ text' = <<>>
  /\ base' = stack' /\ reads' = <<>> /\ answer' = Empty /\ inOrder' = TRUE
  /\ UNCHANGED <<client, frames>>

(***************************************************************************)
(* evaluate, one item of the code at a time.                               *)
(***************************************************************************)
Frame == frames[Len(frames)]
Item == Frame.code[Frame.at]
Running == phase = "running" /\ Frame.at <= Len(Frame.code)
IsOperator(ops) == Running /\ Is("op", Item) /\ Item[2] \in ops

Top(n) == stack[Len(stack) + 1 - n]
Drop(n) == SubSeq(stack, 1, Len(stack) - n)
Advanced == [frames EXCEPT ![Len(frames)].at = @ + 1]
Fixed == UNCHANGED <<client, text, base, inOrder>>

Continue(left) ==
  /\ stack' = left /\ frames' = Advanced
  /\ UNCHANGED <<phase, answer>> /\ Fixed

Nest(code, caller, left) ==
  /\ stack' = left /\ frames' = Append(Advanced, [code |-> code, at |-> 1, caller |-> caller])
  /\ UNCHANGED <<phase, answer>> /\ Fixed

\* The exception leaves every evaluate; the stack is left as it is.
Raise(left) ==
  /\ stack' = left /\ frames' = <<>> /\ phase' = "threw"
  /\ UNCHANGED answer /\ Fixed

Literal ==
  /\ Running /\ ~Is("op", Item)
  /\ Continue(Append(stack, Item)) /\ UNCHANGED reads

UnaryOperator ==
  /\ IsOperator({"negate", "not"})
  /\ LET value == Unary(Item[2], Top(1))
     IN IF value = Throw THEN Raise(stack) ELSE Continue(Append(Drop(1), value))
  /\ UNCHANGED reads

BinaryOperator ==
  /\ IsOperator(UNION {Operators[i] : i \in 3 .. Len(Operators)})
  /\ LET value == Binary(Item[2], Top(2), Top(1))
     IN IF value = Throw THEN Raise(stack) ELSE Continue(Append(Drop(2), value))
  /\ UNCHANGED reads

IndexOperator ==
  /\ IsOperator({"index"})
  /\ LET value == Index(Top(2), Top(1))
     IN IF value = Throw THEN Raise(stack) ELSE Continue(Append(Drop(2), value))
  /\ UNCHANGED reads

\* The operand on the right is evaluated only if that on the left leaves it open.
LogicalOperator ==
  /\ IsOperator({"||", "&&"})
  /\ CASE ~Is("boolean", Top(2)) -> Raise(Drop(1))
       [] Top(2) = Boolean(Item[2] = "&&") -> Nest(Top(1)[2], "logical", Drop(2))
       [] OTHER -> Continue(Drop(1))
  /\ UNCHANGED reads

IfelseOperator ==
  /\ IsOperator({"?"})
  /\ IF Is("boolean", Top(3))
     THEN Nest(IF Top(3)[2] THEN Top(2)[2] ELSE Top(1)[2], "ifelse", Drop(3))
     ELSE Raise(Drop(2))
  /\ UNCHANGED reads

ArrayOperator ==
  /\ IsOperator({"array"})
  /\ LET left == Drop(Top(1)[2] + 1)
     IN Continue(Append(left, Array(SubSeq(Drop(1), Len(left) + 1, Len(stack) - 1))))
  /\ UNCHANGED reads

DictionaryOperator ==
  /\ IsOperator({"dictionary"})
  /\ LET count == Top(1)[2]
         left == Drop(2 * count + 1)
         pair == [i \in 1 .. count |-> <<stack[Len(left) + 2 * i - 1][2], stack[Len(left) + 2 * i]>>]
     IN Continue(Append(left, Dictionary(FirstOfEach(pair))))
  /\ UNCHANGED reads

FunctionOperator ==
  /\ IsOperator({"function"})
  /\ LET value == Call(Top(1)[2], Top(2))
     IN IF value = Throw THEN Raise(Drop(1)) ELSE Continue(Append(Drop(2), value))
  /\ UNCHANGED reads

(* Mutant: the name of the variable is not popped. *)
VariableOperatorKeeps ==
  /\ IsOperator({"variable"})
  /\ LET cell == client.cells[Top(1)[2]]
     IN CASE cell = Throw -> Raise(stack)
          [] Is("definition", cell) -> Nest(Parse(cell[2]).code, "lookup", stack)
          [] OTHER -> Continue(Append(stack, cell))
  /\ reads' = Append(reads, Top(1)[2])

\* The lookup of a sheet: a cell with an expression is calculated on this machine.
VariableOperator ==
  /\ IsOperator({"variable"})
  /\ LET cell == client.cells[Top(1)[2]]
     IN CASE cell = Throw -> Raise(Drop(1))
          [] Is("definition", cell) -> Nest(Parse(cell[2]).code, "lookup", Drop(1))
          [] OTHER -> Continue(Append(Drop(1), cell))
  /\ reads' = Append(reads, Top(1)[2])

\* A call of evaluate is done.  The right operand of && and || is to be boolean; the
\* result of a lookup is popped and pushed again; the client takes its own.
Return ==
  /\ phase = "running" /\ Frame.at > Len(Frame.code)
  /\ CASE Frame.caller = "logical" /\ ~Is("boolean", Top(1)) -> Raise(stack)
       [] Frame.caller = "client" ->
            /\ answer' = Top(1) /\ stack' = Drop(1) /\ frames' = <<>> /\ phase' = "returned"
            /\ Fixed
       [] OTHER -> /\ frames' = SubSeq(frames, 1, Len(frames) - 1)
                   /\ UNCHANGED <<stack, phase, answer>> /\ Fixed
  /\ UNCHANGED reads

Next ==
  \/ Write \/ Evaluate \/ Again
  \/ Literal \/ UnaryOperator \/ BinaryOperator \/ IndexOperator \/ LogicalOperator
  \/ IfelseOperator \/ ArrayOperator \/ DictionaryOperator \/ FunctionOperator
  \/ VariableOperator \/ Return

Spec == Init /\ [][Next]_vars

(***************************************************************************)
(* Properties.                                                             *)
(***************************************************************************)
Reference == INSTANCE ExpressionMeaning

\* what each variable means: a definition reads its own variables after it
Values == [x \in DOMAIN client.cells |->
             IF Is("definition", client.cells[x]) THEN Empty ELSE client.cells[x]]
Plain == [x \in DOMAIN client.cells |-> [reads |-> <<x>>, value |-> Values[x]]]
Variables ==
  [x \in DOMAIN client.cells |->
     IF ~Is("definition", client.cells[x]) THEN Plain[x]
     ELSE LET o == CHOOSE o \in Reference!Meanings(Tokens(client.cells[x][2]), Plain) : TRUE
          IN [o EXCEPT !.reads = <<x>> \o @]]

\* The parser gets the tokens the text is written in, in their order: whatever the lexer
\* reads too far and puts back, however far the parser looks ahead, up to the two tokens
\* the ring holds, and never one whose value it has moved out (lex_stream.cpp:290,
\* lex_shared.hpp:497 "Check for overflow", expression_parser.cpp:361).
TokensInOrder == inOrder

\* A text is accepted exactly if the grammar derives it; it then means one thing, and
\* an evaluation returns that, or throws where that throws, after reading the same
\* variables in the same order: short circuits, nested evaluations and what earlier
\* exceptions left on the stack included.
AnswersMeaning ==
  phase \in {"returned", "threw", "rejected"} =>
    Reference!Meanings(Tokens(text), Variables) =
      CASE phase = "returned" -> {[reads |-> reads, value |-> answer]}
        [] phase = "threw" -> {[reads |-> reads, value |-> Throw]}
        [] phase = "rejected" -> {}

\* No operator takes an operand its own evaluation has not pushed, and an evaluation
\* that returns leaves none: what lies below on the stack, of the evaluation a lookup
\* interrupts or of one that threw, is never disturbed (adam.cpp:955-958).
KeepsOperandsBelow ==
  /\ Len(base) <= Len(stack) /\ SubSeq(stack, 1, Len(base)) = base
  /\ phase = "returned" => stack = base
=============================================================================
