-------------------------------- MODULE Lexer --------------------------------
(***************************************************************************)
(* lex_stream.cpp: the token at the next character of a text.  The lexer   *)
(* sees one character ahead, and what it has read too far it puts on a     *)
(* stack before the text (lex_shared.hpp).  A reader in has the text, what *)
(* is next in it, and the characters held on that stack; a lexed token is  *)
(* a pair of the reader after it and the token, of kind and value.  "/",   *)
(* "%", fractions, and positions are left out.                             *)
(***************************************************************************)
EXTENDS ExpressionValues, SequencesExt

Eof == <<"eof", "">>
Error == <<"error", "">>        \* in the place of a token: an exception
End == ""                       \* EOF, in the place of a character

Digits == <<"0", "1", "2", "3", "4", "5", "6", "7", "8", "9", "a", "b", "c", "d", "e", "f">>
Digit == {Digits[i] : i \in 1 .. 10}
HexDigit == ToSet(Digits)
Letter == {"a", "b", "c", "d", "e", "f", "g", "l", "m", "p", "r", "s", "t", "u", "x", "y", "_"}
Space == {" ", "\n"}
Quote == {"'", "\""}
Simple == {"+", "-", "*", "?", ":", "!", "{", "}", "<", ">", "(", ")", "@", "[", "]", ",", ".", "=", ";"}
Keywords == {"empty", "true", "false"}

\* what makes a compound with the character before it
Match == [c \in {"!", "&", "-", "<", "=", ">", "|"} |->
            CASE c \in {"&", "|"} -> c [] c = "-" -> ">" [] OTHER -> "="]

Chars(string) == [i \in 1 .. Len(string) |-> SubSeq(string, i, i)]
Join(chars) == FoldLeft(LAMBDA s, c : s \o c, "", chars)
Numeral(chars, radix) ==
  FoldLeft(LAMBDA n, c : n * radix + (CHOOSE i \in 1 .. 16 : Digits[i] = c) - 1, 0, chars)

(***************************************************************************)
(* The characters.                                                         *)
(***************************************************************************)
Reader(chars) == [text |-> chars, next |-> 1, held |-> <<>>]

peek_char(in) ==
  CASE in.held # <<>> -> Last(in.held)
    [] in.held = <<>> /\ in.next <= Len(in.text) -> in.text[in.next]
    [] OTHER -> End

ignore_char(in) ==
  CASE in.held # <<>> -> [in EXCEPT !.held = Front(@)]
    [] in.held = <<>> /\ in.next <= Len(in.text) -> [in EXCEPT !.next = @ + 1]
    [] OTHER -> in

putback_char(in, c) == [in EXCEPT !.held = Append(@, c)]

\* The characters of a class are read, and one more, which is put back.
RECURSIVE GetWhile(_, _, _)
GetWhile(in, class, buffer) ==
  LET c == peek_char(in) IN
  CASE c = End -> <<in, buffer>>
    [] c \in class -> GetWhile(ignore_char(in), class, Append(buffer, c))
    [] OTHER -> <<putback_char(ignore_char(in), c), buffer>>

\* the same up to a character, which is read too, or to the end of the text
RECURSIVE GetThrough(_, _, _)
GetThrough(in, end, buffer) ==
  LET c == peek_char(in) IN
  CASE c = End -> <<in, buffer>>
    [] c = end -> <<ignore_char(in), buffer>>
    [] OTHER -> GetThrough(ignore_char(in), end, Append(buffer, c))

skip_white_space(in) == GetWhile(in, Space, <<>>)[1]

(***************************************************************************)
(* The tokens that begin with c, which is read already.                    *)
(***************************************************************************)
NoToken == <<>>

Numbered(r, radix) == <<r[1], Number(Numeral(r[2], radix))>>

is_hex_number(in, c) ==
  CASE c # "0" \/ peek_char(in) # "x" -> <<in, NoToken>>
    [] peek_char(ignore_char(in)) \notin HexDigit -> <<putback_char(ignore_char(in), "x"), NoToken>>
    [] OTHER -> Numbered(GetWhile(ignore_char(in), HexDigit, <<>>), 16)

\* any digits and dots; the fraction is dropped
WithoutFraction(whole) == <<GetWhile(whole[1], Digit \cup {"."}, <<>>)[1], whole[2]>>

is_dec_number(in, c) ==
  IF c \in Digit THEN Numbered(WithoutFraction(GetWhile(putback_char(in, c), Digit, <<>>)), 10)
  ELSE <<in, NoToken>>

Worded(in, word) == <<in, <<IF word \in Keywords THEN "keyword" ELSE "identifier", word>> >>
JoinedWord(r) == Worded(r[1], Join(r[2]))

is_identifier_or_keyword(in, c) ==
  IF c \in Letter THEN JoinedWord(GetWhile(in, Letter \cup Digit, <<c>>)) ELSE <<in, NoToken>>

\* lead_comment: through the first "*" that "/" follows; trail_comment: through a line end
RECURSIVE LeadComment(_)
AfterStar(in) ==
  CASE peek_char(in) = "/" -> <<ignore_char(in), <<"lead_comment", "">> >>
    [] peek_char(in) = End -> <<in, Error>>
    [] OTHER -> LeadComment(in)
LeadComment(in) == AfterStar(GetThrough(in, "*", <<>>)[1])

is_comment(in, c) ==
  CASE c = "/" /\ peek_char(in) = "/" ->
         <<GetThrough(ignore_char(in), "\n", <<>>)[1], <<"trail_comment", "">> >>
    [] c = "/" /\ peek_char(in) = "*" -> LeadComment(ignore_char(in))
    [] OTHER -> <<in, NoToken>>

\* Strings next to each other are one.  The last character read is to be the quote, also
\* of a string the text ends with the first quote of.
RECURSIVE Strings(_, _, _)
AfterString(in, buffer) ==
  IF peek_char(in) \in Quote THEN Strings(ignore_char(in), peek_char(in), buffer)
  ELSE <<in, <<"string", Join(buffer)>> >>
AfterQuote(in, c, buffer) ==
  IF in.text[in.next - 1] # c THEN <<in, Error>> ELSE AfterString(skip_white_space(in), buffer)
Unquoted(r, c) == AfterQuote(r[1], c, r[2])
Strings(in, c, buffer) == Unquoted(GetThrough(in, c, buffer), c)

is_string(in, c) == IF c \in Quote THEN Strings(in, c, <<>>) ELSE <<in, NoToken>>

is_compound(in, c) ==
  LET second == ignore_char(in) IN
  CASE c \notin DOMAIN Match -> <<in, NoToken>>
    [] c \in DOMAIN Match /\ peek_char(in) # Match[c] -> <<in, NoToken>>
    [] c = "<" /\ peek_char(second) = "=" -> <<ignore_char(second), <<"<==", "">> >>
    [] OTHER -> <<second, <<c \o Match[c], "">> >>

is_simple(in, c) == <<in, IF c \in Simple THEN <<c, "">> ELSE NoToken>>

Else(tried, Kind(_, _), c) == IF tried[2] = NoToken THEN Kind(tried[1], c) ELSE tried

Certain(r) == IF r[2] = NoToken THEN <<r[1], Error>> ELSE r

parse_token(in, c) ==
  Certain(Else(Else(Else(Else(Else(Else(
    is_hex_number(in, c), is_dec_number, c), is_identifier_or_keyword, c), is_comment, c),
    is_string, c), is_compound, c), is_simple, c))

AtToken(in) == IF peek_char(in) = End THEN <<in, Eof>> ELSE parse_token(ignore_char(in), peek_char(in))
Lex(in) == AtToken(skip_white_space(in))
=============================================================================
