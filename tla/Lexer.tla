------------------------------- MODULE Lexer -------------------------------
(***************************************************************************)
(* The characters: the lexer of src/parser.c, the spelling of symbols and  *)
(* strings in src/value.c and the test for a complete input in src/main.c. *)
(* A text is a sequence of characters.  Every byte without a meaning is a  *)
(* letter, 1 stands for the digits and "backquote" for that character, and *)
(* a number keeps its text, as its value does not matter here.             *)
(***************************************************************************)
EXTENDS Reader

Space == {" ", "\n"}

\* token_boundary
Boundary == Space \cup {"'", "\"", "(", ")", "backquote", ","}

Starts(text, c) == text # << >> /\ text[1] = c
From(text, i)   == SubSeq(text, i, Len(text))

\* The first place, from the i-th character on, where one of chars is, or the end.
Find(text, i, chars) ==
  CHOOSE j \in i..Len(text) + 1 :
    /\ j <= Len(text) => text[j] \in chars
    /\ \A k \in i..j - 1 : text[k] \notin chars

\* consume_whitespace: a comment goes on to the end of its line.
RECURSIVE SkipSpace(_)
SkipSpace(text) ==
  IF Starts(text, ";") THEN SkipSpace(From(text, Find(text, 1, {"\n"})))
  ELSE IF text # << >> /\ text[1] \in Space THEN SkipSpace(Tail(text))
  ELSE text

\* valid_float, which valid_integer implies; exponents are left out.
ValidFloat(text) ==
  LET digits == IF Starts(text, "+") \/ Starts(text, "-") THEN Tail(text) ELSE text
      dots   == {i \in DOMAIN digits : digits[i] = "."} IN
  /\ \A i \in DOMAIN digits : digits[i] \in {"1", "."}
  /\ \A i, j \in dots : i = j
  /\ \E i \in DOMAIN digits : i \notin dots

\* Between pipes there is no boundary.  Where the atom ends, and whether it is a
\* symbol for having pipes or lacks the last one.
RECURSIVE AtomEnd(_, _, _)
AtomEnd(text, i, kind) ==
  IF i > Len(text) \/ text[i] \in Boundary
  THEN [to |-> i - 1, kind |-> kind]
  ELSE IF text[i] # "|" THEN AtomEnd(text, i + 1, kind)
  ELSE LET close == Find(text, i + 1, {"|"}) IN
       IF close > Len(text) THEN [to |-> Len(text), kind |-> "Truncated"]
       ELSE AtomEnd(text, close + 1, "Symbol")

\* parse_symbol takes the pipes out.
WithoutPipes(text) == SelectSeq(text, LAMBDA c : c # "|")

\* parse_string.  A backslash at the end escapes nothing and is dropped.
RECURSIVE Unescaped(_)
Unescaped(text) ==
  IF text = << >> THEN Ok(<< >>)
  ELSE IF text[1] # "\\"
  THEN LET r == Unescaped(Tail(text)) IN IF IsOk(r) THEN Ok(<<text[1]>> \o r.v) ELSE r
  ELSE IF Len(text) = 1 THEN Ok(<< >>)
  ELSE LET r == Unescaped(From(text, 3)) IN
       IF text[2] \notin {"\\", "\"", "n"} THEN Failed("InvalidLiteral")
       ELSE IF IsOk(r) THEN Ok(<<IF text[2] = "n" THEN "\n" ELSE text[2]>> \o r.v) ELSE r

StringToken(text) ==
  LET r == Unescaped(text) IN IF IsOk(r) THEN Atom(Str(r.v)) ELSE Mark("Invalid")

AtomToken(text, kind) ==
  IF kind = "Truncated" THEN Mark(kind)
  ELSE IF kind = "Number" /\ ValidFloat(text) THEN Atom(Num(text))
  ELSE Atom(Sym(WithoutPipes(text)))

\* lexer_next, to the end of the text.  The loop over a string steps over each
\* backslash but not over what it escapes: the first double quote is the end.
RECURSIVE Lex(_)

LexString(text, close) ==
  IF close > Len(text) THEN <<Mark("Truncated")>>
  ELSE <<StringToken(SubSeq(text, 2, close - 1))>> \o Lex(From(text, close + 1))

LexAtom(text, end) == <<AtomToken(SubSeq(text, 1, end.to), end.kind)>> \o Lex(From(text, end.to + 1))

LexToken(text) ==
  LET one(k) == <<Mark(k)>> \o Lex(Tail(text)) IN
  IF text = << >> THEN << >>
  ELSE CASE text[1] = "("  -> one("LParen")
         [] text[1] = ")"  -> one("RParen")
         [] text[1] = "'"  -> one("Quote")
         [] text[1] = "backquote" -> one("Backquote")
         [] text[1] = ","  ->
              IF Starts(Tail(text), "@") THEN <<Mark("Splice")>> \o Lex(From(text, 3)) ELSE one("Comma")
         [] text[1] = "\"" -> LexString(text, Find(text, 2, {"\""}))
         [] text[1] = "." /\ (Len(text) = 1 \/ text[2] \in Boundary) -> one("Dot")
         [] OTHER          -> LexAtom(text, AtomEnd(text, 1, "Number"))

Lex(source) == LexToken(SkipSpace(source))

-----------------------------------------------------------------------------
(* Printing atoms.                                                         *)

IsPipedOnlyForBoundaries(name) ==   \* seeded fault: numbers are forgotten
  name \in {<< >>, <<".">>} \/ \E i \in DOMAIN name : name[i] \in Space \cup {"(", ")", "'", "\""}

\* is_piped_symbol
IsPiped(name) ==
  \/ name \in {<< >>, <<".">>}
  \/ ValidFloat(name)
  \/ \E i \in DOMAIN name : name[i] \in Space \cup {"(", ")", "'", "\""}

SpelledSymbol(name) == IF IsPiped(name) THEN <<"|">> \o name \o <<"|">> ELSE name

\* escape_char
RECURSIVE Escaped(_)
Escaped(text) ==
  IF text = << >> THEN << >>
  ELSE (CASE text[1] \in {"\\", "\""} -> <<"\\", text[1]>>
          [] text[1] = "\n"           -> <<"\\", "n">>
          [] OTHER                    -> <<text[1]>>) \o Escaped(Tail(text))

SpelledString(text) == <<"\"">> \o Escaped(text) \o <<"\"">>

-----------------------------------------------------------------------------
(* Whether the REPL waits for another line, from the i-th character on.    *)

AfterQuotesSkipping(buf, i) ==   \* seeded fault: that character is not examined
  1 + CHOOSE j \in i + 1..Len(buf) + 1 :
        /\ \A k \in i + 1..j - 1 : buf[k] \in Space \cup {"'"}
        /\ j <= Len(buf) => buf[j] \notin Space \cup {"'"}

\* The first character after the i-th that is no quote and no space.
AfterQuotes(buf, i) ==
  CHOOSE j \in i + 1..Len(buf) + 1 :
    /\ \A k \in i + 1..j - 1 : buf[k] \in Space \cup {"'"}
    /\ j <= Len(buf) => buf[j] \notin Space \cup {"'"}

RECURSIVE CompleteFrom(_, _, _)
CompleteFrom(buf, i, parens) ==
  LET bar  == Find(buf, i + 1, {"|"})
      next == AfterQuotes(buf, i) IN
  IF i > Len(buf) THEN parens = 0
  ELSE CASE buf[i] = "(" -> CompleteFrom(buf, i + 1, parens + 1)
         [] buf[i] = ")" -> CompleteFrom(buf, i + 1, IF parens > 0 THEN parens - 1 ELSE 0)
         [] buf[i] = "|" -> bar <= Len(buf) /\ CompleteFrom(buf, bar + 1, parens)
         [] buf[i] = "'" -> next <= Len(buf) /\ CompleteFrom(buf, next, parens)
         [] OTHER        -> CompleteFrom(buf, i + 1, parens)

Complete(buf) == CompleteFrom(buf, 1, 0)
=============================================================================
