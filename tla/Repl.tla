-------------------------------- MODULE Repl --------------------------------
(***************************************************************************)
(* The interactive session (src/main.c): reading lines into a buffer until *)
(* its text is complete, then evaluating it.  The input is a sequence of   *)
(* lines [len, complete]: their length, newline included, and whether the  *)
(* text is complete where the line ends (Lexer has the test).  A step is a *)
(* call of fgets or what is between two of them.                           *)
(***************************************************************************)
EXTENDS Integers, Sequences

CONSTANTS LineBuf,      \* buf_size, 256 in the code
          LineLengths,  \* lengths of lines
          MaxLines      \* lines before the end of the input

ASSUME ReplAssumption ==
  /\ LineBuf \in Nat /\ LineBuf >= 2
  /\ LineLengths \subseteq Nat \ {0}
  /\ MaxLines \in Nat

VARIABLES lines,    \* the input
          line,     \* the first line that has not been read to its end
          taken,    \* characters read of it
          length,   \* characters in the buffer
          over,     \* the last line in the buffer is whole, and the text complete
          phase,    \* "start", "more", "eval", or "exit" from the session
          seen      \* lengths of the texts that were evaluated

replVars == <<lines, line, taken, length, over, phase, seen>>

Line == [len : LineLengths, complete : BOOLEAN]

ReplInit ==
  /\ lines \in UNION {[1..n -> Line] : n \in 0..MaxLines}
  /\ line = 1 /\ taken = 0 /\ length = 0 /\ over = FALSE
  /\ phase = "start" /\ seen = << >>

AtEnd == line > Len(lines)

\* fgets(buf + length, size, stdin), not at the end of the input: up to a newline,
\* or size - 1 characters.
Fgets(size) ==
  LET left == lines[line].len - taken
      n == IF left <= size - 1 THEN left ELSE size - 1 IN
  /\ length' = length + n
  /\ line'   = IF n = left THEN line + 1 ELSE line
  /\ taken'  = IF n = left THEN 0 ELSE taken + n
  /\ over'   = (n = left /\ lines[line].complete)

\* The first read of a text goes into a new buffer.
ReadFirst ==
  /\ phase = "start" /\ ~AtEnd
  /\ Fgets(LineBuf)
  /\ phase' = "more"
  /\ UNCHANGED <<lines, seen>>

EndOfInput ==
  /\ phase = "start" /\ AtEnd
  /\ phase' = "exit"
  /\ UNCHANGED <<lines, line, taken, length, over, seen>>

\* The buffer is made larger where length = LineBuf, but a text that fills it is
\* one character shorter.
Size == IF length = LineBuf THEN 2 * LineBuf ELSE LineBuf

ReadMore ==
  /\ phase = "more" /\ ~over /\ ~AtEnd /\ Size - length > 1
  /\ Fgets(Size - length)
  /\ UNCHANGED <<lines, phase, seen>>

\* With room for the end of a string alone, fgets succeeds with an empty one: it
\* reads nothing, and does not notice the end of the input either.
ReadNothing ==
  /\ phase = "more" /\ ~over /\ Size - length = 1
  /\ UNCHANGED replVars

ReadAgain ==   \* seeded fault: the end of the input does not end the loop
  phase = "more" /\ ~over /\ AtEnd /\ UNCHANGED replVars

\* break, at the end of the input: what has been read is evaluated all the same.
Truncate ==
  /\ phase = "more" /\ ~over /\ AtEnd /\ Size - length > 1
  /\ phase' = "eval"
  /\ UNCHANGED <<lines, line, taken, length, over, seen>>

TextRead ==
  /\ phase = "more" /\ over
  /\ phase' = "eval"
  /\ UNCHANGED <<lines, line, taken, length, over, seen>>

\* sm_parser_parse_all and sm_eval of the forms; an error ends the session.
Evaluate ==
  /\ phase = "eval"
  /\ phase' \in {"start", "exit"}
  /\ seen' = Append(seen, length)
  /\ length' = 0 /\ over' = FALSE
  /\ UNCHANGED <<lines, line, taken>>

ReplNext == ReadFirst \/ EndOfInput \/ ReadMore \/ ReadNothing \/ Truncate \/ TextRead \/ Evaluate

ReplSpec == ReplInit /\ [][ReplNext]_replVars /\ WF_replVars(ReplNext)

-----------------------------------------------------------------------------
(* Properties                                                              *)

\* Texts are the lengths of those that are whole, and what there is of the next.
WithLine(texts, l) ==
  LET n == texts.begun + l.len
  IN IF l.complete THEN [whole |-> Append(texts.whole, n), begun |-> 0]
     ELSE [texts EXCEPT !.begun = n]

\* The texts in the first i lines.
TextsUpTo[i \in 0..Len(lines)] ==
  IF i = 0 THEN [whole |-> << >>, begun |-> 0] ELSE WithLine(TextsUpTo[i - 1], lines[i])

\* The texts in the input: each ends with a complete line, or the input.
Texts == LET all == TextsUpTo[Len(lines)]
         IN IF all.begun = 0 THEN all.whole ELSE Append(all.whole, all.begun)

\* What is evaluated are the texts of the input, each whole, one after the other,
\* and each fits in the buffer with the character that ends it.
EvaluatesTexts ==
  /\ seen = SubSeq(Texts, 1, Len(seen))
  /\ \A i \in DOMAIN seen : seen[i] <= LineBuf - 1

\* The texts of the input fit: each leaves room for the character that ends it, and
\* what the end of the input cuts off leaves room for one more, without which
\* fgets does not find that the input has ended.
TextsFit ==
  LET all == TextsUpTo[Len(lines)]
  IN (\A i \in DOMAIN all.whole : all.whole[i] <= LineBuf - 1) /\ all.begun <= LineBuf - 2

\* And where they fit, the session comes to its end.  No more can be promised: a
\* longer text is never evaluated, as the buffer does not grow and fgets returns
\* an empty string for ever.
LinesRead == []EvaluatesTexts /\ (TextsFit => <>(phase = "exit"))
=============================================================================
