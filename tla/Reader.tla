------------------------------- MODULE Reader -------------------------------
(***************************************************************************)
(* The recursive descent of src/parser.c, over tokens.  A token is a mark, *)
(* an atom (a number or a symbol), a string, "Truncated" for a string or a *)
(* symbol without its end, or "Invalid" for a string that cannot be read;  *)
(* Lexer has the characters.  A result is an outcome, the form, the tokens *)
(* that remain, and                                                        *)
(*   ended   an error was reported where the text ended, so that more text *)
(*           could have prevented it                                       *)
(* The forms of the parser are not shared, so the cells that               *)
(* build_template rewrites in place are values here.                       *)
(***************************************************************************)
EXTENDS Values

\* The marks of , and ,@ in a form: symbols whose address no other symbol has.
Comma  == [t |-> "sym", q |-> 0, mark |-> "comma"]
Splice == [t |-> "sym", q |-> 0, mark |-> "splice"]

Read(v, rest)  == [err |-> "ok", v |-> v, rest |-> rest, ended |-> FALSE]
Reject(e, end) == [err |-> e, v |-> Nil, rest |-> << >>, ended |-> end]

Kind(toks) == IF toks = << >> THEN "End" ELSE Head(toks).kind

RECURSIVE BuildTemplate(_), TemplateItems(_, _, _)

Call1(f, arg) == List(<<Sym(f), arg>>)

IsMarked(v, mark) == v.t = "cons" /\ v.car = mark

\* A template whose quotes are gone.
TemplateList(form) ==
  IF form.car = Comma THEN Ok(form.cdr)
  ELSE IF form.car = Splice THEN Failed("SyntaxError")
  ELSE TemplateItems("list", << >>, form)

\* One add-quote around the template for every quote of a list.
RECURSIVE AddQuotes(_, _)
AddQuotes(n, r) ==
  IF n = 0 \/ ~IsOk(r) THEN r ELSE AddQuotes(n - 1, Ok(Call1("add-quote", r.v)))

BuildTemplate(form) ==
  IF form.t # "cons"
  THEN IF form.q = MaxQuotes THEN Failed("Generic") ELSE Ok(Quote(form, 1))
  ELSE AddQuotes(form.q, TemplateList(Unquote(form, form.q)))

SpliceUnwrapped(op, args, cell) ==   \* seeded fault: the items before the splice are appended bare
  TemplateItems("append", args \o <<cell.car.cdr>>, List(<<cell.cdr>>))

\* A splice with something after it: append what came before as a list, its
\* own value, and the rest, which becomes the last argument.
SpliceMiddle(op, args, cell) ==
  TemplateItems("append",
                (IF args = << >> THEN << >> ELSE <<Cell(Sym(op), List(args))>>) \o <<cell.car.cdr>>,
                List(<<cell.cdr>>))

\* The loop over the cells of a list template: op is prefix->car, args what the
\* loop has left behind, and cell what it has yet to see, or what follows the dot.
TemplateItems(op, args, cell) ==
  IF cell.t # "cons" \/ IsQuoted(cell) THEN Ok(Cell(Sym(op), Build(args, cell)))
  ELSE LET item == cell.car IN
  IF item = Comma THEN Ok(Cell(Sym("list*"), List(Append(args, cell.cdr))))
  ELSE IF item = Splice THEN Failed("SyntaxError")
  ELSE IF IsMarked(item, Comma) /\ ~IsQuoted(item)
  THEN TemplateItems(op, Append(args, item.cdr), cell.cdr)
  ELSE IF IsMarked(item, Splice) /\ ~IsQuoted(item)
  THEN IF cell.cdr = Nil THEN Ok(Cell(Sym("list*"), List(Append(args, item.cdr))))
       ELSE SpliceMiddle(op, args, cell)
  ELSE LET inner == BuildTemplate(item) IN
       IF ~IsOk(inner) THEN inner
       ELSE IF Plain(cell.cdr) THEN TemplateItems(op, Append(args, inner.v), cell.cdr)
       ELSE IF IsMarked(cell.cdr, Splice) THEN Failed("SyntaxError")
       ELSE TemplateItems("list*", Append(args, inner.v), List(<<cell.cdr>>))

-----------------------------------------------------------------------------
RECURSIVE ParseForm(_), ParseItems(_, _)

\* sm_parser_parse_form.  The quotes read before a form replace those it has.
QuoteForm(quotes, r) ==
  IF r.err = "ok" THEN [r EXCEPT !.v.q = quotes] ELSE r

Quotes(toks) ==
  CHOOSE n \in 0..Len(toks) :
    /\ \A i \in 1..n : toks[i].kind = "Quote"
    /\ n < Len(toks) => toks[n + 1].kind # "Quote"

ParseMarked(mark, rest) ==
  LET r == ParseForm(rest) IN IF r.err = "ok" THEN [r EXCEPT !.v = Cell(mark, @)] ELSE r

ParseTemplate(rest) ==
  LET r == ParseForm(rest)
      t == BuildTemplate(r.v) IN
  IF r.err # "ok" THEN r ELSE IF IsOk(t) THEN [r EXCEPT !.v = t.v] ELSE Reject(t.err, FALSE)

ParseList(rest) ==
  IF Kind(rest) = "RParen" THEN Read(Nil, Tail(rest))
  ELSE IF rest = << >> THEN Reject("SyntaxError", TRUE)
  ELSE LET r == ParseItems(<< >>, rest) IN
       IF r.err # "ok" THEN r
       ELSE IF Kind(r.rest) = "RParen" THEN [r EXCEPT !.rest = Tail(@)]
       ELSE Reject("SyntaxError", r.rest = << >>)

\* The items of a list up to its right parenthesis or the end of the text.
ParseItems(items, toks) ==
  LET r == ParseForm(toks)
      all == Append(items, r.v)
      dotted == Tail(r.rest)
      tail == ParseForm(dotted) IN
  IF r.err # "ok" THEN r
  ELSE IF Kind(r.rest) = "Dot"
  THEN IF Kind(dotted) \notin {"Atom", "LParen", "Quote", "Backquote", "Comma"}
       THEN Reject("SyntaxError", dotted = << >>)
       ELSE IF tail.err = "ok" THEN Read(Build(all, tail.v), tail.rest) ELSE tail
  ELSE IF Kind(r.rest) \in {"RParen", "End"} THEN Read(List(all), r.rest)
  ELSE ParseItems(all, r.rest)

ParseForm(toks) ==
  LET quotes == Quotes(toks)
      kind == Kind(SubSeq(toks, quotes + 1, Len(toks)))
      rest == SubSeq(toks, quotes + 2, Len(toks)) IN
  IF quotes > MaxQuotes THEN Reject("Generic", FALSE)
  ELSE LET r ==
    CASE kind = "End"       -> IF quotes > 0 THEN Reject("SyntaxError", TRUE) ELSE Read(Nil, << >>)
      [] kind = "Backquote"   -> ParseTemplate(rest)
      [] kind = "Comma"       -> ParseMarked(Comma, rest)
      [] kind = "Splice"      -> ParseMarked(Splice, rest)
      [] kind \in {"Atom", "String"} -> Read(toks[quotes + 1].atom, rest)
      [] kind = "LParen"      -> ParseList(rest)
      [] kind = "Truncated"   -> Reject("LexicalError", TRUE)
      [] kind = "Invalid"     -> Reject("InvalidLiteral", FALSE)
      [] kind \in {"RParen", "Dot"} -> Reject("SyntaxError", FALSE)
  IN IF MaxQuotes - r.v.q < quotes THEN Reject("Generic", FALSE) ELSE QuoteForm(quotes, r)

\* sm_parser_parse_all: every form of the text, as a list.
RECURSIVE ParseFrom(_, _)
ParseFrom(forms, toks) ==
  IF toks = << >> THEN Read(List(forms), << >>)
  ELSE LET r == ParseForm(toks) IN
       IF r.err = "ok" THEN ParseFrom(Append(forms, r.v), r.rest) ELSE r

ParseAll(toks) == ParseFrom(<< >>, toks)
=============================================================================
