------------------------------- MODULE Values -------------------------------
(***************************************************************************)
(* The values of the language (src/include/value.h, src/value.c) as trees: *)
(* what lists, quotes, copies and printing mean where nothing is shared.   *)
(* Lists has the cells.  A value is a record with its type t, its number   *)
(* of quotes q and a payload, which has a different name for each type.    *)
(***************************************************************************)
EXTENDS Integers, Sequences
LOCAL INSTANCE SequencesExt   \* FlattenSeq

CONSTANT MaxQuotes   \* UINT8_MAX

ASSUME QuotesAssumption == MaxQuotes \in Nat \ {0}

Nil        == [t |-> "nil", q |-> 0]
Num(n)     == [t |-> "num", q |-> 0, num |-> n]
Sym(s)     == [t |-> "sym", q |-> 0, sym |-> s]
Str(s)     == [t |-> "str", q |-> 0, str |-> s]
Cell(a, b) == [t |-> "cons", q |-> 0, car |-> a, cdr |-> b]
Fun(f)     == [t |-> "fun", q |-> 0, fun |-> f]

IsQuoted(v) == v.q # 0
IsList(v)   == v.t \in {"nil", "cons"}

\* A list, or its end, that goes on where it stands.
Plain(v) == IsList(v) /\ ~IsQuoted(v)

\* value.quotes is a uint8_t.
Quote(v, n)   == [v EXCEPT !.q = (@ + n) % (MaxQuotes + 1)]
Unquote(v, n) == [v EXCEPT !.q = @ - (IF n < @ THEN n ELSE @)]

\* sm_list_next, with nil for NULL.
SmListNext(c) == IF c.cdr.t = "cons" /\ ~IsQuoted(c.cdr) THEN c.cdr ELSE Nil

\* What a loop over a list finds: the items from the cell c on, whatever the
\* quotes of the value that led to it.
RECURSIVE Items(_)
Items(c) == IF c.t # "cons" THEN << >> ELSE <<c.car>> \o Items(SmListNext(c))

RECURSIVE Dot(_)
Dot(c) == IF c.t # "cons" THEN Nil
          ELSE IF Plain(c.cdr) THEN Dot(SmListNext(c))
          ELSE c.cdr

IsDotted(c) == Dot(c) # Nil

\* sm_build_list: SmBuildCar for every item, then SmBuildCdr, or SmBuildEnd for nil.
RECURSIVE Build(_, _)
Build(items, tail) == IF items = << >> THEN tail
                      ELSE Cell(Head(items), Build(Tail(items), tail))

List(items) == Build(items, Nil)

\* sm_list_copy
Copy(c) == Build(Items(c), Dot(c))

\* What a function that can fail returns.
Ok(v)     == [err |-> "ok", v |-> v]
Failed(e) == [err |-> e, v |-> Nil]
IsOk(r)   == r.err = "ok"

-----------------------------------------------------------------------------
(* Printing, to tokens: a mark has only its kind, an atom stands for itself.*)

Mark(m) == [kind |-> m]
Atom(v) == [kind |-> IF v.t = "str" THEN "String" ELSE "Atom", atom |-> v]

RECURSIVE Printed(_), PrintedItems(_)

PrintedQuotes(n) == [i \in 1..n |-> Mark("Quote")]

PrintedItemsOnlyAtomsDotted(c) ==   \* seeded fault: a quoted list is no dotted tail
  Printed(c.car) \o
  (IF IsList(c.cdr) THEN << >> ELSE <<Mark("Dot")>> \o Printed(c.cdr)) \o
  (IF SmListNext(c) = Nil THEN << >> ELSE PrintedItems(SmListNext(c)))

PrintedItems(c) ==
  Printed(c.car) \o
  (IF Plain(c.cdr) THEN << >> ELSE <<Mark("Dot")>> \o Printed(c.cdr)) \o
  (IF SmListNext(c) = Nil THEN << >> ELSE PrintedItems(SmListNext(c)))

\* A parameter that is not evaluated is printed with a quote.
PrintedParam(p) == Printed(Quote(Sym(p.id), IF p.eval THEN 0 ELSE 1))

\* The pattern of a function as the list, or the symbol, it was made from.
PrintedPattern(p) ==
  LET listed == p.args # << >> \/ ~p.rest.use IN
  (IF listed THEN <<Mark("LParen")>> ELSE << >>) \o
  FlattenSeq([i \in DOMAIN p.args |-> PrintedParam(p.args[i])]) \o
  (IF p.args # << >> /\ p.rest.use THEN <<Mark("Dot")>> ELSE << >>) \o
  (IF p.rest.use THEN PrintedParam(p.rest) ELSE << >>) \o
  (IF listed THEN <<Mark("RParen")>> ELSE << >>)

Printed(v) ==
  PrintedQuotes(v.q) \o
  (IF v.t = "nil" THEN <<Atom(Sym("nil"))>>
   ELSE IF v.t = "cons" THEN <<Mark("LParen")>> \o PrintedItems(v) \o <<Mark("RParen")>>
   ELSE IF v.t = "fun"
   THEN <<Mark("LParen"), Atom(Sym(IF v.fun.macro THEN "macro" ELSE "lambda"))>> \o
        PrintedPattern(v.fun.pattern) \o
        FlattenSeq([i \in DOMAIN Items(v.fun.progn) |-> Printed(Items(v.fun.progn)[i])]) \o <<Mark("RParen")>>
   ELSE <<Atom(Unquote(v, v.q))>>)
=============================================================================
