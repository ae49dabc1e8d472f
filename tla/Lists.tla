------------------------------- MODULE Lists -------------------------------
(***************************************************************************)
(* Lists in memory: cells that values share, and the builtins that make,   *)
(* copy, join and take them apart (src/builtins.c, src/args.c,             *)
(* src/value.c).  A list is [t |-> "cons", q |-> quotes, at |-> cell].     *)
(* The forms are calls (setq r (f x y . z)) whose arguments are variables; *)
(* Patterns has arguments in general.  A call makes new cells at the end.  *)
(* After it those that no variable leads to are dropped and the others     *)
(* numbered anew, as variables lead to them: an address has no meaning.    *)
(***************************************************************************)
EXTENDS Language
LOCAL INSTANCE SequencesExt   \* SetToSeq
LOCAL INSTANCE Functions      \* Range

CONSTANTS Reg,        \* names of variables
          Atoms,      \* their values at the start
          MaxArgs,    \* arguments of a call, the dotted one apart
          MaxCells    \* cells that variables lead to between two calls

VARIABLES cells,   \* the car and cdr of every cell
          reg      \* the values of the variables

listVars == <<cells, reg>>

At(i) == [t |-> "cons", q |-> 0, at |-> i]

\* sm_list_next, sm_list_dot, and the items that a loop sees, in the cells h.
NextAt(h, c) == LET next == h[c.at].cdr IN IF next.t = "cons" /\ ~IsQuoted(next) THEN next ELSE Nil

RECURSIVE ItemsAt(_, _), DotAt(_, _)
ItemsAt(h, c) == IF c.t # "cons" THEN << >> ELSE <<h[c.at].car>> \o ItemsAt(h, NextAt(h, c))
DotAt(h, c)   == IF c.t # "cons" THEN Nil
                 ELSE IF Plain(h[c.at].cdr) THEN DotAt(h, NextAt(h, c))
                 ELSE h[c.at].cdr

\* What a builtin returns, with the cells as it leaves them.
Returns(h, v) == [err |-> "ok", h |-> h, v |-> v]
Fails(e)      == [err |-> e, h |-> << >>, v |-> Nil]

\* New cells for the items of a list that ends in tail.
NewList(h, items, tail) ==
  LET n == Len(items)
      new(k) == [car |-> items[k], cdr |-> IF k < n THEN At(Len(h) + k + 1) ELSE tail] IN
  Returns(h \o [k \in 1..n |-> new(k)], IF n = 0 THEN tail ELSE At(Len(h) + 1))

CopyListProper(h, c) == NewList(h, ItemsAt(h, c), Nil)   \* seeded fault: forgets the dotted end

\* sm_list_copy
CopyList(h, c) == NewList(h, ItemsAt(h, c), DotAt(h, c))

-----------------------------------------------------------------------------
(* The calls: own are the names of the arguments, tail that of the dotted  *)
(* one, or "none".                                                         *)

ValuesIn(own) == [i \in DOMAIN own |-> reg[own[i]]]

\* sm_arg_pattern_eval: count parameters, and the rest if there may be more, all
\* evaluated.  A list of arguments that is only a dotted part is, where the
\* pattern has no parameters, its value as it is, and shared.
Gather(h, count, more, own, tail) ==
  LET value   == IF tail = "none" THEN Nil
                 ELSE IF Len(own) < count \/ more THEN reg[tail] ELSE Sym(tail)
      dotted  == IF Plain(value) THEN ItemsAt(h, value) ELSE << >>
      final   == IF Plain(value) THEN DotAt(h, value) ELSE value
      n       == Len(own) + Len(dotted) IN
  IF n < count THEN Fails("MissingArguments")
  ELSE IF n > count /\ ~more THEN Fails("ExcessArguments")
  ELSE IF ~more /\ final # Nil THEN Fails("InvalidArgument")
  ELSE IF own = << >> /\ count = 0 THEN Returns(h, value)
  ELSE NewList(h, ValuesIn(own) \o dotted, final)

\* list
ListOf(h, own, tail) == Gather(h, 0, TRUE, own, tail)

\* The last cell but one of the list that starts at c.
RECURSIVE Penultimate(_, _)
Penultimate(h, c) == IF NextAt(h, NextAt(h, c)) = Nil THEN c ELSE Penultimate(h, NextAt(h, c))

\* list* links the last argument into the list of the arguments.
LinkLast(r) ==
  IF ~IsOk(r) THEN r
  ELSE IF NextAt(r.h, r.v) = Nil THEN [r EXCEPT !.v = r.h[@.at].car]
  ELSE LET c == Penultimate(r.h, r.v) IN
       [r EXCEPT !.h[c.at].cdr = r.h[NextAt(r.h, c).at].car]

ListDotOfRest(h, own, tail) ==   \* seeded fault: the pattern has no parameter, as that of list
  LET r == Gather(h, 0, TRUE, own, tail) IN
  IF IsOk(r) /\ r.v.t # "cons" THEN Fails("MissingArguments") ELSE LinkLast(r)

ListDotOf(h, own, tail) == LinkLast(Gather(h, 1, TRUE, own, tail))

\* cons: the second argument becomes the cdr of the first cell.
PairOf(h, own, tail) ==
  LET r == Gather(h, 2, FALSE, own, tail) IN
  IF ~IsOk(r) THEN r ELSE [r EXCEPT !.h[r.v.at].cdr = r.h[NextAt(r.h, r.v).at].car]

\* The end of the list that starts at c, where append goes on.
RECURSIVE LastAt(_, _)
LastAt(h, c) == IF NextAt(h, c) = Nil THEN c ELSE LastAt(h, NextAt(h, c))

\* The loop of append.  Its slot is *ret, when last is nil, or the cdr of the
\* cell last; first is *ret, and value what the slot holds.
RECURSIVE AppendLoop(_, _, _, _, _)

Put(h, last, v) == IF last = Nil THEN h ELSE [h EXCEPT ![last.at].cdr = v]

\* A list in the slot is copied, and the slot is the end of the copy.
AppendAfter(first, last, copy, rest) ==
  AppendLoop(Put(copy.h, last, copy.v),
             IF last = Nil THEN copy.v ELSE first,
             IF Plain(copy.v) /\ copy.v # Nil THEN LastAt(copy.h, copy.v) ELSE last, Nil, rest)

AppendLoop(h, first, last, value, rest) ==
  IF rest = << >> THEN Returns(Put(h, last, value), IF last = Nil THEN value ELSE first)
  ELSE IF value = Nil THEN AppendLoop(h, first, last, Head(rest), Tail(rest))
  ELSE IF last = Nil /\ (value.t # "cons" \/ IsQuoted(value)) THEN Fails("InvalidArgument")
  ELSE IF ~IsList(value) THEN Fails("undefined")
  ELSE AppendAfter(first, last, CopyList(h, value), rest)

AppendOf(h, own, tail) ==
  IF tail # "none" THEN Fails("InvalidArgument") ELSE AppendLoop(h, Nil, Nil, Nil, ValuesIn(own))

\* copy gives a list without its quotes, and anything else as it is.
CopyOf(h, v) == IF v.t = "cons" THEN CopyList(h, v) ELSE Returns(h, v)

CarAt(h, v) == IF IsQuoted(v) THEN Returns(h, Sym("quote"))
               ELSE IF ~IsList(v) THEN Fails("InvalidArgument")
               ELSE Returns(h, IF v = Nil THEN Nil ELSE h[v.at].car)

CdrAt(h, v) == IF IsQuoted(v) THEN NewList(h, <<Unquote(v, 1)>>, Nil)
               ELSE IF ~IsList(v) THEN Fails("InvalidArgument")
               ELSE Returns(h, IF v = Nil THEN Nil ELSE h[v.at].cdr)

AddQuoteTo(h, v) == IF v.q = MaxQuotes THEN Fails("Generic") ELSE Returns(h, Quote(v, 1))

-----------------------------------------------------------------------------
OwnArgs  == UNION {[1..n -> Reg] : n \in 0..MaxArgs}
TailArgs == Reg \cup {"none"}

\* The cells that the values vs lead to, as they are met, after those found before.
RECURSIVE CellsFrom(_, _, _)
CellsFrom(h, vs, found) ==
  IF vs = << >> THEN found
  ELSE IF Head(vs).t # "cons" \/ Head(vs).at \in Range(found) THEN CellsFrom(h, Tail(vs), found)
  ELSE LET i == Head(vs).at IN
       CellsFrom(h, <<h[i].car, h[i].cdr>> \o Tail(vs), Append(found, i))

\* The variables in some order.
Names == SetToSeq(Reg)

\* (setq r call), when the call does not fail.  It leaves garbage: the last cell of
\* the arguments of cons and list*, and the cells that only r led to.
Assign(r, result) ==
  /\ IsOk(result)
  /\ LET rs == [reg EXCEPT ![r] = result.v] IN
     \E live \in {CellsFrom(result.h, [i \in DOMAIN Names |-> rs[Names[i]]], << >>)} :
       LET new(i)   == CHOOSE n \in DOMAIN live : live[n] = i
           moved(v) == IF v.t = "cons" THEN [v EXCEPT !.at = new(@)] ELSE v
           cell(c)  == [car |-> moved(c.car), cdr |-> moved(c.cdr)] IN
       /\ Len(live) <= MaxCells
       /\ cells' = [n \in DOMAIN live |-> cell(result.h[live[n]])]
       /\ reg' = [x \in Reg |-> moved(rs[x])]

Calls(Op(_, _, _)) ==
  \E own \in OwnArgs, tail \in TailArgs :
    \E result \in {Op(cells, own, tail)}, r \in Reg : Assign(r, result)

CallsOnOne(Op(_, _)) ==
  \E x, r \in Reg : Assign(r, Op(cells, reg[x]))

DoList     == Calls(ListOf)
DoListDot  == Calls(ListDotOf)
DoCons     == Calls(PairOf)
DoAppend   == Calls(AppendOf)
DoCopy     == CallsOnOne(CopyOf)
DoCar      == CallsOnOne(CarAt)
DoCdr      == CallsOnOne(CdrAt)
DoAddQuote == CallsOnOne(AddQuoteTo)

ListsInit == cells = << >> /\ reg \in [Reg -> Atoms]

ListsNext == DoList \/ DoListDot \/ DoCons \/ DoAppend \/ DoCopy \/ DoCar \/ DoCdr \/ DoAddQuote

-----------------------------------------------------------------------------
(* Properties                                                              *)

\* The value that a variable holds, without the cells.
RECURSIVE Tree(_, _)
Tree(h, v) == IF v.t # "cons" THEN v
              ELSE Quote(Cell(Tree(h, h[v.at].car), Tree(h, h[v.at].cdr)), v.q)

\* A call changes what no variable holds but the one it is assigned to: list*,
\* cons and append write cdrs only of the cells that they have just made, though a
\* list that list has returned, or a dotted argument, may be shared with any
\* variable.
ListsKept ==
  [][\E r \in Reg : \A x \in Reg \ {r} : Tree(cells', reg'[x]) = Tree(cells, reg[x])]_listVars

\* The builtins on cells do, whatever the cells share, what they do on values:
\* the same result, the same error, and undefined for the same arguments.
Agrees(expected, result) ==
  /\ result.err = expected.err
  /\ IsOk(result) => Tree(result.h, result.v) = expected.v

BuiltinsAgree ==
  LET env == [x \in Reg |-> Tree(cells, reg[x])]
      args(own, tail) == Build([i \in DOMAIN own |-> Sym(own[i])],
                               IF tail = "none" THEN Nil ELSE Sym(tail))
      agree(own, tail, results) ==
        \A f \in DOMAIN results : Agrees(Eval(Cell(Sym(f), args(own, tail)), env), results[f]) IN
  /\ \A own \in OwnArgs, tail \in TailArgs :
       agree(own, tail, ("list"   :> ListOf(cells, own, tail)) @@
                        ("list*"  :> ListDotOf(cells, own, tail)) @@
                        ("cons"   :> PairOf(cells, own, tail)) @@
                        ("append" :> AppendOf(cells, own, tail)))
  /\ \A x \in Reg :
       agree(<<x>>, "none", ("copy" :> CopyOf(cells, reg[x])) @@
                            ("car"  :> CarAt(cells, reg[x])) @@
                            ("cdr"  :> CdrAt(cells, reg[x])) @@
                            ("add-quote" :> AddQuoteTo(cells, reg[x])))
=============================================================================
