------------------------------ MODULE Patterns ------------------------------
(***************************************************************************)
(* Argument patterns (src/args.c): which argument becomes which parameter, *)
(* and what is evaluated on the way.  Evaluator has the control of the two *)
(* functions; here ev gives the result of sm_eval for every form, and they *)
(* are functions of values.                                                *)
(***************************************************************************)
EXTENDS Values

NoRest == [id |-> "none", eval |-> FALSE, use |-> FALSE]

\* Parameters with ids, evaluated or not, and none for what remains.
Pattern(args, rest) == [args |-> args, rest |-> rest]

\* sm_arg_pattern_validate_spec
ValidSpec(spec) ==
  LET name(v) == v.t = "sym" /\ v.q <= 1 IN
  \/ name(spec)
  \/ /\ Plain(spec)
     /\ \A i \in DOMAIN Items(spec) : name(Items(spec)[i])
     /\ IsDotted(spec) => name(Dot(spec))

\* sm_arg_pattern_from_spec, of a valid one
FromSpec(spec) ==
  LET param(v) == [id |-> v.sym, eval |-> ~IsQuoted(v)]
      rest(v)  == [id |-> v.sym, eval |-> ~IsQuoted(v), use |-> TRUE] IN
  IF spec.t = "sym" THEN Pattern(<< >>, rest(spec))
  ELSE Pattern([i \in DOMAIN Items(spec) |-> param(Items(spec)[i])],
               IF IsDotted(spec) THEN rest(Dot(spec)) ELSE NoRest)

\* The dotted part of the arguments: evaluated, where there are too few others or
\* what remains is evaluated.
DotResult(p, own, dot, ev) ==
  IF ~(Len(own) < Len(p.args) \/ (p.rest.use /\ p.rest.eval)) THEN Ok(dot)
  ELSE IF dot.t # "sym" \/ IsQuoted(dot) THEN Ok(Unquote(dot, 1))
  ELSE ev[dot]

\* As many arguments as the pattern takes, those in the value of the dotted part
\* included.
Counted(p, own, value) ==
  LET more  == IF Plain(value.v) THEN Items(value.v) ELSE << >>
      final == IF Plain(value.v) THEN Dot(value.v) ELSE value.v
      available == Len(own) + Len(more)
  IN [own |-> own, value |-> value.v, more |-> more, final |-> final,
      err |-> CASE ~IsOk(value)              -> value.err
                [] available < Len(p.args)   -> "MissingArguments"
                [] available > Len(p.args) /\ ~p.rest.use -> "ExcessArguments"
                [] ~p.rest.use /\ final # Nil -> "InvalidArgument"
                [] OTHER                     -> "ok"]

\* What both functions do first.
Arguments(p, args, ev) ==
  LET own == IF Plain(args) THEN Items(args) ELSE << >> IN
  Counted(p, own, DotResult(p, own, IF Plain(args) THEN Dot(args) ELSE args, ev))

\* sm_arg_pattern_eval's loop over the arguments: those of the list are evaluated
\* where the pattern says so, those of the dotted part are values already.
Slots(p, a, ev) ==
  [i \in DOMAIN (a.own \o a.more) |->
     IF i > Len(a.own) THEN Ok(a.more[i - Len(a.own)])
     ELSE IF (IF i <= Len(p.args) THEN p.args[i].eval ELSE p.rest.eval) THEN ev[a.own[i]]
     ELSE Ok(a.own[i])]

\* sm_arg_pattern_unpack's loop over the parameters, which may go into the dotted part,
ParamSlots(p, a, ev) ==
  [i \in DOMAIN p.args |->
     IF i > Len(a.own) THEN Ok(a.more[i - Len(a.own)])
     ELSE IF p.args[i].eval THEN ev[a.own[i]] ELSE Ok(a.own[i])]

RestSlotsFromStart(p, a, ev) ==   \* seeded fault: the dotted part is taken from its start again
  LET own == SubSeq(a.own, Len(p.args) + 1, Len(a.own)) IN
  [i \in DOMAIN own |-> IF p.rest.eval THEN ev[own[i]] ELSE Ok(own[i])]
  \o [i \in DOMAIN a.more |-> Ok(a.more[i])]

\* and the one that follows it, over what is left of the list and the dotted part.
RestSlots(p, a, ev) ==
  LET own  == SubSeq(a.own, Len(p.args) + 1, Len(a.own))
      more == IF own # << >> THEN a.more
              ELSE SubSeq(a.more, Len(p.args) - Len(a.own) + 1, Len(a.more)) IN
  [i \in DOMAIN own |-> IF p.rest.eval THEN ev[own[i]] ELSE Ok(own[i])]
  \o [i \in DOMAIN more |-> Ok(more[i])]

ValuesOf(slots) == [i \in DOMAIN slots |-> slots[i].v]

\* The loops stop at the first error.
FirstError(slots) ==
  LET bad == {i \in DOMAIN slots : ~IsOk(slots[i])} IN
  IF bad = {} THEN "ok" ELSE slots[CHOOSE i \in bad : \A j \in bad : i <= j].err

\* The list of the arguments a, which were args.
Listed(p, args, a, slots) ==
  IF ~IsOk(a) THEN Failed(a.err)
  ELSE IF p.args = << >> /\ ~(p.rest.use /\ p.rest.eval) THEN Ok(args)
  ELSE IF p.args = << >> /\ a.own = << >> THEN Ok(a.value)
  ELSE IF FirstError(slots) # "ok" THEN Failed(FirstError(slots))
  ELSE Ok(Build(ValuesOf(slots), a.final))

\* sm_arg_pattern_eval
PatternEval(p, args, ev) ==
  LET a == Arguments(p, args, ev) IN Listed(p, args, a, Slots(p, a, ev))

\* A later parameter of the same name takes its place in the scope.
Scope(bindings) ==
  [x \in {bindings[i].id : i \in DOMAIN bindings} |->
     LET last == CHOOSE i \in DOMAIN bindings :
                   bindings[i].id = x /\ \A j \in DOMAIN bindings : bindings[j].id = x => j <= i
     IN bindings[last].v]

Bind(id, v) == [id |-> id, v |-> v]

\* The variables for the arguments a, the results of the two loops being params
\* and rest.
Unpacked(p, args, a, params, rest) ==
  IF ~IsOk(a) THEN Failed(a.err)
  ELSE IF p.args = << >> /\ ~p.rest.use THEN Ok(Scope(<< >>))
  ELSE IF p.args = << >> /\ ~p.rest.eval THEN Ok(Scope(<<Bind(p.rest.id, args)>>))
  ELSE IF p.args = << >> /\ a.own = << >> THEN Ok(Scope(<<Bind(p.rest.id, a.value)>>))
  ELSE IF FirstError(params \o rest) # "ok" THEN Failed(FirstError(params \o rest))
  ELSE Ok(Scope([i \in DOMAIN params |-> Bind(p.args[i].id, params[i].v)] \o
                IF p.rest.use THEN <<Bind(p.rest.id, Build(ValuesOf(rest), a.final))>> ELSE << >>))

\* sm_arg_pattern_unpack: the new scope.
PatternUnpack(p, args, ev) ==
  LET a == Arguments(p, args, ev) IN
  Unpacked(p, args, a, ParamSlots(p, a, ev), RestSlots(p, a, ev))
=============================================================================
