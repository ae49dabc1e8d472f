------------------------------ MODULE Language ------------------------------
(***************************************************************************)
(* What forms evaluate to (src/eval.c, src/function.c, src/builtins.c),    *)
(* for the functional part of the language: no variable is set, so a scope *)
(* is the function from the names it sees to their values.  Evaluator has  *)
(* the control of the same functions, Lists the cells that they share.     *)
(***************************************************************************)
EXTENDS Patterns, Numbers, TLC

External == {"quote", "eval", "cons", "list", "list*", "lambda", "add-quote", "copy",
             "append", "car", "cdr", "+", "-", "*", "/", "=", "!=", "<", "<=", ">", ">="}

\* Symbols that evaluate to themselves.
Keywords == {":true"}

\* Two parameters, none, or one and the rest; all evaluated.
Evaluated(id) == [id |-> id, eval |-> TRUE]
AllRest       == [id |-> "rest", eval |-> TRUE, use |-> TRUE]
PairPattern   == Pattern(<<Evaluated("x"), Evaluated("y")>>, NoRest)
AnyPattern    == Pattern(<< >>, AllRest)
SomePattern   == Pattern(<<Evaluated("x")>>, AllRest)

Accessors2Swapped ==   \* seeded fault: the order of application is mixed up
  [caar |-> <<"car", "car">>, cadr |-> <<"cdr", "car">>,
   cdar |-> <<"car", "cdr">>, cddr |-> <<"cdr", "cdr">>]

\* The lambdas behind caar to cddddr: which functions they apply, outermost first.
Accessors2 ==
  [caar |-> <<"car", "car">>, cadr |-> <<"car", "cdr">>,
   cdar |-> <<"cdr", "car">>, cddr |-> <<"cdr", "cdr">>]

Accessors3a ==
  [caaar |-> <<"car", "car", "car">>, caadr |-> <<"car", "car", "cdr">>,
   cadar |-> <<"car", "cdr", "car">>, cdaar |-> <<"cdr", "car", "car">>]
Accessors3d ==
  [caddr |-> <<"car", "cdr", "cdr">>, cddar |-> <<"cdr", "cdr", "car">>,
   cdadr |-> <<"cdr", "car", "cdr">>, cdddr |-> <<"cdr", "cdr", "cdr">>]

Accessors4a ==
  [caaaar |-> <<"car", "car", "car", "car">>, caaadr |-> <<"car", "car", "car", "cdr">>,
   caadar |-> <<"car", "car", "cdr", "car">>, cadaar |-> <<"car", "cdr", "car", "car">>]
Accessors4b ==
  [cdaaar |-> <<"cdr", "car", "car", "car">>, caaddr |-> <<"car", "car", "cdr", "cdr">>,
   caddar |-> <<"car", "cdr", "cdr", "car">>, cddaar |-> <<"cdr", "cdr", "car", "car">>]
Accessors4c ==
  [cadadr |-> <<"car", "cdr", "car", "cdr">>, cdadar |-> <<"cdr", "car", "cdr", "car">>,
   cdaadr |-> <<"cdr", "car", "car", "cdr">>, cadddr |-> <<"car", "cdr", "cdr", "cdr">>]
Accessors4d ==
  [cdaddr |-> <<"cdr", "car", "cdr", "cdr">>, cddadr |-> <<"cdr", "cdr", "car", "cdr">>,
   cdddar |-> <<"cdr", "cdr", "cdr", "car">>, cddddr |-> <<"cdr", "cdr", "cdr", "cdr">>]

Accessors == Accessors2 @@ Accessors3a @@ Accessors3d
             @@ Accessors4a @@ Accessors4b @@ Accessors4c @@ Accessors4d

RECURSIVE Nested(_, _)
Nested(path, form) ==
  IF path = << >> THEN form ELSE List(<<Sym(Head(path)), Nested(Tail(path), form)>>)

\* A function whose parent scope is capture; of no scope, for the accessors.
Lambda(pattern, capture, progn) ==
  Fun([macro |-> FALSE, pattern |-> pattern, capture |-> capture, progn |-> progn])

Accessor(name) ==
  Lambda(FromSpec(List(<<Sym("lst")>>)), << >>, List(<<Nested(Accessors[name], Sym("lst"))>>))

\* An external function named where a value is wanted becomes
\* (lambda 'args (eval (cons 'name args))) in the current scope.
Wrapper(name, env) ==
  Lambda(FromSpec(Quote(Sym("args"), 1)), env,
         List(<<List(<<Sym("eval"),
                       List(<<Sym("cons"), Quote(Sym(name), 1), Sym("args")>>)>>)>>))

\* A symbol, but for the marks that templates leave in forms.
HasName(v) == "sym" \in DOMAIN v

Lookup(name, env) ==
  IF name \in Keywords THEN Ok(Sym(name))
  ELSE IF name = "nil" THEN Ok(Nil)
  ELSE IF name \in DOMAIN Accessors THEN Ok(Accessor(name))
  ELSE IF name \in External THEN Ok(Wrapper(name, env))
  ELSE IF name \in DOMAIN env THEN Ok(env[name])
  ELSE Failed("UndefinedVariable")

\* The checks of the builtins of one argument.
One(args) ==
  IF ~Plain(args) THEN Failed("InvalidArgument")
  ELSE IF args = Nil THEN Failed("MissingArguments")
  ELSE IF ~Plain(args.cdr) THEN Failed("InvalidArgument")
  ELSE IF args.cdr # Nil THEN Failed("ExcessArguments")
  ELSE Ok(args.car)

CarOf(v) == IF IsQuoted(v) THEN Ok(Sym("quote"))
            ELSE IF ~IsList(v) THEN Failed("InvalidArgument")
            ELSE Ok(IF v = Nil THEN Nil ELSE v.car)

CdrOf(v) == IF IsQuoted(v) THEN Ok(List(<<Unquote(v, 1)>>))
            ELSE IF ~IsList(v) THEN Failed("InvalidArgument")
            ELSE Ok(IF v = Nil THEN Nil ELSE v.cdr)

AddQuote(v) == IF v.q = MaxQuotes THEN Failed("Generic") ELSE Ok(Quote(v, 1))

\* The second of exactly two becomes the cdr.
ConsOf(v) == Ok([v EXCEPT !.cdr = v.cdr.car])

\* The last argument becomes the final cdr; what follows a dot is lost.
ListDot(v) ==
  LET items == Items(v) IN
  Ok(Build(SubSeq(items, 1, Len(items) - 1), items[Len(items)]))

\* append, with the items copied so far, what it has put after them, and the
\* results its other arguments will have.  Only the first list is tested: to
\* copy another that is none is undefined.
RECURSIVE AppendFrom(_, _, _)
AppendFrom(items, slot, results) ==
  IF results = << >> THEN Ok(Build(items, slot))
  ELSE IF slot = Nil
  THEN IF IsOk(Head(results)) THEN AppendFrom(items, Head(results).v, Tail(results)) ELSE Head(results)
  ELSE IF items = << >> /\ (slot.t # "cons" \/ IsQuoted(slot)) THEN Failed("InvalidArgument")
  ELSE IF ~IsList(slot) THEN Failed("undefined")
  ELSE AppendFrom(items \o Items(slot), Nil, results)

\* What the builtins that take their arguments by a pattern do with the list of them.
PatternOf ==
  [f \in {"list", "+", "*"} |-> AnyPattern] @@ [f \in {"list*", "-", "/"} |-> SomePattern]
  @@ [f \in {"cons", "=", "!=", "<", "<=", ">", ">="} |-> PairPattern]

OfList(f, v) ==
  CASE f = "cons"  -> ConsOf(v)
    [] f = "list"  -> Ok(v)
    [] f = "list*" -> ListDot(v)
    [] f = "+"     -> Add(v)
    [] f = "*"     -> Mul(v)
    [] f = "-"     -> Sub(v)
    [] f = "/"     -> Div(v)
    [] f = "="     -> Eq(v)
    [] f = "!="    -> Neq(v)
    [] f = "<"     -> Lt(v)
    [] f = "<="    -> LtEq(v)
    [] f = ">"     -> Gt(v)
    [] f = ">="    -> GtEq(v)

\* What those of one argument do with its value.
OfOne(f, v) ==
  CASE f = "add-quote" -> AddQuote(v)
    [] f = "copy"      -> Ok(IF v.t = "cons" THEN Copy(v) ELSE v)
    [] f = "car"       -> CarOf(v)
    [] f = "cdr"       -> CdrOf(v)

SmLambda(args, env) ==
  IF args.t = "nil" THEN Failed("MissingArguments")
  ELSE IF args.t # "cons" \/ IsDotted(args) \/ ~ValidSpec(args.car)
  THEN Failed("InvalidArgument")
  ELSE Ok(Lambda(FromSpec(args.car), env, SmListNext(args)))

-----------------------------------------------------------------------------
RECURSIVE Eval(_, _), Call(_, _, _), Invoke(_, _, _), Progn(_, _)

\* sm_eval of every argument in args that a pattern may ask for.
ResultsIn(args, env) ==
  LET forms == IF Plain(args) THEN {Items(args)[i] : i \in DOMAIN Items(args)} \cup {Dot(args)}
               ELSE {args} IN
  [form \in forms |-> Eval(form, env)]

Call(f, args, env) ==
  LET list == PatternEval(PatternOf[f], args, ResultsIn(args, env))
      one  == One(args)
      value == IF IsOk(one) THEN Eval(one.v, env) ELSE one IN
  CASE f = "quote"  -> one
    [] f = "lambda" -> SmLambda(args, env)
    [] f = "eval"   -> IF IsOk(value) THEN Eval(value.v, env) ELSE value
    [] f \in {"add-quote", "copy", "car", "cdr"} -> IF IsOk(value) THEN OfOne(f, value.v) ELSE value
    [] f = "append" ->
         IF ~Plain(args) \/ IsDotted(args) THEN Failed("InvalidArgument")
         ELSE AppendFrom(<< >>, Nil, [i \in DOMAIN Items(args) |-> Eval(Items(args)[i], env)])
    [] OTHER        -> IF IsOk(list) THEN OfList(f, list.v) ELSE list

\* sm_function_invoke: the arguments in the caller's scope, the body in the
\* function's own.
Invoke(f, args, env) ==
  LET scope == PatternUnpack(f.pattern, args, ResultsIn(args, env)) IN
  IF IsOk(scope) THEN Progn(Items(f.progn), scope.v @@ f.capture) ELSE scope

Progn(forms, env) ==
  IF forms = << >> THEN Ok(Nil)
  ELSE LET r == Eval(Head(forms), env) IN
       IF ~IsOk(r) \/ Len(forms) = 1 THEN r ELSE Progn(Tail(forms), env)

Eval(form, env) ==
  LET f == Eval(form.car, env) IN
  IF IsQuoted(form) THEN Ok(Unquote(form, 1))
  ELSE IF HasName(form) THEN Lookup(form.sym, env)
  ELSE IF form.t = "sym" THEN Failed("UndefinedVariable")
  ELSE IF form.t # "cons" THEN Ok(form)
  ELSE IF HasName(form.car) /\ ~IsQuoted(form.car) /\ form.car.sym \in External
  THEN Call(form.car.sym, form.cdr, env)
  ELSE IF ~IsOk(f) THEN f
  ELSE IF f.v.t = "fun" /\ ~IsQuoted(f.v) THEN Invoke(f.v.fun, form.cdr, env)
  ELSE Failed("InvalidArgument")
=============================================================================
