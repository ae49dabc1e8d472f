---------------------------- MODULE Interpreter ----------------------------
(***************************************************************************)
(* From characters to results: the parts of the program that a text passes *)
(* through, side by side.  Each is a unit that has the system for itself   *)
(* and is fed every input up to a bound, one character, token, argument,   *)
(* cell or number after the other; Lists, Trace and Repl have steps of     *)
(* their own.  The properties say what the parts make of it all.           *)
(***************************************************************************)
EXTENDS FiniteSets, Lexer, Lists, Trace, Repl
LOCAL INSTANCE SequencesExt   \* FoldLeft

CONSTANTS MaxChars,    \* characters of a text
          MaxTokens,   \* tokens of a form
          MaxParams,   \* parameters of a function
          MaxDepth,    \* of a value
          MaxNumbers,  \* arguments of an arithmetic operation
          MaxQuoted    \* quotes in the cells and variables

VARIABLES unit, input

vars == <<unit, input, listVars, traceVars, replVars>>

Units == {"text", "form", "args", "value", "numbers", "lists", "trace", "session"}

Chars  == Space \cup {"a", "1", "-", ".", ";", "(", ")", "'", "|", "\"", "\\", "backquote", ",", "@"}

Tokens == {Mark(m) : m \in {"LParen", "RParen", "Quote", "Comma", "Splice", "Dot"}}
          \cup {Atom(Sym(s)) : s \in {"n", "l"}}

\* The variables that templates and arguments name; bad is none of them.
Env == [n |-> Num(1), l |-> List(<<Sym("n"), Num(3)>>), d |-> Cell(Num(2), Num(3))]

Quoted(v) == Quote(v, 1)

Params   == {Sym("x"), Sym("y"), Quoted(Sym("x")), Num(1)}
SpecEnds == {Nil, Sym("x"), Sym("r"), Quoted(Sym("r"))}
Args     == {Num(1), Sym("n"), Quoted(Sym("n")), Sym("bad")}
ArgEnds  == {Nil, Sym("l"), Sym("d"), Num(4), Quoted(List(<<Sym("n")>>)), Sym("bad")}

Leaves   == {Nil, Str("s")}

Numbers  == {Num(IntNum(i)) : i \in {-IntMax - 1, -3, -1, 0, 1, 2, FloatExact + 1, IntMax}}
            \cup {Num(Float(1, 2)), Num(Float(-3, 2)), Num(Float(FloatExact, 1)), Sym(":true")}

-----------------------------------------------------------------------------
Init ==
  /\ unit \in Units
  /\ input \in CASE unit = "args"  -> [spec : SpecEnds, args : ArgEnds]
                 [] unit = "value" -> Leaves
                 [] OTHER          -> {<< >>}
  /\ ListsInit
  /\ IF unit = "trace" THEN TraceInit ELSE frames = <<1>> /\ written = 1 /\ p = BufSize - 2 /\ state = "all"
  /\ IF unit = "session" THEN ReplInit
     ELSE /\ lines = << >> /\ line = 1 /\ taken = 0 /\ length = 0
          /\ over = FALSE /\ phase = "exit" /\ seen = << >>

Feed(u, new) ==
  /\ unit = u
  /\ input' = new
  /\ UNCHANGED <<unit, listVars, traceVars, replVars>>

TypeCharacter ==
  Len(input) < MaxChars /\ \E c \in Chars : Feed("text", Append(input, c))

\* Whether more tokens can follow: those that are no beginning of a form are left out.
MayGoOn(toks) ==
  IF toks = << >> THEN TRUE
  ELSE IF toks[Len(toks)].kind \in {"Comma", "Splice"} THEN TRUE ELSE ParseForm(toks).ended

AddToken ==
  /\ Len(input) < MaxTokens /\ MayGoOn(input)
  /\ \E t \in Tokens :
       /\ ParseForm(Append(input, t)).err = "ok" \/ MayGoOn(Append(input, t))
       /\ Feed("form", Append(input, t))

AddParam ==
  /\ Len(Items(input.spec)) < MaxParams
  /\ \E v \in Params : Feed("args", [input EXCEPT !.spec = Cell(v, @)])

AddArgument ==
  /\ Len(Items(input.args)) < MaxArgs
  /\ \E v \in Args : Feed("args", [input EXCEPT !.args = Cell(v, @)])

RECURSIVE Depth(_)
Depth(v) == IF v.t # "cons" THEN 0
            ELSE 1 + IF Depth(v.car) > Depth(v.cdr) THEN Depth(v.car) ELSE Depth(v.cdr)

\* Every leaf but the first is another number, and each list has one quote at most.
GrowValue ==
  /\ unit = "value" /\ Depth(input) < MaxDepth
  /\ LET leaf == Num(Depth(input) + 1) IN
     \E v \in {Cell(input, leaf), Cell(leaf, input), Cell(input, input)} : Feed("value", v)

QuoteValue == unit = "value" /\ ~IsQuoted(input) /\ Feed("value", Quoted(input))

AddNumber ==
  Len(input) < MaxNumbers /\ \E v \in Numbers : Feed("numbers", Append(input, v))

\* The bound on the quotes in the cells h and the variables rs.
FewQuotes(h, rs) ==
  Cardinality({<<i, field, n>> \in (DOMAIN h) \X {"car", "cdr"} \X (1..MaxQuotes) : n <= h[i][field].q})
  + Cardinality({<<x, n>> \in Reg \X (1..MaxQuotes) : n <= rs[x].q}) <= MaxQuoted

CallBuiltin ==
  /\ unit = "lists"
  /\ ListsNext /\ FewQuotes(cells', reg')
  /\ UNCHANGED <<unit, input, traceVars, replVars>>

WriteTrace ==
  /\ unit = "trace"
  /\ TraceNext
  /\ UNCHANGED <<unit, input, listVars, replVars>>

ReadInput ==
  /\ unit = "session"
  /\ ReplNext
  /\ UNCHANGED <<unit, input, listVars, traceVars>>

Next ==
  \/ unit = "text" /\ TypeCharacter
  \/ unit = "form" /\ AddToken
  \/ unit = "args" /\ (AddParam \/ AddArgument)
  \/ GrowValue \/ QuoteValue
  \/ unit = "numbers" /\ AddNumber
  \/ CallBuiltin \/ WriteTrace \/ ReadInput

\* The loops of the program go on; what is typed need not.
Spec == Init /\ [][Next]_vars /\ WF_vars(ReadInput)
-----------------------------------------------------------------------------
(* Text (src/parser.c, src/value.c, src/main.c)                            *)

Has(chars) == \E i \in DOMAIN input : input[i] \in chars

\* The REPL, which counts parentheses and looks for pipes and quotes by itself,
\* waits for another line exactly as long as the parser would have failed for
\* want of one, in a text with neither strings nor comments, which it does not know.
CompleteReads ==
  unit = "text" /\ ~Has({"\"", ";"}) =>
    LET r == ParseAll(Lex(input)) IN
    /\ IsOk(r)  => Complete(input)
    /\ r.ended  => ~Complete(input)

ReadsAs(text, v) == ParseAll(Lex(text)) = Read(List(<<v>>), << >>)

\* A symbol or a string is read again as it was printed, but for the characters
\* that its spelling does not protect: a backquote or comma in a symbol that has
\* no other reason for pipes, a semicolon in front of it, a pipe anywhere, and a
\* double quote in a string, which is escaped and yet ends it for the lexer.
SpellingReads ==
  unit = "text" =>
    /\ ~Has({"|"}) =>
         (ReadsAs(SpelledSymbol(input), Sym(input)) <=>
            (IsPiped(input) \/ ~(Has({"backquote", ","}) \/ Starts(input, ";"))))
    /\ ReadsAs(SpelledString(input), Str(input)) <=> ~Has({"\""})

-----------------------------------------------------------------------------
(* Forms (src/parser.c, src/value.c)                                       *)

\* The value that reading gives for one that was printed: nil is printed as the
\* symbol where no list ends with it.
RECURSIVE AsRead(_)
AsRead(v) == IF v.t = "nil" THEN Quote(Sym("nil"), v.q)
             ELSE IF v.t # "cons" THEN v
             ELSE [v EXCEPT !.car = AsRead(@), !.cdr = IF @ = Nil THEN Nil ELSE AsRead(@)]

RECURSIVE IsIn(_, _)
IsIn(mark, v) == v = mark \/ (v.t = "cons" /\ (IsIn(mark, v.car) \/ IsIn(mark, v.cdr)))

\* A string that ends a dotted list cannot be read.
RECURSIVE DottedString(_)
DottedString(v) ==
  v.t = "cons" /\ (DottedString(v.car) \/ DottedString(v.cdr) \/ (v.cdr.t = "str" /\ v.cdr.q = 0))

Rereads(v) == LET r == ParseForm(Printed(v)) IN IsOk(r) /\ r.rest = << >> /\ r.v = AsRead(v)

LambdaForm == List(<<Sym("lambda"), input.spec, Num(1)>>)

RECURSIVE Digits(_)
Digits(n) == (IF n < 10 THEN << >> ELSE Digits(n \div 10)) \o <<n % 10>>

\* A value printed is a form that reads as the value: forms that were read, nested
\* and dotted lists with any quotes, unless a string follows a dot, functions,
\* whose printed pattern is the list that they were made from, and all integers
\* but the smallest.
PrintedReadsBack ==
  /\ unit = "form" /\ input # << >> =>
       LET r == ParseForm(input) IN
       IsOk(r) /\ ~IsIn(Comma, r.v) /\ ~IsIn(Splice, r.v) => Rereads(r.v)
  /\ unit = "value" => (Rereads(input) <=> ~DottedString(input))
  /\ unit = "args" =>
       LET f == Eval(LambdaForm, << >>) IN
       IF ValidSpec(input.spec) THEN ParseForm(Printed(f.v)) = Read(LambdaForm, << >>)
       ELSE f.err = "InvalidArgument"
  /\ unit = "numbers" /\ input = << >> =>
       \A i \in Int64 : LET r == ParseInteger(i < 0, Digits(Magnitude(i))) IN
         IF i = -IntMax - 1 THEN r.err = "InvalidLiteral" ELSE r = Ok(Num(IntNum(i)))

RECURSIVE AddsQuotes(_, _)
AddsQuotes(n, r) == IF n = 0 \/ ~IsOk(r) THEN r ELSE AddsQuotes(n - 1, AddQuote(r.v))

\* Two values in a cell, or a list before a value, where they have been found.
Joined(car, cdr) ==
  IF ~IsOk(car) THEN car ELSE IF ~IsOk(cdr) THEN cdr ELSE Ok(Cell(car.v, cdr.v))

Inserted(list, rest) ==
  IF ~IsOk(list) THEN list
  ELSE IF ~Plain(list.v) THEN Failed("InvalidArgument")
  ELSE IF ~IsOk(rest) THEN rest
  ELSE Ok(Build(Items(list.v), rest.v))

\* What a template means: itself, with the value of every form after a comma in
\* its place, and the items of the value of one after ,@.
RECURSIVE Meaning(_), MeaningOfTail(_)
Meaning(f) ==
  IF f.t # "cons" THEN Ok(f)
  ELSE IF IsQuoted(f) THEN AddsQuotes(f.q, Meaning(Unquote(f, f.q)))
  ELSE IF f.car = Comma THEN Eval(f.cdr, Env)
  ELSE MeaningOfTail(f)

MeaningOfTail(f) ==
  IF ~Plain(f) \/ f = Nil THEN Meaning(f)
  ELSE IF f.car = Comma THEN Eval(f.cdr, Env)
  ELSE IF ~IsMarked(f.car, Splice) \/ IsQuoted(f.car)
  THEN Joined(Meaning(f.car), MeaningOfTail(f.cdr))
  ELSE IF f.cdr = Nil THEN Eval(f.car.cdr, Env)
  ELSE Inserted(Eval(f.car.cdr, Env), MeaningOfTail(f.cdr))

\* An atom after a dot that follows a comma: it is evaluated, not quoted.
RECURSIVE CommaBeforeDot(_)
CommaBeforeDot(f) ==
  f.t = "cons" /\ (\/ CommaBeforeDot(f.car) \/ CommaBeforeDot(f.cdr)
                   \/ IsMarked(f.car, Comma) /\ ~IsQuoted(f.car) /\ ~Plain(f.cdr))

Means(result, meaning) == IF IsOk(result) THEN result = meaning ELSE ~IsOk(meaning)

\* The code that a backquote becomes, made of list, list*, append and add-quote
\* while the template is taken apart, evaluates to what the template means, or
\* fails where that has no meaning.  The template is a list, because the parser
\* replaces the quotes of an atom and of a comma's form, and nothing but a list
\* follows a comma in it.
TemplatesExpand ==
  unit = "form" /\ input # << >> =>
    LET form == ParseForm(input)
        template == ParseForm(<<Mark("Backquote")>> \o input) IN
    IsOk(form) /\ IsOk(template) /\ form.v.t = "cons" /\ form.v.car # Comma /\ ~CommaBeforeDot(form.v)
    => Means(Eval(template.v, Env), Meaning(form.v))

-----------------------------------------------------------------------------
(* Arguments and functions (src/args.c, src/function.c, src/builtins.c)    *)

EvaluatedAt(pattern, i) ==
  IF i <= Len(pattern.args) THEN pattern.args[i].eval ELSE pattern.rest.eval

\* The arguments a, with those that the dotted part evaluates to in their place,
\* quoted where they would be evaluated once more.
Spliced(pattern, a) ==
  LET more == [i \in DOMAIN a.more |->
                 IF EvaluatedAt(pattern, Len(a.own) + i) THEN Quoted(a.more[i]) ELSE a.more[i]] IN
  Build(a.own \o more, IF pattern.rest.eval /\ a.final # Nil THEN Quoted(a.final) ELSE a.final)

\* The values of the forms in a list of arguments.
EachEvaluated(pattern, args, ev) ==
  List([i \in DOMAIN Items(args) |->
          IF EvaluatedAt(pattern, i) THEN ev[Items(args)[i]].v ELSE Items(args)[i]])

\* The variables in scope are the items of the list.
SameBindings(pattern, list, scope) ==
  LET count == Len(pattern.args)
      last  == count + IF pattern.rest.use THEN 1 ELSE 0
      name(i)  == IF i <= count THEN pattern.args[i].id ELSE pattern.rest.id
      value(i) == IF i <= count THEN Items(list)[i]
                  ELSE IF count = 0 THEN list
                  ELSE Build(SubSeq(Items(list), i, Len(Items(list))), Dot(list)) IN
  /\ \A i \in 1..last : (\A j \in i + 1..last : name(j) # name(i)) => scope[name(i)] = value(i)
  /\ DOMAIN scope = {name(i) : i \in 1..last}

SameResults(pattern, args, ev) ==
  LET listed  == PatternEval(pattern, args, ev)
      scope   == PatternUnpack(pattern, args, ev)
      spliced == Spliced(pattern, Arguments(pattern, args, ev)) IN
  /\ listed.err = scope.err
  /\ IsOk(listed) =>
       /\ SameBindings(pattern, listed.v, scope.v)
       /\ PatternEval(pattern, spliced, ResultsIn(spliced, Env)) = listed
       /\ ~IsDotted(args) /\ Plain(args) => listed.v = EachEvaluated(pattern, args, ev)

\* The two functions that match arguments with a pattern agree, which count them in
\* the same way and then have loops of their own: they fail with the same error, or the variables of a
\* lambda are the items of the list that a builtin would have been given, the last
\* of two with the same name.  Every argument is evaluated once: those in the
\* value of a dotted part are as good as written out and quoted, and a list of
\* arguments without one has its forms' values where the pattern says so.
SameArguments ==
  unit = "args" /\ ValidSpec(input.spec) =>
    LET pattern == FromSpec(input.spec) IN
    SameResults(pattern, input.args, ResultsIn(input.args, Env))

\* What car and cdr find along the letters of a name, from the last to the first.
RECURSIVE Follow(_, _)
Follow(letters, v) ==
  IF letters = "" THEN Ok(v)
  ELSE LET r == Follow(SubSeq(letters, 2, Len(letters)), v) IN
       IF ~IsOk(r) THEN r ELSE OfOne(IF SubSeq(letters, 1, 1) = "a" THEN "car" ELSE "cdr", r.v)

\* The functions with long names do what their letters say, in that order, for
\* values of any depth and with quotes, and fail where a step does.  And car, cdr
\* and their like can be passed to a function, which calls what it is given, here
\* with an atom or a cell of two, with one reservation: the variables in the
\* arguments of that call are those of the place where car was named, not of the
\* function that calls it.
AccessorsFollow ==
  unit = "value" =>
    LET value == Call1("quote", input)
        calling(arg) == List(<<Sym("lambda"), List(<<Sym("f"), Sym("n")>>), Call1("f", arg)>>) IN
    /\ \A name \in DOMAIN Accessors :
         Eval(List(<<Sym(name), value>>), << >>) = Follow(SubSeq(name, 2, Len(name) - 1), input)
    /\ Depth(input) < 2 =>
         \A name \in {"car", "cdr", "quote", "add-quote", "copy"}, arg \in {value, Sym("n")} :
           \A env \in {[x \in {} |-> Nil], [n |-> Num(1)]} :
             Eval(List(<<calling(arg), Sym(name), value>>), env) = Eval(Call1(name, arg), env)

\* In every memory that calls make, variables leading to MaxCells cells at most, the
\* builtins on shared cells do what they do on values.
ListsRight == unit = "lists" => BuiltinsAgree

-----------------------------------------------------------------------------
(* Numbers (src/builtins.c)                                                *)

Apply(f, args) == Eval(Cell(Sym(f), List(args)), << >>)

AllNumbers == \A i \in DOMAIN input : IsNumber(input[i])
AllInts    == AllNumbers /\ \A i \in DOMAIN input : ~IsFloat(input[i].num)

\* lhs - rhs exactly, times a positive number.
Exactly(n)    == IF IsFloat(n) THEN n ELSE Float(n.i, 1)
ExactDifference(lhs, rhs) ==
  Exactly(lhs).num * Exactly(rhs).den - Exactly(rhs).num * Exactly(lhs).den

Comparisons == {"=", "!=", "<", "<=", ">", ">="}

\* The comparisons that hold for a and b, and those that hold for b and a.
OneOrder(a, b, holds, back) ==
  LET d == ExactDifference(a, b)
      rounded(n) == ~IsFloat(n) /\ NearestFloat(n.i) # n.i IN
  /\ Cardinality(holds \cap {"<", "=", ">"}) = 1
  /\ "<=" \in holds <=> holds \cap {"<", "="} # {}
  /\ ">=" \in holds <=> holds \cap {">", "="} # {}
  /\ "!=" \in holds <=> "=" \notin holds
  /\ "<" \in holds <=> ">" \in back
  /\ "<" \in holds => d < 0
  /\ ">" \in holds => d > 0
  /\ "=" \in holds /\ d # 0 => IsFloat(a) # IsFloat(b) /\ (rounded(a) \/ rounded(b))

\* The six comparisons are those of one order and never contradict that of the
\* exact numbers; they only take different numbers for equal, an integer that no
\* float equals and a float.
ComparisonsAgree ==
  unit = "numbers" /\ Len(input) = 2 =>
    LET result(f, args) == Apply(f, args)
        holding(args) == {f \in Comparisons : result(f, args) = Ok(True)} IN
    IF AllNumbers THEN OneOrder(input[1].num, input[2].num, holding(input), holding(<<input[2], input[1]>>))
    ELSE \A f \in Comparisons : result(f, input).err = "InvalidArgument"

RECURSIVE SumOf(_), ProductOf(_)
SumOf(ints)     == IF ints = << >> THEN 0 ELSE Head(ints) + SumOf(Tail(ints))
ProductOf(ints) == IF ints = << >> THEN 1 ELSE Head(ints) * ProductOf(Tail(ints))

\* One number is another, written as any quotient.
SameNumber(m, n) == m.type = n.type /\ ExactDifference(m, n) = 0

\* The results for integers, if they do not leave the range.
ExactForInts(results, ints) ==
  LET rest == Tail(ints)
      is(f, n) == results[f].err = "undefined" \/ results[f] = Ok(Num(IntNum(n))) IN
  /\ is("+", SumOf(ints)) /\ is("*", ProductOf(ints))
  /\ Len(ints) > 1 => is("-", ints[1] - SumOf(rest))
  /\ Len(ints) > 1 /\ ProductOf(rest) # 0 => is("/", Truncated(ints[1], ProductOf(rest)))
  /\ (\A i \in DOMAIN ints : Magnitude(ints[i]) <= 2) => IsOk(results["+"])
  /\ ProductOf(ints) = 0 /\ ints[1] # 0 => ~IsOk(results["/"])

ExactForFloats(results) ==
  LET sum  == FoldLeft(LAMBDA a, v : FloatStep("+", a, Exactly(v.num)), Float(0, 1), input)
      prod == FoldLeft(LAMBDA a, v : FloatStep("*", a, Exactly(v.num)), Float(1, 1), input) IN
  SameNumber(results["+"].v.num, sum) /\ SameNumber(results["*"].v.num, prod)

Exact(results) ==
  IF ~AllNumbers THEN \A f \in DOMAIN results : results[f].err \in {"InvalidArgument", "undefined"}
  ELSE IF AllInts THEN ExactForInts(results, [i \in DOMAIN input |-> input[i].num.i])
  ELSE (\A i \in DOMAIN input : IsFloat(input[i].num) \/ Magnitude(input[i].num.i) <= 2)
       => ExactForFloats(results)

\* Arithmetic looks at every argument, integers first and then floats, and loses
\* none: without numbers everywhere it fails; with integers alone the results are
\* exact, and division as if by the product, unless they leave the range; and with
\* a float in any place a sum or product is a float, and exact, unless an integer
\* had to be rounded.
ArithmeticExact ==
  unit = "numbers" /\ input # << >> => Exact([f \in {"+", "-", "*", "/"} |-> Apply(f, input)])
=============================================================================
