------------------------------ MODULE Evaluator ------------------------------
(***************************************************************************)
(* The evaluator (src/eval.c, src/function.c, src/args.c and the builtins  *)
(* of src/builtins.c that evaluate their arguments): C functions that call *)
(* each other through sm_eval, and on the way move ctx->scope, push and    *)
(* pop stack frames, open and drop root cells, and hand errors back.       *)
(*                                                                         *)
(* Forms and values are abstracted: wherever the code looks at one, every  *)
(* outcome is possible.  What is left is the control of each function, and *)
(* the C stack, one record for every call that has not returned:           *)
(*   proc, pc   the function and where it is                               *)
(*   left       the forms, arguments or bindings it has yet to look at     *)
(*   macro      the function being invoked is a macro                      *)
(*   dot        the dotted part of an argument list has a root cell        *)
(*   err        its variable err                                           *)
(*   entry      the context when it was called (let finds its scope again  *)
(*              in the parent field of the scope it made)                  *)
(*   failed     one of its own calls has returned an error (history)       *)
(* The scope a call allocates, and its stack frame, have its depth as name.*)
(***************************************************************************)
EXTENDS Integers, Sequences

CONSTANTS MaxDepth,   \* calls on the C stack under which sm_eval calls a function
          MaxForms    \* forms, arguments or bindings of one call

ASSUME BoundsAssumption == MaxDepth \in Nat \ {0} /\ MaxForms \in Nat

VARIABLES ctx,      \* ctx->scope, ctx->frame and ctx->heap.roots
          stack,    \* the C stack, main first; empty when main has returned
          result    \* what the last call returned to the top of the stack, or None

vars == <<ctx, stack, result>>

None == "none"
Ok   == "ok"
Err  == "error"
Outcome == {Ok, Err}

Globals == 0   \* &ctx->globals

\* What a form can make sm_eval call.  "and" stands for and and or, "unary"
\* for the builtins of one argument (print, not, car, cdr, add-quote, copy),
\* "args" for those that have sm_arg_pattern_eval evaluate theirs (set, cons,
\* list, list*, arithmetic, comparisons).
FormProc == {"call", "progn", "setq", "and", "unary", "args", "let", "let*", "if",
             "ignore-errors", "eval", "append"}
Proc     == FormProc \cup {"main", "invoke", "unpack"}
Pc       == {"start", "head", "called", "dot", "checked", "args", "unpacked", "body", "ran",
             "expanded", "bind", "bound", "next", "test", "branch", "first", "second", "rest"}

d   == Len(stack)
top == stack[d]

NewCall(p, m, c) ==
  [proc |-> p, pc |-> "start", left |-> 0, macro |-> m, dot |-> FALSE,
   err |-> Ok, failed |-> FALSE, entry |-> c]

At(p, pc, r) == stack # << >> /\ top.proc = p /\ top.pc = pc /\ result = r

Goto(pc)     == [top EXCEPT !.pc = pc]
Take(pc)     == [top EXCEPT !.pc = pc, !.left = @ - 1]
Told(a, r)   == [a EXCEPT !.failed = @ \/ r = Err]

\* sm_heap_root, sm_heap_root_value; sm_heap_root_drop, sm_heap_root_value_drop
Open(c, n)  == [c EXCEPT !.roots = @ \cup {<<d, n>>}]
Close(c, n) == [c EXCEPT !.roots = @ \ {<<d, n>>}]

EnterFrame(c) == [c EXCEPT !.frames = Append(@, [owner |-> d, saved |-> c.scope])]

\* "Never exit main frame".
ExitFrame(c) ==
  IF Len(c.frames) > 1
  THEN [c EXCEPT !.scope  = c.frames[Len(c.frames)].saved,
                 !.frames = SubSeq(@, 1, Len(@) - 1)]
  ELSE c

-----------------------------------------------------------------------------
(* The C stack.  Each operator says what becomes of the call on top (a) and*)
(* of the context (c).                                                     *)

Continue(a, c) ==
  /\ stack' = [stack EXCEPT ![d] = a]
  /\ ctx' = c
  /\ result' = None

Call(p, m, a, c) ==
  /\ stack' = Append([stack EXCEPT ![d] = a], NewCall(p, m, c))
  /\ ctx' = c
  /\ result' = None

\* sm_eval returns at once, a value or an error, or calls a function.
Eval(a, c) ==
  \/ d < MaxDepth /\ \E p \in FormProc : Call(p, FALSE, a, c)
  \/ \E r \in Outcome :
       /\ stack' = [stack EXCEPT ![d] = Told(a, r)]
       /\ ctx' = c
       /\ result' = r

Return(r, c) ==
  /\ stack' = [SubSeq(stack, 1, d - 1) EXCEPT ![d - 1] = Told(@, r)]
  /\ ctx' = c
  /\ result' = r

\* A function looks at a list of forms.
Forms(pc, c) == \E n \in 0..MaxForms : Continue([Goto(pc) EXCEPT !.left = n], c)

-----------------------------------------------------------------------------
(* The functions.                                                          *)

\* Evaluate every form of every input until one fails.
Main ==
  \/ At("main", "start", None) /\ Eval(Goto("ran"), ctx)
  \/ At("main", "ran", Ok)     /\ Eval(Goto("ran"), ctx)
  \/ At("main", "ran", Err)    /\ stack' = << >> /\ result' = None /\ UNCHANGED ctx

CallListKeepingRoot ==   \* seeded fault: the early return comes after the root is open
  \/ At("call", "start", None) /\ Eval(Goto("head"), Open(ctx, "fn"))
  \/ At("call", "head", Err)   /\ Return(Err, ctx)
  \/ At("call", "head", Ok)    /\ Return(Err, Close(ctx, "fn"))
  \/ At("call", "head", Ok)    /\ \E m \in BOOLEAN : Call("invoke", m, Goto("called"), ctx)
  \/ \E r \in Outcome : At("call", "called", r) /\ Return(r, Close(ctx, "fn"))

\* sm_eval of a list whose first element is not an external function.
CallList ==
  \/ At("call", "start", None) /\ Eval(Goto("head"), ctx)
  \/ At("call", "head", Err)   /\ Return(Err, ctx)
  \/ At("call", "head", Ok)    /\ Return(Err, ctx)   \* "does not evaluate to a function"
  \/ At("call", "head", Ok)    /\ \E m \in BOOLEAN : Call("invoke", m, Goto("called"), Open(ctx, "fn"))
  \/ \E r \in Outcome : At("call", "called", r) /\ Return(r, Close(ctx, "fn"))

BodyDoneEarly(a) ==   \* seeded fault: an error in the body returns at once
  IF a.err = Err THEN Return(Err, Close(ctx, "scope"))
  ELSE LET left == Close(ExitFrame(ctx), "scope") IN
       IF a.macro THEN Eval([a EXCEPT !.pc = "expanded"], Open(EnterFrame(left), "form"))
       ELSE Return(a.err, left)

\* The end of a function's body: leave its frame, drop its scope; the
\* expansion of a macro is evaluated in the caller's scope, under a new frame.
\* The error of a macro's body is forgotten here.
BodyDone(a) ==
  LET left == Close(ExitFrame(ctx), "scope") IN
  IF a.macro THEN Eval([a EXCEPT !.pc = "expanded"], Open(EnterFrame(left), "form"))
  ELSE Return(a.err, left)

\* sm_function_invoke
Invoke ==
  \/ At("invoke", "start", None)   /\ Call("unpack", FALSE, Goto("unpacked"), Open(ctx, "scope"))
  \/ At("invoke", "unpacked", Err) /\ Return(Err, Close(ctx, "scope"))
  \/ At("invoke", "unpacked", Ok)  /\ Forms("body", [EnterFrame(ctx) EXCEPT !.scope = d])
  \/ At("invoke", "body", None) /\ top.left > 0 /\ Eval(Take("ran"), ctx)
  \/ At("invoke", "ran", Ok)    /\ Continue(Goto("body"), ctx)
  \/ At("invoke", "body", None) /\ top.left = 0 /\ BodyDone(top)
  \/ At("invoke", "ran", Err)   /\ BodyDone([top EXCEPT !.err = Err])
  \/ \E r \in Outcome :
       At("invoke", "expanded", r) /\ Return(r, ExitFrame(Close(ctx, "form")))

DropDot(c) == IF top.dot THEN Close(c, "dot") ELSE c

\* sm_arg_pattern_unpack: a dotted part that is a variable gets its root cell
\* before it is evaluated.
Unpack ==
  \/ At("unpack", "start", None) /\ Eval([Goto("dot") EXCEPT !.dot = TRUE], Open(ctx, "dot"))
  \/ At("unpack", "start", None) /\ Continue(Goto("checked"), ctx)
  \/ At("unpack", "dot", Err)    /\ Return(Err, Close(ctx, "dot"))
  \/ At("unpack", "dot", Ok)     /\ Continue(Goto("checked"), ctx)
  \/ At("unpack", "checked", None) /\ Return(Err, DropDot(ctx))   \* "Reject invalid argument lists"
  \/ At("unpack", "checked", None) /\ Forms("args", ctx)
  \/ At("unpack", "args", None) /\ top.left > 0 /\ Eval(Take("next"), ctx)
  \/ At("unpack", "next", Ok)   /\ Continue(Goto("args"), ctx)
  \/ At("unpack", "next", Err)  /\ Return(Err, DropDot(ctx))
  \/ At("unpack", "args", None) /\ top.left = 0 /\ Return(Ok, DropDot(ctx))

\* sm_arg_pattern_eval, and what its caller then makes of the arguments: the
\* dotted part is evaluated into ret, and gets a root cell when the list is
\* accepted and has other arguments.
Args ==
  \/ At("args", "start", None) /\ Eval([Goto("dot") EXCEPT !.dot = TRUE], ctx)
  \/ At("args", "start", None) /\ Continue(Goto("checked"), ctx)
  \/ At("args", "dot", Err)    /\ Return(Err, ctx)
  \/ At("args", "dot", Ok)     /\ Continue(Goto("checked"), ctx)
  \/ At("args", "checked", None) /\ \E r \in Outcome : Return(r, ctx)   \* rejected, or the fast path
  \/ At("args", "checked", None) /\ Forms("args", IF top.dot THEN Open(ctx, "dot") ELSE ctx)
  \/ At("args", "args", None) /\ top.left > 0 /\ Eval(Take("next"), ctx)
  \/ At("args", "next", Ok)   /\ Continue(Goto("args"), ctx)
  \/ At("args", "next", Err)  /\ Return(Err, DropDot(ctx))
  \/ At("args", "args", None) /\ top.left = 0 /\ \E r \in Outcome : Return(r, DropDot(ctx))

\* The bindings of let and let* are done, or one was invalid (r = Err).
Body(r, c) == \E n \in 0..MaxForms : Continue([Goto("body") EXCEPT !.left = n, !.err = r], c)

\* let evaluates its bindings in the scope of its caller, let* in its own.
LetScope(c) == IF top.proc = "let" THEN [c EXCEPT !.scope = d] ELSE c

LetDropped == Close(ctx, "scope")   \* seeded fault: the scope stays current

\* The end of let and let*.
LetDone == Close([ctx EXCEPT !.scope = top.entry.scope], "scope")

\* let, let*: when the expression of a binding fails, the loop over the
\* bindings ends but err, another variable of that name, is still sm_ok.
LetForms(p) ==
  \/ At(p, "start", None) /\ Return(Err, ctx)   \* invalid argument list
  \/ At(p, "start", None)
       /\ Forms("bind", IF p = "let" THEN Open(ctx, "scope") ELSE [Open(ctx, "scope") EXCEPT !.scope = d])
  \/ At(p, "bind", None) /\ top.left > 0 /\ Body(Err, LetScope(ctx))             \* invalid binding
  \/ At(p, "bind", None) /\ top.left > 0 /\ Continue(Take("bind"), ctx)          \* symbol
  \/ At(p, "bind", None) /\ top.left > 0 /\ Eval(Take("bound"), ctx)             \* (symbol expression)
  \/ At(p, "bound", Ok)  /\ Continue(Goto("bind"), ctx)
  \/ At(p, "bound", Err) /\ Body(Ok, LetScope(ctx))
  \/ At(p, "bind", None) /\ top.left = 0 /\ Body(Ok, LetScope(ctx))
  \/ At(p, "body", None) /\ top.err = Ok /\ top.left > 0
       /\ (Eval(Take("ran"), ctx) \/ Continue([Take("body") EXCEPT !.err = Err], ctx))
  \/ \E r \in Outcome : At(p, "ran", r) /\ Continue([Goto("body") EXCEPT !.err = r], ctx)
  \/ At(p, "body", None) /\ (top.err = Err \/ top.left = 0)
       /\ Return(top.err, LetDone)

Let      == LetForms("let")
LetStar  == LetForms("let*")

PrognPastEnd ==   \* seeded fault: the end of the list is not tested
  \/ At("progn", "start", None) /\ (Return(Err, ctx) \/ Forms("args", ctx))
  \/ At("progn", "args", None)  /\ Eval(Take("next"), ctx)
  \/ At("progn", "next", Ok)    /\ Continue(Goto("args"), ctx)
  \/ At("progn", "next", Err)   /\ Return(Err, ctx)
  \/ At("progn", "args", None)  /\ top.left = 0 /\ Return(Ok, ctx)

PrognGoingOn ==   \* seeded fault: the error of a form is overwritten by the next
  \/ At("progn", "start", None) /\ (Return(Err, ctx) \/ Forms("args", ctx))
  \/ At("progn", "args", None)  /\ top.left > 0 /\ Eval(Take("next"), ctx)
  \/ \E r \in Outcome : At("progn", "next", r) /\ Continue(Goto("args"), ctx)
  \/ At("progn", "args", None)  /\ top.left = 0 /\ Return(Ok, ctx)

Progn ==
  \/ At("progn", "start", None) /\ (Return(Err, ctx) \/ Forms("args", ctx))
  \/ At("progn", "args", None)  /\ top.left > 0 /\ Eval(Take("next"), ctx)
  \/ At("progn", "next", Ok)    /\ Continue(Goto("args"), ctx)
  \/ At("progn", "next", Err)   /\ Return(Err, ctx)
  \/ At("progn", "args", None)  /\ top.left = 0 /\ Return(Ok, ctx)

\* At least one pair of a name and a form; each is checked when its turn comes,
\* and the tail that follows it when it has been evaluated.
Setq ==
  \/ At("setq", "start", None) /\ Return(Err, ctx)
  \/ At("setq", "start", None) /\ \E n \in 1..MaxForms : Continue([Goto("args") EXCEPT !.left = n], ctx)
  \/ At("setq", "args", None)  /\ top.left > 0 /\ (Return(Err, ctx) \/ Eval(Take("next"), ctx))
  \/ At("setq", "next", Ok)    /\ (Return(Err, ctx) \/ Continue(Goto("args"), ctx))
  \/ At("setq", "next", Err)   /\ Return(Err, ctx)
  \/ At("setq", "args", None)  /\ top.left = 0 /\ Return(Ok, ctx)

\* and, or: the value of a form may end the evaluation.
AndOr ==
  \/ At("and", "start", None) /\ (Return(Err, ctx) \/ Forms("args", ctx))
  \/ At("and", "args", None)  /\ top.left > 0 /\ (Return(Err, ctx) \/ Eval(Take("next"), ctx))
  \/ At("and", "next", Ok)    /\ (Return(Ok, ctx) \/ Continue(Goto("args"), ctx))
  \/ At("and", "next", Err)   /\ Return(Err, ctx)
  \/ At("and", "args", None)  /\ top.left = 0 /\ Return(Ok, ctx)

\* print, not, car, cdr, add-quote, copy: exactly one argument, whose value may
\* be rejected.
Unary ==
  \/ At("unary", "start", None) /\ (Return(Err, ctx) \/ Eval(Goto("ran"), ctx))
  \/ At("unary", "ran", Err)    /\ Return(Err, ctx)
  \/ At("unary", "ran", Ok)     /\ \E r \in Outcome : Return(r, ctx)

If ==
  \/ At("if", "start", None) /\ Return(Err, ctx)
  \/ At("if", "start", None) /\ Eval(Goto("test"), ctx)
  \/ At("if", "test", Err)   /\ Return(Err, ctx)
  \/ At("if", "test", Ok)    /\ (Eval(Goto("branch"), ctx) \/ Return(Ok, ctx))
  \/ \E r \in Outcome : At("if", "branch", r) /\ Return(r, ctx)

\* The only builtin meant to turn an error into a value.
IgnoreErrors ==
  \/ At("ignore-errors", "start", None) /\ (Return(Err, ctx) \/ Forms("args", ctx))
  \/ At("ignore-errors", "args", None)  /\ top.left > 0 /\ Eval(Take("next"), ctx)
  \/ At("ignore-errors", "next", Ok)    /\ Continue(Goto("args"), ctx)
  \/ At("ignore-errors", "next", Err)   /\ Return(Ok, ctx)
  \/ At("ignore-errors", "args", None)  /\ top.left = 0 /\ Return(Ok, ctx)

\* (eval form): evaluate the form, then its value.
EvalTwice ==
  \/ At("eval", "start", None) /\ (Return(Err, ctx) \/ Eval(Goto("first"), Open(ctx, "form")))
  \/ At("eval", "first", Ok)   /\ Eval(Goto("second"), ctx)
  \/ At("eval", "first", Err)  /\ Return(Err, Close(ctx, "form"))
  \/ \E r \in Outcome : At("eval", "second", r) /\ Return(r, Close(ctx, "form"))

\* The root cell is opened once a value that is not nil has been found.
AppendLists ==
  \/ At("append", "start", None) /\ ((\E r \in Outcome : Return(r, ctx)) \/ Forms("args", ctx))
  \/ At("append", "args", None)  /\ top.left > 0 /\ Eval(Take("next"), ctx)
  \/ At("append", "next", Err)   /\ Return(Err, ctx)
  \/ At("append", "next", Ok)    /\ Continue(Goto("args"), ctx)
  \/ At("append", "next", Ok)    /\ Continue(Goto("rest"), Open(ctx, "tmp"))
  \/ At("append", "args", None)  /\ top.left = 0 /\ Continue(Goto("rest"), Open(ctx, "tmp"))
  \/ At("append", "rest", None)  /\ top.left > 0 /\ (Eval(Take("ran"), ctx) \/ Return(Err, Close(ctx, "tmp")))
  \/ At("append", "ran", Ok)     /\ Continue(Goto("rest"), ctx)
  \/ At("append", "ran", Err)    /\ Return(Err, Close(ctx, "tmp"))
  \/ At("append", "rest", None)  /\ top.left = 0 /\ Return(Ok, Close(ctx, "tmp"))

-----------------------------------------------------------------------------
Init ==
  /\ ctx = [scope  |-> Globals,
            frames |-> <<[owner |-> 0, saved |-> Globals]>>,
            roots  |-> {<<0, "forms">>, <<0, "res">>}]
  /\ stack = <<NewCall("main", FALSE, ctx)>>
  /\ result = None

Next == \/ Main \/ CallList \/ Invoke \/ Unpack \/ Args \/ Let \/ LetStar
        \/ Progn \/ Setq \/ AndOr \/ Unary \/ If \/ IgnoreErrors \/ EvalTwice \/ AppendLists

Spec == Init /\ [][Next]_vars

-----------------------------------------------------------------------------
(* Properties.                                                             *)

Name    == {"forms", "res", "fn", "scope", "form", "dot", "tmp"}
Frame   == [owner : Nat, saved : Nat]
Context == [scope : Nat, frames : Seq(Frame), roots : SUBSET (Nat \X Name)]
Activation ==
  [proc : Proc, pc : Pc, left : Nat, macro : BOOLEAN, dot : BOOLEAN,
   err : Outcome, failed : BOOLEAN, entry : Context]

TypeOK ==
  /\ ctx \in Context
  /\ stack \in Seq(Activation)
  /\ result \in Outcome \cup {None}

\* Whatever a form does, fails at, and calls on the way, its evaluation leaves
\* the current scope, the stack of frames and the root cells as it found them:
\* every early return and break of the evaluator undoes what its function did.
Restores == [][stack' # << >> /\ Len(stack') < Len(stack) => ctx' = top.entry]_vars

\* A stack frame is a variable of the C function that entered it: the frames
\* sm_error and sm_heap_gc walk (error.c:36, heap.c:596) belong to calls of
\* sm_function_invoke that have not returned, in their order, and each gives
\* back the scope its call started from.
FramesAlive ==
  \A i \in 2..Len(ctx.frames) :
    LET f == ctx.frames[i] IN
    /\ ctx.frames[i - 1].owner < f.owner
    /\ stack # << >> => /\ f.owner \in 1..d
                        /\ stack[f.owner].proc = "invoke"
                        /\ f.saved = stack[f.owner].entry.scope

\* The current scope and the saved ones were made by calls that still hold
\* them in an open root cell: no scope is current after sm_heap_root_drop.
ScopeHeld ==
  \A s \in {ctx.scope} \cup {ctx.frames[i].saved : i \in 1..Len(ctx.frames)} :
    s = Globals \/ <<s, "scope">> \in ctx.roots

\* No call returns success after one of its own has failed, save ignore-errors
\* on purpose, and let, let* and macros (builtins.c:317, 394, function.c:49).
ErrorsReported ==
  [][stack' # << >> /\ Len(stack') < Len(stack) /\ result' = Ok /\ top.failed
       => top.proc \in {"ignore-errors", "let", "let*"} \/ (top.proc = "invoke" /\ top.macro)]_vars

\* Only ignore-errors evaluates to something when a form it runs has failed:
\* "return result of last one or error" (builtins.c:457).
OnlyIgnoreErrors ==
  [][stack' # << >> /\ Len(stack') < Len(stack) /\ result' = Ok /\ top.failed
       => top.proc = "ignore-errors"]_vars
=============================================================================
