--------------------------- MODULE EvaluatorProofs ---------------------------
(***************************************************************************)
(* Theorems about module Evaluator, for a C stack of any depth and lists   *)
(* of any length: the context a call leaves is the one it found, frames    *)
(* belong to calls that have not returned, scopes in use are held.         *)
(*                                                                         *)
(* The induction is on the C stack.  Inside says what the context is, in   *)
(* terms of the one a call was entered with, wherever the call may be; the *)
(* inductive invariant links every call's entry with the inside of its     *)
(* caller, and the context itself with the inside of the call on top.      *)
(***************************************************************************)
EXTENDS Evaluator, SequenceTheorems, TLAPS

\* The call a is between setting and restoring ctx->scope.
OwnScope(a) ==
  \/ a.proc = "invoke" /\ a.pc \in {"body", "ran"}
  \/ a.proc = "let"    /\ a.pc \in {"body", "ran"}
  \/ a.proc = "let*"   /\ a.pc # "start"

OwnFrame(a) == a.proc = "invoke" /\ a.pc \in {"body", "ran", "expanded"}

\* The root cell n of the call a is open.
OwnRoot(a, n) ==
  \/ n = "fn"    /\ a.proc = "call" /\ a.pc = "called"
  \/ n = "scope" /\ \/ a.proc = "invoke" /\ a.pc \in {"unpacked", "body", "ran"}
                    \/ a.proc \in {"let", "let*"} /\ a.pc # "start"
  \/ n = "form"  /\ \/ a.proc = "invoke" /\ a.pc = "expanded"
                    \/ a.proc = "eval" /\ a.pc # "start"
  \/ n = "dot"   /\ a.dot /\ \/ a.proc = "unpack"
                             \/ a.proc = "args" /\ a.pc \in {"args", "next"}
  \/ n = "tmp"   /\ a.proc = "append" /\ a.pc \in {"rest", "ran"}

\* The call a has nothing of its own.
Bare(a) == ~OwnScope(a) /\ ~OwnFrame(a) /\ \A n \in Name : ~OwnRoot(a, n)

SameOwn(a, b) ==
  /\ OwnScope(a) <=> OwnScope(b)
  /\ OwnFrame(a) <=> OwnFrame(b)
  /\ \A n \in Name : OwnRoot(a, n) <=> OwnRoot(b, n)

\* c is the context inside the call a at depth i.
Inside(c, a, i) ==
  /\ c.scope = IF OwnScope(a) THEN i ELSE a.entry.scope
  /\ c.frames = IF OwnFrame(a) THEN Append(a.entry.frames, [owner |-> i, saved |-> a.entry.scope])
                ELSE a.entry.frames
  /\ \A k \in Nat, n \in Name :
       <<k, n>> \in c.roots <=> <<k, n>> \in a.entry.roots \/ (k = i /\ OwnRoot(a, n))

\* The scopes the context c uses are in root cells.
Held(c) ==
  /\ c.scope = Globals \/ <<c.scope, "scope">> \in c.roots
  /\ \A j \in 1..Len(c.frames) :
       c.frames[j].saved = Globals \/ <<c.frames[j].saved, "scope">> \in c.roots

Ordered(f) == \A j \in 2..Len(f) : f[j - 1].owner < f[j].owner

\* The frames f belong to calls of the stack s below depth i.
Framed(s, f, i) ==
  /\ Len(f) > 0
  /\ \A j \in 1..Len(f) : f[j].owner < i
  /\ Ordered(f)
  /\ \A j \in 2..Len(f) : /\ f[j].owner > 0
                          /\ s[f[j].owner].proc = "invoke"
                          /\ f[j].saved = s[f[j].owner].entry.scope

\* The root cells R were opened below depth i.
Below(R, i) == \A k \in Nat, n \in Name : <<k, n>> \in R => k < i

Entered(s, i) ==
  /\ s[i].proc = "main" <=> i = 1
  /\ Held(s[i].entry)
  /\ Framed(s, s[i].entry.frames, i)
  /\ Below(s[i].entry.roots, i)

Linked(s, c) ==
  \A i \in 1..Len(s) : Inside(IF i = Len(s) THEN c ELSE s[i + 1].entry, s[i], i)

Good(s, c) ==
  /\ \A i \in 1..Len(s) : Entered(s, i)
  /\ Linked(s, c)
  /\ s = << >> => Held(c) /\ Ordered(c.frames)

IInv == TypeOK /\ Good(stack, ctx)

-----------------------------------------------------------------------------
(* Contexts and frames.                                                    *)

\* Contexts that agree in every field are equal.
LEMMA ContextEqual ==
  ASSUME NEW b \in Context, NEW c \in Context,
         b.scope = c.scope, b.frames = c.frames,
         \A k \in Nat, n \in Name : <<k, n>> \in b.roots <=> <<k, n>> \in c.roots
  PROVE  b = c
<1>1. b.roots = c.roots
  <2>1. b.roots \subseteq Nat \X Name /\ c.roots \subseteq Nat \X Name
    BY DEF Context
  <2> QED BY <2>1
<1> QED BY <1>1 DEF Context

\* The fields of a frame are natural numbers.
LEMMA FrameAt ==
  ASSUME NEW f \in Seq(Frame), NEW j \in 1..Len(f)
  PROVE  f[j].owner \in Nat /\ f[j].saved \in Nat
<1>1. f[j] \in Frame
  OBVIOUS
<1> QED BY <1>1 DEF Frame

\* Frames keep their owners when the calls of the stack keep their function and
\* their entry.
LEMMA FramedCarries ==
  ASSUME NEW s, NEW t, NEW i \in Nat, NEW f \in Seq(Frame),
         Framed(s, f, i),
         \A k \in 1..(i - 1) : t[k].proc = s[k].proc /\ t[k].entry = s[k].entry
  PROVE  Framed(t, f, i)
<1>1. ASSUME NEW j \in 2..Len(f) PROVE f[j].owner \in 1..(i - 1)
  <2>1. Len(f) \in Nat /\ j \in 1..Len(f)
    OBVIOUS
  <2>2. f[j].owner \in Nat
    BY <2>1, FrameAt
  <2> QED BY <2>1, <2>2 DEF Framed
<1> QED BY <1>1 DEF Framed

\* What is inside a well entered call is good to enter another with.
LEMMA InsideGood ==
  ASSUME NEW s, NEW i \in Nat \ {0}, NEW a \in Activation, NEW c \in Context,
         Held(a.entry), Framed(s, a.entry.frames, i), Below(a.entry.roots, i),
         s[i].proc = a.proc, s[i].entry = a.entry,
         Inside(c, a, i)
  PROVE  Held(c) /\ Framed(s, c.frames, i + 1) /\ Below(c.roots, i + 1)
<1> DEFINE e == a.entry
<1>1. e \in Context /\ e.frames \in Seq(Frame) /\ Len(e.frames) \in Nat
  BY DEF Activation, Context
<1>2. Below(c.roots, i + 1)
  BY DEF Below, Inside
<1>3. \A k \in Nat, n \in Name : <<k, n>> \in e.roots => <<k, n>> \in c.roots
  BY DEF Inside
<1>4. c.scope = Globals \/ <<c.scope, "scope">> \in c.roots
  <2>1. "scope" \in Name /\ e.scope \in Nat
    BY <1>1 DEF Name, Context
  <2>2. CASE OwnScope(a)
    <3>1. OwnRoot(a, "scope")
      BY <2>2 DEF OwnScope, OwnRoot
    <3> QED BY <3>1, <2>1, <2>2 DEF Inside
  <2>3. CASE ~OwnScope(a)
    BY <2>1, <2>3, <1>3 DEF Inside, Held
  <2> QED BY <2>2, <2>3
<1>5. \A j \in 1..Len(e.frames) :
         e.frames[j].saved = Globals \/ <<e.frames[j].saved, "scope">> \in c.roots
  <2> TAKE j \in 1..Len(e.frames)
  <2>1. e.frames[j].saved \in Nat
    BY <1>1, FrameAt
  <2> QED BY <2>1, <1>3 DEF Held, Name
<1>6. e.scope = Globals \/ <<e.scope, "scope">> \in c.roots
  <2>1. e.scope \in Nat
    BY <1>1 DEF Context
  <2> QED BY <2>1, <1>3 DEF Held, Name
<1>7. CASE ~OwnFrame(a)
  <2>1. c.frames = e.frames
    BY <1>7 DEF Inside
  <2>2. Framed(s, c.frames, i + 1)
    <3>1. \A j \in 1..Len(e.frames) : e.frames[j].owner \in Nat
      BY <1>1, FrameAt
    <3> QED BY <2>1, <3>1 DEF Framed
  <2> QED BY <2>1, <2>2, <1>2, <1>4, <1>5 DEF Held
<1>8. CASE OwnFrame(a)
  <2> DEFINE g == [owner |-> i, saved |-> e.scope]
  <2>1. c.frames = Append(e.frames, g)
    BY <1>8 DEF Inside
  <2>2. /\ Len(c.frames) = Len(e.frames) + 1
        /\ c.frames[Len(e.frames) + 1] = g
        /\ \A j \in 1..Len(e.frames) : c.frames[j] = e.frames[j]
    BY SMTT(30), <2>1, <1>1
  <2>3. a.proc = "invoke"
    BY <1>8 DEF OwnFrame
  <2>4. \A j \in 1..Len(e.frames) : e.frames[j].owner \in Nat
    BY <1>1, FrameAt
  <2>0. /\ Len(e.frames) > 0
        /\ \A j \in 1..Len(e.frames) : e.frames[j].owner < i
        /\ \A j \in 2..Len(e.frames) : /\ e.frames[j - 1].owner < e.frames[j].owner
                                       /\ e.frames[j].owner > 0
                                       /\ s[e.frames[j].owner].proc = "invoke"
                                       /\ e.frames[j].saved = s[e.frames[j].owner].entry.scope
    BY DEF Framed, Ordered
  <2> HIDE DEF e
  <2>5. ASSUME NEW j \in 1..(Len(e.frames) + 1) PROVE c.frames[j].owner < i + 1
    <3>0. Len(e.frames) \in Nat
      BY <1>1
    <3>1. CASE j <= Len(e.frames)
      <4>1. j \in 1..Len(e.frames)
        BY <3>0, <3>1
      <4>2. c.frames[j] = e.frames[j] /\ e.frames[j].owner < i /\ e.frames[j].owner \in Nat
        BY <4>1, <2>0, <2>2, <2>4
      <4> QED BY <4>2
    <3>2. CASE j = Len(e.frames) + 1
      <4>1. c.frames[j].owner = i
        BY <3>2, <2>2
      <4> QED BY <4>1
    <3> QED BY <3>0, <3>1, <3>2
  <2>6. Ordered(c.frames)
    <3>1. ASSUME NEW j \in 2..(Len(e.frames) + 1)
          PROVE  c.frames[j - 1].owner < c.frames[j].owner
      <4>1. CASE j <= Len(e.frames)
        <5>1. j \in 2..Len(e.frames) /\ j - 1 \in 1..Len(e.frames) /\ j \in 1..Len(e.frames)
          BY <4>1, <1>1
        <5> QED BY <5>1, <2>0, <2>2
      <4>2. CASE j = Len(e.frames) + 1
        <5>1. j - 1 = Len(e.frames) /\ Len(e.frames) \in 1..Len(e.frames)
          BY <4>2, <2>0, <1>1
        <5> QED BY <5>1, <4>2, <2>0, <2>2, SMTT(30)
      <4> QED BY <4>1, <4>2, <1>1
    <3> QED BY <3>1, <2>2 DEF Ordered
  <2>7. ASSUME NEW j \in 2..(Len(e.frames) + 1)
        PROVE  /\ c.frames[j].owner > 0
               /\ s[c.frames[j].owner].proc = "invoke"
               /\ c.frames[j].saved = s[c.frames[j].owner].entry.scope
    <3>1. CASE j <= Len(e.frames)
      <4>1. j \in 2..Len(e.frames) /\ j \in 1..Len(e.frames)
        BY <3>1, <1>1
      <4> QED BY <4>1, <2>0, <2>2
    <3>2. CASE j = Len(e.frames) + 1
      BY <3>2, <2>2, <2>3 DEF e
    <3> QED BY <3>1, <3>2, <1>1
  <2>8. Framed(s, c.frames, i + 1)
    <3>1. Len(c.frames) = Len(e.frames) + 1 /\ Len(c.frames) > 0
      BY <2>2, <1>1
    <3>2. \A j \in 1..Len(c.frames) : c.frames[j].owner < i + 1
      BY <3>1, <2>5, ZenonT(60)
    <3>3. \A j \in 2..Len(c.frames) : /\ c.frames[j].owner > 0
                                      /\ s[c.frames[j].owner].proc = "invoke"
                                      /\ c.frames[j].saved = s[c.frames[j].owner].entry.scope
      BY <3>1, <2>7, ZenonT(60)
    <3> QED BY <3>1, <3>2, <3>3, <2>6, ZenonT(60) DEF Framed
  <2>9. Held(c)
    <3>1. ASSUME NEW j \in 1..(Len(e.frames) + 1)
          PROVE  c.frames[j].saved = Globals \/ <<c.frames[j].saved, "scope">> \in c.roots
      <4>1. CASE j <= Len(e.frames)
        BY SMTT(30), <4>1, <2>2, <1>5, <1>1
      <4>2. CASE j = Len(e.frames) + 1
        BY <4>2, <2>2, <1>6
      <4> QED BY <4>1, <4>2, <1>1
    <3> QED BY <3>1, <2>2, <1>4 DEF Held
  <2> QED BY <2>8, <2>9, <1>2
<1> QED BY <1>7, <1>8

\* A call that has nothing of its own leaves the context it was entered with.
LEMMA BareInside ==
  ASSUME NEW i \in Nat, NEW a, NEW c \in Context, a.entry \in Context, Bare(a), Inside(c, a, i)
  PROVE  c = a.entry
<1>1. /\ c.scope = a.entry.scope /\ c.frames = a.entry.frames
      /\ \A k \in Nat, n \in Name : <<k, n>> \in c.roots <=> <<k, n>> \in a.entry.roots
  BY DEF Bare, Inside
<1> QED BY <1>1, ContextEqual

\* Inside depends on the entry of a call and on what it has.
LEMMA SameInside ==
  ASSUME NEW i, NEW a, NEW b, NEW c, a.entry = b.entry, SameOwn(a, b), Inside(c, a, i)
  PROVE  Inside(c, b, i)
BY DEF SameOwn, Inside

\* A call has nothing of its own when it starts.
LEMMA BareStart ==
  ASSUME NEW p \in Proc, NEW m \in BOOLEAN, NEW c \in Context
  PROVE  /\ NewCall(p, m, c) \in Activation /\ Bare(NewCall(p, m, c))
         /\ NewCall(p, m, c).proc = p /\ NewCall(p, m, c).entry = c
<1>1. NewCall(p, m, c) \in Activation
  BY DEF NewCall, Activation, Pc, Outcome, Ok
<1>2. Bare(NewCall(p, m, c))
  BY DEF Bare, NewCall, OwnScope, OwnFrame, OwnRoot
<1> QED BY <1>1, <1>2 DEF NewCall

\* The context a call starts with is the one it was entered with.
LEMMA StartInside ==
  ASSUME NEW p \in Proc, NEW m \in BOOLEAN, NEW c \in Context, NEW i
  PROVE  Inside(c, NewCall(p, m, c), i)
BY BareStart DEF Inside, Bare

-----------------------------------------------------------------------------
(* The C stack.                                                            *)

\* Good calls can be told where the invariant on calls is one on their function
\* and entry.
LEMMA EnteredCarries ==
  ASSUME NEW s \in Seq(Activation), NEW t \in Seq(Activation), NEW i \in 1..Len(s), i \in 1..Len(t),
         Entered(s, i),
         \A k \in 1..i : t[k].proc = s[k].proc /\ t[k].entry = s[k].entry
  PROVE  Entered(t, i)
<1>1. s[i] \in Activation /\ i \in Nat /\ i \in 1..i
  OBVIOUS
<1>2. s[i].entry.frames \in Seq(Frame)
  BY <1>1 DEF Activation, Context
<1>3. Framed(s, s[i].entry.frames, i)
  BY DEF Entered
<1>4. Framed(t, s[i].entry.frames, i)
  BY SMTT(30), <1>1, <1>2, <1>3, FramedCarries
<1> QED BY <1>1, <1>4 DEF Entered

\* The call on top moves on.
LEMMA ReplaceTop ==
  ASSUME NEW s \in Seq(Activation), NEW c0, Good(s, c0), s # << >>,
         NEW a \in Activation, NEW c,
         a.proc = s[Len(s)].proc, a.entry = s[Len(s)].entry, Inside(c, a, Len(s))
  PROVE  /\ [s EXCEPT ![Len(s)] = a] \in Seq(Activation)
         /\ Good([s EXCEPT ![Len(s)] = a], c)
<1> DEFINE n == Len(s)
           t == [s EXCEPT ![n] = a]
<1>1. /\ n \in Nat \ {0} /\ t \in Seq(Activation) /\ Len(t) = n
      /\ t[n] = a /\ \A k \in 1..(n - 1) : t[k] = s[k]
  <2>1. n \in Nat \ {0} /\ n \in 1..Len(s)
    BY EmptySeq
  <2> QED BY <2>1, ExceptSeq
<1> HIDE DEF t
<1>2. ASSUME NEW k \in 1..n PROVE t[k].proc = s[k].proc /\ t[k].entry = s[k].entry
  <2>1. CASE k = n
    BY <2>1, <1>1
  <2>2. CASE k # n
    <3>1. k \in 1..(n - 1)
      BY <2>2, <1>1
    <3> QED BY <3>1, <1>1
  <2> QED BY <2>1, <2>2
<1>3. ASSUME NEW i \in 1..n PROVE Entered(t, i)
  <2>1. Entered(s, i) /\ i \in 1..Len(t) /\ \A k \in 1..i : k \in 1..n
    BY <1>1 DEF Good
  <2> QED BY <2>1, <1>1, <1>2, EnteredCarries
<1>4. ASSUME NEW i \in 1..n PROVE Inside(IF i = n THEN c ELSE t[i + 1].entry, t[i], i)
  <2>1. CASE i = n
    BY <2>1, <1>1
  <2>2. CASE i # n
    <3>1. i \in 1..(n - 1) /\ i + 1 \in 1..n
      BY <2>2, <1>1
    <3>2. Inside(s[i + 1].entry, s[i], i)
      BY <2>2 DEF Good, Linked
    <3> QED BY <3>1, <3>2, <2>2, <1>1, <1>2
  <2> QED BY <2>1, <2>2
<1>5. Good(t, c)
  BY <1>1, <1>3, <1>4 DEF Good, Linked
<1> QED BY <1>1, <1>5 DEF t

\* What a good stack says of the call on top and of the context.
LEMMA TopGood ==
  ASSUME NEW s \in Seq(Activation), NEW c \in Context, Good(s, c), s # << >>
  PROVE  /\ Len(s) \in Nat \ {0} /\ s[Len(s)] \in Activation /\ s[Len(s)].entry \in Context
         /\ Entered(s, Len(s)) /\ Inside(c, s[Len(s)], Len(s))
         /\ Held(c) /\ Framed(s, c.frames, Len(s) + 1) /\ Below(c.roots, Len(s) + 1)
<1>1. Len(s) \in Nat \ {0} /\ Len(s) \in 1..Len(s) /\ s[Len(s)] \in Activation
  OBVIOUS
<1>2. s[Len(s)].entry \in Context
  BY <1>1 DEF Activation
<1>3. Entered(s, Len(s)) /\ Inside(c, s[Len(s)], Len(s))
  BY <1>1 DEF Good, Linked
<1>4. Held(s[Len(s)].entry) /\ Framed(s, s[Len(s)].entry.frames, Len(s)) /\ Below(s[Len(s)].entry.roots, Len(s))
  BY <1>3 DEF Entered
<1> QED BY <1>1, <1>2, <1>3, <1>4, InsideGood

\* A call begins.
LEMMA PushCall ==
  ASSUME NEW s \in Seq(Activation), NEW c \in Context, Good(s, c), s # << >>,
         NEW p \in Proc \ {"main"}, NEW m \in BOOLEAN
  PROVE  /\ Append(s, NewCall(p, m, c)) \in Seq(Activation)
         /\ Good(Append(s, NewCall(p, m, c)), c)
<1> DEFINE n == Len(s)
           a == NewCall(p, m, c)
           t == Append(s, a)
<1>1. a \in Activation /\ a.proc = p /\ a.entry = c /\ a.proc # "main"
  BY BareStart
<1>2. Inside(c, a, n + 1)
  BY StartInside
<1> HIDE DEF a
<1>3. /\ n \in Nat \ {0} /\ t \in Seq(Activation) /\ Len(t) = n + 1
      /\ t[n + 1] = a /\ \A k \in 1..n : t[k] = s[k]
  BY <1>1
<1> HIDE DEF t
<1>4. Held(c) /\ Framed(s, c.frames, n + 1) /\ Below(c.roots, n + 1)
  BY TopGood
<1>5. c.frames \in Seq(Frame) /\ n + 1 \in Nat
  BY <1>3 DEF Context
<1>6. Framed(t, c.frames, n + 1)
  <2>1. \A k \in 1..(n + 1 - 1) : t[k].proc = s[k].proc /\ t[k].entry = s[k].entry
    BY <1>3
  <2> QED BY <1>4, <1>5, <2>1, FramedCarries
<1>7. Entered(t, n + 1)
  BY <1>1, <1>3, <1>4, <1>6 DEF Entered
<1>8. ASSUME NEW i \in 1..n PROVE Entered(t, i)
  <2>1. Entered(s, i) /\ i \in 1..Len(t) /\ \A k \in 1..i : k \in 1..n
    BY <1>3 DEF Good
  <2> QED BY <2>1, <1>3, EnteredCarries
<1>9. ASSUME NEW i \in 1..(n + 1) PROVE Inside(IF i = n + 1 THEN c ELSE t[i + 1].entry, t[i], i)
  <2>1. CASE i = n + 1
    BY <2>1, <1>2, <1>3
  <2>2. CASE i = n
    <3>1. Inside(c, s[n], n)
      BY TopGood
    <3> QED BY <3>1, <2>2, <1>1, <1>3
  <2>3. CASE i < n
    <3>1. i \in 1..n /\ i + 1 \in 1..n
      BY <2>3, <1>3
    <3>2. Inside(s[i + 1].entry, s[i], i)
      BY <2>3, <3>1 DEF Good, Linked
    <3> QED BY <3>1, <3>2, <2>3, <1>3
  <2> QED BY <2>1, <2>2, <2>3, <1>3
<1>10. \A i \in 1..(n + 1) : i \in 1..n \/ i = n + 1
  BY <1>3
<1>11. Good(t, c)
  BY <1>3, <1>7, <1>8, <1>9, <1>10 DEF Good, Linked
<1> QED BY <1>3, <1>11 DEF t, a

\* What a call is told of another's result changes nothing of its own.
LEMMA ToldSame ==
  ASSUME NEW a \in Activation, NEW r \in Outcome
  PROVE  /\ Told(a, r) \in Activation
         /\ Told(a, r).proc = a.proc /\ Told(a, r).entry = a.entry /\ SameOwn(a, Told(a, r))
<1>1. /\ Told(a, r) \in Activation
      /\ Told(a, r).proc = a.proc /\ Told(a, r).entry = a.entry
      /\ Told(a, r).pc = a.pc /\ Told(a, r).dot = a.dot
  BY DEF Told, Activation
<1> QED BY <1>1 DEF SameOwn, OwnScope, OwnFrame, OwnRoot

\* A call returns and leaves the context it was entered with.
LEMMA PopCall ==
  ASSUME NEW s \in Seq(Activation), NEW c0, Good(s, c0), NEW n \in Nat \ {0}, Len(s) = n + 1,
         NEW r \in Outcome
  PROVE  /\ [SubSeq(s, 1, n) EXCEPT ![n] = Told(@, r)] \in Seq(Activation)
         /\ Good([SubSeq(s, 1, n) EXCEPT ![n] = Told(@, r)], s[n + 1].entry)
<1> DEFINE u == SubSeq(s, 1, n)
           a == Told(s[n], r)
           e == s[n + 1].entry
<1>1. /\ u \in Seq(Activation) /\ Len(u) = n /\ \A k \in 1..n : u[k] = s[k]
  <2>1. \A k \in 1..n : s[k] \in Activation
    OBVIOUS
  <2> QED BY <2>1, SubSeqProperties
<1>2. s[n] \in Activation /\ n \in 1..n
  OBVIOUS
<1>3. a \in Activation /\ a.proc = s[n].proc /\ a.entry = s[n].entry /\ SameOwn(s[n], a)
  BY <1>2, ToldSame
<1> HIDE DEF u
<1>4. [u EXCEPT ![n] = Told(@, r)] = [u EXCEPT ![n] = a] /\ u[n] = s[n]
  BY <1>1, <1>2
<1>0. u # << >>
  BY <1>1
<1> HIDE DEF a
<1>5. ASSUME NEW i \in 1..n PROVE Entered(u, i)
  <2>1. Entered(s, i) /\ i \in 1..Len(s) /\ i \in 1..Len(u) /\ \A k \in 1..i : k \in 1..n
    BY <1>1 DEF Good
  <2> QED BY <2>1, <1>1, EnteredCarries
<1>6. ASSUME NEW i \in 1..n PROVE Inside(s[i + 1].entry, s[i], i)
  <2>1. i \in 1..Len(s) /\ i # Len(s)
    OBVIOUS
  <2> QED BY <2>1 DEF Good, Linked
<1>7. ASSUME NEW i \in 1..n PROVE Inside(IF i = n THEN e ELSE u[i + 1].entry, u[i], i)
  <2>1. CASE i = n
    BY <2>1, <1>1, <1>6
  <2>2. CASE i # n
    <3>1. i + 1 \in 1..n
      BY <2>2
    <3>2. u[i + 1] = s[i + 1] /\ u[i] = s[i]
      BY <3>1, <1>1
    <3> QED BY <3>2, <2>2, <1>6
  <2> QED BY <2>1, <2>2
<1>8. Good(u, e)
  BY <1>1, <1>0, <1>5, <1>7 DEF Good, Linked
<1>9. Inside(e, a, n)
  <2>1. Inside(e, s[n], n)
    BY <1>2, <1>6
  <2> QED BY <2>1, <1>3, SameInside
<1> HIDE DEF e
<1>10. [u EXCEPT ![n] = a] \in Seq(Activation) /\ Good([u EXCEPT ![n] = a], e)
  BY <1>0, <1>1, <1>3, <1>4, <1>8, <1>9, ReplaceTop
<1> QED BY <1>10, <1>4 DEF u, e

-----------------------------------------------------------------------------
(* What Continue, Call, Eval and Return do to the invariant.               *)

\* The call on top may become a, with the context c.
Fits(a, c) ==
  /\ a \in Activation /\ a.proc = top.proc /\ a.entry = top.entry
  /\ c \in Context /\ Inside(c, a, d)

\* A step keeps the invariant, and restores the context when it is a return.
Keeps ==
  /\ TypeOK'
  /\ Good(stack', ctx')
  /\ stack' # << >> /\ Len(stack') < d => ctx' = top.entry

\* The call on top, as the lemmas below need it.
LEMMA TopFacts ==
  ASSUME IInv, stack # << >>
  PROVE  /\ d \in Nat \ {0} /\ top \in Activation /\ top.entry \in Context /\ ctx \in Context
         /\ Inside(ctx, top, d) /\ Below(top.entry.roots, d) /\ Framed(stack, top.entry.frames, d)
         /\ top.proc = "main" <=> d = 1
<1>1. stack \in Seq(Activation) /\ ctx \in Context /\ Good(stack, ctx)
  BY DEF IInv, TypeOK
<1>2. /\ Len(stack) \in Nat \ {0} /\ stack[Len(stack)] \in Activation
      /\ stack[Len(stack)].entry \in Context
      /\ Entered(stack, Len(stack)) /\ Inside(ctx, stack[Len(stack)], Len(stack))
  BY <1>1, TopGood
<1> QED BY <1>1, <1>2 DEF Entered, d, top

\* The stack after the call on top has become a.
LEMMA Replaced ==
  ASSUME IInv, stack # << >>, NEW a, NEW c, Fits(a, c)
  PROVE  /\ [stack EXCEPT ![d] = a] \in Seq(Activation)
         /\ Good([stack EXCEPT ![d] = a], c)
         /\ Len([stack EXCEPT ![d] = a]) = d /\ [stack EXCEPT ![d] = a] # << >>
<1>1. stack \in Seq(Activation) /\ Good(stack, ctx)
  BY DEF IInv, TypeOK
<1>2. /\ [stack EXCEPT ![d] = a] \in Seq(Activation)
      /\ Good([stack EXCEPT ![d] = a], c)
  BY <1>1, ReplaceTop DEF Fits, d, top
<1>3. Len([stack EXCEPT ![d] = a]) = d /\ d \in Nat \ {0}
  BY <1>1, TopFacts DEF d
<1> QED BY <1>2, <1>3

\* A step inside a function.
LEMMA ContinueKeeps ==
  ASSUME IInv, stack # << >>, NEW a, NEW c, Fits(a, c), Continue(a, c)
  PROVE  Keeps
<1>1. stack' = [stack EXCEPT ![d] = a] /\ ctx' = c /\ result' = None
  BY DEF Continue
<1>2. stack' \in Seq(Activation) /\ Good(stack', ctx') /\ Len(stack') = d
  BY <1>1, Replaced
<1>3. d \in Nat
  BY TopFacts
<1> QED BY <1>1, <1>2, <1>3 DEF Keeps, TypeOK, Fits

\* A C function calls another.
LEMMA CallKeeps ==
  ASSUME IInv, stack # << >>, NEW a, NEW c, Fits(a, c),
         NEW p \in Proc \ {"main"}, NEW m \in BOOLEAN, Call(p, m, a, c)
  PROVE  Keeps
<1> DEFINE t == [stack EXCEPT ![d] = a]
<1>1. stack' = Append(t, NewCall(p, m, c)) /\ ctx' = c /\ result' = None
  BY DEF Call
<1>2. t \in Seq(Activation) /\ Good(t, c) /\ t # << >> /\ Len(t) = d /\ c \in Context
  BY Replaced DEF Fits
<1> HIDE DEF t
<1>3. stack' \in Seq(Activation) /\ Good(stack', ctx')
  BY <1>1, <1>2, PushCall
<1>4. Len(stack') = d + 1 /\ d \in Nat
  BY <1>1, <1>2, TopFacts
<1> QED BY <1>1, <1>2, <1>3, <1>4 DEF Keeps, TypeOK

\* A function calls sm_eval, which returns at once or calls another function.
LEMMA EvalKeeps ==
  ASSUME IInv, stack # << >>, NEW a, NEW c, Fits(a, c), Eval(a, c)
  PROVE  Keeps
<1>1. CASE \E p \in FormProc : Call(p, FALSE, a, c)
  <2>1. PICK p \in FormProc : Call(p, FALSE, a, c)
    BY <1>1
  <2>2. p \in Proc \ {"main"}
    BY DEF FormProc, Proc
  <2> QED BY <2>1, <2>2, CallKeeps
<1>2. CASE \E r \in Outcome : /\ stack' = [stack EXCEPT ![d] = Told(a, r)]
                              /\ ctx' = c
                              /\ result' = r
  <2>1. PICK r \in Outcome : /\ stack' = [stack EXCEPT ![d] = Told(a, r)]
                             /\ ctx' = c
                             /\ result' = r
    BY <1>2
  <2>2. /\ Told(a, r) \in Activation
        /\ Told(a, r).proc = a.proc /\ Told(a, r).entry = a.entry /\ SameOwn(a, Told(a, r))
    BY ToldSame DEF Fits
  <2>3. Inside(c, Told(a, r), d)
    BY <2>2, SameInside DEF Fits
  <2>4. Fits(Told(a, r), c)
    BY <2>2, <2>3 DEF Fits
  <2>5. stack' \in Seq(Activation) /\ Good(stack', ctx') /\ Len(stack') = d
    BY <2>1, <2>4, Replaced
  <2>6. d \in Nat
    BY TopFacts
  <2> QED BY <2>1, <2>5, <2>6 DEF Keeps, TypeOK, Fits
<1> QED BY <1>1, <1>2 DEF Eval

\* A function returns in the context it was entered with.
LEMMA ReturnKeeps ==
  ASSUME IInv, stack # << >>, top.proc # "main", NEW r \in Outcome, NEW c, c = top.entry, Return(r, c)
  PROVE  Keeps
<1>1. stack \in Seq(Activation) /\ Good(stack, ctx)
  BY DEF IInv, TypeOK
<1>2. d \in Nat \ {0} /\ d # 1 /\ c \in Context
  BY TopFacts
<1>3. PICK n \in Nat \ {0} : d = n + 1 /\ d - 1 = n
  BY <1>2
<1>4. stack' = [SubSeq(stack, 1, n) EXCEPT ![n] = Told(@, r)] /\ ctx' = c /\ result' = r
  BY <1>3 DEF Return
<1>5. /\ [SubSeq(stack, 1, n) EXCEPT ![n] = Told(@, r)] \in Seq(Activation)
      /\ Good([SubSeq(stack, 1, n) EXCEPT ![n] = Told(@, r)], stack[n + 1].entry)
  BY <1>1, <1>3, PopCall DEF d
<1>6. stack[n + 1].entry = c
  BY SMTT(30), <1>3 DEF top
<1> QED BY <1>2, <1>4, <1>5, <1>6 DEF Keeps, TypeOK

-----------------------------------------------------------------------------
(* What the functions do to their own part of the context.                 *)

\* a is the call on top, at q.
Moved(a, q) ==
  /\ a \in Activation /\ a.proc = top.proc /\ a.entry = top.entry
  /\ a.pc = q /\ a.dot = top.dot

\* The ways the call on top moves on keep its type, function and entry.
LEMMA Moves ==
  ASSUME top \in Activation, NEW q \in Pc
  PROVE  /\ Moved(Goto(q), q)
         /\ \A n \in Nat : Moved([Goto(q) EXCEPT !.left = n], q)
         /\ \A n \in Nat, r \in Outcome : Moved([Goto(q) EXCEPT !.left = n, !.err = r], q)
         /\ \A r \in Outcome : Moved([Goto(q) EXCEPT !.err = r], q)
         /\ top.left > 0 => Moved(Take(q), q)
         /\ top.left > 0 => \A r \in Outcome : Moved([Take(q) EXCEPT !.err = r], q)
<1>1. top.left \in Nat /\ (top.left > 0 => top.left - 1 \in Nat)
  BY DEF Activation
<1> QED BY <1>1 DEF Moved, Goto, Take, Activation

\* A call that keeps what it has fits the context as it is.
LEMMA StayFits ==
  ASSUME IInv, stack # << >>, NEW q, NEW a, Moved(a, q), SameOwn(top, a)
  PROVE  Fits(a, ctx)
<1>1. Inside(ctx, top, d) /\ ctx \in Context
  BY TopFacts
<1>2. Inside(ctx, a, d)
  BY <1>1, SameInside DEF Moved
<1> QED BY <1>1, <1>2 DEF Fits, Moved

\* a has what b has, and the root cell n.
OneMore(b, a, n) ==
  /\ OwnScope(b) <=> OwnScope(a)
  /\ OwnFrame(b) <=> OwnFrame(a)
  /\ \A k \in Name : OwnRoot(a, k) <=> OwnRoot(b, k) \/ k = n

\* sm_heap_root adds a root cell to what a call has.
LEMMA OpenInside ==
  ASSUME d \in Nat, NEW n \in Name, NEW b, NEW a, NEW c \in Context,
         a.entry = b.entry, Inside(c, b, d), OneMore(b, a, n)
  PROVE  Open(c, n) \in Context /\ Inside(Open(c, n), a, d)
<1>1. /\ Open(c, n) \in Context
      /\ Open(c, n).scope = c.scope /\ Open(c, n).frames = c.frames
      /\ Open(c, n).roots = c.roots \cup {<<d, n>>}
  BY DEF Open, Context
<1>2. \A k \in Nat, m \in Name : <<k, m>> \in Open(c, n).roots <=>
         <<k, m>> \in a.entry.roots \/ (k = d /\ OwnRoot(a, m))
  BY <1>1 DEF Inside, OneMore
<1> QED BY <1>1, <1>2 DEF Inside, OneMore

\* a has what b has, but not the root cell n.
OneLess(b, a, n) ==
  /\ OwnScope(b) <=> OwnScope(a)
  /\ OwnFrame(b) <=> OwnFrame(a)
  /\ \A k \in Name : OwnRoot(a, k) <=> OwnRoot(b, k) /\ k # n

\* sm_heap_root_drop takes a root cell from what a call has.
LEMMA CloseInside ==
  ASSUME d \in Nat, NEW n \in Name, NEW b, NEW a, NEW c \in Context,
         a.entry = b.entry, Below(b.entry.roots, d), Inside(c, b, d), OneLess(b, a, n)
  PROVE  Close(c, n) \in Context /\ Inside(Close(c, n), a, d)
<1>1. /\ Close(c, n) \in Context
      /\ Close(c, n).scope = c.scope /\ Close(c, n).frames = c.frames
      /\ Close(c, n).roots = c.roots \ {<<d, n>>}
  BY DEF Close, Context
<1>2. <<d, n>> \notin a.entry.roots
  BY DEF Below
<1>3. \A k \in Nat, m \in Name : <<k, m>> \in Close(c, n).roots <=>
         <<k, m>> \in a.entry.roots \/ (k = d /\ OwnRoot(a, m))
  BY <1>1, <1>2 DEF Inside, OneLess
<1> QED BY <1>1, <1>3 DEF Inside, OneLess

\* The call on top opens a root cell.
LEMMA OpenFits ==
  ASSUME IInv, stack # << >>, NEW n \in Name, NEW q, NEW a, Moved(a, q), OneMore(top, a, n)
  PROVE  Fits(a, Open(ctx, n))
BY TopFacts, OpenInside DEF Fits, Moved

\* The call on top drops a root cell.
LEMMA CloseFits ==
  ASSUME IInv, stack # << >>, NEW n \in Name, NEW q, NEW a, Moved(a, q), OneLess(top, a, n)
  PROVE  Fits(a, Close(ctx, n))
BY TopFacts, CloseInside DEF Fits, Moved

\* A call with nothing of its own left has restored the context.
LEMMA BareRestored ==
  ASSUME IInv, stack # << >>, Bare(top)
  PROVE  ctx = top.entry
BY TopFacts, BareInside

\* A call that drops the last thing it has has restored the context.
LEMMA CloseRestored ==
  ASSUME IInv, stack # << >>, NEW n \in Name, ~OwnScope(top), ~OwnFrame(top),
         \A k \in Name : OwnRoot(top, k) => k = n
  PROVE  Close(ctx, n) = top.entry
<1> DEFINE a == NewCall(top.proc, FALSE, top.entry)
<1>1. top.proc \in Proc /\ top.entry \in Context
  BY TopFacts DEF Activation
<1>2. Bare(a) /\ a.entry = top.entry
  BY <1>1, BareStart
<1> HIDE DEF a
<1>3. OneLess(top, a, n)
  BY <1>2 DEF OneLess, Bare
<1>4. Close(ctx, n) \in Context /\ Inside(Close(ctx, n), a, d) /\ d \in Nat
  BY <1>2, <1>3, TopFacts, CloseInside
<1> QED BY <1>1, <1>2, <1>4, BareInside

-----------------------------------------------------------------------------
(* The functions.                                                          *)

\* Functions that do nothing to the context themselves.
Plain == {"main", "progn", "setq", "and", "unary", "if", "ignore-errors"}

\* Every step of a function that does nothing to the context.
LEMMA PlainKeeps ==
  ASSUME IInv, stack # << >>, top.proc \in Plain
  PROVE  /\ \A q \in Pc : \A a : Moved(a, q) /\ (Continue(a, ctx) \/ Eval(a, ctx)) => Keeps
         /\ \A r \in Outcome : top.proc # "main" /\ Return(r, ctx) => Keeps
<1>1. Bare(top)
  BY DEF Plain, Bare, OwnScope, OwnFrame, OwnRoot
<1>2. ASSUME NEW q \in Pc, NEW a, Moved(a, q), Continue(a, ctx) \/ Eval(a, ctx)
      PROVE  Keeps
  <2>1. SameOwn(top, a)
    BY <1>1, <1>2 DEF Plain, SameOwn, Bare, Moved, OwnScope, OwnFrame, OwnRoot
  <2>2. Fits(a, ctx)
    BY <1>2, <2>1, StayFits
  <2> QED BY <1>2, <2>2, ContinueKeeps, EvalKeeps
<1>3. ctx = top.entry
  BY <1>1, BareRestored
<1> QED BY <1>2, <1>3, ReturnKeeps

\* The moves a function can make, all typed.
LEMMA TopMoves ==
  ASSUME IInv, stack # << >>, NEW q \in Pc
  PROVE  /\ Moved(Goto(q), q)
         /\ \A n \in 0..MaxForms : Moved([Goto(q) EXCEPT !.left = n], q)
         /\ \A n \in 0..MaxForms, r \in Outcome : Moved([Goto(q) EXCEPT !.left = n, !.err = r], q)
         /\ \A r \in Outcome : Moved([Goto(q) EXCEPT !.err = r], q)
         /\ top.left > 0 => Moved(Take(q), q)
         /\ top.left > 0 => \A r \in Outcome : Moved([Take(q) EXCEPT !.err = r], q)
<1>1. top \in Activation /\ \A n \in 0..MaxForms : n \in Nat
  BY TopFacts
<1> QED BY <1>1, Moves

\* A function begins to look at a list of forms.
LEMMA FormsKeeps ==
  ASSUME IInv, stack # << >>, NEW q \in Pc, NEW c,
         \A a : Moved(a, q) => Fits(a, c), Forms(q, c)
  PROVE  Keeps
<1>1. PICK n \in 0..MaxForms : Continue([Goto(q) EXCEPT !.left = n], c)
  BY DEF Forms
<1>2. Fits([Goto(q) EXCEPT !.left = n], c)
  BY TopMoves
<1> QED BY <1>1, <1>2, ContinueKeeps

\* The same for a function that does nothing to the context.
LEMMA PlainForms ==
  ASSUME IInv, stack # << >>, top.proc \in Plain, NEW q \in Pc, Forms(q, ctx)
  PROVE  Keeps
<1>1. PICK n \in 0..MaxForms : Continue([Goto(q) EXCEPT !.left = n], ctx)
  BY DEF Forms
<1> QED BY <1>1, TopMoves, PlainKeeps

\* main: the evaluation of a form, and the end of the program.
LEMMA MainKeeps == IInv /\ Main => Keeps
<1> SUFFICES ASSUME IInv, Main PROVE Keeps
  OBVIOUS
<1>1. stack # << >> /\ top.proc = "main"
  BY ZenonT(60) DEF Main, At
<1>2. CASE Eval(Goto("ran"), ctx)
  BY <1>1, <1>2, TopMoves, PlainKeeps, ZenonT(60) DEF Plain, Pc
<1>3. CASE stack' = << >> /\ result' = None /\ UNCHANGED ctx
  <2>1. /\ Held(ctx) /\ Framed(stack, ctx.frames, d + 1) /\ ctx \in Context
    BY <1>1, TopGood DEF IInv, TypeOK, d
  <2>2. Good(stack', ctx')
    BY <1>3, <2>1 DEF Good, Linked, Framed
  <2> QED BY <1>3, <2>1, <2>2 DEF Keeps, TypeOK
<1> QED BY <1>2, <1>3 DEF Main

\* progn.
LEMMA PrognKeeps == IInv /\ Progn => Keeps
<1> SUFFICES ASSUME IInv, Progn PROVE Keeps
  OBVIOUS
<1>1. stack # << >> /\ top.proc = "progn" /\ top.proc \in Plain /\ top.proc # "main"
  BY DEF Progn, At, Plain
<1>2. {"args", "next"} \subseteq Pc /\ {Ok, Err} \subseteq Outcome
  BY DEF Pc, Outcome
<1>3. CASE Forms("args", ctx)
  BY <1>1, <1>2, <1>3, PlainForms
<1>4. CASE top.left > 0 /\ Eval(Take("next"), ctx)
  BY <1>1, <1>2, <1>4, TopMoves, PlainKeeps
<1>5. CASE Continue(Goto("args"), ctx)
  BY <1>1, <1>2, <1>5, TopMoves, PlainKeeps
<1>6. CASE Return(Ok, ctx) \/ Return(Err, ctx)
  BY <1>1, <1>2, <1>6, PlainKeeps
<1> QED BY <1>3, <1>4, <1>5, <1>6 DEF Progn

\* setq.
LEMMA SetqKeeps == IInv /\ Setq => Keeps
<1> SUFFICES ASSUME IInv, Setq PROVE Keeps
  OBVIOUS
<1>1. stack # << >> /\ top.proc = "setq" /\ top.proc \in Plain /\ top.proc # "main"
  BY DEF Setq, At, Plain
<1>2. {"args", "next"} \subseteq Pc /\ {Ok, Err} \subseteq Outcome
  BY DEF Pc, Outcome
<1>3. CASE \E n \in 1..MaxForms : Continue([Goto("args") EXCEPT !.left = n], ctx)
  <2>1. Forms("args", ctx)
    BY <1>3, BoundsAssumption DEF Forms
  <2> QED BY <1>1, <1>2, <2>1, PlainForms
<1>4. CASE top.left > 0 /\ Eval(Take("next"), ctx)
  BY <1>1, <1>2, <1>4, TopMoves, PlainKeeps
<1>5. CASE Continue(Goto("args"), ctx)
  BY <1>1, <1>2, <1>5, TopMoves, PlainKeeps
<1>6. CASE Return(Ok, ctx) \/ Return(Err, ctx)
  BY <1>1, <1>2, <1>6, PlainKeeps
<1> QED BY <1>3, <1>4, <1>5, <1>6 DEF Setq

\* and, or.
LEMMA AndOrKeeps == IInv /\ AndOr => Keeps
<1> SUFFICES ASSUME IInv, AndOr PROVE Keeps
  OBVIOUS
<1>1. stack # << >> /\ top.proc = "and" /\ top.proc \in Plain /\ top.proc # "main"
  BY DEF AndOr, At, Plain
<1>2. {"args", "next"} \subseteq Pc /\ {Ok, Err} \subseteq Outcome
  BY DEF Pc, Outcome
<1>3. CASE Forms("args", ctx)
  BY <1>1, <1>2, <1>3, PlainForms
<1>4. CASE top.left > 0 /\ Eval(Take("next"), ctx)
  BY <1>1, <1>2, <1>4, TopMoves, PlainKeeps
<1>5. CASE Continue(Goto("args"), ctx)
  BY <1>1, <1>2, <1>5, TopMoves, PlainKeeps
<1>6. CASE Return(Ok, ctx) \/ Return(Err, ctx)
  BY <1>1, <1>2, <1>6, PlainKeeps
<1> QED BY <1>3, <1>4, <1>5, <1>6 DEF AndOr

\* The builtins of one argument.
LEMMA UnaryKeeps == IInv /\ Unary => Keeps
<1> SUFFICES ASSUME IInv, Unary PROVE Keeps
  OBVIOUS
<1>1. stack # << >> /\ top.proc = "unary" /\ top.proc \in Plain /\ top.proc # "main"
  BY ZenonT(60) DEF Unary, At, Plain
<1>2. CASE Eval(Goto("ran"), ctx)
  BY <1>1, <1>2, TopMoves, PlainKeeps, ZenonT(60) DEF Pc
<1>3. CASE \E r \in Outcome : Return(r, ctx)
  BY <1>1, <1>3, PlainKeeps
<1> QED BY <1>2, <1>3 DEF Unary, Outcome

\* if.
LEMMA IfKeeps == IInv /\ If => Keeps
<1> SUFFICES ASSUME IInv, If PROVE Keeps
  OBVIOUS
<1>1. stack # << >> /\ top.proc = "if" /\ top.proc \in Plain /\ top.proc # "main"
  BY ZenonT(60) DEF If, At, Plain
<1>2. CASE Eval(Goto("test"), ctx) \/ Eval(Goto("branch"), ctx)
  BY <1>1, <1>2, TopMoves, PlainKeeps, ZenonT(60) DEF Pc
<1>3. CASE \E r \in Outcome : Return(r, ctx)
  BY <1>1, <1>3, PlainKeeps
<1> QED BY <1>2, <1>3 DEF If, Outcome

\* ignore-errors.
LEMMA IgnoreErrorsKeeps == IInv /\ IgnoreErrors => Keeps
<1> SUFFICES ASSUME IInv, IgnoreErrors PROVE Keeps
  OBVIOUS
<1>1. stack # << >> /\ top.proc = "ignore-errors" /\ top.proc \in Plain /\ top.proc # "main"
  BY DEF IgnoreErrors, At, Plain
<1>2. {"args", "next"} \subseteq Pc /\ {Ok, Err} \subseteq Outcome
  BY DEF Pc, Outcome
<1>3. CASE Forms("args", ctx)
  BY <1>1, <1>2, <1>3, PlainForms
<1>4. CASE top.left > 0 /\ Eval(Take("next"), ctx)
  BY <1>1, <1>2, <1>4, TopMoves, PlainKeeps
<1>5. CASE Continue(Goto("args"), ctx)
  BY <1>1, <1>2, <1>5, TopMoves, PlainKeeps
<1>6. CASE Return(Ok, ctx) \/ Return(Err, ctx)
  BY <1>1, <1>2, <1>6, PlainKeeps
<1> QED BY <1>3, <1>4, <1>5, <1>6 DEF IgnoreErrors

\* sm_eval of a list: its root cell is open exactly while the function runs.
LEMMA CallListKeeps == IInv /\ CallList => Keeps
<1> SUFFICES ASSUME IInv, CallList PROVE Keeps
  OBVIOUS
<1>1. stack # << >> /\ top.proc = "call"
  BY DEF CallList, At
<1>2. {"head", "called"} \subseteq Pc /\ {Ok, Err} \subseteq Outcome /\ "fn" \in Name
  BY DEF Pc, Outcome, Name
<1>3. CASE At("call", "start", None) /\ Eval(Goto("head"), ctx)
  <2>1. Moved(Goto("head"), "head")
    BY <1>1, <1>2, TopMoves
  <2>2. SameOwn(top, Goto("head"))
    BY <1>1, <1>3, <2>1 DEF At, SameOwn, Moved, OwnScope, OwnFrame, OwnRoot
  <2> QED BY <1>1, <1>3, <2>1, <2>2, StayFits, EvalKeeps
<1>4. CASE (At("call", "head", Err) \/ At("call", "head", Ok)) /\ Return(Err, ctx)
  <2>1. Bare(top)
    BY <1>4 DEF At, Bare, OwnScope, OwnFrame, OwnRoot
  <2> QED BY <1>1, <1>2, <1>4, <2>1, BareRestored, ReturnKeeps
<1>5. CASE At("call", "head", Ok) /\ \E m \in BOOLEAN : Call("invoke", m, Goto("called"), Open(ctx, "fn"))
  <2>1. Moved(Goto("called"), "called")
    BY <1>1, <1>2, TopMoves
  <2>2. OneMore(top, Goto("called"), "fn")
    BY <1>1, <1>5, <2>1 DEF At, OneMore, Moved, OwnScope, OwnFrame, OwnRoot
  <2>3. Fits(Goto("called"), Open(ctx, "fn"))
    BY <1>1, <1>2, <2>1, <2>2, OpenFits
  <2>4. "invoke" \in Proc \ {"main"}
    BY DEF Proc
  <2> QED BY <1>1, <1>5, <2>3, <2>4, CallKeeps
<1>6. CASE \E r \in Outcome : At("call", "called", r) /\ Return(r, Close(ctx, "fn"))
  <2>1. /\ ~OwnScope(top) /\ ~OwnFrame(top)
        /\ \A k \in Name : OwnRoot(top, k) => k = "fn"
    BY <1>6 DEF At, OwnScope, OwnFrame, OwnRoot
  <2>2. Close(ctx, "fn") = top.entry
    BY <1>1, <1>2, <2>1, CloseRestored
  <2> QED BY <1>1, <1>6, <2>2, ReturnKeeps
<1> QED BY <1>3, <1>4, <1>5, <1>6 DEF CallList

\* Leaving a frame undoes what entering it did.
LEMMA ExitEntered ==
  ASSUME d \in Nat, NEW c \in Context, NEW e \in Context, Len(e.frames) > 0,
         c.frames = Append(e.frames, [owner |-> d, saved |-> e.scope])
  PROVE  /\ ExitFrame(c) \in Context
         /\ ExitFrame(c).scope = e.scope /\ ExitFrame(c).frames = e.frames /\ ExitFrame(c).roots = c.roots
<1> DEFINE s == e.scope
           f == e.frames
           g == [owner |-> d, saved |-> s]
<1>0. s \in Nat /\ f \in Seq(Frame)
  BY DEF Context
<1>1. g \in Frame
  BY <1>0 DEF Frame
<1>2. Len(c.frames) = Len(f) + 1 /\ Len(f) \in Nat /\ c.frames[Len(f) + 1] = g
  BY <1>0, <1>1
<1>3. SubSeq(c.frames, 1, Len(c.frames) - 1) = f
  BY <1>0, <1>1, <1>2, AppendProperties
<1> HIDE DEF s, f
<1>4. c.frames[Len(c.frames)].saved = s /\ Len(c.frames) > 1
  BY <1>2
<1>5. ExitFrame(c) = [c EXCEPT !.scope = s, !.frames = f]
  BY <1>3, <1>4, ZenonT(60) DEF ExitFrame
<1>6. [c EXCEPT !.scope = s, !.frames = f] \in Context
  BY <1>0, ZenonT(60) DEF Context
<1>7. /\ [c EXCEPT !.scope = s, !.frames = f].scope = s
      /\ [c EXCEPT !.scope = s, !.frames = f].frames = f
      /\ [c EXCEPT !.scope = s, !.frames = f].roots = c.roots
  BY ZenonT(60) DEF Context
<1> QED BY <1>5, <1>6, <1>7 DEF s, f

\* What a call is yet to open it has not inherited.
LEMMA NotInherited ==
  ASSUME NEW i \in Nat, NEW n \in Name, NEW R, Below(R, i)
  PROVE  <<i, n>> \notin R
BY DEF Below

\* sm_heap_frame saves the current scope in a new frame.
LEMMA EnterTyped ==
  ASSUME d \in Nat, NEW c \in Context
  PROVE  /\ EnterFrame(c) \in Context
         /\ EnterFrame(c).scope = c.scope /\ EnterFrame(c).roots = c.roots
         /\ EnterFrame(c).frames = Append(c.frames, [owner |-> d, saved |-> c.scope])
<1>1. [owner |-> d, saved |-> c.scope] \in Frame /\ c.frames \in Seq(Frame)
  BY DEF Context, Frame
<1>2. Append(c.frames, [owner |-> d, saved |-> c.scope]) \in Seq(Frame)
  BY <1>1
<1> QED BY <1>2 DEF EnterFrame, Context

\* A function leaves its body with the context it was entered with.
LEMMA BodyLeft ==
  ASSUME IInv, stack # << >>, top.proc = "invoke", top.pc \in {"body", "ran"}
  PROVE  Close(ExitFrame(ctx), "scope") = top.entry
<1> DEFINE e == top.entry
           c == ExitFrame(ctx)
           b == NewCall(top.proc, FALSE, top.entry)
<1>1. /\ d \in Nat /\ e \in Context /\ ctx \in Context /\ Inside(ctx, top, d)
      /\ e.frames \in Seq(Frame) /\ Len(e.frames) > 0 /\ e.scope \in Nat
  BY TopFacts DEF Framed, Context
<1>2. OwnFrame(top) /\ OwnScope(top) /\ \A n \in Name : OwnRoot(top, n) <=> n = "scope"
  BY DEF OwnFrame, OwnScope, OwnRoot
<1>3. ctx.frames = Append(e.frames, [owner |-> d, saved |-> e.scope])
  BY <1>1, <1>2 DEF Inside
<1>4. c \in Context /\ c.scope = e.scope /\ c.frames = e.frames /\ c.roots = ctx.roots
  <2> HIDE DEF e
  <2>1. /\ ExitFrame(ctx) \in Context
        /\ ExitFrame(ctx).scope = e.scope /\ ExitFrame(ctx).frames = e.frames
        /\ ExitFrame(ctx).roots = ctx.roots
    BY <1>1, <1>3, ExitEntered, ZenonT(60)
  <2> QED BY <2>1
<1> HIDE DEF c
<1>5. /\ Close(c, "scope").scope = e.scope /\ Close(c, "scope").frames = e.frames
      /\ Close(c, "scope").roots = ctx.roots \ {<<d, "scope">>}
      /\ Close(c, "scope") \in Context
  BY <1>4 DEF Close, Context
<1>6. \A k \in Nat, n \in Name : <<k, n>> \in Close(c, "scope").roots <=> <<k, n>> \in e.roots
  <2>1. \A k \in Nat, n \in Name : <<k, n>> \in ctx.roots <=>
          <<k, n>> \in e.roots \/ (k = d /\ n = "scope")
    BY <1>1, <1>2 DEF Inside
  <2>2. <<d, "scope">> \notin e.roots
    <3>1. "scope" \in Name /\ Below(e.roots, d)
      BY TopFacts DEF Name
    <3> QED BY <3>1, <1>1, NotInherited
  <2> QED BY <1>5, <2>1, <2>2
<1>7. Close(c, "scope") = e
  BY <1>1, <1>5, <1>6, ContextEqual
<1> QED BY <1>7 DEF c

\* The end of the body of a function or macro, with an error or without.
LEMMA BodyDoneKeeps ==
  ASSUME IInv, stack # << >>, top.proc = "invoke", top.pc \in {"body", "ran"},
         NEW a, NEW q, Moved(a, q), BodyDone(a)
  PROVE  Keeps
<1> DEFINE e == top.entry
           b == [a EXCEPT !.pc = "expanded"]
           c == Open(EnterFrame(e), "form")
<1>1. Close(ExitFrame(ctx), "scope") = e
  BY BodyLeft
<1>2. CASE Eval(b, c)
  <2>1. /\ b \in Activation /\ b.proc = "invoke" /\ b.entry = e /\ b.pc = "expanded"
    BY DEF Moved, Activation, Pc
  <2>2. d \in Nat /\ e \in Context
    BY TopFacts
  <2>3. /\ EnterFrame(e) \in Context
        /\ EnterFrame(e).scope = e.scope /\ EnterFrame(e).roots = e.roots
        /\ EnterFrame(e).frames = Append(e.frames, [owner |-> d, saved |-> e.scope])
    BY <2>2, EnterTyped
  <2>4. c \in Context /\ c.scope = e.scope /\ c.frames = EnterFrame(e).frames
        /\ c.roots = e.roots \cup {<<d, "form">>}
    BY <2>2, <2>3, SMTT(30) DEF Open, Context, Name
  <2>5. OwnFrame(b) /\ ~OwnScope(b) /\ \A n \in Name : OwnRoot(b, n) <=> n = "form"
    BY <2>1 DEF OwnFrame, OwnScope, OwnRoot
  <2> HIDE DEF b, c
  <2>6. Inside(c, b, d)
    BY <2>1, <2>2, <2>3, <2>4, <2>5 DEF Inside
  <2>7. Fits(b, c)
    BY <2>1, <2>4, <2>6 DEF Fits
  <2> QED BY <1>2, <2>7, EvalKeeps
<1>3. CASE Return(a.err, e)
  <2>1. a.err \in Outcome
    BY DEF Moved, Activation
  <2> QED BY <1>3, <2>1, ReturnKeeps
<1> QED BY <1>1, <1>2, <1>3 DEF BodyDone

\* sm_function_invoke: scope, frame and root cells on every path.
LEMMA InvokeKeeps == IInv /\ Invoke => Keeps
<1> SUFFICES ASSUME IInv, Invoke PROVE Keeps
  OBVIOUS
<1>1. stack # << >> /\ top.proc = "invoke"
  BY DEF Invoke, At
<1>2. /\ {"unpacked", "body", "ran", "expanded"} \subseteq Pc
      /\ {Ok, Err} \subseteq Outcome /\ {"scope", "form"} \subseteq Name
  BY DEF Pc, Outcome, Name
<1>3. CASE At("invoke", "start", None) /\ Call("unpack", FALSE, Goto("unpacked"), Open(ctx, "scope"))
  <2>1. Moved(Goto("unpacked"), "unpacked")
    BY <1>1, <1>2, TopMoves
  <2>2. OneMore(top, Goto("unpacked"), "scope")
    BY <1>1, <1>3, <2>1 DEF At, OneMore, Moved, OwnScope, OwnFrame, OwnRoot
  <2>3. Fits(Goto("unpacked"), Open(ctx, "scope"))
    BY <1>1, <1>2, <2>1, <2>2, OpenFits
  <2>4. "unpack" \in Proc \ {"main"}
    BY DEF Proc
  <2> QED BY <1>1, <1>3, <2>3, <2>4, CallKeeps
<1>4. CASE At("invoke", "unpacked", Err) /\ Return(Err, Close(ctx, "scope"))
  <2>1. /\ ~OwnScope(top) /\ ~OwnFrame(top)
        /\ \A k \in Name : OwnRoot(top, k) => k = "scope"
    BY <1>4 DEF At, OwnScope, OwnFrame, OwnRoot
  <2>2. Close(ctx, "scope") = top.entry
    BY <1>1, <1>2, <2>1, CloseRestored
  <2> QED BY <1>1, <1>2, <1>4, <2>2, ReturnKeeps
<1>5. CASE At("invoke", "unpacked", Ok) /\ Forms("body", [EnterFrame(ctx) EXCEPT !.scope = d])
  <2> DEFINE c == [EnterFrame(ctx) EXCEPT !.scope = d]
             e == top.entry
  <2>1. d \in Nat /\ e \in Context /\ ctx \in Context /\ Inside(ctx, top, d)
    BY <1>1, TopFacts
  <2>2. /\ ~OwnScope(top) /\ ~OwnFrame(top)
        /\ \A k \in Name : OwnRoot(top, k) <=> k = "scope"
    BY <1>5 DEF At, OwnScope, OwnFrame, OwnRoot
  <2>3. /\ EnterFrame(ctx) \in Context /\ EnterFrame(ctx).roots = ctx.roots
        /\ EnterFrame(ctx).frames = Append(ctx.frames, [owner |-> d, saved |-> ctx.scope])
    BY <2>1, EnterTyped
  <2>4. c \in Context /\ c.scope = d /\ c.roots = ctx.roots /\ c.frames = EnterFrame(ctx).frames
    BY <2>1, <2>3 DEF Context
  <2> HIDE DEF c
  <2>5. ASSUME NEW a, Moved(a, "body") PROVE Fits(a, c)
    <3>1. a \in Activation /\ a.proc = "invoke" /\ a.pc = "body" /\ a.entry = e
      BY <1>1, <2>5 DEF Moved
    <3>2. OwnScope(a) /\ OwnFrame(a) /\ \A k \in Name : OwnRoot(a, k) <=> k = "scope"
      BY <3>1 DEF OwnScope, OwnFrame, OwnRoot
    <3>3. Inside(c, a, d)
      BY <2>1, <2>2, <2>3, <2>4, <3>1, <3>2 DEF Inside
    <3> QED BY <1>1, <2>4, <3>1, <3>3 DEF Fits
  <2>6. Forms("body", c)
    BY <1>5 DEF c
  <2> QED BY <1>1, <1>2, <2>5, <2>6, FormsKeeps
<1>6. CASE At("invoke", "body", None) /\ top.left > 0 /\ Eval(Take("ran"), ctx)
  <2>1. Moved(Take("ran"), "ran")
    BY <1>1, <1>2, <1>6, TopMoves
  <2>2. SameOwn(top, Take("ran"))
    BY <1>1, <1>6, <2>1 DEF At, SameOwn, Moved, OwnScope, OwnFrame, OwnRoot
  <2> QED BY <1>1, <1>6, <2>1, <2>2, StayFits, EvalKeeps
<1>7. CASE At("invoke", "ran", Ok) /\ Continue(Goto("body"), ctx)
  <2>1. Moved(Goto("body"), "body")
    BY <1>1, <1>2, TopMoves
  <2>2. SameOwn(top, Goto("body"))
    BY <1>1, <1>7, <2>1 DEF At, SameOwn, Moved, OwnScope, OwnFrame, OwnRoot
  <2> QED BY <1>1, <1>7, <2>1, <2>2, StayFits, ContinueKeeps
<1>8. CASE At("invoke", "body", None) /\ top.left = 0 /\ BodyDone(top)
  <2>1. Moved(top, "body")
    BY <1>1, <1>8, TopFacts DEF Moved, At
  <2> QED BY <1>1, <1>8, <2>1, BodyDoneKeeps DEF At
<1>9. CASE At("invoke", "ran", Err) /\ BodyDone([top EXCEPT !.err = Err])
  <2>1. Moved([top EXCEPT !.err = Err], "ran")
    BY <1>1, <1>2, <1>9, TopFacts DEF Moved, At, Activation
  <2> QED BY <1>1, <1>9, <2>1, BodyDoneKeeps DEF At
<1>10. CASE \E r \in Outcome : At("invoke", "expanded", r) /\ Return(r, ExitFrame(Close(ctx, "form")))
  <2> DEFINE c == Close(ctx, "form")
             e == top.entry
  <2>1. /\ d \in Nat /\ e \in Context /\ ctx \in Context /\ Inside(ctx, top, d)
        /\ e.frames \in Seq(Frame) /\ Len(e.frames) > 0 /\ e.scope \in Nat
    BY <1>1, TopFacts DEF Framed, Context
  <2>2. OwnFrame(top) /\ ~OwnScope(top) /\ \A n \in Name : OwnRoot(top, n) <=> n = "form"
    BY <1>10 DEF At, OwnFrame, OwnScope, OwnRoot
  <2>3. /\ c \in Context /\ c.scope = ctx.scope /\ c.frames = ctx.frames
        /\ c.roots = ctx.roots \ {<<d, "form">>}
    BY <2>1 DEF Close, Context
  <2> HIDE DEF c
  <2>4. c.frames = Append(e.frames, [owner |-> d, saved |-> e.scope])
    BY <2>1, <2>2, <2>3 DEF Inside
  <2>5. /\ ExitFrame(c) \in Context
        /\ ExitFrame(c).scope = e.scope /\ ExitFrame(c).frames = e.frames /\ ExitFrame(c).roots = c.roots
    <3> HIDE DEF e
    <3> QED BY <2>1, <2>3, <2>4, ExitEntered, ZenonT(60)
  <2>6. \A k \in Nat, n \in Name : <<k, n>> \in ExitFrame(c).roots <=> <<k, n>> \in e.roots
    <3>1. \A k \in Nat, n \in Name : <<k, n>> \in ctx.roots <=>
            <<k, n>> \in e.roots \/ (k = d /\ n = "form")
      BY <2>1, <2>2 DEF Inside
    <3>2. <<d, "form">> \notin e.roots
      <4>1. "form" \in Name /\ Below(e.roots, d)
        BY <1>1, TopFacts DEF Name
      <4> QED BY <4>1, <2>1, NotInherited
    <3> QED BY <2>3, <2>5, <3>1, <3>2
  <2>7. ExitFrame(c) = e
    BY <2>1, <2>5, <2>6, ContextEqual
  <2>8. \E r \in Outcome : Return(r, ExitFrame(c))
    BY <1>10 DEF c
  <2> QED BY <1>1, <2>7, <2>8, ReturnKeeps
<1> QED BY <1>3, <1>4, <1>5, <1>6, <1>7, <1>8, <1>9, <1>10 DEF Invoke

\* Setting ctx->scope to a scope of one's own.
LEMMA ScopeInside ==
  ASSUME d \in Nat, NEW b, NEW a, NEW c \in Context, Inside(c, b, d),
         a.entry = b.entry, OwnScope(a), OwnFrame(a) <=> OwnFrame(b),
         \A n \in Name : OwnRoot(a, n) <=> OwnRoot(b, n)
  PROVE  [c EXCEPT !.scope = d] \in Context /\ Inside([c EXCEPT !.scope = d], a, d)
<1>1. /\ [c EXCEPT !.scope = d] \in Context
      /\ [c EXCEPT !.scope = d].scope = d
      /\ [c EXCEPT !.scope = d].frames = c.frames /\ [c EXCEPT !.scope = d].roots = c.roots
  BY DEF Context
<1> QED BY <1>1 DEF Inside

\* let and let* make their scope; let* also makes it current.
LEMMA LetStarts ==
  ASSUME IInv, stack # << >>, top.proc \in {"let", "let*"}, top.pc = "start", NEW a, Moved(a, "bind")
  PROVE  Fits(a, IF top.proc = "let" THEN Open(ctx, "scope") ELSE [Open(ctx, "scope") EXCEPT !.scope = d])
<1> DEFINE b == [a EXCEPT !.proc = "let"]
<1>1. /\ d \in Nat /\ ctx \in Context /\ Inside(ctx, top, d) /\ "scope" \in Name
      /\ top.entry \in Context
  BY TopFacts DEF Name
<1>2. /\ b.proc = "let" /\ b.pc = "bind" /\ b.entry = top.entry
      /\ a.pc = "bind" /\ a.entry = top.entry /\ a.proc = top.proc
  BY DEF Moved, Activation
<1> HIDE DEF b
<1>3. OneMore(top, b, "scope")
  BY <1>2 DEF OneMore, OwnScope, OwnFrame, OwnRoot
<1>4. Open(ctx, "scope") \in Context /\ Inside(Open(ctx, "scope"), b, d)
  BY <1>1, <1>2, <1>3, OpenInside
<1>5. CASE top.proc = "let"
  <2>1. SameOwn(b, a)
    BY <1>2, <1>5 DEF SameOwn, OwnScope, OwnFrame, OwnRoot
  <2>2. Inside(Open(ctx, "scope"), a, d)
    BY <1>2, <1>4, <2>1, SameInside
  <2> QED BY <1>4, <1>5, <2>2 DEF Fits, Moved
<1>6. CASE top.proc = "let*"
  <2>1. OwnScope(a) /\ (OwnFrame(a) <=> OwnFrame(b)) /\ \A n \in Name : OwnRoot(a, n) <=> OwnRoot(b, n)
    BY <1>2, <1>6 DEF OwnScope, OwnFrame, OwnRoot
  <2>2. /\ [Open(ctx, "scope") EXCEPT !.scope = d] \in Context
        /\ Inside([Open(ctx, "scope") EXCEPT !.scope = d], a, d)
    BY <1>1, <1>2, <1>4, <2>1, ScopeInside
  <2> QED BY <1>6, <2>2 DEF Fits, Moved
<1> QED BY <1>5, <1>6

\* The bindings of let and let* end in the scope they made.
LEMMA LetScopeFits ==
  ASSUME IInv, stack # << >>, top.proc \in {"let", "let*"}, top.pc # "start", NEW a, Moved(a, "body")
  PROVE  Fits(a, LetScope(ctx))
<1>1. d \in Nat /\ ctx \in Context /\ Inside(ctx, top, d)
  BY TopFacts
<1>2. a.proc = top.proc /\ a.pc = "body" /\ a.entry = top.entry
  BY DEF Moved
<1>3. /\ OwnScope(a)
      /\ OwnFrame(a) <=> OwnFrame(top)
      /\ \A n \in Name : OwnRoot(a, n) <=> OwnRoot(top, n)
  BY <1>2 DEF OwnScope, OwnFrame, OwnRoot
<1>4. CASE top.proc = "let"
  <2>1. [ctx EXCEPT !.scope = d] \in Context /\ Inside([ctx EXCEPT !.scope = d], a, d)
    BY <1>1, <1>2, <1>3, ScopeInside
  <2>2. LetScope(ctx) = [ctx EXCEPT !.scope = d]
    BY <1>4 DEF LetScope
  <2>3. LetScope(ctx) \in Context /\ Inside(LetScope(ctx), a, d)
    BY <2>1, <2>2
  <2> QED BY <2>3 DEF Fits, Moved
<1>5. CASE top.proc = "let*"
  <2>1. SameOwn(top, a)
    BY <1>2, <1>3, <1>5 DEF SameOwn, OwnScope
  <2> QED BY <1>5, <2>1, StayFits DEF LetScope
<1> QED BY <1>4, <1>5

\* let and let* go on to their body.
LEMMA BodyKeeps ==
  ASSUME IInv, stack # << >>, top.proc \in {"let", "let*"}, top.pc # "start",
         NEW r \in Outcome, Body(r, LetScope(ctx))
  PROVE  Keeps
<1>1. PICK n \in 0..MaxForms :
         Continue([Goto("body") EXCEPT !.left = n, !.err = r], LetScope(ctx))
  BY DEF Body
<1>2. "body" \in Pc
  BY DEF Pc
<1>3. Moved([Goto("body") EXCEPT !.left = n, !.err = r], "body")
  BY <1>2, TopMoves
<1>4. Fits([Goto("body") EXCEPT !.left = n, !.err = r], LetScope(ctx))
  BY <1>3, LetScopeFits
<1> QED BY <1>1, <1>4, ContinueKeeps

\* At their end let and let* give back the scope they found.
LEMMA LetDoneRestored ==
  ASSUME IInv, stack # << >>, top.proc \in {"let", "let*"}, top.pc = "body"
  PROVE  LetDone = top.entry
<1> DEFINE e == top.entry
           c == [ctx EXCEPT !.scope = e.scope]
<1>1. d \in Nat /\ e \in Context /\ ctx \in Context /\ Inside(ctx, top, d) /\ Below(e.roots, d)
  BY TopFacts
<1>2. ~OwnFrame(top) /\ \A n \in Name : OwnRoot(top, n) <=> n = "scope"
  BY DEF OwnFrame, OwnRoot
<1>3. c \in Context /\ c.scope = e.scope /\ c.frames = e.frames /\ c.roots = ctx.roots
  BY <1>1, <1>2 DEF Inside, Context
<1>4. LetDone = Close(c, "scope")
  BY DEF LetDone
<1> HIDE DEF c
<1>5. /\ Close(c, "scope") \in Context
      /\ Close(c, "scope").scope = e.scope /\ Close(c, "scope").frames = e.frames
      /\ Close(c, "scope").roots = ctx.roots \ {<<d, "scope">>}
  BY <1>3 DEF Close, Context
<1>6. \A k \in Nat, n \in Name : <<k, n>> \in Close(c, "scope").roots <=> <<k, n>> \in e.roots
  <2>1. \A k \in Nat, n \in Name : <<k, n>> \in ctx.roots <=>
          <<k, n>> \in e.roots \/ (k = d /\ n = "scope")
    BY <1>1, <1>2 DEF Inside
  <2>2. <<d, "scope">> \notin e.roots
    <3>1. "scope" \in Name
      BY DEF Name
    <3> QED BY <3>1, <1>1, NotInherited
  <2> QED BY <1>5, <2>1, <2>2
<1>7. Close(c, "scope") = e
  BY <1>1, <1>5, <1>6, ContextEqual
<1> QED BY <1>4, <1>7

\* A function that keeps what it has while it goes on.
LEMMA StayKeeps ==
  ASSUME IInv, stack # << >>, NEW q, NEW a, Moved(a, q), SameOwn(top, a),
         Continue(a, ctx) \/ Eval(a, ctx)
  PROVE  Keeps
BY StayFits, ContinueKeeps, EvalKeeps

\* let and let*, on every path.
LEMMA LetKeeps ==
  ASSUME IInv, NEW p \in {"let", "let*"}, LetForms(p)
  PROVE  Keeps
<1>1. stack # << >> /\ top.proc = p /\ top.proc \in {"let", "let*"} /\ top.proc # "main"
  BY DEF LetForms, At
<1>2. {"bind", "bound", "body", "ran"} \subseteq Pc /\ {Ok, Err} \subseteq Outcome
  BY DEF Pc, Outcome
<1>3. CASE At(p, "start", None) /\ Return(Err, ctx)
  <2>1. Bare(top)
    BY <1>1, <1>3 DEF At, Bare, OwnScope, OwnFrame, OwnRoot
  <2> QED BY <1>1, <1>2, <1>3, <2>1, BareRestored, ReturnKeeps
<1>4. CASE At(p, "start", None)
             /\ Forms("bind", IF p = "let" THEN Open(ctx, "scope") ELSE [Open(ctx, "scope") EXCEPT !.scope = d])
  <2> DEFINE c == IF top.proc = "let" THEN Open(ctx, "scope") ELSE [Open(ctx, "scope") EXCEPT !.scope = d]
  <2>1. ASSUME NEW a, Moved(a, "bind") PROVE Fits(a, c)
    BY <1>1, <1>4, <2>1, LetStarts DEF At
  <2>2. Forms("bind", c)
    BY <1>1, <1>4
  <2> HIDE DEF c
  <2> QED BY <1>1, <1>2, <2>1, <2>2, FormsKeeps
<1>5. CASE At(p, "bind", None) /\ top.left > 0 /\ Body(Err, LetScope(ctx))
  BY <1>1, <1>2, <1>5, BodyKeeps DEF At
<1>6. CASE At(p, "bind", None) /\ top.left > 0 /\ Continue(Take("bind"), ctx)
  <2>1. Moved(Take("bind"), "bind")
    BY <1>1, <1>2, <1>6, TopMoves
  <2>2. SameOwn(top, Take("bind"))
    BY <1>1, <1>6, <2>1 DEF At, SameOwn, Moved, OwnScope, OwnFrame, OwnRoot
  <2> QED BY <1>1, <1>6, <2>1, <2>2, StayKeeps
<1>7. CASE At(p, "bind", None) /\ top.left > 0 /\ Eval(Take("bound"), ctx)
  <2>1. Moved(Take("bound"), "bound")
    BY <1>1, <1>2, <1>7, TopMoves
  <2>2. SameOwn(top, Take("bound"))
    BY <1>1, <1>7, <2>1 DEF At, SameOwn, Moved, OwnScope, OwnFrame, OwnRoot
  <2> QED BY <1>1, <1>7, <2>1, <2>2, StayKeeps
<1>8. CASE At(p, "bound", Ok) /\ Continue(Goto("bind"), ctx)
  <2>1. Moved(Goto("bind"), "bind")
    BY <1>1, <1>2, TopMoves
  <2>2. SameOwn(top, Goto("bind"))
    BY <1>1, <1>8, <2>1 DEF At, SameOwn, Moved, OwnScope, OwnFrame, OwnRoot
  <2> QED BY <1>1, <1>8, <2>1, <2>2, StayKeeps
<1>9. CASE \/ At(p, "bound", Err) /\ Body(Ok, LetScope(ctx))
           \/ At(p, "bind", None) /\ top.left = 0 /\ Body(Ok, LetScope(ctx))
  BY <1>1, <1>2, <1>9, BodyKeeps DEF At
<1>10. CASE At(p, "body", None) /\ top.err = Ok /\ top.left > 0
              /\ (Eval(Take("ran"), ctx) \/ Continue([Take("body") EXCEPT !.err = Err], ctx))
  <2>1. Moved(Take("ran"), "ran") /\ Moved([Take("body") EXCEPT !.err = Err], "body")
    BY <1>1, <1>2, <1>10, TopMoves
  <2>2. SameOwn(top, Take("ran")) /\ SameOwn(top, [Take("body") EXCEPT !.err = Err])
    BY <1>1, <1>10, <2>1 DEF At, SameOwn, Moved, OwnScope, OwnFrame, OwnRoot
  <2> QED BY <1>1, <1>10, <2>1, <2>2, StayKeeps
<1>11. CASE \E r \in Outcome : At(p, "ran", r) /\ Continue([Goto("body") EXCEPT !.err = r], ctx)
  <2>1. PICK r \in Outcome : At(p, "ran", r) /\ Continue([Goto("body") EXCEPT !.err = r], ctx)
    BY <1>11
  <2>2. Moved([Goto("body") EXCEPT !.err = r], "body")
    BY <1>1, <1>2, TopMoves
  <2>3. SameOwn(top, [Goto("body") EXCEPT !.err = r])
    BY <1>1, <2>1, <2>2 DEF At, SameOwn, Moved, OwnScope, OwnFrame, OwnRoot
  <2> QED BY <1>1, <2>1, <2>2, <2>3, StayKeeps
<1>12. CASE At(p, "body", None) /\ (top.err = Err \/ top.left = 0) /\ Return(top.err, LetDone)
  <2>1. LetDone = top.entry
    BY <1>1, <1>12, LetDoneRestored DEF At
  <2>2. top.err \in Outcome
    BY <1>1, TopFacts DEF Activation
  <2> QED BY <1>1, <1>12, <2>1, <2>2, ReturnKeeps
<1> QED BY <1>3, <1>4, <1>5, <1>6, <1>7, <1>8, <1>9, <1>10, <1>11, <1>12 DEF LetForms

\* The root cell of the dotted part, if any, is the last thing a call of
\* sm_arg_pattern_unpack or sm_arg_pattern_eval gives back.
LEMMA DotDropped ==
  ASSUME IInv, stack # << >>, top.proc \in {"unpack", "args"}
  PROVE  Close(ctx, "dot") = top.entry /\ DropDot(ctx) = top.entry
<1>1. /\ ~OwnScope(top) /\ ~OwnFrame(top)
      /\ \A k \in Name : OwnRoot(top, k) => k = "dot"
  BY DEF OwnScope, OwnFrame, OwnRoot
<1>2. Close(ctx, "dot") = top.entry
  BY <1>1, CloseRestored DEF Name
<1>3. CASE ~top.dot
  <2>1. Bare(top)
    BY <1>1, <1>3 DEF Bare, OwnRoot
  <2> QED BY <1>2, <1>3, <2>1, BareRestored DEF DropDot
<1>4. CASE top.dot
  BY <1>2, <1>4 DEF DropDot
<1> QED BY <1>2, <1>3, <1>4

\* A call that has begun to evaluate the dotted part of its arguments.
LEMMA DottedPart ==
  ASSUME IInv, stack # << >>, NEW q \in Pc
  PROVE  /\ [Goto(q) EXCEPT !.dot = TRUE] \in Activation
         /\ [Goto(q) EXCEPT !.dot = TRUE].proc = top.proc
         /\ [Goto(q) EXCEPT !.dot = TRUE].entry = top.entry
         /\ [Goto(q) EXCEPT !.dot = TRUE].pc = q /\ [Goto(q) EXCEPT !.dot = TRUE].dot
<1>1. Moved(Goto(q), q)
  BY TopMoves
<1> QED BY <1>1 DEF Moved, Activation

\* sm_arg_pattern_unpack, on every path.
LEMMA UnpackKeeps == IInv /\ Unpack => Keeps
<1> SUFFICES ASSUME IInv, Unpack PROVE Keeps
  OBVIOUS
<1>1. stack # << >> /\ top.proc = "unpack" /\ top.proc # "main"
  BY DEF Unpack, At
<1>2. /\ {"dot", "checked", "args", "next"} \subseteq Pc
      /\ {Ok, Err} \subseteq Outcome /\ "dot" \in Name
  BY DEF Pc, Outcome, Name
<1>3. ASSUME NEW q, NEW a, Moved(a, q) PROVE SameOwn(top, a)
  BY <1>1, <1>3 DEF SameOwn, Moved, OwnScope, OwnFrame, OwnRoot
<1>4. CASE Eval([Goto("dot") EXCEPT !.dot = TRUE], Open(ctx, "dot"))
  <2> DEFINE a == [Goto("dot") EXCEPT !.dot = TRUE]
  <2>1. a \in Activation /\ a.proc = top.proc /\ a.entry = top.entry /\ a.pc = "dot" /\ a.dot
    BY <1>1, <1>2, DottedPart
  <2> HIDE DEF a
  <2>2. OneMore(top, a, "dot")
    BY <1>1, <2>1 DEF OneMore, OwnScope, OwnFrame, OwnRoot
  <2>3. d \in Nat /\ ctx \in Context /\ Inside(ctx, top, d)
    BY <1>1, TopFacts
  <2>4. Fits(a, Open(ctx, "dot"))
    BY <1>2, <2>1, <2>2, <2>3, OpenInside DEF Fits
  <2> QED BY <1>1, <1>4, <2>4, EvalKeeps DEF a
<1>5. CASE Continue(Goto("checked"), ctx) \/ Continue(Goto("args"), ctx)
  <2>1. Moved(Goto("checked"), "checked") /\ Moved(Goto("args"), "args")
    BY <1>1, <1>2, TopMoves
  <2> QED BY <1>1, <1>3, <1>5, <2>1, StayKeeps
<1>6. CASE Forms("args", ctx)
  <2>1. ASSUME NEW a, Moved(a, "args") PROVE Fits(a, ctx)
    BY <1>1, <1>3, <2>1, StayFits
  <2> QED BY <1>1, <1>2, <1>6, <2>1, FormsKeeps
<1>7. CASE top.left > 0 /\ Eval(Take("next"), ctx)
  <2>1. Moved(Take("next"), "next")
    BY <1>1, <1>2, <1>7, TopMoves
  <2> QED BY <1>1, <1>3, <1>7, <2>1, StayKeeps
<1>8. CASE Return(Err, Close(ctx, "dot")) \/ Return(Err, DropDot(ctx)) \/ Return(Ok, DropDot(ctx))
  BY <1>1, <1>2, <1>8, DotDropped, ReturnKeeps
<1> QED BY <1>4, <1>5, <1>6, <1>7, <1>8 DEF Unpack

\* sm_arg_pattern_eval, on every path.
LEMMA ArgsKeeps == IInv /\ Args => Keeps
<1> SUFFICES ASSUME IInv, Args PROVE Keeps
  OBVIOUS
<1>1. stack # << >> /\ top.proc = "args" /\ top.proc # "main"
  BY DEF Args, At
<1>2. /\ {"dot", "checked", "args", "next"} \subseteq Pc
      /\ {Ok, Err} \subseteq Outcome /\ "dot" \in Name
  BY DEF Pc, Outcome, Name
<1>3. CASE At("args", "start", None) /\ Eval([Goto("dot") EXCEPT !.dot = TRUE], ctx)
  <2> DEFINE a == [Goto("dot") EXCEPT !.dot = TRUE]
  <2>1. a \in Activation /\ a.proc = top.proc /\ a.entry = top.entry /\ a.pc = "dot" /\ a.dot
    BY <1>1, <1>2, DottedPart
  <2> HIDE DEF a
  <2>2. SameOwn(top, a)
    BY <1>1, <1>3, <2>1 DEF At, SameOwn, OwnScope, OwnFrame, OwnRoot
  <2>3. ctx \in Context /\ Inside(ctx, top, d)
    BY <1>1, TopFacts
  <2>4. Fits(a, ctx)
    BY <2>1, <2>2, <2>3, SameInside DEF Fits
  <2> QED BY <1>1, <1>3, <2>4, EvalKeeps DEF a
<1>4. CASE /\ At("args", "start", None) \/ At("args", "dot", Ok)
           /\ Continue(Goto("checked"), ctx)
  <2>1. Moved(Goto("checked"), "checked")
    BY <1>1, <1>2, TopMoves
  <2>2. SameOwn(top, Goto("checked"))
    BY <1>1, <1>4, <2>1 DEF At, SameOwn, Moved, OwnScope, OwnFrame, OwnRoot
  <2> QED BY <1>1, <1>4, <2>1, <2>2, StayKeeps
<1>5. CASE /\ At("args", "dot", Err) \/ At("args", "checked", None)
           /\ \E r \in Outcome : Return(r, ctx)
  <2>1. Bare(top)
    BY <1>1, <1>5 DEF At, Bare, OwnScope, OwnFrame, OwnRoot
  <2> QED BY <1>1, <1>5, <2>1, BareRestored, ReturnKeeps
<1>6. CASE At("args", "checked", None) /\ Forms("args", IF top.dot THEN Open(ctx, "dot") ELSE ctx)
  <2> DEFINE c == IF top.dot THEN Open(ctx, "dot") ELSE ctx
  <2>1. ASSUME NEW a, Moved(a, "args"), top.dot PROVE Fits(a, c)
    <3>1. OneMore(top, a, "dot")
      BY <1>1, <1>6, <2>1 DEF At, OneMore, Moved, OwnScope, OwnFrame, OwnRoot
    <3> QED BY <1>1, <1>2, <2>1, <3>1, OpenFits
  <2>2. ASSUME NEW a, Moved(a, "args"), ~top.dot PROVE Fits(a, c)
    <3>1. SameOwn(top, a)
      BY <1>1, <1>6, <2>2 DEF At, SameOwn, Moved, OwnScope, OwnFrame, OwnRoot
    <3> QED BY <1>1, <2>2, <3>1, StayFits
  <2> HIDE DEF c
  <2> QED BY <1>1, <1>2, <1>6, <2>1, <2>2, FormsKeeps DEF c
<1>7. CASE At("args", "args", None) /\ top.left > 0 /\ Eval(Take("next"), ctx)
  <2>1. Moved(Take("next"), "next")
    BY <1>1, <1>2, <1>7, TopMoves
  <2>2. SameOwn(top, Take("next"))
    BY <1>1, <1>7, <2>1 DEF At, SameOwn, Moved, OwnScope, OwnFrame, OwnRoot
  <2> QED BY <1>1, <1>7, <2>1, <2>2, StayKeeps
<1>8. CASE At("args", "next", Ok) /\ Continue(Goto("args"), ctx)
  <2>1. Moved(Goto("args"), "args")
    BY <1>1, <1>2, TopMoves
  <2>2. SameOwn(top, Goto("args"))
    BY <1>1, <1>8, <2>1 DEF At, SameOwn, Moved, OwnScope, OwnFrame, OwnRoot
  <2> QED BY <1>1, <1>8, <2>1, <2>2, StayKeeps
<1>9. CASE \E r \in Outcome : Return(r, DropDot(ctx))
  BY <1>1, <1>9, DotDropped, ReturnKeeps
<1> QED BY <1>2, <1>3, <1>4, <1>5, <1>6, <1>7, <1>8, <1>9 DEF Args

\* eval.
LEMMA EvalTwiceKeeps == IInv /\ EvalTwice => Keeps
<1> SUFFICES ASSUME IInv, EvalTwice PROVE Keeps
  OBVIOUS
<1>1. stack # << >> /\ top.proc = "eval" /\ top.proc # "main"
  BY DEF EvalTwice, At
<1>2. {"first", "second"} \subseteq Pc /\ {Ok, Err} \subseteq Outcome /\ "form" \in Name
  BY DEF Pc, Outcome, Name
<1>3. CASE At("eval", "start", None) /\ Return(Err, ctx)
  <2>1. Bare(top)
    BY <1>1, <1>3 DEF At, Bare, OwnScope, OwnFrame, OwnRoot
  <2> QED BY <1>1, <1>2, <1>3, <2>1, BareRestored, ReturnKeeps
<1>4. CASE At("eval", "start", None) /\ Eval(Goto("first"), Open(ctx, "form"))
  <2>1. Moved(Goto("first"), "first")
    BY <1>1, <1>2, TopMoves
  <2>2. OneMore(top, Goto("first"), "form")
    BY <1>1, <1>4, <2>1 DEF At, OneMore, Moved, OwnScope, OwnFrame, OwnRoot
  <2> QED BY <1>1, <1>2, <1>4, <2>1, <2>2, OpenFits, EvalKeeps
<1>5. CASE At("eval", "first", Ok) /\ Eval(Goto("second"), ctx)
  <2>1. Moved(Goto("second"), "second")
    BY <1>1, <1>2, TopMoves
  <2>2. SameOwn(top, Goto("second"))
    BY <1>1, <1>5, <2>1 DEF At, SameOwn, Moved, OwnScope, OwnFrame, OwnRoot
  <2> QED BY <1>1, <1>5, <2>1, <2>2, StayKeeps
<1>6. CASE \E r \in Outcome : Return(r, Close(ctx, "form"))
  <2>1. /\ ~OwnScope(top) /\ ~OwnFrame(top)
        /\ \A k \in Name : OwnRoot(top, k) => k = "form"
    BY <1>1 DEF OwnScope, OwnFrame, OwnRoot
  <2>2. Close(ctx, "form") = top.entry
    BY <1>1, <1>2, <2>1, CloseRestored
  <2> QED BY <1>1, <1>6, <2>2, ReturnKeeps
<1> QED BY <1>2, <1>3, <1>4, <1>5, <1>6 DEF EvalTwice

\* append.
LEMMA AppendListsKeeps == IInv /\ AppendLists => Keeps
<1> SUFFICES ASSUME IInv, AppendLists PROVE Keeps
  OBVIOUS
<1>1. stack # << >> /\ top.proc = "append" /\ top.proc # "main"
  BY DEF AppendLists, At
<1>2. /\ {"args", "next", "rest", "ran"} \subseteq Pc /\ {Ok, Err} \subseteq Outcome /\ "tmp" \in Name
  BY DEF Pc, Outcome, Name
<1>3. CASE /\ At("append", "start", None) \/ At("append", "next", Err)
           /\ \E r \in Outcome : Return(r, ctx)
  <2>1. Bare(top)
    BY <1>1, <1>3 DEF At, Bare, OwnScope, OwnFrame, OwnRoot
  <2> QED BY <1>1, <1>3, <2>1, BareRestored, ReturnKeeps
<1>4. CASE At("append", "start", None) /\ Forms("args", ctx)
  <2>1. ASSUME NEW a, Moved(a, "args") PROVE Fits(a, ctx)
    <3>1. SameOwn(top, a)
      BY <1>1, <1>4, <2>1 DEF At, SameOwn, Moved, OwnScope, OwnFrame, OwnRoot
    <3> QED BY <1>1, <2>1, <3>1, StayFits
  <2> QED BY <1>1, <1>2, <1>4, <2>1, FormsKeeps
<1>5. CASE At("append", "args", None) /\ top.left > 0 /\ Eval(Take("next"), ctx)
  <2>1. Moved(Take("next"), "next")
    BY <1>1, <1>2, <1>5, TopMoves
  <2>2. SameOwn(top, Take("next"))
    BY <1>1, <1>5, <2>1 DEF At, SameOwn, Moved, OwnScope, OwnFrame, OwnRoot
  <2> QED BY <1>1, <1>5, <2>1, <2>2, StayKeeps
<1>6. CASE At("append", "next", Ok) /\ Continue(Goto("args"), ctx)
  <2>1. Moved(Goto("args"), "args")
    BY <1>1, <1>2, TopMoves
  <2>2. SameOwn(top, Goto("args"))
    BY <1>1, <1>6, <2>1 DEF At, SameOwn, Moved, OwnScope, OwnFrame, OwnRoot
  <2> QED BY <1>1, <1>6, <2>1, <2>2, StayKeeps
<1>7. CASE /\ At("append", "next", Ok) \/ At("append", "args", None)
           /\ Continue(Goto("rest"), Open(ctx, "tmp"))
  <2>1. Moved(Goto("rest"), "rest")
    BY <1>1, <1>2, TopMoves
  <2>2. OneMore(top, Goto("rest"), "tmp")
    BY <1>1, <1>7, <2>1 DEF At, OneMore, Moved, OwnScope, OwnFrame, OwnRoot
  <2> QED BY <1>1, <1>2, <1>7, <2>1, <2>2, OpenFits, ContinueKeeps
<1>8. CASE At("append", "rest", None) /\ top.left > 0 /\ Eval(Take("ran"), ctx)
  <2>1. Moved(Take("ran"), "ran")
    BY <1>1, <1>2, <1>8, TopMoves
  <2>2. SameOwn(top, Take("ran"))
    BY <1>1, <1>8, <2>1 DEF At, SameOwn, Moved, OwnScope, OwnFrame, OwnRoot
  <2> QED BY <1>1, <1>8, <2>1, <2>2, StayKeeps
<1>9. CASE At("append", "ran", Ok) /\ Continue(Goto("rest"), ctx)
  <2>1. Moved(Goto("rest"), "rest")
    BY <1>1, <1>2, TopMoves
  <2>2. SameOwn(top, Goto("rest"))
    BY <1>1, <1>9, <2>1 DEF At, SameOwn, Moved, OwnScope, OwnFrame, OwnRoot
  <2> QED BY <1>1, <1>9, <2>1, <2>2, StayKeeps
<1>10. CASE \E r \in Outcome : Return(r, Close(ctx, "tmp"))
  <2>1. /\ ~OwnScope(top) /\ ~OwnFrame(top)
        /\ \A k \in Name : OwnRoot(top, k) => k = "tmp"
    BY <1>1 DEF OwnScope, OwnFrame, OwnRoot
  <2>2. Close(ctx, "tmp") = top.entry
    BY <1>1, <1>2, <2>1, CloseRestored
  <2> QED BY <1>1, <1>10, <2>2, ReturnKeeps
<1> QED BY <1>2, <1>3, <1>4, <1>5, <1>6, <1>7, <1>8, <1>9, <1>10 DEF AppendLists

-----------------------------------------------------------------------------
(* The theorems.                                                           *)

\* main starts with the global scope, its own frame and two root cells.
LEMMA Starts == Init => IInv
<1> SUFFICES ASSUME Init PROVE IInv
  OBVIOUS
<1> DEFINE g == [owner |-> 0, saved |-> Globals]
           a == NewCall("main", FALSE, ctx)
<1>1. ctx.scope = 0 /\ ctx.frames = <<g>> /\ ctx.roots = {<<0, "forms">>, <<0, "res">>}
  BY DEF Init, Globals
<1>2. g \in Frame
  BY DEF Frame, Globals
<1>3. ctx \in Context
  <2>1. <<g>> \in Seq(Frame)
    BY <1>2
  <2>2. {<<0, "forms">>, <<0, "res">>} \in SUBSET (Nat \X Name)
    BY DEF Name
  <2> QED BY <2>1, <2>2 DEF Init, Context, Globals
<1>4. a \in Activation /\ a.proc = "main" /\ a.entry = ctx /\ Inside(ctx, a, 1)
  <2>1. "main" \in Proc
    BY DEF Proc
  <2> QED BY <1>3, <2>1, BareStart, StartInside
<1>5. stack = <<a>> /\ result = None
  BY DEF Init
<1> HIDE DEF a
<1>6. stack \in Seq(Activation) /\ Len(stack) = 1 /\ stack[1] = a /\ stack # << >>
  BY <1>4, <1>5
<1>7. Len(ctx.frames) = 1 /\ ctx.frames[1] = g
  BY <1>1
<1>8. Held(ctx)
  BY <1>1, <1>7 DEF Held, Globals
<1>9. Framed(stack, ctx.frames, 1)
  BY <1>7 DEF Framed, Ordered
<1>10. Below(ctx.roots, 1)
  BY <1>1 DEF Below
<1>11. Entered(stack, 1)
  BY <1>4, <1>6, <1>8, <1>9, <1>10 DEF Entered
<1>12. Good(stack, ctx)
  BY <1>4, <1>6, <1>11 DEF Good, Linked
<1> QED BY <1>3, <1>5, <1>6, <1>12 DEF IInv, TypeOK

\* Every step keeps the invariant, and restores the context when it is a return.
LEMMA StepKeeps == IInv /\ Next => Keeps
<1> SUFFICES ASSUME IInv, Next PROVE Keeps
  OBVIOUS
<1>1. CASE Let
  BY <1>1, LetKeeps DEF Let
<1>2. CASE LetStar
  BY <1>2, LetKeeps DEF LetStar
<1> QED BY <1>1, <1>2, MainKeeps, CallListKeeps, InvokeKeeps, UnpackKeeps, ArgsKeeps, PrognKeeps,
           SetqKeeps, AndOrKeeps, UnaryKeeps, IfKeeps, IgnoreErrorsKeeps, EvalTwiceKeeps,
           AppendListsKeeps DEF Next

\* The invariant of the induction.
LEMMA Inductive == Spec => []IInv
<1>1. IInv /\ [Next]_vars => IInv'
  <2> SUFFICES ASSUME IInv, [Next]_vars PROVE IInv'
    OBVIOUS
  <2>1. CASE Next
    BY <2>1, StepKeeps DEF Keeps, IInv
  <2>2. CASE UNCHANGED vars
    BY <2>2 DEF vars, IInv, TypeOK, Good, Linked
  <2> QED BY <2>1, <2>2
<1> QED BY Starts, <1>1, PTL DEF Spec

\* What the invariant says of a context inside a call.
LEMMA ContextGood ==
  ASSUME IInv
  PROVE  /\ ctx \in Context /\ Held(ctx) /\ Ordered(ctx.frames)
         /\ stack # << >> => d \in Nat /\ Framed(stack, ctx.frames, d + 1)
<1>1. ctx \in Context /\ stack \in Seq(Activation) /\ Good(stack, ctx)
  BY DEF IInv, TypeOK
<1>2. CASE stack = << >>
  BY <1>1, <1>2 DEF Good
<1>3. CASE stack # << >>
  <2>1. Held(ctx) /\ Framed(stack, ctx.frames, d + 1) /\ d \in Nat
    BY <1>1, <1>3, TopGood DEF d
  <2> QED BY <1>1, <2>1 DEF Framed
<1> QED BY <1>2, <1>3

\* The context, the C stack and what calls return keep their types, whatever
\* forms eval.c, function.c, args.c and builtins.c are given.
THEOREM Typed == Spec => []TypeOK
<1>1. IInv => TypeOK
  BY DEF IInv
<1> QED BY Inductive, <1>1, PTL

\* The evaluation of a form leaves scope, frames and root cells as it found
\* them: no early return or break of a builtin or of sm_function_invoke leaves a
\* root cell open, a frame entered or a scope current (a stack of any depth).
THEOREM EvaluationRestores == Spec => Restores
<1>1. IInv /\ [Next]_vars => [stack' # << >> /\ Len(stack') < Len(stack) => ctx' = top.entry]_vars
  BY StepKeeps DEF Keeps, d
<1> QED BY Inductive, <1>1, PTL DEF Spec, Restores

\* The frames sm_error and sm_heap_gc walk belong to calls of sm_function_invoke
\* that have not returned, in their order, and each gives back the scope its
\* call started from.
THEOREM FramesStayAlive == Spec => []FramesAlive
<1>1. IInv => FramesAlive
  <2> SUFFICES ASSUME IInv, NEW i \in 2..Len(ctx.frames)
               PROVE  /\ ctx.frames[i - 1].owner < ctx.frames[i].owner
                      /\ stack # << >> => /\ ctx.frames[i].owner \in 1..d
                                          /\ stack[ctx.frames[i].owner].proc = "invoke"
                                          /\ ctx.frames[i].saved = stack[ctx.frames[i].owner].entry.scope
    BY DEF FramesAlive
  <2>1. ctx.frames \in Seq(Frame) /\ Ordered(ctx.frames)
    BY ContextGood DEF Context
  <2>2. i \in 1..Len(ctx.frames) /\ ctx.frames[i].owner \in Nat
    BY <2>1, FrameAt
  <2>3. CASE stack # << >>
    <3>1. d \in Nat /\ Framed(stack, ctx.frames, d + 1)
      BY <2>3, ContextGood
    <3>2. ctx.frames[i - 1].owner < ctx.frames[i].owner
      BY <2>1, ZenonT(60) DEF Ordered
    <3>3. ctx.frames[i].owner < d + 1
      BY <2>2, <3>1, ZenonT(60) DEF Framed
    <3>4. /\ ctx.frames[i].owner > 0
          /\ stack[ctx.frames[i].owner].proc = "invoke"
          /\ ctx.frames[i].saved = stack[ctx.frames[i].owner].entry.scope
      BY <3>1, ZenonT(60) DEF Framed
    <3>5. ctx.frames[i].owner \in 1..d
      BY <2>2, <3>1, <3>3, <3>4
    <3> QED BY <3>2, <3>4, <3>5, ZenonT(60)
  <2> QED BY <2>1, <2>3 DEF Ordered
<1> QED BY Inductive, <1>1, PTL

\* Every scope that is current, or that a frame will make current again, is held
\* by an open root cell: no scope of let, let* or a function is used after
\* sm_heap_root_drop.
THEOREM ScopesStayHeld == Spec => []ScopeHeld
<1>1. IInv => ScopeHeld
  BY SMTT(30), ContextGood DEF Held, ScopeHeld
<1> QED BY Inductive, <1>1, PTL

-----------------------------------------------------------------------------
(* Errors.  While a call has not returned, what failed below it is either   *)
(* forgiven by its function or the very thing it is about to look at.       *)

\* The functions that go on after an error, and may return success.
Forgives(a) ==
  a.proc \in {"ignore-errors", "let", "let*"} \/ (a.proc = "invoke" /\ a.macro)

Quiet(a) == a.failed => Forgives(a)

\* The inductive invariant: only the call on top may have to report an error.
Reported == \A i \in 1..d : Quiet(stack[i]) \/ (i = d /\ result = Err)

\* A step keeps it, and no error is lost by a return.
Reports ==
  /\ Reported'
  /\ stack' # << >> /\ Len(stack') < d /\ result' = Ok /\ top.failed => Forgives(top)

\* a is the call on top, elsewhere in its function.
SameCall(a) ==
  a \in Activation /\ a.proc = top.proc /\ a.macro = top.macro /\ a.failed = top.failed

\* A call that moves on stays the same call.
LEMMA SameMoves ==
  ASSUME IInv, stack # << >>, NEW q \in Pc
  PROVE  /\ SameCall(Goto(q))
         /\ \A n \in 0..MaxForms : SameCall([Goto(q) EXCEPT !.left = n])
         /\ \A n \in 0..MaxForms, r \in Outcome : SameCall([Goto(q) EXCEPT !.left = n, !.err = r])
         /\ \A r \in Outcome : SameCall([Goto(q) EXCEPT !.err = r])
         /\ SameCall([Goto(q) EXCEPT !.dot = TRUE])
         /\ \A r \in Outcome : SameCall([[top EXCEPT !.err = r] EXCEPT !.pc = q])
         /\ top.left > 0 => SameCall(Take(q))
         /\ top.left > 0 => \A r \in Outcome : SameCall([Take(q) EXCEPT !.err = r])
<1>1. top \in Activation /\ \A n \in 0..MaxForms : n \in Nat
  BY TopFacts
<1>2. top.left \in Nat /\ (top.left > 0 => top.left - 1 \in Nat)
  BY <1>1 DEF Activation
<1> QED BY <1>1, <1>2 DEF SameCall, Goto, Take, Activation

\* A call that has nothing to report moves on: whatever its callee tells it next.
LEMMA MoveReports ==
  ASSUME IInv, Reported, stack # << >>, Quiet(top),
         NEW a, NEW c, SameCall(a), Continue(a, c) \/ Eval(a, c) \/ \E p \in Proc, m \in BOOLEAN : Call(p, m, a, c)
  PROVE  Reports
<1>1. stack \in Seq(Activation) /\ d \in Nat \ {0} /\ d = Len(stack)
  BY TopFacts DEF IInv, TypeOK, d
<1>2. \A i \in 1..(d - 1) : Quiet(stack[i])
  BY <1>1 DEF Reported
<1>3. Quiet(a)
  BY DEF SameCall, Quiet, Forgives
<1> DEFINE t == [stack EXCEPT ![d] = a]
<1>4. t \in Seq(Activation) /\ Len(t) = d /\ t[d] = a /\ \A i \in 1..(d - 1) : t[i] = stack[i]
  BY <1>1, ExceptSeq DEF SameCall
<1>5. \A i \in 1..d : Quiet(t[i])
  BY <1>1, <1>2, <1>3, <1>4
<1> HIDE DEF t
<1>6. CASE Continue(a, c)
  <2>1. stack' = t
    BY <1>6 DEF Continue, t
  <2> QED BY <2>1, <1>1, <1>4, <1>5 DEF Reports, Reported, d
<1>7. CASE \E p \in Proc, m \in BOOLEAN : Call(p, m, a, c)
  <2>1. PICK p \in Proc, m \in BOOLEAN : stack' = Append(t, NewCall(p, m, c))
    BY <1>7 DEF Call, t
  <2>2. Quiet(NewCall(p, m, c))
    BY DEF Quiet, NewCall
  <2>3. Len(stack') = d + 1 /\ stack'[d + 1] = NewCall(p, m, c) /\ \A i \in 1..d : stack'[i] = t[i]
    BY <2>1, <1>1, <1>4
  <2> QED BY <2>2, <2>3, <1>1, <1>5 DEF Reports, Reported, d
<1>8. CASE \E r \in Outcome : stack' = [stack EXCEPT ![d] = Told(a, r)] /\ ctx' = c /\ result' = r
  <2>1. PICK r \in Outcome : stack' = [stack EXCEPT ![d] = Told(a, r)] /\ result' = r
    BY <1>8
  <2>2. Told(a, r) \in Activation /\ (r # Err => Quiet(Told(a, r)))
    BY <1>3 DEF Told, SameCall, Activation, Quiet, Forgives
  <2>3. Len(stack') = d /\ stack'[d] = Told(a, r) /\ \A i \in 1..(d - 1) : stack'[i] = stack[i]
    BY <2>1, <2>2, <1>1, ExceptSeq
  <2>4. \A i \in 1..d : Quiet(stack'[i]) \/ (i = d /\ result' = Err)
    <3>1. ASSUME NEW i \in 1..(d - 1) PROVE Quiet(stack'[i])
      BY <3>1, <2>3, <1>2
    <3>2. Quiet(stack'[d]) \/ result' = Err
      BY <2>1, <2>2, <2>3
    <3> QED BY <3>1, <3>2, <1>1
  <2> QED BY <2>3, <2>4, <1>1 DEF Reports, Reported, d
<1> QED BY <1>6, <1>7, <1>8 DEF Eval, FormProc, Proc

\* A call returns: an error, or with nothing to report.
LEMMA ReturnReports ==
  ASSUME IInv, Reported, stack # << >>, top.proc # "main",
         NEW r \in Outcome, NEW c, Return(r, c), r = Err \/ Quiet(top)
  PROVE  Reports
<1>1. stack \in Seq(Activation) /\ d \in Nat \ {0} /\ d # 1 /\ d = Len(stack)
  BY TopFacts DEF IInv, TypeOK, d
<1>2. PICK n \in Nat \ {0} : d = n + 1 /\ d - 1 = n
  BY <1>1
<1>3. stack' = [SubSeq(stack, 1, n) EXCEPT ![n] = Told(@, r)] /\ result' = r
  BY <1>2 DEF Return
<1>4. \A i \in 1..n : Quiet(stack[i])
  BY <1>1, <1>2 DEF Reported
<1> DEFINE s == SubSeq(stack, 1, n)
<1>5. s \in Seq(Activation) /\ Len(s) = n /\ \A i \in 1..n : s[i] = stack[i]
  <2>1. stack \in Seq(Activation) /\ 1 \in 1..(Len(stack) + 1) /\ n \in 0..Len(stack)
    BY <1>1, <1>2
  <2> QED BY <2>1, SubSeqProperties
<1>6. n \in 1..n /\ s[n] \in Activation /\ Quiet(s[n])
  BY <1>4, <1>5
<1> HIDE DEF s
<1>7. Told(s[n], r) \in Activation /\ (r # Err => Quiet(Told(s[n], r)))
  BY <1>6 DEF Told, Activation, Quiet, Forgives
<1>8. stack' = [s EXCEPT ![n] = Told(s[n], r)]
  BY <1>3 DEF s
<1>9. Len(stack') = n /\ stack'[n] = Told(s[n], r) /\ \A i \in 1..(n - 1) : stack'[i] = s[i]
  BY <1>5, <1>7, <1>8, ExceptSeq
<1>10. \A i \in 1..n : Quiet(stack'[i]) \/ (i = n /\ result' = Err)
  <2>1. ASSUME NEW i \in 1..(n - 1) PROVE Quiet(stack'[i])
    BY <2>1, <1>4, <1>5, <1>9
  <2>2. Quiet(stack'[n]) \/ result' = Err
    BY <1>3, <1>7, <1>9
  <2> QED BY <2>1, <2>2
<1>11. Reported'
  BY <1>9, <1>10 DEF Reported, d
<1>12. result' = Ok => Quiet(top)
  BY <1>3 DEF Ok, Err
<1> QED BY <1>11, <1>12 DEF Reports, Quiet

\* Where the last call did not fail, or the function forgives, there is nothing to
\* report.
LEMMA TopQuiet ==
  ASSUME IInv, Reported, stack # << >>, result # Err \/ Forgives(top)
  PROVE  Quiet(top)
<1>1. d \in Nat \ {0}
  BY TopFacts
<1> QED BY <1>1 DEF Reported, Quiet, top

\* Every step of a call with nothing to report.
LEMMA QuietReports ==
  ASSUME IInv, Reported, stack # << >>, result # Err \/ Forgives(top)
  PROVE  /\ \A q \in Pc : \A c : Continue(Goto(q), c) \/ Eval(Goto(q), c) \/ Forms(q, c) => Reports
         /\ \A q \in Pc : \A c : Eval([Goto(q) EXCEPT !.dot = TRUE], c) => Reports
         /\ \A q \in Pc : \A c : top.left > 0 /\ (Continue(Take(q), c) \/ Eval(Take(q), c)) => Reports
         /\ \A r \in Outcome : \A c : top.proc # "main" /\ Return(r, c) => Reports
<1>1. Quiet(top)
  BY TopQuiet
<1>2. ASSUME NEW q \in Pc, NEW c, Continue(Goto(q), c) \/ Eval(Goto(q), c) PROVE Reports
  BY <1>1, <1>2, SameMoves, MoveReports
<1>3. ASSUME NEW q \in Pc, NEW c, Forms(q, c) PROVE Reports
  <2>1. PICK n \in 0..MaxForms : Continue([Goto(q) EXCEPT !.left = n], c)
    BY <1>3 DEF Forms
  <2> QED BY <2>1, <1>1, SameMoves, MoveReports
<1>4. ASSUME NEW q \in Pc, NEW c, Eval([Goto(q) EXCEPT !.dot = TRUE], c) PROVE Reports
  BY <1>1, <1>4, SameMoves, MoveReports
<1>5. ASSUME NEW q \in Pc, NEW c, top.left > 0, Continue(Take(q), c) \/ Eval(Take(q), c) PROVE Reports
  BY <1>1, <1>5, SameMoves, MoveReports
<1>6. ASSUME NEW r \in Outcome, NEW c, top.proc # "main", Return(r, c) PROVE Reports
  BY <1>1, <1>6, ReturnReports
<1> QED BY <1>2, <1>3, <1>4, <1>5, <1>6

\* One lemma for each function: an error is returned at once, or forgiven.
LEMMA PrognReports == IInv /\ Reported /\ Progn => Reports
<1> SUFFICES ASSUME IInv, Reported, Progn PROVE Reports
  OBVIOUS
<1>1. stack # << >> /\ top.proc # "main"
  BY DEF Progn, At
<1>2. CASE result = Err
  <2>1. \E c : Return(Err, c)
    BY <1>2 DEF Progn, At, None, Ok, Err
  <2> QED BY <2>1, <1>1, ReturnReports DEF Outcome
<1>3. CASE result # Err
  BY <1>1, <1>3, QuietReports DEF Progn, Pc, Outcome
<1> QED BY <1>2, <1>3

\* Errors are reported through and, or.
LEMMA AndOrReports == IInv /\ Reported /\ AndOr => Reports
<1> SUFFICES ASSUME IInv, Reported, AndOr PROVE Reports
  OBVIOUS
<1>1. stack # << >> /\ top.proc # "main"
  BY DEF AndOr, At
<1>2. CASE result = Err
  <2>1. \E c : Return(Err, c)
    BY <1>2 DEF AndOr, At, None, Ok, Err
  <2> QED BY <2>1, <1>1, ReturnReports DEF Outcome
<1>3. CASE result # Err
  BY <1>1, <1>3, QuietReports DEF AndOr, Pc, Outcome
<1> QED BY <1>2, <1>3

\* Errors are reported through the builtins of one argument.
LEMMA UnaryReports == IInv /\ Reported /\ Unary => Reports
<1> SUFFICES ASSUME IInv, Reported, Unary PROVE Reports
  OBVIOUS
<1>1. stack # << >> /\ top.proc # "main"
  BY DEF Unary, At
<1>2. CASE result = Err
  <2>1. \E c : Return(Err, c)
    BY <1>2 DEF Unary, At, None, Ok, Err
  <2> QED BY <2>1, <1>1, ReturnReports DEF Outcome
<1>3. CASE result # Err
  BY <1>1, <1>3, QuietReports DEF Unary, Pc, Outcome
<1> QED BY <1>2, <1>3

\* Errors are reported through if.
LEMMA IfReports == IInv /\ Reported /\ If => Reports
<1> SUFFICES ASSUME IInv, Reported, If PROVE Reports
  OBVIOUS
<1>1. stack # << >> /\ top.proc # "main"
  BY DEF If, At
<1>2. CASE result = Err
  <2>1. \E c : Return(Err, c)
    BY <1>2 DEF If, At, None, Ok, Err
  <2> QED BY <2>1, <1>1, ReturnReports DEF Outcome
<1>3. CASE result # Err
  BY <1>1, <1>3, QuietReports DEF If, Pc, Outcome
<1> QED BY <1>2, <1>3

\* Errors are reported through eval.
LEMMA EvalTwiceReports == IInv /\ Reported /\ EvalTwice => Reports
<1> SUFFICES ASSUME IInv, Reported, EvalTwice PROVE Reports
  OBVIOUS
<1>1. stack # << >> /\ top.proc # "main"
  BY DEF EvalTwice, At
<1>2. CASE result = Err
  <2>1. \E c : Return(Err, c)
    BY <1>2 DEF EvalTwice, At, None, Ok, Err
  <2> QED BY <2>1, <1>1, ReturnReports DEF Outcome
<1>3. CASE result # Err
  BY <1>1, <1>3, QuietReports DEF EvalTwice, Pc, Outcome
<1> QED BY <1>2, <1>3

\* Errors are reported through setq.
LEMMA SetqReports == IInv /\ Reported /\ Setq => Reports
<1> SUFFICES ASSUME IInv, Reported, Setq PROVE Reports
  OBVIOUS
<1>1. stack # << >> /\ top.proc # "main"
  BY DEF Setq, At
<1>2. CASE result = Err
  <2>1. \E c : Return(Err, c)
    BY <1>2 DEF Setq, At, None, Ok, Err
  <2> QED BY <2>1, <1>1, ReturnReports DEF Outcome
<1>3. CASE \E n \in 1..MaxForms : Continue([Goto("args") EXCEPT !.left = n], ctx) /\ result # Err
  <2>1. PICK n \in 0..MaxForms : Continue([Goto("args") EXCEPT !.left = n], ctx)
    BY <1>3, Z3T(30)
  <2>2. SameCall([Goto("args") EXCEPT !.left = n]) /\ Quiet(top)
    BY <1>1, <1>3, SameMoves, TopQuiet, ZenonT(60) DEF Pc
  <2> QED BY <2>1, <2>2, <1>1, MoveReports
<1>4. CASE result # Err /\ ~\E n \in 1..MaxForms : Continue([Goto("args") EXCEPT !.left = n], ctx)
  BY <1>1, <1>4, QuietReports DEF Setq, Pc, Outcome
<1> QED BY <1>2, <1>3, <1>4

\* Errors are reported through append.
LEMMA AppendListsReports == IInv /\ Reported /\ AppendLists => Reports
<1> SUFFICES ASSUME IInv, Reported, AppendLists PROVE Reports
  OBVIOUS
<1>1. stack # << >> /\ top.proc # "main"
  BY DEF AppendLists, At
<1>2. CASE result = Err
  <2>1. \E c : Return(Err, c)
    BY <1>2 DEF AppendLists, At, None, Ok, Err
  <2> QED BY <2>1, <1>1, ReturnReports DEF Outcome
<1>3. CASE result # Err
  BY <1>1, <1>3, QuietReports DEF AppendLists, Pc, Outcome
<1> QED BY <1>2, <1>3

\* Errors are reported through evaluating arguments.
LEMMA ArgsReports == IInv /\ Reported /\ Args => Reports
<1> SUFFICES ASSUME IInv, Reported, Args PROVE Reports
  OBVIOUS
<1>1. stack # << >> /\ top.proc # "main"
  BY DEF Args, At
<1>2. CASE result = Err
  <2>1. \E c : Return(Err, c)
    BY <1>2 DEF Args, At, None, Ok, Err
  <2> QED BY <2>1, <1>1, ReturnReports DEF Outcome
<1>3. CASE result # Err
  BY <1>1, <1>3, QuietReports DEF Args, Pc, Outcome
<1> QED BY <1>2, <1>3

\* Errors are reported through unpacking arguments.
LEMMA UnpackReports == IInv /\ Reported /\ Unpack => Reports
<1> SUFFICES ASSUME IInv, Reported, Unpack PROVE Reports
  OBVIOUS
<1>1. stack # << >> /\ top.proc # "main"
  BY DEF Unpack, At
<1>2. CASE result = Err
  <2>1. \E c : Return(Err, c)
    BY <1>2 DEF Unpack, At, None, Ok, Err
  <2> QED BY <2>1, <1>1, ReturnReports DEF Outcome
<1>3. CASE result # Err
  BY <1>1, <1>3, QuietReports DEF Unpack, Pc, Outcome
<1> QED BY <1>2, <1>3

\* Errors are reported through calling a list.
LEMMA CallListReports == IInv /\ Reported /\ CallList => Reports
<1> SUFFICES ASSUME IInv, Reported, CallList PROVE Reports
  OBVIOUS
<1>1. stack # << >> /\ top.proc # "main"
  BY DEF CallList, At
<1>2. CASE result = Err
  <2>1. \E c : Return(Err, c)
    BY <1>2 DEF CallList, At, None, Ok, Err
  <2> QED BY <2>1, <1>1, ReturnReports DEF Outcome
<1>3. CASE result # Err /\ \E m \in BOOLEAN : \E c : Call("invoke", m, Goto("called"), c)
  <2>1. SameCall(Goto("called")) /\ Quiet(top)
    BY <1>1, <1>3, SameMoves, TopQuiet, ZenonT(60) DEF Pc
  <2> QED BY <2>1, <1>1, <1>3, MoveReports, ZenonT(60) DEF Proc
<1>4. CASE result # Err /\ ~\E m \in BOOLEAN : \E c : Call("invoke", m, Goto("called"), c)
  BY <1>1, <1>4, QuietReports DEF CallList, Pc, Outcome
<1> QED BY <1>2, <1>3, <1>4

\* ignore-errors, let and let* may go on.
LEMMA IgnoreErrorsReports == IInv /\ Reported /\ IgnoreErrors => Reports
<1> SUFFICES ASSUME IInv, Reported, IgnoreErrors PROVE Reports
  OBVIOUS
<1>1. stack # << >> /\ top.proc # "main" /\ Forgives(top)
  BY DEF IgnoreErrors, At, Forgives
<1> QED BY <1>1, QuietReports DEF IgnoreErrors, Pc, Outcome

\* Errors are reported through let, let*.
LEMMA LetReports == IInv /\ Reported /\ (Let \/ LetStar) => Reports
<1> SUFFICES ASSUME IInv, Reported, NEW p \in {"let", "let*"}, LetForms(p) PROVE Reports
  BY DEF Let, LetStar
<1>1. stack # << >> /\ top.proc # "main" /\ Forgives(top) /\ top.err \in Outcome
  BY TopFacts DEF LetForms, At, Forgives, Activation
<1>2. Quiet(top)
  BY <1>1, TopQuiet
<1>3. ASSUME NEW r \in Outcome, NEW c, Body(r, c) PROVE Reports
  <2>1. PICK n \in 0..MaxForms : Continue([Goto("body") EXCEPT !.left = n, !.err = r], c)
    BY <1>3 DEF Body
  <2>2. SameCall([Goto("body") EXCEPT !.left = n, !.err = r])
    BY <1>1, SameMoves, ZenonT(60) DEF Pc
  <2> QED BY <2>1, <2>2, <1>1, <1>2, MoveReports
<1>4. ASSUME NEW r \in Outcome, NEW c, Continue([Goto("body") EXCEPT !.err = r], c) PROVE Reports
  <2>1. SameCall([Goto("body") EXCEPT !.err = r])
    BY <1>1, SameMoves, ZenonT(60) DEF Pc
  <2> QED BY <2>1, <1>1, <1>2, <1>4, MoveReports
<1>5. ASSUME NEW c, top.left > 0, Continue([Take("body") EXCEPT !.err = Err], c) PROVE Reports
  <2>1. SameCall([Take("body") EXCEPT !.err = Err])
    BY <1>1, <1>5, SameMoves, ZenonT(60) DEF Pc, Outcome
  <2> QED BY <2>1, <1>1, <1>2, <1>5, MoveReports, ZenonT(60)
<1>6. CASE \/ At(p, "start", None) /\ Return(Err, ctx)
           \/ At(p, "body", None) /\ Return(top.err, LetDone)
  BY <1>1, <1>6, QuietReports DEF Outcome
<1>7. CASE At(p, "start", None)
             /\ Forms("bind", IF p = "let" THEN Open(ctx, "scope") ELSE [Open(ctx, "scope") EXCEPT !.scope = d])
  BY <1>1, <1>7, QuietReports DEF Pc
<1>8. CASE top.left > 0 /\ (Body(Err, LetScope(ctx)) \/ Continue(Take("bind"), ctx) \/ Eval(Take("bound"), ctx))
  BY <1>1, <1>3, <1>8, QuietReports DEF Pc, Outcome
<1>9. CASE Continue(Goto("bind"), ctx) \/ Body(Ok, LetScope(ctx))
  BY <1>1, <1>3, <1>9, QuietReports DEF Pc, Outcome
<1>10. CASE top.left > 0 /\ (Eval(Take("ran"), ctx) \/ Continue([Take("body") EXCEPT !.err = Err], ctx))
  BY <1>1, <1>5, <1>10, QuietReports DEF Pc
<1>11. CASE \E r \in Outcome : Continue([Goto("body") EXCEPT !.err = r], ctx)
  BY <1>4, <1>11
<1> QED BY <1>6, <1>7, <1>8, <1>9, <1>10, <1>11 DEF LetForms

\* The end of a function's body: an error of its own is kept in err, unless it is
\* a macro.
LEMMA BodyDoneReports ==
  ASSUME IInv, Reported, stack # << >>, top.proc = "invoke",
         NEW r \in Outcome, r = Err \/ result # Err,
         BodyDone([top EXCEPT !.err = r])
  PROVE  Reports
<1>1. top \in Activation
  BY TopFacts
<1> DEFINE a == [top EXCEPT !.err = r]
<1>2. a.macro = top.macro /\ a.err = r
  BY <1>1 DEF Activation
<1>3. CASE a.macro
  <2>1. PICK c : Eval([a EXCEPT !.pc = "expanded"], c)
    BY <1>3, ZenonT(60) DEF BodyDone
  <2>2. SameCall([a EXCEPT !.pc = "expanded"]) /\ Quiet(top)
    BY <1>2, <1>3, SameMoves, ZenonT(60) DEF Pc, Quiet, Forgives
  <2> QED BY <2>1, <2>2, MoveReports
<1>4. CASE ~a.macro
  <2>1. \E c : Return(r, c)
    BY <1>2, <1>4 DEF BodyDone
  <2>2. r = Err \/ Quiet(top)
    BY TopQuiet
  <2> QED BY <2>1, <2>2, ReturnReports
<1> QED BY <1>3, <1>4

\* Errors are reported through invoking a lambda or a macro.
LEMMA InvokeReports == IInv /\ Reported /\ Invoke => Reports
<1> SUFFICES ASSUME IInv, Reported, Invoke PROVE Reports
  OBVIOUS
<1>1. stack # << >> /\ top.proc = "invoke" /\ top \in Activation
  BY TopFacts DEF Invoke, At
<1>2. CASE At("invoke", "start", None) /\ Call("unpack", FALSE, Goto("unpacked"), Open(ctx, "scope"))
  <2>1. SameCall(Goto("unpacked")) /\ Quiet(top)
    BY <1>1, <1>2, SameMoves, TopQuiet, ZenonT(60) DEF Pc, At, None, Err
  <2> QED BY <2>1, <1>1, <1>2, MoveReports, ZenonT(60) DEF Proc
<1>3. CASE At("invoke", "unpacked", Err) /\ Return(Err, Close(ctx, "scope"))
  BY <1>1, <1>3, ReturnReports DEF Outcome
<1>4. CASE At("invoke", "unpacked", Ok) /\ Forms("body", [EnterFrame(ctx) EXCEPT !.scope = d])
  BY <1>1, <1>4, QuietReports DEF Pc, At, Ok, Err
<1>5. CASE \/ At("invoke", "body", None) /\ top.left > 0 /\ Eval(Take("ran"), ctx)
           \/ At("invoke", "ran", Ok)    /\ Continue(Goto("body"), ctx)
  BY <1>1, <1>5, QuietReports DEF Pc, At, None, Ok, Err
<1>6. CASE At("invoke", "body", None) /\ BodyDone(top)
  <2>1. top = [top EXCEPT !.err = top.err] /\ top.err \in Outcome
    BY <1>1 DEF Activation
  <2> QED BY <2>1, <1>1, <1>6, BodyDoneReports DEF At, None, Err
<1>7. CASE At("invoke", "ran", Err) /\ BodyDone([top EXCEPT !.err = Err])
  BY <1>1, <1>7, BodyDoneReports DEF Outcome
<1>8. CASE \E r \in Outcome : At("invoke", "expanded", r) /\ Return(r, ExitFrame(Close(ctx, "form")))
  <2>1. PICK r \in Outcome : At("invoke", "expanded", r) /\ Return(r, ExitFrame(Close(ctx, "form")))
    BY <1>8
  <2>2. r = Err \/ Quiet(top)
    BY <2>1, <1>1, TopQuiet DEF At
  <2> QED BY <2>1, <2>2, <1>1, ReturnReports
<1> QED BY <1>2, <1>3, <1>4, <1>5, <1>6, <1>7, <1>8 DEF Invoke

\* main evaluates its forms until one fails, and then has nothing left to do.
LEMMA MainReports == IInv /\ Reported /\ Main => Reports
<1> SUFFICES ASSUME IInv, Reported, Main PROVE Reports
  OBVIOUS
<1>1. stack # << >>
  BY DEF Main, At
<1>2. CASE result = Err
  <2>1. stack' = << >>
    BY <1>2 DEF Main, At, None, Ok, Err
  <2> QED BY <2>1 DEF Reports, Reported, d
<1>3. CASE result # Err
  BY <1>1, <1>3, QuietReports DEF Main, Pc, At
<1> QED BY <1>2, <1>3

\* Errors are reported through every step.
LEMMA StepReports == IInv /\ Reported /\ Next => Reports
<1> SUFFICES ASSUME IInv, Reported, Next PROVE Reports
  OBVIOUS
<1>1. CASE Main \/ CallList \/ Invoke \/ Unpack \/ Args \/ Let \/ LetStar
  BY <1>1, MainReports, CallListReports, InvokeReports, UnpackReports, ArgsReports, LetReports
<1>2. CASE Progn \/ Setq \/ AndOr \/ Unary \/ If \/ IgnoreErrors \/ EvalTwice \/ AppendLists
  BY <1>2, PrognReports, SetqReports, AndOrReports, UnaryReports, IfReports, IgnoreErrorsReports,
     EvalTwiceReports, AppendListsReports
<1> QED BY <1>1, <1>2 DEF Next

\* No call returns success after one of its own has failed, save ignore-errors,
\* let and let*, and the expansion of a macro: whatever the depth of the call
\* that failed, its error is returned by each of the other functions above it.
THEOREM ErrorsPassOn == Spec => ErrorsReported
<1>1. Init => Reported
  <2> SUFFICES ASSUME Init PROVE Reported
    OBVIOUS
  <2>1. stack = <<NewCall("main", FALSE, ctx)>>
    BY DEF Init
  <2>2. d = 1 /\ stack[1].failed = FALSE
    BY <2>1 DEF d, NewCall
  <2> QED BY <2>2 DEF Reported, Quiet
<1>2. IInv /\ Reported /\ [Next]_vars => Reported'
  BY StepReports DEF Reports, vars, Reported, Quiet, Forgives, d
<1>3. IInv /\ Reported /\ [Next]_vars
        => [stack' # << >> /\ Len(stack') < Len(stack) /\ result' = Ok /\ top.failed
              => \/ top.proc \in {"ignore-errors", "let", "let*"}
                 \/ top.proc = "invoke" /\ top.macro]_vars
  BY StepReports DEF Reports, Forgives, d
<1> QED BY Inductive, <1>1, <1>2, <1>3, PTL DEF Spec, ErrorsReported
=============================================================================
