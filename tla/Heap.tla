-------------------------------- MODULE Heap --------------------------------
(***************************************************************************)
(* The collected heap as its clients see it (src/heap.c, include/heap.h)   *)
(* and the interpreter context it collects for (include/context.h).        *)
(*                                                                         *)
(* An object is the address of its memory; what matters of its contents is *)
(* which addresses they hold:                                              *)
(*   refs   addresses the marker follows: a symbol's text, a cons cell's   *)
(*          car and cdr, a scope's parent and the values of its variables, *)
(*          a function's captured scope and its code                       *)
(*   ids    addresses it does not follow: the symbols that name variables  *)
(*          and parameters (private symbols of gensym live on the heap)    *)
(* The two-bit field Object.type cannot hold String: a string is marked as *)
(* if it were a symbol, so its first bytes, whatever they say, are taken   *)
(* for an address.  They are the refs of a string.                         *)
(*                                                                         *)
(* A collection is one step here.  MarkSweep shows how the code takes it.  *)
(***************************************************************************)
EXTENDS Integers, FiniteSets, Sequences

CONSTANTS Object,            \* addresses of possible objects
          Kind,              \* the types of object the program allocates
          Root,              \* root cells the program may have open at once
          Globals,           \* &ctx->globals, a scope outside the heap
          Atom,              \* any address outside the heap (an interned symbol)
          Nil,               \* no address: NULL, or a value that is not a pointer
          Unused,            \* the kind of a block that is not allocated
          ObjectThreshold, Factor, UnrefThreshold,   \* SmGCConfig
          MaxLinks, MaxFrames, MaxVars               \* bounds of an instance

ASSUME NamesAssumption ==
  /\ Globals \notin Object /\ Atom \notin Object /\ Nil \notin Object
  /\ Globals # Atom /\ Globals # Nil /\ Atom # Nil
  /\ Unused \notin Kind
ASSUME ConfigAssumption ==
  /\ ObjectThreshold \in Nat \ {0}
  /\ Factor \in Nat \ {0, 1}
  /\ UnrefThreshold \in Nat \ {0}
ASSUME BoundsAssumption == MaxLinks \in Nat /\ MaxFrames \in Nat /\ MaxVars \in Nat

VARIABLES heap,     \* objects, their contents, and the status of the collector
          root,     \* the root cells, in the list heap->roots
          scope,    \* ctx->scope
          frames    \* the saved scope of every stack frame, main frame first

vars == <<heap, root, scope, frames>>

Holder == Object \cup {Globals}

Heaps == [objects   : SUBSET Object,
          kind      : [Object -> Kind \cup {Unused}],
          refs      : [Holder -> SUBSET Object],
          ids       : [Holder -> SUBSET Object],
          count     : Nat,      \* gc.object_count
          threshold : Nat,      \* gc.object_threshold
          unref     : Nat]      \* gc.unref_count

\* value tells the two kinds of root cell apart; open is membership of the list.
Roots == [open : BOOLEAN, value : BOOLEAN, ref : Object \cup {Atom, Nil}]

Closed == [open |-> FALSE, value |-> FALSE, ref |-> Nil]

-----------------------------------------------------------------------------
(* Reachability and collection.                                            *)

\* The least set of objects of h that contains the objects of start and, with
\* an object, those its edges lead to.
Reach(h, start, edges) ==
  {o \in h.objects :
     \A C \in SUBSET h.objects :
       (/\ start \cap h.objects \subseteq C
        /\ \A x \in C : edges[x] \cap h.objects \subseteq C) => o \in C}

RootRefs(r) == {r[i].ref : i \in {j \in Root : r[j].open}} \cap Object

\* Where marking starts, without the roots: the current scope, the values of
\* the global variables, the scopes saved on the stack.
ContextRefs(h, s, f) == (({s} \cup {f[i] : i \in DOMAIN f}) \cap Object) \cup h.refs[Globals]

StartWithoutFrames(h, r, s, f) == RootRefs(r) \cup ({s} \cap Object) \cup h.refs[Globals]   \* seeded fault

Start(h, r, s, f) == RootRefs(r) \cup ContextRefs(h, s, f)

ThresholdNeverGrows(n, t) ==   \* seeded fault
  IF t > ObjectThreshold /\ n < (t \div Factor) THEN t \div Factor ELSE t

\* "Update gc status", n being the number of survivors.
NewThreshold(n, t) ==
  IF n >= t THEN t * Factor
  ELSE IF t > ObjectThreshold /\ n < (t \div Factor) THEN t \div Factor
  ELSE t

\* sm_heap_gc
Collected(h, r) ==
  LET keep == Reach(h, Start(h, r, scope, frames), h.refs)
      n    == h.count - Cardinality(h.objects \ keep)
  IN [objects   |-> keep,
      kind      |-> [o \in Object |-> IF o \in keep THEN h.kind[o] ELSE Unused],
      refs      |-> [x \in Holder |-> IF x \in keep \cup {Globals} THEN h.refs[x] ELSE {}],
      ids       |-> [x \in Holder |-> IF x \in keep \cup {Globals} THEN h.ids[x] ELSE {}],
      count     |-> n,
      threshold |-> NewThreshold(n, h.threshold),
      unref     |-> 0]

ShouldCollect(h) == h.count >= h.threshold \/ h.unref >= UnrefThreshold

NeverCollect(h, r) == h   \* seeded fault: should_collect is not asked

CollectIfNeeded(h, r) == IF ShouldCollect(h) THEN Collected(h, r) ELSE h

-----------------------------------------------------------------------------
(* What the program can name: it follows every field of an object, ids     *)
(* included, but takes no address out of the characters of a string.       *)

ProgramEdges(h) == [x \in Holder |-> IF x \in Object /\ h.kind[x] = "String" THEN {} ELSE h.refs[x]]

Accessible == Reach(heap, Start(heap, root, scope, frames), ProgramEdges(heap))

\* The number of addresses held in memory, which MaxLinks bounds.
Links == Cardinality({p \in Holder \X Object : p[2] \in heap.refs[p[1]]})
           + Cardinality({p \in Holder \X Object : p[2] \in heap.ids[p[1]]})

-----------------------------------------------------------------------------
Init ==
  /\ heap = [objects |-> {}, kind |-> [o \in Object |-> Unused],
             refs |-> [x \in Holder |-> {}], ids |-> [x \in Holder |-> {}],
             count |-> 0, threshold |-> ObjectThreshold, unref |-> 0]
  /\ root = [i \in Root |-> Closed]
  /\ scope = Globals
  /\ frames = <<Globals>>

\* sm_heap_root, sm_heap_root_value
OpenRoot(i, value) ==
  /\ ~root[i].open
  /\ root' = [root EXCEPT ![i] = [open |-> TRUE, value |-> value, ref |-> Nil]]
  /\ UNCHANGED <<heap, scope, frames>>

\* *root = x: the program copies an address it can name, or none.
Store(i, x) ==
  /\ root[i].open
  /\ x \in Accessible \cup {Nil, Atom}
  /\ root' = [root EXCEPT ![i].ref = x]
  /\ UNCHANGED <<heap, scope, frames>>

\* sm_heap_root_drop counts a dropped object once, and a scope once more for
\* its parent and for each of its variables; vars stands for their number.
\* sm_heap_root_value_drop counts every pointer, managed or not.
UnrefsOfDrop(i, n) ==
  LET x == root[i].ref IN
  IF root[i].value THEN IF x # Nil THEN 1 ELSE 0
  ELSE IF x \in heap.objects THEN 1 + (IF heap.kind[x] = "Scope" THEN n ELSE 0)
  ELSE 0

DropRoot(i, n) ==
  /\ root[i].open
  /\ root' = [root EXCEPT ![i] = Closed]
  /\ heap' = CollectIfNeeded([heap EXCEPT !.unref = @ + UnrefsOfDrop(i, n)], root')
  /\ UNCHANGED <<scope, frames>>

\* sm_heap_unref, as (del x) calls it: with a variable of the scope h its value y
\* goes, and its name s, which is an atom where the symbol is an interned one.
DeleteVariable(h, s, y) ==
  /\ h \in Accessible \cup {Globals}
  /\ h \in Object => heap.kind[h] = "Scope"
  /\ s \in heap.ids[h] \cup {Atom}
  /\ y \subseteq heap.refs[h] /\ Cardinality(y) <= 1
  /\ heap' = CollectIfNeeded([heap EXCEPT !.ids[h] = @ \ {s}, !.refs[h] = @ \ y,
                                          !.unref = @ + 1], root)
  /\ UNCHANGED <<root, scope, frames>>

\* What the (gc) builtin asks for; the list it returns is allocated like any other.
Gc == heap' = Collected(heap, root) /\ UNCHANGED <<root, scope, frames>>

\* sm_heap_alloc_symbol, _cons, _scope, _function, _string.  The caller puts the
\* address in a root cell before it uses the heap again.  The bytes of a
\* string may happen to spell any address.
Alloc(k, o, i, bytes) ==
  LET h == CollectIfNeeded(heap, root) IN
  /\ root[i].open
  /\ o \notin h.objects
  /\ bytes # {} => k = "String" /\ Links < MaxLinks
  /\ heap' = [h EXCEPT !.objects = @ \cup {o}, !.kind[o] = k, !.refs[o] = bytes, !.count = @ + 1]
  /\ root' = [root EXCEPT ![i].ref = o]
  /\ UNCHANGED <<scope, frames>>

\* The program fills or overwrites fields of an object or of the global scope.
Link(x, y) ==
  /\ x \in Accessible \cup {Globals} /\ y \in Accessible
  /\ x \in Object => heap.kind[x] # "String"
  /\ Links < MaxLinks
  /\ heap' = [heap EXCEPT !.refs[x] = @ \cup {y}]
  /\ UNCHANGED <<root, scope, frames>>

Unlink(x, y) ==
  /\ x \in Accessible \cup {Globals}
  /\ y \in heap.refs[x]
  /\ x \in Object => heap.kind[x] # "String"
  /\ heap' = [heap EXCEPT !.refs[x] = @ \ {y}]
  /\ UNCHANGED <<root, scope, frames>>

\* sm_scope_set with a private symbol: s becomes the name of a variable.
BindId(x, s) ==
  /\ x \in Accessible \cup {Globals} /\ s \in Accessible
  /\ x \in Object => heap.kind[x] \in {"Scope", "Function"}
  /\ heap.kind[s] = "Symbol"
  /\ Links < MaxLinks
  /\ heap' = [heap EXCEPT !.ids[x] = @ \cup {s}]
  /\ UNCHANGED <<root, scope, frames>>

\* ctx->scope = s, by let, let* and function calls.
SetScope(s) ==
  /\ s = Globals \/ (s \in Accessible /\ heap.kind[s] = "Scope")
  /\ scope' = s
  /\ UNCHANGED <<heap, root, frames>>

\* sm_context_enter_frame
EnterFrame ==
  /\ Len(frames) < MaxFrames
  /\ frames' = Append(frames, scope)
  /\ UNCHANGED <<heap, root, scope>>

ExitAnyFrame ==   \* seeded fault: the main frame is not protected
  /\ frames # << >>
  /\ scope' = frames[Len(frames)]
  /\ frames' = SubSeq(frames, 1, Len(frames) - 1)
  /\ UNCHANGED <<heap, root>>

\* sm_context_exit_frame: "never exit main frame".
ExitFrame ==
  /\ Len(frames) > 1
  /\ scope' = frames[Len(frames)]
  /\ frames' = SubSeq(frames, 1, Len(frames) - 1)
  /\ UNCHANGED <<heap, root>>

Next ==
  \/ Gc \/ EnterFrame \/ ExitFrame
  \/ \E i \in Root :
       \/ \E value \in BOOLEAN : OpenRoot(i, value)
       \/ \E x \in Object \cup {Nil, Atom} : Store(i, x)
       \/ \E n \in 0..MaxVars : DropRoot(i, n)
       \/ \E k \in Kind, o \in Object, bytes \in {{}} \cup {{x} : x \in Object} : Alloc(k, o, i, bytes)
  \/ \E x \in Holder, y \in Object : Link(x, y) \/ Unlink(x, y) \/ BindId(x, y)
  \/ \E x \in Holder, s \in Object \cup {Atom}, y \in {{}} \cup {{z} : z \in Object} : DeleteVariable(x, s, y)
  \/ \E s \in Holder : SetScope(s)

Spec == Init /\ [][Next]_vars

-----------------------------------------------------------------------------
(* Properties.                                                             *)

\* Types; and exactly the live objects have a kind.
TypeOK ==
  /\ heap \in Heaps
  /\ root \in [Root -> Roots]
  /\ scope \in Holder
  /\ frames \in Seq(Holder) /\ frames # << >>
  /\ \A o \in Object : o \in heap.objects <=> heap.kind[o] # Unused

\* No use after free: whatever the interleaving of allocations, stores, frames
\* and collections, no address that a root cell, the current scope, a saved
\* scope, a global variable or a live object gives the program is that of a
\* freed object.  It holds because sm_heap_gc starts from all four places
\* (heap.c:580-597) and because gc_mark follows what the program follows.
NoDangling ==
  /\ Start(heap, root, scope, frames) \subseteq heap.objects
  /\ \A o \in heap.objects : heap.kind[o] # "String" => heap.refs[o] \subseteq heap.objects

\* Sizes the threshold can take: the configured one, multiplied by the factor
\* any number of times.
Levels ==
  {t \in Nat : \A S \in SUBSET Nat :
     (ObjectThreshold \in S /\ \A n \in S : n * Factor \in S) => t \in S}

\* The collector's books: object_count counts the live objects, it never passes
\* the threshold (sm_heap_gc doubles the threshold it has reached, so the
\* allocation that follows fits), pending unreferences always stay below their
\* own threshold, and the threshold never falls below the configured one
\* although it is divided back (heap.c:615-625).
Accounting ==
  /\ heap.count = Cardinality(heap.objects)
  /\ heap.count <= heap.threshold
  /\ heap.unref < UnrefThreshold
  /\ heap.threshold >= ObjectThreshold

\* "Ensure current and global scope are marked" (heap.c:589): the symbols that
\* name the variables of a live scope are as live as their values.
IdsLive == \A x \in heap.objects \cup {Globals} : heap.ids[x] \subseteq heap.objects
=============================================================================
