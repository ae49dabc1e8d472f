----------------------------- MODULE MarkSweep ------------------------------
(***************************************************************************)
(* How sm_heap_gc collects (src/heap.c): the marker follows addresses      *)
(* depth first, finding objects through the index and pruning the lookups  *)
(* in subtrees it has marked completely; the sweep walks the index in      *)
(* order and erases, node by node, what is not marked.                     *)
(*                                                                         *)
(* It composes the index (ObjectTree) with the heap's clients.  Module     *)
(* Heap, where a collection is one step that keeps what is reachable, is   *)
(* its specification.                                                      *)
(*                                                                         *)
(* The contents of an object are the addresses it holds, in the order      *)
(* gc_mark takes them: a cons cell's car then its cdr, the values of a     *)
(* scope's variables then its parent, a function's captured scope then its *)
(* code, a symbol's text.  Every object here has Fields of them, and may   *)
(* be the scope of an evaluation.                                          *)
(***************************************************************************)
EXTENDS ObjectTree, FiniteSets

CONSTANTS Root,                 \* root cells the program may have open at once
          Globals,              \* &ctx->globals, an address outside the heap
          Atom, Nil, Unused,    \* as in Heap
          ObjectThreshold, Factor, UnrefThreshold,
          Header,               \* the bytes of an object before its data
          Fields,               \* addresses an object, or the global scope, holds
          MaxLinks, MaxFrames   \* bounds of an instance

\* The data of an object is inside it; the global scope is inside no object.
ASSUME MarkSweepAssumption ==
  /\ IsFiniteSet(Block) /\ IsFiniteSet(Root) /\ Nil \notin Root \cup Block
  /\ Header \in Nat /\ \A o \in Block : Header < Size[o]
  /\ Globals \in Nat \ {NULL} /\ \A o \in Block : Globals < o \/ End(o) <= Globals
  /\ ObjectThreshold \in Nat \ {0} /\ Factor \in Nat \ {0, 1} /\ UnrefThreshold \in Nat \ {0}
  /\ Fields \in Nat /\ MaxLinks \in Nat /\ MaxFrames \in Nat

VARIABLES tree,     \* heap->objects
          mem,      \* the contents of the objects and of the global scope
          root,     \* the root cells
          scope, frames,            \* ctx->scope, the saved scopes
          count, threshold, unref,  \* heap->gc
          phase,    \* where the collector is: "idle", "mark", "sweep", or "alloc",
                    \* back in the allocation that called it
          client,   \* the root cell that allocation is for
          pending,  \* addresses still to be marked, the next one first
          marked, allMarked,        \* the objects with these flags set
          cursor    \* the object the sweep looks at next

gcVars     == <<phase, client, pending, marked, allMarked, cursor>>
statusVars == <<count, threshold, unref>>
scopeVars  == <<scope, frames>>
vars       == <<tree, mem, root, scopeVars, statusVars, gcVars>>

Holder == Block \cup {Globals}

\* The address the program has of object o: its data, after the header.
Data(o) == o + Header
Address == {Data(o) : o \in Block} \cup {NULL}
ObjectAt(a) == a - Header
ObjectsAt(A) == {o \in Block : Data(o) \in A}

NoFields == [i \in 1..Fields |-> NULL]
Closed   == [open |-> FALSE, ref |-> NULL]

\* The address of scope s: the global one is a field of the context, which no
\* object contains.
ScopeAddress(s) == IF s = Globals THEN Globals ELSE Data(s)

ShouldCollect == count >= threshold \/ unref >= UnrefThreshold

Init ==
  /\ tree = EmptyTree
  /\ mem = [x \in Holder |-> NoFields]
  /\ root = [i \in Root |-> Closed]
  /\ scope = Globals /\ frames = <<Globals>>
  /\ count = 0 /\ threshold = ObjectThreshold /\ unref = 0
  /\ phase = "idle" /\ client = Nil
  /\ pending = << >> /\ marked = {} /\ allMarked = {} /\ cursor = NULL

-----------------------------------------------------------------------------
(* The collector.                                                          *)

\* NULL, and the address of the global scope, lead the marker nowhere.
Pointers(s) ==
  LET kept[k \in 0..Len(s)] ==
        IF k = 0 THEN << >>
        ELSE IF s[k] \in {NULL, Globals} THEN kept[k - 1] ELSE Append(kept[k - 1], s[k])
  IN kept[Len(s)]

SourcesWithoutFrames(r) ==   \* seeded fault: the saved scopes are not marked
  LET rootRefs == [i \in 1..Cardinality(Root) |-> r[SetToSeq(Root)[i]].ref]
  IN Pointers(rootRefs \o <<ScopeAddress(scope)>> \o mem[Globals])

\* What sm_heap_gc passes to the marker, in order: the roots, the current
\* scope, the values of the global variables, the saved scopes.
Sources(r) ==
  LET rootRefs == [i \in 1..Cardinality(Root) |-> r[SetToSeq(Root)[i]].ref]
      saved    == [i \in 1..Len(frames) |-> ScopeAddress(frames[Len(frames) + 1 - i])]
  IN Pointers(rootRefs \o <<ScopeAddress(scope)>> \o mem[Globals] \o saved)

StartGc(r, i) == phase' = "mark" /\ client' = i /\ pending' = Sources(r)

CompleteUnchecked(o, m, all) ==   \* seeded fault: the node's own mark is not tested
  {tree.node[o].left, tree.node[o].right} \ {NULL} \subseteq all

Complete(o, m, all) ==
  o \in m /\ {tree.node[o].left, tree.node[o].right} \ {NULL} \subseteq all

\* The loop at node p; it stops at the first node that is not complete.
AllMarkedStep(acc, p, m) ==
  IF ~acc.go                     THEN acc
  ELSE IF Complete(p, m, acc.all) THEN [all |-> acc.all \cup {p}, go |-> TRUE]
  ELSE [all |-> acc.all \ {p}, go |-> FALSE]

\* Set all_marked on o if its subtree is marked, then on as many of its
\* ancestors as become complete.
Propagated(o, m) ==
  LET chain == Ancestors(tree, o)
      after[k \in 0..Len(chain)] ==
        IF k = 0 THEN [all |-> allMarked, go |-> TRUE] ELSE AllMarkedStep(after[k - 1], chain[k], m)
  IN after[Len(chain)].all

MarkFirstFieldOnly ==   \* seeded fault: the rest of an object's contents is forgotten
  /\ phase = "mark" /\ pending # << >>
  /\ LET o == FromPointer(tree, allMarked, Head(pending), FALSE) IN
     IF o = NULL \/ o \in marked
     THEN pending' = Tail(pending) /\ UNCHANGED <<marked, allMarked>>
     ELSE /\ marked' = marked \cup {o}
          /\ allMarked' = Propagated(o, marked')
          /\ pending' = Pointers(<<mem[o][1]>>) \o Tail(pending)
  /\ UNCHANGED <<tree, mem, root, scopeVars, statusVars, phase, client, cursor>>

MarkSpins ==   \* seeded fault: the loop does not test obj->marked
  /\ phase = "mark" /\ pending # << >>
  /\ LET o == FromPointer(tree, allMarked, Head(pending), FALSE) IN
     IF o = NULL
     THEN pending' = Tail(pending) /\ UNCHANGED <<marked, allMarked>>
     ELSE IF o \in marked
     THEN UNCHANGED <<pending, marked, allMarked>>
     ELSE /\ marked' = marked \cup {o}
          /\ allMarked' = Propagated(o, marked')
          /\ pending' = Pointers(mem[o]) \o Tail(pending)
  /\ UNCHANGED <<tree, mem, root, scopeVars, statusVars, phase, client, cursor>>

\* One address: gc_mark_value and gc_mark up to the next lookup.
Mark ==
  /\ phase = "mark" /\ pending # << >>
  /\ LET o == FromPointer(tree, allMarked, Head(pending), FALSE) IN
     IF o = NULL \/ o \in marked
     THEN pending' = Tail(pending) /\ UNCHANGED <<marked, allMarked>>
     ELSE /\ marked' = marked \cup {o}
          /\ allMarked' = Propagated(o, marked')
          /\ pending' = Pointers(mem[o]) \o Tail(pending)
  /\ UNCHANGED <<tree, mem, root, scopeVars, statusVars, phase, client, cursor>>

BeginSweep ==
  /\ phase = "mark" /\ pending = << >>
  /\ phase' = "sweep"
  /\ cursor' = First(tree, tree.root)
  /\ UNCHANGED <<tree, mem, root, scopeVars, statusVars, client, pending, marked, allMarked>>

SweepKeepingFlags ==   \* seeded fault: survivors keep all_marked
  /\ phase = "sweep" /\ cursor # NULL
  /\ cursor' = Succ(tree, cursor)
  /\ IF cursor \in marked
     THEN /\ marked' = marked \ {cursor}
          /\ UNCHANGED <<tree, mem, count, allMarked>>
     ELSE /\ tree' = EraseObject(tree, cursor)
          /\ mem' = [mem EXCEPT ![cursor] = NoFields]
          /\ count' = count - 1
          /\ UNCHANGED <<marked, allMarked>>
  /\ UNCHANGED <<root, scopeVars, threshold, unref, phase, client, pending>>

SweepInverted ==   \* seeded fault: what is marked is erased
  /\ phase = "sweep" /\ cursor # NULL
  /\ cursor' = Succ(tree, cursor)
  /\ IF cursor \notin marked
     THEN /\ marked' = marked \ {cursor} /\ allMarked' = allMarked \ {cursor}
          /\ UNCHANGED <<tree, mem, count>>
     ELSE /\ tree' = EraseObject(tree, cursor)
          /\ mem' = [mem EXCEPT ![cursor] = NoFields]
          /\ count' = count - 1
          /\ UNCHANGED <<marked, allMarked>>
  /\ UNCHANGED <<root, scopeVars, threshold, unref, phase, client, pending>>

SweepSkipping ==   \* seeded fault: the sweep goes on below the erased object only
  /\ phase = "sweep" /\ cursor # NULL
  /\ IF cursor \in marked
     THEN /\ marked' = marked \ {cursor} /\ allMarked' = allMarked \ {cursor}
          /\ cursor' = Succ(tree, cursor)
          /\ UNCHANGED <<tree, mem, count>>
     ELSE /\ tree' = EraseObject(tree, cursor)
          /\ cursor' = First(tree, tree.node[cursor].right)
          /\ mem' = [mem EXCEPT ![cursor] = NoFields]
          /\ count' = count - 1
          /\ UNCHANGED <<marked, allMarked>>
  /\ UNCHANGED <<root, scopeVars, threshold, unref, phase, client, pending>>

\* The successor is looked up before the object is erased.
Sweep ==
  /\ phase = "sweep" /\ cursor # NULL
  /\ cursor' = Succ(tree, cursor)
  /\ IF cursor \in marked
     THEN /\ marked' = marked \ {cursor} /\ allMarked' = allMarked \ {cursor}
          /\ UNCHANGED <<tree, mem, count>>
     ELSE /\ tree' = EraseObject(tree, cursor)
          /\ mem' = [mem EXCEPT ![cursor] = NoFields]
          /\ count' = count - 1
          /\ UNCHANGED <<marked, allMarked>>
  /\ UNCHANGED <<root, scopeVars, threshold, unref, phase, client, pending>>

NewThreshold(n, t) ==
  IF n >= t THEN t * Factor
  ELSE IF t > ObjectThreshold /\ n < (t \div Factor) THEN t \div Factor
  ELSE t

\* "Update gc status"
Finish ==
  /\ phase = "sweep" /\ cursor = NULL
  /\ threshold' = NewThreshold(count, threshold)
  /\ unref' = 0
  /\ phase' = IF client = Nil THEN "idle" ELSE "alloc"
  /\ UNCHANGED <<tree, mem, root, scopeVars, count, client, pending, marked, allMarked, cursor>>

Collect == Mark \/ BeginSweep \/ Sweep \/ Finish

-----------------------------------------------------------------------------
(* Its clients; they run only while the collector does not.                *)

Abstract(A) == ObjectsAt(A) \cap Live(tree)

\* What the program can name.
Accessible ==
  LET Edges(x) == Abstract(ToSet(mem[x]))
      from == Abstract({root[i].ref : i \in {j \in Root : root[j].open}})
                \cup (({scope} \cup ToSet(frames)) \cap Block) \cup Edges(Globals)
      grow[k \in 0..Cardinality(Block)] ==
        IF k = 0 THEN from ELSE grow[k - 1] \cup UNION {Edges(x) : x \in grow[k - 1]}
  IN grow[Cardinality(Block)]

Gc == phase = "idle" /\ StartGc(root, Nil)
        /\ UNCHANGED <<tree, mem, root, scopeVars, statusVars, marked, allMarked, cursor>>

OpenRoot(i) ==
  /\ phase = "idle" /\ ~root[i].open
  /\ root' = [root EXCEPT ![i].open = TRUE]
  /\ UNCHANGED <<tree, mem, scopeVars, statusVars, gcVars>>

Store(i, o) ==
  /\ phase = "idle" /\ root[i].open
  /\ o \in Accessible
  /\ root' = [root EXCEPT ![i].ref = Data(o)]
  /\ UNCHANGED <<tree, mem, scopeVars, statusVars, gcVars>>

\* sm_heap_root_drop: a scope counts once, and once more for its parent and each
\* variable.
Unrefs(i) ==
  LET o == FromPointer(tree, {}, root[i].ref, TRUE) IN
  IF o = NULL THEN 0 ELSE 1 + Cardinality({f \in 1..Fields : mem[o][f] # NULL})

DropRoot(i) ==
  /\ phase = "idle" /\ root[i].open
  /\ root' = [root EXCEPT ![i] = Closed]
  /\ unref' = unref + Unrefs(i)
  /\ IF count >= threshold \/ unref' >= UnrefThreshold
     THEN StartGc(root', Nil) ELSE UNCHANGED <<phase, client, pending>>
  /\ UNCHANGED <<tree, mem, scopeVars, count, threshold, marked, allMarked, cursor>>

Free(o) == \A p \in Live(tree) : ~Overlap(o, p)

\* An allocation for root cell i: collect first if the thresholds say so.
CollectForAlloc(i) ==
  /\ phase = "idle" /\ root[i].open /\ ShouldCollect
  /\ \E o \in Block : Free(o)
  /\ StartGc(root, i)
  /\ UNCHANGED <<tree, mem, root, scopeVars, statusVars, marked, allMarked, cursor>>

Alloc(i, o) ==
  /\ \/ phase = "idle" /\ ~ShouldCollect
     \/ phase = "alloc" /\ client = i
  /\ root[i].open
  /\ Free(o)
  /\ tree' = InsertObject(tree, o)
  /\ count' = count + 1
  /\ root' = [root EXCEPT ![i].ref = Data(o)]
  /\ phase' = "idle" /\ client' = Nil
  /\ UNCHANGED <<mem, scopeVars, threshold, unref, pending, marked, allMarked, cursor>>

Links == Cardinality({p \in Holder \X (1..Fields) : mem[p[1]][p[2]] # NULL})

SetField(x, f, a) ==
  /\ phase = "idle"
  /\ x \in Accessible \cup {Globals}
  /\ a # NULL => ObjectAt(a) \in Accessible /\ Links < MaxLinks
  /\ NULL \in {mem[x][f], a}   \* an overwrite is an erasure and a write
  /\ mem' = [mem EXCEPT ![x][f] = a]
  /\ UNCHANGED <<tree, root, scopeVars, statusVars, gcVars>>

\* An instance with the main frame only leaves evaluation, which moves scopes, out.
SetScope(s) ==
  /\ phase = "idle" /\ MaxFrames > 1
  /\ s \in Accessible \cup {Globals}
  /\ scope' = s
  /\ UNCHANGED <<tree, mem, root, frames, statusVars, gcVars>>

EnterFrame ==
  /\ phase = "idle" /\ Len(frames) < MaxFrames
  /\ frames' = Append(frames, scope)
  /\ UNCHANGED <<tree, mem, root, scope, statusVars, gcVars>>

ExitFrame ==
  /\ phase = "idle" /\ Len(frames) > 1
  /\ scope' = Last(frames) /\ frames' = Front(frames)
  /\ UNCHANGED <<tree, mem, root, statusVars, gcVars>>

Mutate ==
  \/ Gc \/ EnterFrame \/ ExitFrame
  \/ \E i \in Root :
       \/ OpenRoot(i) \/ DropRoot(i) \/ CollectForAlloc(i)
       \/ \E o \in Block : Store(i, o) \/ Alloc(i, o)
  \/ \E x \in Holder, f \in 1..Fields, a \in Address : SetField(x, f, a)
  \/ \E s \in Holder : SetScope(s)

Next == Collect \/ Mutate

\* The collector runs in the thread of its caller, which does nothing else until
\* it returns: it takes its next step.
Spec == Init /\ [][Next]_vars /\ WF_vars(Collect)

-----------------------------------------------------------------------------
(* Properties.                                                             *)

TypeOK ==
  /\ Live(tree) \subseteq Block /\ tree.panicked \in BOOLEAN
  /\ mem \in [Holder -> [1..Fields -> Address]]
  /\ root \in [Root -> [open : BOOLEAN, ref : Address]]
  /\ scope \in Holder /\ frames \in Seq(Holder)
  /\ count \in Nat /\ threshold \in Nat /\ unref \in Nat
  /\ phase \in {"idle", "mark", "sweep", "alloc"} /\ client \in Root \cup {Nil}
  /\ pending \in Seq(Address \ {NULL})
  /\ marked \subseteq Live(tree) /\ allMarked \subseteq Live(tree)
  /\ cursor \in Live(tree) \cup {NULL}

\* Pruning is exact: while marking, all_marked is set on a node exactly when its
\* whole subtree is marked, in whatever order marks arrive from above and from
\* below (heap.c:361-374).  Set too early, object_from_pointer would hide an
\* unmarked object from the marker and the sweep would free it.
AllMarkedExact ==
  phase = "mark" => allMarked = {n \in Live(tree) : Members(tree)[n] \subseteq marked}

\* Nothing is forgotten on the way: what a marked object leads to is marked or
\* waits its turn, and so is every source of the collection.
Frontier ==
  phase = "mark" =>
    \A a \in ToSet(Sources(root)) \cup UNION {ToSet(Pointers(mem[o])) : o \in marked} :
      a \in ToSet(pending) \/ Abstract({a}) \subseteq marked

\* A collection leaves no flag behind for the next one to trust, on survivors
\* that a rotation of the sweep moved included (heap.c:606-612).
FlagsCleared == phase \in {"idle", "alloc"} => marked = {} /\ allMarked = {}

\* What a collection leaves is what the program can name, whatever the shape of
\* the index, the order of the marks, and the rotations of the erasures.
LeavesAccessible ==
  [][phase = "sweep" /\ phase' # "sweep" => Live(tree) = Accessible]_vars

\* Every collection ends, cyclic structures included.
GcEnds == phase \in {"mark", "sweep"} ~> phase \in {"idle", "alloc"}

\* The specification sees a collection as one step, its first: what the sources
\* do not lead to is gone from then on.  While marking that is a matter of
\* reachability; from BeginSweep on it is what the marker found, and the sweep
\* has yet to erase.
SweptAway ==
  CASE phase = "mark"  -> Live(tree) \ Accessible
    [] phase = "sweep" -> {o \in Live(tree) : cursor # NULL /\ o >= cursor} \ marked
    [] OTHER           -> {}
Kept      == Live(tree) \ SweptAway
KeptCount == count - Cardinality(SweptAway)
InGc      == phase \in {"mark", "sweep"}

\* A heap of the objects O, every one a scope, with what mem has in them.
View(O, n, t, u) ==
  [objects   |-> O,
   kind      |-> [o \in Block |-> IF o \in O THEN "Scope" ELSE Unused],
   refs      |-> [x \in Holder |-> IF x \in O \cup {Globals} THEN ObjectsAt(ToSet(mem[x])) ELSE {}],
   ids       |-> [x \in Holder |-> {}],
   count     |-> n,
   threshold |-> t,
   unref     |-> u]

HeapView == View(Kept, KeptCount,
                 IF InGc THEN NewThreshold(KeptCount, threshold) ELSE threshold,
                 IF InGc THEN 0 ELSE unref)
RootView == [i \in Root |-> [open  |-> root[i].open, value |-> FALSE,
                             ref   |-> IF root[i].ref = NULL THEN Nil ELSE ObjectAt(root[i].ref)]]

H == INSTANCE Heap WITH
       Object <- Block, Kind <- {"Scope"}, MaxVars <- Fields, heap <- HeapView, root <- RootView

\* The collector keeps exactly what is reachable, whatever the shape of the
\* index and the order of marking, and its clients see it happen at once.
ImplementsHeap == H!Spec
=============================================================================
