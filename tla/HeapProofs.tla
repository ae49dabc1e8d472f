----------------------------- MODULE HeapProofs -----------------------------
(***************************************************************************)
(* Theorems about module Heap, for any set of addresses, any configuration *)
(* of the collector and any bounds: the specification's types, its books   *)
(* and the absence of dangling addresses.                                  *)
(***************************************************************************)
EXTENDS Heap, FiniteSetTheorems, TLAPS

(***************************************************************************)
(* The inductive invariant, in parts that are predicates of a heap h, root *)
(* cells r, a current scope s and saved scopes f, so that the lemmas apply *)
(* to the intermediate heaps of an action as well as to its end points.    *)
(***************************************************************************)

\* A heap is well formed when the fields of its record agree.
WellFormed(h) ==
  /\ h \in Heaps
  /\ \A o \in Object : o \in h.objects <=> h.kind[o] # Unused
  /\ IsFiniteSet(h.objects)
  /\ h.count = Cardinality(h.objects)

\* Only strings hold addresses of freed objects.
Sound(h) ==
  /\ h.refs[Globals] \subseteq h.objects
  /\ \A o \in h.objects : h.kind[o] # "String" => h.refs[o] \subseteq h.objects

RootsLive(h, r) == \A i \in Root : r[i].open /\ r[i].ref \in Object => r[i].ref \in h.objects

ScopesLive(h, s, f) ==
  /\ s \in Object => s \in h.objects
  /\ \A i \in DOMAIN f : f[i] \in Object => f[i] \in h.objects

\* The threshold is one of Levels: without it nothing says that dividing it
\* by the factor does not leave it below the configured one.
Budget(h) == h.count <= h.threshold /\ h.threshold \in Levels

Types ==
  /\ root \in [Root -> Roots]
  /\ scope \in Holder
  /\ frames \in Seq(Holder) /\ frames # << >>

IInv ==
  /\ WellFormed(heap) /\ Sound(heap) /\ Budget(heap)
  /\ heap.unref < UnrefThreshold
  /\ RootsLive(heap, root) /\ ScopesLive(heap, scope, frames)
  /\ Types

-----------------------------------------------------------------------------
(* The levels of the threshold.                                            *)

\* The configured threshold is a level, levels are closed under multiplication
\* by the factor, and no level is below the configured threshold.
LEMMA LevelsClosed ==
  /\ Levels \subseteq Nat
  /\ ObjectThreshold \in Levels
  /\ \A t \in Levels : t * Factor \in Levels
  /\ \A t \in Levels : t >= ObjectThreshold
<1>1. Levels \subseteq Nat
  BY DEF Levels
<1>2. ObjectThreshold \in Levels
  BY ConfigAssumption DEF Levels
<1>3. ASSUME NEW t \in Levels PROVE t * Factor \in Levels
  <2>1. t * Factor \in Nat
    BY <1>1, ConfigAssumption
  <2>2. ASSUME NEW S \in SUBSET Nat, ObjectThreshold \in S, \A n \in S : n * Factor \in S
        PROVE  t * Factor \in S
    <3>1. t \in S
      BY <2>2 DEF Levels
    <3> QED BY <3>1, <2>2
  <2> QED BY <2>1, <2>2 DEF Levels
<1>4. ASSUME NEW t \in Levels PROVE t >= ObjectThreshold
  <2> DEFINE S == {n \in Nat : n >= ObjectThreshold}
  <2>1. ObjectThreshold \in S
    BY ConfigAssumption
  <2>2. ASSUME NEW n \in S PROVE n * Factor \in S
    <3>1. n * Factor \in Nat /\ n * Factor >= n
      BY ConfigAssumption, Z3
    <3> QED BY <3>1, ConfigAssumption
  <2>3. t \in S
    BY <2>1, <2>2 DEF Levels
  <2> QED BY <2>3
<1> QED BY <1>1, <1>2, <1>3, <1>4

\* A level other than the first, divided by the factor, is a level.
LEMMA LevelsDivide ==
  ASSUME NEW t \in Levels, t # ObjectThreshold
  PROVE  t \div Factor \in Levels
<1> DEFINE S == {ObjectThreshold} \cup {n \in Nat : \E m \in Levels : n = m * Factor}
<1>1. S \in SUBSET Nat /\ ObjectThreshold \in S
  BY ConfigAssumption
<1>2. ASSUME NEW n \in S PROVE n * Factor \in S
  <2>1. n \in Levels
    BY LevelsClosed
  <2> QED BY <2>1, LevelsClosed, ConfigAssumption
<1>3. t \in S
  <2> HIDE DEF S
  <2> QED BY <1>1, <1>2 DEF Levels
<1>4. PICK m \in Levels : t = m * Factor
  BY <1>3
<1>5. (m * Factor) \div Factor = m
  <2>1. m \in Nat
    BY LevelsClosed
  <2> QED BY <2>1, ConfigAssumption, Z3
<1> QED BY <1>4, <1>5

\* After a collection the threshold is a level again and strictly above the
\* number of survivors.
LEMMA NewThresholdFits ==
  ASSUME NEW t \in Levels, NEW n \in Nat, n <= t
  PROVE  NewThreshold(n, t) \in Levels /\ n < NewThreshold(n, t)
<1>1. t \in Nat /\ t >= ObjectThreshold /\ t * Factor \in Levels
  BY LevelsClosed
<1>2. t < t * Factor
  BY <1>1, ConfigAssumption, Z3
<1>3. CASE n >= t
  BY <1>1, <1>2, <1>3, ConfigAssumption DEF NewThreshold
<1>4. CASE n < t /\ t > ObjectThreshold /\ n < (t \div Factor)
  <2>1. t \div Factor \in Levels
    BY <1>4, <1>1, LevelsDivide, ConfigAssumption
  <2>2. NewThreshold(n, t) = t \div Factor
    BY <1>4, <1>1 DEF NewThreshold
  <2> QED BY <2>1, <2>2, <1>4
<1>5. CASE n < t /\ ~(t > ObjectThreshold /\ n < (t \div Factor))
  <2>1. NewThreshold(n, t) = t
    BY <1>5, <1>1 DEF NewThreshold
  <2> QED BY <2>1, <1>5
<1> QED BY <1>1, <1>3, <1>4, <1>5

-----------------------------------------------------------------------------
(* Reachability and collection.                                            *)

\* Reach is a set of live objects, holds the live starting points and is closed
\* under the edges that lead to live objects.
LEMMA ReachCloses ==
  ASSUME NEW h \in Heaps, NEW start, NEW edges
  PROVE  /\ Reach(h, start, edges) \subseteq h.objects
         /\ start \cap h.objects \subseteq Reach(h, start, edges)
         /\ \A x \in Reach(h, start, edges) : edges[x] \cap h.objects \subseteq Reach(h, start, edges)
<1>1. Reach(h, start, edges) \subseteq h.objects
  BY DEF Reach
<1>2. start \cap h.objects \subseteq Reach(h, start, edges)
  BY DEF Reach
<1>3. ASSUME NEW x \in Reach(h, start, edges), NEW y \in edges[x] \cap h.objects
      PROVE  y \in Reach(h, start, edges)
  <2>1. SUFFICES ASSUME NEW C \in SUBSET h.objects,
                        start \cap h.objects \subseteq C,
                        \A z \in C : edges[z] \cap h.objects \subseteq C
                 PROVE  y \in C
    BY DEF Reach
  <2>2. x \in C
    BY <2>1 DEF Reach
  <2> QED BY <2>1, <2>2
<1> QED BY <1>1, <1>2, <1>3

\* Where marking starts is live exactly when the roots, the scopes and the
\* global variables are.
LEMMA StartLive ==
  ASSUME NEW h \in Heaps, NEW r \in [Root -> Roots], NEW s, NEW f
  PROVE  Start(h, r, s, f) \subseteq h.objects
           <=> RootsLive(h, r) /\ ScopesLive(h, s, f) /\ h.refs[Globals] \subseteq h.objects
BY DEF Start, RootRefs, ContextRefs, RootsLive, ScopesLive, Heaps, Roots

\* A collection keeps a heap well formed and sound, keeps alive whatever the
\* roots and the scopes lead to, and leaves room for an allocation.
LEMMA CollectedKeeps ==
  ASSUME NEW h, NEW r \in [Root -> Roots],
         WellFormed(h), Sound(h), Budget(h), RootsLive(h, r), ScopesLive(h, scope, frames)
  PROVE  LET c == Collected(h, r) IN
         /\ WellFormed(c) /\ Sound(c) /\ RootsLive(c, r) /\ ScopesLive(c, scope, frames)
         /\ c.count < c.threshold /\ c.threshold \in Levels
         /\ c.unref = 0
         /\ c.objects \subseteq h.objects
<1> DEFINE c == Collected(h, r)
           S == Start(h, r, scope, frames)
           keep == Reach(h, S, h.refs)
           n == h.count - Cardinality(h.objects \ keep)
<1>0. h \in Heaps /\ Globals \notin Object
  BY NamesAssumption DEF WellFormed
<1>1. /\ keep \subseteq h.objects
      /\ S \cap h.objects \subseteq keep
      /\ \A x \in keep : h.refs[x] \cap h.objects \subseteq keep
  <2> HIDE DEF S
  <2> QED BY <1>0, ReachCloses
<1>2. S \subseteq keep
  <2>1. S \subseteq h.objects
    BY <1>0, StartLive DEF Sound
  <2> QED BY <2>1, <1>1
<1>3. /\ IsFiniteSet(keep)
      /\ n = Cardinality(keep)
      /\ Cardinality(keep) \in Nat /\ Cardinality(keep) <= h.count
  <2> HIDE DEF keep
  <2>1. IsFiniteSet(h.objects) /\ h.count = Cardinality(h.objects)
    BY DEF WellFormed
  <2>2. IsFiniteSet(keep) /\ Cardinality(keep) <= Cardinality(h.objects)
    BY <2>1, <1>1, FS_Subset
  <2>3. Cardinality(h.objects \ keep) = Cardinality(h.objects) - Cardinality(h.objects \cap keep)
    BY <2>1, FS_Difference
  <2>4. h.objects \cap keep = keep
    BY <1>1
  <2>5. Cardinality(keep) \in Nat /\ Cardinality(h.objects) \in Nat
    BY <2>1, <2>2, FS_CardinalityType
  <2> QED BY <2>1, <2>2, <2>3, <2>4, <2>5
<1>4. /\ NewThreshold(n, h.threshold) \in Levels
      /\ n < NewThreshold(n, h.threshold)
  <2> HIDE DEF n
  <2>1. n \in Nat /\ n <= h.threshold
    BY <1>0, <1>3, LevelsClosed DEF Budget, Heaps
  <2> QED BY <2>1, NewThresholdFits DEF Budget
<1>5. /\ c.objects = keep /\ c.count = n /\ c.unref = 0
      /\ c.threshold = NewThreshold(n, h.threshold)
      /\ c.kind = [o \in Object |-> IF o \in keep THEN h.kind[o] ELSE Unused]
      /\ c.refs = [x \in Holder |-> IF x \in keep \cup {Globals} THEN h.refs[x] ELSE {}]
      /\ c.ids  = [x \in Holder |-> IF x \in keep \cup {Globals} THEN h.ids[x] ELSE {}]
      /\ DOMAIN c = {"objects", "kind", "refs", "ids", "count", "threshold", "unref"}
  BY DEF Collected
<1>6. c \in Heaps
  <2> HIDE DEF keep, n
  <2>1. NewThreshold(n, h.threshold) \in Nat
    BY <1>4, LevelsClosed
  <2>2. keep \in SUBSET Object
    BY <1>0, <1>1 DEF Heaps
  <2>3. [o \in Object |-> IF o \in keep THEN h.kind[o] ELSE Unused] \in [Object -> Kind \cup {Unused}]
    BY <1>0 DEF Heaps
  <2>4. /\ [x \in Holder |-> IF x \in keep \cup {Globals} THEN h.refs[x] ELSE {}] \in [Holder -> SUBSET Object]
        /\ [x \in Holder |-> IF x \in keep \cup {Globals} THEN h.ids[x] ELSE {}] \in [Holder -> SUBSET Object]
    BY <1>0 DEF Heaps
  <2> QED BY <2>1, <2>2, <2>3, <2>4, <1>3, Zenon DEF Collected, Heaps, keep, n
<1> HIDE DEF c, keep, n
<1>7. WellFormed(c)
  BY <1>0, <1>1, <1>3, <1>5, <1>6 DEF WellFormed, Heaps
<1>8. c.refs[Globals] = h.refs[Globals] /\ \A o \in keep : c.refs[o] = h.refs[o] /\ c.kind[o] = h.kind[o]
  BY <1>0, <1>1, <1>5 DEF Holder, Heaps
<1>9. Sound(c)
  <2>1. h.refs[Globals] \subseteq keep
    BY <1>2 DEF S, Start, ContextRefs
  <2>2. ASSUME NEW o \in keep, h.kind[o] # "String" PROVE h.refs[o] \subseteq keep
    BY <1>1, <2>2 DEF Sound
  <2>3. c.objects = keep
    BY <1>5
  <2>4. c.refs[Globals] \subseteq c.objects
    BY <2>1, <2>3, <1>8
  <2>5. ASSUME NEW o \in c.objects, c.kind[o] # "String" PROVE c.refs[o] \subseteq c.objects
    <3>1. o \in keep /\ h.kind[o] # "String" /\ c.refs[o] = h.refs[o]
      BY <2>3, <2>5, <1>8
    <3> QED BY <3>1, <2>2, <2>3
  <2> QED BY <2>4, <2>5 DEF Sound
<1>10. RootsLive(c, r) /\ ScopesLive(c, scope, frames)
  <2>1. Start(c, r, scope, frames) = S
    BY <1>8 DEF Start, ContextRefs, S
  <2>2. Start(c, r, scope, frames) \subseteq c.objects
    BY <2>1, <1>2, <1>5
  <2> QED BY <2>2, <1>6, StartLive
<1> QED BY <1>1, <1>4, <1>5, <1>7, <1>9, <1>10 DEF c

\* The same for the collection that precedes an allocation or follows a drop:
\* whether or not it happens, the pending unreferences are below their threshold
\* and there is room for one more object.
LEMMA CollectIfNeededKeeps ==
  ASSUME NEW h, NEW r \in [Root -> Roots],
         WellFormed(h), Sound(h), Budget(h), RootsLive(h, r), ScopesLive(h, scope, frames)
  PROVE  LET c == CollectIfNeeded(h, r) IN
         /\ WellFormed(c) /\ Sound(c) /\ RootsLive(c, r) /\ ScopesLive(c, scope, frames)
         /\ c.count < c.threshold /\ c.threshold \in Levels
         /\ c.unref < UnrefThreshold
         /\ c.objects \subseteq h.objects
<1>1. h.count \in Nat /\ h.threshold \in Nat /\ h.unref \in Nat
  BY DEF WellFormed, Heaps
<1>2. CASE ShouldCollect(h)
  <2>1. CollectIfNeeded(h, r) = Collected(h, r)
    BY <1>2 DEF CollectIfNeeded
  <2>2. 0 < UnrefThreshold
    BY ConfigAssumption
  <2> QED BY <2>1, <2>2, CollectedKeeps
<1>3. CASE ~ShouldCollect(h)
  <2>1. CollectIfNeeded(h, r) = h
    BY <1>3 DEF CollectIfNeeded
  <2>2. h.count < h.threshold /\ h.unref < UnrefThreshold
    BY <1>1, <1>3, ConfigAssumption DEF ShouldCollect
  <2> QED BY <2>1, <2>2 DEF Budget
<1> QED BY <1>2, <1>3

\* What the program can name is live.
LEMMA AccessibleLive ==
  ASSUME heap \in Heaps
  PROVE  Accessible \subseteq heap.objects
BY ReachCloses DEF Accessible

-----------------------------------------------------------------------------
(* The actions that only change the contents of the heap.                  *)

\* h with the fields of x overwritten and the count of unreferences set.
Write(h, x, R, I, u) == [h EXCEPT !.refs[x] = R, !.ids[x] = I, !.unref = u]

\* Writing live addresses in an object that is not a string, or removing
\* addresses, preserves what the invariant says of the heap; names of
\* variables do not count.
LEMMA WriteKeeps ==
  ASSUME NEW h, WellFormed(h), Sound(h), Budget(h),
         NEW x \in Holder, NEW R \in SUBSET Object, NEW I \in SUBSET Object, NEW u \in Nat,
         R \subseteq h.objects \/ R \subseteq h.refs[x]
  PROVE  LET g == Write(h, x, R, I, u) IN
         WellFormed(g) /\ Sound(g) /\ Budget(g) /\ g.objects = h.objects /\ g.unref = u
<1> DEFINE g == Write(h, x, R, I, u)
<1>1. h \in Heaps
  BY DEF WellFormed
<1>2. /\ g \in Heaps
      /\ g.objects = h.objects /\ g.kind = h.kind /\ g.count = h.count
      /\ g.threshold = h.threshold /\ g.unref = u
      /\ g.refs = [h.refs EXCEPT ![x] = R]
  BY <1>1 DEF Heaps, Write
<1> HIDE DEF g
<1>3. WellFormed(g)
  BY <1>2 DEF WellFormed
<1>4. g.refs[x] = R /\ \A y \in Holder \ {x} : g.refs[y] = h.refs[y]
  BY <1>1, <1>2 DEF Heaps
<1>5. g.refs[Globals] \subseteq h.objects
  BY <1>4 DEF Holder, Sound
<1>6. ASSUME NEW o \in h.objects, h.kind[o] # "String" PROVE g.refs[o] \subseteq h.objects
  <2>1. o \in Holder
    BY <1>1 DEF Heaps, Holder
  <2>2. CASE o = x
    BY <2>2, <1>4, <1>6 DEF Sound
  <2>3. CASE o # x
    BY <2>1, <2>3, <1>4, <1>6 DEF Sound
  <2> QED BY <2>2, <2>3
<1>7. Sound(g)
  BY <1>2, <1>5, <1>6 DEF Sound
<1>8. Budget(g)
  BY <1>2 DEF Budget
<1> QED BY <1>2, <1>3, <1>7, <1>8 DEF g

\* With the live objects unchanged, roots and scopes stay live.
LEMMA SameObjectsKeeps ==
  ASSUME NEW h, NEW g, g.objects = h.objects, NEW r, NEW s, NEW f,
         RootsLive(h, r), ScopesLive(h, s, f)
  PROVE  RootsLive(g, r) /\ ScopesLive(g, s, f)
BY DEF RootsLive, ScopesLive

\* Storing a reference keeps the invariant.
LEMMA LinkKeeps ==
  ASSUME IInv, NEW x \in Holder, NEW y \in Object, Link(x, y)
  PROVE  IInv'
<1>1. heap \in Heaps /\ y \in heap.objects
  BY AccessibleLive DEF IInv, WellFormed, Link
<1>2. heap' = Write(heap, x, heap.refs[x] \cup {y}, heap.ids[x], heap.unref)
  BY <1>1 DEF Link, Heaps, Write
<1>3. ASSUME NEW o \in heap.objects, heap.kind[o] # "String" PROVE heap.refs[o] \subseteq heap.objects
  BY <1>3 DEF IInv, Sound
<1>4. heap.refs[x] \cup {y} \subseteq heap.objects
  <2>1. x = Globals \/ (x \in heap.objects /\ heap.kind[x] # "String")
    BY <1>1, AccessibleLive DEF Link, Heaps
  <2> QED BY <2>1, <1>1, <1>3 DEF IInv, Sound
<1>5. /\ heap.refs[x] \cup {y} \in SUBSET Object /\ heap.ids[x] \in SUBSET Object
      /\ heap.unref \in Nat
  BY <1>1 DEF Heaps
<1>6. WellFormed(heap') /\ Sound(heap') /\ Budget(heap') /\ heap'.objects = heap.objects
      /\ heap'.unref = heap.unref
  BY <1>2, <1>4, <1>5, WriteKeeps DEF IInv
<1>7. RootsLive(heap', root) /\ ScopesLive(heap', scope, frames)
  BY <1>6, SameObjectsKeeps DEF IInv
<1>8. UNCHANGED <<root, scope, frames>>
  BY DEF Link
<1> QED BY <1>6, <1>7, <1>8 DEF IInv, Types, WellFormed, Sound, Budget, RootsLive, ScopesLive

\* Removing a reference keeps the invariant.
LEMMA UnlinkKeeps ==
  ASSUME IInv, NEW x \in Holder, NEW y \in Object, Unlink(x, y)
  PROVE  IInv'
<1>1. heap \in Heaps
  BY DEF IInv, WellFormed
<1>2. heap' = Write(heap, x, heap.refs[x] \ {y}, heap.ids[x], heap.unref)
  BY <1>1 DEF Unlink, Heaps, Write
<1>3. /\ heap.refs[x] \ {y} \in SUBSET Object /\ heap.ids[x] \in SUBSET Object
      /\ heap.unref \in Nat /\ heap.refs[x] \ {y} \subseteq heap.refs[x]
  BY <1>1 DEF Heaps
<1>4. WellFormed(heap') /\ Sound(heap') /\ Budget(heap') /\ heap'.objects = heap.objects
      /\ heap'.unref = heap.unref
  BY <1>2, <1>3, WriteKeeps DEF IInv
<1>5. RootsLive(heap', root) /\ ScopesLive(heap', scope, frames)
  BY <1>4, SameObjectsKeeps DEF IInv
<1>6. UNCHANGED <<root, scope, frames>>
  BY DEF Unlink
<1> QED BY <1>4, <1>5, <1>6 DEF IInv, Types, WellFormed, Sound, Budget, RootsLive, ScopesLive

\* Binding a name keeps the invariant.
LEMMA BindIdKeeps ==
  ASSUME IInv, NEW x \in Holder, NEW s \in Object, BindId(x, s)
  PROVE  IInv'
<1>1. heap \in Heaps
  BY DEF IInv, WellFormed
<1>2. heap' = Write(heap, x, heap.refs[x], heap.ids[x] \cup {s}, heap.unref)
  BY <1>1 DEF BindId, Heaps, Write
<1>3. /\ heap.refs[x] \in SUBSET Object /\ heap.ids[x] \cup {s} \in SUBSET Object
      /\ heap.unref \in Nat /\ heap.refs[x] \subseteq heap.refs[x]
  BY <1>1 DEF Heaps
<1>4. WellFormed(heap') /\ Sound(heap') /\ Budget(heap') /\ heap'.objects = heap.objects
      /\ heap'.unref = heap.unref
  BY <1>2, <1>3, WriteKeeps DEF IInv
<1>5. RootsLive(heap', root) /\ ScopesLive(heap', scope, frames)
  BY <1>4, SameObjectsKeeps DEF IInv
<1>6. UNCHANGED <<root, scope, frames>>
  BY DEF BindId
<1> QED BY <1>4, <1>5, <1>6 DEF IInv, Types, WellFormed, Sound, Budget, RootsLive, ScopesLive

\* A scope loses a variable and the collection the unreference may trigger sees
\* the scope without it.
LEMMA DeleteVariableKeeps ==
  ASSUME IInv, NEW x \in Holder, NEW s, NEW y \in SUBSET Object, DeleteVariable(x, s, y)
  PROVE  IInv'
<1> DEFINE h == Write(heap, x, heap.refs[x] \ y, heap.ids[x] \ {s}, heap.unref + 1)
<1>1. heap \in Heaps
  BY DEF IInv, WellFormed
<1>2. heap' = CollectIfNeeded(h, root) /\ UNCHANGED <<root, scope, frames>>
  BY <1>1 DEF DeleteVariable, Heaps, Write
<1>3. /\ heap.refs[x] \ y \in SUBSET Object /\ heap.ids[x] \ {s} \in SUBSET Object
      /\ heap.unref + 1 \in Nat /\ heap.refs[x] \ y \subseteq heap.refs[x]
  BY <1>1 DEF Heaps
<1>4. WellFormed(h) /\ Sound(h) /\ Budget(h) /\ h.objects = heap.objects
  BY <1>3, WriteKeeps DEF IInv
<1> HIDE DEF h
<1>5. RootsLive(h, root) /\ ScopesLive(h, scope, frames)
  BY <1>4, SameObjectsKeeps DEF IInv
<1>6. /\ WellFormed(heap') /\ Sound(heap') /\ RootsLive(heap', root) /\ ScopesLive(heap', scope, frames)
      /\ heap'.count < heap'.threshold /\ heap'.threshold \in Levels
      /\ heap'.unref < UnrefThreshold
  BY <1>2, <1>4, <1>5, CollectIfNeededKeeps DEF IInv, Types
<1>7. Budget(heap')
  BY <1>6 DEF Budget, WellFormed, Heaps
<1> QED BY <1>2, <1>6, <1>7 DEF IInv, Types, WellFormed, Sound, Budget, RootsLive, ScopesLive

-----------------------------------------------------------------------------
(* The actions on roots and scopes.                                        *)

\* Opening a root keeps the invariant.
LEMMA OpenRootKeeps ==
  ASSUME IInv, NEW i \in Root, NEW value \in BOOLEAN, OpenRoot(i, value)
  PROVE  IInv'
<1>1. root' \in [Root -> Roots]
  BY DEF OpenRoot, IInv, Types, Roots
<1>2. RootsLive(heap, root')
  BY NamesAssumption DEF OpenRoot, IInv, Types, RootsLive
<1>3. UNCHANGED <<heap, scope, frames>>
  BY DEF OpenRoot
<1> QED BY <1>1, <1>2, <1>3 DEF IInv, Types, WellFormed, Sound, Budget, RootsLive, ScopesLive

\* Storing in a root keeps the invariant.
LEMMA StoreKeeps ==
  ASSUME IInv, NEW i \in Root, NEW x \in Object \cup {Nil, Atom}, Store(i, x)
  PROVE  IInv'
<1>1. root' \in [Root -> Roots]
  BY DEF Store, IInv, Types, Roots
<1>2. x \in Object => x \in heap.objects
  BY AccessibleLive, NamesAssumption DEF Store, IInv, WellFormed
<1>3. RootsLive(heap, root')
  BY <1>2 DEF Store, IInv, Types, RootsLive, Roots
<1>4. UNCHANGED <<heap, scope, frames>>
  BY DEF Store
<1> QED BY <1>1, <1>3, <1>4 DEF IInv, Types, WellFormed, Sound, Budget, RootsLive, ScopesLive

\* Dropping a root collects, if at all, from the roots that remain.
LEMMA DropRootKeeps ==
  ASSUME IInv, NEW i \in Root, NEW n \in 0..MaxVars, DropRoot(i, n)
  PROVE  IInv'
<1> DEFINE u == heap.unref + UnrefsOfDrop(i, n)
           h == Write(heap, Globals, heap.refs[Globals], heap.ids[Globals], u)
<1>1. heap \in Heaps /\ Globals \in Holder
  BY DEF IInv, WellFormed, Holder
<1>2. u \in Nat
  <2>1. n \in Nat /\ heap.unref \in Nat
    BY <1>1, BoundsAssumption DEF Heaps
  <2>2. UnrefsOfDrop(i, n) \in Nat
    BY <2>1 DEF UnrefsOfDrop
  <2> QED BY <2>1, <2>2
<1>3. h = [heap EXCEPT !.unref = heap.unref + UnrefsOfDrop(i, n)]
  BY <1>1 DEF Write, Heaps
<1>4. heap' = CollectIfNeeded(h, root') /\ UNCHANGED <<scope, frames>>
  BY <1>3, Zenon DEF DropRoot
<1>5. /\ heap.refs[Globals] \in SUBSET Object /\ heap.ids[Globals] \in SUBSET Object
      /\ heap.refs[Globals] \subseteq heap.refs[Globals]
  BY <1>1 DEF Heaps
<1> HIDE DEF u
<1>6. WellFormed(h) /\ Sound(h) /\ Budget(h) /\ h.objects = heap.objects
  BY <1>1, <1>2, <1>5, WriteKeeps DEF IInv
<1> HIDE DEF h
<1>7. root' \in [Root -> Roots]
  BY NamesAssumption DEF DropRoot, IInv, Types, Roots, Closed
<1>8. RootsLive(heap, root')
  BY DEF DropRoot, IInv, Types, RootsLive, Closed
<1>9. RootsLive(h, root') /\ ScopesLive(h, scope, frames)
  BY <1>6, <1>8, SameObjectsKeeps DEF IInv
<1>10. /\ WellFormed(heap') /\ Sound(heap') /\ RootsLive(heap', root') /\ ScopesLive(heap', scope, frames)
       /\ heap'.count < heap'.threshold /\ heap'.threshold \in Levels
       /\ heap'.unref < UnrefThreshold
  BY <1>4, <1>6, <1>7, <1>9, CollectIfNeededKeeps
<1>11. Budget(heap')
  BY <1>10 DEF Budget, WellFormed, Heaps
<1> QED BY <1>4, <1>7, <1>10, <1>11 DEF IInv, Types, WellFormed, Sound, Budget, RootsLive, ScopesLive

\* A collection keeps the invariant.
LEMMA GcKeeps ==
  ASSUME IInv, Gc
  PROVE  IInv'
<1>1. /\ WellFormed(heap') /\ Sound(heap') /\ RootsLive(heap', root) /\ ScopesLive(heap', scope, frames)
      /\ heap'.count < heap'.threshold /\ heap'.threshold \in Levels
      /\ heap'.unref = 0
  BY CollectedKeeps DEF Gc, IInv, Types
<1>2. Budget(heap')
  BY <1>1 DEF Budget, WellFormed, Heaps
<1>3. UNCHANGED <<root, scope, frames>>
  BY DEF Gc
<1> QED BY <1>1, <1>2, <1>3, ConfigAssumption
        DEF IInv, Types, WellFormed, Sound, Budget, RootsLive, ScopesLive

\* The collection leaves room, so the new object fits under the threshold.
LEMMA AllocKeeps ==
  ASSUME IInv, NEW k \in Kind, NEW o \in Object, NEW i \in Root, NEW bytes \in SUBSET Object,
         Alloc(k, o, i, bytes)
  PROVE  IInv'
<1> DEFINE h == CollectIfNeeded(heap, root)
<1>1. /\ WellFormed(h) /\ Sound(h) /\ RootsLive(h, root) /\ ScopesLive(h, scope, frames)
      /\ h.count < h.threshold /\ h.threshold \in Levels
      /\ h.unref < UnrefThreshold
  BY CollectIfNeededKeeps DEF IInv, Types
<1>2. /\ heap' = [h EXCEPT !.objects = h.objects \cup {o}, !.kind[o] = k, !.refs[o] = bytes,
                           !.count = h.count + 1]
      /\ root' = [root EXCEPT ![i].ref = o]
      /\ UNCHANGED <<scope, frames>>
      /\ o \notin h.objects
      /\ k # "String" => bytes = {}
  BY DEF Alloc
<1> HIDE DEF h
<1>3. h \in Heaps /\ k # Unused /\ o # Globals
  BY <1>1, NamesAssumption DEF WellFormed
<1>4. /\ heap' \in Heaps
      /\ heap'.objects = h.objects \cup {o} /\ heap'.count = h.count + 1
      /\ heap'.threshold = h.threshold /\ heap'.unref = h.unref
      /\ heap'.kind = [h.kind EXCEPT ![o] = k] /\ heap'.refs = [h.refs EXCEPT ![o] = bytes]
  <2> DEFINE objects == h.objects \cup {o}
             kind    == [h.kind EXCEPT ![o] = k]
             refs    == [h.refs EXCEPT ![o] = bytes]
  <2>1. heap' = [h EXCEPT !.objects = objects, !.kind = kind, !.refs = refs, !.count = h.count + 1]
    BY <1>2, <1>3 DEF Heaps
  <2>2. /\ objects \in SUBSET Object /\ h.count + 1 \in Nat
        /\ kind \in [Object -> Kind \cup {Unused}] /\ refs \in [Holder -> SUBSET Object]
    BY <1>3 DEF Heaps, Holder
  <2> HIDE DEF objects, kind, refs
  <2>3. /\ heap' \in Heaps
        /\ heap'.objects = objects /\ heap'.count = h.count + 1 /\ heap'.kind = kind
        /\ heap'.refs = refs /\ heap'.threshold = h.threshold /\ heap'.unref = h.unref
    BY <1>3, <2>1, <2>2 DEF Heaps
  <2> QED BY <2>3 DEF objects, kind, refs
<1>5. WellFormed(heap')
  <2>1. IsFiniteSet(h.objects \cup {o}) /\ Cardinality(h.objects \cup {o}) = h.count + 1
    BY SMTT(30), <1>1, <1>2, FS_AddElement DEF WellFormed
  <2>2. \A p \in Object : p \in heap'.objects <=> heap'.kind[p] # Unused
    BY <1>1, <1>3, <1>4 DEF WellFormed, Heaps
  <2> QED BY <1>4, <2>1, <2>2 DEF WellFormed
<1>6. Sound(heap')
  <2>1. heap'.refs[Globals] = h.refs[Globals]
    BY <1>3, <1>4 DEF Heaps, Holder
  <2>2. ASSUME NEW p \in heap'.objects, heap'.kind[p] # "String" PROVE heap'.refs[p] \subseteq heap'.objects
    <3>1. CASE p = o
      BY <3>1, <1>2, <1>3, <1>4, <2>2 DEF Heaps, Holder
    <3>2. CASE p # o
      <4>1. p \in h.objects /\ p \in Object
        BY <1>3, <1>4, <3>2 DEF Heaps
      <4>2. heap'.kind[p] = h.kind[p] /\ heap'.refs[p] = h.refs[p]
        BY <1>3, <1>4, <3>2, <4>1 DEF Heaps, Holder
      <4> QED BY <4>1, <4>2, <2>2, <1>1, <1>4 DEF Sound
    <3> QED BY <3>1, <3>2
  <2> QED BY <2>1, <2>2, <1>1, <1>4 DEF Sound
<1>7. root' \in [Root -> Roots]
  BY <1>2 DEF IInv, Types, Roots
<1>8. RootsLive(heap', root')
  BY <1>1, <1>2, <1>4 DEF RootsLive, IInv, Types, Roots
<1>9. ScopesLive(heap', scope, frames)
  BY <1>1, <1>4 DEF ScopesLive
<1>10. Budget(heap')
  BY <1>1, <1>3, <1>4 DEF Budget, Heaps
<1> QED BY <1>1, <1>2, <1>4, <1>5, <1>6, <1>7, <1>8, <1>9, <1>10
        DEF IInv, Types, WellFormed, Sound, Budget, RootsLive, ScopesLive

\* Entering and leaving frames and setting a scope keep the invariant.
LEMMA ScopeKeeps ==
  ASSUME IInv, EnterFrame \/ ExitFrame \/ (\E s \in Holder : SetScope(s))
  PROVE  IInv'
<1>0. heap \in Heaps
  BY DEF IInv, WellFormed
<1>1. CASE EnterFrame
  <2>1. frames' = Append(frames, scope) /\ UNCHANGED <<heap, root, scope>>
    BY <1>1 DEF EnterFrame
  <2>2. frames' \in Seq(Holder) /\ frames' # << >>
    BY <2>1 DEF IInv, Types
  <2>3. ScopesLive(heap, scope, frames')
    BY <2>1 DEF IInv, Types, ScopesLive
  <2> QED BY <2>1, <2>2, <2>3 DEF IInv, Types, WellFormed, Sound, Budget, RootsLive, ScopesLive
<1>2. CASE ExitFrame
  <2>1. /\ Len(frames) > 1
        /\ scope' = frames[Len(frames)]
        /\ frames' = SubSeq(frames, 1, Len(frames) - 1)
        /\ UNCHANGED <<heap, root>>
    BY <1>2 DEF ExitFrame
  <2>2. /\ frames' \in Seq(Holder) /\ frames' # << >> /\ scope' \in Holder
        /\ DOMAIN frames' \subseteq DOMAIN frames
        /\ \A i \in DOMAIN frames' : frames'[i] = frames[i]
    <3> DEFINE n == Len(frames) - 1
    <3>1. frames \in Seq(Holder) /\ n \in 1..Len(frames) /\ Len(frames) \in DOMAIN frames
      BY <2>1 DEF IInv, Types
    <3>2. /\ SubSeq(frames, 1, n) \in Seq(Holder)
          /\ Len(SubSeq(frames, 1, n)) = n
          /\ \A i \in 1..n : SubSeq(frames, 1, n)[i] = frames[i]
      BY <3>1
    <3> HIDE DEF n
    <3>3. frames' = SubSeq(frames, 1, n) /\ DOMAIN frames' = 1..n
      BY <2>1, <3>2 DEF n
    <3>4. frames' # << >> /\ 1..n \subseteq DOMAIN frames
      BY <3>1, <3>2, <3>3
    <3>5. scope' \in Holder
      BY <2>1, <3>1
    <3> QED BY <3>2, <3>3, <3>4, <3>5
  <2>3. ScopesLive(heap, scope', frames')
    BY <2>1, <2>2 DEF IInv, Types, ScopesLive
  <2> QED BY <2>1, <2>2, <2>3 DEF IInv, Types, WellFormed, Sound, Budget, RootsLive, ScopesLive
<1>3. CASE \E s \in Holder : SetScope(s)
  <2>1. PICK s \in Holder : SetScope(s)
    BY <1>3
  <2>2. scope' = s /\ UNCHANGED <<heap, root, frames>>
    BY <2>1 DEF SetScope
  <2>3. s \in Object => s \in heap.objects
    BY <1>0, <2>1, AccessibleLive, NamesAssumption DEF SetScope
  <2>4. ScopesLive(heap, scope', frames)
    BY <2>2, <2>3 DEF IInv, ScopesLive
  <2> QED BY <2>2, <2>4 DEF IInv, Types, WellFormed, Sound, Budget, RootsLive, ScopesLive
<1> QED BY <1>1, <1>2, <1>3

-----------------------------------------------------------------------------
(* The invariant and the theorems.                                         *)

\* The invariant holds at first.
LEMMA InitEstablishes == Init => IInv
<1> SUFFICES ASSUME Init PROVE IInv
  OBVIOUS
<1>1. heap \in Heaps /\ heap.objects = {}
  BY ConfigAssumption DEF Init, Heaps
<1>2. WellFormed(heap)
  BY <1>1, FS_EmptySet DEF WellFormed, Init
<1>3. Sound(heap)
  BY NamesAssumption DEF Sound, Init, Holder
<1>4. Budget(heap) /\ heap.unref < UnrefThreshold
  BY LevelsClosed, ConfigAssumption DEF Budget, Init
<1>5. RootsLive(heap, root) /\ ScopesLive(heap, scope, frames)
  BY NamesAssumption DEF RootsLive, ScopesLive, Init, Closed
<1>6. Types
  BY NamesAssumption DEF Types, Init, Roots, Closed, Holder
<1> QED BY <1>2, <1>3, <1>4, <1>5, <1>6 DEF IInv

\* Every step keeps the invariant.
LEMMA NextKeeps == IInv /\ [Next]_vars => IInv'
<1> SUFFICES ASSUME IInv, [Next]_vars PROVE IInv'
  OBVIOUS
<1>1. CASE Gc
  BY <1>1, GcKeeps
<1>2. CASE EnterFrame \/ ExitFrame \/ (\E s \in Holder : SetScope(s))
  BY <1>2, ScopeKeeps
<1>3. CASE \E i \in Root, value \in BOOLEAN : OpenRoot(i, value)
  BY <1>3, OpenRootKeeps
<1>4. CASE \E i \in Root, x \in Object \cup {Nil, Atom} : Store(i, x)
  BY <1>4, StoreKeeps
<1>5. CASE \E i \in Root, n \in 0..MaxVars : DropRoot(i, n)
  BY <1>5, DropRootKeeps
<1>6. CASE \E i \in Root, k \in Kind, o \in Object, bytes \in {{}} \cup {{x} : x \in Object} :
             Alloc(k, o, i, bytes)
  <2>1. PICK i \in Root, k \in Kind, o \in Object, bytes \in SUBSET Object : Alloc(k, o, i, bytes)
    BY <1>6
  <2> QED BY <2>1, AllocKeeps
<1>7. CASE \E x \in Holder, y \in Object : Link(x, y)
  BY <1>7, LinkKeeps
<1>8. CASE \E x \in Holder, y \in Object : Unlink(x, y)
  BY <1>8, UnlinkKeeps
<1>9. CASE \E x \in Holder, y \in Object : BindId(x, y)
  BY <1>9, BindIdKeeps
<1>10. CASE \E x \in Holder, s \in Object \cup {Atom}, y \in {{}} \cup {{z} : z \in Object} : DeleteVariable(x, s, y)
  <2>1. PICK x \in Holder, s \in Object \cup {Atom}, y \in SUBSET Object : DeleteVariable(x, s, y)
    BY <1>10
  <2> QED BY <2>1, DeleteVariableKeeps
<1>11. CASE UNCHANGED vars
  BY <1>11 DEF vars, IInv, Types, WellFormed, Sound, Budget, RootsLive, ScopesLive
<1> QED BY <1>1, <1>2, <1>3, <1>4, <1>5, <1>6, <1>7, <1>8, <1>9, <1>10, <1>11, Zenon DEF Next

\* The inductive invariant holds throughout.
LEMMA InvariantHolds == Spec => []IInv
BY InitEstablishes, NextKeeps, PTL DEF Spec

\* Every variable keeps its type and exactly the live objects have a kind
\* (src/heap.c: what object_new, sm_heap_root and the sweep leave behind).
THEOREM TypeCorrect == Spec => []TypeOK
<1>1. IInv => TypeOK
  BY DEF IInv, WellFormed, Types, TypeOK
<1> QED BY <1>1, InvariantHolds, PTL

\* No use after free: no root cell, scope, global variable or live object but a
\* string ever gives the program the address of a freed object, for any number
\* of objects, roots and frames (sm_heap_gc marks from all of them).
THEOREM NothingDangles == Spec => []NoDangling
<1>1. IInv => NoDangling
  <2> SUFFICES ASSUME IInv PROVE NoDangling
    OBVIOUS
  <2>1. heap \in Heaps /\ root \in [Root -> Roots]
    BY DEF IInv, WellFormed, Types
  <2>2. Start(heap, root, scope, frames) \subseteq heap.objects
    BY <2>1, StartLive DEF IInv, Sound
  <2> QED BY <2>2 DEF NoDangling, IInv, Sound
<1> QED BY <1>1, InvariantHolds, PTL

\* The books of the collector balance for every configuration: the count is the
\* number of live objects and never passes the threshold, which never falls
\* below the configured one (should_collect, the sweep, "Update gc status").
THEOREM BooksBalance == Spec => []Accounting
<1>1. IInv => Accounting
  BY LevelsClosed DEF IInv, WellFormed, Budget, Accounting
<1> QED BY <1>1, InvariantHolds, PTL
=============================================================================
