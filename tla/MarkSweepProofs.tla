-------------------------- MODULE MarkSweepProofs ---------------------------
(***************************************************************************)
(* Theorems about the collector, for every heap: whatever the shape of the *)
(* index, the structures the program has built and the order in which they *)
(* are marked, pruning the lookups hides nothing from the marker, and a    *)
(* collection leaves exactly the objects the program can name.             *)
(*                                                                         *)
(* Covers(C) says that whoever starts from the sources of a collection and *)
(* follows addresses stays in C.  The sweep erases what it may because of  *)
(* two facts that hold from its first step to its last: the objects that   *)
(* will survive it cover, and no smaller set does.  The marker establishes *)
(* them: it never marks an object that some covering set does without      *)
(* (Needed), and what it has marked when nothing is pending covers         *)
(* (Frontier).  That in turn rests on pruning being exact                  *)
(* (AllMarkedExact): a lookup may miss an object only if that is marked.   *)
(***************************************************************************)
EXTENDS MarkSweep, ObjectTreeProofs, TLAPS

\* The addresses of the objects C, and NULL.
Named(C) == {NULL} \cup {Data(o) : o \in C}

Covers(C) ==
  /\ \A i \in Root : root[i].ref \in Named(C)
  /\ scope \in C \cup {Globals}
  /\ ToSet(frames) \subseteq C \cup {Globals}
  /\ \A x \in C \cup {Globals} : ToSet(mem[x]) \subseteq Named(C)

\* Marked, or waiting to be, is only what every covering set contains.
Needed ==
  \A C \in SUBSET Live(tree) : Covers(C) => marked \subseteq C /\ ToSet(pending) \subseteq Named(C)

Marking ==
  /\ Covers(Live(tree)) /\ ToSet(pending) \subseteq Named(Live(tree))
  /\ Needed /\ Frontier /\ AllMarkedExact

\* The objects the sweep has passed, and those it is going to keep.
Survivors == marked \cup {o \in Live(tree) : cursor = NULL \/ o < cursor}

Sweeping ==
  /\ allMarked \subseteq marked
  /\ \A o \in marked : cursor # NULL /\ cursor <= o
  /\ Covers(Survivors)
  /\ \A C \in SUBSET Survivors : Covers(C) => C = Survivors

Resting == marked = {} /\ allMarked = {} /\ Covers(Live(tree))

\* What holds in every phase.
Steady ==
  /\ TypeOK /\ Sound(tree) /\ Apart(Live(tree)) /\ count = Cardinality(Live(tree))
  /\ \A i \in Root : ~root[i].open => root[i].ref = NULL
  /\ \A x \in Block \ Live(tree) : mem[x] = NoFields

IInv ==
  /\ Steady
  /\ phase = "mark" => Marking
  /\ phase = "sweep" => Sweeping
  /\ phase \in {"idle", "alloc"} => Resting

-----------------------------------------------------------------------------
(* Addresses.                                                              *)

\* An object's data is inside it, and the global scope is inside none.
LEMMA DataInside ==
  ASSUME NEW o \in Block
  PROVE  /\ o \in Nat /\ Data(o) \in Nat /\ Data(o) # NULL /\ Data(o) # Globals /\ Holds(o, Data(o))
         /\ ObjectAt(Data(o)) = o /\ o # Globals
         /\ \A p \in Block : Data(o) = Data(p) => o = p
<1>1. /\ o \in Nat \ {0} /\ Size[o] \in Nat /\ Header \in Nat /\ Header < Size[o] /\ Globals \in Nat
      /\ Globals < o \/ o + Size[o] <= Globals
  BY BlockAssumption, MarkSweepAssumption DEF End
<1>2. \A p \in Block : p \in Nat
  BY BlockAssumption
<1> QED BY <1>1, <1>2 DEF Data, ObjectAt, Holds, End, NULL

\* The addresses of different sets of objects.
LEMMA NamedObjects ==
  ASSUME NEW C \in SUBSET Block, NEW o \in Block, Data(o) \in Named(C)
  PROVE  o \in C
<1>1. Data(o) # NULL
  BY DataInside
<1>2. PICK p \in C : Data(o) = Data(p)
  BY <1>1 DEF Named
<1> QED BY <1>2, DataInside

\* The members of a sequence that has grown by one.
LEMMA Appended ==
  ASSUME NEW B, NEW t \in Seq(B), NEW x \in B
  PROVE  Append(t, x) \in Seq(B) /\ ToSet(Append(t, x)) = ToSet(t) \cup {x}
<1> DEFINE u == Append(t, x)
           n == Len(t)
<1>1. u \in Seq(B) /\ n \in Nat /\ Len(u) = n + 1
  OBVIOUS
<1>2. u[n + 1] = x /\ \A i \in 1..n : u[i] = t[i]
  OBVIOUS
<1>3. DOMAIN u = 1..(n + 1) /\ DOMAIN t = 1..n
  OBVIOUS
<1> HIDE DEF u, n
<1>4. 1..(n + 1) = 1..n \cup {n + 1}
  BY <1>1
<1>5. {u[i] : i \in 1..(n + 1)} = {t[i] : i \in 1..n} \cup {x}
  BY <1>2, <1>4
<1>6. ToSet(u) = ToSet(t) \cup {x}
  BY <1>3, <1>5 DEF ToSet
<1> QED BY <1>1, <1>6 DEF u

\* What the marker is passed is what the sequence leads to.
LEMMA PointersExact ==
  ASSUME NEW A, NEW s \in Seq(A)
  PROVE  /\ Pointers(s) \in Seq(A \ {NULL, Globals})
         /\ ToSet(Pointers(s)) = ToSet(s) \ {NULL, Globals}
<1> DEFINE c == Len(s)
           S == Seq(A \ {NULL, Globals})
           Body(k, t) == IF s[k] \in {NULL, Globals} THEN t ELSE Append(t, s[k])
           G == [k \in 1..c |-> [t \in S |-> Body(k, t)]]
           kept[k \in 0..Len(s)] ==
             IF k = 0 THEN << >>
             ELSE IF s[k] \in {NULL, Globals} THEN kept[k - 1] ELSE Append(kept[k - 1], s[k])
<1>1. c \in Nat /\ << >> \in S /\ \A k \in 1..c : s[k] \in A
  OBVIOUS
<1>2. G \in [1..c -> [S -> S]]
  <2>1. ASSUME NEW k \in 1..c, NEW t \in S PROVE Body(k, t) \in S
    <3>1. s[k] \in A
      OBVIOUS
    <3> QED BY <3>1
  <2> HIDE DEF S, Body
  <2> QED BY <2>1
<1>3. PICK f : Counts(c, S, << >>, G, f)
  <2> HIDE DEF G, S, c
  <2>1. Steps(c, S, << >>, G)
    BY <1>1, <1>2 DEF Steps
  <2> QED BY <2>1, CountRecursion
<1>4. /\ f \in [0..c -> S] /\ f[0] = << >>
      /\ \A k \in 1..c : f[k] = Body(k, f[k - 1])
  <2> HIDE DEF S, Body
  <2> QED BY <1>3 DEF Counts
<1>5. f = [k \in 0..Len(s) |->
             IF k = 0 THEN << >>
             ELSE IF s[k] \in {NULL, Globals} THEN f[k - 1] ELSE Append(f[k - 1], s[k])]
  <2>1. \A k \in 0..c : k # 0 => k \in 1..c
    BY <1>1
  <2>2. ASSUME NEW k \in 0..c
        PROVE  f[k] = IF k = 0 THEN << >>
                      ELSE IF s[k] \in {NULL, Globals} THEN f[k - 1] ELSE Append(f[k - 1], s[k])
    BY <2>1, <1>4
  <2>3. f = [k \in 0..c |-> f[k]]
    <3> HIDE DEF S
    <3> QED BY <1>4
  <2> QED BY <2>2, <2>3
<1>6. kept = [k \in 0..Len(s) |->
                IF k = 0 THEN << >>
                ELSE IF s[k] \in {NULL, Globals} THEN kept[k - 1] ELSE Append(kept[k - 1], s[k])]
  BY <1>5, ZenonT(60) DEF kept
<1>7. Pointers(s) = kept[Len(s)]
  BY ZenonT(60) DEF Pointers, kept
<1> HIDE DEF kept
<1>8. kept[0] = << >> /\ \A k \in 1..c : kept[k] = Body(k, kept[k - 1])
  <2>1. \A k \in 0..c : kept[k] = IF k = 0 THEN << >>
                ELSE IF s[k] \in {NULL, Globals} THEN kept[k - 1] ELSE Append(kept[k - 1], s[k])
    BY <1>6
  <2>2. 0 \in 0..c /\ \A k \in 1..c : k \in 0..c /\ k # 0
    BY <1>1
  <2> QED BY <2>1, <2>2
<1> DEFINE Good(k) == kept[k] \in S /\ ToSet(kept[k]) = {s[i] : i \in 1..k} \ {NULL, Globals}
           T == {k \in 0..c : Good(k)}
<1>9. 0 \in T
  <2>1. 0 \in 0..c /\ 1..0 = {}
    BY <1>1
  <2>2. ToSet(<< >>) = {}
    BY DEF ToSet
  <2>3. {s[i] : i \in 1..0} = {}
    BY <2>1
  <2>4. kept[0] \in S /\ ToSet(kept[0]) = {}
    BY <1>1, <1>8, <2>2
  <2>5. Good(0)
    <3> HIDE DEF S
    <3> QED BY <2>3, <2>4
  <2> HIDE DEF Good
  <2> QED BY <2>1, <2>5
<1>10. ASSUME NEW k \in T, k < c PROVE k + 1 \in T
  <2>1. k \in Nat /\ k + 1 \in 1..c /\ k + 1 \in 0..c /\ (k + 1) - 1 = k /\ s[k + 1] \in A
    BY <1>1, <1>10
  <2>2. kept[k] \in S /\ ToSet(kept[k]) = {s[i] : i \in 1..k} \ {NULL, Globals}
    OBVIOUS
  <2>3. {s[i] : i \in 1..(k + 1)} = {s[i] : i \in 1..k} \cup {s[k + 1]}
    <3>1. \A i : i \in 1..(k + 1) <=> i \in 1..k \/ i = k + 1
      BY <2>1
    <3> QED BY <3>1
  <2>4. kept[k + 1] = Body(k + 1, kept[k])
    <3> HIDE DEF Body
    <3> QED BY <1>8, <2>1
  <2>5. CASE s[k + 1] \in {NULL, Globals}
    <3> HIDE DEF S
    <3> QED BY <2>1, <2>2, <2>3, <2>4, <2>5
  <2>6. CASE s[k + 1] \notin {NULL, Globals}
    <3>1. kept[k + 1] = Append(kept[k], s[k + 1]) /\ s[k + 1] \in A \ {NULL, Globals}
      BY <2>1, <2>4, <2>6
    <3>2. kept[k + 1] \in S /\ ToSet(kept[k + 1]) = ToSet(kept[k]) \cup {s[k + 1]}
      <4>1. kept[k] \in Seq(A \ {NULL, Globals})
        BY <2>2
      <4>2. /\ Append(kept[k], s[k + 1]) \in Seq(A \ {NULL, Globals})
            /\ ToSet(Append(kept[k], s[k + 1])) = ToSet(kept[k]) \cup {s[k + 1]}
        <5> HIDE DEF S
        <5> QED BY <3>1, <4>1, Appended
      <4> QED BY <3>1, <4>2
    <3> HIDE DEF S
    <3> QED BY <2>1, <2>2, <2>3, <2>6, <3>2
  <2> QED BY <2>5, <2>6
<1>11. T = 0..c
  <2>1. T \in SUBSET (0..c)
    OBVIOUS
  <2> HIDE DEF T, c
  <2> QED BY <2>1, <1>1, <1>9, <1>10, UpTo
<1>12. Good(c)
  <2>1. c \in 0..c
    BY <1>1
  <2>2. c \in T
    <3> HIDE DEF T
    <3> QED BY <2>1, <1>11
  <2> HIDE DEF Good
  <2> QED BY <2>2
<1>13. ToSet(s) = {s[i] : i \in 1..c}
  BY DEF ToSet
<1> QED BY <1>7, <1>12, <1>13

\* The members of two sequences in a row.
LEMMA Joined ==
  ASSUME NEW A, NEW s \in Seq(A), NEW t \in Seq(A)
  PROVE  s \o t \in Seq(A) /\ ToSet(s \o t) = ToSet(s) \cup ToSet(t)
<1> DEFINE u == s \o t
           m == Len(s)
           n == Len(t)
<1>1. u \in Seq(A) /\ m \in Nat /\ n \in Nat /\ Len(u) = m + n
  OBVIOUS
<1>2. \A i \in 1..m : u[i] = s[i]
  OBVIOUS
<1>3. \A i \in 1..n : u[m + i] = t[i]
  OBVIOUS
<1>4. DOMAIN u = 1..(m + n) /\ DOMAIN s = 1..m /\ DOMAIN t = 1..n
  BY <1>1
<1> HIDE DEF u, m, n
<1>5. \A i \in 1..(m + n) : i \in 1..m \/ (i - m \in 1..n /\ m + (i - m) = i)
  BY <1>1
<1>6. (\A i \in 1..m : i \in 1..(m + n)) /\ \A i \in 1..n : m + i \in 1..(m + n)
  BY <1>1
<1>7. ASSUME NEW y, NEW i \in 1..(m + n), y = u[i]
      PROVE  (\E j \in 1..m : y = s[j]) \/ \E j \in 1..n : y = t[j]
  <2>1. CASE i \in 1..m
    BY <2>1, <1>2, <1>7
  <2>2. CASE i - m \in 1..n /\ m + (i - m) = i
    <3>1. t[i - m] = u[m + (i - m)]
      BY <2>2, <1>3
    <3> QED BY <3>1, <2>2, <1>7
  <2> QED BY <2>1, <2>2, <1>5
<1>8. ToSet(u) = ToSet(s) \cup ToSet(t)
  BY <1>2, <1>3, <1>4, <1>6, <1>7 DEF ToSet
<1> QED BY <1>1, <1>8 DEF u

\* The root cells are passed in some order, each of them once.
LEMMA RootOrder ==
  /\ Cardinality(Root) \in Nat
  /\ SetToSeq(Root) \in [1..Cardinality(Root) -> Root]
  /\ \A i \in Root : \E k \in 1..Cardinality(Root) : SetToSeq(Root)[k] = i
<1> DEFINE n == Cardinality(Root)
           s == SetToSeq(Root)
<1>1. IsFiniteSet(Root) /\ n \in Nat /\ ExistsBijection(1..n, Root)
  BY MarkSweepAssumption, FS_CardinalityType
<1>2. \E f \in [1..n -> Root] : IsInjective(f)
  BY <1>1 DEF ExistsBijection, Bijection, Injection
<1>3. s \in [1..n -> Root] /\ IsInjective(s)
  BY <1>2 DEF SetToSeq
<1>4. IsFiniteSet(1..n) /\ Cardinality(1..n) = n
  BY <1>1, FS_Interval
<1>5. s \in Surjection(1..n, Root)
  <2>1. s \in Injection(1..n, Root)
    BY <1>3 DEF Injection
  <2> HIDE DEF s
  <2> QED BY <2>1, <1>1, <1>4, FS_Injection
<1> QED BY <1>1, <1>3, <1>5 DEF Surjection

\* Everything sm_heap_gc passes to the marker, with r as the root cells.
Found(r) ==
  {r[i].ref : i \in Root} \cup {ScopeAddress(scope)} \cup ToSet(mem[Globals])
    \cup {ScopeAddress(s) : s \in ToSet(frames)}

\* The sources of a collection are what sm_heap_gc passes, without the addresses
\* that lead nowhere.
LEMMA SourcesExact ==
  ASSUME TypeOK, NEW r \in [Root -> [open : BOOLEAN, ref : Address]]
  PROVE  /\ Sources(r) \in Seq(Address \ {NULL})
         /\ ToSet(Sources(r)) = Found(r) \ {NULL, Globals}
<1> DEFINE A == Address \cup {Globals}
           n == Cardinality(Root)
           m == Len(frames)
           rootRefs == [i \in 1..Cardinality(Root) |-> r[SetToSeq(Root)[i]].ref]
           saved    == [i \in 1..Len(frames) |-> ScopeAddress(frames[Len(frames) + 1 - i])]
           now      == <<ScopeAddress(scope)>>
           vals     == mem[Globals]
<1>1. A \ {NULL, Globals} = Address \ {NULL}
  <2>1. Globals \notin Address \ {NULL}
    BY DataInside DEF Address
  <2> QED BY <2>1
<1>2. \A s \in Holder : ScopeAddress(s) \in A
  BY DEF ScopeAddress, Holder, Address
<1>3. n \in Nat /\ rootRefs \in Seq(A) /\ ToSet(rootRefs) = {r[i].ref : i \in Root}
  <2>1. n \in Nat /\ \A k \in 1..n : SetToSeq(Root)[k] \in Root
    BY RootOrder
  <2>2. \A i \in Root : r[i].ref \in A
    OBVIOUS
  <2>3. rootRefs \in [1..n -> A]
    BY <2>1, <2>2
  <2>4. DOMAIN rootRefs = 1..n /\ \A k \in 1..n : rootRefs[k] = r[SetToSeq(Root)[k]].ref
    OBVIOUS
  <2>5. rootRefs \in Seq(A)
    BY <2>1, <2>3
  <2> HIDE DEF rootRefs
  <2>6. ToSet(rootRefs) = {r[i].ref : i \in Root}
    BY <2>1, <2>4, RootOrder DEF ToSet
  <2> QED BY <2>1, <2>5, <2>6
<1>4. m \in Nat /\ saved \in Seq(A) /\ ToSet(saved) = {ScopeAddress(s) : s \in ToSet(frames)}
  <2>1. m \in Nat /\ DOMAIN frames = 1..m /\ \A k \in 1..m : frames[k] \in Holder
    BY DEF TypeOK
  <2>2. \A k \in 1..m : m + 1 - k \in 1..m /\ m + 1 - (m + 1 - k) = k
    BY <2>1
  <2>3. saved \in [1..m -> A]
    BY <2>1, <2>2, <1>2
  <2>4. DOMAIN saved = 1..m /\ \A k \in 1..m : saved[k] = ScopeAddress(frames[m + 1 - k])
    OBVIOUS
  <2> HIDE DEF saved, m
  <2>5. saved \in Seq(A)
    <3> HIDE DEF A
    <3> QED BY <2>1, <2>3
  <2>6. ASSUME NEW s \in ToSet(frames) PROVE ScopeAddress(s) \in ToSet(saved)
    <3>1. PICK k \in 1..m : s = frames[k]
      BY <2>1 DEF ToSet
    <3>2. m + 1 - k \in 1..m /\ saved[m + 1 - k] = ScopeAddress(frames[m + 1 - (m + 1 - k)])
      BY <2>2, <2>4
    <3> QED BY <3>1, <3>2, <2>2, <2>4 DEF ToSet
  <2>7. ASSUME NEW y \in ToSet(saved) PROVE \E s \in ToSet(frames) : y = ScopeAddress(s)
    <3>1. PICK k \in 1..m : y = ScopeAddress(frames[m + 1 - k])
      BY <2>4 DEF ToSet
    <3>2. frames[m + 1 - k] \in ToSet(frames)
      BY <2>1, <2>2 DEF ToSet
    <3> QED BY <3>1, <3>2
  <2>8. ToSet(saved) = {ScopeAddress(s) : s \in ToSet(frames)}
    BY <2>6, <2>7
  <2> QED BY <2>1, <2>5, <2>8
<1>5. now \in Seq(A) /\ ToSet(now) = {ScopeAddress(scope)}
  <2>1. ScopeAddress(scope) \in A
    BY <1>2 DEF TypeOK
  <2>2. now \in Seq(A) /\ DOMAIN now = {1} /\ now[1] = ScopeAddress(scope)
    BY <2>1
  <2> HIDE DEF now
  <2> QED BY <2>2 DEF ToSet
<1>6. vals \in Seq(A)
  <2>1. Fields \in Nat /\ Globals \in Holder
    BY MarkSweepAssumption DEF Holder
  <2>2. vals \in [1..Fields -> Address]
    BY <2>1 DEF TypeOK
  <2> QED BY <2>1, <2>2
<1> HIDE DEF A, rootRefs, saved, now, vals
<1>7. /\ rootRefs \o now \o vals \o saved \in Seq(A)
      /\ ToSet(rootRefs \o now \o vals \o saved) = ToSet(rootRefs) \cup ToSet(now) \cup ToSet(vals) \cup ToSet(saved)
  <2> DEFINE two   == rootRefs \o now
             three == two \o vals
  <2>1. two \in Seq(A) /\ ToSet(two) = ToSet(rootRefs) \cup ToSet(now)
    BY <1>3, <1>5, Joined
  <2> HIDE DEF two
  <2>2. three \in Seq(A) /\ ToSet(three) = ToSet(two) \cup ToSet(vals)
    BY <2>1, <1>6, Joined
  <2> HIDE DEF three
  <2>3. three \o saved \in Seq(A) /\ ToSet(three \o saved) = ToSet(three) \cup ToSet(saved)
    BY <2>2, <1>4, Joined
  <2>4. /\ three \o saved \in Seq(A)
        /\ ToSet(three \o saved) = ToSet(rootRefs) \cup ToSet(now) \cup ToSet(vals) \cup ToSet(saved)
    BY <2>1, <2>2, <2>3
  <2> QED BY <2>4, Zenon DEF two, three
<1>8. Sources(r) = Pointers(rootRefs \o now \o vals \o saved)
  BY DEF Sources, rootRefs, saved, now, vals
<1>9. /\ Pointers(rootRefs \o now \o vals \o saved) \in Seq(A \ {NULL, Globals})
      /\ ToSet(Pointers(rootRefs \o now \o vals \o saved)) = ToSet(rootRefs \o now \o vals \o saved) \ {NULL, Globals}
  BY <1>7, PointersExact
<1>10. Found(r) = ToSet(rootRefs) \cup ToSet(now) \cup ToSet(vals) \cup ToSet(saved)
  BY <1>3, <1>4, <1>5 DEF Found, vals
<1> QED BY <1>1, <1>7, <1>8, <1>9, <1>10

-----------------------------------------------------------------------------
(* The flags.                                                              *)

\* The nodes whose whole subtrees are in M.
Whole(S, sub, M) == {n \in S : sub[n] \subseteq M}

\* When all_marked is exact and an object is marked, the loop of gc_mark makes it
\* exact again (heap.c:361-374).
LEMMA PropagatedExact ==
  ASSUME NEW sub, Shape(tree, sub), NEW o \in Live(tree) \ marked,
         allMarked = Whole(Live(tree), sub, marked)
  PROVE  Propagated(o, marked \cup {o}) = Whole(Live(tree), sub, marked \cup {o})
<1> DEFINE N == Live(tree)
           L == Lefts(tree)
           R == Rights(tree)
           m == marked \cup {o}
           chain == Ancestors(tree, o)
           c == Len(chain)
           S == [all : SUBSET N, go : BOOLEAN]
           b == [all |-> allMarked, go |-> TRUE]
           G == [k \in 1..c |-> [acc \in S |-> AllMarkedStep(acc, chain[k], m)]]
           after[k \in 0..Len(chain)] ==
             IF k = 0 THEN [all |-> allMarked, go |-> TRUE] ELSE AllMarkedStep(after[k - 1], chain[k], m)
           Ahead(k) == {chain[j] : j \in (k + 1)..c}
           Good(k) == IF after[k].go THEN after[k].all = Whole(N, sub, m) \ Ahead(k)
                                     ELSE after[k].all = Whole(N, sub, m)
<1>1. /\ Hung(N, L, R, Parents(tree), tree.root, sub) /\ IsFiniteSet(N) /\ NULL \notin N /\ o \in N
  BY Addresses DEF Shape
<1>2. /\ chain \in Seq(N) /\ c \in Nat /\ (\A k \in 1..c : chain[k] \in N)
      /\ \A i, j \in 1..c : i < j => chain[j] \notin sub[chain[i]]
      /\ \A i, j \in 1..c : i <= j => sub[chain[i]] \subseteq sub[chain[j]]
      /\ \A n \in N : o \in sub[n] <=> \E j \in 1..c : n = chain[j]
  <2>1. PICK up : Climbs(N, Parents(tree), up) /\ chain = up[o]
    BY AncestorsSteps
  <2>2. chain \in Seq(N)
    BY <2>1, <1>1 DEF Climbs
  <2>3. c \in Nat /\ \A k \in 1..c : chain[k] \in N
    BY <2>2
  <2>4. \A i, j \in 1..Len(up[o]) : i < j => up[o][j] \notin sub[up[o][i]]
    <3> HIDE DEF N, L, R, chain
    <3> QED BY <1>1, <2>1, Climb DEF L, R
  <2>5. /\ \A i, j \in 1..Len(up[o]) : i <= j => sub[up[o][i]] \subseteq sub[up[o][j]]
        /\ \A n \in N : o \in sub[n] <=> \E j \in 1..Len(up[o]) : n = up[o][j]
    <3> HIDE DEF N, L, R, chain
    <3> QED BY <1>1, <2>1, ClimbAbove DEF L, R
  <2>6. chain = up[o]
    BY <2>1
  <2> HIDE DEF chain, N
  <2> QED BY <2>2, <2>3, <2>4, <2>5, <2>6
<1>3. Propagated(o, m) = after[c].all
  BY ZenonT(60) DEF Propagated, after
<1>4. ASSUME NEW n \in N
      PROVE  /\ sub[n] = {n} \cup sub[tree.node[n].left] \cup sub[tree.node[n].right]
             /\ sub[n] \subseteq N /\ n \in sub[n] /\ sub[NULL] = {}
             /\ tree.node[n].left \in N \cup {NULL} /\ tree.node[n].right \in N \cup {NULL}
             /\ tree.node[n].left # NULL => tree.node[n].left \in sub[n]
             /\ tree.node[n].right # NULL => tree.node[n].right \in sub[n]
             /\ tree.node[n].left # n /\ tree.node[n].right # n
  <2>1. /\ sub[n] = {n} \cup sub[L[n]] \cup sub[R[n]] /\ L[n] \in N \cup {NULL} /\ R[n] \in N \cup {NULL}
        /\ n \in sub[n] /\ sub[n] \subseteq N /\ sub[NULL] = {}
        /\ (L[n] # NULL => L[n] \in sub[n]) /\ (R[n] # NULL => R[n] \in sub[n])
        /\ L[n] # n /\ R[n] # n
    <3> HIDE DEF N, L, R
    <3> QED BY <1>1, Around
  <2>2. tree.node[n].left = L[n] /\ tree.node[n].right = R[n]
    BY NodeFields
  <2> QED BY <2>1, <2>2
<1> HIDE DEF chain, c, L, R, N, m
<1>5. b \in S /\ Steps(c, S, b, G)
  <2>1. b \in S
    BY DEF Whole, N
  <2>2. ASSUME NEW k \in 1..c, NEW acc \in S PROVE AllMarkedStep(acc, chain[k], m) \in S
    BY <1>2 DEF AllMarkedStep
  <2>3. G \in [1..c -> [S -> S]]
    <3> HIDE DEF S
    <3> QED BY <2>2
  <2> HIDE DEF S, G, b
  <2> QED BY <2>1, <2>3, <1>2 DEF Steps
<1>6. PICK f : Counts(c, S, b, G, f)
  <2> HIDE DEF S, G, b
  <2> QED BY <1>5, CountRecursion
<1>7. /\ f \in [0..c -> S] /\ f[0] = b
      /\ \A k \in 1..c : f[k] = AllMarkedStep(f[k - 1], chain[k], m)
  <2> HIDE DEF S, b
  <2> QED BY <1>6 DEF Counts
<1>8. f = [k \in 0..Len(chain) |->
             IF k = 0 THEN [all |-> allMarked, go |-> TRUE] ELSE AllMarkedStep(f[k - 1], chain[k], m)]
  <2>1. \A k \in 0..c : k # 0 => k \in 1..c
    BY <1>2
  <2>2. ASSUME NEW k \in 0..c
        PROVE  f[k] = IF k = 0 THEN [all |-> allMarked, go |-> TRUE]
                               ELSE AllMarkedStep(f[k - 1], chain[k], m)
    BY <2>1, <1>7
  <2>3. f = [k \in 0..c |-> f[k]]
    <3> HIDE DEF S
    <3> QED BY <1>7
  <2> QED BY <2>2, <2>3 DEF c
<1>9. after = [k \in 0..Len(chain) |->
                 IF k = 0 THEN [all |-> allMarked, go |-> TRUE]
                          ELSE AllMarkedStep(after[k - 1], chain[k], m)]
  BY <1>8, ZenonT(60) DEF after
<1> HIDE DEF after
<1>10. after[0] = b /\ \A k \in 1..c : after[k] = AllMarkedStep(after[k - 1], chain[k], m)
  <2>1. \A k \in 0..c : after[k] = IF k = 0 THEN [all |-> allMarked, go |-> TRUE]
                                   ELSE AllMarkedStep(after[k - 1], chain[k], m)
    BY <1>9 DEF c
  <2>2. 0 \in 0..c /\ \A k \in 1..c : k \in 0..c /\ k # 0
    BY <1>2
  <2> QED BY <2>1, <2>2
<1>11. Good(0)
  <2>1. after[0].go /\ after[0].all = allMarked
    BY <1>10
  <2>2. Ahead(0) = {n \in N : o \in sub[n]}
    <3>1. (0 + 1)..c = 1..c
      OBVIOUS
    <3> QED BY <3>1, <1>2
  <2>3. ASSUME NEW n \in N PROVE sub[n] \subseteq marked <=> sub[n] \subseteq m /\ o \notin sub[n]
    BY DEF m
  <2>4. allMarked = Whole(N, sub, m) \ {n \in N : o \in sub[n]}
    BY <2>3 DEF Whole, N
  <2> HIDE DEF Ahead
  <2> QED BY <2>1, <2>2, <2>4
<1>12. ASSUME NEW k \in 0..c, Good(k), k < c PROVE Good(k + 1)
  <2> DEFINE p == chain[k + 1]
             all == after[k].all
             W == Whole(N, sub, m)
  <2>1. k \in Nat /\ k + 1 \in 1..c /\ (k + 1) - 1 = k /\ p \in N
    BY <1>2, <1>12
  <2>2. after[k + 1] = AllMarkedStep(after[k], p, m)
    BY <2>1, <1>10
  <2>3. CASE ~after[k].go
    <3>1. after[k + 1] = after[k]
      BY <2>2, <2>3 DEF AllMarkedStep
    <3> QED BY <3>1, <2>3, <1>12
  <2>4. CASE after[k].go
    <3>1. all = W \ Ahead(k)
      BY <2>4, <1>12
    <3>2. Ahead(k) = {p} \cup Ahead(k + 1)
      <4>1. \A j : j \in (k + 1)..c <=> j = k + 1 \/ j \in ((k + 1) + 1)..c
        BY <2>1
      <4> QED BY <4>1
    <3>3. ASSUME NEW n \in Ahead(k + 1) PROVE n \in N /\ n \notin sub[p] /\ sub[p] \subseteq sub[n]
      <4>1. PICK j \in ((k + 1) + 1)..c : n = chain[j]
        OBVIOUS
      <4>2. j \in 1..c /\ k + 1 < j /\ k + 1 <= j
        BY <2>1
      <4> QED BY <4>1, <4>2, <2>1, <1>2
    <3>4. Complete(p, m, all) <=> sub[p] \subseteq m
      <4>1. ASSUME NEW x \in {tree.node[p].left, tree.node[p].right}, x # NULL
            PROVE  x \in all <=> sub[x] \subseteq m
        <5>1. x \in N /\ x \in sub[p] /\ x # p
          BY <2>1, <4>1, <1>4
        <5>2. x \notin Ahead(k)
          <6> HIDE DEF Ahead
          <6> QED BY <5>1, <3>2, <3>3
        <5> QED BY <5>1, <5>2, <3>1 DEF Whole
      <4>2. sub[p] \subseteq m <=> p \in m /\ \A x \in {tree.node[p].left, tree.node[p].right} : sub[x] \subseteq m
        BY <2>1, <1>4
      <4>3. sub[NULL] = {}
        BY <2>1, <1>4
      <4> HIDE DEF all, p
      <4> QED BY <4>1, <4>2, <4>3 DEF Complete
    <3>5. CASE sub[p] \subseteq m
      <4>1. after[k + 1].go /\ after[k + 1].all = all \cup {p}
        BY <2>2, <2>4, <3>4, <3>5 DEF AllMarkedStep
      <4>2. p \in W
        BY <2>1, <3>5 DEF Whole
      <4>3. p \notin Ahead(k + 1)
        <5> HIDE DEF Ahead
        <5> QED BY <3>3, <2>1, <1>4
      <4>4. all \cup {p} = W \ Ahead(k + 1)
        <5> HIDE DEF W, all, Ahead, p
        <5> QED BY <3>1, <3>2, <4>2, <4>3
      <4> QED BY <4>1, <4>4
    <3>6. CASE ~(sub[p] \subseteq m)
      <4>1. ~after[k + 1].go /\ after[k + 1].all = all \ {p}
        BY <2>2, <2>4, <3>4, <3>6 DEF AllMarkedStep
      <4>2. \A n \in Ahead(k) : n \notin W
        <5>1. p \notin W
          BY <3>6 DEF Whole
        <5>2. ASSUME NEW n \in Ahead(k + 1) PROVE n \notin W
          BY <3>3, <3>6 DEF Whole
        <5> HIDE DEF Ahead, W, p
        <5> QED BY <5>1, <5>2, <3>2
      <4>3. all \ {p} = W
        <5> HIDE DEF W, all, Ahead, p
        <5> QED BY <3>1, <3>2, <4>2
      <4> QED BY <4>1, <4>3
    <3> QED BY <3>5, <3>6
  <2> QED BY <2>3, <2>4
<1> DEFINE T == {k \in 0..c : Good(k)}
<1>13. T = 0..c
  <2>1. T \in SUBSET (0..c) /\ 0 \in T
    <3> HIDE DEF Good
    <3> QED BY <1>2, <1>11
  <2>2. ASSUME NEW k \in T, k < c PROVE k + 1 \in T
    <3>1. k \in 0..c /\ Good(k) /\ k + 1 \in 0..c
      BY <1>2, <2>2
    <3> HIDE DEF Good
    <3> QED BY <3>1, <2>2, <1>12
  <2> HIDE DEF T
  <2> QED BY <2>1, <2>2, <1>2, UpTo
<1>14. Good(c)
  <2>1. c \in 0..c
    BY <1>2
  <2>2. c \in T
    <3> HIDE DEF T
    <3> QED BY <2>1, <1>13
  <2> HIDE DEF Good
  <2> QED BY <2>2
<1>15. Ahead(c) = {}
  <2>1. (c + 1)..c = {}
    BY <1>2
  <2> QED BY <2>1
<1>16. after[c].all = Whole(N, sub, m)
  <2> HIDE DEF Ahead
  <2> QED BY <1>14, <1>15
<1> QED BY <1>3, <1>16 DEF N, m

-----------------------------------------------------------------------------
(* What the program can name.                                              *)

\* The objects that x holds the addresses of, and those the program starts from.
Edges(x) == Abstract(ToSet(mem[x]))
Handles == Abstract({root[i].ref : i \in {j \in Root : root[j].open}})
             \cup (({scope} \cup ToSet(frames)) \cap Block) \cup Edges(Globals)

\* X is what the objects of from lead to: the least set that contains them and
\* leads nowhere else.
Closes(X) == \A x \in X : Edges(x) \subseteq X
Spans(X, from) ==
  /\ X \in SUBSET Live(tree) /\ from \subseteq X /\ Closes(X)
  /\ \A C \in SUBSET Live(tree) : from \subseteq C /\ Closes(C) => X \subseteq C

\* What can be named is what the program's handles lead to: as many steps as
\* there are blocks are enough.
LEMMA AccessibleSpans == TypeOK /\ Handles \subseteq Live(tree) => Spans(Accessible, Handles)
<1> SUFFICES ASSUME TypeOK, Handles \subseteq Live(tree) PROVE Spans(Accessible, Handles)
  OBVIOUS
<1> DEFINE N == Live(tree)
           c == Cardinality(Block)
           S == SUBSET N
           b == Handles
           Body(X) == X \cup UNION {Edges(x) : x \in X}
           G == [k \in 1..c |-> [X \in S |-> Body(X)]]
           E(x) == Abstract(ToSet(mem[x]))
           from == Abstract({root[i].ref : i \in {j \in Root : root[j].open}})
                     \cup (({scope} \cup ToSet(frames)) \cap Block) \cup E(Globals)
           grow[k \in 0..Cardinality(Block)] ==
             IF k = 0 THEN from ELSE grow[k - 1] \cup UNION {E(x) : x \in grow[k - 1]}
           Needful(X) == \A C \in SUBSET Live(tree) : Handles \subseteq C /\ Closes(C) => X \subseteq C
           Good(k) == /\ grow[k] \in S /\ Handles \subseteq grow[k] /\ Needful(grow[k])
                      /\ Closes(grow[k]) \/ Cardinality(grow[k]) >= k
<1>1. c \in Nat /\ IsFiniteSet(Block) /\ N \in SUBSET Block /\ IsFiniteSet(N) /\ Cardinality(N) <= c
  BY MarkSweepAssumption, FS_CardinalityType, FS_Subset DEF TypeOK
<1>2. \A x : Edges(x) \subseteq N
  BY DEF Edges, Abstract
<1>3. Accessible = grow[c]
  BY ZenonT(60) DEF Accessible, grow
<1>4. from = Handles /\ \A x : E(x) = Edges(x)
  BY DEF Edges, Handles
<1> HIDE DEF c, from, N, E
<1>5. Steps(c, S, b, G)
  <2>1. b \in S /\ \A X \in S : Body(X) \in S
    BY <1>2 DEF N
  <2>2. G \in [1..c -> [S -> S]]
    <3> HIDE DEF S, Body
    <3> QED BY <2>1
  <2> HIDE DEF S, b, G
  <2> QED BY <1>1, <2>1, <2>2 DEF Steps
<1>6. PICK f : Counts(c, S, b, G, f)
  <2> HIDE DEF S, b, G
  <2> QED BY <1>5, CountRecursion
<1>7. f \in [0..c -> S] /\ f[0] = from /\ \A k \in 1..c : f[k] = f[k - 1] \cup UNION {E(x) : x \in f[k - 1]}
  <2>1. f \in [0..c -> S] /\ f[0] = b /\ \A k \in 1..c : f[k] = Body(f[k - 1])
    <3> HIDE DEF S, b, Body
    <3> QED BY <1>6 DEF Counts
  <2>2. \A k \in 1..c : f[k] = f[k - 1] \cup UNION {E(x) : x \in f[k - 1]}
    <3> TAKE k \in 1..c
    <3>1. {E(x) : x \in f[k - 1]} = {Edges(x) : x \in f[k - 1]}
      BY <1>4
    <3> HIDE DEF S, b, G
    <3> QED BY <2>1, <3>1
  <2> HIDE DEF S, G, Body
  <2> QED BY <2>1, <2>2, <1>4
<1>8. f = [k \in 0..Cardinality(Block) |->
             IF k = 0 THEN from ELSE f[k - 1] \cup UNION {E(x) : x \in f[k - 1]}]
  <2>1. \A k \in 0..c : k # 0 => k \in 1..c
    BY <1>1
  <2>2. ASSUME NEW k \in 0..c
        PROVE  f[k] = IF k = 0 THEN from ELSE f[k - 1] \cup UNION {E(x) : x \in f[k - 1]}
    BY <2>1, <1>7
  <2>3. f = [k \in 0..c |-> f[k]]
    <3> HIDE DEF S
    <3> QED BY <1>7
  <2> QED BY <2>2, <2>3 DEF c
<1>9. grow = [k \in 0..Cardinality(Block) |->
                IF k = 0 THEN from ELSE grow[k - 1] \cup UNION {E(x) : x \in grow[k - 1]}]
  BY <1>8, ZenonT(60) DEF grow
<1> HIDE DEF grow
<1>10. grow[0] = Handles /\ \A k \in 1..c : grow[k] = Body(grow[k - 1])
  <2>1. \A k \in 0..c : grow[k] = IF k = 0 THEN from ELSE grow[k - 1] \cup UNION {E(x) : x \in grow[k - 1]}
    BY <1>9 DEF c
  <2>2. 0 \in 0..c /\ \A k \in 1..c : k \in 0..c /\ k # 0
    BY <1>1
  <2>3. ASSUME NEW k \in 1..c PROVE grow[k] = Body(grow[k - 1])
    <3>1. grow[k] = grow[k - 1] \cup UNION {E(x) : x \in grow[k - 1]}
      BY <2>1, <2>2
    <3>2. {E(x) : x \in grow[k - 1]} = {Edges(x) : x \in grow[k - 1]}
      BY <1>4
    <3> QED BY <3>1, <3>2
  <2> HIDE DEF Body
  <2> QED BY <2>1, <2>2, <2>3, <1>4
<1>11. Good(0)
  <2>1. IsFiniteSet(Handles) /\ Cardinality(Handles) \in Nat
    BY <1>1, FS_Subset, FS_CardinalityType DEF N
  <2> QED BY <1>10, <2>1 DEF N
<1>12. ASSUME NEW k \in 0..c, Good(k), k < c PROVE Good(k + 1)
  <2> DEFINE X == grow[k]
             Y == grow[k + 1]
  <2>1. k \in Nat /\ k + 1 \in 1..c /\ (k + 1) - 1 = k
    BY <1>1, <1>12
  <2>2. Y = Body(X)
    <3> HIDE DEF Body
    <3> QED BY <2>1, <1>10
  <2>3. X \in SUBSET N /\ Handles \subseteq X /\ X \subseteq Y /\ Y \in SUBSET N /\ Needful(Y)
    <3>1. X \in SUBSET N /\ Handles \subseteq X /\ Needful(X)
      BY <1>12
    <3>2. Body(X) \in SUBSET N /\ X \subseteq Body(X)
      BY <3>1, <1>2
    <3>3. ASSUME NEW C \in SUBSET Live(tree), Handles \subseteq C, Closes(C) PROVE Body(X) \subseteq C
      <4>1. X \subseteq C
        BY <3>1, <3>3
      <4> QED BY <4>1, <3>3 DEF Closes
    <3> HIDE DEF Body, X, Y, S
    <3> QED BY <3>1, <3>2, <3>3, <2>2
  <2>4. CASE Closes(X)
    <3>1. Y = X
      BY <2>2, <2>4 DEF Closes
    <3> QED BY <3>1, <2>3, <2>4
  <2>5. CASE ~Closes(X)
    <3>1. Cardinality(X) >= k
      BY <2>5, <1>12
    <3>2. PICK x \in X : ~(Edges(x) \subseteq X)
      BY <2>5 DEF Closes
    <3>3. Y # X
      BY <2>2, <3>2
    <3> HIDE DEF X, Y, Body
    <3>4. /\ IsFiniteSet(Y) /\ IsFiniteSet(X) /\ Cardinality(Y) \in Nat /\ Cardinality(X) \in Nat
          /\ Cardinality(X) <= Cardinality(Y) /\ Cardinality(Y) # Cardinality(X)
      <4>1. IsFiniteSet(Y) /\ IsFiniteSet(X)
        BY <2>3, <1>1, FS_Subset
      <4>2. Cardinality(Y) \in Nat /\ Cardinality(X) \in Nat
        BY <4>1, FS_CardinalityType
      <4>3. Cardinality(X) <= Cardinality(Y) /\ Cardinality(Y) # Cardinality(X)
        BY <4>1, <2>3, <3>3, FS_Subset
      <4> QED BY <4>1, <4>2, <4>3
    <3>5. Cardinality(Y) >= k + 1
      BY <3>1, <3>4, <2>1
    <3> QED BY <2>3, <3>5 DEF X, Y
  <2> QED BY <2>4, <2>5
<1> DEFINE T == {k \in 0..c : Good(k)}
<1>13. T = 0..c
  <2>1. T \in SUBSET (0..c) /\ 0 \in T
    <3> HIDE DEF Good
    <3> QED BY <1>1, <1>11
  <2>2. ASSUME NEW k \in T, k < c PROVE k + 1 \in T
    <3>1. k \in 0..c /\ Good(k) /\ k + 1 \in 0..c
      BY <1>1, <2>2
    <3> HIDE DEF Good
    <3> QED BY <3>1, <2>2, <1>12
  <2> HIDE DEF T
  <2> QED BY <2>1, <2>2, <1>1, UpTo
<1>14. Good(c)
  <2>1. c \in 0..c
    BY <1>1
  <2>2. c \in T
    <3> HIDE DEF T
    <3> QED BY <2>1, <1>13
  <2> HIDE DEF Good
  <2> QED BY <2>2
<1>15. Closes(grow[c])
  <2> DEFINE X == grow[c]
  <2>1. X \in SUBSET N /\ (Closes(X) \/ Cardinality(X) >= c)
    BY <1>14
  <2>2. CASE Cardinality(X) >= c
    <3> HIDE DEF X
    <3>1. IsFiniteSet(X) /\ Cardinality(X) <= Cardinality(N) /\ (Cardinality(N) = Cardinality(X) => N = X)
      BY <2>1, <1>1, FS_Subset
    <3>2. Cardinality(X) \in Nat /\ Cardinality(N) \in Nat
      BY <3>1, <1>1, FS_CardinalityType
    <3>3. N = X
      BY <3>1, <3>2, <2>2, <1>1
    <3> QED BY <3>3, <1>2 DEF X, Closes
  <2> QED BY <2>1, <2>2
<1> QED BY <1>3, <1>14, <1>15 DEF N, Spans

\* The objects at live addresses.
LEMMA AbstractExact ==
  ASSUME TypeOK, NEW A, NEW o
  PROVE  o \in Abstract(A) <=> o \in Live(tree) /\ Data(o) \in A
BY DEF TypeOK, Abstract, ObjectsAt

\* What can be named covers: nothing else is needed to follow any address.
LEMMA AccessibleCovers ==
  ASSUME Steady, Covers(Live(tree))
  PROVE  Accessible \in SUBSET Live(tree) /\ Covers(Accessible)
<1> DEFINE N == Live(tree)
<1>1. TypeOK /\ N \in SUBSET Block
  BY DEF Steady, TypeOK
<1>2. Handles \subseteq N
  <2>1. ({scope} \cup ToSet(frames)) \cap Block \subseteq N
    <3>1. Globals \notin Block
      BY DataInside
    <3> QED BY <3>1 DEF Covers
  <2> QED BY <2>1 DEF Handles, Edges, Abstract
<1>3. /\ Accessible \subseteq N /\ Handles \subseteq Accessible
      /\ \A x \in Accessible : Edges(x) \subseteq Accessible
  BY <1>1, <1>2, AccessibleSpans DEF Spans, Closes
<1>4. Edges(Globals) \subseteq Accessible
  BY <1>3 DEF Handles
<1>5. ASSUME NEW i \in Root PROVE root[i].ref \in Named(Accessible)
  <2>1. root[i].ref \in Named(N)
    BY DEF Covers
  <2>2. CASE root[i].ref = NULL
    BY <2>2 DEF Named
  <2>3. CASE root[i].ref # NULL
    <3>1. PICK o \in N : root[i].ref = Data(o)
      BY <2>1, <2>3 DEF Named
    <3>2. root[i].open
      BY <2>3 DEF Steady
    <3>3. o \in Abstract({root[j].ref : j \in {k \in Root : root[k].open}})
      BY <3>1, <3>2, <1>1, AbstractExact
    <3>4. o \in Accessible
      BY <3>3, <1>3 DEF Handles
    <3> QED BY <3>1, <3>4 DEF Named
  <2> QED BY <2>2, <2>3
<1>6. scope \in Accessible \cup {Globals} /\ ToSet(frames) \subseteq Accessible \cup {Globals}
  <2>1. ({scope} \cup ToSet(frames)) \cap Block \subseteq Accessible
    BY <1>3 DEF Handles
  <2>2. {scope} \cup ToSet(frames) \subseteq Block \cup {Globals}
    BY <1>1 DEF Covers
  <2> QED BY <2>1, <2>2
<1>7. ASSUME NEW x \in Accessible \cup {Globals}, NEW a \in ToSet(mem[x]) PROVE a \in Named(Accessible)
  <2>1. a \in Named(N)
    BY <1>3, <1>7 DEF Covers
  <2>2. CASE a = NULL
    BY <2>2 DEF Named
  <2>3. CASE a # NULL
    <3>1. PICK o \in N : a = Data(o)
      BY <2>1, <2>3 DEF Named
    <3>2. o \in Edges(x)
      BY <3>1, <1>1, AbstractExact DEF Edges
    <3>3. o \in Accessible
      BY <3>2, <1>3, <1>4
    <3> QED BY <3>1, <3>3 DEF Named
  <2> QED BY <2>2, <2>3
<1> QED BY <1>3, <1>5, <1>6, <1>7 DEF Covers

-----------------------------------------------------------------------------
(* The steps of the clients.                                               *)

\* The members of a subtree include its root, so no subtree is empty.
LEMMA NoneWhole ==
  ASSUME NEW sub, Shape(tree, sub)
  PROVE  Members(tree) = sub /\ Whole(Live(tree), sub, {}) = {}
<1>1. Members(tree) = sub
  BY MembersExact
<1>2. \A n \in Live(tree) : n \in sub[n]
  BY Around DEF Shape
<1> QED BY <1>1, <1>2 DEF Whole

\* A collection starts with everything it needs pending, and nothing else.
LEMMA StartKeepsInv ==
  ASSUME Steady, Resting, NEW c \in Root \cup {Nil}, StartGc(root', c),
         root' \in [Root -> [open : BOOLEAN, ref : Address]],
         \A i \in Root : root'[i] \in {root[i], Closed},
         unref' \in Nat,
         UNCHANGED <<tree, mem, scopeVars, count, threshold, marked, allMarked, cursor>>
  PROVE  IInv'
<1> DEFINE N == Live(tree)
<1>0. /\ tree' = tree /\ mem' = mem /\ scope' = scope /\ frames' = frames /\ count' = count
      /\ threshold' = threshold /\ marked' = marked /\ allMarked' = allMarked /\ cursor' = cursor
      /\ phase' = "mark" /\ client' = c /\ pending' = Sources(root')
  BY DEF scopeVars, StartGc
<1>1. TypeOK /\ marked = {} /\ allMarked = {} /\ Covers(N)
  BY DEF Steady, Resting
<1>2. /\ Sources(root') \in Seq(Address \ {NULL})
      /\ ToSet(Sources(root')) = Found(root') \ {NULL, Globals}
  BY <1>1, SourcesExact
<1>3. TypeOK'
  BY <1>0, <1>1, <1>2 DEF TypeOK, Live
<1>4. \A i \in Root : ~root'[i].open => root'[i].ref = NULL
  BY <1>1 DEF Steady, Closed, TypeOK
<1>5. Steady'
  BY <1>0, <1>3, <1>4 DEF Steady, Live
<1>6. ASSUME NEW C, Covers(C)' PROVE ToSet(pending') \subseteq Named(C)
  <2>1. ASSUME NEW a \in Found(root') \ {NULL, Globals} PROVE a \in Named(C)
    <3>1. \A s \in C \cup {Globals} : ScopeAddress(s) \in Named(C) \cup {Globals}
      BY DEF ScopeAddress, Named
    <3> QED BY <3>1, <1>0, <1>6 DEF Found, Covers, Named
  <2> QED BY <2>1, <1>0, <1>2
<1>7. Covers(N)'
  <2>1. \A i \in Root : root'[i].ref \in Named(N)
    BY <1>1 DEF Covers, Named, Closed, TypeOK
  <2> QED BY <2>1, <1>0, <1>1 DEF Covers, Live, Named
<1>8. ToSet(pending') \subseteq Named(N)
  BY <1>6, <1>7, <1>0 DEF Live
<1>9. Frontier'
  <2>1. Sources(root)' = pending'
    BY <1>0 DEF Sources
  <2> QED BY <2>1, <1>0, <1>1 DEF Frontier
<1>10. AllMarkedExact'
  <2>1. PICK sub : Shape(tree, sub)
    BY DEF Steady, Sound
  <2>2. Members(tree) = sub /\ Whole(N, sub, {}) = {}
    BY <2>1, NoneWhole
  <2>3. allMarked = {n \in Live(tree) : Members(tree)[n] \subseteq marked}
    BY <2>2, <1>1 DEF Whole
  <2> QED BY <2>3, <1>0 DEF AllMarkedExact, Live
<1>11. Needed'
  BY <1>0, <1>1, <1>6 DEF Needed, Named
<1>12. Marking'
  BY <1>0, <1>7, <1>8, <1>9, <1>10, <1>11 DEF Marking, Live, Named
<1> QED BY <1>0, <1>5, <1>12 DEF IInv

\* A step of the program that leaves the index and the collector alone.
LEMMA QuietKeepsInv ==
  ASSUME Steady, Resting, phase = "idle", UNCHANGED <<tree, count, threshold, gcVars>>, unref' \in Nat,
         mem' \in [Holder -> [1..Fields -> Address]],
         root' \in [Root -> [open : BOOLEAN, ref : Address]],
         scope' \in Holder, frames' \in Seq(Holder),
         \A i \in Root : ~root'[i].open => root'[i].ref = NULL,
         \A x \in Block \ Live(tree) : mem'[x] = mem[x],
         Covers(Live(tree))'
  PROVE  IInv'
<1>0. /\ tree' = tree /\ count' = count /\ threshold' = threshold
      /\ phase' = phase /\ client' = client /\ pending' = pending
      /\ marked' = marked /\ allMarked' = allMarked /\ cursor' = cursor
  BY DEF gcVars
<1>1. TypeOK
  BY DEF Steady
<1>2. TypeOK'
  BY <1>0, <1>1 DEF TypeOK, Live
<1>3. NoFields' = NoFields
  BY DEF NoFields
<1>4. Steady'
  BY <1>0, <1>2, <1>3 DEF Steady, Live
<1>5. Resting'
  BY <1>0 DEF Resting
<1> QED BY <1>0, <1>4, <1>5 DEF IInv

\* Opening a root cell, and writing an object the program can name to it.
LEMMA RootKeepsInv ==
  ASSUME Steady, Resting, NEW i \in Root, OpenRoot(i) \/ \E o \in Block : Store(i, o)
  PROVE  IInv'
<1>1. TypeOK /\ Covers(Live(tree)) /\ Accessible \in SUBSET Live(tree)
  BY AccessibleCovers DEF Steady, Resting
<1>2. PICK a \in Named(Live(tree)) \cap Address :
        root' = [root EXCEPT ![i].open = TRUE] \/ (root[i].open /\ root' = [root EXCEPT ![i].ref = a])
  <2>1. CASE OpenRoot(i)
    <3>1. NULL \in Named(Live(tree)) \cap Address
      BY DEF Named, Address
    <3> QED BY <2>1, <3>1 DEF OpenRoot
  <2>2. ASSUME NEW o \in Block, Store(i, o)
        PROVE  \E a \in Named(Live(tree)) \cap Address :
                 root[i].open /\ root' = [root EXCEPT ![i].ref = a]
    <3>1. o \in Live(tree)
      BY <1>1, <2>2 DEF Store
    <3>2. Data(o) \in Named(Live(tree)) \cap Address
      BY <3>1 DEF Named, Address
    <3> QED BY <2>2, <3>2 DEF Store
  <2> QED BY <2>1, <2>2
<1>3. root' \in [Root -> [open : BOOLEAN, ref : Address]]
  BY ZenonT(60), <1>1, <1>2 DEF TypeOK
<1>4. \A j \in Root : /\ ~root'[j].open => root'[j].ref = NULL
                      /\ root'[j].ref \in Named(Live(tree))
  BY ZenonT(60), <1>1, <1>2 DEF TypeOK, Steady, Covers
<1>5. UNCHANGED <<tree, mem, scopeVars, statusVars, gcVars>> /\ phase = "idle"
  BY DEF OpenRoot, Store
<1>6. tree' = tree /\ mem' = mem /\ scope' = scope /\ frames' = frames
  BY <1>5 DEF scopeVars
<1>7. Covers(Live(tree))'
  BY <1>1, <1>4, <1>6 DEF Covers, Named, Live
<1> QED BY <1>1, <1>3, <1>4, <1>5, <1>6, <1>7, QuietKeepsInv DEF TypeOK, statusVars

\* Writing to an object, or to a global variable, what the program can name.
LEMMA SetFieldKeepsInv ==
  ASSUME Steady, Resting, NEW x \in Holder, NEW f \in 1..Fields, NEW a \in Address, SetField(x, f, a)
  PROVE  IInv'
<1>1. TypeOK /\ Covers(Live(tree)) /\ Accessible \in SUBSET Live(tree)
  BY AccessibleCovers DEF Steady, Resting
<1>2. /\ mem' = [mem EXCEPT ![x][f] = a] /\ x \in Live(tree) \cup {Globals}
      /\ a # NULL => ObjectAt(a) \in Live(tree)
      /\ UNCHANGED <<tree, root, scopeVars, statusVars, gcVars>> /\ phase = "idle"
  BY <1>1 DEF SetField
<1>3. tree' = tree /\ root' = root /\ scope' = scope /\ frames' = frames
  BY <1>2 DEF scopeVars
<1>4. a \in Named(Live(tree))
  <2>1. CASE a = NULL
    BY <2>1 DEF Named
  <2>2. CASE a # NULL
    <3>1. PICK o \in Block : a = Data(o)
      BY <2>2 DEF Address
    <3>2. o \in Live(tree)
      BY <3>1, <2>2, <1>2, DataInside
    <3> QED BY <3>1, <3>2 DEF Named
  <2> QED BY <2>1, <2>2
<1>5. mem' \in [Holder -> [1..Fields -> Address]]
  BY <1>1, <1>2 DEF TypeOK
<1>6. \A y \in Holder \ {x} : mem'[y] = mem[y]
  BY <1>1, <1>2 DEF TypeOK
<1>7. \A g \in 1..Fields : mem'[x][g] \in {a, mem[x][g]}
  BY <1>1, <1>2 DEF TypeOK
<1>8. Live(tree) \cup {Globals} \subseteq Holder /\ Globals \notin Block
  BY <1>1, DataInside DEF Holder, TypeOK
<1>9. \A y \in Holder : DOMAIN mem[y] = 1..Fields /\ DOMAIN mem'[y] = 1..Fields
  BY <1>1, <1>5 DEF TypeOK
<1>10. ASSUME NEW y \in Live(tree) \cup {Globals} PROVE ToSet(mem'[y]) \subseteq Named(Live(tree))
  <2>1. ToSet(mem[y]) \subseteq Named(Live(tree))
    BY <1>1 DEF Covers
  <2>2. CASE y # x
    BY <2>1, <2>2, <1>6, <1>8
  <2>3. CASE y = x
    <3>1. ASSUME NEW g \in 1..Fields PROVE mem'[x][g] \in Named(Live(tree))
      <4>1. mem[x][g] \in ToSet(mem[x])
        BY <1>8, <1>9, <2>3 DEF ToSet
      <4> QED BY <4>1, <2>1, <2>3, <1>4, <1>7
    <3> QED BY <3>1, <2>3, <1>8, <1>9 DEF ToSet
  <2> QED BY <2>2, <2>3
<1>11. Covers(Live(tree))'
  BY <1>1, <1>3, <1>10 DEF Covers, Named, Live
<1>12. \A y \in Block \ Live(tree) : mem'[y] = mem[y]
  BY <1>2, <1>6, <1>8 DEF Holder
<1>13. \A i \in Root : ~root'[i].open => root'[i].ref = NULL
  BY <1>3 DEF Steady
<1> QED BY <1>1, <1>2, <1>3, <1>5, <1>11, <1>12, <1>13, QuietKeepsInv DEF TypeOK, statusVars

\* Entering a scope, and the two ends of a frame.
LEMMA ScopeKeepsInv ==
  ASSUME Steady, Resting, EnterFrame \/ ExitFrame \/ \E s \in Holder : SetScope(s)
  PROVE  IInv'
<1> DEFINE N == Live(tree)
           M == N \cup {Globals}
<1>1. TypeOK /\ Covers(N) /\ Accessible \in SUBSET N
  BY AccessibleCovers DEF Steady, Resting
<1>2. M \subseteq Holder /\ frames \in Seq(M) /\ scope \in M
  <2>1. M \subseteq Holder
    BY <1>1 DEF TypeOK, Holder
  <2>2. Len(frames) \in Nat /\ frames \in [1..Len(frames) -> Holder]
    BY <1>1 DEF TypeOK
  <2>3. \A k \in 1..Len(frames) : frames[k] \in M
    BY <1>1, <2>2 DEF Covers, ToSet
  <2>4. frames \in Seq(M)
    BY <2>2, <2>3
  <2> QED BY <2>1, <2>4, <1>1 DEF Covers
<1>3. /\ UNCHANGED <<tree, mem, root, statusVars, gcVars>> /\ phase = "idle"
      /\ scope' \in M /\ frames' \in Seq(M)
  <2>1. CASE EnterFrame
    <3>1. Append(frames, scope) \in Seq(M)
      <4> HIDE DEF M
      <4> QED BY <1>2
    <3> QED BY <2>1, <3>1, <1>2 DEF EnterFrame
  <2>2. CASE ExitFrame
    <3>1. Len(frames) > 1 /\ scope' = Last(frames) /\ frames' = Front(frames)
      BY <2>2 DEF ExitFrame
    <3>2. Last(frames) \in M /\ Front(frames) \in Seq(M)
      <4> HIDE DEF M
      <4>1. Len(frames) \in 1..Len(frames)
        BY <1>2, <3>1
      <4>2. frames[Len(frames)] \in M
        BY <1>2, <4>1
      <4>3. SubSeq(frames, 1, Len(frames) - 1) \in Seq(M)
        BY <1>2, <3>1
      <4> QED BY <4>2, <4>3 DEF Last, Front
    <3> QED BY <2>2, <3>1, <3>2 DEF ExitFrame
  <2>3. ASSUME NEW s \in Holder, SetScope(s) PROVE scope' \in M /\ frames' \in Seq(M)
    BY <2>3, <1>1, <1>2 DEF SetScope
  <2>4. UNCHANGED <<tree, mem, root, statusVars, gcVars>> /\ phase = "idle"
    BY DEF EnterFrame, ExitFrame, SetScope
  <2> QED BY <2>1, <2>2, <2>3, <2>4
<1>4. tree' = tree /\ mem' = mem /\ root' = root
  BY <1>3
<1>5. ToSet(frames') \subseteq M
  <2>1. Len(frames') \in Nat /\ DOMAIN frames' = 1..Len(frames') /\ \A k \in 1..Len(frames') : frames'[k] \in M
    <3> HIDE DEF M
    <3> QED BY <1>3
  <2> HIDE DEF M
  <2> QED BY <2>1 DEF ToSet
<1>6. Covers(Live(tree))'
  BY <1>1, <1>3, <1>4, <1>5 DEF Covers, Named, Live
<1>7. scope' \in Holder /\ frames' \in Seq(Holder)
  <2>1. Seq(M) \subseteq Seq(Holder)
    <3> HIDE DEF M
    <3> QED BY <1>2
  <2> QED BY <2>1, <1>2, <1>3
<1>8. \A i \in Root : ~root'[i].open => root'[i].ref = NULL
  BY <1>4 DEF Steady
<1> QED BY <1>1, <1>3, <1>4, <1>6, <1>7, <1>8, QuietKeepsInv DEF TypeOK, statusVars

\* What dropping a root cell adds to the count of unreferenced objects.
LEMMA UnrefsCount ==
  ASSUME NEW i \in Root
  PROVE  Unrefs(i) \in Nat
<1> DEFINE o == FromPointer(tree, {}, root[i].ref, TRUE)
           F == {f \in 1..Fields : mem[o][f] # NULL}
<1>1. IsFiniteSet(1..Fields)
  BY MarkSweepAssumption, FS_Interval
<1>2. IsFiniteSet(F)
  BY <1>1, FS_Subset
<1>3. Cardinality(F) \in Nat
  <2> HIDE DEF F
  <2> QED BY <1>2, FS_CardinalityType
<1>4. Unrefs(i) = IF o = NULL THEN 0 ELSE 1 + Cardinality(F)
  BY ZenonT(60) DEF Unrefs
<1> HIDE DEF o, F
<1> QED BY <1>3, <1>4

\* Dropping a root cell, with or without a collection.
LEMMA DropKeepsInv ==
  ASSUME Steady, Resting, NEW i \in Root, DropRoot(i)
  PROVE  IInv'
<1>1. TypeOK /\ Covers(Live(tree))
  BY DEF Steady, Resting
<1>2. /\ root' = [root EXCEPT ![i] = Closed] /\ phase = "idle" /\ unref' = unref + Unrefs(i)
      /\ UNCHANGED <<tree, mem, scopeVars, count, threshold, marked, allMarked, cursor>>
  BY DEF DropRoot
<1>3. root' \in [Root -> [open : BOOLEAN, ref : Address]]
  <2>1. Closed \in [open : BOOLEAN, ref : Address]
    BY DEF Closed, Address
  <2> QED BY <2>1, <1>1, <1>2 DEF TypeOK
<1>4. \A j \in Root : root'[j] \in {root[j], Closed}
  BY <1>1, <1>2 DEF TypeOK
<1>5. unref' \in Nat
  BY <1>1, <1>2, UnrefsCount DEF TypeOK
<1>6. CASE StartGc(root', Nil)
  BY <1>2, <1>3, <1>4, <1>5, <1>6, StartKeepsInv
<1>7. CASE UNCHANGED <<phase, client, pending>>
  <2>1. \A j \in Root : ~root'[j].open => root'[j].ref = NULL
    BY <1>4 DEF Steady, Closed
  <2>2. \A j \in Root : root'[j].ref \in Named(Live(tree))
    BY <1>1, <1>4 DEF Covers, Named, Closed
  <2>3. /\ tree' = tree /\ mem' = mem /\ scope' = scope /\ frames' = frames
    BY <1>2 DEF scopeVars
  <2>4. Covers(Live(tree))'
    BY <1>1, <2>2, <2>3 DEF Covers, Named, Live
  <2> QED BY <1>1, <1>2, <1>3, <1>5, <1>7, <2>1, <2>3, <2>4, QuietKeepsInv DEF TypeOK, gcVars
<1> QED BY <1>6, <1>7 DEF DropRoot

\* A collection that the program, or an allocation, asks for.
LEMMA AskKeepsInv ==
  ASSUME Steady, Resting, Gc \/ \E i \in Root : CollectForAlloc(i)
  PROVE  IInv'
<1>1. PICK c \in Root \cup {Nil} : StartGc(root, c)
  BY DEF Gc, CollectForAlloc
<1>2. UNCHANGED <<tree, mem, root, scopeVars, statusVars, marked, allMarked, cursor>>
  BY DEF Gc, CollectForAlloc
<1>3. root' = root /\ StartGc(root', c)
  <2>1. root' = root
    BY <1>2
  <2> QED BY <1>1, <2>1 DEF StartGc, Sources
<1>4. TypeOK
  BY DEF Steady
<1>5. /\ unref' \in Nat /\ root' \in [Root -> [open : BOOLEAN, ref : Address]]
      /\ \A i \in Root : root'[i] \in {root[i], Closed}
  BY <1>2, <1>3, <1>4 DEF TypeOK, statusVars
<1> QED BY <1>2, <1>3, <1>5, StartKeepsInv DEF statusVars

\* A new object is in the index and in its root cell, and leads nowhere.
LEMMA AllocKeepsInv ==
  ASSUME Steady, Resting, NEW i \in Root, NEW o \in Block, Alloc(i, o)
  PROVE  IInv'
<1> DEFINE N == Live(tree)
<1>1. TypeOK /\ Covers(N) /\ Sound(tree) /\ Apart(N) /\ N \in SUBSET Block /\ marked = {} /\ allMarked = {}
  BY DEF Steady, Resting, TypeOK
<1>2. /\ Free(o) /\ tree' = InsertObject(tree, o) /\ count' = count + 1 /\ root[i].open
      /\ root' = [root EXCEPT ![i].ref = Data(o)] /\ phase' = "idle" /\ client' = Nil
      /\ mem' = mem /\ scope' = scope /\ frames' = frames /\ threshold' = threshold /\ unref' = unref
      /\ pending' = pending /\ marked' = marked /\ allMarked' = allMarked /\ cursor' = cursor
  BY DEF Alloc, scopeVars
<1>3. o \notin N /\ Apart(N \cup {o})
  BY <1>1, <1>2, FreshApart DEF Free
<1>4. Sound(tree') /\ Live(tree') = N \cup {o}
  BY <1>1, <1>2, <1>3, InsertSound
<1>5. tree'.panicked \in BOOLEAN
  BY <1>4 DEF Sound, Shape, Trees
<1>6. count' = Cardinality(Live(tree')) /\ count' \in Nat
  <2>1. IsFiniteSet(N)
    BY <1>1 DEF Sound, Shape
  <2>2. Cardinality(N \cup {o}) = Cardinality(N) + 1 /\ Cardinality(N) \in Nat
    BY <2>1, <1>3, FS_AddElement, FS_CardinalityType
  <2> QED BY <2>2, <1>2, <1>4 DEF Steady
<1>7. /\ root' \in [Root -> [open : BOOLEAN, ref : Address]]
      /\ root'[i].open = root[i].open /\ root'[i].ref = Data(o)
      /\ \A j \in Root \ {i} : root'[j] = root[j]
  <2>1. Data(o) \in Address
    BY DEF Address
  <2> QED BY <2>1, <1>1, <1>2 DEF TypeOK
<1>8. TypeOK'
  <2>1. Live(tree') \subseteq Block
    BY <1>1, <1>4
  <2>2. marked' \subseteq Live(tree') /\ allMarked' \subseteq Live(tree') /\ cursor' \in Live(tree') \cup {NULL}
    BY <1>1, <1>2, <1>4 DEF TypeOK
  <2> QED BY <2>1, <2>2, <1>1, <1>2, <1>5, <1>6, <1>7 DEF TypeOK
<1>9. \A j \in Root : ~root'[j].open => root'[j].ref = NULL
  BY <1>2, <1>7 DEF Steady
<1>10. \A x \in Block \ Live(tree') : mem'[x] = NoFields
  BY <1>2, <1>4 DEF Steady
<1>11. Steady'
  <2>1. Apart(Live(tree')) /\ Sound(tree')
    BY <1>3, <1>4
  <2> QED BY <2>1, <1>6, <1>8, <1>9, <1>10 DEF Steady, NoFields
<1>12. Named(N) \subseteq Named(N \cup {o}) /\ Data(o) \in Named(N \cup {o})
  BY DEF Named
<1>13. ASSUME NEW x \in (N \cup {o}) \cup {Globals} PROVE ToSet(mem[x]) \subseteq Named(N \cup {o})
  <2>1. CASE x = o
    <3>1. mem[x] = NoFields
      BY <2>1, <1>3 DEF Steady
    <3>2. \A a \in ToSet(NoFields) : a = NULL
      BY DEF ToSet, NoFields
    <3> QED BY <3>1, <3>2 DEF Named
  <2>2. CASE x # o
    BY <2>2, <1>1, <1>12 DEF Covers
  <2> QED BY <2>1, <2>2
<1>14. \A j \in Root : root'[j].ref \in Named(N \cup {o})
  BY <1>1, <1>7, <1>12 DEF Covers
<1>15. Resting'
  <2>1. scope' \in (N \cup {o}) \cup {Globals} /\ ToSet(frames') \subseteq (N \cup {o}) \cup {Globals}
    BY <1>1, <1>2 DEF Covers
  <2>2. \A x \in (N \cup {o}) \cup {Globals} : ToSet(mem'[x]) \subseteq Named(N \cup {o})
    BY <1>2, <1>13
  <2>3. Live(tree)' = N \cup {o}
    BY <1>4 DEF Live
  <2>4. Named(Live(tree))' = Named(N \cup {o})
    BY <2>3 DEF Named
  <2>5. Covers(Live(tree))'
    <3> HIDE DEF N
    <3> QED BY <2>1, <2>2, <2>3, <2>4, <1>14 DEF Covers
  <2> QED BY <2>5, <1>1, <1>2 DEF Resting
<1> QED BY <1>2, <1>11, <1>15 DEF IInv

-----------------------------------------------------------------------------
(* The marker.                                                             *)

\* What a collection that has marked M must look at: its sources, and what the
\* objects of M hold.  All of that is in P or leads to M.
Wanted(M) == ToSet(Sources(root)) \cup UNION {ToSet(Pointers(mem[o])) : o \in M}
Followed(M, P) == \A a \in Wanted(M) : a \in P \/ Abstract({a}) \subseteq M

\* What an object leads to, as the marker is passed it.
LEMMA ContentsExact ==
  ASSUME TypeOK, NEW x \in Holder
  PROVE  /\ Pointers(mem[x]) \in Seq(Address \ {NULL})
         /\ ToSet(Pointers(mem[x])) = ToSet(mem[x]) \ {NULL, Globals}
<1>1. mem[x] \in [1..Fields -> Address] /\ Fields \in Nat
  BY MarkSweepAssumption DEF TypeOK
<1>2. mem[x] \in Seq(Address)
  BY <1>1
<1>3. /\ Pointers(mem[x]) \in Seq(Address \ {NULL, Globals})
      /\ ToSet(Pointers(mem[x])) = ToSet(mem[x]) \ {NULL, Globals}
  BY <1>2, PointersExact
<1>4. Address \ {NULL, Globals} = Address \ {NULL}
  BY DataInside DEF Address
<1> QED BY <1>3, <1>4

\* The first pending address is that of a live object, which the pruned lookup
\* finds unless the object has been marked.
LEMMA HeadFound ==
  ASSUME Steady, Marking, phase = "mark", pending # << >>
  PROVE  /\ ToSet(pending) = {Head(pending)} \cup ToSet(Tail(pending))
         /\ Tail(pending) \in Seq(Address \ {NULL})
         /\ \E q \in Live(tree) :
              /\ Head(pending) = Data(q) /\ Abstract({Head(pending)}) = {q}
              /\ \/ FromPointer(tree, allMarked, Head(pending), FALSE) = q
                 \/ FromPointer(tree, allMarked, Head(pending), FALSE) = NULL /\ q \in marked
<1> DEFINE N == Live(tree)
           A == Address \ {NULL}
           a == Head(pending)
           o == FromPointer(tree, allMarked, a, FALSE)
<1>1. TypeOK /\ pending \in Seq(A) /\ N \in SUBSET Block
  BY DEF Steady, TypeOK
<1>2. /\ a \in A /\ Tail(pending) \in Seq(A) /\ pending = <<a>> \o Tail(pending)
  <2> HIDE DEF A
  <2> QED BY <1>1
<1>3. ToSet(pending) = {a} \cup ToSet(Tail(pending))
  <2> DEFINE s == Tail(pending)
  <2> HIDE DEF A, a, s
  <2>1. ToSet(<<a>> \o s) = {a} \cup ToSet(s)
    BY <1>2, Headed DEF s
  <2> QED BY <2>1, <1>2 DEF s
<1>4. PICK q \in N : a = Data(q)
  <2>1. a \in Named(N) /\ a # NULL
    BY <1>2, <1>3 DEF Marking
  <2> QED BY <2>1 DEF Named
<1>5. q \in Block /\ a \in Nat /\ Holds(q, a) /\ \A p \in Block : Data(p) = a => p = q
  BY <1>1, <1>4, DataInside
<1>6. Abstract({a}) = {q}
  BY <1>1, <1>4, <1>5, AbstractExact
<1>7. PICK sub : Shape(tree, sub) /\ AllTight(tree)
  BY DEF Steady, Sound
<1>8. \A n \in N : n \in allMarked => sub[n] \subseteq marked
  BY <1>7, MembersExact DEF Marking, AllMarkedExact
<1>9. Finds(N, a, marked, o)
  <2>1. Apart(N) /\ FALSE \in BOOLEAN
    BY DEF Steady
  <2> HIDE DEF a
  <2> QED BY <1>5, <1>7, <1>8, <2>1, FromPointerPruned
<1>10. o = q \/ (o = NULL /\ q \in marked)
  <2> HIDE DEF o, a
  <2> QED BY <1>4, <1>5, <1>9 DEF Finds
<1> QED BY <1>2, <1>3, <1>4, <1>6, <1>10

\* One address: an object is marked with its flags kept exact, and what it leads
\* to is pending; or the object has been marked before.
LEMMA MarkKeepsInv ==
  ASSUME Steady, Marking, Mark
  PROVE  IInv'
<1> DEFINE N == Live(tree)
           a == Head(pending)
           o == FromPointer(tree, allMarked, a, FALSE)
<1>1. /\ phase = "mark" /\ pending # << >> /\ phase' = "mark"
      /\ tree' = tree /\ mem' = mem /\ root' = root /\ scope' = scope /\ frames' = frames
      /\ count' = count /\ threshold' = threshold /\ unref' = unref /\ client' = client /\ cursor' = cursor
  BY DEF Mark, scopeVars, statusVars
<1>2. IF o = NULL \/ o \in marked
      THEN pending' = Tail(pending) /\ UNCHANGED <<marked, allMarked>>
      ELSE /\ marked' = marked \cup {o}
           /\ allMarked' = Propagated(o, marked')
           /\ pending' = Pointers(mem[o]) \o Tail(pending)
  BY ZenonT(60) DEF Mark
<1>3. TypeOK /\ N \in SUBSET Block /\ NULL \notin N
  BY Addresses DEF Steady, TypeOK
<1>4. /\ ToSet(pending) = {a} \cup ToSet(Tail(pending)) /\ Tail(pending) \in Seq(Address \ {NULL})
  BY <1>1, HeadFound
<1>5. PICK q \in N : /\ a = Data(q) /\ Abstract({a}) = {q}
                     /\ o = q \/ (o = NULL /\ q \in marked)
  BY <1>1, HeadFound
<1> HIDE DEF o, a
<1>6. PICK sub : Shape(tree, sub)
  BY DEF Steady, Sound
<1>7. Members(tree) = sub /\ allMarked = Whole(N, sub, marked)
  BY <1>1, <1>6, MembersExact DEF Marking, AllMarkedExact, Whole
<1>8. /\ Covers(N) /\ ToSet(pending) \subseteq Named(N)
      /\ \A C \in SUBSET N : Covers(C) => marked \subseteq C /\ ToSet(pending) \subseteq Named(C)
      /\ Followed(marked, ToSet(pending))
  BY <1>1 DEF Marking, Needed, Frontier, Followed, Wanted
<1>9. /\ pending' \in Seq(Address \ {NULL}) /\ marked' \subseteq N
      /\ allMarked' = Whole(N, sub, marked')
      /\ ToSet(pending') \subseteq Named(N)
      /\ \A C \in SUBSET N : Covers(C) => marked' \subseteq C /\ ToSet(pending') \subseteq Named(C)
      /\ Followed(marked', ToSet(pending'))
  <2>1. CASE o = NULL \/ o \in marked
    <3>1. pending' = Tail(pending) /\ marked' = marked /\ allMarked' = allMarked /\ q \in marked
      BY <2>1, <1>2, <1>3, <1>5
    <3>2. Followed(marked, ToSet(Tail(pending)))
      BY <3>1, <1>4, <1>5, <1>8 DEF Followed
    <3> QED BY <3>1, <3>2, <1>3, <1>4, <1>7, <1>8 DEF TypeOK
  <2>2. CASE ~(o = NULL \/ o \in marked)
    <3>1. /\ o = q /\ q \in N \ marked /\ marked' = marked \cup {q} /\ allMarked' = Propagated(q, marked \cup {q})
          /\ pending' = Pointers(mem[q]) \o Tail(pending)
      BY <2>2, <1>2, <1>5
    <3>2. allMarked' = Whole(N, sub, marked')
      BY <3>1, <1>6, <1>7, PropagatedExact
    <3>3. /\ Pointers(mem[q]) \in Seq(Address \ {NULL})
          /\ ToSet(Pointers(mem[q])) = ToSet(mem[q]) \ {NULL, Globals}
      <4>1. q \in Holder
        BY <1>3, <1>5 DEF Holder
      <4> QED BY <4>1, <1>3, ContentsExact
    <3>4. /\ pending' \in Seq(Address \ {NULL})
          /\ ToSet(pending') = ToSet(Pointers(mem[q])) \cup ToSet(Tail(pending))
      <4> DEFINE A == Address \ {NULL}
                 s == Pointers(mem[q])
                 t == Tail(pending)
      <4>1. s \in Seq(A) /\ t \in Seq(A)
        BY <3>3, <1>4
      <4> HIDE DEF A, s, t
      <4>2. s \o t \in Seq(A) /\ ToSet(s \o t) = ToSet(s) \cup ToSet(t)
        BY <4>1, Joined
      <4> QED BY <4>2, <3>1 DEF A, s, t
    <3>5. ASSUME NEW C \in SUBSET N, Covers(C)
          PROVE  marked' \subseteq C /\ ToSet(pending') \subseteq Named(C)
      <4>1. marked \subseteq C /\ ToSet(pending) \subseteq Named(C)
        BY <3>5, <1>8
      <4>2. q \in C
        <5>1. Data(q) \in Named(C) /\ C \in SUBSET Block /\ q \in Block
          BY <4>1, <1>3, <1>4, <1>5
        <5> QED BY <5>1, NamedObjects
      <4>3. ToSet(mem[q]) \subseteq Named(C)
        BY <4>2, <3>5 DEF Covers
      <4> QED BY <4>1, <4>2, <4>3, <3>1, <3>3, <3>4, <1>4
    <3>6. Followed(marked', ToSet(pending'))
      <4>1. Wanted(marked') = Wanted(marked) \cup ToSet(Pointers(mem[q]))
        BY <3>1 DEF Wanted
      <4>2. ASSUME NEW b \in Wanted(marked) PROVE b \in ToSet(pending') \/ Abstract({b}) \subseteq marked'
        <5>1. b \in ToSet(pending) \/ Abstract({b}) \subseteq marked
          BY <1>8 DEF Followed
        <5>2. CASE b = a
          BY <5>2, <1>5, <3>1
        <5>3. CASE b # a
          BY <5>1, <5>3, <1>4, <3>1, <3>4
        <5> QED BY <5>2, <5>3
      <4> QED BY <4>1, <4>2, <3>4 DEF Followed
    <3>7. ToSet(pending') \subseteq Named(N)
      BY <3>5, <1>8
    <3> QED BY <3>1, <3>2, <3>4, <3>5, <3>6, <3>7, <1>3 DEF TypeOK
  <2> QED BY <2>1, <2>2
<1>10. TypeOK'
  BY <1>1, <1>3, <1>9 DEF TypeOK, Live, Whole
<1>11. Steady'
  BY <1>1, <1>10 DEF Steady, Live
<1>12. Frontier'
  <2>1. Sources(root)' = Sources(root)
    BY <1>1 DEF Sources
  <2>2. \A X : Abstract(X)' = Abstract(X)
    BY <1>1 DEF Abstract, Live
  <2> QED BY <2>1, <2>2, <1>1, <1>9 DEF Frontier, Followed, Wanted
<1>13. AllMarkedExact'
  BY <1>1, <1>7, <1>9 DEF AllMarkedExact, Whole, Live
<1>14. Covers(N)' /\ ToSet(pending') \subseteq Named(N) /\ Needed'
  BY <1>1, <1>8, <1>9 DEF Covers, Needed, Named, Live
<1>15. Marking'
  BY <1>1, <1>12, <1>13, <1>14 DEF Marking, Live, Named
<1> QED BY <1>1, <1>11, <1>15 DEF IInv

-----------------------------------------------------------------------------
(* The sweep.                                                              *)

\* When nothing is pending, what has been marked covers.
LEMMA MarkedCovers ==
  ASSUME Steady, Marking, phase = "mark", pending = << >>
  PROVE  Covers(marked)
<1>1. TypeOK /\ Covers(Live(tree)) /\ Live(tree) \in SUBSET Block /\ marked \in SUBSET Live(tree)
  BY DEF Steady, Marking, TypeOK
<1>2. \A a \in Wanted(marked) : Abstract({a}) \subseteq marked
  <2>1. ToSet(pending) = {}
    BY DEF ToSet
  <2> QED BY <2>1 DEF Marking, Frontier, Wanted
<1>3. ToSet(Sources(root)) = Found(root) \ {NULL, Globals}
  BY <1>1, SourcesExact DEF TypeOK
<1>4. ASSUME NEW x \in Holder PROVE ToSet(Pointers(mem[x])) = ToSet(mem[x]) \ {NULL, Globals}
  BY <1>1, ContentsExact
<1>5. ASSUME NEW a \in Named(Live(tree)), a \in Found(root) \cup UNION {ToSet(mem[x]) : x \in marked}
      PROVE  a \in Named(marked)
  <2>1. CASE a = NULL
    BY <2>1 DEF Named
  <2>2. CASE a # NULL
    <3>1. PICK o \in Live(tree) : a = Data(o)
      BY <2>2 DEF Named
    <3>2. a # Globals
      BY <3>1, <1>1, DataInside
    <3>3. a \in Wanted(marked)
      <4>1. CASE a \in Found(root)
        BY <4>1, <2>2, <3>2, <1>3 DEF Wanted
      <4>2. ASSUME NEW x \in marked, a \in ToSet(mem[x]) PROVE a \in Wanted(marked)
        <5>1. x \in Holder
          BY <1>1 DEF Holder
        <5> QED BY <5>1, <4>2, <2>2, <3>2, <1>4 DEF Wanted
      <4> QED BY <4>1, <4>2, <1>5
    <3>4. o \in marked
      BY <3>1, <3>3, <1>1, <1>2, AbstractExact
    <3> QED BY <3>1, <3>4 DEF Named
  <2> QED BY <2>1, <2>2
<1>6. ASSUME NEW s \in Live(tree) \cup {Globals}, ScopeAddress(s) \in Found(root)
      PROVE  s \in marked \cup {Globals}
  <2>1. CASE s = Globals
    BY <2>1
  <2>2. CASE s # Globals
    <3>1. Data(s) \in Found(root) /\ Data(s) \in Named(Live(tree))
      BY <2>2, <1>6 DEF ScopeAddress, Named
    <3>2. Data(s) \in Named(marked) /\ s \in Block /\ marked \in SUBSET Block
      BY <3>1, <2>2, <1>1, <1>5
    <3> QED BY <3>2, NamedObjects
  <2> QED BY <2>1, <2>2
<1>7. \A i \in Root : root[i].ref \in Named(marked)
  BY <1>1, <1>5 DEF Covers, Found
<1>8. scope \in marked \cup {Globals} /\ ToSet(frames) \subseteq marked \cup {Globals}
  BY <1>1, <1>6 DEF Covers, Found
<1>9. \A x \in marked \cup {Globals} : ToSet(mem[x]) \subseteq Named(marked)
  BY <1>1, <1>5 DEF Covers, Found
<1> QED BY <1>7, <1>8, <1>9 DEF Covers

\* The sweep starts before the first object, to keep what has been marked.
LEMMA BeginSweepKeepsInv ==
  ASSUME Steady, Marking, BeginSweep
  PROVE  IInv' /\ Covers(marked) /\ Survivors' = marked
<1> DEFINE N == Live(tree)
           o == First(tree, tree.root)
<1>1. /\ phase = "mark" /\ pending = << >> /\ phase' = "sweep" /\ cursor' = o
      /\ tree' = tree /\ mem' = mem /\ root' = root /\ scope' = scope /\ frames' = frames
      /\ count' = count /\ threshold' = threshold /\ unref' = unref /\ client' = client
      /\ pending' = pending /\ marked' = marked /\ allMarked' = allMarked
  BY DEF BeginSweep, scopeVars, statusVars
<1>2. TypeOK /\ N \in SUBSET Block /\ NULL \notin N /\ marked \in SUBSET N
  BY Addresses DEF Steady, TypeOK
<1>3. PICK sub : Shape(tree, sub)
  BY DEF Steady, Sound
<1>4. /\ o \in N \cup {NULL} /\ (o = NULL => N = {})
      /\ \A n \in N : o # NULL /\ o <= n
  <2>1. tree.root \in N \cup {NULL} /\ sub[tree.root] = N /\ sub[NULL] = {}
    BY <1>3 DEF Shape, Hung
  <2>2. CASE tree.root = NULL
    BY <2>1, <2>2 DEF First
  <2>3. CASE tree.root # NULL
    <3>1. o \in N /\ \A m \in N : m = o \/ o < m
      BY <2>1, <2>3, <1>3, FirstExact
    <3>2. \A m \in N : m \in Nat
      BY <1>2, Addresses
    <3> HIDE DEF o
    <3> QED BY <3>1, <3>2, <1>2
  <2> QED BY <2>2, <2>3
<1> HIDE DEF o
<1>5. \A n \in N : n \in Nat
  BY <1>2, Addresses
<1>6. {n \in N : o = NULL \/ n < o} = {}
  BY <1>4, <1>5
<1>7. Covers(marked)
  BY <1>1, MarkedCovers
<1>8. allMarked \subseteq marked
  BY <1>1, <1>3, NoneWhole, Around DEF Marking, AllMarkedExact, Shape
<1>9. Survivors' = marked
  BY <1>1, <1>6 DEF Survivors, Live
<1>10. \A C \in SUBSET marked : Covers(C) => C = marked
  BY <1>2 DEF Marking, Needed
<1>11. TypeOK'
  BY <1>1, <1>2, <1>4 DEF TypeOK, Live
<1>12. Steady'
  BY <1>1, <1>11 DEF Steady, Live, NoFields
<1>13. \A C : Covers(C)' <=> Covers(C)
  BY <1>1 DEF Covers, Named
<1>14. Covers(Survivors)'
  BY <1>1, <1>7, <1>9 DEF Covers, Named
<1>15. Sweeping'
  BY <1>1, <1>2, <1>4, <1>8, <1>9, <1>10, <1>13, <1>14 DEF Sweeping
<1> QED BY <1>1, <1>7, <1>9, <1>12, <1>15 DEF IInv

\* Sweeping an object changes what the sweep has passed, not what survives it.
LEMMA SweepKeepsInv ==
  ASSUME Steady, Sweeping, Sweep
  PROVE  /\ IInv' /\ Survivors' = Survivors /\ Survivors \in SUBSET Live(tree)
         /\ cursor \notin marked => cursor \notin Survivors /\ Live(tree') = Live(tree) \ {cursor}
<1> DEFINE N == Live(tree)
           o == cursor
           x == Succ(tree, cursor)
<1>1. /\ phase = "sweep" /\ cursor # NULL /\ phase' = "sweep" /\ cursor' = x
      /\ root' = root /\ scope' = scope /\ frames' = frames
      /\ threshold' = threshold /\ unref' = unref /\ client' = client /\ pending' = pending
  BY DEF Sweep, scopeVars
<1>2. /\ TypeOK /\ N \in SUBSET Block /\ NULL \notin N /\ marked \in SUBSET N /\ o \in N
      /\ allMarked \subseteq marked /\ \A n \in marked : o <= n
  BY <1>1, Addresses DEF Steady, TypeOK, Sweeping
<1>3. \A n \in N : n \in Nat
  BY <1>2, Addresses
<1>4. PICK sub : Shape(tree, sub)
  BY DEF Steady, Sound
<1>5. /\ x \in N \cup {NULL} /\ (x # NULL => o < x)
      /\ \A n \in N : o < n => x # NULL /\ x <= n
  BY <1>2, <1>4, SuccNext
<1> HIDE DEF x
<1>6. {n \in N : x = NULL \/ n < x} = {n \in N : n < o} \cup {o}
  <2>1. ASSUME NEW n \in N PROVE (x = NULL \/ n < x) <=> (n < o \/ n = o)
    <3>1. n \in Nat /\ o \in Nat /\ (x # NULL => x \in Nat)
      BY <1>2, <1>3, <1>5
    <3> QED BY <3>1, <1>5
  <2> QED BY <2>1, <1>2
<1>7. Survivors = marked \cup {n \in N : n < o}
  BY <1>1 DEF Survivors
<1>8. \A n \in marked : n # o => x # NULL /\ x <= n
  BY <1>2, <1>3, <1>5
<1>9. ~(o < o)
  BY <1>2, <1>3
<1>10. CASE o \in marked
  <2>1. marked' = marked \ {o} /\ allMarked' = allMarked \ {o} /\ tree' = tree /\ mem' = mem /\ count' = count
    BY <1>10 DEF Sweep
  <2>2. Survivors' = Survivors
    <3>1. Survivors' = marked' \cup {n \in N : x = NULL \/ n < x}
      BY <1>1, <2>1 DEF Survivors, Live
    <3> QED BY <3>1, <2>1, <1>6, <1>7, <1>10
  <2>3. TypeOK'
    BY <2>1, <1>1, <1>2, <1>5 DEF TypeOK, Live
  <2>4. Steady'
    BY <2>1, <2>3, <1>1 DEF Steady, Live, NoFields
  <2>5. \A C : Covers(C)' <=> Covers(C)
    BY <2>1, <1>1 DEF Covers, Named
  <2>6. Covers(Survivors)'
    BY <2>1, <2>2, <1>1 DEF Covers, Named, Sweeping
  <2>7. Sweeping'
    BY <2>1, <2>2, <2>5, <2>6, <1>1, <1>2, <1>8 DEF Sweeping
  <2> QED BY <2>2, <2>4, <2>7, <1>1, <1>2, <1>7, <1>10 DEF IInv
<1>11. CASE o \notin marked
  <2>1. /\ tree' = EraseObject(tree, o) /\ mem' = [mem EXCEPT ![o] = NoFields]
        /\ count' = count - 1 /\ marked' = marked /\ allMarked' = allMarked
    BY <1>11 DEF Sweep
  <2>2. Sound(tree') /\ Live(tree') = N \ {o}
    BY <2>1, <1>2, EraseSound DEF Steady
  <2>3. tree'.panicked \in BOOLEAN
    BY <2>2 DEF Sound, Shape, Trees
  <2>4. Survivors' = Survivors /\ Survivors \subseteq N \ {o}
    <3>1. Survivors' = marked' \cup {n \in N \ {o} : x = NULL \/ n < x}
      <4>1. Live(tree)' = N \ {o}
        BY <2>2
      <4> QED BY <4>1, <1>1 DEF Survivors
    <3>2. {n \in N \ {o} : x = NULL \/ n < x} = {n \in N : n < o}
      BY <1>6, <1>9
    <3> QED BY <3>1, <3>2, <2>1, <1>2, <1>7, <1>9, <1>11
  <2>5. count' = Cardinality(Live(tree')) /\ count' \in Nat
    <3>1. IsFiniteSet(N)
      BY <1>4 DEF Shape
    <3>2. /\ IsFiniteSet(N \ {o}) /\ Cardinality(N \ {o}) = Cardinality(N) - 1
          /\ Cardinality(N \ {o}) \in Nat
      BY <3>1, <1>2, FS_RemoveElement, FS_CardinalityType
    <3> QED BY <3>2, <2>1, <2>2 DEF Steady
  <2>6. mem' \in [Holder -> [1..Fields -> Address]] /\ \A y \in Holder \ {o} : mem'[y] = mem[y]
    <3>1. NoFields \in [1..Fields -> Address]
      BY DEF NoFields, Address
    <3> QED BY <3>1, <2>1, <1>2 DEF TypeOK
  <2>7. mem'[o] = NoFields
    BY <2>1, <1>2 DEF TypeOK, Holder
  <2>8. TypeOK'
    <3>1. Live(tree') \subseteq Block /\ marked' \subseteq Live(tree') /\ allMarked' \subseteq Live(tree')
      BY <2>1, <2>2, <1>2, <1>11
    <3>2. cursor' \in Live(tree') \cup {NULL}
      BY <2>2, <1>1, <1>5, <1>9
    <3> QED BY <3>1, <3>2, <2>3, <2>5, <2>6, <1>1, <1>2 DEF TypeOK
  <2>9. Apart(Live(tree')) /\ \A y \in Block \ Live(tree') : mem'[y] = NoFields
    <3>1. Apart(N) /\ \A y \in Block \ N : mem[y] = NoFields
      BY DEF Steady
    <3>2. Apart(N \ {o})
      BY <3>1 DEF Apart
    <3>3. ASSUME NEW y \in Block \ (N \ {o}) PROVE mem'[y] = NoFields
      <4>1. CASE y = o
        BY <4>1, <2>7
      <4>2. CASE y # o
        BY <4>2, <2>6, <3>1 DEF Holder
      <4> QED BY <4>1, <4>2
    <3> QED BY <3>2, <3>3, <2>2
  <2>10. Steady'
    <3>1. \A i \in Root : ~root'[i].open => root'[i].ref = NULL
      BY <1>1 DEF Steady
    <3>2. NoFields' = NoFields
      BY DEF NoFields
    <3> QED BY <3>1, <3>2, <2>2, <2>5, <2>8, <2>9 DEF Steady
  <2>11. ASSUME NEW C \in SUBSET Survivors PROVE Covers(C)' <=> Covers(C)
    <3>1. \A y \in C \cup {Globals} : mem'[y] = mem[y]
      <4>1. C \cup {Globals} \subseteq Holder \ {o}
        BY <2>4, <1>2, DataInside DEF Holder
      <4> QED BY <4>1, <2>6
    <3> QED BY <3>1, <1>1 DEF Covers, Named
  <2>12. Covers(Survivors)'
    <3> DEFINE Z == Survivors
    <3>1. Covers(Z)' /\ Z' = Z
      <4>1. \A y \in Z \cup {Globals} : mem'[y] = mem[y]
        <5>1. Z \cup {Globals} \subseteq Holder \ {o}
          BY <2>4, <1>2, DataInside DEF Holder
        <5> QED BY <5>1, <2>6
      <4>2. Covers(Z) /\ Z' = Z
        BY <2>4 DEF Sweeping
      <4> HIDE DEF Z
      <4> QED BY <4>1, <4>2, <1>1 DEF Covers, Named
    <3> QED BY <3>1
  <2>13. \A n \in marked' : cursor' # NULL /\ cursor' <= n
    BY <2>1, <1>1, <1>8, <1>11
  <2>14. \A C \in SUBSET Survivors : Covers(C)' => C = Survivors
    BY <2>11 DEF Sweeping
  <2>15. Sweeping'
    <3>1. allMarked' \subseteq marked'
      BY <2>1, <1>2
    <3>2. \A C \in SUBSET Survivors' : Covers(C)' => C = Survivors'
      BY <2>4, <2>14
    <3> QED BY <3>1, <3>2, <2>12, <2>13 DEF Sweeping
  <2> QED BY <2>2, <2>4, <2>10, <2>15, <1>1 DEF IInv
<1> QED BY <1>10, <1>11

\* A threshold is a number, whatever has become of it.
LEMMA ThresholdFits ==
  ASSUME NEW n \in Nat, NEW t \in Nat
  PROVE  NewThreshold(n, t) \in Nat
<1>1. t * Factor \in Nat /\ t \div Factor \in Nat
  BY MarkSweepAssumption, Z3
<1> QED BY <1>1 DEF NewThreshold

\* At the end of the sweep what is left is what was to survive.
LEMMA FinishKeepsInv ==
  ASSUME Steady, Sweeping, Finish
  PROVE  /\ IInv' /\ Resting'
         /\ Covers(Live(tree)) /\ \A C \in SUBSET Live(tree) : Covers(C) => C = Live(tree)
<1>1. /\ phase = "sweep" /\ cursor = NULL /\ phase' \in {"idle", "alloc"}
      /\ tree' = tree /\ mem' = mem /\ root' = root /\ scope' = scope /\ frames' = frames
      /\ threshold' = NewThreshold(count, threshold) /\ unref' = 0 /\ count' = count /\ client' = client
      /\ pending' = pending /\ marked' = marked /\ allMarked' = allMarked /\ cursor' = cursor
  BY DEF Finish, scopeVars
<1>2. TypeOK
  BY DEF Steady
<1>3. marked = {} /\ allMarked = {}
  BY <1>1 DEF Sweeping
<1>4. Survivors = Live(tree)
  BY <1>1, <1>3 DEF Survivors
<1>5. Covers(Live(tree)) /\ \A C \in SUBSET Live(tree) : Covers(C) => C = Live(tree)
  BY <1>4 DEF Sweeping
<1>6. threshold' \in Nat
  BY <1>1, <1>2, ThresholdFits DEF TypeOK
<1>7. TypeOK'
  BY <1>1, <1>2, <1>6 DEF TypeOK, Live
<1>8. Steady'
  BY <1>1, <1>7 DEF Steady, Live, NoFields
<1>9. Resting'
  BY <1>1, <1>3, <1>5 DEF Resting, Covers, Named, Live
<1> QED BY <1>1, <1>5, <1>8, <1>9 DEF IInv

-----------------------------------------------------------------------------
(* The invariant.                                                          *)

\* An empty heap is steady, and nothing leads anywhere.
LEMMA InitInv == Init => IInv
<1> SUFFICES ASSUME Init PROVE IInv
  OBVIOUS
<1>1. /\ tree = EmptyTree /\ mem = [x \in Holder |-> NoFields] /\ root = [i \in Root |-> Closed]
      /\ scope = Globals /\ frames = <<Globals>> /\ count = 0 /\ threshold = ObjectThreshold /\ unref = 0
      /\ phase = "idle" /\ client = Nil /\ pending = << >> /\ marked = {} /\ allMarked = {} /\ cursor = NULL
  BY DEF Init
<1>2. Sound(tree) /\ Live(tree) = {} /\ tree.panicked = FALSE
  BY <1>1, EmptySound DEF EmptyTree
<1>3. Globals \in Holder /\ Block \subseteq Holder
  BY DEF Holder
<1>4. Closed \in [open : BOOLEAN, ref : Address] /\ NoFields \in [1..Fields -> Address]
  BY DEF Closed, NoFields, Address
<1>5. frames \in Seq(Holder) /\ ToSet(frames) = {Globals}
  <2>1. frames \in Seq(Holder) /\ DOMAIN frames = {1} /\ frames[1] = Globals
    BY <1>1, <1>3
  <2> QED BY <2>1 DEF ToSet
<1>6. ObjectThreshold \in Nat
  BY MarkSweepAssumption
<1>7. TypeOK
  <2>1. << >> \in Seq(Address \ {NULL})
    OBVIOUS
  <2> QED BY <2>1, <1>1, <1>2, <1>3, <1>4, <1>5, <1>6 DEF TypeOK
<1>8. Steady
  <2>1. Apart(Live(tree)) /\ count = Cardinality(Live(tree))
    BY <1>1, <1>2, FS_EmptySet DEF Apart
  <2>2. \A i \in Root : ~root[i].open => root[i].ref = NULL
    BY <1>1 DEF Closed
  <2>3. \A x \in Block \ Live(tree) : mem[x] = NoFields
    BY <1>1, <1>3
  <2> QED BY <1>2, <1>7, <2>1, <2>2, <2>3 DEF Steady
<1>9. Covers(Live(tree))
  <2>1. ToSet(NoFields) \subseteq {NULL}
    BY DEF ToSet, NoFields
  <2>2. \A i \in Root : root[i].ref = NULL
    BY <1>1 DEF Closed
  <2>3. \A x \in Live(tree) \cup {Globals} : mem[x] = NoFields
    BY <1>1, <1>2, <1>3
  <2> QED BY <1>1, <1>5, <2>1, <2>2, <2>3 DEF Covers, Named
<1> QED BY <1>1, <1>8, <1>9 DEF IInv, Resting

\* A step keeps the invariant.
LEMMA StepKeepsInv ==
  ASSUME IInv, [Next]_vars
  PROVE  IInv'
<1>1. Steady
  BY DEF IInv
<1>2. CASE Mark
  BY <1>1, <1>2, MarkKeepsInv DEF IInv, Mark
<1>3. CASE BeginSweep
  BY <1>1, <1>3, BeginSweepKeepsInv DEF IInv, BeginSweep
<1>4. CASE Sweep
  BY <1>1, <1>4, SweepKeepsInv DEF IInv, Sweep
<1>5. CASE Finish
  BY <1>1, <1>5, FinishKeepsInv DEF IInv, Finish
<1>6. CASE Gc \/ \E i \in Root : CollectForAlloc(i)
  BY <1>1, <1>6, AskKeepsInv DEF IInv, Gc, CollectForAlloc
<1>7. CASE EnterFrame \/ ExitFrame \/ \E s \in Holder : SetScope(s)
  BY <1>1, <1>7, ScopeKeepsInv DEF IInv, EnterFrame, ExitFrame, SetScope
<1>8. ASSUME NEW i \in Root, OpenRoot(i) \/ \E o \in Block : Store(i, o) PROVE IInv'
  BY <1>1, <1>8, RootKeepsInv DEF IInv, OpenRoot, Store
<1>9. ASSUME NEW i \in Root, DropRoot(i) PROVE IInv'
  BY <1>1, <1>9, DropKeepsInv DEF IInv, DropRoot
<1>10. ASSUME NEW i \in Root, NEW o \in Block, Alloc(i, o) PROVE IInv'
  BY <1>1, <1>10, AllocKeepsInv DEF IInv, Alloc
<1>11. ASSUME NEW x \in Holder, NEW f \in 1..Fields, NEW a \in Address, SetField(x, f, a) PROVE IInv'
  BY <1>1, <1>11, SetFieldKeepsInv DEF IInv, SetField
<1>12. CASE UNCHANGED vars
  <2>1. /\ tree' = tree /\ mem' = mem /\ root' = root /\ scope' = scope /\ frames' = frames
        /\ count' = count /\ threshold' = threshold /\ unref' = unref
        /\ phase' = phase /\ client' = client /\ pending' = pending
        /\ marked' = marked /\ allMarked' = allMarked /\ cursor' = cursor
    BY <1>12 DEF vars, scopeVars, statusVars, gcVars
  <2>2. Steady'
    BY <1>1, <2>1 DEF Steady, TypeOK, Live, NoFields
  <2>3. ASSUME phase = "mark" PROVE Marking'
    <3>1. Marking
      BY <2>3 DEF IInv
    <3>2. Frontier'
      <4>1. Sources(root)' = Sources(root) /\ \A X : Abstract(X)' = Abstract(X)
        BY <2>1 DEF Sources, Abstract, Live
      <4> QED BY <3>1, <4>1, <2>1 DEF Marking, Frontier
    <3>3. AllMarkedExact'
      BY <3>1, <2>1 DEF Marking, AllMarkedExact, Live
    <3>4. Needed' /\ Covers(Live(tree))' /\ (ToSet(pending) \subseteq Named(Live(tree)))'
      BY <3>1, <2>1 DEF Marking, Needed, Covers, Named, Live
    <3> QED BY <3>2, <3>3, <3>4 DEF Marking
  <2>4. ASSUME phase = "sweep" PROVE Sweeping'
    BY <2>1, <2>4 DEF IInv, Sweeping, Survivors, Covers, Named, Live
  <2>5. ASSUME phase \in {"idle", "alloc"} PROVE Resting'
    BY <2>1, <2>5 DEF IInv, Resting, Covers, Named, Live
  <2> QED BY <2>1, <2>2, <2>3, <2>4, <2>5 DEF IInv
<1> QED BY <1>2, <1>3, <1>4, <1>5, <1>6, <1>7, <1>8, <1>9, <1>10, <1>11, <1>12 DEF Next, Collect, Mutate

\* The invariant holds in every state the collector and its clients reach.
THEOREM Invariance == Spec => []IInv
<1>1. IInv /\ [Next]_vars => IInv'
  BY StepKeepsInv
<1> QED BY <1>1, InitInv, PTL DEF Spec

-----------------------------------------------------------------------------
(* What the runs check of the collector, for every heap.                   *)

\* Every variable keeps its type: what is marked and where the sweep stands are
\* always live objects, and what is to be marked is never NULL.
THEOREM TypesCorrect == Spec => []TypeOK
<1>1. IInv => TypeOK
  BY DEF IInv, Steady
<1> QED BY <1>1, Invariance, PTL

\* Pruning is exact: while marking, all_marked is set on a node exactly when its
\* whole subtree is marked, for every tree and every order of the marks
\* (heap.c:361-374).
THEOREM PruningExact == Spec => []AllMarkedExact
<1>1. IInv => AllMarkedExact
  BY DEF IInv, Marking, AllMarkedExact
<1> QED BY <1>1, Invariance, PTL

\* Nothing is forgotten on the way: what a marked object leads to is marked or
\* pending, and so is every source, though lookups are pruned (gc_mark).
THEOREM NothingForgotten == Spec => []Frontier
<1>1. IInv => Frontier
  BY DEF IInv, Marking, Frontier
<1> QED BY <1>1, Invariance, PTL

\* A collection leaves no flag behind for the next one to trust, whatever
\* rotations the erasures made (heap.c:606-612).
THEOREM NoFlagLeft == Spec => []FlagsCleared
<1>1. IInv => FlagsCleared
  BY DEF IInv, Resting, FlagsCleared
<1> QED BY <1>1, Invariance, PTL

\* A collection is right: when it ends the heap holds exactly the objects the
\* program can name, no more and no fewer, for any heap, any shape of the index
\* and any structures, cyclic ones included (sm_heap_gc).
THEOREM CollectsGarbage == Spec => LeavesAccessible
<1>1. ASSUME IInv, [Next]_vars
      PROVE  [phase = "sweep" /\ phase' # "sweep" => Live(tree) = Accessible]_vars
  <2>1. SUFFICES ASSUME Next, phase = "sweep", phase' # "sweep"
                 PROVE  Live(tree) = Accessible
    BY <1>1
  <2>2. Steady /\ Sweeping
    BY <1>1, <2>1 DEF IInv
  <2>3. Finish
    BY <2>1 DEF Next, Collect, Mutate, Mark, BeginSweep, Sweep, Gc, EnterFrame, ExitFrame, OpenRoot,
                DropRoot, CollectForAlloc, Store, Alloc, SetField, SetScope
  <2>4. Covers(Live(tree)) /\ \A C \in SUBSET Live(tree) : Covers(C) => C = Live(tree)
    BY <2>2, <2>3, FinishKeepsInv
  <2> QED BY <2>2, <2>4, AccessibleCovers
<1>2. IInv /\ [Next]_vars => [phase = "sweep" /\ phase' # "sweep" => Live(tree) = Accessible]_vars
  BY <1>1
<1> QED BY <1>2, Invariance, PTL DEF Spec, LeavesAccessible

-----------------------------------------------------------------------------
(* The collector implements the heap its clients see.                      *)

\* The books: the count never passes the threshold, and the allocation that has
\* just collected does not have to collect again.
Budget ==
  /\ count <= threshold /\ 0 < threshold
  /\ phase = "alloc" => ~ShouldCollect

\* After a collection the threshold is above the number of survivors.
LEMMA ThresholdAbove ==
  ASSUME NEW n \in Nat, NEW t \in Nat, 0 < t, n <= t
  PROVE  NewThreshold(n, t) \in Nat /\ n < NewThreshold(n, t)
<1>1. t * Factor \in Nat /\ t < t * Factor
  BY MarkSweepAssumption, Z3
<1>2. NewThreshold(n, t) \in Nat
  BY ThresholdFits
<1>3. CASE n >= t
  BY <1>1, <1>3 DEF NewThreshold
<1>4. CASE n < t /\ t > ObjectThreshold /\ n < (t \div Factor)
  <2>1. NewThreshold(n, t) = t \div Factor
    BY <1>4, <1>1 DEF NewThreshold
  <2> QED BY <2>1, <1>2, <1>4
<1>5. CASE n < t /\ ~(t > ObjectThreshold /\ n < (t \div Factor))
  BY <1>5 DEF NewThreshold
<1> QED BY <1>2, <1>3, <1>4, <1>5

\* An empty heap is within its threshold.
LEMMA InitBudget == Init => Budget
BY MarkSweepAssumption DEF Init, Budget

\* The books balance after every step.
LEMMA StepKeepsBudget ==
  ASSUME IInv, Budget, [Next]_vars
  PROVE  Budget'
<1>1. count \in Nat /\ threshold \in Nat /\ unref \in Nat /\ count <= threshold /\ 0 < threshold
  BY DEF IInv, Steady, TypeOK, Budget
<1>2. CASE Mark \/ BeginSweep
  BY <1>1, <1>2 DEF Mark, BeginSweep, statusVars, Budget
<1>3. CASE Sweep
  BY <1>1, <1>3 DEF Sweep, Budget
<1>4. CASE Finish
  <2>1. threshold' = NewThreshold(count, threshold) /\ count' = count /\ unref' = 0
    BY <1>4 DEF Finish
  <2>2. threshold' \in Nat /\ count < threshold'
    BY <1>1, <2>1, ThresholdAbove
  <2> QED BY <1>1, <2>1, <2>2, MarkSweepAssumption DEF Budget, ShouldCollect
<1>5. ASSUME UNCHANGED <<count, threshold>>, phase' # "alloc" PROVE Budget'
  BY <1>1, <1>5 DEF Budget
<1>6. CASE Gc \/ \E i \in Root : CollectForAlloc(i)
  BY <1>5, <1>6 DEF Gc, CollectForAlloc, StartGc, statusVars
<1>7. CASE EnterFrame \/ ExitFrame \/ \E s \in Holder : SetScope(s)
  BY <1>5, <1>7 DEF EnterFrame, ExitFrame, SetScope, statusVars, gcVars
<1>8. ASSUME NEW i \in Root, OpenRoot(i) \/ DropRoot(i) \/ \E o \in Block : Store(i, o) PROVE Budget'
  BY <1>5, <1>8 DEF OpenRoot, DropRoot, Store, StartGc, statusVars, gcVars
<1>9. ASSUME NEW i \in Root, NEW o \in Block, Alloc(i, o) PROVE Budget'
  <2>1. ~ShouldCollect
    BY <1>9 DEF Alloc, Budget
  <2> QED BY <2>1, <1>1, <1>9 DEF Alloc, Budget, ShouldCollect
<1>10. ASSUME NEW x \in Holder, NEW f \in 1..Fields, NEW a \in Address, SetField(x, f, a) PROVE Budget'
  BY <1>5, <1>10 DEF SetField, statusVars, gcVars
<1>11. CASE UNCHANGED vars
  BY <1>11 DEF vars, statusVars, gcVars, Budget, ShouldCollect
<1> QED BY <1>2, <1>3, <1>4, <1>6, <1>7, <1>8, <1>9, <1>10, <1>11 DEF Next, Collect, Mutate

\* Where a collection starts that finds r in the root cells, and the cells as the
\* specification has them.
HandlesOf(r) == Abstract({r[i].ref : i \in {j \in Root : r[j].open}})
                  \cup (({scope} \cup ToSet(frames)) \cap Block) \cup Edges(Globals)
ViewOf(r) == [i \in Root |-> [open |-> r[i].open, value |-> FALSE,
                              ref  |-> IF r[i].ref = NULL THEN Nil ELSE ObjectAt(r[i].ref)]]

\* The specification starts from the same objects.
LEMMA StartsAlike ==
  ASSUME TypeOK, Covers(Live(tree)), NEW r \in [Root -> [open : BOOLEAN, ref : Address]],
         NEW h, h.refs[Globals] = ObjectsAt(ToSet(mem[Globals]))
  PROVE  H!Start(h, ViewOf(r), scope, frames) \cap Live(tree) = HandlesOf(r)
<1> DEFINE N == Live(tree)
           v == ViewOf(r)
           refs == {v[i].ref : i \in {j \in Root : v[j].open}} \cap Block
<1>1. N \in SUBSET Block
  BY DEF TypeOK
<1>2. ASSUME NEW o \in N
      PROVE  o \in refs <=> o \in Abstract({r[i].ref : i \in {j \in Root : r[j].open}})
  <2>1. ASSUME NEW i \in Root PROVE v[i].open = r[i].open /\ (v[i].ref = o <=> r[i].ref = Data(o))
    <3>1. v[i].open = r[i].open /\ v[i].ref = IF r[i].ref = NULL THEN Nil ELSE ObjectAt(r[i].ref)
      BY DEF ViewOf
    <3>2. o \in Block /\ o # Nil /\ Data(o) # NULL /\ ObjectAt(Data(o)) = o
      BY <1>1, DataInside, MarkSweepAssumption
    <3>3. r[i].ref = NULL \/ \E p \in Block : r[i].ref = Data(p) /\ ObjectAt(Data(p)) = p
      BY DataInside DEF Address
    <3> QED BY <3>1, <3>2, <3>3
  <2>2. o \in refs <=> \E i \in Root : v[i].open /\ v[i].ref = o
    BY <1>1
  <2>3. o \in Abstract({r[i].ref : i \in {j \in Root : r[j].open}})
          <=> \E i \in Root : r[i].open /\ r[i].ref = Data(o)
    BY AbstractExact
  <2> HIDE DEF refs, v
  <2> QED BY <2>1, <2>2, <2>3
<1>3. Abstract({r[i].ref : i \in {j \in Root : r[j].open}}) \subseteq N
  BY DEF Abstract
<1>4. H!Start(h, v, scope, frames) = refs \cup (({scope} \cup ToSet(frames)) \cap Block) \cup ObjectsAt(ToSet(mem[Globals]))
  BY DEF H!Start, H!RootRefs, H!ContextRefs, ToSet
<1>5. ({scope} \cup ToSet(frames)) \cap Block \subseteq N
  <2>1. Globals \notin Block
    BY DataInside
  <2> QED BY <2>1 DEF Covers
<1>6. ObjectsAt(ToSet(mem[Globals])) \cap N = Edges(Globals)
  BY DEF Edges, Abstract
<1> HIDE DEF refs, v
<1> QED BY <1>2, <1>3, <1>4, <1>5, <1>6 DEF HandlesOf, v

\* What the specification reaches is what the handles lead to.
LEMMA ReachesAlike ==
  ASSUME TypeOK, NEW h, h.objects = Live(tree), NEW start, NEW edges,
         \A x \in Live(tree) : edges[x] \cap Live(tree) = Edges(x),
         NEW X, Spans(X, start \cap Live(tree))
  PROVE  H!Reach(h, start, edges) = X
BY DEF H!Reach, Spans, Closes

\* Both count alike.
LEMMA CountsAlike ==
  ASSUME NEW S
  PROVE  H!Cardinality(S) = Cardinality(S)
BY Zenon DEF H!Cardinality, Cardinality

\* A heap of which a collection leaves O.
Rest(O)      == count - Cardinality(Live(tree) \ O)
Remaining(O) == View(O, Rest(O), NewThreshold(Rest(O), threshold), 0)

\* A collection of the specification leaves what the handles lead to.
LEMMA CollectsAlike ==
  ASSUME TypeOK, Covers(Live(tree)), NEW r \in [Root -> [open : BOOLEAN, ref : Address]],
         NEW X, Spans(X, HandlesOf(r)), NEW u
  PROVE  H!Collected(View(Live(tree), count, threshold, u), ViewOf(r)) = Remaining(X)
<1> DEFINE N == Live(tree)
           h == View(N, count, threshold, u)
           v == ViewOf(r)
           n == count - Cardinality(N \ X)
           keep == H!Reach(h, H!Start(h, v, scope, frames), h.refs)
<1>1. N \in SUBSET Block /\ X \in SUBSET N /\ N \subseteq Holder /\ Globals \in Holder
  BY DEF TypeOK, Spans, Holder
<1>2. /\ h.objects = N /\ h.count = count /\ h.threshold = threshold
      /\ \A x \in N \cup {Globals} : h.refs[x] = ObjectsAt(ToSet(mem[x]))
      /\ \A x \in Holder : h.ids[x] = {}
      /\ \A o \in N : h.kind[o] = "Scope"
  BY <1>1 DEF View
<1> HIDE DEF h, v, N
<1>3. H!Start(h, v, scope, frames) \cap N = HandlesOf(r)
  BY <1>2, StartsAlike DEF v, N
<1>4. \A x \in N : h.refs[x] \cap N = Edges(x)
  BY <1>2 DEF Edges, Abstract, N
<1>5. keep = X
  <2>1. Spans(X, H!Start(h, v, scope, frames) \cap Live(tree))
    BY <1>3 DEF N
  <2> QED BY <2>1, <1>2, <1>4, ReachesAlike DEF N
<1>6. H!Collected(h, v) = [objects   |-> X,
      kind      |-> [o \in Block |-> IF o \in X THEN h.kind[o] ELSE Unused],
      refs      |-> [x \in Holder |-> IF x \in X \cup {Globals} THEN h.refs[x] ELSE {}],
      ids       |-> [x \in Holder |-> IF x \in X \cup {Globals} THEN h.ids[x] ELSE {}],
      count     |-> n, threshold |-> H!NewThreshold(n, threshold), unref |-> 0]
  <2>1. H!Holder = Holder
    BY DEF H!Holder, Holder
  <2>2. H!Collected(h, v) = [objects   |-> keep,
        kind      |-> [o \in Block |-> IF o \in keep THEN h.kind[o] ELSE Unused],
        refs      |-> [x \in H!Holder |-> IF x \in keep \cup {Globals} THEN h.refs[x] ELSE {}],
        ids       |-> [x \in H!Holder |-> IF x \in keep \cup {Globals} THEN h.ids[x] ELSE {}],
        count     |-> h.count - H!Cardinality(h.objects \ keep),
        threshold |-> H!NewThreshold(h.count - H!Cardinality(h.objects \ keep), h.threshold), unref |-> 0]
    BY DEF H!Collected
  <2>3. h.count - H!Cardinality(h.objects \ X) = n /\ h.threshold = threshold
    BY <1>2, CountsAlike DEF N
  <2> HIDE DEF keep, n
  <2> QED BY <2>1, <2>2, <2>3, <1>5
<1>7. [o \in Block |-> IF o \in X THEN h.kind[o] ELSE Unused] = [o \in Block |-> IF o \in X THEN "Scope" ELSE Unused]
  BY <1>1, <1>2
<1>8. [x \in Holder |-> IF x \in X \cup {Globals} THEN h.refs[x] ELSE {}]
        = [x \in Holder |-> IF x \in X \cup {Globals} THEN ObjectsAt(ToSet(mem[x])) ELSE {}]
  BY <1>1, <1>2
<1>9. [x \in Holder |-> IF x \in X \cup {Globals} THEN h.ids[x] ELSE {}] = [x \in Holder |-> {}]
  BY <1>2
<1>10. H!NewThreshold(n, threshold) = NewThreshold(n, threshold)
  BY DEF H!NewThreshold, NewThreshold
<1>11. H!Collected(h, v) = View(X, n, NewThreshold(n, threshold), 0)
  <2> HIDE DEF n
  <2> QED BY <1>6, <1>7, <1>8, <1>9, <1>10 DEF View
<1> QED BY <1>11 DEF h, v, N, Remaining, Rest

\* What the collector shows of itself before and after a collection is its whole heap;
LEMMA ViewResting ==
  TypeOK /\ phase \in {"idle", "alloc"} => HeapView = View(Live(tree), count, threshold, unref)
<1> SUFFICES ASSUME TypeOK, phase \in {"idle", "alloc"}
             PROVE  HeapView = View(Live(tree), count, threshold, unref)
  OBVIOUS
<1>1. SweptAway = {} /\ Kept = Live(tree) /\ ~InGc
  BY DEF SweptAway, Kept, InGc
<1>2. KeptCount = count
  BY <1>1, FS_EmptySet DEF KeptCount, TypeOK
<1> QED BY <1>1, <1>2 DEF HeapView

\* while it marks, what the program can name;
LEMMA ViewMarking ==
  phase = "mark" /\ Accessible \subseteq Live(tree) => HeapView = Remaining(Accessible)
<1> SUFFICES ASSUME phase = "mark", Accessible \subseteq Live(tree) PROVE HeapView = Remaining(Accessible)
  OBVIOUS
<1>1. SweptAway = Live(tree) \ Accessible /\ InGc
  BY DEF SweptAway, InGc
<1>2. Kept = Accessible /\ KeptCount = Rest(Accessible)
  BY <1>1 DEF Kept, KeptCount, Rest
<1> QED BY <1>1, <1>2 DEF HeapView, Remaining

\* while it sweeps, what is to survive.
LEMMA ViewSweeping ==
  phase = "sweep" /\ TypeOK => HeapView = Remaining(Survivors)
<1> SUFFICES ASSUME phase = "sweep", TypeOK PROVE HeapView = Remaining(Survivors)
  OBVIOUS
<1>1. \A o \in Live(tree) : (cursor = NULL \/ o < cursor) <=> ~(cursor # NULL /\ o >= cursor)
  <2>1. (\A o \in Live(tree) : o \in Nat) /\ (cursor # NULL => cursor \in Nat)
    BY Addresses DEF TypeOK
  <2> QED BY <2>1
<1>2. SweptAway = Live(tree) \ Survivors /\ InGc
  BY <1>1 DEF SweptAway, InGc, Survivors
<1>3. Kept = Survivors /\ KeptCount = Rest(Survivors)
  BY <1>2 DEF Kept, KeptCount, Rest, Survivors, TypeOK
<1> QED BY <1>2, <1>3 DEF HeapView, Remaining

\* The same of the state after a step.
LEMMA ViewRestingNext ==
  (TypeOK /\ phase \in {"idle", "alloc"} => HeapView = View(Live(tree), count, threshold, unref))'
BY ViewResting, PTL

\* And while it marks.
LEMMA ViewMarkingNext ==
  (phase = "mark" /\ Accessible \subseteq Live(tree) => HeapView = Remaining(Accessible))'
BY ViewMarking, PTL

\* And while it sweeps.
LEMMA ViewSweepingNext ==
  (phase = "sweep" /\ TypeOK => HeapView = Remaining(Survivors))'
BY ViewSweeping, PTL

\* Where the program starts from is live, and determines what it can name.
LEMMA HandlesSpan == TypeOK /\ Covers(Live(tree)) => Spans(Accessible, HandlesOf(root))
<1> SUFFICES ASSUME TypeOK, Covers(Live(tree)) PROVE Spans(Accessible, HandlesOf(root))
  OBVIOUS
<1>1. ({scope} \cup ToSet(frames)) \cap Block \subseteq Live(tree)
  BY DataInside DEF Covers
<1>2. Handles \subseteq Live(tree) /\ Handles = HandlesOf(root)
  BY <1>1 DEF Handles, HandlesOf, Edges, Abstract
<1> QED BY <1>2, AccessibleSpans

\* The same of the state after a step.
LEMMA HandlesSpanNext == (TypeOK /\ Covers(Live(tree)) => Spans(Accessible, HandlesOf(root)))'
BY HandlesSpan, PTL

\* A set that covers contains what the program starts from, and leads nowhere else.
LEMMA CoversClosed ==
  ASSUME TypeOK, NEW C \in SUBSET Live(tree), Covers(C)
  PROVE  HandlesOf(root) \subseteq C /\ Closes(C)
<1>1. Live(tree) \in SUBSET Block /\ Globals \notin Block
  BY DataInside DEF TypeOK
<1>2. ASSUME NEW A, A \subseteq Named(C) PROVE Abstract(A) \subseteq C
  <2>1. ASSUME NEW o \in Abstract(A) PROVE o \in C
    <3>1. o \in Block /\ Data(o) \in Named(C) /\ C \in SUBSET Block
      BY <1>1, <1>2, <2>1, AbstractExact
    <3> QED BY <3>1, NamedObjects
  <2> QED BY <2>1
<1>3. \A x \in C \cup {Globals} : Edges(x) \subseteq C
  BY <1>2 DEF Edges, Covers
<1>4. Abstract({root[i].ref : i \in {j \in Root : root[j].open}}) \subseteq C
  <2>1. {root[i].ref : i \in {j \in Root : root[j].open}} \subseteq Named(C)
    BY DEF Covers
  <2> QED BY <2>1, <1>2
<1>5. ({scope} \cup ToSet(frames)) \cap Block \subseteq C
  BY <1>1 DEF Covers
<1> QED BY <1>3, <1>4, <1>5 DEF HandlesOf, Closes

\* While contents and scopes stay, what the program can name changes with the
\* root cells only.
LEMMA SpansStay ==
  ASSUME UNCHANGED <<tree, mem, scopeVars>>, (TypeOK /\ Covers(Live(tree)))'
  PROVE  Spans(Accessible', HandlesOf(root'))
<1>1. tree' = tree /\ mem' = mem /\ scope' = scope /\ frames' = frames
  BY DEF scopeVars
<1>2. Spans(Accessible, HandlesOf(root))'
  BY HandlesSpanNext
<1>3. HandlesOf(root)' = HandlesOf(root')
  BY <1>1 DEF HandlesOf, Edges, Abstract, Live
<1>4. \A X : Closes(X)' <=> Closes(X)
  BY <1>1 DEF Closes, Edges, Abstract, Live
<1> QED BY <1>1, <1>2, <1>3, <1>4 DEF Spans, Closes, Edges, Abstract, Live

\* A collection is one step of the specification, the one that starts it.
LEMMA StartImplements ==
  ASSUME Steady, Resting, IInv', NEW c, StartGc(root', c), NEW u,
         root' \in [Root -> [open : BOOLEAN, ref : Address]],
         UNCHANGED <<tree, mem, scopeVars, count, threshold>>
  PROVE  HeapView' = H!Collected(View(Live(tree), count, threshold, u), RootView')
<1> DEFINE X == Accessible'
<1>1. tree' = tree /\ mem' = mem /\ count' = count /\ threshold' = threshold /\ phase' = "mark"
  BY DEF StartGc
<1>2. (TypeOK /\ Covers(Live(tree)))'
  BY <1>1 DEF IInv, Steady, Marking
<1>3. Spans(X, HandlesOf(root'))
  BY <1>2, SpansStay
<1>4. RootView' = ViewOf(root')
  BY DEF RootView, ViewOf
<1>5. TypeOK /\ Covers(Live(tree))
  BY DEF Steady, Resting
<1>6. H!Collected(View(Live(tree), count, threshold, u), ViewOf(root')) = Remaining(X)
  <2> HIDE DEF X
  <2> QED BY <1>3, <1>5, CollectsAlike
<1>7. HeapView' = Remaining(Accessible)'
  <2>1. (Accessible \subseteq Live(tree))'
    BY <1>1, <1>3 DEF Spans, Live
  <2> QED BY <2>1, <1>1, ViewMarkingNext
<1>8. Remaining(Accessible)' = Remaining(X)
  BY <1>1 DEF Remaining, Rest, View, Live
<1> QED BY <1>4, <1>6, <1>7, <1>8

\* Two sets that the same objects lead to are one.
LEMMA SpansOnce ==
  ASSUME NEW X, NEW Y, NEW from, Spans(X, from), Spans(Y, from)
  PROVE  X = Y
BY DEF Spans

\* The steps of a collection change nothing of what the specification sees.
LEMMA CollectStutters ==
  ASSUME IInv, IInv', Collect
  PROVE  HeapView' = HeapView
<1>1. Steady /\ TypeOK /\ TypeOK'
  BY DEF IInv, Steady
<1>2. CASE Mark
  <2>1. /\ phase = "mark" /\ phase' = "mark" /\ count' = count /\ threshold' = threshold
        /\ tree' = tree /\ mem' = mem /\ root' = root /\ scope' = scope /\ frames' = frames
    BY <1>2 DEF Mark, scopeVars, statusVars
  <2>2. Covers(Live(tree)) /\ Covers(Live(tree))'
    BY <2>1 DEF IInv, Marking
  <2>3. Spans(Accessible, HandlesOf(root)) /\ Spans(Accessible', HandlesOf(root))
    BY <1>1, <2>1, <2>2, HandlesSpan, SpansStay DEF scopeVars
  <2>4. Accessible' = Accessible
    BY <2>3, SpansOnce
  <2>5. HeapView = Remaining(Accessible)
    BY <2>1, <2>3, ViewMarking DEF Spans
  <2>6. HeapView' = Remaining(Accessible)'
    <3>1. (Accessible \subseteq Live(tree))'
      BY <2>1, <2>3 DEF Spans, Live
    <3> QED BY <3>1, <2>1, ViewMarkingNext
  <2>7. Remaining(Accessible)' = Remaining(Accessible)
    BY <2>1, <2>4 DEF Remaining, Rest, View, Live
  <2> QED BY <2>5, <2>6, <2>7
<1>3. CASE BeginSweep
  <2>1. /\ phase = "mark" /\ phase' = "sweep" /\ count' = count /\ threshold' = threshold
        /\ tree' = tree /\ mem' = mem
    BY <1>3 DEF BeginSweep, statusVars
  <2>2. Marking /\ Covers(Live(tree)) /\ marked \in SUBSET Live(tree)
    BY <1>1, <2>1 DEF IInv, Marking, TypeOK
  <2>3. Covers(marked) /\ Survivors' = marked
    BY <1>1, <1>3, <2>2, BeginSweepKeepsInv
  <2>4. Spans(Accessible, HandlesOf(root))
    BY <1>1, <2>2, HandlesSpan
  <2>5. marked = Accessible
    <3>1. marked \subseteq Accessible
      BY <1>1, <2>2, AccessibleCovers DEF Marking, Needed
    <3>2. HandlesOf(root) \subseteq marked /\ Closes(marked)
      BY <1>1, <2>2, <2>3, CoversClosed
    <3> QED BY <3>1, <3>2, <2>2, <2>4 DEF Spans
  <2>6. HeapView = Remaining(marked)
    BY <2>1, <2>2, <2>5, ViewMarking
  <2>7. HeapView' = Remaining(Survivors)'
    BY <1>1, <2>1, ViewSweepingNext
  <2>8. Remaining(Survivors)' = Remaining(marked)
    BY <2>1, <2>3 DEF Remaining, Rest, View, Live
  <2> QED BY <2>6, <2>7, <2>8
<1>4. CASE Sweep
  <2> DEFINE S == Survivors
             N == Live(tree)
  <2>1. phase = "sweep" /\ phase' = "sweep" /\ threshold' = threshold /\ cursor \in N
    BY <1>1, <1>4 DEF Sweep, TypeOK
  <2>2. /\ Survivors' = S /\ S \in SUBSET N
        /\ cursor \notin marked => cursor \notin S /\ Live(tree') = N \ {cursor}
    BY <1>1, <1>4, <2>1, SweepKeepsInv DEF IInv
  <2>3. HeapView = Remaining(S) /\ HeapView' = Remaining(Survivors)'
    BY <1>1, <2>1, ViewSweeping, ViewSweepingNext
  <2>4. Rest(Survivors)' = Rest(S) /\ \A x \in S \cup {Globals} : mem'[x] = mem[x]
    <3>1. CASE cursor \in marked
      <4>1. tree' = tree /\ mem' = mem /\ count' = count
        BY <3>1, <1>4 DEF Sweep
      <4> QED BY <4>1, <2>2 DEF Rest, Live
    <3>2. CASE cursor \notin marked
      <4>1. mem' = [mem EXCEPT ![cursor] = NoFields] /\ count' = count - 1
        BY <3>2, <1>4 DEF Sweep
      <4>2. cursor # Globals /\ S \cup {Globals} \subseteq Holder
        BY <1>1, <2>1, <2>2, DataInside DEF TypeOK, Holder
      <4>3. \A x \in S \cup {Globals} : mem'[x] = mem[x]
        BY <4>1, <4>2, <2>2, <3>2, <1>1 DEF TypeOK
      <4>4. (Live(tree)' \ S) = (N \ S) \ {cursor} /\ cursor \in N \ S
        BY <2>1, <2>2, <3>2
      <4>5. /\ IsFiniteSet(N \ S) /\ Cardinality(N \ S) \in Nat
            /\ Cardinality((N \ S) \ {cursor}) = Cardinality(N \ S) - 1
        <5>1. IsFiniteSet(N)
          BY <1>1 DEF Steady, Sound, Shape
        <5>2. IsFiniteSet(N \ S) /\ Cardinality(N \ S) \in Nat
          BY <5>1, FS_Subset, FS_CardinalityType
        <5> QED BY <5>2, <4>4, FS_RemoveElement
      <4>6. count \in Nat
        BY <1>1 DEF TypeOK
      <4>7. Rest(Survivors)' = count' - Cardinality(Live(tree)' \ S)
        BY <2>2 DEF Rest
      <4> HIDE DEF S, N
      <4> QED BY <4>1, <4>3, <4>4, <4>5, <4>6, <4>7 DEF Rest, N
    <3> QED BY <3>1, <3>2
  <2>5. Remaining(Survivors)' = Remaining(S)
    <3> DEFINE n == Rest(S)
    <3>1. Remaining(Survivors)' = View(S, n, NewThreshold(n, threshold), 0)'
      BY <2>1, <2>2, <2>4 DEF Remaining
    <3> QED BY <2>1, <2>2, <2>4 DEF Remaining, View
  <2> QED BY <2>3, <2>5
<1>5. CASE Finish
  <2>1. /\ phase = "sweep" /\ cursor = NULL /\ phase' \in {"idle", "alloc"}
        /\ tree' = tree /\ mem' = mem /\ count' = count
        /\ threshold' = NewThreshold(count, threshold) /\ unref' = 0
    BY <1>5 DEF Finish
  <2>2. Survivors = Live(tree)
    BY <1>1, <2>1 DEF Survivors, TypeOK
  <2>3. HeapView = Remaining(Live(tree)) /\ HeapView' = View(Live(tree), count, threshold, unref)'
    BY <1>1, <2>1, <2>2, ViewSweeping, ViewRestingNext
  <2>4. Rest(Live(tree)) = count
    <3>1. Live(tree) \ Live(tree) = {}
      OBVIOUS
    <3>2. Cardinality(Live(tree) \ Live(tree)) = 0 /\ count \in Nat
      BY <3>1, <1>1, FS_EmptySet DEF TypeOK
    <3> QED BY <3>2 DEF Rest
  <2>5. View(Live(tree), count, threshold, unref)' = View(Live(tree), count, NewThreshold(count, threshold), 0)
    BY <2>1 DEF View, Live
  <2> QED BY <2>3, <2>4, <2>5 DEF Remaining
<1> QED BY <1>2, <1>3, <1>4, <1>5 DEF Collect

\* Between collections the specification sees the heap itself.
LEMMA ViewFields ==
  ASSUME TypeOK, phase \in {"idle", "alloc"}
  PROVE  /\ HeapView = View(Live(tree), count, threshold, unref) /\ RootView = ViewOf(root)
         /\ HeapView.objects = Live(tree) /\ HeapView.count = count
         /\ HeapView.threshold = threshold /\ HeapView.unref = unref
         /\ \A x \in Live(tree) \cup {Globals} : HeapView.refs[x] = ObjectsAt(ToSet(mem[x]))
         /\ \A x \in Block \ Live(tree) : HeapView.refs[x] = {}
         /\ \A x \in Holder : HeapView.ids[x] = {}
         /\ \A o \in Live(tree) : HeapView.kind[o] = "Scope"
<1>1. HeapView = View(Live(tree), count, threshold, unref) /\ RootView = ViewOf(root)
  BY ViewResting DEF RootView, ViewOf
<1>2. Live(tree) \in SUBSET Block /\ Holder = Block \cup {Globals} /\ Globals \notin Block
  BY DataInside DEF TypeOK, Holder
<1> QED BY <1>1, <1>2 DEF View

\* Between collections both name the same objects.
LEMMA AccessibleAlike ==
  ASSUME Steady, Resting, phase = "idle"
  PROVE  H!Accessible = Accessible
<1> DEFINE h == HeapView
           edges == H!ProgramEdges(h)
           start == H!Start(h, RootView, scope, frames)
<1>1. TypeOK /\ Covers(Live(tree)) /\ Globals \notin Block /\ Live(tree) \in SUBSET Block
  BY DataInside DEF Steady, Resting, TypeOK
<1>2. /\ RootView = ViewOf(root) /\ h.objects = Live(tree)
      /\ \A x \in Live(tree) \cup {Globals} : h.refs[x] = ObjectsAt(ToSet(mem[x]))
      /\ \A o \in Live(tree) : h.kind[o] = "Scope"
  BY <1>1, ViewFields
<1> HIDE DEF h
<1>3. \A x \in Live(tree) : edges[x] \cap Live(tree) = Edges(x)
  <2>1. \A x \in Live(tree) : edges[x] = h.refs[x]
    BY <1>1, <1>2 DEF H!ProgramEdges, H!Holder
  <2> HIDE DEF edges
  <2> QED BY <2>1, <1>2 DEF Edges, Abstract
<1>4. start \cap Live(tree) = HandlesOf(root)
  BY <1>1, <1>2, StartsAlike DEF TypeOK
<1>5. Spans(Accessible, HandlesOf(root))
  BY <1>1, HandlesSpan
<1>6. H!Accessible = H!Reach(h, start, edges)
  BY DEF H!Accessible, h
<1> HIDE DEF start, edges
<1> QED BY <1>1, <1>2, <1>3, <1>4, <1>5, <1>6, ReachesAlike

\* The specification counts at most as many addresses in memory, since an object
\* may hold one twice.
LEMMA LinksAlike ==
  ASSUME Steady, Resting, phase = "idle"
  PROVE  H!Links <= Links /\ Links \in Nat /\ H!Links \in Nat
<1> DEFINE S == {p \in Holder \X Block : p[2] \in HeapView.refs[p[1]]}
           I == {p \in Holder \X Block : p[2] \in HeapView.ids[p[1]]}
           T == {p \in Holder \X (1..Fields) : mem[p[1]][p[2]] # NULL}
           field(p) == CHOOSE f \in 1..Fields : mem[p[1]][f] = Data(p[2])
           g == [p \in S |-> <<p[1], field(p)>>]
<1>1. TypeOK /\ Live(tree) \in SUBSET Block /\ Holder = Block \cup {Globals} /\ Globals \notin Block
  BY DataInside DEF Steady, TypeOK, Holder
<1>2. /\ \A x \in Live(tree) \cup {Globals} : HeapView.refs[x] = ObjectsAt(ToSet(mem[x]))
      /\ \A x \in Block \ Live(tree) : HeapView.refs[x] = {}
      /\ \A x \in Holder : HeapView.ids[x] = {}
  BY <1>1, ViewFields
<1>3. IsFiniteSet(Holder) /\ IsFiniteSet(1..Fields)
  <2>1. IsFiniteSet(Block) /\ Fields \in Nat
    BY MarkSweepAssumption
  <2>2. IsFiniteSet(Block \cup {Globals})
    BY <2>1, FS_AddElement
  <2> QED BY <2>1, <2>2, <1>1, FS_Interval
<1>4. IsFiniteSet(T) /\ Cardinality(T) \in Nat
  <2>1. IsFiniteSet(Holder \X (1..Fields))
    BY <1>3, FS_Product
  <2>2. T \in SUBSET (Holder \X (1..Fields))
    OBVIOUS
  <2> HIDE DEF T
  <2> QED BY <2>1, <2>2, FS_Subset, FS_CardinalityType
<1>5. ASSUME NEW p \in S
      PROVE  field(p) \in 1..Fields /\ mem[p[1]][field(p)] = Data(p[2]) /\ p[1] \in Holder /\ p[2] \in Block
  <2>1. p[1] \in Holder /\ p[2] \in Block /\ p[2] \in HeapView.refs[p[1]]
    OBVIOUS
  <2>2. p[2] \in ObjectsAt(ToSet(mem[p[1]]))
    BY <2>1, <1>1, <1>2
  <2>3. Data(p[2]) \in ToSet(mem[p[1]])
    BY <2>2 DEF ObjectsAt
  <2>4. DOMAIN mem[p[1]] = 1..Fields
    BY <2>1, <1>1 DEF TypeOK
  <2>5. \E f \in 1..Fields : mem[p[1]][f] = Data(p[2])
    BY <2>3, <2>4 DEF ToSet
  <2> HIDE DEF S
  <2> QED BY <2>1, <2>5
<1>6. g \in Injection(S, T)
  <2> HIDE DEF field
  <2>1. ASSUME NEW p \in S PROVE g[p] \in T
    <3>1. Data(p[2]) # NULL
      BY <1>5, DataInside
    <3> HIDE DEF S
    <3> QED BY <3>1, <1>5
  <2>2. ASSUME NEW p \in S, NEW q \in S, g[p] = g[q] PROVE p = q
    <3>1. p[1] = q[1] /\ field(p) = field(q)
      BY <2>2
    <3>2. p[2] \in Block /\ q[2] \in Block /\ Data(p[2]) = Data(q[2])
      BY <3>1, <1>5
    <3>3. p[2] = q[2]
      BY <3>2, DataInside
    <3>4. p \in Holder \X Block /\ q \in Holder \X Block
      OBVIOUS
    <3> HIDE DEF S, g
    <3> QED BY <3>1, <3>3, <3>4
  <2>3. g \in [S -> T]
    <3> HIDE DEF T, S
    <3> QED BY <2>1
  <2> HIDE DEF S, T, g
  <2> QED BY <2>2, <2>3 DEF Injection, IsInjective
<1>7. IsFiniteSet(S) /\ Cardinality(S) <= Cardinality(T) /\ Cardinality(S) \in Nat
  <2> HIDE DEF S, T, g
  <2> QED BY <1>4, <1>6, FS_Injection, FS_CardinalityType
<1>8. I = {}
  BY <1>2
<1>9. Links = Cardinality(T)
  BY DEF Links
<1>10. H!Links = Cardinality(S) + Cardinality(I)
  <2>1. H!Links = H!Cardinality(S) + H!Cardinality(I)
    BY DEF H!Links, H!Holder, Holder
  <2> HIDE DEF S, I
  <2> QED BY <2>1, CountsAlike
<1>11. Cardinality(I) = 0
  <2> HIDE DEF I
  <2> QED BY <1>8, FS_EmptySet
<1> HIDE DEF S, T, I
<1> QED BY <1>4, <1>7, <1>9, <1>10, <1>11

\* A step that touches neither the objects nor the books is invisible in the heap.
LEMMA HeapStays ==
  ASSUME TypeOK, TypeOK', phase = "idle", UNCHANGED <<tree, mem, statusVars, gcVars>>
  PROVE  HeapView' = HeapView
<1>1. /\ tree' = tree /\ mem' = mem /\ count' = count /\ threshold' = threshold
      /\ unref' = unref /\ phase' = phase
  BY DEF statusVars, gcVars
<1>2. HeapView = View(Live(tree), count, threshold, unref)
  BY ViewResting
<1>3. HeapView' = View(Live(tree), count, threshold, unref)'
  BY <1>1, ViewRestingNext
<1>4. View(Live(tree), count, threshold, unref)' = View(Live(tree), count, threshold, unref)
  BY <1>1 DEF View, Live
<1> QED BY <1>2, <1>3, <1>4

\* A root cell, as the specification sees it,
LEMMA CellSeen ==
  ASSUME NEW i \in Root
  PROVE  /\ RootView[i] = [open |-> root[i].open, value |-> FALSE,
                           ref |-> IF root[i].ref = NULL THEN Nil ELSE ObjectAt(root[i].ref)]
         /\ RootView[i].open = root[i].open /\ ~RootView[i].value
         /\ RootView[i].ref = IF root[i].ref = NULL THEN Nil ELSE ObjectAt(root[i].ref)
BY DEF RootView

\* and as it is rewritten.
LEMMA CellAlike ==
  ASSUME TypeOK, NEW i \in Root
  PROVE  /\ RootView' = ViewOf(root')
         /\ \A r \in [Root -> [open : BOOLEAN, ref : Address]] :
              (\A j \in Root \ {i} : r[j] = root[j])
                => ViewOf(r) = [RootView EXCEPT ![i] = [open |-> r[i].open, value |-> FALSE,
                                  ref |-> IF r[i].ref = NULL THEN Nil ELSE ObjectAt(r[i].ref)]]
BY DEF RootView, ViewOf

\* Writing the address of a cell.
LEMMA CellWritten ==
  ASSUME NEW R, NEW e \in [open : BOOLEAN, value : BOOLEAN, ref : R], NEW d
  PROVE  [e EXCEPT !.ref = d] = [open |-> e.open, value |-> e.value, ref |-> d]
<1> DEFINE x == [e EXCEPT !.ref = d]
<1>1. x.open = e.open /\ x.value = e.value /\ x.ref = d
  OBVIOUS
<1>2. x \in [open : BOOLEAN, value : BOOLEAN, ref : R \cup {d}]
  OBVIOUS
<1> HIDE DEF x
<1>3. x = [open |-> x.open, value |-> x.value, ref |-> x.ref]
  BY <1>2
<1> QED BY <1>1, <1>3 DEF x

\* A root cell that another object is written to.
LEMMA CellRewritten ==
  ASSUME TypeOK, NEW i \in Root, NEW o \in Block, root' = [root EXCEPT ![i].ref = Data(o)]
  PROVE  RootView' = [RootView EXCEPT ![i].ref = o]
<1>1. Data(o) # NULL /\ ObjectAt(Data(o)) = o /\ Data(o) \in Address
  BY DataInside DEF Address
<1>2. /\ root' \in [Root -> [open : BOOLEAN, ref : Address]]
      /\ root'[i].open = root[i].open /\ root'[i].ref = Data(o) /\ \A j \in Root \ {i} : root'[j] = root[j]
  BY <1>1 DEF TypeOK
<1>3. ViewOf(root') = [RootView EXCEPT ![i] = [open |-> root'[i].open, value |-> FALSE,
                         ref |-> IF root'[i].ref = NULL THEN Nil ELSE ObjectAt(root'[i].ref)]]
  BY <1>2, CellAlike
<1>4. [RootView EXCEPT ![i].ref = o] = [RootView EXCEPT ![i] = [open |-> root[i].open, value |-> FALSE, ref |-> o]]
  <2> DEFINE q(j) == IF root[j].ref = NULL THEN Nil ELSE ObjectAt(root[j].ref)
             R == {q(j) : j \in Root}
  <2>1. RootView = [j \in Root |-> [open |-> root[j].open, value |-> FALSE, ref |-> q(j)]]
    BY DEF RootView
  <2>2. \A j \in Root : root[j].open \in BOOLEAN /\ q(j) \in R
    BY DEF TypeOK
  <2> HIDE DEF q, R
  <2>3. RootView \in [Root -> [open : BOOLEAN, value : BOOLEAN, ref : R]]
    BY <2>1, <2>2
  <2>4. RootView[i].open = root[i].open /\ RootView[i].value = FALSE
    BY <2>1
  <2>5. [RootView EXCEPT ![i].ref = o]
          = [RootView EXCEPT ![i] = [open |-> RootView[i].open, value |-> RootView[i].value, ref |-> o]]
    <3> DEFINE f == RootView
    <3> HIDE DEF f
    <3>1. f \in [Root -> [open : BOOLEAN, value : BOOLEAN, ref : R]]
      BY <2>3 DEF f
    <3>2. [f EXCEPT ![i].ref = o] = [f EXCEPT ![i] = [open |-> f[i].open, value |-> f[i].value, ref |-> o]]
      <4>1. f[i] \in [open : BOOLEAN, value : BOOLEAN, ref : R]
        BY <3>1
      <4> QED BY <3>1, <4>1, CellWritten
    <3> QED BY <3>2 DEF f
  <2> QED BY <2>4, <2>5
<1> QED BY <1>1, <1>2, <1>3, <1>4, CellAlike

\* Opening a root cell.
LEMMA OpenImplements ==
  ASSUME IInv, IInv', NEW i \in Root, OpenRoot(i)
  PROVE  H!Next
<1>1. TypeOK /\ TypeOK' /\ phase = "idle" /\ ~root[i].open /\ root[i].ref = NULL
  BY DEF IInv, Steady, OpenRoot
<1>2. /\ root' = [root EXCEPT ![i].open = TRUE]
      /\ UNCHANGED <<tree, mem, scopeVars, statusVars, gcVars>>
  BY DEF OpenRoot
<1>3. HeapView' = HeapView /\ scope' = scope /\ frames' = frames
  BY <1>1, <1>2, HeapStays DEF scopeVars
<1>4. ~RootView[i].open
  BY <1>1, CellSeen
<1>5. RootView' = [RootView EXCEPT ![i] = [open |-> TRUE, value |-> FALSE, ref |-> Nil]]
  <2>1. /\ root' \in [Root -> [open : BOOLEAN, ref : Address]]
        /\ root'[i].open = TRUE /\ root'[i].ref = NULL /\ \A j \in Root \ {i} : root'[j] = root[j]
    BY <1>1, <1>2 DEF TypeOK
  <2>2. ViewOf(root') = [RootView EXCEPT ![i] = [open |-> root'[i].open, value |-> FALSE,
                           ref |-> IF root'[i].ref = NULL THEN Nil ELSE ObjectAt(root'[i].ref)]]
    BY <1>1, <2>1, CellAlike
  <2> QED BY <1>1, <2>1, <2>2, CellAlike
<1>6. H!OpenRoot(i, FALSE)
  BY <1>3, <1>4, <1>5 DEF H!OpenRoot
<1> QED BY <1>6 DEF H!Next

\* Writing to a root cell what the program can name.
LEMMA StoreImplements ==
  ASSUME IInv, IInv', NEW i \in Root, NEW o \in Block, Store(i, o)
  PROVE  H!Next
<1>1. TypeOK /\ TypeOK' /\ phase = "idle" /\ root[i].open /\ Steady /\ Resting
  BY DEF IInv, Steady, Store
<1>2. /\ root' = [root EXCEPT ![i].ref = Data(o)] /\ o \in Accessible
      /\ UNCHANGED <<tree, mem, scopeVars, statusVars, gcVars>>
  BY DEF Store
<1>3. HeapView' = HeapView /\ scope' = scope /\ frames' = frames
  BY <1>1, <1>2, HeapStays DEF scopeVars
<1>4. RootView[i].open /\ o \in H!Accessible
  BY <1>1, <1>2, CellSeen, AccessibleAlike
<1>5. RootView' = [RootView EXCEPT ![i].ref = o]
  BY <1>1, <1>2, CellRewritten
<1>6. H!Store(i, o)
  BY <1>3, <1>4, <1>5 DEF H!Store
<1> QED BY <1>6 DEF H!Next

\* Moving the current scope, and the two ends of a frame.
LEMMA ScopeImplements ==
  ASSUME IInv, IInv', EnterFrame \/ ExitFrame \/ \E s \in Holder : SetScope(s)
  PROVE  H!Next
<1>1. /\ TypeOK /\ TypeOK' /\ phase = "idle" /\ Steady /\ Resting
      /\ UNCHANGED <<tree, mem, root, statusVars, gcVars>>
  BY DEF IInv, Steady, EnterFrame, ExitFrame, SetScope
<1>2. HeapView' = HeapView /\ RootView' = RootView
  BY <1>1, HeapStays DEF RootView
<1>3. CASE EnterFrame
  BY <1>2, <1>3 DEF EnterFrame, H!EnterFrame, H!Next
<1>4. CASE ExitFrame
  <2>1. /\ Len(frames) > 1 /\ scope' = frames[Len(frames)]
        /\ frames' = SubSeq(frames, 1, Len(frames) - 1)
    BY <1>4 DEF ExitFrame, Last, Front
  <2> QED BY <2>1, <1>2 DEF H!ExitFrame, H!Next
<1>5. ASSUME NEW s \in Holder, SetScope(s) PROVE H!Next
  <2>1. s \in Accessible \cup {Globals} /\ scope' = s /\ frames' = frames
    BY <1>5 DEF SetScope
  <2>2. s \in Accessible => s \in H!Accessible /\ HeapView.kind[s] = "Scope"
    <3>1. Accessible \subseteq Live(tree)
      BY <1>1, AccessibleCovers DEF Resting
    <3> QED BY <3>1, <1>1, AccessibleAlike, ViewFields
  <2>3. H!SetScope(s)
    BY <2>1, <2>2, <1>2 DEF H!SetScope
  <2> QED BY <2>3 DEF H!Next, H!Holder, Holder
<1> QED BY <1>3, <1>4, <1>5

\* A collection that the program, or an allocation, asks for.
LEMMA AskImplements ==
  ASSUME IInv, IInv', Gc \/ \E i \in Root : CollectForAlloc(i)
  PROVE  H!Next
<1>1. TypeOK /\ phase = "idle" /\ Steady /\ Resting
  BY DEF IInv, Steady, Gc, CollectForAlloc
<1>2. PICK c \in Root \cup {Nil} : StartGc(root, c)
  BY DEF Gc, CollectForAlloc
<1>3. UNCHANGED <<tree, mem, root, scopeVars, statusVars, marked, allMarked, cursor>>
  BY DEF Gc, CollectForAlloc
<1>4. root' = root /\ count' = count /\ threshold' = threshold /\ scope' = scope /\ frames' = frames
  BY <1>3 DEF scopeVars, statusVars
<1>5. StartGc(root', c)
  BY <1>2, <1>4 DEF StartGc, Sources
<1>6. HeapView' = H!Collected(View(Live(tree), count, threshold, unref), RootView')
  BY <1>1, <1>3, <1>4, <1>5, StartImplements DEF TypeOK
<1>7. RootView' = RootView
  BY <1>4 DEF RootView
<1>8. HeapView = View(Live(tree), count, threshold, unref)
  BY <1>1, ViewResting
<1>9. H!Gc
  BY <1>4, <1>6, <1>7, <1>8 DEF H!Gc
<1> QED BY <1>9 DEF H!Next

\* What the specification makes of a heap: it has a new object, or more that are
\* unreferenced.
Grown(h, o)   == [h EXCEPT !.objects = @ \cup {o}, !.kind[o] = "Scope", !.refs[o] = {}, !.count = @ + 1]
Counted(h, n) == [h EXCEPT !.unref = @ + n]


\* What the specification sees is such a heap.
LEMMA ViewTyped ==
  ASSUME NEW O \in SUBSET Block, NEW n \in Nat, NEW t \in Nat, NEW u \in Nat
  PROVE  View(O, n, t, u) \in [objects : {O}, kind : [Block -> {"Scope", Unused}],
                               refs : [Holder -> SUBSET Block], ids : [Holder -> {{}}],
                               count : Nat, threshold : Nat, unref : Nat]
<1>1. \A A : ObjectsAt(A) \in SUBSET Block
  BY DEF ObjectsAt
<1>2. [o \in Block |-> IF o \in O THEN "Scope" ELSE Unused] \in [Block -> {"Scope", Unused}]
  OBVIOUS
<1>3. [x \in Holder |-> IF x \in O \cup {Globals} THEN ObjectsAt(ToSet(mem[x])) ELSE {}] \in [Holder -> SUBSET Block]
  BY <1>1
<1>4. [x \in Holder |-> {}] \in [Holder -> {{}}]
  OBVIOUS
<1> QED BY <1>2, <1>3, <1>4 DEF View

\* A new object leads nowhere.
LEMMA ViewGrown ==
  ASSUME NEW O \in SUBSET Block, NEW o \in Block, NEW n \in Nat, NEW t \in Nat, NEW u \in Nat, mem[o] = NoFields
  PROVE  Grown(View(O, n, t, u), o) = View(O \cup {o}, n + 1, t, u)
<1> DEFINE h == View(O, n, t, u)
<1>1. ObjectsAt(ToSet(mem[o])) = {}
  <2>1. ToSet(NoFields) \subseteq {NULL}
    BY DEF ToSet, NoFields
  <2>2. \A p \in Block : Data(p) # NULL
    BY DataInside
  <2> QED BY <2>1, <2>2 DEF ObjectsAt
<1>2. o \in Holder
  BY DEF Holder
<1>3. /\ h.objects = O /\ h.count = n /\ h.threshold = t /\ h.unref = u
      /\ h.kind = [p \in Block |-> IF p \in O THEN "Scope" ELSE Unused]
      /\ h.refs = [x \in Holder |-> IF x \in O \cup {Globals} THEN ObjectsAt(ToSet(mem[x])) ELSE {}]
      /\ h.ids = [x \in Holder |-> {}]
  BY DEF View
<1>4. h \in [objects : {O}, kind : [Block -> {"Scope", Unused}], refs : [Holder -> SUBSET Block],
             ids : [Holder -> {{}}], count : Nat, threshold : Nat, unref : Nat]
  BY ViewTyped
<1> HIDE DEF h
<1> DEFINE y == Grown(h, o)
<1>5. y = [objects |-> h.objects \cup {o}, kind |-> [h.kind EXCEPT ![o] = "Scope"],
           refs |-> [h.refs EXCEPT ![o] = {}], ids |-> h.ids,
           count |-> h.count + 1, threshold |-> h.threshold, unref |-> h.unref]
  <2>1. /\ y.objects = h.objects \cup {o} /\ y.kind = [h.kind EXCEPT ![o] = "Scope"]
        /\ y.refs = [h.refs EXCEPT ![o] = {}] /\ y.ids = h.ids
        /\ y.count = h.count + 1 /\ y.threshold = h.threshold /\ y.unref = h.unref
    BY <1>2, <1>4 DEF Grown
  <2>2. y \in [objects : {y.objects}, kind : {y.kind}, refs : {y.refs}, ids : {y.ids},
              count : {y.count}, threshold : {y.threshold}, unref : {y.unref}]
    BY <1>2, <1>4 DEF Grown
  <2> HIDE DEF y
  <2>3. y = [objects |-> y.objects, kind |-> y.kind, refs |-> y.refs, ids |-> y.ids,
             count |-> y.count, threshold |-> y.threshold, unref |-> y.unref]
    BY <2>2
  <2> QED BY <2>1, <2>3
<1>6. [h.kind EXCEPT ![o] = "Scope"] = [p \in Block |-> IF p \in O \cup {o} THEN "Scope" ELSE Unused]
  BY <1>3
<1>7. [h.refs EXCEPT ![o] = {}]
        = [x \in Holder |-> IF x \in (O \cup {o}) \cup {Globals} THEN ObjectsAt(ToSet(mem[x])) ELSE {}]
  BY <1>1, <1>2, <1>3
<1>8. Grown(h, o) = View(O \cup {o}, n + 1, t, u)
  BY <1>3, <1>5, <1>6, <1>7 DEF View
<1> QED BY <1>8 DEF h

\* An allocation, of one who did not have to collect or has collected.
LEMMA AllocImplements ==
  ASSUME IInv, IInv', Budget, NEW i \in Root, NEW o \in Block, Alloc(i, o)
  PROVE  H!Next
<1> DEFINE N == Live(tree)
<1>1. /\ TypeOK /\ TypeOK' /\ phase \in {"idle", "alloc"} /\ ~ShouldCollect
      /\ Sound(tree) /\ Apart(N) /\ N \in SUBSET Block
      /\ count \in Nat /\ threshold \in Nat /\ unref \in Nat
  BY DEF IInv, Steady, TypeOK, Alloc, Budget
<1>2. /\ Free(o) /\ tree' = InsertObject(tree, o) /\ count' = count + 1 /\ root[i].open
      /\ root' = [root EXCEPT ![i].ref = Data(o)] /\ phase' = "idle"
      /\ mem' = mem /\ scope' = scope /\ frames' = frames /\ threshold' = threshold /\ unref' = unref
  BY DEF Alloc, scopeVars
<1>3. o \notin N /\ Apart(N \cup {o})
  BY <1>1, <1>2, FreshApart DEF Free
<1>4. Live(tree') = N \cup {o}
  BY <1>1, <1>2, <1>3, InsertSound
<1>5. HeapView = View(N, count, threshold, unref) /\ HeapView.objects = N
      /\ HeapView.count = count /\ HeapView.threshold = threshold /\ HeapView.unref = unref
  BY <1>1, ViewFields
<1>6. H!CollectIfNeeded(HeapView, RootView) = HeapView
  BY <1>1, <1>5 DEF H!CollectIfNeeded, H!ShouldCollect, ShouldCollect
<1>7. HeapView' = View(N \cup {o}, count + 1, threshold, unref)
  <2>1. HeapView' = View(Live(tree), count, threshold, unref)'
    BY <1>1, <1>2, ViewRestingNext
  <2>2. Live(tree)' = N \cup {o}
    BY <1>4 DEF Live
  <2> QED BY <2>1, <2>2, <1>2 DEF View
<1>8. mem[o] = NoFields
  BY <1>3 DEF IInv, Steady
<1>9. Grown(View(N, count, threshold, unref), o) = View(N \cup {o}, count + 1, threshold, unref)
  BY <1>1, <1>8, ViewGrown
<1>10. HeapView' = Grown(HeapView, o)
  BY <1>5, <1>7, <1>9
<1>11. RootView' = [RootView EXCEPT ![i].ref = o] /\ RootView[i].open
  BY <1>1, <1>2, CellRewritten, CellSeen
<1>12. H!Alloc("Scope", o, i, {})
  BY <1>2, <1>3, <1>5, <1>6, <1>10, <1>11 DEF H!Alloc, Grown
<1> QED BY <1>12 DEF H!Next

\* Dropping a root cell counts alike: an object, and the addresses in it.
LEMMA UnrefsAlike ==
  ASSUME Steady, Resting, phase = "idle", NEW i \in Root
  PROVE  \E n \in 0..Fields : Unrefs(i) = H!UnrefsOfDrop(i, n)
<1> DEFINE N == Live(tree)
           a == root[i].ref
           b == FromPointer(tree, {}, a, TRUE)
           F(o) == {f \in 1..Fields : mem[o][f] # NULL}
<1>1. TypeOK /\ Sound(tree) /\ Apart(N) /\ N \in SUBSET Block /\ a \in Named(N)
  BY DEF Steady, Resting, TypeOK, Covers
<1>2. /\ HeapView.objects = N /\ \A o \in N : HeapView.kind[o] = "Scope"
      /\ ~RootView[i].value /\ RootView[i].ref = IF a = NULL THEN Nil ELSE ObjectAt(a)
  BY <1>1, ViewFields, CellSeen
<1>3. Unrefs(i) = IF b = NULL THEN 0 ELSE 1 + Cardinality(F(b))
  BY ZenonT(60) DEF Unrefs
<1>4. \A n : H!UnrefsOfDrop(i, n) =
        IF RootView[i].ref \in N THEN 1 + (IF HeapView.kind[RootView[i].ref] = "Scope" THEN n ELSE 0) ELSE 0
  BY <1>2 DEF H!UnrefsOfDrop
<1>5. CASE a = NULL
  <2>1. a \in Nat /\ \A o \in N : ~Holds(o, a)
    <3>1. \A o \in N : o \in Nat \ {0} /\ End(o) \in Nat
      BY <1>1, Addresses
    <3> QED BY <3>1, <1>5 DEF Holds, NULL
  <2>2. b = NULL
    BY <2>1, <1>1, FromPointerExact
  <2>3. RootView[i].ref \notin N
    BY <1>1, <1>2, <1>5, MarkSweepAssumption
  <2>4. 0 \in 0..Fields
    BY MarkSweepAssumption
  <2> HIDE DEF b, F
  <2> QED BY <1>3, <1>4, <2>2, <2>3, <2>4
<1>6. ASSUME NEW p \in N, a = Data(p) PROVE \E n \in 0..Fields : Unrefs(i) = H!UnrefsOfDrop(i, n)
  <2>1. p \in Block /\ a \in Nat /\ a # NULL /\ Holds(p, a) /\ ObjectAt(a) = p
    BY <1>1, <1>6, DataInside
  <2>2. b = p /\ p # NULL
    BY <2>1, <1>1, FromPointerExact, Addresses DEF NULL
  <2>3. RootView[i].ref = p
    BY <1>2, <2>1
  <2>4. Cardinality(F(p)) \in 0..Fields
    <3>1. Fields \in Nat /\ IsFiniteSet(1..Fields) /\ Cardinality(1..Fields) = Fields
      BY MarkSweepAssumption, FS_Interval
    <3>2. F(p) \in SUBSET (1..Fields)
      OBVIOUS
    <3> HIDE DEF F
    <3> QED BY <3>1, <3>2, FS_Subset, FS_CardinalityType
  <2> HIDE DEF b, F
  <2> QED BY <1>2, <1>3, <1>4, <2>2, <2>3, <2>4
<1> QED BY <1>1, <1>5, <1>6 DEF Named

\* Dropping a root cell, with or without a collection.
LEMMA DropImplements ==
  ASSUME IInv, IInv', NEW i \in Root, DropRoot(i)
  PROVE  H!Next
<1> DEFINE N == Live(tree)
           w == View(N, count, threshold, unref)
<1>1. /\ TypeOK /\ TypeOK' /\ phase = "idle" /\ Steady /\ Resting /\ root[i].open /\ N \in SUBSET Block
      /\ count \in Nat /\ threshold \in Nat /\ unref \in Nat
  BY DEF IInv, Steady, TypeOK, DropRoot
<1>2. /\ root' = [root EXCEPT ![i] = Closed] /\ unref' = unref + Unrefs(i)
      /\ UNCHANGED <<tree, mem, scopeVars, count, threshold, marked, allMarked, cursor>>
  BY DEF DropRoot
<1>3. tree' = tree /\ mem' = mem /\ count' = count /\ threshold' = threshold /\ scope' = scope /\ frames' = frames
  BY <1>2 DEF scopeVars
<1>4. PICK n \in 0..Fields : Unrefs(i) = H!UnrefsOfDrop(i, n)
  BY <1>1, UnrefsAlike
<1>5. unref' \in Nat
  BY <1>1 DEF TypeOK
<1>6. HeapView = w
  BY <1>1, ViewFields
<1>7. Counted(w, Unrefs(i)) = View(N, count, threshold, unref')
  <2>1. /\ w.objects = N /\ w.count = count /\ w.threshold = threshold /\ w.unref = unref
        /\ w = [objects |-> w.objects, kind |-> w.kind, refs |-> w.refs, ids |-> w.ids,
                count |-> w.count, threshold |-> w.threshold, unref |-> w.unref]
    BY DEF View
  <2>2. View(N, count, threshold, unref') = [objects |-> N, kind |-> w.kind, refs |-> w.refs, ids |-> w.ids,
                count |-> count, threshold |-> threshold, unref |-> unref']
    BY DEF View
  <2>3. w \in [objects : {N}, kind : [Block -> {"Scope", Unused}], refs : [Holder -> SUBSET Block],
               ids : [Holder -> {{}}], count : Nat, threshold : Nat, unref : Nat]
    BY <1>1, ViewTyped
  <2> DEFINE m == Unrefs(i)
             y == Counted(w, m)
  <2> HIDE DEF w, m
  <2>4. y = [objects |-> w.objects, kind |-> w.kind, refs |-> w.refs, ids |-> w.ids,
             count |-> w.count, threshold |-> w.threshold, unref |-> w.unref + m]
    <3>1. /\ y.objects = w.objects /\ y.kind = w.kind /\ y.refs = w.refs /\ y.ids = w.ids
          /\ y.count = w.count /\ y.threshold = w.threshold /\ y.unref = w.unref + m
      BY <2>3 DEF Counted
    <3>2. y \in [objects : {y.objects}, kind : {y.kind}, refs : {y.refs}, ids : {y.ids},
                 count : {y.count}, threshold : {y.threshold}, unref : {y.unref}]
      BY <2>3 DEF Counted
    <3> HIDE DEF y
    <3>3. y = [objects |-> y.objects, kind |-> y.kind, refs |-> y.refs, ids |-> y.ids,
               count |-> y.count, threshold |-> y.threshold, unref |-> y.unref]
      BY <3>2
    <3> QED BY <3>1, <3>3
  <2> QED BY <1>2, <2>1, <2>2, <2>4 DEF m
<1>8. RootView' = [RootView EXCEPT ![i] = H!Closed] /\ RootView[i].open
  <2>1. /\ root' \in [Root -> [open : BOOLEAN, ref : Address]]
        /\ ~root'[i].open /\ root'[i].ref = NULL /\ \A j \in Root \ {i} : root'[j] = root[j]
    BY <1>1, <1>2 DEF TypeOK, Closed
  <2>2. ViewOf(root') = [RootView EXCEPT ![i] = [open |-> root'[i].open, value |-> FALSE,
                           ref |-> IF root'[i].ref = NULL THEN Nil ELSE ObjectAt(root'[i].ref)]]
    BY <1>1, <2>1, CellAlike
  <2>3. root'[i].open = FALSE
    BY <2>1
  <2>4. H!Closed = [open |-> FALSE, value |-> FALSE, ref |-> Nil]
    BY DEF H!Closed
  <2> QED BY <1>1, <2>1, <2>2, <2>3, <2>4, CellAlike, CellSeen
<1>9. HeapView' = H!CollectIfNeeded(Counted(HeapView, Unrefs(i)), RootView')
  <2> DEFINE v == View(N, count, threshold, unref')
  <2>1. v.count = count /\ v.threshold = threshold /\ v.unref = unref'
    BY DEF View
  <2>2. CASE count >= threshold \/ unref' >= UnrefThreshold
    <3>1. StartGc(root', Nil)
      BY <2>2 DEF DropRoot
    <3>2. HeapView' = H!Collected(v, RootView')
      BY <1>1, <1>2, <3>1, StartImplements DEF TypeOK
    <3>3. H!ShouldCollect(v)
      BY <2>1, <2>2 DEF H!ShouldCollect
    <3> QED BY <1>6, <1>7, <3>2, <3>3 DEF H!CollectIfNeeded
  <2>3. CASE ~(count >= threshold \/ unref' >= UnrefThreshold)
    <3>1. phase' = "idle"
      BY <2>3, <1>1 DEF DropRoot
    <3>2. HeapView' = View(Live(tree), count, threshold, unref)'
      BY <1>1, <3>1, ViewRestingNext
    <3>3. HeapView' = v
      BY <3>2, <1>3 DEF View, Live
    <3>4. ~H!ShouldCollect(v)
      BY <2>1, <2>3 DEF H!ShouldCollect
    <3> QED BY <1>6, <1>7, <3>3, <3>4 DEF H!CollectIfNeeded
  <2> QED BY <2>2, <2>3
<1>10. H!DropRoot(i, n)
  BY <1>3, <1>4, <1>8, <1>9 DEF H!DropRoot, Counted
<1> QED BY <1>10 DEF H!Next

\* Writing a field of x changes what x leads to by the address written, or erased.
LEMMA FieldWritten ==
  ASSUME TypeOK, NEW x \in Holder, NEW f \in 1..Fields, NEW a \in Address,
         mem' = [mem EXCEPT ![x][f] = a], NULL \in {mem[x][f], a}
  PROVE  /\ \A y \in Holder \ {x} : mem'[y] = mem[y]
         /\ \A o \in Block : a = Data(o) => ObjectsAt(ToSet(mem'[x])) = ObjectsAt(ToSet(mem[x])) \cup {o}
         /\ a = NULL => \/ ObjectsAt(ToSet(mem'[x])) = ObjectsAt(ToSet(mem[x]))
                        \/ \E y \in ObjectsAt(ToSet(mem[x])) :
                             ObjectsAt(ToSet(mem'[x])) = ObjectsAt(ToSet(mem[x])) \ {y}
<1> DEFINE R == ObjectsAt(ToSet(mem[x]))
           S == ObjectsAt(ToSet(mem'[x]))
<1>1. \A y \in Holder \ {x} : mem'[y] = mem[y]
  BY DEF TypeOK
<1>2. mem'[x][f] = a /\ (\A g \in (1..Fields) \ {f} : mem'[x][g] = mem[x][g]) /\ mem[x][f] \in Address
  BY DEF TypeOK
<1>3. DOMAIN mem[x] = 1..Fields /\ DOMAIN mem'[x] = 1..Fields
  BY DEF TypeOK
<1>4. \A o \in Block : Data(o) # NULL /\ \A p \in Block : Data(o) = Data(p) => o = p
  BY DataInside
<1>5. R \in SUBSET Block /\ S \in SUBSET Block
  BY DEF ObjectsAt
<1>6. ASSUME NEW o \in Block
      PROVE  /\ o \in R <=> \E g \in 1..Fields : mem[x][g] = Data(o)
             /\ o \in S <=> \E g \in 1..Fields : mem'[x][g] = Data(o)
  BY <1>3 DEF ObjectsAt, ToSet
<1> HIDE DEF R, S
<1>7. ASSUME NEW o \in Block, a = Data(o) PROVE S = R \cup {o}
  <2>1. mem[x][f] = NULL
    BY <1>4, <1>7
  <2>2. \A p \in Block : p \in S <=> p \in R \/ p = o
    BY <2>1, <1>2, <1>4, <1>6, <1>7
  <2> QED BY <2>2, <1>5
<1>8. ASSUME a = NULL PROVE S = R \/ \E y \in R : S = R \ {y}
  <2>1. S \subseteq R
    BY <1>2, <1>4, <1>5, <1>6, <1>8
  <2>2. CASE mem[x][f] = NULL
    <3>1. \A p \in Block : p \in R => p \in S
      BY <2>2, <1>2, <1>4, <1>6
    <3> QED BY <3>1, <2>1, <1>5
  <2>3. CASE mem[x][f] # NULL
    <3>1. PICK y \in Block : mem[x][f] = Data(y)
      BY <2>3, <1>2 DEF Address
    <3>2. y \in R
      BY <3>1, <1>6
    <3>3. \A p \in Block : p \in R /\ p # y => p \in S
      BY <3>1, <1>2, <1>4, <1>6
    <3> QED BY <3>2, <3>3, <2>1, <1>5
  <2> QED BY <2>2, <2>3
<1> QED BY <1>1, <1>7, <1>8 DEF R, S

\* Writing to an object, or to a global variable, what the program can name.
LEMMA SetFieldImplements ==
  ASSUME IInv, IInv', NEW x \in Holder, NEW f \in 1..Fields, NEW a \in Address, SetField(x, f, a)
  PROVE  H!Next \/ UNCHANGED <<HeapView, RootView, scope, frames>>
<1> DEFINE N == Live(tree)
           w == View(N, count, threshold, unref)
           s == ObjectsAt(ToSet(mem'[x]))
           y == [w EXCEPT !.refs[x] = s]
<1>1. /\ TypeOK /\ TypeOK' /\ phase = "idle" /\ Steady /\ Resting /\ N \in SUBSET Block
      /\ count \in Nat /\ threshold \in Nat /\ unref \in Nat
  BY DEF IInv, Steady, TypeOK, SetField
<1>2. /\ x \in Accessible \cup {Globals} /\ (a # NULL => ObjectAt(a) \in Accessible /\ Links < MaxLinks)
      /\ mem' = [mem EXCEPT ![x][f] = a] /\ NULL \in {mem[x][f], a}
      /\ UNCHANGED <<tree, root, scopeVars, statusVars, gcVars>>
  BY DEF SetField
<1>3. /\ tree' = tree /\ root' = root /\ count' = count /\ threshold' = threshold
      /\ unref' = unref /\ phase' = phase /\ scope' = scope /\ frames' = frames
  BY <1>2 DEF scopeVars, statusVars, gcVars
<1>4. x \in N \cup {Globals} /\ (x \in Block => x \in N) /\ Accessible \subseteq N
  <2>1. Accessible \subseteq N /\ Globals \notin Block
    BY <1>1, AccessibleCovers, DataInside DEF Resting
  <2> QED BY <2>1, <1>2
<1>5. /\ HeapView = w /\ HeapView.refs[x] = ObjectsAt(ToSet(mem[x]))
      /\ \A o \in N : HeapView.kind[o] = "Scope"
  BY <1>1, <1>4, ViewFields
<1>6. RootView' = RootView
  BY <1>3 DEF RootView
<1>7. H!Accessible = Accessible
  BY <1>1, AccessibleAlike
<1>8. HeapView' = y
  <2>1. HeapView' = View(N, count, threshold, unref)'
    BY <1>1, <1>3, ViewRestingNext
  <2>2. View(N, count, threshold, unref)' = [objects |-> N, kind |-> w.kind,
           refs |-> [z \in Holder |-> IF z \in N \cup {Globals} THEN ObjectsAt(ToSet(mem'[z])) ELSE {}],
           ids |-> w.ids, count |-> count, threshold |-> threshold, unref |-> unref]
    BY <1>3 DEF View, Live
  <2>3. [z \in Holder |-> IF z \in N \cup {Globals} THEN ObjectsAt(ToSet(mem'[z])) ELSE {}]
          = [w.refs EXCEPT ![x] = s]
    <3>1. w.refs = [z \in Holder |-> IF z \in N \cup {Globals} THEN ObjectsAt(ToSet(mem[z])) ELSE {}]
      BY DEF View
    <3>2. \A z \in Holder \ {x} : mem'[z] = mem[z]
      BY <1>1, <1>2, FieldWritten
    <3> QED BY <3>1, <3>2, <1>4
  <2>4. w.objects = N /\ w.count = count /\ w.threshold = threshold /\ w.unref = unref
    BY DEF View
  <2>5. w \in [objects : {N}, kind : [Block -> {"Scope", Unused}], refs : [Holder -> SUBSET Block],
               ids : [Holder -> {{}}], count : Nat, threshold : Nat, unref : Nat]
    BY <1>1, ViewTyped
  <2> HIDE DEF w, s
  <2>6. y = [objects |-> w.objects, kind |-> w.kind, refs |-> [w.refs EXCEPT ![x] = s], ids |-> w.ids,
             count |-> w.count, threshold |-> w.threshold, unref |-> w.unref]
    <3>1. /\ y.objects = w.objects /\ y.kind = w.kind /\ y.refs = [w.refs EXCEPT ![x] = s] /\ y.ids = w.ids
          /\ y.count = w.count /\ y.threshold = w.threshold /\ y.unref = w.unref
      BY <2>5
    <3>2. y \in [objects : {y.objects}, kind : {y.kind}, refs : {y.refs}, ids : {y.ids},
                 count : {y.count}, threshold : {y.threshold}, unref : {y.unref}]
      BY <2>5
    <3> HIDE DEF y
    <3>3. y = [objects |-> y.objects, kind |-> y.kind, refs |-> y.refs, ids |-> y.ids,
               count |-> y.count, threshold |-> y.threshold, unref |-> y.unref]
      BY <3>2
    <3> QED BY <3>1, <3>3
  <2> HIDE DEF y
  <2> QED BY <2>1, <2>2, <2>3, <2>4, <2>6
<1>9. H!Holder = Holder
  BY DEF H!Holder, Holder
<1>10. CASE a # NULL
  <2>1. PICK o \in Block : a = Data(o)
    BY <1>10 DEF Address
  <2>2. o \in Accessible
    BY <2>1, <1>2, <1>10, DataInside
  <2>3. s = HeapView.refs[x] \cup {o}
    BY <1>1, <1>2, <1>5, <2>1, FieldWritten
  <2>4. HeapView' = [HeapView EXCEPT !.refs[x] = @ \cup {o}]
    <3> HIDE DEF w, s
    <3> QED BY <1>5, <1>8, <2>3
  <2>5. H!Links < MaxLinks
    BY <1>1, <1>2, <1>10, LinksAlike, MarkSweepAssumption
  <2>6. x \in Block => HeapView.kind[x] # "String"
    BY <1>4, <1>5
  <2>7. H!Link(x, o)
    BY <1>2, <1>3, <1>6, <1>7, <2>2, <2>4, <2>5, <2>6 DEF H!Link
  <2> QED BY <2>7, <1>9 DEF H!Next
<1>11. CASE a = NULL
  <2>1. s = HeapView.refs[x] \/ \E o \in HeapView.refs[x] : s = HeapView.refs[x] \ {o}
    BY ZenonT(60), <1>1, <1>2, <1>5, <1>11, FieldWritten
  <2>2. CASE s = HeapView.refs[x]
    <3>1. HeapView' = [HeapView EXCEPT !.refs[x] = HeapView.refs[x]]
      <4> HIDE DEF w, s
      <4> QED BY <1>5, <1>8, <2>2
    <3>2. [HeapView EXCEPT !.refs[x] = HeapView.refs[x]] = HeapView
      <4>1. w \in [objects : {N}, kind : [Block -> {"Scope", Unused}], refs : [Holder -> SUBSET Block],
                   ids : [Holder -> {{}}], count : Nat, threshold : Nat, unref : Nat]
        BY <1>1, ViewTyped
      <4> HIDE DEF w
      <4>2. [w EXCEPT !.refs[x] = w.refs[x]] = w
        BY <4>1
      <4> QED BY <4>2, <1>5
    <3> QED BY <3>1, <3>2, <1>3, <1>6
  <2>3. ASSUME NEW o \in HeapView.refs[x], s = HeapView.refs[x] \ {o} PROVE H!Next
    <3>1. HeapView' = [HeapView EXCEPT !.refs[x] = @ \ {o}]
      <4> HIDE DEF w, s
      <4> QED BY <1>5, <1>8, <2>3
    <3>2. x \in Block => HeapView.kind[x] # "String"
      BY <1>4, <1>5
    <3>3. H!Unlink(x, o)
      BY <1>2, <1>3, <1>6, <1>7, <2>3, <3>1, <3>2 DEF H!Unlink
    <3>4. o \in Block
      BY <2>3, <1>5 DEF ObjectsAt
    <3> QED BY <3>3, <3>4, <1>9 DEF H!Next
  <2> QED BY <2>1, <2>2, <2>3
<1> QED BY <1>10, <1>11

\* The two start alike.
LEMMA InitImplements == Init => H!Init
<1> SUFFICES ASSUME Init PROVE H!Init
  OBVIOUS
<1>1. tree = EmptyTree /\ mem = [x \in Holder |-> NoFields] /\ root = [i \in Root |-> Closed]
      /\ scope = Globals /\ frames = <<Globals>> /\ count = 0 /\ threshold = ObjectThreshold /\ unref = 0
      /\ phase = "idle"
  BY DEF Init
<1>2. TypeOK /\ Live(tree) = {}
  <2>1. TypeOK
    BY InitInv DEF IInv, Steady
  <2>2. Live(tree) = {}
    BY <1>1 DEF EmptyTree, Live
  <2> QED BY <2>1, <2>2
<1>3. HeapView = View({}, 0, ObjectThreshold, 0)
  BY <1>1, <1>2, ViewResting
<1>4. ObjectsAt(ToSet(mem[Globals])) = {}
  <2>1. mem[Globals] = NoFields
    BY <1>1 DEF Holder
  <2>2. ToSet(NoFields) \subseteq {NULL}
    BY DEF ToSet, NoFields
  <2>3. \A p \in Block : Data(p) # NULL
    BY DataInside
  <2> QED BY <2>1, <2>2, <2>3 DEF ObjectsAt
<1>5. /\ [o \in Block |-> IF o \in {} THEN "Scope" ELSE Unused] = [o \in Block |-> Unused]
      /\ [x \in Holder |-> IF x \in {} \cup {Globals} THEN ObjectsAt(ToSet(mem[x])) ELSE {}] = [x \in Holder |-> {}]
  BY <1>4
<1>6. HeapView = [objects |-> {}, kind |-> [o \in Block |-> Unused], refs |-> [x \in Holder |-> {}],
                  ids |-> [x \in Holder |-> {}], count |-> 0, threshold |-> ObjectThreshold, unref |-> 0]
  BY <1>3, <1>5 DEF View
<1>7. RootView = [i \in Root |-> H!Closed]
  <2>1. \A i \in Root : root[i].open = FALSE /\ root[i].ref = NULL
    BY <1>1 DEF Closed
  <2> QED BY <2>1 DEF RootView, H!Closed
<1>8. H!Holder = Holder
  BY DEF H!Holder, Holder
<1> QED BY <1>1, <1>6, <1>7, <1>8 DEF H!Init

\* A step of the collector or of its clients is one of the specification, or none.
LEMMA StepImplements ==
  ASSUME IInv, IInv', Budget, [Next]_vars
  PROVE  [H!Next]_(H!vars)
<1> USE DEF H!vars
<1>1. CASE Collect
  <2>1. HeapView' = HeapView
    BY <1>1, CollectStutters
  <2>2. root' = root /\ scope' = scope /\ frames' = frames
    BY <1>1 DEF Collect, Mark, BeginSweep, Sweep, Finish, scopeVars
  <2> QED BY <2>1, <2>2 DEF RootView
<1>2. CASE Gc \/ \E i \in Root : CollectForAlloc(i)
  BY <1>2, AskImplements
<1>3. CASE EnterFrame \/ ExitFrame \/ \E s \in Holder : SetScope(s)
  BY <1>3, ScopeImplements
<1>4. ASSUME NEW i \in Root, OpenRoot(i) PROVE H!Next
  BY <1>4, OpenImplements
<1>5. ASSUME NEW i \in Root, DropRoot(i) PROVE H!Next
  BY <1>5, DropImplements
<1>6. ASSUME NEW i \in Root, NEW o \in Block, Store(i, o) PROVE H!Next
  BY <1>6, StoreImplements
<1>7. ASSUME NEW i \in Root, NEW o \in Block, Alloc(i, o) PROVE H!Next
  BY <1>7, AllocImplements
<1>8. ASSUME NEW x \in Holder, NEW f \in 1..Fields, NEW a \in Address, SetField(x, f, a)
      PROVE  H!Next \/ UNCHANGED <<HeapView, RootView, scope, frames>>
  BY <1>8, SetFieldImplements
<1>9. CASE UNCHANGED vars
  <2>1. /\ tree' = tree /\ mem' = mem /\ root' = root /\ scope' = scope /\ frames' = frames
        /\ count' = count /\ threshold' = threshold /\ unref' = unref /\ phase' = phase
        /\ marked' = marked /\ cursor' = cursor
    BY <1>9 DEF vars, scopeVars, statusVars, gcVars
  <2>2. TypeOK /\ TypeOK'
    BY DEF IInv, Steady
  <2>3. CASE phase \in {"idle", "alloc"}
    <3>1. HeapView = View(Live(tree), count, threshold, unref)
          /\ HeapView' = View(Live(tree), count, threshold, unref)'
      BY <2>1, <2>2, <2>3, ViewResting, ViewRestingNext
    <3> QED BY <3>1, <2>1 DEF View, Live, RootView
  <2>4. CASE phase = "mark"
    <3>1. Covers(Live(tree)) /\ Covers(Live(tree))'
      BY <2>1, <2>4 DEF IInv, Marking
    <3>2. Spans(Accessible, HandlesOf(root)) /\ Spans(Accessible', HandlesOf(root))
      BY <2>1, <2>2, <3>1, HandlesSpan, SpansStay DEF scopeVars
    <3>3. Accessible' = Accessible
      BY <3>2, SpansOnce
    <3>4. (Accessible \subseteq Live(tree))'
      BY <2>1, <3>2 DEF Spans, Live
    <3>5. HeapView = Remaining(Accessible) /\ HeapView' = Remaining(Accessible)'
      BY <2>1, <2>4, <3>2, <3>4, ViewMarking, ViewMarkingNext DEF Spans
    <3> QED BY <3>3, <3>5, <2>1 DEF Remaining, Rest, View, Live, RootView
  <2>5. CASE phase = "sweep"
    <3>1. HeapView = Remaining(Survivors) /\ HeapView' = Remaining(Survivors)'
      BY <2>1, <2>2, <2>5, ViewSweeping, ViewSweepingNext
    <3>2. Survivors' = Survivors
      BY <2>1 DEF Survivors, Live
    <3> QED BY <3>1, <3>2, <2>1 DEF Remaining, Rest, View, Live, RootView
  <2> QED BY <2>2, <2>3, <2>4, <2>5 DEF TypeOK
<1> QED BY <1>1, <1>2, <1>3, <1>4, <1>5, <1>6, <1>7, <1>8, <1>9 DEF Next, Mutate

\* The books balance: at no moment of a collection or between two does the count
\* of objects pass the threshold, and the allocation that has just collected
\* never finds that it should collect again (heap.c:615-625).
THEOREM BooksBalance == Spec => []Budget
<1>1. Init => Budget
  BY InitBudget
<1>2. IInv /\ Budget /\ [Next]_vars => Budget'
  BY StepKeepsBudget
<1> QED BY <1>1, <1>2, Invariance, PTL DEF Spec

\* The collector implements the heap its clients see: whatever the shape of the
\* index, the order in which objects are marked and the rotations of the sweep,
\* sm_heap_gc is to the rest of the interpreter one step that keeps exactly what
\* is reachable (heap.c:577-628).
THEOREM CollectorImplementsHeap == Spec => ImplementsHeap
<1>1. Init => H!Init
  BY InitImplements
<1>2. IInv /\ IInv' /\ Budget /\ [Next]_vars => [H!Next]_(H!vars)
  BY StepImplements
<1> QED BY <1>1, <1>2, Invariance, BooksBalance, PTL DEF Spec, ImplementsHeap, H!Spec
=============================================================================
