----------------------------- MODULE BinaryTree -----------------------------
(***************************************************************************)
(* Lemmas about binary trees given by functions on their nodes N: L, R and *)
(* P lead to the left child, the right child and the parent, or to NULL.   *)
(* The tree hangs from root, and sub gives the nodes of every subtree.     *)
(*                                                                         *)
(* Nothing here knows left from right: what is proved of a rotation to the *)
(* left is a fact about rotations to the right when L and R are exchanged. *)
(*                                                                         *)
(* First, a recursion whose every step goes to a smaller rank defines a    *)
(* function.  The library proves this for operators taken as parameters,   *)
(* which the provers cannot be given; here the step of the recursion is a  *)
(* function G, from the arguments and the functions on them to values.     *)
(***************************************************************************)
EXTENDS Links, SequencesExt, FiniteSetTheorems, WellFoundedInduction, TLAPS

-----------------------------------------------------------------------------
(* Recursion on ranks.                                                     *)

\* A set of natural numbers that is not empty has a least one.
LEMMA Least ==
  ASSUME NEW T \in SUBSET Nat, T # {}
  PROVE  \E n \in T : \A m \in T : n <= m
<1>1. PICK n \in T : \A m \in T : ~(<<m, n>> \in OpToRel(<, Nat))
  BY NatLessThanWellFounded, WFMin
<1>2. \A m \in T : ~(m < n)
  BY <1>1 DEF OpToRel
<1> QED BY <1>2

\* A set whose members have ranks, and that is not empty, has one of least rank.
LEMMA LeastRank ==
  ASSUME NEW D, NEW rank \in [D -> Nat], NEW T \in SUBSET D, T # {}
  PROVE  \E x \in T : \A y \in T : rank[x] <= rank[y]
<1> DEFINE R == {rank[x] : x \in T}
<1>1. R \in SUBSET Nat /\ R # {}
  OBVIOUS
<1>2. PICK n \in R : \A m \in R : n <= m
  BY <1>1, Least
<1>3. PICK x \in T : n = rank[x]
  BY <1>2
<1> QED BY <1>2, <1>3

\* G[x][f] is in S, and depends on f only where the rank is smaller than x's.
Recursive(D, rank, S, G) ==
  /\ S # {}
  /\ rank \in [D -> Nat]
  /\ G \in [D -> [[D -> S] -> S]]
  /\ \A x \in D : \A f, g \in [D -> S] :
       (\A y \in D : rank[y] < rank[x] => f[y] = g[y]) => G[x][f] = G[x][g]

\* Such a recursion defines a function.
LEMMA RecursionWorks ==
  ASSUME NEW D, NEW rank, NEW S, NEW G, Recursive(D, rank, S, G)
  PROVE  \E f \in [D -> S] : \A x \in D : f[x] = G[x][f]
<1> USE DEF Recursive
<1> DEFINE Obeys(f, n) == \A y \in D : rank[y] <= n => f[y] = G[y][f]
           Fit(n) == {f \in [D -> S] : Obeys(f, n)}
<1>r. \A y \in D : rank[y] \in Nat
  OBVIOUS
<1>0. ASSUME NEW n \in Nat, NEW f \in Fit(n), NEW g \in Fit(n)
      PROVE  \A y \in D : rank[y] <= n => f[y] = g[y]
  <2> DEFINE T == {y \in D : rank[y] <= n /\ f[y] # g[y]}
  <2> SUFFICES ASSUME T # {} PROVE FALSE
    OBVIOUS
  <2>1. PICK y \in T : \A z \in T : rank[y] <= rank[z]
    <3>1. T \in SUBSET D
      OBVIOUS
    <3> HIDE DEF T
    <3> QED BY <3>1, LeastRank
  <2>2. ASSUME NEW z \in D, rank[z] < rank[y] PROVE f[z] = g[z]
    <3>1. rank[z] <= n /\ ~(rank[y] <= rank[z])
      BY <1>r, <2>1, <2>2
    <3> QED BY <3>1, <2>1
  <2>3. G[y][f] = G[y][g]
    BY <2>2 
  <2> QED BY <2>1, <2>3
<1>1. \A n \in Nat : Fit(n) # {}
  <2> DEFINE T == {n \in Nat : Fit(n) = {}}
  <2> SUFFICES ASSUME T # {} PROVE FALSE
    BY ZenonT(60)
  <2>1. PICK n \in T : \A m \in T : n <= m
    <3>1. T \in SUBSET Nat
      OBVIOUS
    <3> HIDE DEF T
    <3> QED BY <3>1, Least
  <2>2. n \in Nat /\ Fit(n) = {} /\ \A m \in Nat : m \notin T => Fit(m) # {}
    OBVIOUS
  <2> HIDE DEF T, Fit
  <2>3. PICK h \in [D -> S] : \A y \in D : rank[y] < n => h[y] = G[y][h]
    <3>1. CASE n = 0
      <4>1. [x \in D |-> CHOOSE s \in S : TRUE] \in [D -> S]
        OBVIOUS
      <4>2. \A y \in D : ~(rank[y] < n)
        BY <3>1, <1>r
      <4> QED BY <4>1, <4>2
    <3>2. CASE n > 0
      <4>1. n - 1 \in Nat /\ n - 1 \notin T
        BY <2>1, <2>2, <3>2
      <4>2. PICK h \in Fit(n - 1) : TRUE
        BY <4>1, <2>2
      <4>3. \A y \in D : rank[y] < n => rank[y] <= n - 1
        BY <2>2, <1>r
      <4> QED BY <4>2, <4>3 DEF Fit
    <3> QED BY <2>2, <3>1, <3>2
  <2> DEFINE f == [y \in D |-> IF rank[y] = n THEN G[y][h] ELSE h[y]]
  <2>4. f \in [D -> S]
    OBVIOUS
  <2>5. \A y \in D : (rank[y] < n => f[y] = h[y]) /\ (rank[y] = n => f[y] = G[y][h])
    BY <2>2
  <2> HIDE DEF f
  <2>6. ASSUME NEW y \in D, rank[y] <= n PROVE f[y] = G[y][h]
    <3>1. CASE rank[y] = n
      BY <3>1, <2>5
    <3>2. CASE rank[y] < n
      BY <3>2, <2>3, <2>5
    <3>3. rank[y] = n \/ rank[y] < n
      <4>1. \A a, b \in Nat : a <= b => a = b \/ a < b
        OBVIOUS
      <4> QED BY <4>1, <2>6, <2>2, <1>r, ZenonT(60)
    <3> QED BY <3>1, <3>2, <3>3
  <2>7. ASSUME NEW y \in D, rank[y] <= n PROVE f[y] = G[y][f]
    <3>1. \A z \in D : rank[z] < rank[y] => f[z] = h[z]
      BY <2>7, <2>5, <2>2, <1>r
    <3>2. G[y][f] = G[y][h]
      BY <3>1, <2>4 
    <3> QED BY <3>2, <2>6, <2>7
  <2>8. f \in Fit(n)
    BY <2>7, <2>4 DEF Fit
  <2> QED BY <2>8, <2>2
<1> DEFINE h(n) == CHOOSE f \in Fit(n) : TRUE
           F == [x \in D |-> h(rank[x])[x]]
<1>2. \A n \in Nat : h(n) \in [D -> S] /\ Obeys(h(n), n)
  <2> TAKE n \in Nat
  <2>1. h(n) \in Fit(n)
    BY <1>1
  <2> QED BY <2>1
<1>3. F \in [D -> S]
  BY <1>2, SMTT(30)
<1>4. ASSUME NEW x \in D PROVE F[x] = G[x][F]
  <2> DEFINE n == rank[x]
  <2>1. n \in Nat
    OBVIOUS
  <2>2. ASSUME NEW y \in D, rank[y] < n PROVE F[y] = h(n)[y]
    <3> DEFINE m == rank[y]
    <3>1. m \in Nat /\ m <= n
      BY <2>2, <2>1
    <3>2. h(m) \in Fit(m) /\ h(n) \in Fit(m)
      <4> HIDE DEF h, F, m, n
      <4> QED BY <1>2, <2>1, <3>1, <1>r
    <3>3. F[y] = h(m)[y] /\ rank[y] <= m
      BY <3>1
    <3> HIDE DEF F, h, Fit, m
    <3> QED BY <1>0, <3>1, <3>2, <3>3
  <2>3. F[x] = h(n)[x] /\ h(n) \in [D -> S] /\ Obeys(h(n), n)
    BY <1>2, <2>1
  <2> HIDE DEF h, F
  <2>4. h(n)[x] = G[x][h(n)]
    BY <2>3, <2>1
  <2>5. G[x][h(n)] = G[x][F]
    BY <2>2, <2>3, <1>3 
  <2> QED BY <2>3, <2>4, <2>5
<1> QED BY <1>3, <1>4

\* Induction up to n.
LEMMA UpTo ==
  ASSUME NEW n \in Nat, NEW T \in SUBSET (0..n), 0 \in T, \A k \in T : k < n => k + 1 \in T
  PROVE  T = 0..n
<1> DEFINE U == {k \in 0..n : k \notin T}
<1> SUFFICES ASSUME U # {} PROVE FALSE
  OBVIOUS
<1>1. PICK k \in U : \A m \in U : k <= m
  <2>1. U \in SUBSET Nat
    OBVIOUS
  <2> HIDE DEF U
  <2> QED BY <2>1, Least
<1>2. k \in 0..n /\ k # 0
  OBVIOUS
<1>3. k - 1 \in 0..n /\ k - 1 \notin U /\ k - 1 < n /\ (k - 1) + 1 = k
  BY <1>1, <1>2
<1> QED BY <1>1, <1>3

\* From b, the k-th step of a count up to c takes a value to the next.
Steps(c, S, b, G) == c \in Nat /\ b \in S /\ G \in [1..c -> [S -> S]]
Counts(c, S, b, G, f) == /\ f \in [0..c -> S] /\ f[0] = b
                         /\ \A k \in 1..c : f[k - 1] \in S /\ f[k] = G[k][f[k - 1]]

\* A value computed from the one before, up to c times.
LEMMA CountRecursion ==
  ASSUME NEW c, NEW S, NEW b, NEW G, Steps(c, S, b, G)
  PROVE  \E f : Counts(c, S, b, G, f)
<1> USE DEF Steps
<1> DEFINE D == 0..c
           rank == [k \in D |-> k]
           Body(k, f) == IF k = 0 THEN b ELSE G[k][f[k - 1]]
           H == [k \in D |-> [f \in [D -> S] |-> Body(k, f)]]
<1>1. rank \in [D -> Nat] /\ S # {} /\ 0 \in D
  OBVIOUS
<1>2. ASSUME NEW k \in D, k # 0 PROVE k \in 1..c /\ k - 1 \in D /\ rank[k - 1] < rank[k]
  BY <1>2
<1>3. ASSUME NEW k \in D, NEW f \in [D -> S] PROVE Body(k, f) \in S
  BY <1>2
<1>4. H \in [D -> [[D -> S] -> S]]
  BY <1>3
<1>5. ASSUME NEW k \in D, NEW f \in [D -> S], NEW g \in [D -> S],
             \A j \in D : rank[j] < rank[k] => f[j] = g[j]
      PROVE  H[k][f] = H[k][g]
  BY <1>2, <1>5
<1>6. PICK f \in [D -> S] : \A k \in D : f[k] = H[k][f]
  <2> HIDE DEF D, rank, H
  <2>1. Recursive(D, rank, S, H)
    BY <1>1, <1>4, <1>5 DEF Recursive
  <2> QED BY <2>1, RecursionWorks
<1>7. ASSUME NEW k \in 1..c PROVE f[k - 1] \in S /\ f[k] = G[k][f[k - 1]]
  <2>1. k \in D /\ k # 0 /\ k - 1 \in D
    OBVIOUS
  <2> QED BY <1>6, <2>1
<1>8. f[0] = b
  BY <1>1, <1>6
<1> QED BY <1>6, <1>7, <1>8 DEF Counts

-----------------------------------------------------------------------------
(* Trees.                                                                  *)

Hung(N, L, R, P, root, sub) ==
  /\ NULL \notin N /\ root \in N \cup {NULL}
  /\ L \in [N -> N \cup {NULL}] /\ R \in [N -> N \cup {NULL}] /\ P \in [N -> N \cup {NULL}]
  /\ sub \in [N \cup {NULL} -> SUBSET N] /\ sub[NULL] = {} /\ sub[root] = N
  /\ \A n \in N : /\ sub[n] = {n} \cup sub[L[n]] \cup sub[R[n]]
                  /\ n \notin sub[L[n]] /\ n \notin sub[R[n]] /\ sub[L[n]] \cap sub[R[n]] = {}
  /\ \A c \in N : /\ P[c] = NULL <=> c = root
                  /\ \A p \in N : P[c] = p <=> c \in {L[p], R[p]}

\* Left and right may be exchanged.
LEMMA Mirror ==
  ASSUME NEW N, NEW L, NEW R, NEW P, NEW root, NEW sub, Hung(N, L, R, P, root, sub)
  PROVE  Hung(N, R, L, P, root, sub)
BY DEF Hung

\* What surrounds a node.
LEMMA Around ==
  ASSUME NEW N, NEW L, NEW R, NEW P, NEW root, NEW sub, Hung(N, L, R, P, root, sub), NEW n \in N
  PROVE  /\ L[n] \in N \cup {NULL} /\ R[n] \in N \cup {NULL} /\ P[n] \in N \cup {NULL} /\ n # NULL
         /\ n \in sub[n] /\ sub[n] \subseteq N /\ NULL \notin sub[n] /\ sub[NULL] = {}
         /\ sub[n] = {n} \cup sub[L[n]] \cup sub[R[n]]
         /\ n \notin sub[L[n]] /\ n \notin sub[R[n]] /\ sub[L[n]] \cap sub[R[n]] = {}
         /\ L[n] # n /\ R[n] # n /\ (L[n] # R[n] \/ L[n] = NULL)
         /\ L[n] # NULL => L[n] \in sub[L[n]] /\ L[n] \in sub[n] /\ P[L[n]] = n
         /\ R[n] # NULL => R[n] \in sub[R[n]] /\ R[n] \in sub[n] /\ P[R[n]] = n
         /\ P[n] \notin sub[n] /\ (n = root <=> P[n] = NULL)
         /\ P[n] # NULL => n \in {L[P[n]], R[P[n]]}
         /\ \A m \in N : n \in {L[m], R[m]} <=> m = P[n]
<1>1. /\ L[n] \in N \cup {NULL} /\ R[n] \in N \cup {NULL} /\ P[n] \in N \cup {NULL} /\ n # NULL
      /\ n \in sub[n] /\ sub[n] \subseteq N /\ NULL \notin sub[n] /\ sub[NULL] = {}
      /\ sub[n] = {n} \cup sub[L[n]] \cup sub[R[n]]
      /\ n \notin sub[L[n]] /\ n \notin sub[R[n]] /\ sub[L[n]] \cap sub[R[n]] = {}
  BY DEF Hung
<1>2. \A m \in N : m \in sub[m]
  BY DEF Hung
<1>3. L[n] # n /\ R[n] # n /\ (L[n] # R[n] \/ L[n] = NULL)
  BY <1>1, <1>2
<1>4. /\ (n = root <=> P[n] = NULL)
      /\ P[n] # NULL => n \in {L[P[n]], R[P[n]]}
      /\ \A m \in N : n \in {L[m], R[m]} <=> m = P[n]
  BY <1>1 DEF Hung
<1>5. /\ L[n] # NULL => L[n] \in sub[L[n]] /\ L[n] \in sub[n] /\ P[L[n]] = n
      /\ R[n] # NULL => R[n] \in sub[R[n]] /\ R[n] \in sub[n] /\ P[R[n]] = n
  BY <1>1, <1>2 DEF Hung
<1>6. P[n] \notin sub[n]
  <2> SUFFICES ASSUME P[n] \in sub[n] PROVE FALSE
    OBVIOUS
  <2>1. P[n] \in N
    BY <1>1
  <2> QED BY <2>1, <1>4, <1>1 DEF Hung
<1> QED BY <1>1, <1>3, <1>4, <1>5, <1>6

\* How many nodes a subtree has.
Weight(sub) == [n \in DOMAIN sub |-> Cardinality(sub[n])]

\* A child's subtree has fewer nodes than its parent's.
LEMMA Weights ==
  ASSUME NEW N, NEW L, NEW R, NEW P, NEW root, NEW sub, Hung(N, L, R, P, root, sub), IsFiniteSet(N)
  PROVE  /\ Weight(sub) \in [N \cup {NULL} -> Nat]
         /\ Weight(sub)[NULL] = 0
         /\ \A n \in N : Weight(sub)[n] > 0
         /\ \A n \in N : Weight(sub)[n] <= Cardinality(N)
         /\ \A n \in N, m \in N \cup {NULL} :
              n \in sub[n] /\ n \notin sub[m] /\ sub[m] \subseteq sub[n] => Weight(sub)[m] < Weight(sub)[n]
         /\ \A n \in N : Weight(sub)[L[n]] < Weight(sub)[n] /\ Weight(sub)[R[n]] < Weight(sub)[n]
<1> DEFINE D == N \cup {NULL}
<1>1. \A n \in D : IsFiniteSet(sub[n]) /\ sub[n] \in SUBSET N
  BY FS_Subset DEF Hung
<1>2. DOMAIN sub = D
  BY DEF Hung
<1>3. \A n \in D : Weight(sub)[n] = Cardinality(sub[n]) /\ Cardinality(sub[n]) \in Nat
  BY <1>1, <1>2, FS_CardinalityType DEF Weight
<1>4. Weight(sub) \in [D -> Nat]
  BY <1>2, <1>3 DEF Weight
<1>5. Weight(sub)[NULL] = 0
  BY <1>3, FS_EmptySet DEF Hung
<1>6. ASSUME NEW n \in N, NEW m \in D, n \in sub[n], n \notin sub[m], sub[m] \subseteq sub[n]
      PROVE  Weight(sub)[m] < Weight(sub)[n]
  <2>1. sub[m] # sub[n] /\ sub[m] \in SUBSET sub[n] /\ IsFiniteSet(sub[n])
    BY <1>1, <1>6
  <2>2. Cardinality(sub[m]) <= Cardinality(sub[n]) /\ Cardinality(sub[m]) # Cardinality(sub[n])
    BY <2>1, FS_Subset
  <2> QED BY <2>2, <1>3
<1>7. ASSUME NEW n \in N
      PROVE  Weight(sub)[L[n]] < Weight(sub)[n] /\ Weight(sub)[R[n]] < Weight(sub)[n]
  <2>1. /\ n \in sub[n] /\ n \notin sub[L[n]] /\ n \notin sub[R[n]]
        /\ sub[L[n]] \subseteq sub[n] /\ sub[R[n]] \subseteq sub[n] /\ L[n] \in D /\ R[n] \in D
    BY Around
  <2> QED BY <2>1, <1>6
<1>8. \A n \in N : Weight(sub)[n] > 0
  <2> TAKE n \in N
  <2>1. L[n] \in D
    BY Around
  <2>2. Weight(sub)[L[n]] \in Nat /\ Weight(sub)[n] \in Nat
    BY <2>1, <1>3
  <2> QED BY <2>2, <1>7
<1>9. \A n \in N : Weight(sub)[n] <= Cardinality(N)
  BY <1>1, <1>3, FS_Subset
<1> QED BY <1>4, <1>5, <1>6, <1>7, <1>8, <1>9

\* Induction from the leaves: a set of nodes each of which has a child in it is empty.
LEMMA DownInduction ==
  ASSUME NEW N, NEW L, NEW R, NEW P, NEW root, NEW sub, Hung(N, L, R, P, root, sub), IsFiniteSet(N),
         NEW T \in SUBSET N, \A n \in T : L[n] \in T \/ R[n] \in T
  PROVE  T = {}
<1> SUFFICES ASSUME T # {} PROVE FALSE
  OBVIOUS
<1> DEFINE D == N \cup {NULL}
           rank == Weight(sub)
<1>1. rank \in [D -> Nat] /\ T \in SUBSET D
  BY Weights
<1>2. PICK n \in T : \A m \in T : rank[n] <= rank[m]
  <2> HIDE DEF D, rank
  <2> QED BY <1>1, LeastRank
<1>3. PICK m \in T : rank[m] < rank[n]
  BY Weights
<1>4. rank[m] \in Nat /\ rank[n] \in Nat
  BY <1>1
<1> QED BY <1>2, <1>3, <1>4

\* Induction from the root: a set of nodes each of which has its parent in it is empty.
LEMMA UpInduction ==
  ASSUME NEW N, NEW L, NEW R, NEW P, NEW root, NEW sub, Hung(N, L, R, P, root, sub), IsFiniteSet(N),
         NEW T \in SUBSET N, \A n \in T : P[n] \in T
  PROVE  T = {}
<1> SUFFICES ASSUME T # {} PROVE FALSE
  OBVIOUS
<1> DEFINE rank == [n \in N |-> Cardinality(N) - Weight(sub)[n]]
<1>1. \A n \in N : Weight(sub)[n] \in Nat /\ Weight(sub)[n] <= Cardinality(N)
  <2>1. Weight(sub) \in [N \cup {NULL} -> Nat]
    BY Weights
  <2>2. \A n \in N : Weight(sub)[n] <= Cardinality(N)
    BY Weights
  <2> QED BY <2>1, <2>2
<1>2. Cardinality(N) \in Nat
  BY FS_CardinalityType
<1>3. rank \in [N -> Nat]
  BY <1>1, <1>2
<1>4. PICK n \in T : \A m \in T : rank[n] <= rank[m]
  <2> HIDE DEF rank
  <2> QED BY <1>3, LeastRank
<1>5. P[n] \in T /\ n \in {L[P[n]], R[P[n]]}
  BY Around
<1>6. Weight(sub)[n] < Weight(sub)[P[n]]
  BY <1>5, Weights, ZenonT(60)
<1>7. rank[P[n]] < rank[n]
  BY <1>1, <1>2, <1>5, <1>6
<1>8. rank[P[n]] \in Nat /\ rank[n] \in Nat
  BY <1>3, <1>5
<1> QED BY <1>4, <1>5, <1>7, <1>8

\* The subtree of a node of n's subtree is part of it.
LEMMA Nested ==
  ASSUME NEW N, NEW L, NEW R, NEW P, NEW root, NEW sub, Hung(N, L, R, P, root, sub), IsFiniteSet(N),
         NEW n \in N, NEW m \in sub[n]
  PROVE  sub[m] \subseteq sub[n]
<1> DEFINE T == {x \in N : \E y \in sub[x] : ~(sub[y] \subseteq sub[x])}
<1>1. ASSUME NEW x \in T PROVE L[x] \in T \/ R[x] \in T
  <2>1. PICK y \in sub[x] : ~(sub[y] \subseteq sub[x])
    OBVIOUS
  <2>2. PICK c \in {L[x], R[x]} : y \in sub[c]
    BY <2>1, Around
  <2>3. c \in N /\ sub[c] \subseteq sub[x]
    BY <2>2, Around
  <2> QED BY <2>1, <2>2, <2>3
<1>2. T = {}
  <2>1. T \in SUBSET N
    OBVIOUS
  <2> HIDE DEF T
  <2> QED BY <1>1, <2>1, DownInduction
<1> QED BY <1>2

-----------------------------------------------------------------------------
(* A rotation: r, the right child of o, takes the place of o, which becomes *)
(* its left child and takes over its left subtree, at c.                    *)

TurnL(L, o, r)    == [n \in DOMAIN L |-> IF n = r THEN o ELSE IF L[n] = o THEN r ELSE L[n]]
TurnR(R, o, r, c) == [n \in DOMAIN R |-> IF n = o THEN c ELSE IF R[n] = o THEN r ELSE R[n]]
TurnP(P, o, r, c) == [n \in DOMAIN P |-> IF n = o THEN r ELSE IF n = r THEN P[o]
                                         ELSE IF n = c THEN o ELSE P[n]]
TurnRoot(root, o, r) == IF root = o THEN r ELSE root
TurnSub(sub, o, r, l, c) == [sub EXCEPT ![o] = {o} \cup sub[l] \cup sub[c], ![r] = sub[o]]

\* The nodes of a rotation, and what they hang from.
LEMMA TurnNodes ==
  ASSUME NEW N, NEW L, NEW R, NEW P, NEW root, NEW sub, Hung(N, L, R, P, root, sub), IsFiniteSet(N),
         NEW o \in N, NEW r \in N, NEW c \in N \cup {NULL}, R[o] = r, L[r] = c
  PROVE  /\ sub[o] = {o} \cup sub[L[o]] \cup sub[r] /\ o \notin sub[L[o]] /\ o \notin sub[r]
         /\ sub[L[o]] \cap sub[r] = {}
         /\ sub[r] = {r} \cup sub[c] \cup sub[R[r]] /\ r \notin sub[c] /\ r \notin sub[R[r]]
         /\ sub[c] \cap sub[R[r]] = {}
         /\ r # o /\ c # o /\ c # r /\ P[o] # o /\ P[o] # r /\ (P[o] # c \/ P[o] = NULL)
         /\ P[r] = o /\ (c # NULL => P[c] = r) /\ r # root /\ (c # NULL => c # root)
         /\ L[o] \notin {o, r} /\ R[r] \notin {o, r} /\ (L[o] # c \/ c = NULL) /\ (R[r] # c \/ c = NULL)
         /\ \A n \in N : L[n] = o \/ R[n] = o => n = P[o] /\ n \notin sub[o]
         /\ \A n \in N : L[n] = r \/ R[n] = r <=> n = o
         /\ \A n \in N : c # NULL => (L[n] = c \/ R[n] = c <=> n = r)
<1> USE Around
<1>1. /\ sub[o] = {o} \cup sub[L[o]] \cup sub[r] /\ o \notin sub[L[o]] /\ o \notin sub[r]
      /\ sub[L[o]] \cap sub[r] = {} /\ P[o] \notin sub[o]
  BY SMTT(60)
<1>2. /\ sub[r] = {r} \cup sub[c] \cup sub[R[r]] /\ r \notin sub[c] /\ r \notin sub[R[r]]
      /\ sub[c] \cap sub[R[r]] = {}
      /\ r \in sub[r] /\ (c # NULL => c \in sub[c] /\ c \in N) /\ o \in sub[o]
  OBVIOUS
<1>3. P[r] = o /\ (c # NULL => P[c] = r)
  OBVIOUS
<1>4. /\ r # o /\ c # o /\ c # r /\ P[o] # o /\ P[o] # r /\ (P[o] # c \/ P[o] = NULL)
      /\ r # root /\ (c # NULL => c # root)
  BY <1>1, <1>2, <1>3
<1>5. L[o] # NULL => L[o] \in sub[L[o]]
  OBVIOUS
<1>6. R[r] # NULL => R[r] \in sub[R[r]]
  OBVIOUS
<1>7. L[o] \notin {o, r} /\ R[r] \notin {o, r} /\ (L[o] # c \/ c = NULL) /\ (R[r] # c \/ c = NULL)
  BY <1>1, <1>2, <1>5, <1>6
<1>8. \A n \in N : L[n] = o \/ R[n] = o => n = P[o] /\ n \notin sub[o]
  BY <1>1
<1>9. \A n \in N : L[n] = r \/ R[n] = r <=> n = o
  BY <1>3
<1>10. \A n \in N : c # NULL => (L[n] = c \/ R[n] = c <=> n = r)
  BY <1>2, <1>3
<1> QED BY <1>1, <1>2, <1>3, <1>4, <1>7, <1>8, <1>9, <1>10

\* After a rotation the same nodes hang from the root.
LEMMA Turn ==
  ASSUME NEW N, NEW L, NEW R, NEW P, NEW root, NEW sub, Hung(N, L, R, P, root, sub), IsFiniteSet(N),
         NEW o \in N, NEW r \in N, NEW c \in N \cup {NULL}, R[o] = r, L[r] = c
  PROVE  /\ Hung(N, TurnL(L, o, r), TurnR(R, o, r, c), TurnP(P, o, r, c), TurnRoot(root, o, r),
                 TurnSub(sub, o, r, L[o], c))
         /\ \A n \in (N \cup {NULL}) \ {o, r} : TurnSub(sub, o, r, L[o], c)[n] = sub[n]
         /\ TurnSub(sub, o, r, L[o], c)[o] = {o} \cup sub[L[o]] \cup sub[c]
         /\ TurnSub(sub, o, r, L[o], c)[r] = sub[o]
<1> DEFINE L2 == TurnL(L, o, r)
           R2 == TurnR(R, o, r, c)
           P2 == TurnP(P, o, r, c)
           root2 == TurnRoot(root, o, r)
           new == TurnSub(sub, o, r, L[o], c)
           l == L[o]
           q == R[r]
<1>1. /\ L \in [N -> N \cup {NULL}] /\ R \in [N -> N \cup {NULL}] /\ P \in [N -> N \cup {NULL}]
      /\ sub \in [N \cup {NULL} -> SUBSET N] /\ NULL \notin N /\ root \in N \cup {NULL}
      /\ sub[NULL] = {} /\ sub[root] = N /\ l \in N \cup {NULL} /\ q \in N \cup {NULL}
  BY DEF Hung
<1>2. /\ sub[o] = {o} \cup sub[l] \cup sub[r] /\ o \notin sub[l] /\ o \notin sub[r]
      /\ sub[l] \cap sub[r] = {}
      /\ sub[r] = {r} \cup sub[c] \cup sub[q] /\ r \notin sub[c] /\ r \notin sub[q]
      /\ sub[c] \cap sub[q] = {}
  BY SMTT(30), TurnNodes
<1>3. /\ r # o /\ c # o /\ c # r /\ P[o] # o /\ P[o] # r /\ (P[o] # c \/ P[o] = NULL)
      /\ P[r] = o /\ (c # NULL => P[c] = r) /\ r # root /\ (c # NULL => c # root)
      /\ l \notin {o, r} /\ q \notin {o, r} /\ r # NULL /\ o # NULL
      /\ l = L[o] /\ q = R[r] /\ (l # c \/ c = NULL) /\ (q # c \/ c = NULL)
  BY TurnNodes, <1>1
<1>4. /\ \A n \in N : L[n] = o \/ R[n] = o => n = P[o]
      /\ \A n \in N : L[n] = r \/ R[n] = r <=> n = o
      /\ \A n \in N : c # NULL => (L[n] = c \/ R[n] = c <=> n = r)
  BY TurnNodes
<1>5. /\ L2 \in [N -> N \cup {NULL}] /\ R2 \in [N -> N \cup {NULL}] /\ P2 \in [N -> N \cup {NULL}]
      /\ root2 \in N \cup {NULL}
  BY <1>1 DEF TurnL, TurnR, TurnP, TurnRoot
<1>6. /\ L2[o] = l /\ L2[r] = o /\ \A n \in N \ {o, r} : L2[n] = IF L[n] = o THEN r ELSE L[n]
      /\ R2[o] = c /\ R2[r] = q /\ \A n \in N \ {o, r} : R2[n] = IF R[n] = o THEN r ELSE R[n]
      /\ P2[o] = r /\ P2[r] = P[o] /\ (c # NULL => P2[c] = o) /\ \A n \in N \ {o, r, c} : P2[n] = P[n]
      /\ root2 = IF root = o THEN r ELSE root
  BY <1>1, <1>3 DEF TurnL, TurnR, TurnP, TurnRoot
<1>7. /\ new \in [N \cup {NULL} -> SUBSET N]
      /\ new[o] = {o} \cup sub[l] \cup sub[c] /\ new[r] = sub[o]
      /\ \A n \in (N \cup {NULL}) \ {o, r} : new[n] = sub[n]
  BY <1>1, <1>3 DEF TurnSub
<1> HIDE DEF L2, R2, P2, root2, new, l, q
<1>8. new[NULL] = {} /\ new[root2] = N
  BY <1>1, <1>3, <1>6, <1>7
<1>9. ASSUME NEW n \in N
      PROVE  /\ new[n] = {n} \cup new[L2[n]] \cup new[R2[n]]
             /\ n \notin new[L2[n]] /\ n \notin new[R2[n]] /\ new[L2[n]] \cap new[R2[n]] = {}
  <2>1. CASE n = o
    <3>1. new[L2[n]] = sub[l] /\ new[R2[n]] = sub[c]
      BY <2>1, <1>1, <1>3, <1>6, <1>7
    <3> QED BY <2>1, <3>1, <1>2, <1>7
  <2>2. CASE n = r
    <3>1. new[L2[n]] = new[o] /\ new[R2[n]] = sub[q]
      BY <2>2, <1>1, <1>3, <1>6, <1>7
    <3>2. r \notin sub[l] /\ sub[l] \cap sub[q] = {} /\ o \notin sub[q]
      BY <1>2
    <3> QED BY <2>2, <3>1, <3>2, <1>2, <1>3, <1>7
  <2>3. CASE n \notin {o, r}
    <3>1. /\ sub[n] = {n} \cup sub[L[n]] \cup sub[R[n]]
          /\ n \notin sub[L[n]] /\ n \notin sub[R[n]] /\ sub[L[n]] \cap sub[R[n]] = {}
          /\ L[n] \in N \cup {NULL} /\ R[n] \in N \cup {NULL}
      BY DEF Hung
    <3>2. new[L2[n]] = sub[L[n]] /\ new[R2[n]] = sub[R[n]]
      BY <2>3, <3>1, <1>4, <1>6, <1>7
    <3> QED BY <2>3, <3>1, <3>2, <1>7
  <2> QED BY <2>1, <2>2, <2>3
<1>10. ASSUME NEW x \in N PROVE P2[x] = NULL <=> x = root2
  <2>1. P[x] = NULL <=> x = root
    BY DEF Hung
  <2>2. P[o] = NULL <=> o = root
    BY DEF Hung
  <2>3. x # NULL
    BY <1>1
  <2>4. CASE x = r
    BY <2>2, <2>4, <1>3, <1>6
  <2>5. CASE x # r
    BY <2>1, <2>3, <2>5, <1>3, <1>6
  <2> QED BY <2>4, <2>5
<1>11. ASSUME NEW x \in N, NEW n \in N PROVE P2[x] = n <=> x \in {L2[n], R2[n]}
  <2>1. P[x] = n <=> x \in {L[n], R[n]}
    BY DEF Hung
  <2>2. P[o] = n <=> o \in {L[n], R[n]}
    BY DEF Hung
  <2>3. x # NULL
    BY <1>1
  <2>4. CASE x = o
    <3>1. \A m \in N : L2[m] = o <=> m = r
      BY <1>3, <1>6
    <3>2. \A m \in N : R2[m] # o
      BY <1>3, <1>6
    <3> QED BY <2>4, <3>1, <3>2, <1>6
  <2>5. CASE x = r
    <3>1. \A m \in N : L2[m] = r <=> L[m] = o
      BY <1>3, <1>4, <1>6
    <3>2. \A m \in N : R2[m] = r <=> R[m] = o
      BY <1>3, <1>4, <1>6
    <3> QED BY <2>2, <2>5, <3>1, <3>2, <1>6
  <2>6. CASE x = c
    <3>1. \A m \in N : L2[m] # c
      BY <2>3, <2>6, <1>2, <1>3, <1>4, <1>6
    <3>2. \A m \in N : R2[m] = c <=> m = o
      BY <2>3, <2>6, <1>3, <1>4, <1>6
    <3> QED BY <2>3, <2>6, <3>1, <3>2, <1>6
  <2>7. CASE x \notin {o, r, c}
    <3>1. L2[n] = x <=> L[n] = x
      BY <2>7, <1>3, <1>4, <1>6
    <3>2. R2[n] = x <=> R[n] = x
      BY <2>7, <1>3, <1>4, <1>6
    <3> QED BY <2>1, <2>7, <3>1, <3>2, <1>6
  <2> QED BY <2>4, <2>5, <2>6, <2>7
<1>12. Hung(N, L2, R2, P2, root2, new)
  BY <1>1, <1>5, <1>7, <1>8, <1>9, <1>10, <1>11 DEF Hung
<1> QED BY <1>7, <1>12 DEF L2, R2, P2, root2, new, l, q

\* The nodes M are in order: those to the left of a node come before it.
Ordered(L, R, sub, M) ==
  \A n \in M, m \in M : /\ m \in sub[L[n]] => m < n
                        /\ m \in sub[R[n]] => n < m

\* A rotation keeps the order, in either direction.
LEMMA TurnOrdered ==
  ASSUME NEW N \in SUBSET Nat, NEW L, NEW R, NEW P, NEW root, NEW sub, Hung(N, L, R, P, root, sub),
         IsFiniteSet(N), NEW o \in N, NEW r \in N, NEW c \in N \cup {NULL}, R[o] = r, L[r] = c
  PROVE  LET L2  == TurnL(L, o, r)
             R2  == TurnR(R, o, r, c)
             new == TurnSub(sub, o, r, L[o], c)
         IN /\ Ordered(L, R, sub, N) => Ordered(L2, R2, new, N)
            /\ Ordered(R, L, sub, N) => Ordered(R2, L2, new, N)
<1> DEFINE L2  == TurnL(L, o, r)
           R2  == TurnR(R, o, r, c)
           new == TurnSub(sub, o, r, L[o], c)
<1>1. /\ \A n \in (N \cup {NULL}) \ {o, r} : new[n] = sub[n]
      /\ new[o] = {o} \cup sub[L[o]] \cup sub[c] /\ new[r] = sub[o]
  BY Turn, Z3T(30)
<1>2. /\ L \in [N -> N \cup {NULL}] /\ R \in [N -> N \cup {NULL}] /\ NULL \notin N
      /\ L[o] \in N \cup {NULL} /\ R[r] \in N \cup {NULL} /\ r \in sub[r] /\ sub[o] \subseteq N
  <2>1. L \in [N -> N \cup {NULL}] /\ R \in [N -> N \cup {NULL}] /\ NULL \notin N
    BY DEF Hung
  <2> QED BY <2>1, Around
<1>3. /\ sub[o] = {o} \cup sub[L[o]] \cup sub[r] /\ sub[r] = {r} \cup sub[c] \cup sub[R[r]]
      /\ r # o /\ c # o /\ c # r /\ L[o] \notin {o, r} /\ R[r] \notin {o, r}
  BY TurnNodes
<1>4. \A n \in N : L[n] = r \/ R[n] = r <=> n = o
  BY TurnNodes
<1>5. /\ L2[o] = L[o] /\ L2[r] = o /\ \A n \in N \ {o, r} : L2[n] = IF L[n] = o THEN r ELSE L[n]
      /\ R2[o] = c /\ R2[r] = R[r] /\ \A n \in N \ {o, r} : R2[n] = IF R[n] = o THEN r ELSE R[n]
  BY <1>2, <1>3 DEF TurnL, TurnR
<1> HIDE DEF L2, R2, new
<1>6. ASSUME NEW n \in N \ {o, r} PROVE new[L2[n]] = sub[L[n]] /\ new[R2[n]] = sub[R[n]]
  BY <1>1, <1>2, <1>4, <1>5, ZenonT(60)
<1>7. /\ new[L2[o]] = sub[L[o]] /\ new[R2[o]] = sub[c]
      /\ new[L2[r]] = {o} \cup sub[L[o]] \cup sub[c] /\ new[R2[r]] = sub[R[r]]
  BY <1>1, <1>2, <1>3, <1>5, ZenonT(60)
<1>8. ASSUME Ordered(L, R, sub, N), NEW n \in N, NEW m \in N
      PROVE  (m \in new[L2[n]] => m < n) /\ (m \in new[R2[n]] => n < m)
  <2>1. CASE n = o
    BY <2>1, <1>3, <1>7, <1>8 DEF Ordered
  <2>2. CASE n = r
    <3>1. o < r /\ (m \in sub[L[o]] => m < o) /\ (m \in sub[c] => m < r) /\ (m \in sub[R[r]] => r < m)
      BY <1>2, <1>8 DEF Ordered
    <3>2. m \in Nat /\ o \in Nat /\ r \in Nat
      OBVIOUS
    <3> QED BY <2>2, <3>1, <3>2, <1>7
  <2>3. CASE n \notin {o, r}
    BY <2>3, <1>6, <1>8 DEF Ordered
  <2> QED BY <2>1, <2>2, <2>3
<1>9. ASSUME Ordered(R, L, sub, N), NEW n \in N, NEW m \in N
      PROVE  (m \in new[R2[n]] => m < n) /\ (m \in new[L2[n]] => n < m)
  <2>1. CASE n = o
    BY <2>1, <1>3, <1>7, <1>9 DEF Ordered
  <2>2. CASE n = r
    <3>1. r < o /\ (m \in sub[L[o]] => o < m) /\ (m \in sub[c] => r < m) /\ (m \in sub[R[r]] => m < r)
      BY <1>2, <1>9 DEF Ordered
    <3>2. m \in Nat /\ o \in Nat /\ r \in Nat
      OBVIOUS
    <3> QED BY <2>2, <3>1, <3>2, <1>7
  <2>3. CASE n \notin {o, r}
    BY <2>3, <1>6, <1>9 DEF Ordered
  <2> QED BY <2>1, <2>2, <2>3
<1> QED BY <1>8, <1>9 DEF Ordered, L2, R2, new

-----------------------------------------------------------------------------
(* Bounds.  A bound b of subtrees is that of the child on the bound's side, *)
(* A, or that of the node itself, base, where there is none.                *)

Bound(A, b, base, n) == b[n] = IF A[n] = NULL THEN base[n] ELSE b[A[n]]

\* The bound on the side of o: r takes over that of o.
LEMMA TurnNearBound ==
  ASSUME NEW N, NEW L, NEW R, NEW P, NEW root, NEW sub, Hung(N, L, R, P, root, sub), IsFiniteSet(N),
         NEW o \in N, NEW r \in N, NEW c \in N \cup {NULL}, R[o] = r, L[r] = c,
         NEW b, NEW b2, NEW base, b2[r] = b[o], \A n \in N \ {r} : b2[n] = b[n], Bound(L, b, base, o)
  PROVE  \A n \in N : n \in {o, r} \/ Bound(L, b, base, n) => Bound(TurnL(L, o, r), b2, base, n)
<1>1. /\ L \in [N -> N \cup {NULL}] /\ NULL \notin N
      /\ r # o /\ c # o /\ c # r /\ L[o] \notin {o, r}
      /\ \A n \in N : L[n] = r \/ R[n] = r <=> n = o
  <2>1. L \in [N -> N \cup {NULL}] /\ NULL \notin N
    BY DEF Hung
  <2> QED BY <2>1, TurnNodes
<1> DEFINE L2 == TurnL(L, o, r)
<1>2. L2[o] = L[o] /\ L2[r] = o /\ \A n \in N \ {o, r} : L2[n] = IF L[n] = o THEN r ELSE L[n]
  BY <1>1 DEF TurnL
<1> HIDE DEF L2
<1>3. Bound(L2, b2, base, o)
  BY <1>1, <1>2 DEF Bound
<1>4. Bound(L2, b2, base, r)
  BY <1>1, <1>2 DEF Bound
<1>5. ASSUME NEW n \in N \ {o, r}, Bound(L, b, base, n) PROVE Bound(L2, b2, base, n)
  <2>1. L[n] \in N \cup {NULL} /\ L[n] # r
    BY <1>1
  <2>2. CASE L[n] = o
    BY <2>2, <1>1, <1>2, <1>5 DEF Bound
  <2>3. CASE L[n] # o
    BY <2>1, <2>3, <1>2, <1>5 DEF Bound
  <2> QED BY <2>2, <2>3
<1> QED BY <1>3, <1>4, <1>5 DEF L2

\* The bound on the side of r: o's becomes that of its new child.
LEMMA TurnFarBound ==
  ASSUME NEW N, NEW L, NEW R, NEW P, NEW root, NEW sub, Hung(N, L, R, P, root, sub), IsFiniteSet(N),
         NEW o \in N, NEW r \in N, NEW c \in N \cup {NULL}, R[o] = r, L[r] = c,
         NEW b, NEW b2, NEW base, b2[o] = (IF c = NULL THEN base[o] ELSE b[c]),
         \A n \in N \ {o} : b2[n] = b[n], Bound(R, b, base, o), Bound(R, b, base, r)
  PROVE  \A n \in N : n \in {o, r} \/ Bound(R, b, base, n) => Bound(TurnR(R, o, r, c), b2, base, n)
<1>1. /\ R \in [N -> N \cup {NULL}] /\ NULL \notin N
      /\ r # o /\ c # o /\ c # r /\ R[r] \notin {o, r}
      /\ \A n \in N : L[n] = r \/ R[n] = r <=> n = o
  <2>1. R \in [N -> N \cup {NULL}] /\ NULL \notin N
    BY DEF Hung
  <2> QED BY <2>1, TurnNodes
<1> DEFINE R2 == TurnR(R, o, r, c)
<1>2. R2[o] = c /\ R2[r] = R[r] /\ \A n \in N \ {o, r} : R2[n] = IF R[n] = o THEN r ELSE R[n]
  BY <1>1 DEF TurnR
<1> HIDE DEF R2
<1>3. Bound(R2, b2, base, o)
  BY <1>1, <1>2 DEF Bound
<1>4. Bound(R2, b2, base, r)
  <2>1. R[r] \in N \cup {NULL}
    BY <1>1
  <2> QED BY <2>1, <1>1, <1>2 DEF Bound
<1>5. ASSUME NEW n \in N \ {o, r}, Bound(R, b, base, n) PROVE Bound(R2, b2, base, n)
  <2>1. R[n] \in N \cup {NULL} /\ R[n] # r
    BY <1>1
  <2>2. CASE R[n] = o
    <3>1. b[o] = b[r] /\ b2[r] = b[r] /\ o # NULL /\ r # NULL
      BY <1>1 DEF Bound
    <3> QED BY <3>1, <2>2, <1>2, <1>5 DEF Bound
  <2>3. CASE R[n] # o
    BY <2>1, <2>3, <1>2, <1>5 DEF Bound
  <2> QED BY <2>2, <2>3
<1> QED BY <1>3, <1>4, <1>5 DEF R2

-----------------------------------------------------------------------------
(* Removal of a node with at most one child, x, which takes its place.     *)

CutLink(A, o, x)  == [n \in DOMAIN A \ {o} |-> IF A[n] = o THEN x ELSE A[n]]
CutP(P, o, x)     == [n \in DOMAIN P \ {o} |-> IF n = x THEN P[o] ELSE P[n]]
CutRoot(root, o, x) == IF root = o THEN x ELSE root
CutSub(sub, o)    == [n \in DOMAIN sub \ {o} |-> sub[n] \ {o}]

\* Cutting a node with at most one child and putting that child in its place
\* leaves a tree of the other nodes, in the same order.
LEMMA CutHung ==
  ASSUME NEW N, NEW L, NEW R, NEW P, NEW root, NEW sub, Hung(N, L, R, P, root, sub), IsFiniteSet(N),
         NEW o \in N, NEW x, (L[o] = NULL /\ R[o] = x) \/ (L[o] = x /\ R[o] = NULL)
  PROVE  /\ Hung(N \ {o}, CutLink(L, o, x), CutLink(R, o, x), CutP(P, o, x), CutRoot(root, o, x),
                 CutSub(sub, o))
         /\ Ordered(L, R, sub, N \ {o}) =>
              Ordered(CutLink(L, o, x), CutLink(R, o, x), CutSub(sub, o), N \ {o})
<1> DEFINE M == N \ {o}
           L2 == CutLink(L, o, x)
           R2 == CutLink(R, o, x)
           P2 == CutP(P, o, x)
           root2 == CutRoot(root, o, x)
           new == CutSub(sub, o)
<1>1. /\ L \in [N -> N \cup {NULL}] /\ R \in [N -> N \cup {NULL}] /\ P \in [N -> N \cup {NULL}]
      /\ sub \in [N \cup {NULL} -> SUBSET N] /\ NULL \notin N /\ root \in N \cup {NULL}
      /\ sub[NULL] = {} /\ sub[root] = N
  BY DEF Hung
<1>2. /\ x \in N \cup {NULL} /\ x # o /\ sub[o] = {o} \cup sub[x] /\ o \notin sub[x]
      /\ P[o] \notin sub[o] /\ P[o] # o /\ (x # NULL => P[x] = o /\ x # root) /\ o \in sub[o]
  <2>1. /\ L[o] \in N \cup {NULL} /\ R[o] \in N \cup {NULL} /\ o \in sub[o] /\ sub[NULL] = {}
        /\ sub[o] = {o} \cup sub[L[o]] \cup sub[R[o]] /\ o \notin sub[L[o]] /\ o \notin sub[R[o]]
        /\ L[o] # o /\ R[o] # o /\ P[o] \notin sub[o]
        /\ (L[o] # NULL => P[L[o]] = o) /\ (R[o] # NULL => P[R[o]] = o) /\ o # NULL
    BY Around
  <2>2. x # NULL => P[x] = o
    BY <2>1
  <2>3. x # NULL => x # root
    BY <2>2, <2>1, <1>1 DEF Hung
  <2> QED BY <2>1, <2>2, <2>3
<1>3. \A n \in N : (L[n] = o \/ R[n] = o <=> n = P[o]) /\ (x # NULL => (L[n] = x \/ R[n] = x <=> n = o))
  BY <1>1, <1>2 DEF Hung
<1>4. /\ L2 \in [M -> M \cup {NULL}] /\ R2 \in [M -> M \cup {NULL}] /\ root2 \in M \cup {NULL}
      /\ \A n \in M : /\ L2[n] = IF L[n] = o THEN x ELSE L[n]
                      /\ R2[n] = IF R[n] = o THEN x ELSE R[n]
                      /\ P2[n] = IF n = x THEN P[o] ELSE P[n]
      /\ root2 = IF root = o THEN x ELSE root
  BY <1>1, <1>2 DEF CutLink, CutP, CutRoot
<1>5. P2 \in [M -> M \cup {NULL}]
  <2>1. \A n \in M : P[n] = o => n = x
    BY <1>1, <1>2 DEF Hung
  <2> QED BY <2>1, <1>1, <1>2 DEF CutP
<1>6. new \in [M \cup {NULL} -> SUBSET M] /\ \A n \in M \cup {NULL} : new[n] = sub[n] \ {o}
  BY <1>1 DEF CutSub
<1> HIDE DEF L2, R2, P2, root2, new
<1>7. new[NULL] = {} /\ new[root2] = M
  <2>1. CASE root = o
    BY <2>1, <1>1, <1>2, <1>4, <1>6
  <2>2. CASE root # o
    BY <2>2, <1>1, <1>4, <1>6
  <2> QED BY <2>1, <2>2
<1>8. ASSUME NEW n \in M PROVE new[L2[n]] = sub[L[n]] \ {o} /\ new[R2[n]] = sub[R[n]] \ {o}
  <2>1. new[x] = sub[o] \ {o}
    BY <1>1, <1>2, <1>6
  <2>2. L[n] \in N \cup {NULL} /\ R[n] \in N \cup {NULL}
    BY <1>1
  <2> QED BY <2>1, <2>2, <1>4, <1>6
<1>9. ASSUME NEW n \in M
      PROVE  /\ new[n] = {n} \cup new[L2[n]] \cup new[R2[n]]
             /\ n \notin new[L2[n]] /\ n \notin new[R2[n]] /\ new[L2[n]] \cap new[R2[n]] = {}
  <2>1. /\ sub[n] = {n} \cup sub[L[n]] \cup sub[R[n]]
        /\ n \notin sub[L[n]] /\ n \notin sub[R[n]] /\ sub[L[n]] \cap sub[R[n]] = {}
    BY DEF Hung
  <2> QED BY <2>1, <1>6, <1>8
<1>10. ASSUME NEW y \in M PROVE P2[y] = NULL <=> y = root2
  <2>1. (P[y] = NULL <=> y = root) /\ (P[o] = NULL <=> o = root)
    BY DEF Hung
  <2> QED BY <2>1, <1>1, <1>2, <1>4
<1>11. ASSUME NEW y \in M, NEW n \in M PROVE P2[y] = n <=> y \in {L2[n], R2[n]}
  <2>1. P[y] = n <=> y \in {L[n], R[n]}
    BY DEF Hung
  <2>2. y # NULL /\ y # o /\ n # o
    BY <1>1
  <2>3. CASE y = x
    BY <2>2, <2>3, <1>3, <1>4
  <2>4. CASE y # x
    BY <2>1, <2>2, <2>4, <1>4
  <2> QED BY <2>3, <2>4
<1>12. Hung(M, L2, R2, P2, root2, new)
  BY <1>1, <1>4, <1>5, <1>6, <1>7, <1>9, <1>10, <1>11 DEF Hung
<1>13. Ordered(L, R, sub, M) => Ordered(L2, R2, new, M)
  BY <1>8 DEF Ordered
<1> QED BY <1>12, <1>13 DEF L2, R2, P2, root2, new

-----------------------------------------------------------------------------
(* Exchange of nodes: s exchanges names, and leaves the shape alone.       *)

Exchange(N, s) == /\ s \in [N \cup {NULL} -> N \cup {NULL}]
                  /\ s[NULL] = NULL /\ \A n \in N \cup {NULL} : s[s[n]] = n
Renamed(A, s)    == [n \in DOMAIN A |-> s[A[s[n]]]]
RenamedSub(N, sub, s) == [n \in DOMAIN sub |-> {m \in N : s[m] \in sub[s[n]]}]

\* Renaming the nodes of a tree leaves a tree.
LEMMA ExchangeHung ==
  ASSUME NEW N, NEW L, NEW R, NEW P, NEW root, NEW sub, Hung(N, L, R, P, root, sub),
         NEW s, Exchange(N, s)
  PROVE  Hung(N, Renamed(L, s), Renamed(R, s), Renamed(P, s), s[root], RenamedSub(N, sub, s))
<1> DEFINE L2 == Renamed(L, s)
           R2 == Renamed(R, s)
           P2 == Renamed(P, s)
           new == RenamedSub(N, sub, s)
<1>1. /\ L \in [N -> N \cup {NULL}] /\ R \in [N -> N \cup {NULL}] /\ P \in [N -> N \cup {NULL}]
      /\ sub \in [N \cup {NULL} -> SUBSET N] /\ NULL \notin N /\ root \in N \cup {NULL}
      /\ sub[NULL] = {} /\ sub[root] = N
  BY DEF Hung
<1>2. /\ \A n \in N : s[n] \in N
      /\ \A n \in N \cup {NULL} : s[n] \in N \cup {NULL} /\ s[s[n]] = n
      /\ s[NULL] = NULL
  BY <1>1 DEF Exchange
<1>3. /\ L2 \in [N -> N \cup {NULL}] /\ R2 \in [N -> N \cup {NULL}] /\ P2 \in [N -> N \cup {NULL}]
      /\ \A n \in N : L2[n] = s[L[s[n]]] /\ R2[n] = s[R[s[n]]] /\ P2[n] = s[P[s[n]]]
  BY <1>1, <1>2 DEF Renamed
<1>4. /\ new \in [N \cup {NULL} -> SUBSET N]
      /\ \A n \in N \cup {NULL} : new[n] = {m \in N : s[m] \in sub[s[n]]}
  BY <1>1 DEF RenamedSub
<1> HIDE DEF L2, R2, P2, new
<1>5. new[NULL] = {} /\ new[s[root]] = N
  <2>1. new[NULL] = {}
    BY <1>1, <1>2, <1>4
  <2>2. s[root] \in N \cup {NULL} /\ s[s[root]] = root
    BY <1>1, <1>2
  <2>3. new[s[root]] = {m \in N : s[m] \in N}
    BY <2>2, <1>1, <1>4
  <2> QED BY <2>1, <2>3, <1>2
<1>6. ASSUME NEW n \in N
      PROVE  /\ new[L2[n]] = {m \in N : s[m] \in sub[L[s[n]]]}
             /\ new[R2[n]] = {m \in N : s[m] \in sub[R[s[n]]]}
  <2>1. /\ L[s[n]] \in N \cup {NULL} /\ R[s[n]] \in N \cup {NULL} /\ L2[n] \in N \cup {NULL}
        /\ R2[n] \in N \cup {NULL} /\ s[L2[n]] = L[s[n]] /\ s[R2[n]] = R[s[n]]
    BY <1>1, <1>2, <1>3
  <2> QED BY <2>1, <1>4
<1>7. ASSUME NEW n \in N
      PROVE  /\ new[n] = {n} \cup new[L2[n]] \cup new[R2[n]]
             /\ n \notin new[L2[n]] /\ n \notin new[R2[n]] /\ new[L2[n]] \cap new[R2[n]] = {}
  <2> DEFINE k == s[n]
  <2>1. /\ k \in N
        /\ sub[k] = {k} \cup sub[L[k]] \cup sub[R[k]]
        /\ k \notin sub[L[k]] /\ k \notin sub[R[k]] /\ sub[L[k]] \cap sub[R[k]] = {}
    BY <1>2 DEF Hung
  <2>2. new[n] = {m \in N : s[m] \in sub[k]}
    BY <1>4
  <2>3. \A m \in N : s[m] = k <=> m = n
    BY <1>2
  <2> HIDE DEF k
  <2>4. ASSUME NEW m \in N
        PROVE  m \in new[n] <=> m = n \/ s[m] \in sub[L[k]] \/ s[m] \in sub[R[k]]
    BY <2>1, <2>2, <2>3
  <2>5. new[L2[n]] = {m \in N : s[m] \in sub[L[k]]} /\ new[R2[n]] = {m \in N : s[m] \in sub[R[k]]}
    BY <1>6 DEF k
  <2>6. new[n] \subseteq N
    BY <2>2
  <2>7. new[n] = {n} \cup new[L2[n]] \cup new[R2[n]]
    BY <2>4, <2>5, <2>6
  <2>8. s[n] = k
    BY DEF k
  <2> QED BY <2>1, <2>5, <2>7, <2>8
<1>8. ASSUME NEW x \in N PROVE P2[x] = NULL <=> x = s[root]
  <2>1. P[s[x]] = NULL <=> s[x] = root
    BY <1>2 DEF Hung
  <2>2. P[s[x]] \in N \cup {NULL}
    BY <1>1, <1>2
  <2>3. P2[x] = NULL <=> P[s[x]] = NULL
    BY <2>2, <1>2, <1>3
  <2>4. x = s[root] <=> s[x] = root
    BY <1>1, <1>2
  <2> QED BY <2>1, <2>3, <2>4
<1>9. ASSUME NEW x \in N, NEW n \in N PROVE P2[x] = n <=> x \in {L2[n], R2[n]}
  <2>1. P[s[x]] = s[n] <=> s[x] \in {L[s[n]], R[s[n]]}
    BY <1>2 DEF Hung
  <2>2. P[s[x]] \in N \cup {NULL} /\ L[s[n]] \in N \cup {NULL} /\ R[s[n]] \in N \cup {NULL}
    BY <1>1, <1>2
  <2>3. P2[x] = n <=> P[s[x]] = s[n]
    BY <2>2, <1>2, <1>3
  <2>4. (x = L2[n] <=> s[x] = L[s[n]]) /\ (x = R2[n] <=> s[x] = R[s[n]])
    BY <2>2, <1>2, <1>3
  <2> QED BY <2>1, <2>3, <2>4
<1>10. s[root] \in N \cup {NULL}
  BY <1>1, <1>2
<1>11. Hung(N, L2, R2, P2, s[root], new)
  BY <1>1, <1>3, <1>4, <1>5, <1>7, <1>8, <1>9, <1>10 DEF Hung
<1> QED BY <1>11 DEF L2, R2, P2, new

-----------------------------------------------------------------------------
(* A new leaf o, hung from p: the last node of the descent Q, which goes   *)
(* left at the nodes B and right at the others.                            *)

Descent(N, L, R, root, Q, B, p) ==
  /\ Q \in SUBSET N /\ root \in Q /\ p \in Q
  /\ \A n \in N : /\ L[n] \in Q <=> n \in Q /\ n \in B /\ n # p
                  /\ R[n] \in Q <=> n \in Q /\ n \notin B /\ n # p
  /\ IF p \in B THEN L[p] = NULL ELSE R[p] = NULL

GraftLink(A, o, p, here) ==
  [n \in DOMAIN A \cup {o} |-> IF n = o THEN NULL ELSE IF n = p /\ here THEN o ELSE A[n]]
GraftP(P, o, p) == [n \in DOMAIN P \cup {o} |-> IF n = o THEN p ELSE P[n]]
GraftSub(sub, Q, o) ==
  [n \in DOMAIN sub \cup {o} |-> IF n = o THEN {o} ELSE IF n \in Q THEN sub[n] \cup {o} ELSE sub[n]]

\* Hanging a new node where a descent ends gives a tree, and a search tree when
\* the descent went the way the order asks for.
LEMMA GraftHung ==
  ASSUME NEW N, NEW L, NEW R, NEW P, NEW root, NEW sub, Hung(N, L, R, P, root, sub),
         NEW o, o \notin N, o # NULL, NEW Q, NEW B, NEW p, Descent(N, L, R, root, Q, B, p)
  PROVE  LET L2  == GraftLink(L, o, p, p \in B)
             R2  == GraftLink(R, o, p, p \notin B)
             new == GraftSub(sub, Q, o)
         IN /\ Hung(N \cup {o}, L2, R2, GraftP(P, o, p), root, new)
            /\ /\ Ordered(L, R, sub, N)
               /\ \A n \in N : (n \in B => o < n) /\ (n \notin B => n < o)
               => Ordered(L2, R2, new, N \cup {o})
<1> DEFINE M  == N \cup {o}
           L2 == GraftLink(L, o, p, p \in B)
           R2 == GraftLink(R, o, p, p \notin B)
           P2 == GraftP(P, o, p)
           new == GraftSub(sub, Q, o)
<1>1. /\ L \in [N -> N \cup {NULL}] /\ R \in [N -> N \cup {NULL}] /\ P \in [N -> N \cup {NULL}]
      /\ sub \in [N \cup {NULL} -> SUBSET N] /\ NULL \notin N /\ root \in N \cup {NULL}
      /\ sub[NULL] = {} /\ sub[root] = N
  BY DEF Hung
<1>2. /\ Q \in SUBSET N /\ root \in Q /\ p \in Q /\ p \in N /\ NULL \notin Q /\ o \notin Q
      /\ \A n \in N : /\ L[n] \in Q <=> n \in Q /\ n \in B /\ n # p
                      /\ R[n] \in Q <=> n \in Q /\ n \notin B /\ n # p
      /\ (p \in B => L[p] = NULL) /\ (p \notin B => R[p] = NULL)
  BY <1>1 DEF Descent
<1>3. /\ L2 \in [M -> M \cup {NULL}] /\ R2 \in [M -> M \cup {NULL}] /\ P2 \in [M -> M \cup {NULL}]
      /\ L2[o] = NULL /\ \A n \in N : L2[n] = IF n = p /\ p \in B THEN o ELSE L[n]
      /\ R2[o] = NULL /\ \A n \in N : R2[n] = IF n = p /\ p \notin B THEN o ELSE R[n]
      /\ P2[o] = p /\ \A n \in N : P2[n] = P[n]
  BY <1>1, <1>2 DEF GraftLink, GraftP
<1>4. /\ new \in [M \cup {NULL} -> SUBSET M] /\ new[o] = {o}
      /\ \A n \in N \cup {NULL} : (n \in Q => new[n] = sub[n] \cup {o}) /\ (n \notin Q => new[n] = sub[n])
  BY <1>1 DEF GraftSub
<1> HIDE DEF L2, R2, P2, new
<1>5. new[NULL] = {} /\ new[root] = M
  BY <1>1, <1>2, <1>4
<1>6. ASSUME NEW n \in N
      PROVE  /\ n \in Q /\ n \in B    => new[L2[n]] = sub[L[n]] \cup {o}
             /\ n \notin Q \/ n \notin B => new[L2[n]] = sub[L[n]]
             /\ n \in Q /\ n \notin B => new[R2[n]] = sub[R[n]] \cup {o}
             /\ n \notin Q \/ n \in B    => new[R2[n]] = sub[R[n]]
  <2>1. L[n] \in N \cup {NULL} /\ R[n] \in N \cup {NULL}
    BY <1>1
  <2>2. CASE n = p /\ p \in B
    <3>1. L2[n] = o /\ R2[n] = R[n] /\ L[n] = NULL /\ R[n] \notin Q /\ n \in Q
      BY <2>2, <1>2, <1>3
    <3> QED BY <2>1, <2>2, <3>1, <1>1, <1>4
  <2>3. CASE n = p /\ p \notin B
    <3>1. R2[n] = o /\ L2[n] = L[n] /\ R[n] = NULL /\ L[n] \notin Q /\ n \in Q
      BY <2>3, <1>2, <1>3
    <3> QED BY <2>1, <2>3, <3>1, <1>1, <1>4
  <2>4. CASE n # p
    <3>1. L2[n] = L[n] /\ R2[n] = R[n]
      BY <2>4, <1>3
    <3>2. (L[n] \in Q <=> n \in Q /\ n \in B) /\ (R[n] \in Q <=> n \in Q /\ n \notin B)
      BY <2>4, <1>2
    <3> QED BY <2>1, <3>1, <3>2, <1>4
  <2> QED BY <2>2, <2>3, <2>4
<1>7. new[L2[o]] = {} /\ new[R2[o]] = {}
  BY <1>3, <1>5
<1>8. ASSUME NEW n \in M
      PROVE  /\ new[n] = {n} \cup new[L2[n]] \cup new[R2[n]]
             /\ n \notin new[L2[n]] /\ n \notin new[R2[n]] /\ new[L2[n]] \cap new[R2[n]] = {}
  <2>1. CASE n = o
    BY <2>1, <1>4, <1>7
  <2>2. CASE n \in N
    <3>1. /\ sub[n] = {n} \cup sub[L[n]] \cup sub[R[n]]
          /\ n \notin sub[L[n]] /\ n \notin sub[R[n]] /\ sub[L[n]] \cap sub[R[n]] = {}
          /\ o \notin sub[L[n]] /\ o \notin sub[R[n]] /\ n # o
      BY <2>2, <1>1 DEF Hung
    <3>2. CASE n \in Q /\ n \in B
      <4>1. new[n] = sub[n] \cup {o}
        BY <2>2, <3>2, <1>4
      <4>2. new[L2[n]] = sub[L[n]] \cup {o} /\ new[R2[n]] = sub[R[n]]
        BY <2>2, <3>2, <1>6
      <4> QED BY <4>1, <4>2, <3>1
    <3>3. CASE n \in Q /\ n \notin B
      <4>1. new[n] = sub[n] \cup {o}
        BY <2>2, <3>3, <1>4
      <4>2. new[R2[n]] = sub[R[n]] \cup {o} /\ new[L2[n]] = sub[L[n]]
        BY <2>2, <3>3, <1>6
      <4> QED BY <4>1, <4>2, <3>1
    <3>4. CASE n \notin Q
      <4>1. new[n] = sub[n]
        BY <2>2, <3>4, <1>4
      <4>2. new[R2[n]] = sub[R[n]] /\ new[L2[n]] = sub[L[n]]
        BY <2>2, <3>4, <1>6
      <4> QED BY <4>1, <4>2, <3>1
    <3> QED BY <3>2, <3>3, <3>4
  <2> QED BY <2>1, <2>2
<1>9. ASSUME NEW x \in M PROVE P2[x] = NULL <=> x = root
  BY <1>1, <1>2, <1>3 DEF Hung
<1>10. ASSUME NEW x \in M, NEW n \in M PROVE P2[x] = n <=> x \in {L2[n], R2[n]}
  <2>1. CASE x = o
    BY <2>1, <1>1, <1>2, <1>3
  <2>2. CASE x \in N /\ n = o
    BY <2>2, <1>1, <1>3
  <2>3. CASE x \in N /\ n \in N
    <3>1. P[x] = n <=> x \in {L[n], R[n]}
      BY <2>3 DEF Hung
    <3> QED BY <2>3, <3>1, <1>1, <1>2, <1>3
  <2> QED BY <2>1, <2>2, <2>3
<1>11. Hung(M, L2, R2, P2, root, new)
  BY <1>1, <1>3, <1>4, <1>5, <1>8, <1>9, <1>10 DEF Hung
<1>12. ASSUME Ordered(L, R, sub, N), \A n \in N : (n \in B => o < n) /\ (n \notin B => n < o),
              NEW n \in M, NEW m \in M
       PROVE  (m \in new[L2[n]] => m < n) /\ (m \in new[R2[n]] => n < m)
  <2>1. CASE n = o
    BY <2>1, <1>7
  <2>2. CASE n \in N /\ m = o
    <3>1. o \notin sub[L[n]] /\ o \notin sub[R[n]]
      BY <2>2, <1>1
    <3>2. (m \in new[L2[n]] => n \in B) /\ (m \in new[R2[n]] => n \notin B)
      BY <2>2, <3>1, <1>6
    <3> QED BY <2>2, <3>2, <1>12
  <2>3. CASE n \in N /\ m \in N /\ m # o
    <3>1. (m \in sub[L[n]] => m < n) /\ (m \in sub[R[n]] => n < m)
      BY <2>3, <1>12 DEF Ordered
    <3>2. (m \in new[L2[n]] => m \in sub[L[n]]) /\ (m \in new[R2[n]] => m \in sub[R[n]])
      BY <2>3, <1>6
    <3> QED BY <3>1, <3>2
  <2>4. n = o \/ n \in N
    OBVIOUS
  <2> QED BY <2>1, <2>2, <2>3, <2>4
<1> QED BY <1>11, <1>12 DEF Ordered, L2, R2, P2, new

-----------------------------------------------------------------------------
(* Recursion on trees: towards the leaves or towards the root.             *)

\* G[n][f] is in S, and depends on f only at the children of n.
ByChildren(N, L, R, D, S, G) ==
  /\ D \in SUBSET (N \cup {NULL}) /\ S # {} /\ G \in [D -> [[D -> S] -> S]]
  /\ \A n \in D : \A f, g \in [D -> S] :
       (n \in N => \A m \in D : m \in {L[n], R[n]} => f[m] = g[m]) => G[n][f] = G[n][g]

\* A recursion from every node to its children defines a function.
LEMMA DownRecursion ==
  ASSUME NEW N, NEW L, NEW R, NEW P, NEW root, NEW sub, Hung(N, L, R, P, root, sub), IsFiniteSet(N),
         NEW D, NEW S, NEW G, ByChildren(N, L, R, D, S, G)
  PROVE  \E f \in [D -> S] : \A n \in D : f[n] = G[n][f]
<1> DEFINE W == Weight(sub)
           rank == [n \in D |-> W[n]]
<1>1. W \in [N \cup {NULL} -> Nat] /\ \A n \in N : W[L[n]] < W[n] /\ W[R[n]] < W[n]
  BY Weights
<1> HIDE DEF W
<1>2. D \in SUBSET (N \cup {NULL}) /\ S # {} /\ G \in [D -> [[D -> S] -> S]]
  BY DEF ByChildren
<1>3. rank \in [D -> Nat] /\ \A n \in D : rank[n] = W[n]
  BY <1>1, <1>2
<1> HIDE DEF rank
<1>4. ASSUME NEW n \in D, NEW f \in [D -> S], NEW g \in [D -> S],
             \A m \in D : rank[m] < rank[n] => f[m] = g[m]
      PROVE  G[n][f] = G[n][g]
  <2>1. ASSUME n \in N, NEW m \in D, m \in {L[n], R[n]} PROVE f[m] = g[m]
    BY <2>1, <1>1, <1>3, <1>4
  <2> QED BY <2>1 DEF ByChildren
<1>5. Recursive(D, rank, S, G)
  BY <1>2, <1>3, <1>4 DEF Recursive
<1> QED BY <1>5, RecursionWorks

\* G[n][f] is in S, and depends on f only at the parent of n.
ByParent(N, P, D, S, G) ==
  /\ D = N \cup {NULL} /\ S # {} /\ G \in [D -> [[D -> S] -> S]]
  /\ \A n \in D : \A f, g \in [D -> S] : (n \in N => f[P[n]] = g[P[n]]) => G[n][f] = G[n][g]

\* A recursion from every node to its parent defines a function.
LEMMA UpRecursion ==
  ASSUME NEW N, NEW L, NEW R, NEW P, NEW root, NEW sub, Hung(N, L, R, P, root, sub), IsFiniteSet(N),
         NEW D, NEW S, NEW G, ByParent(N, P, D, S, G)
  PROVE  \E f \in [D -> S] : \A n \in D : f[n] = G[n][f]
<1> DEFINE W == Weight(sub)
           c == Cardinality(N)
           rank == [n \in D |-> IF n = NULL THEN 0 ELSE 1 + c - W[n]]
<1>0. D = N \cup {NULL}
  BY DEF ByParent
<1>1. /\ W \in [D -> Nat] /\ \A n \in N : W[n] <= c /\ W[L[n]] < W[n] /\ W[R[n]] < W[n]
      /\ c \in Nat
  BY <1>0, Weights, FS_CardinalityType
<1> HIDE DEF W, c
<1>2. S # {} /\ G \in [D -> [[D -> S] -> S]] /\ NULL \notin N
  BY DEF ByParent, Hung
<1>3. rank \in [D -> Nat] /\ rank[NULL] = 0 /\ \A n \in N : rank[n] = 1 + c - W[n]
  BY <1>0, <1>1, <1>2
<1> HIDE DEF rank
<1>4. ASSUME NEW n \in N PROVE P[n] \in D /\ rank[P[n]] < rank[n]
  <2>1. P[n] \in D /\ (P[n] # NULL => P[n] \in N /\ n \in {L[P[n]], R[P[n]]})
    BY <1>0, Around
  <2>2. CASE P[n] = NULL
    BY <2>1, <2>2, <1>0, <1>1, <1>3
  <2>3. CASE P[n] # NULL
    <3>1. P[n] \in N /\ W[n] < W[P[n]]
      BY <2>1, <2>3, <1>1
    <3> QED BY <3>1, <1>0, <1>1, <1>3
  <2> QED BY <2>2, <2>3
<1>5. ASSUME NEW n \in D, NEW f \in [D -> S], NEW g \in [D -> S],
             \A m \in D : rank[m] < rank[n] => f[m] = g[m]
      PROVE  G[n][f] = G[n][g]
  <2>1. n \in N => f[P[n]] = g[P[n]]
    BY <1>4, <1>5
  <2> QED BY <2>1, ZenonT(60) DEF ByParent
<1>6. Recursive(D, rank, S, G)
  BY <1>2, <1>3, <1>5 DEF Recursive
<1> QED BY <1>6, RecursionWorks

\* A sequence with a new head.
LEMMA Headed ==
  ASSUME NEW N, NEW n \in N, NEW s \in Seq(N)
  PROVE  /\ <<n>> \o s \in Seq(N) /\ <<n>> \o s # << >>
         /\ ToSet(<<n>> \o s) = {n} \cup ToSet(s) /\ ToSet(s) \subseteq N
         /\ s = << >> => Last(<<n>> \o s) = n /\ ToSet(s) = {}
         /\ s # << >> => Last(<<n>> \o s) = Last(s)
<1> DEFINE d == <<n>> \o s
<1>1. /\ d \in Seq(N) /\ Len(d) = 1 + Len(s) /\ d[1] = n /\ Len(s) \in Nat /\ DOMAIN d = 1..Len(d)
      /\ \A i \in 1..Len(s) : d[i + 1] = s[i]
      /\ DOMAIN s = 1..Len(s) /\ \A i \in 1..Len(s) : s[i] \in N
  OBVIOUS
<1> HIDE DEF d
<1>2. d # << >>
  BY <1>1
<1>3. ToSet(d) = {n} \cup ToSet(s)
  <2>1. \A i \in 1..Len(d) : d[i] = n \/ (i - 1 \in 1..Len(s) /\ d[i] = s[i - 1])
    <3> TAKE i \in 1..Len(d)
    <3>1. CASE i = 1
      BY <3>1, <1>1
    <3>2. CASE i # 1
      <4>1. i - 1 \in 1..Len(s) /\ (i - 1) + 1 = i
        BY <3>2, <1>1
      <4> QED BY <4>1, <1>1
    <3> QED BY <3>1, <3>2
  <2>2. \A i \in 1..Len(s) : i + 1 \in 1..Len(d) /\ d[i + 1] = s[i]
    BY <1>1
  <2>3. 1 \in 1..Len(d)
    BY <1>1
  <2> QED BY SMTT(30), <2>1, <2>2, <2>3, <1>1 DEF ToSet
<1>4. ToSet(s) \subseteq N
  BY <1>1 DEF ToSet
<1>5. s = << >> => Last(d) = n /\ ToSet(s) = {}
  BY <1>1 DEF Last, ToSet
<1>6. s # << >> => Last(d) = Last(s)
  <2> SUFFICES ASSUME s # << >> PROVE Last(d) = Last(s)
    OBVIOUS
  <2>1. Len(s) \in 1..Len(s)
    OBVIOUS
  <2>2. d[Len(s) + 1] = s[Len(s)] /\ Len(d) = Len(s) + 1
    BY <2>1, <1>1
  <2> QED BY <2>2 DEF Last
<1>7. d \in Seq(N)
  BY <1>1
<1> QED BY <1>2, <1>3, <1>4, <1>5, <1>6, <1>7, ZenonT(60) DEF d

\* down[n] is the walk from n to a leaf that goes left at the nodes B.
Walks(N, L, R, B, down) ==
  /\ down \in [N \cup {NULL} -> Seq(N)] /\ down[NULL] = << >>
  /\ \A n \in N : down[n] = <<n>> \o down[IF n \in B THEN L[n] ELSE R[n]]

\* The nodes of a walk from the root to a leaf, left at the nodes B.
LEMMA WalkDescends ==
  ASSUME NEW N, NEW L, NEW R, NEW P, NEW root, NEW sub, Hung(N, L, R, P, root, sub), IsFiniteSet(N),
         NEW B, NEW down, Walks(N, L, R, B, down), root # NULL
  PROVE  down[root] # << >> /\ Descent(N, L, R, root, ToSet(down[root]), B, Last(down[root]))
<1> DEFINE Fit(n) ==
             LET Q == ToSet(down[n])
                 p == Last(down[n])
             IN /\ down[n] # << >> /\ Q \subseteq sub[n] /\ n \in Q /\ p \in Q
                /\ (p \in B => L[p] = NULL) /\ (p \notin B => R[p] = NULL)
                /\ \A m \in sub[n] : (L[m] \in Q <=> m \in Q /\ m \in B /\ m # p)
                                     /\ (R[m] \in Q <=> m \in Q /\ m \notin B /\ m # p)
           T == {n \in N : ~Fit(n)}
<1>1. ASSUME NEW n \in N, L[n] \notin T, R[n] \notin T PROVE Fit(n)
  <2> DEFINE c == IF n \in B THEN L[n] ELSE R[n]
             e == IF n \in B THEN R[n] ELSE L[n]
             Q == ToSet(down[n])
             p == Last(down[n])
  <2>1. /\ c \in N \cup {NULL} /\ e \in N \cup {NULL} /\ sub[n] = {n} \cup sub[c] \cup sub[e]
        /\ n \notin sub[c] /\ n \notin sub[e] /\ sub[c] \cap sub[e] = {} /\ sub[NULL] = {}
        /\ n # NULL /\ NULL \notin N /\ sub[n] \subseteq N
        /\ (e # NULL => e \in sub[e]) /\ (c # NULL => c \in sub[c])
    <3>1. NULL \notin N
      BY DEF Hung
    <3>2. /\ L[n] \in N \cup {NULL} /\ R[n] \in N \cup {NULL} /\ sub[n] = {n} \cup sub[L[n]] \cup sub[R[n]]
          /\ n \notin sub[L[n]] /\ n \notin sub[R[n]] /\ sub[L[n]] \cap sub[R[n]] = {}
          /\ sub[NULL] = {} /\ n # NULL /\ sub[n] \subseteq N
          /\ (L[n] # NULL => L[n] \in sub[L[n]]) /\ (R[n] # NULL => R[n] \in sub[R[n]])
      BY Around
    <3>3. (c = L[n] /\ e = R[n]) \/ (c = R[n] /\ e = L[n])
      OBVIOUS
    <3> HIDE DEF c, e
    <3> QED BY ONLY <3>1, <3>2, <3>3
  <2>2. down[n] = <<n>> \o down[c] /\ down[c] \in Seq(N) /\ down[NULL] = << >>
    BY <2>1 DEF Walks
  <2>3. /\ down[n] # << >> /\ Q = {n} \cup ToSet(down[c])
        /\ down[c] = << >> => p = n /\ ToSet(down[c]) = {}
        /\ down[c] # << >> => p = Last(down[c])
    BY <2>2, Headed
  <2>4. \A m \in N : /\ L[m] \in sub[m] \cup {NULL} /\ R[m] \in sub[m] \cup {NULL}
                     /\ (m \in sub[n] => L[m] # n /\ R[m] # n)
    <3> TAKE m \in N
    <3>1. L[m] \in sub[m] \cup {NULL} /\ R[m] \in sub[m] \cup {NULL}
      BY Around
    <3>2. n \in {L[m], R[m]} => m = P[n]
      BY Around
    <3>3. P[n] \notin sub[n]
      BY Around
    <3> QED BY <3>1, <3>2, <3>3
  <2>5. \A m \in sub[e] : sub[m] \subseteq sub[e]
    BY <2>1, Nested
  <2>5a. \A m \in sub[c] : sub[m] \subseteq sub[c]
    BY <2>1, Nested
  <2> HIDE DEF Q, p
  <2>6. CASE c = NULL
    <3>1. Q = {n} /\ p = n /\ down[n] # << >>
      BY <2>2, <2>3, <2>6
    <3>2. (n \in B => L[n] = NULL) /\ (n \notin B => R[n] = NULL)
      BY <2>6
    <3>3. ASSUME NEW m \in sub[n]
          PROVE  (L[m] \in Q <=> m \in Q /\ m \in B /\ m # p) /\ (R[m] \in Q <=> m \in Q /\ m \notin B /\ m # p)
      BY <3>1, <2>1, <2>4
    <3> HIDE DEF c, e
    <3> QED BY <3>1, <3>2, <3>3, <2>1 DEF Q, p
  <2>7. CASE c # NULL
    <3> DEFINE Qc == ToSet(down[c])
    <3>0. c \in N /\ c \notin T
      BY <2>1, <2>7, <1>1
    <3>1. /\ down[c] # << >> /\ Qc \subseteq sub[c] /\ c \in Qc /\ p \in Qc
          /\ (p \in B => L[p] = NULL) /\ (p \notin B => R[p] = NULL)
          /\ \A m \in sub[c] : (L[m] \in Qc <=> m \in Qc /\ m \in B /\ m # p)
                               /\ (R[m] \in Qc <=> m \in Qc /\ m \notin B /\ m # p)
      <4>1. Fit(c)
        BY <3>0
      <4> HIDE DEF c
      <4>2. down[c] # << >>
        BY <4>1
      <4>3. p = Last(down[c])
        BY <4>2, <2>3
      <4> QED BY <4>1, <4>3
    <3> HIDE DEF Qc
    <3>2. Q = {n} \cup Qc /\ p # n /\ n \notin Qc
      BY <2>1, <2>3, <3>1 DEF Qc
    <3>3. ASSUME NEW m \in sub[n]
          PROVE  (L[m] \in Q <=> m \in Q /\ m \in B /\ m # p) /\ (R[m] \in Q <=> m \in Q /\ m \notin B /\ m # p)
      <4>0. m \in N /\ L[m] # n /\ R[m] # n /\ NULL \notin Q
        BY <2>1, <2>4, <3>1, <3>2
      <4>1. CASE m = n
        <5>1. m \in B => L[m] = c /\ R[m] = e
          BY <4>1
        <5>2. m \notin B => R[m] = c /\ L[m] = e
          BY <4>1
        <5>3. e \notin Q
          BY <2>1, <3>1, <3>2, <4>0
        <5> HIDE DEF c, e
        <5> QED BY <4>1, <5>1, <5>2, <5>3, <3>1, <3>2
      <4>2. CASE m \in sub[c]
        BY <4>0, <4>2, <2>1, <3>1, <3>2
      <4>3. CASE m \in sub[e]
        <5>1. L[m] \in sub[e] \cup {NULL} /\ R[m] \in sub[e] \cup {NULL}
          BY <4>0, <4>3, <2>4, <2>5
        <5>2. \A x \in sub[e] : x \notin Q
          BY <2>1, <3>1, <3>2
        <5> HIDE DEF c, e
        <5> QED BY <4>0, <4>3, <5>1, <5>2
      <4> HIDE DEF c, e
      <4> QED BY <4>1, <4>2, <4>3, <2>1
    <3> HIDE DEF c, e
    <3> QED BY <3>1, <3>2, <3>3, <2>1, <2>3 DEF Q, p
  <2> QED BY <2>6, <2>7
<1>2. T = {}
  <2>1. T \in SUBSET N
    OBVIOUS
  <2>2. \A n \in T : L[n] \in T \/ R[n] \in T
    BY <1>1
  <2> HIDE DEF T
  <2> QED BY <2>1, <2>2, DownInduction
<1>3. root \in N /\ sub[root] = N
  BY DEF Hung
<1>4. Fit(root)
  BY <1>2, <1>3
<1> QED BY <1>3, <1>4 DEF Descent

\* There is one such walk from each node.
LEMMA OneWalk ==
  ASSUME NEW N, NEW L, NEW R, NEW P, NEW root, NEW sub, Hung(N, L, R, P, root, sub), IsFiniteSet(N),
         NEW B, NEW f, NEW g, Walks(N, L, R, B, f), Walks(N, L, R, B, g)
  PROVE  f = g
<1> DEFINE D == N \cup {NULL}
           T == {n \in N : f[n] # g[n]}
<1>1. /\ f \in [D -> Seq(N)] /\ g \in [D -> Seq(N)] /\ f[NULL] = g[NULL]
      /\ \A n \in N : f[n] = <<n>> \o f[IF n \in B THEN L[n] ELSE R[n]]
      /\ \A n \in N : g[n] = <<n>> \o g[IF n \in B THEN L[n] ELSE R[n]]
  BY DEF Walks
<1>2. ASSUME NEW n \in T PROVE L[n] \in T \/ R[n] \in T
  <2> DEFINE c == IF n \in B THEN L[n] ELSE R[n]
  <2>1. c \in D
    BY Around
  <2>2. f[c] # g[c]
    BY <1>1
  <2> QED BY <1>1, <2>1, <2>2
<1>3. T \in SUBSET N
  OBVIOUS
<1>4. T = {}
  <2> HIDE DEF T
  <2> QED BY <1>2, <1>3, DownInduction
<1>5. \A n \in D : f[n] = g[n]
  BY <1>1, <1>4
<1> QED BY <1>1, <1>5

\* up[n] is the walk from n to the root.
Climbs(N, P, up) ==
  /\ up \in [N \cup {NULL} -> Seq(N)] /\ up[NULL] = << >>
  /\ \A n \in N : up[n] = <<n>> \o up[P[n]]

\* Each node of the walk is the parent of the one before, and in none of the
\* subtrees the walk has been through.
LEMMA Climb ==
  ASSUME NEW N, NEW L, NEW R, NEW P, NEW root, NEW sub, Hung(N, L, R, P, root, sub), IsFiniteSet(N),
         NEW up, Climbs(N, P, up), NEW n \in N
  PROVE  /\ Len(up[n]) > 0 /\ up[n][1] = n
         /\ \A i \in 1..Len(up[n]) : P[up[n][i]] = IF i = Len(up[n]) THEN NULL ELSE up[n][i + 1]
         /\ \A i, j \in 1..Len(up[n]) : i < j => up[n][j] \notin sub[up[n][i]]
<1> DEFINE Fit(x) == /\ Len(up[x]) > 0 /\ up[x][1] = x
                     /\ \A i \in 1..Len(up[x]) : P[up[x][i]] = IF i = Len(up[x]) THEN NULL ELSE up[x][i + 1]
                     /\ \A i \in 1..Len(up[x]) : x \in sub[up[x][i]]
                     /\ \A i, j \in 1..Len(up[x]) : i < j => up[x][j] \notin sub[up[x][i]]
           T == {x \in N : ~Fit(x)}
<1>1. ASSUME NEW x \in N, P[x] \notin T PROVE Fit(x)
  <2> DEFINE c == P[x]
             d == up[x]
             e == up[c]
  <2>1. /\ c \in N \cup {NULL} /\ x \in sub[x] /\ c \notin sub[x] /\ (c # NULL => x \in sub[c]) /\ x # NULL
        /\ \A m \in N : sub[m] \subseteq N
    <3>1. /\ c \in N \cup {NULL} /\ x \in sub[x] /\ c \notin sub[x] /\ x # NULL
          /\ c # NULL => c \in N /\ x \in {L[c], R[c]}
      BY Around
    <3>2. c # NULL => x \in sub[c]
      BY <3>1, Around
    <3>3. \A m \in N : sub[m] \subseteq N
      BY Around
    <3> QED BY <3>1, <3>2, <3>3
  <2>2. d = <<x>> \o e /\ e \in Seq(N) /\ (c = NULL => e = << >>)
    BY <2>1 DEF Climbs
  <2>3. /\ Len(e) \in Nat /\ Len(d) = Len(e) + 1 /\ d[1] = x
        /\ \A i \in 1..Len(e) : d[i + 1] = e[i] /\ e[i] \in N
    BY <2>2
  <2>4. \A i \in 1..Len(d) : i = 1 \/ (i # 1 /\ i - 1 \in 1..Len(e) /\ d[i] = e[i - 1] /\ e[i - 1] \in N)
    <3> TAKE i \in 1..Len(d)
    <3>1. CASE i # 1
      <4>1. i - 1 \in 1..Len(e) /\ (i - 1) + 1 = i
        BY <3>1, <2>3
      <4> QED BY <4>1, <3>1, <2>3
    <3> QED BY <3>1
  <2>5. c # NULL => Fit(c)
    BY <2>1, <1>1
  <2>6. c = NULL => Len(e) = 0
    BY <2>2
  <2>7. c # NULL => Len(e) > 0 /\ e[1] = c
    BY <2>5
  <2>8. \A i \in 1..Len(e) : c # NULL /\ c \in sub[e[i]]
    BY <2>3, <2>5, <2>6
  <2>9. \A i \in 1..Len(e) : P[e[i]] = IF i = Len(e) THEN NULL ELSE e[i + 1]
    BY <2>5, <2>8
  <2>10. \A i, j \in 1..Len(e) : i < j => e[j] \notin sub[e[i]]
    BY <2>5, <2>8
  <2> HIDE DEF d, e, Fit
  <2>11. \A i \in 1..Len(d) : P[d[i]] = IF i = Len(d) THEN NULL ELSE d[i + 1]
    <3> TAKE i \in 1..Len(d)
    <3>1. CASE i = 1
      <4>1. CASE c = NULL
        BY <3>1, <4>1, <2>3, <2>6
      <4>2. CASE c # NULL
        <5>1. 1 \in 1..Len(e) /\ d[1 + 1] = e[1] /\ 1 # Len(d)
          BY <4>2, <2>3, <2>7
        <5> QED BY <5>1, <3>1, <4>2, <2>3, <2>7
      <4> QED BY <4>1, <4>2
    <3>2. CASE i # 1
      <4> DEFINE k == i - 1
      <4>1. k \in 1..Len(e) /\ d[i] = e[k] /\ (i = Len(d) <=> k = Len(e)) /\ i = k + 1
        BY <3>2, <2>3, <2>4
      <4>2. CASE k = Len(e)
        BY <4>1, <4>2, <2>9
      <4>3. CASE k # Len(e)
        <5>1. k + 1 \in 1..Len(e)
          BY <4>1, <4>3, <2>3
        <5>2. d[i + 1] = e[k + 1]
          BY <5>1, <4>1, <2>3
        <5> HIDE DEF k
        <5> QED BY <5>2, <4>1, <4>3, <2>9
      <4> QED BY <4>2, <4>3
    <3> QED BY <3>1, <3>2
  <2>12. \A i \in 1..Len(d) : x \in sub[d[i]]
    <3> TAKE i \in 1..Len(d)
    <3>1. CASE i = 1
      BY <3>1, <2>1, <2>3
    <3>2. CASE i # 1
      <4>1. i - 1 \in 1..Len(e) /\ d[i] = e[i - 1] /\ e[i - 1] \in N
        BY <3>2, <2>4
      <4>2. c \in sub[e[i - 1]] /\ x \in sub[c]
        BY <4>1, <2>1, <2>8
      <4>3. sub[c] \subseteq sub[e[i - 1]]
        BY <4>1, <4>2, Nested
      <4> QED BY <4>1, <4>2, <4>3
    <3> QED BY <3>1, <3>2
  <2>13. ASSUME NEW i \in 1..Len(d), NEW j \in 1..Len(d), i < j PROVE d[j] \notin sub[d[i]]
    <3>1. j # 1
      BY <2>13, <2>3
    <3>2. j - 1 \in 1..Len(e) /\ d[j] = e[j - 1] /\ e[j - 1] \in N
      BY <3>1, <2>4
    <3>3. CASE i = 1
      <4>1. c \in sub[e[j - 1]]
        BY <3>2, <2>8
      <4>2. e[j - 1] \in sub[x] => sub[e[j - 1]] \subseteq sub[x]
        BY Nested
      <4> QED BY <4>1, <4>2, <3>2, <3>3, <2>1, <2>3
    <3>4. CASE i # 1
      <4>1. i - 1 \in 1..Len(e) /\ d[i] = e[i - 1] /\ i - 1 < j - 1
        BY <3>4, <2>4, <2>13, <2>3
      <4> QED BY <4>1, <3>2, <2>10
    <3> QED BY <3>3, <3>4
  <2> QED BY <2>3, <2>11, <2>12, <2>13 DEF Fit, d
<1>2. T = {}
  <2>1. T \in SUBSET N
    OBVIOUS
  <2>2. \A x \in T : P[x] \in T
    BY <1>1
  <2> HIDE DEF T
  <2> QED BY <2>1, <2>2, UpInduction
<1> QED BY <1>2

\* o and the greatest node q of its left subtree exchange their names: without
\* o, the nodes are in order.
LEMMA ExchangeOrdered ==
  ASSUME NEW N \in SUBSET Nat, NEW L, NEW R, NEW P, NEW root, NEW sub, Hung(N, L, R, P, root, sub),
         IsFiniteSet(N), Ordered(L, R, sub, N), NEW o \in N, NEW q \in sub[L[o]],
         \A m \in sub[L[o]] : m = q \/ m < q,
         NEW s, Exchange(N, s), s[o] = q, \A n \in N \ {o, q} : s[n] = n
  PROVE  Ordered(Renamed(L, s), Renamed(R, s), RenamedSub(N, sub, s), N \ {o})
<1> DEFINE L2 == Renamed(L, s)
           R2 == Renamed(R, s)
           new == RenamedSub(N, sub, s)
<1>1. /\ L \in [N -> N \cup {NULL}] /\ R \in [N -> N \cup {NULL}]
      /\ sub \in [N \cup {NULL} -> SUBSET N] /\ NULL \notin N
  BY DEF Hung
<1>2. /\ L[o] \in N \cup {NULL} /\ o \notin sub[L[o]] /\ sub[L[o]] \subseteq sub[o] /\ sub[o] \subseteq N
  BY Around
<1>3. q \in N /\ q # o /\ q \in sub[o] /\ s[q] = o
  BY <1>2 DEF Exchange
<1>4. q < o /\ q \in Nat /\ o \in Nat
  BY <1>2, <1>3 DEF Ordered
<1>5. \A n \in N : s[n] \in N /\ L[s[n]] \in N \cup {NULL} /\ R[s[n]] \in N \cup {NULL}
  BY <1>1, <1>3
<1>6. ASSUME NEW n \in N, NEW m \in N
      PROVE  (m \in new[L2[n]] <=> s[m] \in sub[L[s[n]]]) /\ (m \in new[R2[n]] <=> s[m] \in sub[R[s[n]]])
  <2>1. L2[n] = s[L[s[n]]] /\ R2[n] = s[R[s[n]]]
    BY <1>1 DEF Renamed
  <2>2. \A x \in N \cup {NULL} : s[x] \in N \cup {NULL} /\ s[s[x]] = x
    BY DEF Exchange
  <2> HIDE DEF L2, R2
  <2>3. s[L2[n]] = L[s[n]] /\ s[R2[n]] = R[s[n]] /\ L2[n] \in N \cup {NULL} /\ R2[n] \in N \cup {NULL}
    BY <2>1, <2>2, <1>5, ZenonT(60)
  <2> QED BY <2>3, <1>1 DEF RenamedSub
<1> HIDE DEF L2, R2, new
<1>7. ASSUME NEW n \in N \ {o}, NEW m \in N \ {o}
      PROVE  (m \in new[L2[n]] => m < n) /\ (m \in new[R2[n]] => n < m)
  <2>1. CASE n # q /\ m # q
    <3>1. s[n] = n /\ s[m] = m /\ n \in N /\ m \in N
      BY <2>1
    <3>2. (m \in new[L2[n]] <=> m \in sub[L[n]]) /\ (m \in new[R2[n]] <=> m \in sub[R[n]])
      BY <3>1, <1>6
    <3> QED BY <3>1, <3>2 DEF Ordered
  <2>2. CASE n = q /\ m # q
    <3>1. s[n] = o /\ s[m] = m
      BY <2>2, <1>3
    <3>2. m \in sub[R[o]] => q < m
      <4>1. m \in sub[R[o]] => o < m
        BY DEF Ordered
      <4> QED BY <4>1, <1>4
    <3> QED BY <3>1, <3>2, <1>6, <2>2
  <2>3. CASE n # q /\ m = q
    <3>1. s[n] = n /\ s[m] = o
      BY <2>3, <1>3
    <3>2. o \in sub[L[n]] => q < n
      <4>1. o \in sub[L[n]] => o < n
        BY DEF Ordered
      <4> QED BY <4>1, <1>4
    <3>3. o \in sub[R[n]] => n < q
      <4>1. o \in sub[R[n]] => sub[o] \subseteq sub[R[n]]
        <5>1. R[n] \in N \cup {NULL} /\ sub[NULL] = {}
          BY Around
        <5> QED BY <5>1, Nested
      <4> QED BY <4>1, <1>3 DEF Ordered
    <3> QED BY <3>1, <3>2, <3>3, <1>6, <2>3
  <2>4. CASE n = q /\ m = q
    <3>1. s[n] = o /\ s[m] = o /\ o \notin sub[L[o]] /\ o \notin sub[R[o]]
      BY <2>4, <1>3, Around
    <3> QED BY <3>1, <1>6
  <2> QED BY <2>1, <2>2, <2>3, <2>4
<1> QED BY <1>7 DEF Ordered, L2, R2, new

Numbers(N) == N \subseteq Nat

\* last[n] is the node to the right of all others of n's subtree.
Lasts(N, R, last) ==
  /\ last \in [N -> N]
  /\ \A n \in N : last[n] = IF R[n] = NULL THEN n ELSE last[R[n]]

\* Going right as long as possible leads to the greatest node of a subtree, which
\* is the right child of its parent unless it is the subtree's top.
LEMMA LastGreatest ==
  ASSUME NEW N, Numbers(N), NEW L, NEW R, NEW P, NEW root, NEW sub, Hung(N, L, R, P, root, sub),
         IsFiniteSet(N), Ordered(L, R, sub, N), NEW last, Lasts(N, R, last), NEW n \in N
  PROVE  /\ last[n] \in sub[n] /\ R[last[n]] = NULL
         /\ \A m \in sub[n] : m = last[n] \/ m < last[n]
         /\ last[n] = n \/ (P[last[n]] \in sub[n] /\ R[P[last[n]]] = last[n])
<1> DEFINE Fit(x) == /\ last[x] \in sub[x] /\ R[last[x]] = NULL
                     /\ \A m \in sub[x] : m = last[x] \/ m < last[x]
                     /\ last[x] = x \/ (P[last[x]] \in sub[x] /\ R[P[last[x]]] = last[x])
           T == {x \in N : ~Fit(x)}
<1>1. ASSUME NEW x \in N, R[x] \notin T PROVE Fit(x)
  <2> DEFINE r == R[x]
             q == last[x]
  <2>1. /\ r \in N \cup {NULL} /\ sub[x] = {x} \cup sub[L[x]] \cup sub[r] /\ x \in sub[x]
        /\ sub[x] \subseteq N /\ (r # NULL => P[r] = x /\ r \in sub[x])
    BY Around
  <2>2. (\A m \in sub[L[x]] : m < x) /\ (\A m \in sub[r] : x < m)
    BY <2>1 DEF Ordered
  <2>2a. \A m \in N : m \in Nat
    BY DEF Numbers
  <2>3. CASE r = NULL
    <3>1. q = x /\ sub[r] = {}
      BY <2>3 DEF Lasts, Hung
    <3> QED BY <3>1, <2>1, <2>2, <2>3
  <2>4. CASE r # NULL
    <3>1. r \in N /\ q = last[r] /\ Fit(r)
      BY <2>1, <2>4, <1>1 DEF Lasts
    <3>2. q \in sub[r] /\ R[q] = NULL /\ (\A m \in sub[r] : m = q \/ m < q)
          /\ (q = r \/ (P[q] \in sub[r] /\ R[P[q]] = q))
      BY <3>1
    <3> HIDE DEF q, r
    <3>3. x < q /\ q \in sub[x] /\ q \in Nat /\ x \in Nat
      BY <3>2, <2>1, <2>2, <2>2a
    <3>4. ASSUME NEW m \in sub[x] PROVE m = q \/ m < q
      <4>1. m \in Nat /\ (m = x \/ m < x \/ m \in sub[r])
        BY <2>1, <2>2, <2>2a
      <4> QED BY <4>1, <3>2, <3>3
    <3>5. P[q] \in sub[x] /\ R[P[q]] = q
      <4>1. CASE q = r
        BY <4>1, <2>1, <2>4 DEF r
      <4>2. CASE q # r
        BY <4>2, <3>2, <2>1
      <4> QED BY <4>1, <4>2
    <3> QED BY <3>2, <3>3, <3>4, <3>5 DEF q
  <2> QED BY <2>3, <2>4
<1>2. T = {}
  <2>1. T \in SUBSET N
    OBVIOUS
  <2>2. \A x \in T : R[x] \in T
    BY <1>1
  <2> HIDE DEF T
  <2> QED BY <2>1, <2>2, DownInduction
<1> QED BY <1>2

\* first[n] is the node to the left of all others of n's subtree.
Firsts(N, L, first) ==
  /\ first \in [N -> N]
  /\ \A n \in N : first[n] = IF L[n] = NULL THEN n ELSE first[L[n]]

\* Going left as long as possible leads to the least node of a subtree.
LEMMA FirstLeast ==
  ASSUME NEW N, Numbers(N), NEW L, NEW R, NEW P, NEW root, NEW sub, Hung(N, L, R, P, root, sub),
         IsFiniteSet(N), Ordered(L, R, sub, N), NEW first, Firsts(N, L, first), NEW n \in N
  PROVE  first[n] \in sub[n] /\ \A m \in sub[n] : m = first[n] \/ first[n] < m
<1> DEFINE Fit(x) == first[x] \in sub[x] /\ \A m \in sub[x] : m = first[x] \/ first[x] < m
           T == {x \in N : ~Fit(x)}
<1>1. ASSUME NEW x \in N, L[x] \notin T PROVE Fit(x)
  <2>1. /\ L[x] \in N \cup {NULL} /\ sub[x] = {x} \cup sub[L[x]] \cup sub[R[x]]
        /\ sub[x] \subseteq N
    BY Around
  <2>2. (\A m \in sub[L[x]] : m < x) /\ (\A m \in sub[R[x]] : x < m)
    BY <2>1 DEF Ordered
  <2>3. CASE L[x] = NULL
    <3>1. first[x] = x /\ sub[L[x]] = {}
      BY <2>3 DEF Firsts, Hung
    <3> QED BY <3>1, <2>1, <2>2
  <2>4. CASE L[x] # NULL
    <3>1. first[x] = first[L[x]] /\ Fit(L[x])
      BY <2>1, <2>4, <1>1 DEF Firsts
    <3>2. first[x] \in sub[L[x]] /\ \A m \in sub[L[x]] : m = first[x] \/ first[x] < m
      BY <3>1
    <3>3. first[x] < x /\ first[x] \in Nat /\ x \in Nat
      BY <3>2, <2>1, <2>2 DEF Numbers
    <3>4. ASSUME NEW m \in sub[R[x]] PROVE first[x] < m
      <4>1. m \in Nat /\ x < m
        BY <2>1, <2>2 DEF Numbers
      <4> QED BY <4>1, <3>3
    <3> QED BY <3>2, <3>3, <3>4, <2>1
  <2> QED BY <2>3, <2>4
<1>2. T = {}
  <2>1. T \in SUBSET N
    OBVIOUS
  <2>2. \A x \in T : L[x] \in T
    BY <1>1
  <2> HIDE DEF T
  <2> QED BY <2>1, <2>2, DownInduction
<1> QED BY <1>2

\* A node outside of a subtree comes before or after all of it.
LEMMA Interval ==
  ASSUME NEW N, Numbers(N), NEW L, NEW R, NEW P, NEW root, NEW sub, Hung(N, L, R, P, root, sub),
         IsFiniteSet(N), Ordered(L, R, sub, N), NEW m \in N, NEW n \in N \ sub[m]
  PROVE  (\A k \in sub[m] : k < n) \/ (\A k \in sub[m] : n < k)
<1> DEFINE Apart_(x) == (\A k \in sub[x] : k < n) \/ (\A k \in sub[x] : n < k)
           T == {x \in N : n \notin sub[x] /\ ~Apart_(x)}
<1>1. ASSUME NEW x \in N, P[x] \notin T, n \notin sub[x] PROVE Apart_(x)
  <2> DEFINE p == P[x]
  <2>1. p # NULL
    <3>1. x = root => sub[x] = N
      BY DEF Hung
    <3> QED BY <3>1, <1>1, Around
  <2>2. p \in N /\ x \in {L[p], R[p]} /\ x \in N
    BY <2>1, Around
  <2>3. /\ sub[p] = {p} \cup sub[L[p]] \cup sub[R[p]] /\ sub[p] \subseteq N
        /\ (\A k \in sub[L[p]] : k < p) /\ (\A k \in sub[R[p]] : p < k)
    <3> HIDE DEF p
    <3>1. sub[p] = {p} \cup sub[L[p]] \cup sub[R[p]] /\ sub[p] \subseteq N
      BY <2>2, Around
    <3> QED BY <3>1, <2>2 DEF Ordered
  <2>4. \A k \in sub[p] : k \in Nat
    BY <2>3 DEF Numbers
  <2>5. CASE n \notin sub[p]
    <3>1. Apart_(p)
      BY <2>2, <2>5, <1>1
    <3>2. sub[x] \subseteq sub[p]
      BY <2>2, <2>3
    <3> QED BY <3>1, <3>2
  <2>6. CASE n \in sub[p] /\ x = L[p]
    <3>1. n = p \/ p < n
      BY <2>3, <2>6, <1>1
    <3>2. ASSUME NEW k \in sub[x] PROVE k < n
      <4>1. k < p /\ k \in Nat /\ p \in Nat /\ n \in Nat
        BY <2>2, <2>3, <2>4, <2>6
      <4> QED BY <4>1, <3>1
    <3> QED BY <3>2
  <2>7. CASE n \in sub[p] /\ x = R[p]
    <3>1. n = p \/ n < p
      BY <2>3, <2>7, <1>1
    <3>2. ASSUME NEW k \in sub[x] PROVE n < k
      <4>1. p < k /\ k \in Nat /\ p \in Nat /\ n \in Nat
        BY <2>2, <2>3, <2>4, <2>7
      <4> QED BY <4>1, <3>1
    <3> QED BY <3>2
  <2> QED BY <2>2, <2>5, <2>6, <2>7
<1>2. T = {}
  <2>1. T \in SUBSET N
    OBVIOUS
  <2>2. \A x \in T : P[x] \in T
    BY <1>1
  <2> HIDE DEF T
  <2> QED BY <2>1, <2>2, UpInduction
<1> QED BY <1>2

\* next[n] is the first node above n whose left subtree n is in.
Nexts(N, R, P, next) ==
  \A n \in N : next[n] = IF P[n] # NULL /\ n = R[P[n]] THEN next[P[n]] ELSE P[n]

\* y is the first node after all of x's subtree, or NULL where there is none.
Follows(N, sub, x, y) ==
  /\ y \in N \cup {NULL}
  /\ y # NULL => \A k \in sub[x] : k < y
  /\ \A n \in N \ sub[x] : x < n => y # NULL /\ y <= n

\* Climbing as long as one comes from the right leads to what follows a subtree.
LEMMA NextFollows ==
  ASSUME NEW N, Numbers(N), NEW L, NEW R, NEW P, NEW root, NEW sub, Hung(N, L, R, P, root, sub),
         IsFiniteSet(N), Ordered(L, R, sub, N), NEW next, Nexts(N, R, P, next), NEW n \in N
  PROVE  Follows(N, sub, n, next[n])
<1> DEFINE T == {x \in N : ~Follows(N, sub, x, next[x])}
<1>1. ASSUME NEW x \in N, P[x] \notin T PROVE Follows(N, sub, x, next[x])
  <2> DEFINE p == P[x]
  <2>1. CASE p = NULL
    <3>1. sub[x] = N
      <4>1. x = root
        BY <2>1, Around
      <4> QED BY <4>1 DEF Hung
    <3>2. next[x] = NULL
      BY <2>1 DEF Nexts
    <3> QED BY <3>1, <3>2 DEF Follows
  <2>2. CASE p # NULL
    <3>1. p \in N /\ x \in {L[p], R[p]} /\ x \in sub[x] /\ x \in Nat
      BY <2>2, Around DEF Numbers
    <3>2. /\ sub[p] = {p} \cup sub[L[p]] \cup sub[R[p]] /\ sub[p] \subseteq N
          /\ (\A k \in sub[L[p]] : k < p) /\ (\A k \in sub[R[p]] : p < k)
          /\ L[p] # R[p] \/ L[p] = NULL
      <4> HIDE DEF p
      <4>1. /\ sub[p] = {p} \cup sub[L[p]] \cup sub[R[p]] /\ sub[p] \subseteq N
            /\ L[p] # R[p] \/ L[p] = NULL
        BY <3>1, Around
      <4> QED BY <4>1, <3>1 DEF Ordered
    <3>3. \A k \in N : k \in Nat
      BY DEF Numbers
    <3>4. \A m \in N \ sub[p] : x < m => p < m
      <4>1. ASSUME NEW m \in N \ sub[p], x < m PROVE p < m
        <5>1. p \in sub[p] /\ x \in sub[p]
          BY <3>1, <3>2
        <5>2. (\A k \in sub[p] : k < m) \/ (\A k \in sub[p] : m < k)
          BY <3>1, Interval
        <5>3. ~(m < x)
          BY <4>1, <3>1, <3>3
        <5> QED BY <5>1, <5>2, <5>3
      <4> QED BY <4>1
    <3>5. CASE x = R[p]
      <4>1. next[x] = next[p] /\ Follows(N, sub, p, next[p])
        BY <2>2, <3>1, <3>5, <1>1 DEF Nexts
      <4>2. next[p] # NULL => \A k \in sub[x] : k < next[p]
        BY <4>1, <3>2, <3>5 DEF Follows
      <4>3. ASSUME NEW m \in N \ sub[x], x < m PROVE next[p] # NULL /\ next[p] <= m
        <5>1. m \notin sub[p]
          <6>1. p < x
            BY <3>1, <3>2, <3>5
          <6>2. m \in Nat /\ p \in Nat
            BY <3>1, <3>3
          <6>3. m # p
            BY <6>1, <6>2, <4>3, <3>1
          <6>4. m \notin sub[L[p]]
            BY <6>1, <6>2, <4>3, <3>1, <3>2
          <6> QED BY <6>3, <6>4, <3>2, <3>5
        <5> QED BY <5>1, <4>1, <4>3, <3>4 DEF Follows
      <4> QED BY <4>1, <4>2, <4>3 DEF Follows
    <3>6. CASE x = L[p] /\ x # R[p]
      <4>1. next[x] = p
        BY <3>6 DEF Nexts
      <4>2. ASSUME NEW m \in N \ sub[x], x < m PROVE p <= m
        <5>1. m \in Nat /\ p \in Nat
          BY <3>1, <3>3
        <5>2. m \in sub[p] => m = p \/ p < m
          BY <3>2, <3>6
        <5> QED BY <5>1, <5>2, <4>2, <3>4
      <4> QED BY <4>1, <4>2, <2>2, <3>1, <3>2, <3>6 DEF Follows
    <3> QED BY <3>1, <3>5, <3>6
  <2> QED BY <2>1, <2>2
<1>2. T = {}
  <2>1. T \in SUBSET N
    OBVIOUS
  <2>2. \A x \in T : P[x] \in T
    BY <1>1
  <2> HIDE DEF T
  <2> QED BY <2>1, <2>2, UpInduction
<1> QED BY <1>2

\* The walk goes through ever larger subtrees, and through every node whose
\* subtree holds the first.
LEMMA ClimbAbove ==
  ASSUME NEW N, NEW L, NEW R, NEW P, NEW root, NEW sub, Hung(N, L, R, P, root, sub), IsFiniteSet(N),
         NEW up, Climbs(N, P, up), NEW n \in N
  PROVE  /\ \A i, j \in 1..Len(up[n]) : i <= j => sub[up[n][i]] \subseteq sub[up[n][j]]
         /\ \A m \in N : n \in sub[m] <=> \E j \in 1..Len(up[n]) : m = up[n][j]
<1> DEFINE chain == up[n]
           c == Len(chain)
<1>1. /\ c > 0 /\ chain[1] = n
      /\ \A i \in 1..c : P[chain[i]] = IF i = c THEN NULL ELSE chain[i + 1]
  BY Climb
<1>2. chain \in Seq(N) /\ c \in Nat /\ (\A i \in 1..c : chain[i] \in N) /\ NULL \notin N
  BY DEF Climbs, Hung
<1> HIDE DEF chain, c
<1>3. \A x \in N : P[x] \in N => sub[x] \subseteq sub[P[x]]
  <2> TAKE x \in N
  <2> SUFFICES ASSUME P[x] \in N PROVE sub[x] \subseteq sub[P[x]]
    OBVIOUS
  <2>1. x \in {L[P[x]], R[P[x]]}
    BY <1>2, Around
  <2>2. sub[P[x]] = {P[x]} \cup sub[L[P[x]]] \cup sub[R[P[x]]]
    BY Around
  <2> QED BY <2>1, <2>2
<1>4. ASSUME NEW k \in 0..c, k < c, k # 0
      PROVE  chain[k + 1] = P[chain[k]] /\ sub[chain[k]] \subseteq sub[chain[k + 1]]
  <2>1. k \in 1..c /\ k # c /\ k + 1 \in 1..c
    BY <1>2, <1>4
  <2>2. P[chain[k]] = chain[k + 1] /\ chain[k] \in N /\ chain[k + 1] \in N
    BY <2>1, <1>1, <1>2
  <2> QED BY <2>2, <1>3
<1> DEFINE T == {j \in 0..c : \A i \in 1..c : i <= j => sub[chain[i]] \subseteq sub[chain[j]]}
<1>5. 0 \in T
  <2>1. 0 \in 0..c /\ \A i \in 1..c : ~(i <= 0)
    BY <1>2
  <2> QED BY <2>1
<1>6. ASSUME NEW j \in T, j < c PROVE j + 1 \in T
  <2>1. j \in Nat /\ j + 1 \in 0..c
    BY <1>2, <1>6
  <2>2. ASSUME NEW i \in 1..c, i <= j + 1 PROVE sub[chain[i]] \subseteq sub[chain[j + 1]]
    <3>1. CASE i = j + 1
      BY <3>1
    <3>2. CASE i # j + 1
      <4>1. i <= j /\ j # 0
        BY <2>1, <2>2, <3>2
      <4>2. sub[chain[i]] \subseteq sub[chain[j]]
        BY <4>1
      <4>3. sub[chain[j]] \subseteq sub[chain[j + 1]]
        BY <4>1, <1>4, <1>6
      <4> QED BY <4>2, <4>3
    <3> QED BY <3>1, <3>2
  <2> QED BY <2>1, <2>2
<1>7. T = 0..c
  <2>1. T \in SUBSET (0..c)
    OBVIOUS
  <2> HIDE DEF T
  <2> QED BY <2>1, <1>2, <1>5, <1>6, UpTo
<1>8. ASSUME NEW i \in 1..c, NEW j \in 1..c, i <= j PROVE sub[chain[i]] \subseteq sub[chain[j]]
  <2>1. j \in 0..c
    BY <1>2
  <2>2. j \in T
    <3> HIDE DEF T
    <3> QED BY <2>1, <1>7
  <2> QED BY <2>2, <1>8
<1>9. ASSUME NEW j \in 1..c PROVE n \in sub[chain[j]]
  <2>1. 1 \in 1..c /\ 1 <= j
    BY <1>1, <1>2
  <2>2. sub[chain[1]] \subseteq sub[chain[j]]
    BY <2>1, <1>8
  <2>3. n \in sub[n]
    BY Around
  <2> QED BY <2>2, <2>3, <1>1
<1> DEFINE U == {m \in N : n \in sub[m] /\ \A j \in 1..c : m # chain[j]}
<1>10. ASSUME NEW m \in U PROVE L[m] \in U \/ R[m] \in U
  <2>1. m # n
    <3>1. 1 \in 1..c
      BY <1>1, <1>2
    <3> QED BY <3>1, <1>1
  <2>2. sub[m] = {m} \cup sub[L[m]] \cup sub[R[m]] /\ sub[NULL] = {}
    BY Around
  <2>3. PICK x \in {L[m], R[m]} : n \in sub[x]
    BY <2>1, <2>2
  <2>4. x \in N
    <3>1. L[m] \in N \cup {NULL} /\ R[m] \in N \cup {NULL}
      BY Around
    <3> QED BY <3>1, <2>2, <2>3
  <2>5. m = P[x]
    BY <2>3, <2>4, Around
  <2>6. ASSUME NEW j \in 1..c, x = chain[j] PROVE FALSE
    <3>1. j # c
      BY <2>5, <2>6, <1>1, <1>2
    <3>2. j + 1 \in 1..c /\ m = chain[j + 1]
      BY <3>1, <2>5, <2>6, <1>1, <1>2
    <3> QED BY <3>2
  <2>7. x \in U
    BY <2>3, <2>4, <2>6
  <2> HIDE DEF U
  <2> QED BY <2>3, <2>7
<1>11. U = {}
  <2>1. U \in SUBSET N
    OBVIOUS
  <2> HIDE DEF U
  <2> QED BY <2>1, <1>10, DownInduction
<1>12. \A m \in N : n \in sub[m] => \E j \in 1..c : m = chain[j]
  BY <1>11
<1>13. \A m \in N : n \in sub[m] <=> \E j \in 1..c : m = chain[j]
  BY <1>9, <1>12
<1> QED BY <1>8, <1>13 DEF chain, c

-----------------------------------------------------------------------------
(* Walks from each node to the next.                                       *)

\* next[n] is the least of the nodes N above n, or NULL.
Advances(N, next) ==
  /\ N \subseteq Nat /\ IsFiniteSet(N) /\ NULL \notin N
  /\ next \in [N -> N \cup {NULL}]
  /\ \A n \in N : next[n] # NULL => n < next[n]
  /\ \A n, m \in N : n < m => next[n] # NULL /\ next[n] <= m

\* trail[n] is the walk from n on.
Trails(N, next, trail) ==
  /\ trail \in [N \cup {NULL} -> Seq(N)] /\ trail[NULL] = << >>
  /\ \A n \in N : trail[n] = <<n>> \o trail[next[n]]

\* How many nodes there are from n on.
Unwalked(N) == [n \in N \cup {NULL} |-> IF n = NULL THEN 0 ELSE Cardinality({m \in N : n <= m})]

\* There are fewer from the next node on.
LEMMA UnwalkedShrinks ==
  ASSUME NEW N, NEW next, Advances(N, next)
  PROVE  /\ Unwalked(N) \in [N \cup {NULL} -> Nat]
         /\ \A n \in N : next[n] \in N \cup {NULL} /\ Unwalked(N)[next[n]] < Unwalked(N)[n]
<1> DEFINE D == N \cup {NULL}
           From(n) == {m \in N : n <= m}
<1>1. /\ \A n \in N : n \in Nat /\ n # NULL /\ next[n] \in D
      /\ IsFiniteSet(N)
  BY DEF Advances
<1>2. ASSUME NEW n \in N
      PROVE  IsFiniteSet(From(n)) /\ Cardinality(From(n)) \in Nat /\ Cardinality(From(n)) > 0
  <2>1. From(n) \in SUBSET N /\ n \in From(n)
    BY <1>1
  <2> HIDE DEF From
  <2>2. IsFiniteSet(From(n)) /\ From(n) # {}
    BY <1>1, <2>1, FS_Subset
  <2>3. Cardinality(From(n)) \in Nat /\ Cardinality(From(n)) # 0
    BY <2>2, FS_CardinalityType, FS_EmptySet
  <2> QED BY <2>2, <2>3
<1>3. Unwalked(N) \in [D -> Nat]
  BY <1>2 DEF Unwalked
<1>4. Unwalked(N)[NULL] = 0 /\ \A n \in N : Unwalked(N)[n] = Cardinality(From(n))
  BY <1>1 DEF Unwalked
<1>5. ASSUME NEW n \in N PROVE Unwalked(N)[next[n]] < Unwalked(N)[n]
  <2>1. CASE next[n] = NULL
    BY <2>1, <1>2, <1>4
  <2>2. CASE next[n] # NULL
    <3>1. next[n] \in N /\ n < next[n]
      BY <2>2, <1>1 DEF Advances
    <3>2. From(next[n]) \in SUBSET From(n) /\ n \in From(n) /\ n \notin From(next[n])
      BY <3>1, <1>1
    <3> HIDE DEF From
    <3>3. /\ Cardinality(From(next[n])) <= Cardinality(From(n))
          /\ Cardinality(From(next[n])) # Cardinality(From(n))
      BY <3>1, <3>2, <1>2, FS_Subset
    <3> QED BY <3>1, <3>3, <1>2, <1>4
  <2> QED BY <2>1, <2>2
<1> QED BY <1>1, <1>3, <1>5

\* Induction from the greatest node down.
LEMMA BackInduction ==
  ASSUME NEW N, NEW next, Advances(N, next), NEW T \in SUBSET N, \A n \in T : next[n] \in T
  PROVE  T = {}
<1> SUFFICES ASSUME T # {} PROVE FALSE
  OBVIOUS
<1> DEFINE D == N \cup {NULL}
           rank == Unwalked(N)
<1>1. rank \in [D -> Nat] /\ T \in SUBSET D
  BY UnwalkedShrinks
<1>2. PICK n \in T : \A m \in T : rank[n] <= rank[m]
  <2> HIDE DEF D, rank
  <2> QED BY <1>1, LeastRank
<1>3. next[n] \in T /\ rank[next[n]] < rank[n]
  BY UnwalkedShrinks
<1>4. rank[next[n]] \in Nat /\ rank[n] \in Nat
  BY <1>1, <1>3
<1> QED BY <1>2, <1>3, <1>4

\* A sequence grows in the order of its members.
Rising(s) == \A i, j \in DOMAIN s : i < j => s[i] < s[j]

\* A walk rises, and has all nodes from its first on.
LEMMA TrailRises ==
  ASSUME NEW N, NEW next, Advances(N, next), NEW trail, Trails(N, next, trail), NEW n \in N
  PROVE  ToSet(trail[n]) = {m \in N : n <= m} /\ Rising(trail[n])
<1> DEFINE Fit(x) == ToSet(trail[x]) = {m \in N : x <= m} /\ Rising(trail[x])
           T == {x \in N : ~Fit(x)}
<1>1. ASSUME NEW x \in N, next[x] \notin T PROVE Fit(x)
  <2> DEFINE y == next[x]
             d == trail[x]
             e == trail[y]
  <2>1. /\ y \in N \cup {NULL} /\ x \in Nat /\ (y # NULL => x < y) /\ N \subseteq Nat
        /\ \A m \in N : x < m => y # NULL /\ y <= m
    BY DEF Advances
  <2>2. d = <<x>> \o e /\ e \in Seq(N) /\ (y = NULL => e = << >>)
    BY <2>1 DEF Trails
  <2>3. ToSet(d) = {x} \cup ToSet(e) /\ (e = << >> => ToSet(e) = {})
    BY <2>2, Headed
  <2>4. y # NULL => Fit(y)
    BY <2>1, <1>1
  <2>5. ToSet(e) = {m \in N : x < m}
    <3>1. CASE y = NULL
      BY <3>1, <2>1, <2>2, <2>3
    <3>2. CASE y # NULL
      <4>1. ToSet(e) = {m \in N : y <= m}
        BY <3>2, <2>4
      <4>2. \A m \in N : y <= m <=> x < m
        <5> HIDE DEF y
        <5>1. y \in Nat /\ \A m \in N : m \in Nat
          BY <3>2, <2>1
        <5> QED BY <5>1, <3>2, <2>1
      <4> QED BY <4>1, <4>2
    <3> QED BY <3>1, <3>2
  <2>6. Rising(e)
    <3>1. CASE y = NULL
      BY <3>1, <2>2 DEF Rising
    <3>2. CASE y # NULL
      BY <3>2, <2>4
    <3> QED BY <3>1, <3>2
  <2>7. /\ Len(e) \in Nat /\ DOMAIN d = 1..(Len(e) + 1) /\ DOMAIN e = 1..Len(e) /\ d[1] = x
        /\ \A i \in 1..Len(e) : d[i + 1] = e[i]
    BY <2>2
  <2> HIDE DEF d, e, y
  <2>8. \A i \in 1..(Len(e) + 1) : i = 1 \/ (i # 1 /\ i - 1 \in 1..Len(e) /\ d[i] = e[i - 1])
    <3> TAKE i \in 1..(Len(e) + 1)
    <3>1. CASE i # 1
      <4>1. i - 1 \in 1..Len(e) /\ (i - 1) + 1 = i
        BY <3>1, <2>7
      <4> QED BY <4>1, <3>1, <2>7
    <3> QED BY <3>1
  <2>9. ASSUME NEW i \in DOMAIN d, NEW j \in DOMAIN d, i < j PROVE d[i] < d[j]
    <3>1. i \in 1..(Len(e) + 1) /\ j \in 1..(Len(e) + 1) /\ j # 1
      BY <2>9, <2>7
    <3>2. j - 1 \in DOMAIN e /\ d[j] = e[j - 1]
      BY <3>1, <2>7, <2>8
    <3>3. CASE i = 1
      <4>1. e[j - 1] \in ToSet(e)
        BY <3>2 DEF ToSet
      <4> QED BY <4>1, <3>2, <3>3, <2>5, <2>7
    <3>4. CASE i # 1
      <4>1. i - 1 \in DOMAIN e /\ d[i] = e[i - 1] /\ i - 1 < j - 1
        BY <3>1, <3>4, <2>7, <2>8, <2>9
      <4> QED BY <4>1, <3>2, <2>6 DEF Rising
    <3> QED BY <3>3, <3>4
  <2>10. ToSet(d) = {m \in N : x <= m}
    <3>1. \A m \in N : x <= m <=> m = x \/ x < m
      BY <2>1
    <3> QED BY <3>1, <2>3, <2>5
  <2> QED BY <2>9, <2>10 DEF Rising, d
<1>2. T = {}
  <2>1. T \in SUBSET N
    OBVIOUS
  <2>2. \A x \in T : next[x] \in T
    BY <1>1
  <2> HIDE DEF T
  <2> QED BY <2>1, <2>2, BackInduction
<1> QED BY <1>2

-----------------------------------------------------------------------------
(* Heights and rotations.                                                  *)

\* A node of height h is level over children of heights a and b.
Level(h, a, b) == h = 1 + MaxOf(a, b) /\ b - a \in -1..1

\* Every node has a height, NULL has none.
Graded(N, H) == H \in [N \cup {NULL} -> Nat] /\ H[NULL] = 0

AllLevel(N, L, R, H) == \A n \in N : Level(H[n], H[L[n]], H[R[n]])

\* Every node but q is level over its children, where q counts as h high.
LevelBut(N, L, R, H, q, h) ==
  \A n \in N \ {q} : Level(H[n], IF L[n] = q THEN h ELSE H[L[n]], IF R[n] = q THEN h ELSE H[R[n]])

\* r, the right child of q, takes its place.
Lifted(N, L, R, H, L2, R2, H2, q, r) ==
  /\ L2[q] = L[q] /\ R2[q] = L[r] /\ L2[r] = q /\ R2[r] = R[r]
  /\ H2[NULL] = 0 /\ H2[q] = 1 + MaxOf(H[L[q]], H[L[r]]) /\ H2[r] = 1 + MaxOf(H2[q], H[R[r]])
  /\ \A n \in N \ {q, r} : /\ L2[n] = IF L[n] = q THEN r ELSE L[n]
                           /\ R2[n] = IF R[n] = q THEN r ELSE R[n]
                           /\ H2[n] = H[n]

\* A child of q, and the children of both.
LEMMA ChildOf ==
  ASSUME NEW N, NEW L, NEW R, NEW P, NEW root, NEW sub, Hung(N, L, R, P, root, sub), IsFiniteSet(N),
         NEW q \in N, NEW r \in N, r \in {L[q], R[q]}
  PROVE  /\ r # q /\ q # NULL /\ r # NULL /\ (L[q] # r \/ R[q] # r)
         /\ \A x \in sub[r] : L[x] # q /\ R[x] # q /\ x # q /\ L[x] # r /\ R[x] # r
         /\ \A n \in N \ {q} : L[n] # r /\ R[n] # r
         /\ r \in sub[r] /\ sub[r] \subseteq N
<1>1. /\ r # q /\ q # NULL /\ r # NULL /\ q \notin sub[r] /\ r \in sub[r] /\ sub[r] \subseteq N
      /\ L[q] # R[q] \/ L[q] = NULL
  BY Around
<1>2. \A n \in N \ {q} : L[n] # r /\ R[n] # r
  BY <1>1, Around
<1>3. ASSUME NEW x \in sub[r]
      PROVE  L[x] # q /\ R[x] # q /\ x # q /\ L[x] # r /\ R[x] # r
  <2>1. x \in N /\ x # q
    BY <1>1
  <2>2. sub[x] \subseteq sub[r]
    BY Nested
  <2>3. L[x] \in sub[x] \cup {NULL} /\ R[x] \in sub[x] \cup {NULL}
    BY <2>1, Around
  <2>4. L[x] # q /\ R[x] # q
    BY <2>2, <2>3, <1>1
  <2> QED BY <2>1, <2>4, <1>2
<1> QED BY <1>1, <1>2, <1>3

\* A single rotation at q makes the tree level: its right child r is two higher than
\* the left one, and higher on the right; q counted as r does.
LEMMA SingleLevels ==
  ASSUME NEW N, NEW L, NEW R, NEW P, NEW root, NEW sub, Hung(N, L, R, P, root, sub), IsFiniteSet(N),
         NEW H, Graded(N, H), NEW L2, NEW R2, NEW H2,
         NEW q \in N, NEW r \in N, r = R[q], Lifted(N, L, R, H, L2, R2, H2, q, r),
         LevelBut(N, L, R, H, q, H[r]),
         H[r] = 2 + H[L[q]], H[R[r]] = 1 + H[L[r]]
  PROVE  AllLevel(N, L2, R2, H2)
<1>1. /\ r # q /\ q # NULL /\ r # NULL /\ L[q] # r /\ L[r] # q /\ R[r] # q /\ L[r] # r /\ R[r] # r
      /\ \A n \in N \ {q} : L[n] # r /\ R[n] # r
  BY ChildOf
<1>2. /\ L[q] \in N \cup {NULL} /\ L[q] # q
      /\ \A n \in N : L[n] \in N \cup {NULL} /\ R[n] \in N \cup {NULL}
  BY Around
<1>3. /\ H[L[q]] \in Nat /\ H[L[r]] \in Nat /\ H[R[r]] \in Nat /\ H[r] \in Nat
  BY <1>2 DEF Graded
<1>4. Level(H[r], H[L[r]], H[R[r]])
  BY <1>1 DEF LevelBut
<1>5. H[r] = 1 + H[R[r]] /\ H[L[r]] = H[L[q]]
  BY <1>3, <1>4 DEF Level, MaxOf
<1>6. /\ \A m \in N \cup {NULL} : m \notin {q, r} => H2[m] = H[m]
      /\ H2[q] = 1 + H[L[q]] /\ H2[r] = H[r]
  <2>1. \A m \in N \cup {NULL} : m \notin {q, r} => H2[m] = H[m]
    BY DEF Lifted, Graded
  <2>2. H2[q] = 1 + MaxOf(H[L[q]], H[L[r]]) /\ H2[r] = 1 + MaxOf(H2[q], H[R[r]])
    BY DEF Lifted
  <2>3. H2[q] = 1 + H[L[q]]
    BY <2>2, <1>3, <1>5 DEF MaxOf
  <2>4. H2[r] = H[r]
    BY <2>2, <2>3, <1>3, <1>5 DEF MaxOf
  <2> QED BY <2>1, <2>3, <2>4
<1>7. Level(H2[q], H2[L2[q]], H2[R2[q]])
  <2>1. H2[L2[q]] = H[L[q]] /\ H2[R2[q]] = H[L[q]]
    BY <1>1, <1>2, <1>5, <1>6 DEF Lifted
  <2> QED BY <2>1, <1>3, <1>6 DEF Level, MaxOf
<1>8. Level(H2[r], H2[L2[r]], H2[R2[r]])
  <2>1. H2[L2[r]] = 1 + H[L[q]] /\ H2[R2[r]] = 1 + H[L[q]]
    BY <1>1, <1>2, <1>3, <1>5, <1>6 DEF Lifted
  <2> QED BY <2>1, <1>3, <1>5, <1>6 DEF Level, MaxOf
<1>9. ASSUME NEW n \in N \ {q, r} PROVE Level(H2[n], H2[L2[n]], H2[R2[n]])
  <2>1. H2[n] = H[n]
    BY <1>6
  <2>2. H2[L2[n]] = IF L[n] = q THEN H[r] ELSE H[L[n]]
    BY <1>1, <1>2, <1>6 DEF Lifted
  <2>3. H2[R2[n]] = IF R[n] = q THEN H[r] ELSE H[R[n]]
    BY <1>1, <1>2, <1>6 DEF Lifted
  <2> QED BY <2>1, <2>2, <2>3 DEF LevelBut
<1> QED BY <1>7, <1>8, <1>9 DEF AllLevel

\* So does a double rotation, when r is higher on the left: first r's left child m
\* takes r's place, then q's.
LEMMA DoubleLevels ==
  ASSUME NEW N, NEW L, NEW R, NEW P, NEW root, NEW sub, Hung(N, L, R, P, root, sub), IsFiniteSet(N),
         NEW H, Graded(N, H), NEW L1, NEW R1, NEW H1, NEW L2, NEW R2, NEW H2,
         NEW q \in N, NEW r \in N, NEW m \in N, r = R[q], m = L[r],
         Lifted(N, R, L, H, R1, L1, H1, r, m), Lifted(N, L1, R1, H1, L2, R2, H2, q, m),
         LevelBut(N, L, R, H, q, H[r]),
         H[r] = 2 + H[L[q]], H[m] = 1 + H[R[r]]
  PROVE  AllLevel(N, L2, R2, H2)
<1>1. /\ r # q /\ q # NULL /\ r # NULL /\ L[q] # r /\ m # q /\ R[r] # q
      /\ \A n \in N \ {q} : L[n] # r /\ R[n] # r
      /\ L[m] # q /\ R[m] # q
  <2>1. m \in sub[r]
    BY Around
  <2> QED BY <2>1, ChildOf
<1>2. /\ m # r /\ m # NULL /\ R[r] # m /\ L[m] # r /\ R[m] # r /\ L[m] # m /\ R[m] # m
      /\ \A n \in N \ {r} : L[n] # m /\ R[n] # m
  BY ChildOf
<1>3. /\ L[q] # q /\ R[r] # r
      /\ \A n \in N : L[n] \in N \cup {NULL} /\ R[n] \in N \cup {NULL}
  BY Around
<1>4. /\ H[L[q]] \in Nat /\ H[L[m]] \in Nat /\ H[R[m]] \in Nat /\ H[R[r]] \in Nat /\ H[r] \in Nat /\ H[m] \in Nat
  BY <1>3 DEF Graded
<1>5. Level(H[r], H[m], H[R[r]]) /\ Level(H[m], H[L[m]], H[R[m]])
  BY <1>1 DEF LevelBut
<1>6. /\ H[m] = 1 + H[L[q]] /\ H[R[r]] = H[L[q]] /\ H[L[m]] <= H[L[q]] /\ H[R[m]] <= H[L[q]]
      /\ H[L[q]] <= 1 + H[L[m]] /\ H[L[q]] <= 1 + H[R[m]]
  BY <1>4, <1>5 DEF Level, MaxOf
<1>7. /\ R1[r] = R[r] /\ L1[r] = R[m] /\ R1[m] = r /\ L1[m] = L[m] /\ L1[q] = L[q] /\ R1[q] = m
      /\ H1[r] = 1 + MaxOf(H[R[r]], H[R[m]])
      /\ \A n \in N \ {q, r, m} : L1[n] = L[n] /\ R1[n] = R[n]
      /\ \A n \in N \cup {NULL} : n \notin {r, m} => H1[n] = H[n]
  BY <1>1, <1>2 DEF Lifted, Graded
<1>8. /\ L2[q] = L[q] /\ R2[q] = L[m] /\ L2[m] = q /\ R2[m] = r /\ L2[r] = R[m] /\ R2[r] = R[r]
      /\ H2[q] = 1 + MaxOf(H1[L[q]], H1[L[m]]) /\ H2[m] = 1 + MaxOf(H2[q], H1[r]) /\ H2[r] = H1[r]
      /\ \A n \in N \ {q, r, m} : /\ L2[n] = IF L[n] = q THEN m ELSE L[n]
                                  /\ R2[n] = IF R[n] = q THEN m ELSE R[n]
      /\ \A n \in N \cup {NULL} : n \notin {q, r, m} => H2[n] = H[n]
  BY <1>1, <1>2, <1>7 DEF Lifted, Graded
<1>9. H1[L[q]] = H[L[q]] /\ H1[L[m]] = H[L[m]]
  BY <1>1, <1>2, <1>3, <1>7
<1>10. H2[q] = 1 + H[L[q]] /\ H2[r] = 1 + H[L[q]] /\ H2[m] = H[r]
  <2>1. H2[q] = 1 + H[L[q]]
    BY <1>4, <1>6, <1>8, <1>9 DEF MaxOf
  <2>2. H1[r] = 1 + H[L[q]]
    BY <1>4, <1>6, <1>7 DEF MaxOf
  <2> QED BY <2>1, <2>2, <1>4, <1>8 DEF MaxOf
<1>11. Level(H2[q], H2[L2[q]], H2[R2[q]])
  <2>1. H2[L2[q]] = H[L[q]] /\ H2[R2[q]] = H[L[m]]
    BY <1>1, <1>2, <1>3, <1>8
  <2> QED BY <2>1, <1>4, <1>6, <1>10 DEF Level, MaxOf
<1>12. Level(H2[r], H2[L2[r]], H2[R2[r]])
  <2>1. H2[L2[r]] = H[R[m]] /\ H2[R2[r]] = H[L[q]]
    BY <1>1, <1>2, <1>3, <1>6, <1>8
  <2> QED BY <2>1, <1>4, <1>6, <1>10 DEF Level, MaxOf
<1>13. Level(H2[m], H2[L2[m]], H2[R2[m]])
  BY <1>4, <1>8, <1>10 DEF Level, MaxOf
<1>14. ASSUME NEW n \in N \ {q, r, m} PROVE Level(H2[n], H2[L2[n]], H2[R2[n]])
  <2>1. H2[n] = H[n]
    BY <1>8
  <2>2. H2[L2[n]] = IF L[n] = q THEN H[r] ELSE H[L[n]]
    BY <1>1, <1>2, <1>3, <1>8, <1>10
  <2>3. H2[R2[n]] = IF R[n] = q THEN H[r] ELSE H[R[n]]
    BY <1>1, <1>2, <1>3, <1>8, <1>10
  <2> QED BY <2>1, <2>2, <2>3 DEF LevelBut
<1> QED BY <1>11, <1>12, <1>13, <1>14 DEF AllLevel

\* Level trees, and those level but for one node, are so in a mirror.
LEMMA LevelMirror ==
  ASSUME NEW N, NEW L \in [N -> N \cup {NULL}], NEW R \in [N -> N \cup {NULL}], NEW H, Graded(N, H)
  PROVE  /\ AllLevel(N, L, R, H) => AllLevel(N, R, L, H)
         /\ \A q, h \in Nat : LevelBut(N, L, R, H, q, h) => LevelBut(N, R, L, H, q, h)
<1>1. \A i, j, k \in Nat : Level(i, j, k) => Level(i, k, j)
  BY DEF Level, MaxOf
<1>2. \A n \in N : H[n] \in Nat /\ H[L[n]] \in Nat /\ H[R[n]] \in Nat
  BY DEF Graded
<1>3. AllLevel(N, L, R, H) => AllLevel(N, R, L, H)
  BY <1>1, <1>2 DEF AllLevel
<1>4. ASSUME NEW q \in Nat, NEW h \in Nat, LevelBut(N, L, R, H, q, h) PROVE LevelBut(N, R, L, H, q, h)
  BY <1>1, <1>2, <1>4 DEF LevelBut
<1> QED BY <1>3, <1>4

\* Heights H have become K as q's was updated, after its child c had grown by one from
\* h: q's subtree may have grown too, or q, which leaned towards c, now tips.
PassedOn(N, L, R, H, K, q, c, h) ==
  /\ K[c] = H[c] /\ K[L[c]] = H[L[c]] /\ K[R[c]] = H[R[c]]
  /\ K[R[q]] - K[L[q]] \in -1..1 =>
       /\ LevelBut(N, L, R, K, q, H[q]) /\ Level(K[q], K[L[q]], K[R[q]])
       /\ K[q] \in {H[q], H[q] + 1} /\ (K[q] = H[q] + 1 => K[c] = 1 + K[R[q]])
  /\ K[R[q]] - K[L[q]] \notin -1..1 =>
       /\ K[R[q]] - K[L[q]] < -1 /\ LevelBut(N, L, R, K, q, K[c]) /\ K[c] = 2 + K[R[q]]
       /\ H[c] = h + 1 /\ h > 0

\* What becomes of a node when its child on one side may have grown.
LEMMA GrowthPassed ==
  ASSUME NEW N, NEW L, NEW R, NEW P, NEW root, NEW sub, Hung(N, L, R, P, root, sub), IsFiniteSet(N),
         NEW H, Graded(N, H), NEW q \in N, NEW c \in N, c = L[q], NEW h \in Nat,
         LevelBut(N, L, R, H, c, h), Level(H[c], H[L[c]], H[R[c]]), H[c] \in {h, h + 1},
         NEW K, Graded(N, K), K[q] = 1 + MaxOf(H[c], H[R[q]]), \A n \in N \ {q} : K[n] = H[n]
  PROVE  PassedOn(N, L, R, H, K, q, c, h)
<1>1. /\ c # q /\ q # NULL /\ c # NULL /\ R[q] # c
      /\ \A n \in N \ {q} : L[n] # c /\ R[n] # c
      /\ L[c] # q /\ R[c] # q /\ L[c] # c /\ R[c] # c
  <2>1. c \in {L[q], R[q]} /\ c \in sub[c]
    BY Around
  <2> HIDE DEF Hung
  <2>2. /\ c # q /\ q # NULL /\ c # NULL /\ (L[q] # c \/ R[q] # c)
        /\ \A n \in N \ {q} : L[n] # c /\ R[n] # c
        /\ L[c] # q /\ R[c] # q /\ L[c] # c /\ R[c] # c
    BY <2>1, ChildOf
  <2> QED BY <2>2
<1>2. R[q] # q /\ \A n \in N : L[n] \in N \cup {NULL} /\ R[n] \in N \cup {NULL}
  BY Around
<1>3. \A n \in N \cup {NULL} : H[n] \in Nat /\ (n # q => K[n] = H[n])
  BY DEF Graded
<1>4. /\ K[c] = H[c] /\ K[L[c]] = H[L[c]] /\ K[R[c]] = H[R[c]] /\ K[R[q]] = H[R[q]]
  BY <1>1, <1>2, <1>3
<1>5. Level(H[q], h, H[R[q]])
  BY <1>1 DEF LevelBut
<1>6. H[q] \in Nat /\ H[R[q]] \in Nat /\ H[c] \in Nat
  BY <1>2, <1>3
<1>7. LevelBut(N, L, R, K, q, H[q])
  <2>1. ASSUME NEW n \in N \ {q}
        PROVE  Level(K[n], IF L[n] = q THEN H[q] ELSE K[L[n]], IF R[n] = q THEN H[q] ELSE K[R[n]])
    <3>1. /\ K[n] = H[n]
          /\ (IF L[n] = q THEN H[q] ELSE K[L[n]]) = H[L[n]]
          /\ (IF R[n] = q THEN H[q] ELSE K[R[n]]) = H[R[n]]
      BY <1>2, <1>3
    <3>2. Level(H[n], H[L[n]], H[R[n]])
      BY <1>1 DEF LevelBut
    <3> QED BY <3>1, <3>2
  <2> QED BY <2>1 DEF LevelBut
<1>8. ASSUME H[R[q]] - H[c] \in -1..1
      PROVE  /\ Level(K[q], H[c], H[R[q]])
             /\ K[q] \in {H[q], H[q] + 1} /\ (K[q] = H[q] + 1 => H[c] = 1 + H[R[q]])
  BY <1>5, <1>6, <1>8 DEF Level, MaxOf
<1>9. ASSUME H[R[q]] - H[c] \notin -1..1
      PROVE  /\ H[R[q]] - H[c] < -1 /\ H[q] = H[c] /\ H[c] = 2 + H[R[q]]
             /\ H[c] = h + 1 /\ h > 0
  BY <1>5, <1>6, <1>9 DEF Level, MaxOf
<1> QED BY <1>4, <1>7, <1>8, <1>9 DEF PassedOn

-----------------------------------------------------------------------------
(* Any order will do: lt is a set of pairs, of a node and one after it.    *)

Total(lt, N) == /\ \A x \in N : <<x, x>> \notin lt
                /\ \A x, y \in N : x = y \/ <<x, y>> \in lt \/ <<y, x>> \in lt
                /\ \A x, y, z \in N : <<x, y>> \in lt /\ <<y, z>> \in lt => <<x, z>> \in lt

Sorted(L, R, sub, M, lt) ==
  \A n \in M, m \in M : /\ m \in sub[L[n]] => <<m, n>> \in lt
                        /\ m \in sub[R[n]] => <<n, m>> \in lt

\* The nodes of a rotation are different.
LEMMA TurnApart ==
  ASSUME NEW N, NEW L, NEW R, NEW P, NEW root, NEW sub, Hung(N, L, R, P, root, sub), IsFiniteSet(N),
         NEW o \in N, NEW r \in N, NEW c \in N \cup {NULL}, R[o] = r, L[r] = c
  PROVE  r # o /\ c # o /\ c # r
BY TurnNodes

\* A rotation keeps the nodes sorted, in either direction.
LEMMA TurnSorted ==
  ASSUME NEW N, NEW L, NEW R, NEW P, NEW root, NEW sub, Hung(N, L, R, P, root, sub),
         IsFiniteSet(N), NEW o \in N, NEW r \in N, NEW c \in N \cup {NULL}, R[o] = r, L[r] = c,
         NEW lt, Total(lt, N)
  PROVE  LET L2  == TurnL(L, o, r)
             R2  == TurnR(R, o, r, c)
             new == TurnSub(sub, o, r, L[o], c)
         IN /\ Sorted(L, R, sub, N, lt) => Sorted(L2, R2, new, N, lt)
            /\ Sorted(R, L, sub, N, lt) => Sorted(R2, L2, new, N, lt)
<1> DEFINE L2  == TurnL(L, o, r)
           R2  == TurnR(R, o, r, c)
           new == TurnSub(sub, o, r, L[o], c)
<1>1. /\ \A n \in (N \cup {NULL}) \ {o, r} : new[n] = sub[n]
      /\ new[o] = {o} \cup sub[L[o]] \cup sub[c] /\ new[r] = sub[o]
  BY Turn, Z3T(30)
<1>2. /\ L \in [N -> N \cup {NULL}] /\ R \in [N -> N \cup {NULL}] /\ NULL \notin N
      /\ L[o] \in N \cup {NULL} /\ R[r] \in N \cup {NULL} /\ r \in sub[r] /\ sub[o] \subseteq N
  <2>1. L[o] \in N \cup {NULL} /\ sub[o] \subseteq N
    BY Around
  <2>2. R[r] \in N \cup {NULL} /\ r \in sub[r]
    BY Around
  <2> QED BY <2>1, <2>2 DEF Hung
<1>3. /\ sub[o] = {o} \cup sub[L[o]] \cup sub[r] /\ sub[r] = {r} \cup sub[c] \cup sub[R[r]]
      /\ r # o /\ c # o /\ c # r /\ L[o] \notin {o, r} /\ R[r] \notin {o, r}
  BY TurnNodes
<1>4. \A n \in N : L[n] = r \/ R[n] = r <=> n = o
  BY TurnNodes
<1>5. /\ L2[o] = L[o] /\ L2[r] = o /\ \A n \in N \ {o, r} : L2[n] = IF L[n] = o THEN r ELSE L[n]
      /\ R2[o] = c /\ R2[r] = R[r] /\ \A n \in N \ {o, r} : R2[n] = IF R[n] = o THEN r ELSE R[n]
  BY <1>2, <1>3 DEF TurnL, TurnR
<1> HIDE DEF L2, R2, new
<1>6. ASSUME NEW n \in N \ {o, r} PROVE new[L2[n]] = sub[L[n]] /\ new[R2[n]] = sub[R[n]]
  BY <1>1, <1>2, <1>4, <1>5, ZenonT(60)
<1>7. /\ new[L2[o]] = sub[L[o]] /\ new[R2[o]] = sub[c]
      /\ new[L2[r]] = {o} \cup sub[L[o]] \cup sub[c] /\ new[R2[r]] = sub[R[r]]
  BY <1>1, <1>2, <1>3, <1>5, ZenonT(60)
<1>8. \A x, y, z \in N : <<x, y>> \in lt /\ <<y, z>> \in lt => <<x, z>> \in lt
  BY DEF Total
<1>9. ASSUME NEW A, NEW Z, {A, Z} = {L, R}, Sorted(A, Z, sub, N, lt), NEW A2, NEW Z2,
             A2 = (IF A = L THEN L2 ELSE R2), Z2 = (IF A = L THEN R2 ELSE L2), NEW n \in N, NEW m \in N
      PROVE  (m \in new[A2[n]] => <<m, n>> \in lt) /\ (m \in new[Z2[n]] => <<n, m>> \in lt)
  <2>1. CASE n = o
    <3>1. (m \in sub[A[o]] => <<m, o>> \in lt) /\ (m \in sub[Z[o]] => <<o, m>> \in lt)
      BY <1>9 DEF Sorted
    <3> QED BY <2>1, <3>1, <1>3, <1>7, <1>9
  <2>2. CASE n = r
    <3>1. /\ (m \in sub[A[o]] => <<m, o>> \in lt) /\ (m \in sub[Z[o]] => <<o, m>> \in lt)
          /\ (m \in sub[A[r]] => <<m, r>> \in lt) /\ (m \in sub[Z[r]] => <<r, m>> \in lt)
          /\ (r \in sub[A[o]] => <<r, o>> \in lt) /\ (r \in sub[Z[o]] => <<o, r>> \in lt)
      BY <1>9 DEF Sorted
    <3>2. (A = L => Z = R) /\ (A # L => A = R /\ Z = L)
      BY <1>9
    <3>3. CASE A = L
      <4>1. A2 = L2 /\ Z2 = R2 /\ Z = R
        BY <3>2, <3>3, <1>9
      <4> QED BY <2>2, <3>1, <3>3, <4>1, <1>2, <1>3, <1>7, <1>8
    <3>4. CASE A # L
      <4>1. A2 = R2 /\ Z2 = L2 /\ Z = L /\ A = R
        BY <3>2, <3>4, <1>9
      <4> QED BY <2>2, <3>1, <3>4, <4>1, <1>2, <1>3, <1>7, <1>8
    <3> QED BY <3>3, <3>4
  <2>3. CASE n \notin {o, r}
    <3>1. (m \in sub[A[n]] => <<m, n>> \in lt) /\ (m \in sub[Z[n]] => <<n, m>> \in lt)
      BY <1>9 DEF Sorted
    <3>2. new[L2[n]] = sub[L[n]] /\ new[R2[n]] = sub[R[n]]
      BY <2>3, <1>6
    <3> QED BY <3>1, <3>2, <1>9
  <2> QED BY <2>1, <2>2, <2>3
<1>10. Sorted(L, R, sub, N, lt) => Sorted(L2, R2, new, N, lt)
  BY <1>9 DEF Sorted
<1>11. Sorted(R, L, sub, N, lt) => Sorted(R2, L2, new, N, lt)
  <2>1. CASE L = R
    BY <2>1, <1>2, <1>3, Around
  <2>2. CASE L # R
    BY <2>2, <1>9 DEF Sorted
  <2> QED BY <2>1, <2>2
<1> QED BY <1>10, <1>11 DEF L2, R2, new

\* A cut keeps the other nodes sorted.
LEMMA CutSorted ==
  ASSUME NEW N, NEW L, NEW R, NEW P, NEW root, NEW sub, Hung(N, L, R, P, root, sub), IsFiniteSet(N),
         NEW o \in N, NEW x, (L[o] = NULL /\ R[o] = x) \/ (L[o] = x /\ R[o] = NULL), NEW lt
  PROVE  Sorted(L, R, sub, N \ {o}, lt)
           => Sorted(CutLink(L, o, x), CutLink(R, o, x), CutSub(sub, o), N \ {o}, lt)
<1> DEFINE M == N \ {o}
           L2 == CutLink(L, o, x)
           R2 == CutLink(R, o, x)
           new == CutSub(sub, o)
<1>1. /\ L \in [N -> N \cup {NULL}] /\ R \in [N -> N \cup {NULL}] /\ sub \in [N \cup {NULL} -> SUBSET N]
      /\ o # NULL /\ x \in N \cup {NULL} /\ x # o /\ sub[o] = {o} \cup sub[x] /\ o \notin sub[x]
  <2>1. /\ sub[o] = {o} \cup sub[L[o]] \cup sub[R[o]] /\ o \notin sub[L[o]] /\ o \notin sub[R[o]]
        /\ L[o] # o /\ R[o] # o /\ o # NULL /\ sub[NULL] = {} /\ L[o] \in N \cup {NULL} /\ R[o] \in N \cup {NULL}
    BY Around
  <2> QED BY <2>1 DEF Hung
<1>2. /\ \A n \in M : L2[n] = (IF L[n] = o THEN x ELSE L[n]) /\ R2[n] = (IF R[n] = o THEN x ELSE R[n])
      /\ \A n \in (N \cup {NULL}) \ {o} : new[n] = sub[n] \ {o}
  BY <1>1 DEF CutLink, CutSub
<1> HIDE DEF L2, R2, new
<1>3. ASSUME NEW n \in M PROVE new[L2[n]] = sub[L[n]] \ {o} /\ new[R2[n]] = sub[R[n]] \ {o}
  <2>1. new[x] = sub[o] \ {o}
    BY <1>1, <1>2
  <2>2. L[n] \in N \cup {NULL} /\ R[n] \in N \cup {NULL}
    BY <1>1
  <2> QED BY <2>1, <2>2, <1>2
<1> QED BY <1>3 DEF Sorted, L2, R2, new

\* So does a new leaf, when the descent to it went the way the order asks for.
LEMMA GraftSorted ==
  ASSUME NEW N, NEW L, NEW R, NEW P, NEW root, NEW sub, Hung(N, L, R, P, root, sub),
         NEW o, o \notin N, o # NULL, NEW Q, NEW B, NEW p, Descent(N, L, R, root, Q, B, p), NEW lt,
         Sorted(L, R, sub, N, lt), \A n \in N : (n \in B => <<o, n>> \in lt) /\ (n \notin B => <<n, o>> \in lt)
  PROVE  Sorted(GraftLink(L, o, p, p \in B), GraftLink(R, o, p, p \notin B), GraftSub(sub, Q, o), N \cup {o}, lt)
<1> DEFINE M  == N \cup {o}
           L2 == GraftLink(L, o, p, p \in B)
           R2 == GraftLink(R, o, p, p \notin B)
           new == GraftSub(sub, Q, o)
<1>1. /\ L \in [N -> N \cup {NULL}] /\ R \in [N -> N \cup {NULL}]
      /\ sub \in [N \cup {NULL} -> SUBSET N] /\ NULL \notin N /\ sub[NULL] = {}
  BY DEF Hung
<1>2. /\ Q \in SUBSET N /\ p \in Q /\ NULL \notin Q /\ o \notin Q /\ p \in N
      /\ \A n \in N : /\ L[n] \in Q <=> n \in Q /\ n \in B /\ n # p
                      /\ R[n] \in Q <=> n \in Q /\ n \notin B /\ n # p
  BY <1>1 DEF Descent
<1>3. /\ L2[o] = NULL /\ \A n \in N : L2[n] = IF n = p /\ p \in B THEN o ELSE L[n]
      /\ R2[o] = NULL /\ \A n \in N : R2[n] = IF n = p /\ p \notin B THEN o ELSE R[n]
  BY <1>1, <1>2 DEF GraftLink
<1>4. /\ new[o] = {o} /\ new[NULL] = {}
      /\ \A n \in N \cup {NULL} : (n \in Q => new[n] = sub[n] \cup {o}) /\ (n \notin Q => new[n] = sub[n])
  <2>1. new = [n \in N \cup {NULL} \cup {o} |->
                 IF n = o THEN {o} ELSE IF n \in Q THEN sub[n] \cup {o} ELSE sub[n]]
    BY <1>1 DEF GraftSub
  <2> HIDE DEF new
  <2>2. new[o] = {o} /\ new[NULL] = {}
    BY <1>1, <1>2, <2>1
  <2>3. ASSUME NEW n \in N \cup {NULL}
        PROVE  (n \in Q => new[n] = sub[n] \cup {o}) /\ (n \notin Q => new[n] = sub[n])
    BY <2>1
  <2> QED BY <2>2, <2>3
<1> HIDE DEF L2, R2, new
<1>5. ASSUME NEW n \in N, NEW m \in M
      PROVE  /\ m \in new[L2[n]] => (m \in sub[L[n]] /\ m \in N) \/ (m = o /\ n \in B)
             /\ m \in new[R2[n]] => (m \in sub[R[n]] /\ m \in N) \/ (m = o /\ n \notin B)
  <2>1. L[n] \in N \cup {NULL} /\ R[n] \in N \cup {NULL}
    BY <1>1
  <2>2. \A y \in N \cup {NULL} : new[y] \subseteq sub[y] \cup {o} /\ (y \notin Q => new[y] = sub[y]) /\ sub[y] \subseteq N
    BY <1>1, <1>4
  <2>3. m \in new[L2[n]] => (m \in sub[L[n]] /\ m \in N) \/ (m = o /\ n \in B)
    <3>1. CASE n = p /\ p \in B
      BY <3>1, <1>3, <1>4
    <3>2. CASE ~(n = p /\ p \in B)
      <4>1. L2[n] = L[n] /\ (L[n] \in Q => n \in B)
        BY <3>2, <1>2, <1>3
      <4> QED BY <4>1, <2>1, <2>2
    <3> QED BY <3>1, <3>2
  <2>4. m \in new[R2[n]] => (m \in sub[R[n]] /\ m \in N) \/ (m = o /\ n \notin B)
    <3>1. CASE n = p /\ p \notin B
      BY <3>1, <1>3, <1>4
    <3>2. CASE ~(n = p /\ p \notin B)
      <4>1. R2[n] = R[n] /\ (R[n] \in Q => n \notin B)
        BY <3>2, <1>2, <1>3
      <4> QED BY <4>1, <2>1, <2>2
    <3> QED BY <3>1, <3>2
  <2> QED BY <2>3, <2>4
<1>6. ASSUME NEW n \in M, NEW m \in M
      PROVE  (m \in new[L2[n]] => <<m, n>> \in lt) /\ (m \in new[R2[n]] => <<n, m>> \in lt)
  <2>1. CASE n = o
    BY <2>1, <1>3, <1>4
  <2>2. CASE n \in N
    BY <2>2, <1>5 DEF Sorted
  <2> QED BY <2>1, <2>2
<1> QED BY <1>6 DEF Sorted, L2, R2, new

\* o and the last node q of its left subtree exchange their names: without o,
\* the nodes are sorted.
LEMMA ExchangeSorted ==
  ASSUME NEW N, NEW L, NEW R, NEW P, NEW root, NEW sub, Hung(N, L, R, P, root, sub),
         IsFiniteSet(N), NEW lt, Total(lt, N), Sorted(L, R, sub, N, lt), NEW o \in N, NEW q \in sub[L[o]],
         \A m \in sub[L[o]] : m = q \/ <<m, q>> \in lt,
         NEW s, Exchange(N, s), s[o] = q, \A n \in N \ {o, q} : s[n] = n
  PROVE  Sorted(Renamed(L, s), Renamed(R, s), RenamedSub(N, sub, s), N \ {o}, lt)
<1> DEFINE L2 == Renamed(L, s)
           R2 == Renamed(R, s)
           new == RenamedSub(N, sub, s)
<1>1. /\ L \in [N -> N \cup {NULL}] /\ R \in [N -> N \cup {NULL}]
      /\ sub \in [N \cup {NULL} -> SUBSET N] /\ NULL \notin N
  BY DEF Hung
<1>2. /\ L[o] \in N \cup {NULL} /\ o \notin sub[L[o]] /\ sub[L[o]] \subseteq sub[o] /\ sub[o] \subseteq N
  BY Around
<1>3. q \in N /\ q # o /\ q \in sub[o] /\ s[q] = o
  BY <1>2 DEF Exchange
<1>4. <<q, o>> \in lt
  BY <1>2, <1>3 DEF Sorted
<1>4a. \A x, y, z \in N : <<x, y>> \in lt /\ <<y, z>> \in lt => <<x, z>> \in lt
  BY DEF Total
<1>5. \A n \in N : s[n] \in N /\ L[s[n]] \in N \cup {NULL} /\ R[s[n]] \in N \cup {NULL}
  BY <1>1, <1>3
<1>6. ASSUME NEW n \in N, NEW m \in N
      PROVE  (m \in new[L2[n]] <=> s[m] \in sub[L[s[n]]]) /\ (m \in new[R2[n]] <=> s[m] \in sub[R[s[n]]])
  <2>1. L2[n] = s[L[s[n]]] /\ R2[n] = s[R[s[n]]]
    BY <1>1 DEF Renamed
  <2>2. \A x \in N \cup {NULL} : s[x] \in N \cup {NULL} /\ s[s[x]] = x
    BY DEF Exchange
  <2> HIDE DEF L2, R2
  <2>3. s[L2[n]] = L[s[n]] /\ s[R2[n]] = R[s[n]] /\ L2[n] \in N \cup {NULL} /\ R2[n] \in N \cup {NULL}
    BY <2>1, <2>2, <1>5, ZenonT(60)
  <2> QED BY <2>3, <1>1 DEF RenamedSub
<1> HIDE DEF L2, R2, new
<1>7. ASSUME NEW n \in N \ {o}, NEW m \in N \ {o}
      PROVE  (m \in new[L2[n]] => <<m, n>> \in lt) /\ (m \in new[R2[n]] => <<n, m>> \in lt)
  <2>0. \A x, y \in N : (x \in sub[L[y]] => <<x, y>> \in lt) /\ (x \in sub[R[y]] => <<y, x>> \in lt)
    BY DEF Sorted
  <2>1. CASE n # q /\ m # q
    BY <2>0, <2>1, <1>6
  <2>2. CASE n = q /\ m # q
    <3>1. s[n] = o /\ s[m] = m /\ m \in N
      BY <2>2, <1>3
    <3>2. m \in sub[R[o]] => <<q, m>> \in lt
      BY <2>0, <1>3, <1>4, <1>4a
    <3>3. (m \in new[L2[n]] <=> m \in sub[L[o]]) /\ (m \in new[R2[n]] <=> m \in sub[R[o]])
      BY <3>1, <1>6
    <3> QED BY <3>2, <3>3, <2>2
  <2>3. CASE n # q /\ m = q
    <3>1. s[n] = n /\ s[m] = o
      BY <2>3, <1>3
    <3>2. o \in sub[L[n]] => <<q, n>> \in lt
      BY <2>0, <1>3, <1>4, <1>4a
    <3>3. o \in sub[R[n]] => <<n, q>> \in lt
      <4>1. o \in sub[R[n]] => sub[o] \subseteq sub[R[n]]
        <5>1. R[n] \in N \cup {NULL} /\ sub[NULL] = {}
          BY Around
        <5> QED BY <5>1, Nested
      <4> QED BY <4>1, <2>0, <1>3
    <3> QED BY <3>1, <3>2, <3>3, <1>6, <2>3
  <2>4. CASE n = q /\ m = q
    <3>1. s[n] = o /\ s[m] = o /\ o \notin sub[L[o]] /\ o \notin sub[R[o]]
      BY <2>4, <1>3, Around
    <3> QED BY <3>1, <1>6
  <2> QED BY <2>1, <2>2, <2>3, <2>4
<1> QED BY <1>7 DEF Sorted, L2, R2, new

\* Going right as long as possible leads to the last node of a subtree, which is
\* the right child of its parent unless it is the subtree's top.
LEMMA LastSorted ==
  ASSUME NEW N, NEW L, NEW R, NEW P, NEW root, NEW sub, Hung(N, L, R, P, root, sub),
         IsFiniteSet(N), NEW lt, Total(lt, N), Sorted(L, R, sub, N, lt), NEW last, Lasts(N, R, last), NEW n \in N
  PROVE  /\ last[n] \in sub[n] /\ R[last[n]] = NULL
         /\ \A m \in sub[n] : m = last[n] \/ <<m, last[n]>> \in lt
         /\ last[n] = n \/ (P[last[n]] \in sub[n] /\ R[P[last[n]]] = last[n])
<1> DEFINE Fit(x) == /\ last[x] \in sub[x] /\ R[last[x]] = NULL
                     /\ \A m \in sub[x] : m = last[x] \/ <<m, last[x]>> \in lt
                     /\ last[x] = x \/ (P[last[x]] \in sub[x] /\ R[P[last[x]]] = last[x])
           T == {x \in N : ~Fit(x)}
<1>0. \A x, y, z \in N : <<x, y>> \in lt /\ <<y, z>> \in lt => <<x, z>> \in lt
  BY DEF Total
<1>1. ASSUME NEW x \in N, R[x] \notin T PROVE Fit(x)
  <2> DEFINE r == R[x]
             q == last[x]
  <2>1. /\ r \in N \cup {NULL} /\ sub[x] = {x} \cup sub[L[x]] \cup sub[r] /\ x \in sub[x]
        /\ sub[x] \subseteq N /\ (r # NULL => P[r] = x /\ r \in sub[x])
    BY Around
  <2>2. (\A m \in sub[L[x]] : <<m, x>> \in lt) /\ (\A m \in sub[r] : <<x, m>> \in lt)
    BY <2>1 DEF Sorted
  <2>3. CASE r = NULL
    <3>1. q = x /\ sub[r] = {}
      BY <2>3 DEF Lasts, Hung
    <3> QED BY <3>1, <2>1, <2>2, <2>3
  <2>4. CASE r # NULL
    <3>1. r \in N /\ q = last[r] /\ Fit(r)
      BY <2>1, <2>4, <1>1 DEF Lasts
    <3>2. q \in sub[r] /\ R[q] = NULL /\ (\A m \in sub[r] : m = q \/ <<m, q>> \in lt)
          /\ (q = r \/ (P[q] \in sub[r] /\ R[P[q]] = q))
      BY <3>1
    <3> HIDE DEF q, r
    <3>3. <<x, q>> \in lt /\ q \in sub[x]
      BY <3>2, <2>1, <2>2
    <3>4. ASSUME NEW m \in sub[x] PROVE m = q \/ <<m, q>> \in lt
      <4>1. m \in N /\ (m = x \/ <<m, x>> \in lt \/ m \in sub[r]) /\ x \in N /\ q \in N
        BY <2>1, <2>2, <3>3
      <4> QED BY <4>1, <3>2, <3>3, <1>0
    <3>5. P[q] \in sub[x] /\ R[P[q]] = q
      <4>1. CASE q = r
        BY <4>1, <2>1, <2>4 DEF r
      <4>2. CASE q # r
        BY <4>2, <3>2, <2>1
      <4> QED BY <4>1, <4>2
    <3> QED BY <3>2, <3>3, <3>4, <3>5 DEF q
  <2> QED BY <2>3, <2>4
<1>2. T = {}
  <2>1. T \in SUBSET N
    OBVIOUS
  <2>2. \A x \in T : R[x] \in T
    BY <1>1
  <2> HIDE DEF T
  <2> QED BY <2>1, <2>2, DownInduction
<1> QED BY <1>2

-----------------------------------------------------------------------------
(* Ways down and up that a recursive function follows.                     *)

\* From a child to its parent, a number goes down.
LEMMA Depths ==
  ASSUME NEW N, NEW L, NEW R, NEW P, NEW root, NEW sub, Hung(N, L, R, P, root, sub), IsFiniteSet(N)
  PROVE  \E rank \in [N -> Nat] : \A n \in N : P[n] # NULL => P[n] \in N /\ rank[P[n]] < rank[n]
<1> DEFINE W == Weight(sub)
           c == Cardinality(N)
           rank == [n \in N |-> c - W[n]]
<1>1. /\ W \in [N \cup {NULL} -> Nat] /\ \A n \in N : W[n] <= c /\ W[L[n]] < W[n] /\ W[R[n]] < W[n]
      /\ c \in Nat
  BY Weights, FS_CardinalityType
<1> HIDE DEF W, c
<1>2. rank \in [N -> Nat] /\ \A n \in N : rank[n] = c - W[n]
  BY <1>1
<1> HIDE DEF rank
<1>3. ASSUME NEW n \in N, P[n] # NULL PROVE P[n] \in N /\ rank[P[n]] < rank[n]
  <2>1. P[n] \in N /\ n \in {L[P[n]], R[P[n]]}
    BY <1>3, Around
  <2>2. W[n] < W[P[n]] /\ W[n] \in Nat /\ W[P[n]] \in Nat
    BY <2>1, <1>1
  <2> QED BY <2>1, <2>2, <1>1, <1>2
<1> QED BY <1>2, <1>3

\* f gives the way from a node along A, as long as it meets the nodes Go.
Ways(N, A, Go, f) == \A n \in N : f[n] = {n} \cup IF n \in Go THEN f[A[n]] ELSE {}

\* There is such a function.
LEMMA WaysExist ==
  ASSUME NEW N, NEW rank \in [N -> Nat], NEW A, NEW Go, Go \subseteq N,
         \A n \in Go : A[n] \in N /\ rank[A[n]] < rank[n]
  PROVE  \E f \in [N -> SUBSET N] : Ways(N, A, Go, f)
<1> DEFINE G == [m \in N |-> [g \in [N -> SUBSET N] |-> {m} \cup IF m \in Go THEN g[A[m]] ELSE {}]]
<1>1. \E g \in [N -> SUBSET N] : \A m \in N : g[m] = G[m][g]
  <2>1. G \in [N -> [[N -> SUBSET N] -> SUBSET N]]
    OBVIOUS
  <2>2. ASSUME NEW m \in N, NEW g \in [N -> SUBSET N], NEW h \in [N -> SUBSET N],
               \A x \in N : rank[x] < rank[m] => g[x] = h[x]
        PROVE  G[m][g] = G[m][h]
    <3>1. G[m][g] = ({m} \cup IF m \in Go THEN g[A[m]] ELSE {}) /\ G[m][h] = ({m} \cup IF m \in Go THEN h[A[m]] ELSE {})
      OBVIOUS
    <3>2. m \in Go => g[A[m]] = h[A[m]]
      BY <2>2
    <3> HIDE DEF G
    <3> QED BY <3>1, <3>2
  <2> HIDE DEF G
  <2>3. Recursive(N, rank, SUBSET N, G)
    BY <2>1, <2>2 DEF Recursive
  <2> QED BY <2>3, RecursionWorks
<1>2. PICK g \in [N -> SUBSET N] : \A m \in N : g[m] = G[m][g]
  BY <1>1
<1>3. \A m \in N : G[m][g] = ({m} \cup IF m \in Go THEN g[A[m]] ELSE {})
  BY <1>2
<1> HIDE DEF G
<1> QED BY <1>2, <1>3 DEF Ways

\* w holds what the way from n goes through, and has one end.
Way(A, Go, n, w) ==
  /\ n \in w /\ \A m \in w \cap Go : A[m] \in w
  /\ \A S : n \in S /\ (\A m \in S \cap Go : A[m] \in S) => w \subseteq S
  /\ \E m \in w \ Go : w \ Go = {m}

\* Such a function gives ways.
LEMMA WaysEnd ==
  ASSUME NEW N, NEW rank \in [N -> Nat], NEW A, NEW Go, Go \subseteq N,
         \A n \in Go : A[n] \in N /\ rank[A[n]] < rank[n], NEW f, Ways(N, A, Go, f), NEW n \in N
  PROVE  f[n] \subseteq N /\ Way(A, Go, n, f[n])
<1>4. \A m \in N : f[m] = {m} \cup IF m \in Go THEN f[A[m]] ELSE {}
  BY DEF Ways
<1>5. ASSUME NEW T \in SUBSET N, \A m \in T : m \in Go /\ A[m] \in T PROVE T = {}
  <2> SUFFICES ASSUME T # {} PROVE FALSE
    OBVIOUS
  <2>1. PICK m \in T : \A x \in T : rank[m] <= rank[x]
    BY LeastRank
  <2>2. rank[A[m]] < rank[m] /\ rank[A[m]] \in Nat /\ rank[m] \in Nat /\ A[m] \in T
    BY <1>5
  <2> QED BY <2>1, <2>2
<1> DEFINE Fit(x) == /\ f[x] \subseteq N /\ (\A m \in f[x] \cap Go : A[m] \in f[x])
                     /\ \E m \in f[x] \ Go : f[x] \ Go = {m}
           T == {x \in N : ~Fit(x)}
<1>6. ASSUME NEW x \in T PROVE x \in Go /\ A[x] \in T
  <2>0. x \in N
    OBVIOUS
  <2>1. CASE x \notin Go
    <3>1. f[x] = {x}
      BY <2>0, <2>1, <1>4
    <3> QED BY <3>1, <2>0, <2>1
  <2>2. CASE x \in Go /\ A[x] \notin T
    <3>1. f[x] = {x} \cup f[A[x]] /\ A[x] \in N /\ Fit(A[x])
      BY <2>0, <2>2, <1>4
    <3>2. A[x] \in f[A[x]]
      BY <3>1, <1>4
    <3>3. f[x] \subseteq N
      BY <3>1, <2>0
    <3>4. \A m \in f[x] \cap Go : A[m] \in f[x]
      BY <3>1, <3>2
    <3>5. \E m \in f[x] \ Go : f[x] \ Go = {m}
      BY <3>1, <2>2
    <3> QED BY <3>3, <3>4, <3>5, <2>0
  <2> QED BY <2>1, <2>2
<1>7. T = {}
  <2>1. T \in SUBSET N
    OBVIOUS
  <2> HIDE DEF T
  <2> QED BY <2>1, <1>5, <1>6
<1>8. Fit(n) /\ n \in f[n]
  BY <1>4, <1>7
<1>9. ASSUME NEW S, n \in S, \A m \in S \cap Go : A[m] \in S PROVE f[n] \subseteq S
  <2> DEFINE U == {x \in N : x \in S /\ ~(f[x] \subseteq S)}
  <2>1. ASSUME NEW x \in U PROVE x \in Go /\ A[x] \in U
    <3>1. x \in N /\ x \in S
      OBVIOUS
    <3>2. x \in Go
      BY <3>1, <1>4
    <3>3. f[x] = {x} \cup f[A[x]] /\ A[x] \in S /\ A[x] \in N
      BY <3>1, <3>2, <1>4, <1>9
    <3> QED BY <3>1, <3>2, <3>3
  <2>2. U = {}
    <3>1. U \in SUBSET N
      OBVIOUS
    <3> HIDE DEF U
    <3> QED BY <3>1, <2>1, <1>5
  <2> QED BY <2>2, <1>9
<1> QED BY <1>8, <1>9 DEF Way

\* f gives the node where the way down ends that goes left at the nodes B, and
\* stops at the nodes Stop.
DownEnds(N, L, R, B, Stop, f) ==
  \A n \in N : f[n] = LET next == IF n \in B THEN L[n] ELSE R[n]
                      IN IF n \in Stop \/ next = NULL THEN n ELSE f[next]

\* There is such a function.
LEMMA EndsExist ==
  ASSUME NEW N, NEW L, NEW R, NEW P, NEW root, NEW sub, Hung(N, L, R, P, root, sub), IsFiniteSet(N),
         NEW B, NEW Stop, N # {}
  PROVE  \E f \in [N -> N] : DownEnds(N, L, R, B, Stop, f)
<1> DEFINE next(n) == IF n \in B THEN L[n] ELSE R[n]
           halt(n) == n \in Stop \/ next(n) = NULL
           G == [n \in N |-> [g \in [N -> N] |-> IF halt(n) THEN n ELSE g[next(n)]]]
<1>1. \A n \in N : next(n) \in N \cup {NULL} /\ next(n) \in {L[n], R[n]}
  BY DEF Hung
<1>2. \E g \in [N -> N] : \A n \in N : g[n] = G[n][g]
  <2>1. G \in [N -> [[N -> N] -> N]] /\ \A n \in N, g \in [N -> N] : G[n][g] = IF halt(n) THEN n ELSE g[next(n)]
    BY <1>1
  <2> HIDE DEF G
  <2>2. ASSUME NEW n \in N, NEW g \in [N -> N], NEW h \in [N -> N],
               n \in N => \A m \in N : m \in {L[n], R[n]} => g[m] = h[m]
        PROVE  G[n][g] = G[n][h]
    <3>1. ~halt(n) => next(n) \in N /\ next(n) \in {L[n], R[n]}
      BY <1>1
    <3> HIDE DEF next
    <3> QED BY <2>1, <2>2, <3>1
  <2>3. ByChildren(N, L, R, N, N, G)
    BY <2>1, <2>2 DEF ByChildren
  <2> HIDE DEF next, halt
  <2> QED BY <2>3, DownRecursion
<1>3. PICK g \in [N -> N] : \A n \in N : g[n] = G[n][g]
  BY <1>2
<1>4. \A n \in N : G[n][g] = IF halt(n) THEN n ELSE g[next(n)]
  BY <1>3
<1> HIDE DEF G
<1> QED BY <1>3, <1>4 DEF DownEnds

\* p is where such a way ends.
Ended(N, L, R, sub, root, B, Stop, p) ==
  /\ p \in N
  /\ p \notin Stop => Descent(N, L, R, root, {n \in N : p \in sub[n]}, B, p)
  /\ \A o \in N \cap Stop :
       (\A n \in N : /\ o \in sub[L[n]] => n \in B /\ n \notin Stop
                     /\ o \in sub[R[n]] => n \notin B /\ n \notin Stop) => p = o
\* The way down leads into the subtree; it ends where a descent does, unless it stops.
LEMMA EndsDescend ==
  ASSUME NEW N, NEW L, NEW R, NEW P, NEW root, NEW sub, Hung(N, L, R, P, root, sub), IsFiniteSet(N),
         NEW B, NEW Stop, root \in N, NEW f, DownEnds(N, L, R, B, Stop, f)
  PROVE  Ended(N, L, R, sub, root, B, Stop, f[root])
<1> DEFINE next(n) == IF n \in B THEN L[n] ELSE R[n]
           halt(n) == n \in Stop \/ next(n) = NULL
<1>1. \A n \in N : next(n) \in N \cup {NULL} /\ next(n) \in {L[n], R[n]}
  BY DEF Hung
<1>5. \A n \in N : f[n] = IF halt(n) THEN n ELSE f[next(n)]
  BY DEF DownEnds
<1>6. \A n \in N : f[n] \in sub[n]
  <2> DEFINE T == {n \in N : f[n] \notin sub[n]}
  <2>1. ASSUME NEW n \in T PROVE L[n] \in T \/ R[n] \in T
    <3>1. ~halt(n) /\ n \in N
      BY <1>5, Around
    <3>2. f[n] = f[next(n)] /\ next(n) \in N /\ next(n) \in {L[n], R[n]}
      <4>1. f[n] = f[next(n)] /\ next(n) # NULL
        BY <3>1, <1>5
      <4> QED BY <4>1, <3>1, <1>1
    <3>3. sub[L[n]] \subseteq sub[n] /\ sub[R[n]] \subseteq sub[n]
      BY <3>1, Around
    <3> HIDE DEF next, halt
    <3> QED BY <3>1, <3>2, <3>3
  <2>2. T = {}
    <3>1. T \in SUBSET N
      OBVIOUS
    <3> HIDE DEF T
    <3> QED BY <3>1, <2>1, DownInduction
  <2> QED BY <2>2
<1> DEFINE p == f[root]
           Q == {n \in N : p \in sub[n]}
<1>7. p \in N /\ root \in Q /\ p \in Q
  <2>1. sub[root] = N
    BY DEF Hung
  <2>2. p \in N
    BY <1>6, <2>1
  <2> QED BY <2>1, <2>2, Around
<1> HIDE DEF p
<1>8. \A n \in Q : f[n] = p
  <2> DEFINE T == {n \in Q : f[n] # p}
  <2>1. ASSUME NEW n \in T PROVE P[n] \in T
    <3>0. n \in N /\ p \in sub[n] /\ f[n] # p
      OBVIOUS
    <3>1. P[n] \in N /\ n \in {L[P[n]], R[P[n]]} /\ P[n] \notin sub[n]
      <4>1. n # root
        BY <3>0 DEF p
      <4> QED BY <4>1, <3>0, Around
    <3>2. /\ sub[P[n]] = {P[n]} \cup sub[L[P[n]]] \cup sub[R[P[n]]] /\ sub[L[P[n]]] \cap sub[R[P[n]]] = {}
          /\ sub[NULL] = {}
      BY <3>1 DEF Hung
    <3>3. ASSUME f[P[n]] = p PROVE FALSE
      <4>1. P[n] # p
        BY <3>0, <3>1
      <4>2. ~halt(P[n])
        BY <4>1, <3>1, <3>3, <1>5
      <4>3. p = f[next(P[n])] /\ next(P[n]) # NULL
        BY <4>2, <3>1, <3>3, <1>5
      <4>4. next(P[n]) \in N /\ next(P[n]) \in {L[P[n]], R[P[n]]}
        BY <4>3, <3>1, <1>1
      <4> HIDE DEF next, halt
      <4>5. p \in sub[next(P[n])]
        BY <4>3, <4>4, <1>6
      <4>6. next(P[n]) = n
        BY <4>4, <4>5, <3>0, <3>1, <3>2
      <4> QED BY <4>3, <4>6, <3>0
    <3> QED BY <3>0, <3>1, <3>2, <3>3
  <2>2. T = {}
    <3>1. T \in SUBSET N
      OBVIOUS
    <3> HIDE DEF T, Q
    <3> QED BY <3>1, <2>1, UpInduction
  <2> QED BY <2>2
<1>9. ASSUME p \notin Stop PROVE Descent(N, L, R, root, Q, B, p)
  <2>1. ASSUME NEW n \in N
        PROVE /\ L[n] \in Q <=> n \in Q /\ n \in B /\ n # p
              /\ R[n] \in Q <=> n \in Q /\ n \notin B /\ n # p
    <3>1. /\ sub[n] = {n} \cup sub[L[n]] \cup sub[R[n]] /\ sub[L[n]] \cap sub[R[n]] = {}
          /\ n \notin sub[L[n]] /\ n \notin sub[R[n]] /\ sub[NULL] = {} /\ NULL \notin N
          /\ L[n] \in N \cup {NULL} /\ R[n] \in N \cup {NULL}
      BY DEF Hung
    <3>2. (L[n] \in Q <=> p \in sub[L[n]]) /\ (R[n] \in Q <=> p \in sub[R[n]])
      BY <3>1
    <3>3. ASSUME n \in Q, n # p PROVE p \in sub[next(n)]
      <4>1. f[n] = p
        BY <3>3, <1>8
      <4>2. ~halt(n)
        BY <4>1, <3>3, <1>5
      <4>3. f[next(n)] = p /\ next(n) # NULL
        BY <4>1, <4>2, <1>5
      <4> QED BY <4>3, <1>1, <1>6
    <3> QED BY <3>1, <3>2, <3>3
  <2>2. IF p \in B THEN L[p] = NULL ELSE R[p] = NULL
    <3>1. f[p] = p
      BY <1>7, <1>8
    <3>2. ASSUME ~halt(p) PROVE FALSE
      <4>1. p = f[next(p)] /\ next(p) # NULL
        BY <3>1, <3>2, <1>5, <1>7
      <4>2. next(p) \in N /\ next(p) \in {L[p], R[p]}
        BY <4>1, <1>1, <1>7
      <4> HIDE DEF next, halt
      <4>3. p \in sub[next(p)]
        BY <4>1, <4>2, <1>6
      <4>4. p \notin sub[L[p]] /\ p \notin sub[R[p]]
        BY <1>7, Around
      <4> QED BY <4>2, <4>3, <4>4
    <3> QED BY <3>2, <1>9
  <2> QED BY <2>1, <2>2, <1>7 DEF Descent
<1>10. ASSUME NEW o \in N \cap Stop,
              \A n \in N : /\ o \in sub[L[n]] => n \in B /\ n \notin Stop
                           /\ o \in sub[R[n]] => n \notin B /\ n \notin Stop
       PROVE  p = o
  <2> DEFINE T == {n \in N : o \in sub[n] /\ f[n] # o}
  <2>1. ASSUME NEW n \in T PROVE L[n] \in T \/ R[n] \in T
    <3>0. n \in N /\ o \in sub[n] /\ f[n] # o
      OBVIOUS
    <3>1. n # o
      BY <3>0, <1>5
    <3>2. sub[n] = {n} \cup sub[L[n]] \cup sub[R[n]] /\ sub[NULL] = {} /\ L[n] \in N \cup {NULL} /\ R[n] \in N \cup {NULL}
      BY <3>0, Around
    <3>3. (o \in sub[L[n]] => n \in B /\ n \notin Stop) /\ (o \in sub[R[n]] => n \notin B /\ n \notin Stop)
      BY <3>0, <1>10
    <3>4. o \in sub[next(n)] /\ n \notin Stop
      BY <3>0, <3>1, <3>2, <3>3
    <3>5. ~halt(n)
      BY <3>2, <3>4
    <3>6. f[n] = f[next(n)]
      BY <3>0, <3>5, <1>5
    <3>7. next(n) \in N /\ next(n) \in {L[n], R[n]}
      BY <3>0, <3>2, <3>4
    <3> HIDE DEF next, halt
    <3> QED BY <3>0, <3>4, <3>6, <3>7
  <2>2. T = {}
    <3>1. T \in SUBSET N
      OBVIOUS
    <3> HIDE DEF T
    <3> QED BY <3>1, <2>1, DownInduction
  <2>3. sub[root] = N
    BY DEF Hung
  <2> QED BY <2>2, <2>3 DEF p
<1>11. p \notin Stop => Descent(N, L, R, root, {n \in N : p \in sub[n]}, B, p)
  BY <1>9
<1>12. Ended(N, L, R, sub, root, B, Stop, p)
  BY <1>7, <1>10, <1>11, Zenon DEF Ended
<1> QED BY <1>12 DEF p

\* A subtree holds the parents of its nodes, but for the one at its top.
LEMMA ParentBelow ==
  ASSUME NEW N, NEW L, NEW R, NEW P, NEW root, NEW sub, Hung(N, L, R, P, root, sub), IsFiniteSet(N),
         NEW n \in N, NEW m \in sub[n], m # n
  PROVE  P[m] \in sub[n]
<1> DEFINE T == {x \in N : \E y \in sub[x] : y # x /\ P[y] \notin sub[x]}
<1>1. ASSUME NEW x \in T PROVE L[x] \in T \/ R[x] \in T
  <2>1. PICK y \in sub[x] : y # x /\ P[y] \notin sub[x]
    OBVIOUS
  <2>2. /\ x \in N /\ sub[x] = {x} \cup sub[L[x]] \cup sub[R[x]] /\ L[x] \in N \cup {NULL} /\ R[x] \in N \cup {NULL}
        /\ (L[x] # NULL => P[L[x]] = x) /\ (R[x] # NULL => P[R[x]] = x) /\ sub[NULL] = {} /\ x \in sub[x]
    BY Around
  <2>3. CASE y \in sub[L[x]]
    BY <2>1, <2>2, <2>3
  <2>4. CASE y \in sub[R[x]]
    BY <2>1, <2>2, <2>4
  <2> QED BY <2>1, <2>2, <2>3, <2>4
<1>2. T = {}
  <2>1. T \in SUBSET N
    OBVIOUS
  <2> HIDE DEF T
  <2> QED BY <2>1, <1>1, DownInduction
<1> QED BY <1>2


-----------------------------------------------------------------------------
(* Walks from each node to the next, in any order.                         *)

\* The order, backwards.
Backwards(lt, N) == {p \in N \X N : <<p[2], p[1]>> \in lt}

\* Going left as long as possible leads to the first node of a subtree.
LEMMA FirstSorted ==
  ASSUME NEW N, NEW L, NEW R, NEW P, NEW root, NEW sub, Hung(N, L, R, P, root, sub),
         IsFiniteSet(N), NEW lt, Total(lt, N), Sorted(L, R, sub, N, lt), NEW first, Lasts(N, L, first), NEW n \in N
  PROVE  first[n] \in sub[n] /\ \A m \in sub[n] : m = first[n] \/ <<first[n], m>> \in lt
<1> DEFINE gt == Backwards(lt, N)
<1>1. \A x, y \in N : <<x, y>> \in gt <=> <<y, x>> \in lt
  BY DEF Backwards
<1> HIDE DEF gt
<1>2. Total(gt, N)
  BY <1>1 DEF Total
<1>3. Sorted(R, L, sub, N, gt)
  BY <1>1 DEF Sorted
<1>4. Hung(N, R, L, P, root, sub)
  BY Mirror
<1>5. first[n] \in sub[n] /\ \A m \in sub[n] : m = first[n] \/ <<m, first[n]>> \in gt
  BY <1>2, <1>3, <1>4, LastSorted
<1>6. sub[n] \subseteq N
  BY Around
<1> QED BY <1>1, <1>5, <1>6

\* All of A comes before n, or all of it after.
Aside(A, n, lt) == (\A k \in A : <<k, n>> \in lt) \/ (\A k \in A : <<n, k>> \in lt)

\* A node outside of a subtree comes before or after all of it.
LEMMA IntervalSorted ==
  ASSUME NEW N, NEW L, NEW R, NEW P, NEW root, NEW sub, Hung(N, L, R, P, root, sub),
         IsFiniteSet(N), NEW lt, Total(lt, N), Sorted(L, R, sub, N, lt), NEW m \in N, NEW n \in N \ sub[m]
  PROVE  Aside(sub[m], n, lt)
<1> DEFINE T == {x \in N : n \notin sub[x] /\ ~Aside(sub[x], n, lt)}
<1>0. \A x, y, z \in N : <<x, y>> \in lt /\ <<y, z>> \in lt => <<x, z>> \in lt
  BY DEF Total
<1>1. ASSUME NEW x \in N, P[x] \notin T, n \notin sub[x] PROVE Aside(sub[x], n, lt)
  <2> DEFINE p == P[x]
  <2>1. p # NULL
    <3>1. x = root => sub[x] = N
      BY DEF Hung
    <3> QED BY <3>1, <1>1, Around
  <2>2. p \in N /\ x \in {L[p], R[p]} /\ x \in N
    BY <2>1, Around
  <2>3. /\ sub[p] = {p} \cup sub[L[p]] \cup sub[R[p]] /\ sub[p] \subseteq N
        /\ (\A k \in sub[L[p]] : <<k, p>> \in lt) /\ (\A k \in sub[R[p]] : <<p, k>> \in lt)
    <3> HIDE DEF p
    <3>1. sub[p] = {p} \cup sub[L[p]] \cup sub[R[p]] /\ sub[p] \subseteq N
      BY <2>2, Around
    <3> QED BY <3>1, <2>2 DEF Sorted
  <2>5. CASE n \notin sub[p]
    <3>1. Aside(sub[p], n, lt)
      BY <2>2, <2>5, <1>1
    <3>2. sub[x] \subseteq sub[p]
      BY <2>2, <2>3
    <3> QED BY <3>1, <3>2 DEF Aside
  <2>6. CASE n \in sub[p] /\ x = L[p]
    <3>1. n = p \/ <<p, n>> \in lt
      BY <2>3, <2>6, <1>1
    <3>2. ASSUME NEW k \in sub[x] PROVE <<k, n>> \in lt
      <4>1. <<k, p>> \in lt /\ k \in N /\ p \in N
        BY <2>2, <2>3, <2>6
      <4> QED BY <4>1, <3>1, <1>0
    <3> QED BY <3>2 DEF Aside
  <2>7. CASE n \in sub[p] /\ x = R[p]
    <3>1. n = p \/ <<n, p>> \in lt
      BY <2>3, <2>7, <1>1
    <3>2. ASSUME NEW k \in sub[x] PROVE <<n, k>> \in lt
      <4>1. <<p, k>> \in lt /\ k \in N /\ p \in N
        BY <2>2, <2>3, <2>7
      <4> QED BY <4>1, <3>1, <1>0
    <3> QED BY <3>2 DEF Aside
  <2> QED BY <2>2, <2>5, <2>6, <2>7
<1>2. T = {}
  <2>1. T \in SUBSET N
    OBVIOUS
  <2>2. \A x \in T : P[x] \in T
    BY <1>1
  <2> HIDE DEF T
  <2> QED BY <2>1, <2>2, UpInduction
<1> QED BY <1>2

\* y is the first node after all of x's subtree, or NULL where there is none.
FollowsIn(N, sub, lt, x, y) ==
  /\ y \in N \cup {NULL}
  /\ y # NULL => \A k \in sub[x] : <<k, y>> \in lt
  /\ \A n \in N \ sub[x] : <<x, n>> \in lt => y # NULL /\ (y = n \/ <<y, n>> \in lt)

\* Climbing as long as one comes from the right leads to what follows a subtree.
LEMMA NextFollowsSorted ==
  ASSUME NEW N, NEW L, NEW R, NEW P, NEW root, NEW sub, Hung(N, L, R, P, root, sub),
         IsFiniteSet(N), NEW lt, Total(lt, N), Sorted(L, R, sub, N, lt),
         NEW next, Nexts(N, R, P, next), NEW n \in N
  PROVE  FollowsIn(N, sub, lt, n, next[n])
<1> DEFINE T == {x \in N : ~FollowsIn(N, sub, lt, x, next[x])}
<1>0. /\ \A x, y, z \in N : <<x, y>> \in lt /\ <<y, z>> \in lt => <<x, z>> \in lt
      /\ \A x \in N : <<x, x>> \notin lt
  BY DEF Total
<1>1. ASSUME NEW x \in N, P[x] \notin T PROVE FollowsIn(N, sub, lt, x, next[x])
  <2> DEFINE p == P[x]
  <2>1. CASE p = NULL
    <3>1. sub[x] = N
      <4>1. x = root
        BY <2>1, Around
      <4> QED BY <4>1 DEF Hung
    <3>2. next[x] = NULL
      BY <2>1 DEF Nexts
    <3> QED BY <3>1, <3>2 DEF FollowsIn
  <2>2. CASE p # NULL
    <3>1. p \in N /\ x \in {L[p], R[p]} /\ x \in sub[x]
      BY <2>2, Around
    <3>2. /\ sub[p] = {p} \cup sub[L[p]] \cup sub[R[p]] /\ sub[p] \subseteq N
          /\ (\A k \in sub[L[p]] : <<k, p>> \in lt) /\ (\A k \in sub[R[p]] : <<p, k>> \in lt)
          /\ L[p] # R[p] \/ L[p] = NULL
      <4> HIDE DEF p
      <4>1. /\ sub[p] = {p} \cup sub[L[p]] \cup sub[R[p]] /\ sub[p] \subseteq N
            /\ L[p] # R[p] \/ L[p] = NULL
        BY <3>1, Around
      <4> QED BY <4>1, <3>1 DEF Sorted
    <3>4. ASSUME NEW m \in N \ sub[p], <<x, m>> \in lt PROVE <<p, m>> \in lt
      <4>1. p \in sub[p] /\ x \in sub[p]
        BY <3>1, <3>2
      <4>2. Aside(sub[p], m, lt)
        BY <3>1, IntervalSorted
      <4>3. <<m, x>> \notin lt
        BY <3>4, <1>0
      <4> QED BY <4>1, <4>2, <4>3 DEF Aside
    <3>5. CASE x = R[p]
      <4>1. next[x] = next[p] /\ FollowsIn(N, sub, lt, p, next[p])
        BY <2>2, <3>1, <3>5, <1>1 DEF Nexts
      <4>2. next[p] # NULL => \A k \in sub[x] : <<k, next[p]>> \in lt
        BY <4>1, <3>2, <3>5 DEF FollowsIn
      <4>3. ASSUME NEW m \in N \ sub[x], <<x, m>> \in lt
            PROVE  next[p] # NULL /\ (next[p] = m \/ <<next[p], m>> \in lt)
        <5>1. m \notin sub[p]
          <6>1. <<p, x>> \in lt
            BY <3>1, <3>2, <3>5
          <6>2. <<p, m>> \in lt
            BY <6>1, <4>3, <3>1, <1>0
          <6>3. m # p /\ <<m, p>> \notin lt
            BY <6>2, <3>1, <1>0
          <6> QED BY <6>3, <3>2, <3>5
        <5> QED BY <5>1, <4>1, <4>3, <3>4 DEF FollowsIn
      <4> QED BY <4>1, <4>2, <4>3 DEF FollowsIn
    <3>6. CASE x = L[p] /\ x # R[p]
      <4>1. next[x] = p
        BY <3>6 DEF Nexts
      <4>2. ASSUME NEW m \in N \ sub[x], <<x, m>> \in lt PROVE p = m \/ <<p, m>> \in lt
        <5>1. m \in sub[p] => m = p \/ <<p, m>> \in lt
          BY <3>2, <3>6
        <5> QED BY <5>1, <4>2, <3>4
      <4> QED BY <4>1, <4>2, <2>2, <3>1, <3>2, <3>6 DEF FollowsIn
    <3> QED BY <3>1, <3>5, <3>6
  <2> QED BY <2>1, <2>2
<1>2. T = {}
  <2>1. T \in SUBSET N
    OBVIOUS
  <2>2. \A x \in T : P[x] \in T
    BY <1>1
  <2> HIDE DEF T
  <2> QED BY <2>1, <2>2, UpInduction
<1> QED BY <1>2

\* next[n] is the first of the nodes N after n, or NULL.
AdvancesIn(N, next, lt) ==
  /\ IsFiniteSet(N) /\ NULL \notin N /\ Total(lt, N)
  /\ next \in [N -> N \cup {NULL}]
  /\ \A n \in N : next[n] # NULL => <<n, next[n]>> \in lt
  /\ \A n, m \in N : <<n, m>> \in lt => next[n] # NULL /\ (next[n] = m \/ <<next[n], m>> \in lt)

\* A step to the first node on the right, or else to what follows the subtree, does that.
LEMMA StepsAdvance ==
  ASSUME NEW N, NEW L, NEW R, NEW P, NEW root, NEW sub, Hung(N, L, R, P, root, sub),
         IsFiniteSet(N), NEW lt, Total(lt, N), Sorted(L, R, sub, N, lt),
         NEW first, Lasts(N, L, first), NEW back, Nexts(N, R, P, back),
         NEW next \in [N -> N \cup {NULL}],
         \A n \in N : next[n] = IF R[n] # NULL THEN first[R[n]] ELSE back[n]
  PROVE  AdvancesIn(N, next, lt)
<1>0. /\ \A x, y, z \in N : <<x, y>> \in lt /\ <<y, z>> \in lt => <<x, z>> \in lt
      /\ (\A x \in N : <<x, x>> \notin lt) /\ NULL \notin N
  BY DEF Total, Hung
<1>1. ASSUME NEW n \in N
      PROVE  /\ next[n] # NULL => <<n, next[n]>> \in lt
             /\ \A m \in N : <<n, m>> \in lt => next[n] # NULL /\ (next[n] = m \/ <<next[n], m>> \in lt)
  <2>1. /\ R[n] \in N \cup {NULL} /\ sub[n] = {n} \cup sub[L[n]] \cup sub[R[n]] /\ sub[n] \subseteq N
        /\ sub[NULL] = {}
    BY Around
  <2>2. (\A k \in sub[L[n]] : <<k, n>> \in lt) /\ (\A k \in sub[R[n]] : <<n, k>> \in lt)
    BY <2>1 DEF Sorted
  <2>3. ASSUME NEW m \in N, <<n, m>> \in lt PROVE m # n /\ m \notin sub[L[n]] /\ <<m, n>> \notin lt
    BY <2>2, <2>3, <1>0
  <2>4. CASE R[n] # NULL
    <3>1. /\ next[n] = first[R[n]] /\ first[R[n]] \in sub[R[n]]
          /\ \A m \in sub[R[n]] : m = first[R[n]] \/ <<first[R[n]], m>> \in lt
      BY <2>1, <2>4, FirstSorted
    <3>2. ASSUME NEW m \in N \ sub[n], <<n, m>> \in lt PROVE <<next[n], m>> \in lt
      <4>1. Aside(sub[n], m, lt)
        BY IntervalSorted
      <4> QED BY <4>1, <3>1, <3>2, <2>1, <2>3 DEF Aside
    <3>3. next[n] \in N
      BY <3>1, <2>1
    <3> QED BY <3>1, <3>2, <3>3, <2>1, <2>2, <2>3, <1>0
  <2>5. CASE R[n] = NULL
    <3>1. next[n] = back[n] /\ FollowsIn(N, sub, lt, n, back[n])
      BY <2>5, NextFollowsSorted
    <3>2. ASSUME NEW m \in N, <<n, m>> \in lt PROVE m \notin sub[n]
      BY <3>2, <2>1, <2>3, <2>5
    <3> QED BY <3>1, <3>2, <2>1 DEF FollowsIn
  <2> QED BY <2>4, <2>5
<1> QED BY <1>0, <1>1 DEF AdvancesIn

\* How many nodes there are from n on.
UnwalkedIn(N, lt) ==
  [n \in N \cup {NULL} |-> IF n = NULL THEN 0 ELSE Cardinality({m \in N : n = m \/ <<n, m>> \in lt})]

\* There are fewer from the next node on.
LEMMA UnwalkedInShrinks ==
  ASSUME NEW N, NEW next, NEW lt, AdvancesIn(N, next, lt)
  PROVE  /\ UnwalkedIn(N, lt) \in [N \cup {NULL} -> Nat]
         /\ \A n \in N : next[n] \in N \cup {NULL} /\ UnwalkedIn(N, lt)[next[n]] < UnwalkedIn(N, lt)[n]
<1> DEFINE D == N \cup {NULL}
           From(n) == {m \in N : n = m \/ <<n, m>> \in lt}
<1>1. /\ \A n \in N : n # NULL /\ next[n] \in D
      /\ IsFiniteSet(N) /\ Total(lt, N)
  BY DEF AdvancesIn
<1>2. ASSUME NEW n \in N
      PROVE  IsFiniteSet(From(n)) /\ Cardinality(From(n)) \in Nat /\ Cardinality(From(n)) > 0
  <2>1. From(n) \in SUBSET N /\ n \in From(n)
    BY <1>1
  <2> HIDE DEF From
  <2>2. IsFiniteSet(From(n)) /\ From(n) # {}
    BY <1>1, <2>1, FS_Subset
  <2>3. Cardinality(From(n)) \in Nat /\ Cardinality(From(n)) # 0
    BY <2>2, FS_CardinalityType, FS_EmptySet
  <2> QED BY <2>2, <2>3
<1>3. UnwalkedIn(N, lt) \in [D -> Nat]
  BY <1>2 DEF UnwalkedIn
<1>4. UnwalkedIn(N, lt)[NULL] = 0 /\ \A n \in N : UnwalkedIn(N, lt)[n] = Cardinality(From(n))
  BY <1>1 DEF UnwalkedIn
<1>5. ASSUME NEW n \in N PROVE UnwalkedIn(N, lt)[next[n]] < UnwalkedIn(N, lt)[n]
  <2>1. CASE next[n] = NULL
    BY <2>1, <1>2, <1>4
  <2>2. CASE next[n] # NULL
    <3>1. next[n] \in N /\ <<n, next[n]>> \in lt
      BY <2>2, <1>1 DEF AdvancesIn
    <3>2. From(next[n]) \in SUBSET From(n) /\ n \in From(n) /\ n \notin From(next[n])
      BY <3>1, <1>1 DEF Total
    <3> HIDE DEF From
    <3>3. /\ Cardinality(From(next[n])) <= Cardinality(From(n))
          /\ Cardinality(From(next[n])) # Cardinality(From(n))
      BY <3>1, <3>2, <1>2, FS_Subset
    <3> QED BY <3>1, <3>3, <1>2, <1>4
  <2> QED BY <2>1, <2>2
<1> QED BY <1>1, <1>3, <1>5

\* Induction from the last node back.
LEMMA BackwardsInduction ==
  ASSUME NEW N, NEW next, NEW lt, AdvancesIn(N, next, lt), NEW T \in SUBSET N, \A n \in T : next[n] \in T
  PROVE  T = {}
<1> SUFFICES ASSUME T # {} PROVE FALSE
  OBVIOUS
<1> DEFINE D == N \cup {NULL}
           rank == UnwalkedIn(N, lt)
<1>1. rank \in [D -> Nat] /\ T \in SUBSET D
  BY UnwalkedInShrinks
<1>2. PICK n \in T : \A m \in T : rank[n] <= rank[m]
  <2> HIDE DEF D, rank
  <2> QED BY <1>1, LeastRank
<1>3. next[n] \in T /\ rank[next[n]] < rank[n]
  BY UnwalkedInShrinks
<1>4. rank[next[n]] \in Nat /\ rank[n] \in Nat
  BY <1>1, <1>3
<1> QED BY <1>2, <1>3, <1>4

\* Neighbours in a sequence are in order.
Stepping(s, lt) == \A i \in 1..Len(s) - 1 : <<s[i], s[i + 1]>> \in lt

\* A walk has all nodes from its first on, and its neighbours in order.
LEMMA TrailSteps ==
  ASSUME NEW N, NEW next, NEW lt, AdvancesIn(N, next, lt), NEW trail, Trails(N, next, trail), NEW n \in N
  PROVE  ToSet(trail[n]) = {m \in N : n = m \/ <<n, m>> \in lt} /\ Stepping(trail[n], lt)
<1> DEFINE Fit(x) == ToSet(trail[x]) = {m \in N : x = m \/ <<x, m>> \in lt} /\ Stepping(trail[x], lt)
           T == {x \in N : ~Fit(x)}
<1>1. ASSUME NEW x \in N, next[x] \notin T PROVE Fit(x)
  <2> DEFINE y == next[x]
             d == trail[x]
             e == trail[y]
  <2>1. /\ y \in N \cup {NULL} /\ (y # NULL => <<x, y>> \in lt) /\ NULL \notin N
        /\ \A m \in N : <<x, m>> \in lt => y # NULL /\ (y = m \/ <<y, m>> \in lt)
        /\ \A a, b, c \in N : <<a, b>> \in lt /\ <<b, c>> \in lt => <<a, c>> \in lt
    BY DEF AdvancesIn, Total
  <2>2. d = <<x>> \o e /\ e \in Seq(N) /\ (y = NULL => e = << >>)
    BY <2>1 DEF Trails
  <2>3. ToSet(d) = {x} \cup ToSet(e) /\ (e = << >> => ToSet(e) = {})
    BY <2>2, Headed
  <2>4. y # NULL => Fit(y)
    BY <2>1, <1>1
  <2>5. ToSet(e) = {m \in N : <<x, m>> \in lt}
    <3>1. CASE y = NULL
      BY <3>1, <2>1, <2>2, <2>3
    <3>2. CASE y # NULL
      <4>1. ToSet(e) = {m \in N : y = m \/ <<y, m>> \in lt}
        BY <3>2, <2>4
      <4>2. \A m \in N : y = m \/ <<y, m>> \in lt <=> <<x, m>> \in lt
        <5> HIDE DEF y
        <5> QED BY <3>2, <2>1
      <4> QED BY <4>1, <4>2
    <3> QED BY <3>1, <3>2
  <2>6. Stepping(e, lt) /\ (e # << >> => e[1] = y /\ y # NULL)
    <3>1. CASE y = NULL
      <4>1. e = << >>
        BY <3>1, <2>2
      <4> HIDE DEF e
      <4> QED BY <4>1 DEF Stepping
    <3>2. CASE y # NULL
      <4>1. y \in N /\ next[y] \in N \cup {NULL}
        BY <3>2, <2>1 DEF AdvancesIn
      <4>2. e = <<y>> \o trail[next[y]] /\ trail[next[y]] \in Seq(N)
        BY <4>1 DEF Trails
      <4>3. Stepping(e, lt)
        BY <3>2, <2>4
      <4>4. e[1] = y
        <5> HIDE DEF e, y
        <5> QED BY <4>1, <4>2
      <4> QED BY <4>3, <4>4, <3>2
    <3> QED BY <3>1, <3>2
  <2>7. /\ Len(e) \in Nat /\ Len(d) = Len(e) + 1 /\ d[1] = x
        /\ \A i \in 1..Len(e) : d[i + 1] = e[i]
    BY <2>2
  <2> HIDE DEF d, e, y
  <2>9. ASSUME NEW i \in 1..Len(d) - 1 PROVE <<d[i], d[i + 1]>> \in lt
    <3>1. i \in 1..Len(e) /\ d[i + 1] = e[i] /\ e # << >>
      BY <2>2, <2>7
    <3>2. CASE i = 1
      BY <3>1, <3>2, <2>1, <2>6, <2>7
    <3>3. CASE i # 1
      <4>1. i - 1 \in 1..Len(e) - 1 /\ i - 1 \in 1..Len(e) /\ (i - 1) + 1 = i
        BY <3>1, <3>3, <2>7
      <4>2. <<e[i - 1], e[(i - 1) + 1]>> \in lt /\ d[(i - 1) + 1] = e[i - 1]
        BY <4>1, <2>6, <2>7 DEF Stepping
      <4> QED BY <3>1, <4>1, <4>2
    <3> QED BY <3>2, <3>3
  <2>10. ToSet(d) = {m \in N : x = m \/ <<x, m>> \in lt}
    BY <2>3, <2>5
  <2> QED BY <2>9, <2>10 DEF Stepping, d
<1>2. T = {}
  <2>1. T \in SUBSET N
    OBVIOUS
  <2>2. \A x \in T : next[x] \in T
    BY <1>1
  <2> HIDE DEF T
  <2> QED BY <2>1, <2>2, BackwardsInduction
<1> QED BY <1>2
=============================================================================
