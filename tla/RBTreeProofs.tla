---------------------------- MODULE RBTreeProofs ----------------------------
(***************************************************************************)
(* Theorems about RBTree, whatever the keys, the values and the comparison *)
(* that orders the keys.                                                   *)
(*                                                                         *)
(* The links of a tree make functions, and the facts about functions are   *)
(* those of BinaryTree (B).  A first part is about shapes: rotations,      *)
(* grafts, exchanges and cuts keep one tree in order (Shaped).  A second   *)
(* is about balance: H gives the number of black nodes on every way down,  *)
(* and each case of a repair changes it at the nodes it names.  The        *)
(* invariant, Sound, puts them together; the theorems are at the end.      *)
(***************************************************************************)
EXTENDS RBTree, FiniteSetTheorems, TLAPS

B == INSTANCE BinaryTree

-----------------------------------------------------------------------------
(* Fields.                                                                 *)

Link == {"parent", "left", "right"}
Cell == [parent : Int, left : Int, right : Int, color : {Red, Black}, value : Value]

\* What the types of the code promise of a tree.
Typed(t) ==
  /\ t = [root |-> t.root, node |-> t.node] /\ t.root \in Int
  /\ t.node \in [Nodes(t) -> Cell] /\ IsFiniteSet(Nodes(t)) /\ Nodes(t) \subseteq Key

\* Two trees with the same nodes differ in links and the root, if at all.
Relinks(t, u) ==
  /\ Typed(t) /\ Typed(u) /\ Nodes(u) = Nodes(t)
  /\ \A m \in Nodes(t) : u.node[m].color = t.node[m].color /\ u.node[m].value = t.node[m].value

\* There are two sides.
LEMMA Sides ==
  /\ Side = {"left", "right"} /\ \A s \in Side : Other(s) \in Side /\ Other(s) # s /\ Other(Other(s)) = s
  /\ Link = Side \cup {"parent"} /\ "parent" \notin Side
  /\ \A r, s \in Side : s = r \/ s = Other(r)
BY DEF Side, Other, Link

\* Keys are numbers, and neither NULL nor LEAF.
LEMMA Keys == Key \subseteq Int /\ NULL \notin Key /\ LEAF \notin Key /\ NULL # LEAF /\ NULL \in Int /\ LEAF \in Int
              /\ B!NULL = LEAF
BY KeyAssumption DEF NULL, LEAF, B!NULL

\* The lemmas about trees mean by a finite set what this module means.
LEMMA Finite == \A S : IsFiniteSet(S) <=> B!IsFiniteSet(S)
BY Zenon DEF IsFiniteSet, B!IsFiniteSet

\* An assignment to a link.
LEMMA StoreLink ==
  ASSUME NEW t, Typed(t), NEW n \in Nodes(t), NEW f \in Link, NEW v \in Int
  PROVE  LET u == Store(t, n, f, v)
         IN /\ Relinks(t, u) /\ u.root = t.root
            /\ \A m \in Nodes(t), g \in Link : u.node[m][g] = IF m = n /\ g = f THEN v ELSE t.node[m][g]
<1> DEFINE u == Store(t, n, f, v)
<1>1. t = [root |-> t.root, node |-> t.node] /\ t.node \in [Nodes(t) -> Cell]
  BY DEF Typed
<1>2. u = [t EXCEPT !.node = [t.node EXCEPT ![n] = [t.node[n] EXCEPT ![f] = v]]]
  BY DEF Store
<1>3. u = [root |-> t.root, node |-> [t.node EXCEPT ![n] = [t.node[n] EXCEPT ![f] = v]]]
  BY <1>1, <1>2
<1> HIDE DEF u
<1>4. [t.node[n] EXCEPT ![f] = v] \in Cell
  BY <1>1 DEF Cell, Link
<1>5. u.node \in [Nodes(t) -> Cell] /\ u.root = t.root /\ u = [root |-> u.root, node |-> u.node]
  BY <1>1, <1>3, <1>4
<1>6. Nodes(u) = Nodes(t)
  BY <1>5 DEF Nodes
<1>7. \A m \in Nodes(t) : u.node[m] = IF m = n THEN [t.node[m] EXCEPT ![f] = v] ELSE t.node[m]
  BY <1>1, <1>3
<1>8. ASSUME NEW m \in Nodes(t)
      PROVE  /\ u.node[m].color = t.node[m].color /\ u.node[m].value = t.node[m].value
             /\ \A g \in Link : u.node[m][g] = IF m = n /\ g = f THEN v ELSE t.node[m][g]
  <2>1. t.node[m] \in Cell
    BY <1>1
  <2>2. u.node[m] = IF m = n THEN [t.node[m] EXCEPT ![f] = v] ELSE t.node[m]
    BY <1>7
  <2> QED BY <2>1, <2>2 DEF Cell, Link
<1>9. Typed(u)
  BY <1>5, <1>6 DEF Typed
<1> QED BY <1>5, <1>6, <1>8, <1>9 DEF Relinks, u

-----------------------------------------------------------------------------
(* The tree that the links make.                                           *)

Kid(t, side) == [n \in Nodes(t) |-> t.node[n][side]]
Up(t) == [n \in Nodes(t) |-> IF Parent(t, n) = NULL THEN LEAF ELSE Parent(t, n)]

\* The nodes of t make one tree, of which sub gives the subtrees.
Hangs(t, top, sub) ==
  /\ Typed(t) /\ \A n \in Nodes(t) : Parent(t, n) \in Nodes(t) \cup {NULL}
  /\ B!Hung(Nodes(t), Kid(t, "left"), Kid(t, "right"), Up(t), top, sub)

\* Left and right are alike.
LEMMA HangsSides ==
  ASSUME NEW t, NEW top, NEW sub, Hangs(t, top, sub), NEW side \in Side
  PROVE  B!Hung(Nodes(t), Kid(t, side), Kid(t, Other(side)), Up(t), top, sub)
<1>1. side = "left" \/ side = "right"
  BY Sides
<1>2. CASE side = "left"
  BY <1>2 DEF Hangs, Other
<1>3. CASE side = "right"
  <2>1. B!Hung(Nodes(t), Kid(t, "right"), Kid(t, "left"), Up(t), top, sub)
    BY B!Mirror DEF Hangs
  <2> QED BY <2>1, <1>3 DEF Other
<1> QED BY <1>1, <1>2, <1>3

\* What the links of a node lead to.
LEMMA HangsAround ==
  ASSUME NEW t, NEW top, NEW sub, Hangs(t, top, sub), NEW n \in Nodes(t), NEW side \in Side
  PROVE  /\ t.node[n][side] \in Nodes(t) \cup {LEAF} /\ Kid(t, side)[n] = t.node[n][side]
         /\ Parent(t, n) \in Nodes(t) \cup {NULL} /\ Up(t)[n] = (IF Parent(t, n) = NULL THEN LEAF ELSE Parent(t, n))
         /\ Parent(t, n) = t.node[n]["parent"]
         /\ n \in Int /\ n # LEAF /\ n # NULL /\ t.node[n][side] \in Int /\ Parent(t, n) \in Int
         /\ \A m \in Nodes(t) : Parent(t, m) = n <=> m \in {t.node[n][side], t.node[n][Other(side)]}
         /\ n = top <=> Parent(t, n) = NULL
         /\ top \in Nodes(t)
<1>1. B!Hung(Nodes(t), Kid(t, side), Kid(t, Other(side)), Up(t), top, sub)
  BY HangsSides
<1>2. Typed(t) /\ Parent(t, n) \in Nodes(t) \cup {NULL}
  BY DEF Hangs
<1>3. Kid(t, side)[n] = t.node[n][side] /\ Up(t)[n] = (IF Parent(t, n) = NULL THEN LEAF ELSE Parent(t, n))
      /\ Kid(t, Other(side))[n] = t.node[n][Other(side)] /\ Parent(t, n) = t.node[n]["parent"]
  BY DEF Kid, Up, Parent
<1>4. t.node[n][side] \in Nodes(t) \cup {LEAF}
  BY <1>1, <1>3, Keys DEF B!Hung
<1>5. Nodes(t) \subseteq Int /\ LEAF \notin Nodes(t) /\ NULL \notin Nodes(t)
  BY <1>2, Keys DEF Typed
<1>6. \A m \in Nodes(t) : Parent(t, m) = n <=> m \in {t.node[n][side], t.node[n][Other(side)]}
  <2>1. \A m \in Nodes(t) : Up(t)[m] = n <=> m \in {Kid(t, side)[n], Kid(t, Other(side))[n]}
    BY <1>1, Keys DEF B!Hung
  <2>2. \A m \in Nodes(t) : Up(t)[m] = n <=> Parent(t, m) = n
    BY <1>5 DEF Up
  <2> QED BY <2>1, <2>2, <1>3
<1>7. (n = top <=> Parent(t, n) = NULL) /\ top \in Nodes(t)
  <2>1. Up(t)[n] = LEAF <=> n = top
    BY <1>1, Keys DEF B!Hung
  <2>2. top \in Nodes(t) \cup {LEAF} /\ sub[top] = Nodes(t) /\ sub[LEAF] = {}
    BY <1>1, Keys DEF B!Hung
  <2> QED BY <2>1, <2>2, <1>2, <1>3, <1>5
<1> QED BY <1>2, <1>3, <1>4, <1>5, <1>6, <1>7, Keys

\* The sides of two children tell them apart.
LEMMA SideOfChild ==
  ASSUME NEW t, NEW top, NEW sub, Hangs(t, top, sub), NEW n \in Nodes(t), Parent(t, n) # NULL
  PROVE  /\ Parent(t, n) \in Nodes(t) /\ SideOf(t, n) \in Side
         /\ t.node[Parent(t, n)][SideOf(t, n)] = n /\ t.node[Parent(t, n)][Other(SideOf(t, n))] # n
         /\ \A m \in Nodes(t), side \in Side : t.node[m][side] = n <=> m = Parent(t, n) /\ side = SideOf(t, n)
<1> DEFINE p == Parent(t, n)
<1>1. p \in Nodes(t) /\ n # LEAF
  BY HangsAround, Sides
<1>2. n \in {t.node[p]["left"], t.node[p]["right"]}
  <2>1. \A m \in Nodes(t) : Parent(t, m) = p <=> m \in {t.node[p]["left"], t.node[p][Other("left")]}
    BY <1>1, HangsAround, Sides
  <2> QED BY <2>1 DEF Other
<1>3. t.node[p]["left"] # n \/ t.node[p]["right"] # n
  <2>1. B!Hung(Nodes(t), Kid(t, "left"), Kid(t, "right"), Up(t), top, sub)
    BY DEF Hangs
  <2>2. Kid(t, "left")[p] # Kid(t, "right")[p] \/ Kid(t, "left")[p] = LEAF
    <3> HIDE DEF p
    <3> QED BY <1>1, <2>1, B!Around, Keys
  <2>3. Kid(t, "left")[p] = t.node[p]["left"] /\ Kid(t, "right")[p] = t.node[p]["right"]
    BY <1>1 DEF Kid
  <2> QED BY <2>2, <2>3, <1>1
<1>4. SideOf(t, n) = IF n = t.node[p]["left"] THEN "left" ELSE "right"
  BY DEF SideOf
<1>5. \A m \in Nodes(t), side \in Side : t.node[m][side] = n => m = p
  <2> TAKE m \in Nodes(t), side \in Side
  <2>1. \A x \in Nodes(t) : Parent(t, x) = m <=> x \in {t.node[m][side], t.node[m][Other(side)]}
    BY HangsAround
  <2> QED BY <2>1
<1> QED BY <1>1, <1>2, <1>3, <1>4, <1>5 DEF Side, Other

\* A change of several links, one after another.
LEMMA RelinksOn ==
  ASSUME NEW t, NEW u, NEW v, Relinks(t, u), Relinks(u, v)
  PROVE  Relinks(t, v)
BY DEF Relinks

\* An assignment to the parent of a node, unless that is LEAF.
LEMMA SetParentLink ==
  ASSUME NEW t, Typed(t), NEW n \in Nodes(t) \cup {LEAF}, NEW p \in Int
  PROVE  LET u == SetParent(t, n, p)
         IN /\ Relinks(t, u) /\ u.root = t.root
            /\ \A m \in Nodes(t), g \in Link : u.node[m][g] = IF m = n /\ g = "parent" THEN p ELSE t.node[m][g]
<1>1. CASE n = LEAF
  <2>1. n \notin Nodes(t)
    BY <1>1, Keys DEF Typed
  <2>2. SetParent(t, n, p) = t
    BY <1>1 DEF SetParent
  <2> QED BY <2>1, <2>2 DEF Relinks
<1>2. CASE n # LEAF
  <2>1. SetParent(t, n, p) = Store(t, n, "parent", p) /\ n \in Nodes(t) /\ "parent" \in Link
    BY <1>2, Sides DEF SetParent
  <2> QED BY <2>1, StoreLink
<1> QED BY <1>1, <1>2

\* An assignment to the link to a node.
LEMMA ReplaceLink ==
  ASSUME NEW t, NEW top, NEW sub, Hangs(t, top, sub), NEW n \in Nodes(t), NEW x \in Int
  PROVE  LET u == Replace(t, n, x)
         IN /\ Relinks(t, u) /\ u.root = t.root
            /\ \A m \in Nodes(t) : u.node[m]["parent"] = t.node[m]["parent"]
            /\ \A m \in Nodes(t), g \in Side : u.node[m][g] = IF t.node[m][g] = n THEN x ELSE t.node[m][g]
<1>0. Typed(t)
  BY DEF Hangs
<1>1. CASE Parent(t, n) = NULL
  <2>1. Replace(t, n, x) = t
    BY <1>1 DEF Replace
  <2>2. ASSUME NEW m \in Nodes(t), NEW g \in Side PROVE t.node[m][g] # n
    <3>1. Parent(t, n) = m <=> n \in {t.node[m][g], t.node[m][Other(g)]}
      BY HangsAround
    <3>2. m # NULL
      BY <1>0, Keys DEF Typed
    <3> QED BY <3>1, <3>2, <1>1
  <2> QED BY <2>1, <2>2, <1>0 DEF Relinks
<1>2. CASE Parent(t, n) # NULL
  <2> DEFINE p == Parent(t, n)
             s == SideOf(t, n)
  <2>1. /\ p \in Nodes(t) /\ s \in Side
        /\ \A m \in Nodes(t), side \in Side : t.node[m][side] = n <=> m = p /\ side = s
    BY <1>2, SideOfChild
  <2>2. Replace(t, n, x) = Store(t, p, s, x)
    BY <1>2 DEF Replace
  <2> HIDE DEF p, s
  <2>3. s \in Link /\ s # "parent"
    BY <2>1, Sides
  <2> DEFINE u == Store(t, p, s, x)
  <2>4. /\ Relinks(t, u) /\ u.root = t.root
        /\ \A m \in Nodes(t), g \in Link : u.node[m][g] = IF m = p /\ g = s THEN x ELSE t.node[m][g]
    BY <1>0, <2>1, <2>3, StoreLink
  <2> HIDE DEF u
  <2> QED BY <2>1, <2>2, <2>3, <2>4, Sides DEF u
<1> QED BY <1>1, <1>2

\* w is u, but for that field.
Assigned(u, w, N, n, f, v) ==
  /\ w.root = u.root
  /\ \A m \in N, g \in Link : w.node[m][g] = IF m = n /\ g = f THEN v ELSE u.node[m][g]

\* An assignment to a link of a tree that has been changed.
LEMMA StoreOn ==
  ASSUME NEW t, NEW u, Relinks(t, u), NEW n \in Nodes(t), NEW f \in Link, NEW v \in Int, NEW w,
         w = Store(u, n, f, v)
  PROVE  Relinks(t, w) /\ Assigned(u, w, Nodes(t), n, f, v)
<1>1. Typed(u) /\ Nodes(u) = Nodes(t)
  BY DEF Relinks
<1>2. /\ Relinks(u, w) /\ w.root = u.root
      /\ \A m \in Nodes(u), g \in Link : w.node[m][g] = IF m = n /\ g = f THEN v ELSE u.node[m][g]
  BY <1>1, StoreLink
<1>3. Relinks(t, w)
  BY <1>2, RelinksOn
<1> QED BY <1>1, <1>2, <1>3 DEF Assigned

\* So too for the parent of a node that may be LEAF.
LEMMA SetParentOn ==
  ASSUME NEW t, NEW u, Relinks(t, u), NEW n \in Nodes(t) \cup {LEAF}, NEW p \in Int, NEW w,
         w = SetParent(u, n, p)
  PROVE  Relinks(t, w) /\ Assigned(u, w, Nodes(t), n, "parent", p)
<1>1. Typed(u) /\ Nodes(u) = Nodes(t)
  BY DEF Relinks
<1>2. /\ Relinks(u, w) /\ w.root = u.root
      /\ \A m \in Nodes(u), g \in Link : w.node[m][g] = IF m = n /\ g = "parent" THEN p ELSE u.node[m][g]
  BY <1>1, SetParentLink
<1>3. Relinks(t, w)
  BY <1>2, RelinksOn
<1> QED BY <1>1, <1>2, <1>3 DEF Assigned

-----------------------------------------------------------------------------
(* Rotation.                                                               *)

\* The nodes that take part are different.
LEMMA RotateApart ==
  ASSUME NEW t, NEW top, NEW sub, Hangs(t, top, sub), NEW n \in Nodes(t), NEW side \in Side,
         NEW up, up = t.node[n][Other(side)], up # LEAF, NEW inner, inner = t.node[up][side]
  PROVE  /\ up \in Nodes(t) /\ inner \in Nodes(t) \cup {LEAF} /\ up \in Int /\ inner \in Int
         /\ up # n /\ inner # n /\ inner # up
         /\ B!Hung(Nodes(t), Kid(t, side), Kid(t, Other(side)), Up(t), top, sub) /\ IsFiniteSet(Nodes(t))
         /\ Kid(t, Other(side))[n] = up /\ Kid(t, side)[up] = inner
<1>1. up \in Nodes(t)
  BY HangsAround, Sides
<1>2. inner \in Nodes(t) \cup {LEAF} /\ inner \in Int /\ up \in Int
  BY <1>1, HangsAround
<1>3. B!Hung(Nodes(t), Kid(t, side), Kid(t, Other(side)), Up(t), top, sub) /\ IsFiniteSet(Nodes(t))
  BY HangsSides DEF Hangs, Typed
<1>4. Kid(t, Other(side))[n] = up /\ Kid(t, side)[up] = inner
  BY <1>1 DEF Kid
<1>5. inner \in Nodes(t) \cup {B!NULL}
  BY <1>2, Keys
<1>6. up # n /\ inner # n /\ inner # up
  BY <1>1, <1>3, <1>4, <1>5, Finite, B!TurnApart
<1> QED BY <1>1, <1>2, <1>3, <1>4, <1>6

\* What a rotation assigns: n goes down on that side, up takes its place.
LEMMA RotateFields ==
  ASSUME NEW t, NEW top, NEW sub, Hangs(t, top, sub), NEW n \in Nodes(t), NEW side \in Side,
         NEW up, up = t.node[n][Other(side)], up # LEAF, NEW inner, inner = t.node[up][side],
         NEW u, u = Rotate(t, n, side)
  PROVE  /\ Relinks(t, u) /\ u.root = t.root
         /\ \A m \in Nodes(t) : u.node[m][side] = IF m = up THEN n
                                                  ELSE IF t.node[m][side] = n THEN up ELSE t.node[m][side]
         /\ \A m \in Nodes(t) : u.node[m][Other(side)] =
              IF m = n THEN inner ELSE IF t.node[m][Other(side)] = n THEN up ELSE t.node[m][Other(side)]
         /\ \A m \in Nodes(t) : u.node[m]["parent"] =
              IF m = n THEN up ELSE IF m = up THEN Parent(t, n) ELSE IF m = inner THEN n ELSE t.node[m]["parent"]
<1> DEFINE t0 == Replace(t, n, up)
           t1 == Store(t0, n, Other(side), inner)
           t2 == Store(t1, n, "parent", up)
           t3 == Store(t2, up, side, n)
           t4 == Store(t3, up, "parent", Parent(t, n))
           t5 == SetParent(t4, inner, n)
           N  == Nodes(t)
<1>1. u = t5
  BY DEF Rotate
<1>2. /\ up \in N /\ inner \in N \cup {LEAF} /\ up \in Int /\ inner \in Int /\ n \in Int /\ Parent(t, n) \in Int
      /\ "parent" \in Link /\ side \in Link /\ Other(side) \in Link /\ Other(side) # side
      /\ side # "parent" /\ Other(side) # "parent" /\ Other(side) \in Side
      /\ n # up /\ inner # n /\ inner # up
  <2>1. Parent(t, n) \in Int /\ n \in Int
    BY HangsAround
  <2> QED BY <2>1, Sides, RotateApart
<1>3. /\ t1 = Store(t0, n, Other(side), inner) /\ t2 = Store(t1, n, "parent", up) /\ t3 = Store(t2, up, side, n)
      /\ t4 = Store(t3, up, "parent", Parent(t, n)) /\ t5 = SetParent(t4, inner, n)
  OBVIOUS
<1>4. /\ Relinks(t, t0) /\ t0.root = t.root
      /\ \A m \in N : t0.node[m]["parent"] = t.node[m]["parent"]
      /\ \A m \in N, g \in Side : t0.node[m][g] = IF t.node[m][g] = n THEN up ELSE t.node[m][g]
  BY <1>2, ReplaceLink, SMTT(30)
<1> HIDE DEF t0, t1, t2, t3, t4, t5
<1>5. /\ Relinks(t, t1) /\ t1.root = t0.root
      /\ \A m \in N, g \in Link : t1.node[m][g] = IF m = n /\ g = Other(side) THEN inner ELSE t0.node[m][g]
  <2>1. Relinks(t, t1) /\ Assigned(t0, t1, N, n, Other(side), inner)
    BY <1>2, <1>3, <1>4, StoreOn, ZenonT(30)
  <2> QED BY <2>1, SMTT(30) DEF Assigned
<1>6. /\ Relinks(t, t2) /\ t2.root = t1.root
      /\ \A m \in N, g \in Link : t2.node[m][g] = IF m = n /\ g = "parent" THEN up ELSE t1.node[m][g]
  <2>1. Relinks(t, t2) /\ Assigned(t1, t2, N, n, "parent", up)
    BY <1>2, <1>3, <1>5, StoreOn, ZenonT(30)
  <2> QED BY <2>1, SMTT(30) DEF Assigned
<1>7. /\ Relinks(t, t3) /\ t3.root = t2.root
      /\ \A m \in N, g \in Link : t3.node[m][g] = IF m = up /\ g = side THEN n ELSE t2.node[m][g]
  <2>1. Relinks(t, t3) /\ Assigned(t2, t3, N, up, side, n)
    BY <1>2, <1>3, <1>6, StoreOn, ZenonT(30)
  <2> QED BY <2>1, SMTT(30) DEF Assigned
<1>8. /\ Relinks(t, t4) /\ t4.root = t3.root
      /\ \A m \in N, g \in Link : t4.node[m][g] = IF m = up /\ g = "parent" THEN Parent(t, n) ELSE t3.node[m][g]
  <2>1. Relinks(t, t4) /\ Assigned(t3, t4, N, up, "parent", Parent(t, n))
    BY <1>2, <1>3, <1>7, StoreOn, ZenonT(30)
  <2> QED BY <2>1, SMTT(30) DEF Assigned
<1>9. /\ Relinks(t, t5) /\ t5.root = t4.root
      /\ \A m \in N, g \in Link : t5.node[m][g] = IF m = inner /\ g = "parent" THEN n ELSE t4.node[m][g]
  <2>1. Relinks(t, t5) /\ Assigned(t4, t5, N, inner, "parent", n)
    BY <1>2, <1>3, <1>8, SetParentOn, Zenon
  <2> QED BY <2>1, SMTT(30) DEF Assigned
<1>10. Relinks(t, u) /\ u.root = t.root
  BY <1>1, <1>4, <1>5, <1>6, <1>7, <1>8, <1>9
<1>11. ASSUME NEW m \in N
       PROVE  u.node[m][side] = IF m = up THEN n ELSE IF t.node[m][side] = n THEN up ELSE t.node[m][side]
  <2>1. t5.node[m][side] = t4.node[m][side] /\ t4.node[m][side] = t3.node[m][side]
    BY <1>2, <1>8, <1>9, ZenonT(30)
  <2>2. t2.node[m][side] = t1.node[m][side] /\ t1.node[m][side] = t0.node[m][side]
    BY <1>2, <1>5, <1>6
  <2> QED BY <2>1, <2>2, <1>1, <1>2, <1>4, <1>7
<1>12. ASSUME NEW m \in N
       PROVE  u.node[m][Other(side)] =
                IF m = n THEN inner ELSE IF t.node[m][Other(side)] = n THEN up ELSE t.node[m][Other(side)]
  <2>1. t5.node[m][Other(side)] = t4.node[m][Other(side)] /\ t4.node[m][Other(side)] = t3.node[m][Other(side)]
    BY <1>2, <1>8, <1>9
  <2>2. t3.node[m][Other(side)] = t2.node[m][Other(side)] /\ t2.node[m][Other(side)] = t1.node[m][Other(side)]
    BY <1>2, <1>6, <1>7, Zenon
  <2> QED BY <2>1, <2>2, <1>1, <1>2, <1>4, <1>5
<1>13. ASSUME NEW m \in N
       PROVE  u.node[m]["parent"] =
                IF m = n THEN up ELSE IF m = up THEN Parent(t, n) ELSE IF m = inner THEN n ELSE t.node[m]["parent"]
  <2>1. t5.node[m]["parent"] = IF m = inner THEN n ELSE t4.node[m]["parent"]
    BY <1>2, <1>9
  <2>2. t4.node[m]["parent"] = IF m = up THEN Parent(t, n) ELSE t2.node[m]["parent"]
    BY <1>2, <1>7, <1>8
  <2>3. t2.node[m]["parent"] = IF m = n THEN up ELSE t.node[m]["parent"]
    BY <1>2, <1>4, <1>5, <1>6
  <2> QED BY <2>1, <2>2, <2>3, <1>1, <1>2
<1> QED BY <1>10, <1>11, <1>12, <1>13 DEF N

-----------------------------------------------------------------------------
(* Search trees.                                                           *)

\* The keys are ordered by the comparison, as the callers see it.
CompareOrder ==
  \A x, y, z \in Key : /\ Compare(x, y) \in Int /\ (Compare(x, y) = 0 <=> x = y)
                       /\ (Compare(x, y) < 0 <=> 0 < Compare(y, x))
                       /\ (Compare(x, y) < 0 /\ Compare(y, z) < 0 => Compare(x, z) < 0)

Before == {k \in Key \X Key : Compare(k[1], k[2]) < 0}

\* Some nodes hang from a top, all of them in order.
Shape(t, top, sub) ==
  Hangs(t, top, sub) /\ B!Sorted(Kid(t, "left"), Kid(t, "right"), sub, Nodes(t), Before)
Shaped(t) == \E top, sub : Shape(t, top, sub)

\* The order is total.
LEMMA BeforeTotal ==
  ASSUME CompareOrder, NEW N, N \subseteq Key
  PROVE  B!Total(Before, N) /\ \A x, y \in Key : <<x, y>> \in Before <=> Compare(x, y) < 0
<1>1. \A x, y \in Key : <<x, y>> \in Before <=> Compare(x, y) < 0
  BY DEF Before
<1>2. ASSUME NEW x \in N, NEW y \in N
      PROVE  <<x, x>> \notin Before /\ (x = y \/ <<x, y>> \in Before \/ <<y, x>> \in Before)
  <2>1. /\ Compare(x, x) = 0 /\ Compare(x, y) \in Int /\ (Compare(x, y) = 0 => x = y)
        /\ (Compare(y, x) < 0 <=> 0 < Compare(x, y))
    BY DEF CompareOrder
  <2> QED BY <2>1, <1>1
<1>3. \A x, y, z \in N : <<x, y>> \in Before /\ <<y, z>> \in Before => <<x, z>> \in Before
  BY <1>1 DEF CompareOrder
<1> QED BY <1>1, <1>2, <1>3, Zenon DEF B!Total

\* The links of a tree, given in either order, make it hang.
LEMMA HangsFrom ==
  ASSUME NEW t, Typed(t), \A n \in Nodes(t) : Parent(t, n) \in Nodes(t) \cup {NULL}, NEW side \in Side,
         NEW top, NEW sub, B!Hung(Nodes(t), Kid(t, side), Kid(t, Other(side)), Up(t), top, sub)
  PROVE  Hangs(t, top, sub)
<1>1. CASE side = "left"
  BY <1>1 DEF Hangs, Other
<1>2. CASE side = "right"
  <2>1. B!Hung(Nodes(t), Kid(t, "right"), Kid(t, "left"), Up(t), top, sub)
    BY <1>2 DEF Other
  <2>2. B!Hung(Nodes(t), Kid(t, "left"), Kid(t, "right"), Up(t), top, sub)
    BY <2>1, B!Mirror
  <2> QED BY <2>2 DEF Hangs
<1> QED BY <1>1, <1>2 DEF Side

\* The trees t and u differ in colours, values and the root, if at all.
SameLinks(t, u) ==
  /\ Typed(t) /\ Typed(u) /\ Nodes(u) = Nodes(t)
  /\ \A m \in Nodes(t), g \in Link : u.node[m][g] = t.node[m][g]

\* These make no difference to the shape.
LEMMA SameShape ==
  ASSUME NEW t, NEW u, SameLinks(t, u), Shaped(t)
  PROVE  Shaped(u)
<1>1. PICK top, sub : Shape(t, top, sub)
  BY DEF Shaped
<1>2. /\ Typed(u) /\ Nodes(u) = Nodes(t)
      /\ \A m \in Nodes(t) : /\ u.node[m]["left"] = t.node[m]["left"] /\ u.node[m]["right"] = t.node[m]["right"]
                             /\ Parent(u, m) = Parent(t, m)
  BY DEF SameLinks, Link, Parent
<1>3. Kid(u, "left") = Kid(t, "left") /\ Kid(u, "right") = Kid(t, "right") /\ Up(u) = Up(t)
  BY <1>2 DEF Kid, Up
<1>4. Shape(u, top, sub)
  BY <1>1, <1>2, <1>3 DEF Shape, Hangs
<1> QED BY <1>4 DEF Shaped

\* What surrounds a node of a tree.
LEMMA ShapedAround ==
  ASSUME NEW t, Shaped(t), NEW n \in Nodes(t), NEW side \in Side
  PROVE  /\ t.node[n][side] \in Nodes(t) \cup {LEAF} /\ Parent(t, n) \in Nodes(t) \cup {NULL}
         /\ Parent(t, n) = t.node[n]["parent"]
         /\ n \in Int /\ n # LEAF /\ n # NULL /\ t.node[n][side] \in Int /\ Parent(t, n) \in Int
         /\ \A m \in Nodes(t) : Parent(t, m) = n <=> m \in {t.node[n][side], t.node[n][Other(side)]}
         /\ t.node[n][side] # LEAF => t.node[n][side] # t.node[n][Other(side)]
         /\ t.node[n][side] # n /\ Parent(t, n) # n
         /\ \A m \in Nodes(t) : Parent(t, m) = NULL /\ Parent(t, n) = NULL => m = n
         /\ \E m \in Nodes(t) : Parent(t, m) = NULL
<1>1. PICK top, sub : Hangs(t, top, sub)
  BY DEF Shaped, Shape
<1>2. /\ t.node[n][side] \in Nodes(t) \cup {LEAF} /\ Parent(t, n) \in Nodes(t) \cup {NULL}
      /\ Parent(t, n) = t.node[n]["parent"]
      /\ n \in Int /\ n # LEAF /\ n # NULL /\ t.node[n][side] \in Int /\ Parent(t, n) \in Int
      /\ \A m \in Nodes(t) : Parent(t, m) = n <=> m \in {t.node[n][side], t.node[n][Other(side)]}
  BY <1>1, HangsAround
<1>3. \A m \in Nodes(t) : m = top <=> Parent(t, m) = NULL
  BY <1>1, HangsAround
<1>4. top \in Nodes(t)
  BY <1>1, HangsAround
<1>5. B!Hung(Nodes(t), Kid(t, side), Kid(t, Other(side)), Up(t), top, sub)
  BY <1>1, HangsSides
<1>6. /\ Kid(t, side)[n] # n /\ (Kid(t, side)[n] # Kid(t, Other(side))[n] \/ Kid(t, side)[n] = B!NULL)
  BY <1>5, B!Around
<1>7. Up(t)[n] # n
  <2>1. Up(t)[n] \notin sub[n] /\ n \in sub[n]
    BY <1>5, B!Around
  <2> QED BY <2>1
<1>8. Kid(t, side)[n] = t.node[n][side] /\ Kid(t, Other(side))[n] = t.node[n][Other(side)]
      /\ Up(t)[n] = (IF Parent(t, n) = NULL THEN LEAF ELSE Parent(t, n))
  BY DEF Kid, Up
<1> QED BY <1>2, <1>3, <1>4, <1>6, <1>7, <1>8, Keys

\* What a rotation does to the links: n goes down on that side, up takes its place.
Rotated(t, u, n, side, up, inner) ==
  /\ Relinks(t, u) /\ u.root = t.root
  /\ up \in Nodes(t) /\ inner \in Nodes(t) \cup {LEAF} /\ up # n /\ inner # n /\ inner # up
  /\ u.node[n][side] = t.node[n][side] /\ u.node[n][Other(side)] = inner
  /\ u.node[up][side] = n /\ u.node[up][Other(side)] = t.node[up][Other(side)]
  /\ \A m \in Nodes(t) \ {n, up}, s \in Side : u.node[m][s] = IF t.node[m][s] = n THEN up ELSE t.node[m][s]
  /\ Parent(u, n) = up /\ Parent(u, up) = Parent(t, n)
  /\ \A m \in Nodes(t) \ {n, up, inner} : Parent(u, m) = Parent(t, m)

\* A rotation keeps the shape.
LEMMA RotateShape ==
  ASSUME CompareOrder, NEW t, Shaped(t), NEW n \in Nodes(t), NEW side \in Side,
         NEW up, up = t.node[n][Other(side)], up # LEAF, NEW inner, inner = t.node[up][side],
         NEW u, u = Rotate(t, n, side)
  PROVE  Shaped(u) /\ Rotated(t, u, n, side, up, inner)
<1>1. PICK top, sub : Shape(t, top, sub)
  BY DEF Shaped
<1>2. /\ Relinks(t, u) /\ u.root = t.root
      /\ \A m \in Nodes(t) : u.node[m][side] = IF m = up THEN n
                                               ELSE IF t.node[m][side] = n THEN up ELSE t.node[m][side]
      /\ \A m \in Nodes(t) : u.node[m][Other(side)] =
           IF m = n THEN inner ELSE IF t.node[m][Other(side)] = n THEN up ELSE t.node[m][Other(side)]
      /\ \A m \in Nodes(t) : u.node[m]["parent"] =
           IF m = n THEN up ELSE IF m = up THEN Parent(t, n) ELSE IF m = inner THEN n ELSE t.node[m]["parent"]
  BY <1>1, RotateFields DEF Shape
<1>3. /\ up \in Nodes(t) /\ inner \in Nodes(t) \cup {LEAF} /\ up \in Int /\ inner \in Int
      /\ up # n /\ inner # n /\ inner # up
      /\ B!Hung(Nodes(t), Kid(t, side), Kid(t, Other(side)), Up(t), top, sub) /\ IsFiniteSet(Nodes(t))
      /\ Kid(t, Other(side))[n] = up /\ Kid(t, side)[up] = inner
  BY <1>1, RotateApart DEF Shape
<1> DEFINE N == Nodes(t)
           L == Kid(t, side)
           R == Kid(t, Other(side))
<1>4. t.node[n][side] \notin {n, up} /\ t.node[up][Other(side)] \notin {n, up}
  <2>1. L[n] \notin {n, up} /\ R[up] \notin {n, up}
    BY <1>3, Finite, Keys, B!TurnNodes
  <2> QED BY <2>1, <1>3 DEF Kid
<1>5. Typed(u) /\ Nodes(u) = N /\ Typed(t) /\ n # NULL /\ up # NULL /\ NULL \notin N /\ LEAF \notin N
  BY <1>2, <1>3, Keys DEF Relinks, Typed
<1>6. Kid(u, side) = B!TurnL(L, n, up)
  BY <1>2, <1>5 DEF Kid, B!TurnL
<1>7. Kid(u, Other(side)) = B!TurnR(R, n, up, inner)
  BY <1>2, <1>5 DEF Kid, B!TurnR
<1>8. \A m \in N : Parent(t, m) = t.node[m]["parent"] /\ Parent(u, m) = u.node[m]["parent"]
                   /\ Parent(t, m) \in N \cup {NULL}
  BY <1>1 DEF Parent, Shape, Hangs
<1>9. Up(u) = B!TurnP(Up(t), n, up, inner)
  <2>1. \A m \in N : Up(t)[m] = (IF Parent(t, m) = NULL THEN LEAF ELSE Parent(t, m))
    BY DEF Up
  <2>2. DOMAIN Up(t) = N
    BY DEF Up
  <2>3. ASSUME NEW m \in N
        PROVE  (IF Parent(u, m) = NULL THEN LEAF ELSE Parent(u, m))
                 = IF m = n THEN up ELSE IF m = up THEN Up(t)[n] ELSE IF m = inner THEN n ELSE Up(t)[m]
    BY <2>1, <1>2, <1>5, <1>8
  <2> QED BY <2>2, <2>3, <1>5 DEF Up, B!TurnP
<1>10. \A m \in Nodes(u) : Parent(u, m) \in Nodes(u) \cup {NULL}
  BY <1>2, <1>3, <1>5, <1>8
<1> DEFINE new == B!TurnSub(sub, n, up, L[n], inner)
           top2 == B!TurnRoot(top, n, up)
<1>11. B!Hung(N, B!TurnL(L, n, up), B!TurnR(R, n, up, inner), B!TurnP(Up(t), n, up, inner), top2, new)
  BY <1>3, Finite, Keys, B!Turn
<1>12. Hangs(u, top2, new)
  <2> HIDE DEF L, R, top2, new
  <2>1. B!Hung(Nodes(u), Kid(u, side), Kid(u, Other(side)), Up(u), top2, new)
    BY <1>5, <1>6, <1>7, <1>9, <1>11
  <2> QED BY <2>1, <1>5, <1>10, HangsFrom
<1>13. B!Sorted(Kid(u, "left"), Kid(u, "right"), new, N, Before)
  <2>1. B!Total(Before, N)
    BY <1>5, BeforeTotal DEF Typed
  <2>2. /\ B!Sorted(L, R, sub, N, Before) => B!Sorted(B!TurnL(L, n, up), B!TurnR(R, n, up, inner), new, N, Before)
        /\ B!Sorted(R, L, sub, N, Before) => B!Sorted(B!TurnR(R, n, up, inner), B!TurnL(L, n, up), new, N, Before)
    BY <2>1, <1>3, Finite, Keys, B!TurnSorted
  <2>3. B!Sorted(Kid(t, "left"), Kid(t, "right"), sub, N, Before)
    BY <1>1 DEF Shape
  <2>4. CASE side = "left"
    BY <2>2, <2>3, <2>4, <1>6, <1>7 DEF Other
  <2>5. CASE side = "right"
    BY <2>2, <2>3, <2>5, <1>6, <1>7 DEF Other
  <2> QED BY <2>4, <2>5 DEF Side
<1>14. Shaped(u)
  BY <1>5, <1>12, <1>13 DEF Shape, Shaped
<1>15. \A m \in N \ {n, up}, s \in Side : u.node[m][s] = IF t.node[m][s] = n THEN up ELSE t.node[m][s]
  BY <1>2, Sides DEF Side, Other
<1>16. Rotated(t, u, n, side, up, inner)
  BY <1>2, <1>3, <1>4, <1>8, <1>15 DEF Rotated
<1> QED BY <1>14, <1>16

-----------------------------------------------------------------------------
(* Colours.                                                                *)

SameValues(t, u) == Nodes(u) = Nodes(t) /\ \A m \in Nodes(t) : u.node[m].value = t.node[m].value
SameColors(t, u) == Nodes(u) = Nodes(t) /\ \A m \in Nodes(t) \cup {LEAF} : Color(u, m) = Color(t, m)

\* u is t with a node painted.
Painted(t, u, n, c) ==
  /\ SameLinks(t, u) /\ SameValues(t, u) /\ u.root = t.root
  /\ \A m \in Nodes(t) \cup {LEAF} : Color(u, m) = IF m = n THEN c ELSE Color(t, m)

\* Painting changes a colour.
LEMMA PaintNode ==
  ASSUME NEW t, Typed(t), NEW n \in Nodes(t), NEW c \in {Red, Black}, NEW u, u = Paint(t, n, c)
  PROVE  Painted(t, u, n, c)
<1>1. t = [root |-> t.root, node |-> t.node] /\ t.node \in [Nodes(t) -> Cell]
  BY DEF Typed
<1>2. u = [t EXCEPT !.node = [t.node EXCEPT ![n] = [t.node[n] EXCEPT !["color"] = c]]]
  BY DEF Paint, Store
<1>3. u = [root |-> t.root, node |-> [t.node EXCEPT ![n] = [t.node[n] EXCEPT !["color"] = c]]]
  BY <1>1, <1>2
<1>4. [t.node[n] EXCEPT !["color"] = c] \in Cell
  BY <1>1 DEF Cell
<1>5. u.node \in [Nodes(t) -> Cell] /\ u.root = t.root /\ u = [root |-> u.root, node |-> u.node]
  BY <1>1, <1>3, <1>4
<1>6. Nodes(u) = Nodes(t)
  BY <1>5 DEF Nodes
<1>7. \A m \in Nodes(t) : u.node[m] = IF m = n THEN [t.node[m] EXCEPT !["color"] = c] ELSE t.node[m]
  BY <1>1, <1>3
<1>8. ASSUME NEW m \in Nodes(t)
      PROVE  /\ u.node[m].value = t.node[m].value /\ \A g \in Link : u.node[m][g] = t.node[m][g]
             /\ u.node[m].color = IF m = n THEN c ELSE t.node[m].color
  <2>1. t.node[m] \in Cell
    BY <1>1
  <2>2. u.node[m] = IF m = n THEN [t.node[m] EXCEPT !["color"] = c] ELSE t.node[m]
    BY <1>7
  <2> QED BY <2>1, <2>2 DEF Cell, Link
<1>9. Typed(u) /\ LEAF \notin Nodes(t)
  BY <1>5, <1>6, Keys DEF Typed
<1> QED BY <1>5, <1>6, <1>8, <1>9 DEF Painted, SameLinks, SameValues, Color

\* A node is red or black.
LEMMA ColorType ==
  ASSUME NEW t, Typed(t)
  PROVE  /\ \A n \in Nodes(t) \cup {LEAF} : Color(t, n) \in {Red, Black}
         /\ Color(t, LEAF) = Black /\ Red # Black
BY DEF Typed, Color, Cell, Red, Black

\* What moves links alone keeps colours and values.
LEMMA RelinksKeeps ==
  ASSUME NEW t, NEW u, Relinks(t, u)
  PROVE  SameColors(t, u) /\ SameValues(t, u) /\ Typed(u) /\ Nodes(u) = Nodes(t)
BY DEF Relinks, SameColors, SameValues, Color

-----------------------------------------------------------------------------
(* Balance.  H says how many black nodes there are on every way down.      *)

Unit(t, n) == IF Color(t, n) = Black THEN 1 ELSE 0

Heights(t, H) == H \in [Nodes(t) \cup {LEAF} -> Nat] /\ H[LEAF] = 0
EvenAt(t, H, n) == \A s \in Side : H[n] = H[t.node[n][s]] + Unit(t, n)

\* A red node has black children, the node k excepted.
CalmAt(t, n, k) ==
  Color(t, n) = Red => \A s \in Side : t.node[n][s] = k \/ Color(t, t.node[n][s]) = Black
BlackTop(t) == \A n \in Nodes(t) : Parent(t, n) = NULL => Color(t, n) = Black

Even(t, H) == Heights(t, H) /\ \A n \in Nodes(t) : EvenAt(t, H, n)
Balanced(t, H) == Even(t, H) /\ BlackTop(t) /\ \A n \in Nodes(t) : CalmAt(t, n, LEAF)

\* A red node k below a red node p, and the rest as it should be.
Clash(t, H, k, p) ==
  /\ k \in Nodes(t) /\ p \in Nodes(t) /\ Parent(t, k) = p /\ Color(t, k) = Red /\ Color(t, p) = Red
  /\ Even(t, H) /\ BlackTop(t) /\ \A n \in Nodes(t) : CalmAt(t, n, k)

\* The children of different nodes are different.
LEMMA OneParent ==
  ASSUME NEW t, Shaped(t), NEW m \in Nodes(t), NEW s \in Side, NEW n \in Nodes(t), NEW r \in Side,
         t.node[m][s] = t.node[n][r], t.node[m][s] # LEAF
  PROVE  m = n /\ s = r
<1>1. t.node[m][s] \in Nodes(t)
  BY ShapedAround
<1>2. Parent(t, t.node[m][s]) = m
  BY <1>1, ShapedAround
<1>3. Parent(t, t.node[n][r]) = n
  BY <1>1, ShapedAround
<1>4. t.node[m][s] # t.node[m][Other(s)]
  BY ShapedAround
<1> QED BY <1>2, <1>3, <1>4 DEF Side, Other

\* A clash on the outside ends with a rotation over the grandparent.
LEMMA RaiseOuter ==
  ASSUME CompareOrder, NEW t, Shaped(t), NEW H, NEW k, NEW p, Clash(t, H, k, p), NEW g \in Nodes(t), NEW side \in Side,
         t.node[g][side] = p, t.node[p][side] = k, Color(t, t.node[g][Other(side)]) = Black,
         NEW r, r = Rotate(t, g, Other(side)), NEW u, u = Paint(Paint(r, p, Black), g, Red)
  PROVE  /\ Shaped(u) /\ SameValues(t, u) /\ u.root = t.root /\ \E H2 : Balanced(u, H2)
         /\ Parent(r, g) = p /\ p \in Nodes(u)
<1> DEFINE N == Nodes(t)
           away == Other(side)
           b == t.node[p][away]
           H2 == [H EXCEPT ![g] = H[p], ![p] = H[g]]
<1>1. /\ k \in N /\ p \in N /\ Parent(t, k) = p /\ Color(t, k) = Red /\ Color(t, p) = Red
      /\ H \in [N \cup {LEAF} -> Nat] /\ H[LEAF] = 0 /\ \A n \in N : EvenAt(t, H, n) /\ CalmAt(t, n, k)
      /\ BlackTop(t)
  BY DEF Clash, Even, Heights
<1>2. away \in Side /\ away # side /\ Other(away) = side
  BY Sides
<1>3. Typed(t) /\ LEAF \notin N /\ NULL \notin N
  BY Keys DEF Shaped, Shape, Hangs, Typed
<1>4. Shaped(r) /\ Rotated(t, r, g, away, p, b)
  BY <1>1, <1>2, <1>3, RotateShape
<1>5. /\ Typed(r) /\ Nodes(r) = N /\ SameColors(t, r) /\ SameValues(t, r) /\ r.root = t.root
      /\ p # g /\ b # g /\ b # p /\ b \in N \cup {LEAF}
  BY <1>4, RelinksKeeps DEF Rotated
<1>6. Painted(r, Paint(r, p, Black), p, Black)
  BY <1>1, <1>5, PaintNode
<1>7. Typed(Paint(r, p, Black)) /\ Nodes(Paint(r, p, Black)) = N
  BY <1>5, <1>6 DEF Painted, SameLinks
<1>8. Painted(Paint(r, p, Black), u, g, Red)
  BY <1>7, PaintNode
<1>9. /\ SameLinks(r, u) /\ SameValues(t, u) /\ u.root = t.root
      /\ \A m \in N \cup {LEAF} : Color(u, m) = IF m = g THEN Red ELSE IF m = p THEN Black ELSE Color(t, m)
  BY <1>5, <1>6, <1>7, <1>8 DEF Painted, SameLinks, SameValues, SameColors
<1>10. Shaped(u) /\ Nodes(u) = N /\ Typed(u)
  BY <1>4, <1>5, <1>9, SameShape DEF SameLinks
<1>11. /\ u.node[g][away] = t.node[g][away] /\ u.node[g][side] = b
       /\ u.node[p][away] = g /\ u.node[p][side] = k
       /\ \A m \in N \ {g, p}, s \in Side : u.node[m][s] = IF t.node[m][s] = g THEN p ELSE t.node[m][s]
       /\ Parent(u, g) = p /\ Parent(u, p) = Parent(t, g)
       /\ \A m \in N \ {g, p, b} : Parent(u, m) = Parent(t, m)
  <2>1. \A m \in N, f \in Link : u.node[m][f] = r.node[m][f]
    BY <1>5, <1>9 DEF SameLinks
  <2>2. \A m \in N, s \in Side : u.node[m][s] = r.node[m][s]
    BY <2>1, Sides
  <2>3. \A m \in N : Parent(u, m) = Parent(r, m)
    BY <2>1 DEF Parent, Link
  <2> QED BY <2>2, <2>3, <1>1, <1>2, <1>4 DEF Rotated
<1>12. H2 \in [N \cup {LEAF} -> Nat] /\ H2[LEAF] = 0 /\ H2[g] = H[p] /\ H2[p] = H[g]
       /\ \A m \in (N \cup {LEAF}) \ {g, p} : H2[m] = H[m]
  BY <1>1, <1>3, <1>5
<1> HIDE DEF H2
<1>13. k # g /\ k # p /\ b # k /\ t.node[g][away] # p /\ t.node[g][away] # g /\ t.node[g][away] \in N \cup {LEAF}
  <2>1. k # p /\ b # k
    BY <1>1, <1>2, <1>3, ShapedAround
  <2>2. t.node[g][away] # p /\ t.node[g][away] # g /\ t.node[g][away] \in N \cup {LEAF}
    BY <1>1, <1>2, <1>3, ShapedAround
  <2>3. Parent(t, p) = g
    BY <1>1, <1>2, ShapedAround
  <2>4. k # g
    <3>1. b = g \/ k = g => Parent(t, g) = p
      BY <1>1, ShapedAround
    <3>2. k = g => Color(t, g) = Red
      BY <1>1
    <3>3. k # g \/ r.node[p][side] = g
      BY <1>1, <1>2, <1>4, <1>11 DEF Rotated
    <3>4. r.node[p][away] = g
      BY <1>4 DEF Rotated
    <3>5. r.node[p][away] # LEAF => r.node[p][away] # r.node[p][Other(away)]
      BY <1>1, <1>2, <1>4, <1>5, ShapedAround
    <3> QED BY <3>3, <3>4, <3>5, <1>2, <1>3
  <2> QED BY <2>1, <2>2, <2>4
<1>14. Color(t, g) = Black
  <2>1. CalmAt(t, g, k) /\ p # k
    BY <1>1, <1>13
  <2> QED BY <2>1, <1>1, <1>3, ColorType DEF CalmAt
<1>15. \A m \in N \ {g, p}, s \in Side : /\ t.node[m][s] # p /\ t.node[m][s] # k /\ t.node[m][s] \in N \cup {LEAF}
  <2> TAKE m \in N \ {g, p}, s \in Side
  <2>1. t.node[m][s] # p
    BY <1>1, <1>3, OneParent
  <2>2. t.node[m][s] # k
    BY <1>1, <1>3, OneParent
  <2> QED BY <2>1, <2>2, ShapedAround
<1>16. /\ H[g] = H[p] + 1 /\ H[g] = H[t.node[g][away]] + 1 /\ H[p] = H[k] /\ H[p] = H[b]
       /\ H[g] \in Nat /\ H[p] \in Nat
  <2>1. Unit(t, g) = 1 /\ Unit(t, p) = 0
    BY <1>1, <1>3, <1>14, ColorType DEF Unit
  <2>2. EvenAt(t, H, g) /\ EvenAt(t, H, p)
    BY <1>1
  <2>3. H[g] = H[p] + 1 /\ H[g] = H[t.node[g][away]] + 1 /\ H[p] = H[k] + 0 /\ H[p] = H[b] + 0
    BY <2>1, <2>2, <1>2 DEF EvenAt
  <2>4. H[k] \in Nat /\ H[b] \in Nat /\ H[g] \in Nat /\ H[p] \in Nat
    BY <1>1, <1>5
  <2> QED BY <2>3, <2>4
<1>17. ASSUME NEW m \in N PROVE EvenAt(u, H2, m) /\ CalmAt(u, m, LEAF)
  <2>1. CASE m = g
    <3>1. Color(u, g) = Red /\ Unit(u, g) = 0
      BY <1>3, <1>9, ColorType DEF Unit
    <3>2. H2[b] = H[b] /\ H2[t.node[g][away]] = H[t.node[g][away]] /\ H[t.node[g][away]] \in Nat
      BY <1>1, <1>5, <1>12, <1>13
    <3>3. \A s \in Side : H2[g] = H2[u.node[g][s]] + 0
      BY <3>2, <1>2, <1>11, <1>12, <1>16 DEF Side
    <3>4. Color(u, b) = Black /\ Color(u, t.node[g][away]) = Black
      <4>1. Color(t, b) = Black
        BY <1>1, <1>2, <1>13 DEF CalmAt
      <4> QED BY <4>1, <1>5, <1>9, <1>13
    <3> QED BY <3>1, <3>3, <3>4, <2>1, <1>2, <1>11 DEF EvenAt, CalmAt, Side
  <2>2. CASE m = p
    <3>1. Color(u, p) = Black /\ Unit(u, p) = 1 /\ Black # Red
      BY <1>1, <1>3, <1>5, <1>9, ColorType DEF Unit
    <3>2. H2[k] = H[k]
      BY <1>1, <1>12, <1>13
    <3>3. \A s \in Side : H2[p] = H2[u.node[p][s]] + 1
      BY <3>2, <1>2, <1>11, <1>12, <1>16 DEF Side
    <3> QED BY <3>1, <3>3, <2>2 DEF EvenAt, CalmAt
  <2>3. CASE m \notin {g, p}
    <3>1. \A s \in Side : /\ u.node[m][s] = IF t.node[m][s] = g THEN p ELSE t.node[m][s]
                          /\ t.node[m][s] # p /\ t.node[m][s] # k /\ t.node[m][s] \in N \cup {LEAF}
      BY <2>3, <1>11, <1>15
    <3>2. Color(u, m) = Color(t, m) /\ H2[m] = H[m] /\ Unit(u, m) = Unit(t, m)
      BY <2>3, <1>9, <1>12 DEF Unit
    <3>3. \A s \in Side : H2[u.node[m][s]] = H[t.node[m][s]]
      BY <3>1, <1>12
    <3>4. EvenAt(u, H2, m)
      BY <3>2, <3>3, <1>1 DEF EvenAt
    <3>5. CalmAt(u, m, LEAF)
      <4>1. Color(u, p) = Black
        BY <1>1, <1>5, <1>9
      <4> QED BY <4>1, <3>1, <3>2, <1>1, <1>9 DEF CalmAt
    <3> QED BY <3>4, <3>5
  <2> QED BY <2>1, <2>2, <2>3
<1>18. BlackTop(u)
  <2> SUFFICES ASSUME NEW m \in N, Parent(u, m) = NULL PROVE Color(u, m) = Black
    BY <1>10 DEF BlackTop
  <2>1. m # g
    BY <1>1, <1>3, <1>11
  <2>2. CASE m = p
    BY <2>2, <1>5, <1>9
  <2>3. CASE m = b
    <3>1. Parent(u, b) = g
      BY <2>3, <1>2, <1>10, <1>11, ShapedAround
    <3> QED BY <3>1, <2>3, <1>3
  <2>4. CASE m \notin {g, p, b}
    BY <2>4, <1>1, <1>9, <1>11 DEF BlackTop
  <2> QED BY <2>1, <2>2, <2>3, <2>4
<1>19. Balanced(u, H2)
  BY <1>10, <1>12, <1>17, <1>18 DEF Balanced, Even, Heights
<1>20. Parent(r, g) = p
  BY <1>4 DEF Rotated
<1> QED BY <1>1, <1>9, <1>10, <1>19, <1>20

\* A clash on the inside becomes one on the outside.
LEMMA RaiseInner ==
  ASSUME CompareOrder, NEW t, Shaped(t), NEW H, NEW k, NEW p, Clash(t, H, k, p), NEW g \in Nodes(t), NEW side \in Side,
         t.node[g][side] = p, t.node[p][Other(side)] = k, Color(t, t.node[g][Other(side)]) = Black,
         NEW u, u = Rotate(t, p, side)
  PROVE  /\ Shaped(u) /\ SameValues(t, u) /\ u.root = t.root /\ Clash(u, H, p, k)
         /\ g \in Nodes(u) /\ u.node[g][side] = k /\ u.node[k][side] = p
         /\ Color(u, u.node[g][Other(side)]) = Black
<1> DEFINE N == Nodes(t)
           b == t.node[k][side]
<1>1. /\ k \in N /\ p \in N /\ Parent(t, k) = p /\ Color(t, k) = Red /\ Color(t, p) = Red
      /\ H \in [N \cup {LEAF} -> Nat] /\ H[LEAF] = 0 /\ \A n \in N : EvenAt(t, H, n) /\ CalmAt(t, n, k)
      /\ BlackTop(t)
  BY DEF Clash, Even, Heights
<1>2. Typed(t) /\ LEAF \notin N /\ NULL \notin N /\ k # LEAF
  BY <1>1, Keys DEF Shaped, Shape, Hangs, Typed
<1>3. Shaped(u) /\ Rotated(t, u, p, side, k, b)
  BY <1>1, <1>2, RotateShape
<1>4. /\ Typed(u) /\ Nodes(u) = N /\ SameColors(t, u) /\ SameValues(t, u) /\ u.root = t.root
      /\ k # p /\ b # p /\ b # k /\ b \in N \cup {LEAF}
      /\ \A m \in N \cup {LEAF} : Color(u, m) = Color(t, m) /\ Unit(u, m) = Unit(t, m)
  BY <1>3, RelinksKeeps DEF Rotated, SameColors, Unit
<1>5. /\ u.node[p][side] = t.node[p][side] /\ u.node[p][Other(side)] = b
      /\ u.node[k][side] = p /\ u.node[k][Other(side)] = t.node[k][Other(side)]
      /\ \A m \in N \ {p, k}, s \in Side : u.node[m][s] = IF t.node[m][s] = p THEN k ELSE t.node[m][s]
      /\ Parent(u, p) = k /\ Parent(u, k) = Parent(t, p)
      /\ \A m \in N \ {p, k, b} : Parent(u, m) = Parent(t, m)
  BY <1>3 DEF Rotated
<1>6. Parent(t, p) = g /\ g # p
  BY <1>1, ShapedAround
<1>7. g # k
  <2>1. Parent(u, k) = g
    BY <1>5, <1>6
  <2>2. Parent(u, k) # k
    BY <1>1, <1>3, <1>4, ShapedAround
  <2> QED BY <2>1, <2>2
<1>8. Color(t, g) = Black
  <2>1. CalmAt(t, g, k) /\ p # k
    BY <1>1, <1>4
  <2> QED BY <2>1, <1>1, <1>2, ColorType DEF CalmAt
<1>9. H[p] = H[k] /\ H[p] = H[b] /\ H[p] = H[t.node[p][side]] /\ H[k] = H[t.node[k][Other(side)]]
  <2>1. Unit(t, p) = 0 /\ Unit(t, k) = 0
    BY <1>1, <1>2, ColorType DEF Unit
  <2>2. EvenAt(t, H, p) /\ EvenAt(t, H, k) /\ Other(side) \in Side
    BY <1>1, Sides
  <2>3. /\ H[p] = H[k] + 0 /\ H[k] = H[b] + 0 /\ H[p] = H[t.node[p][side]] + 0
        /\ H[k] = H[t.node[k][Other(side)]] + 0
    BY <2>1, <2>2 DEF EvenAt
  <2>4. t.node[p][side] \in N \cup {LEAF} /\ t.node[k][Other(side)] \in N \cup {LEAF}
    BY <1>1, <2>2, ShapedAround
  <2>5. H[k] \in Nat /\ H[b] \in Nat /\ H[t.node[p][side]] \in Nat /\ H[t.node[k][Other(side)]] \in Nat
    BY <2>4, <1>1, <1>4
  <2> QED BY <2>3, <2>5
<1>10. \A m \in N \ {p, k}, s \in Side : t.node[m][s] # k /\ t.node[m][s] \in N \cup {LEAF}
  <2> TAKE m \in N \ {p, k}, s \in Side
  <2>1. t.node[m][s] # k
    BY <1>1, <1>2, Sides, OneParent
  <2> QED BY <2>1, ShapedAround
<1>11. Unit(t, p) = 0 /\ Unit(t, k) = 0 /\ H[p] \in Nat /\ H[k] \in Nat
  BY <1>1, <1>2, ColorType DEF Unit
<1>12. ASSUME NEW m \in N PROVE EvenAt(u, H, m) /\ CalmAt(u, m, p)
  <2>1. CASE m = p
    <3>1. \A s \in Side : H[p] = H[u.node[p][s]] + 0
      <4>1. H[u.node[p][side]] = H[p] /\ H[u.node[p][Other(side)]] = H[p]
        BY <1>5, <1>9
      <4>2. \A s \in Side : H[u.node[p][s]] = H[p]
        BY <4>1, Sides
      <4> QED BY <4>2, <1>11
    <3>2. Color(t, b) = Black /\ Color(t, t.node[p][side]) = Black
      <4>1. b # k /\ t.node[p][side] # k
        BY <1>1, <1>2, <1>4, ShapedAround
      <4> QED BY <4>1, <1>1 DEF CalmAt
    <3>3. t.node[p][side] \in N \cup {LEAF}
      BY <1>1, ShapedAround
    <3>4. \A s \in Side : Color(u, u.node[p][s]) = Black
      BY <3>2, <3>3, <1>4, <1>5 DEF Side, Other
    <3> QED BY <3>1, <3>4, <2>1, <1>1, <1>4, <1>11 DEF EvenAt, CalmAt
  <2>2. CASE m = k
    <3>1. \A s \in Side : H[k] = H[u.node[k][s]] + 0
      <4>1. H[u.node[k][side]] = H[k] /\ H[u.node[k][Other(side)]] = H[k]
        BY <1>5, <1>9, Zenon
      <4>2. \A s \in Side : H[u.node[k][s]] = H[k]
        BY <4>1, Sides
      <4> QED BY <4>2, <1>11
    <3>2. Other(side) \in Side
      BY Sides
    <3>3. t.node[k][Other(side)] # k /\ t.node[k][Other(side)] \in N \cup {LEAF}
      BY <3>2, <1>1, ShapedAround
    <3>4. Color(t, t.node[k][Other(side)]) = Black
      BY <3>2, <3>3, <1>1 DEF CalmAt
    <3>5. CalmAt(u, k, p)
      BY <3>3, <3>4, <1>4, <1>5 DEF CalmAt, Side, Other
    <3> QED BY <3>1, <3>5, <2>2, <1>1, <1>4, <1>11 DEF EvenAt
  <2>3. CASE m \notin {p, k}
    <3>1. \A s \in Side : /\ u.node[m][s] = IF t.node[m][s] = p THEN k ELSE t.node[m][s]
                          /\ t.node[m][s] # k /\ t.node[m][s] \in N \cup {LEAF}
      BY <2>3, <1>5, <1>10
    <3>2. Color(u, m) = Color(t, m) /\ Unit(u, m) = Unit(t, m)
      BY <1>4
    <3>3. \A s \in Side : H[u.node[m][s]] = H[t.node[m][s]]
      BY <3>1, <1>9, Zenon
    <3>4. EvenAt(u, H, m)
      BY <3>2, <3>3, <1>1 DEF EvenAt
    <3>5. CalmAt(u, m, p)
      <4>1. \A s \in Side : Color(u, u.node[m][s]) = Color(t, t.node[m][s])
        BY <3>1, <1>1, <1>4
      <4>2. CalmAt(t, m, k)
        BY <1>1
      <4> QED BY <4>1, <4>2, <3>1, <3>2 DEF CalmAt
    <3> QED BY <3>4, <3>5
  <2> QED BY <2>1, <2>2, <2>3
<1>13. BlackTop(u)
  <2> SUFFICES ASSUME NEW m \in N, Parent(u, m) = NULL PROVE Color(u, m) = Black
    BY <1>4 DEF BlackTop
  <2>1. m # p
    BY <1>1, <1>2, <1>5
  <2>2. m # k
    BY <1>2, <1>5, <1>6
  <2>3. m # b
    <3>1. b \in N => Parent(u, b) = p
      <4>1. u.node[p][Other(side)] = b /\ Other(side) \in Side
        BY <1>5, Sides
      <4> QED BY <4>1, <1>1, <1>3, <1>4, ShapedAround
    <3> QED BY <3>1, <1>1, <1>2
  <2> QED BY <2>1, <2>2, <2>3, <1>1, <1>4, <1>5 DEF BlackTop
<1>14. Clash(u, H, p, k)
  BY <1>1, <1>4, <1>5, <1>12, <1>13 DEF Clash, Even, Heights
<1>15. u.node[g][side] = k /\ Color(u, u.node[g][Other(side)]) = Black
  <2>1. Other(side) \in Side /\ t.node[g][Other(side)] # p /\ t.node[g][Other(side)] \in N \cup {LEAF}
    <3>1. Other(side) \in Side
      BY Sides
    <3>2. t.node[g][side] # t.node[g][Other(side)]
      BY <1>1, <1>2, ShapedAround
    <3> QED BY <3>1, <3>2, ShapedAround
  <2> QED BY <2>1, <1>4, <1>5, <1>6, <1>7
<1> QED BY <1>3, <1>4, <1>5, <1>14, <1>15

\* The child of its parent that a node is.
LEMMA ShapedSide ==
  ASSUME NEW t, Shaped(t), NEW n \in Nodes(t), Parent(t, n) # NULL
  PROVE  /\ Parent(t, n) \in Nodes(t) /\ SideOf(t, n) \in Side /\ t.node[Parent(t, n)][SideOf(t, n)] = n
         /\ \A m \in Nodes(t), side \in Side : t.node[m][side] = n <=> m = Parent(t, n) /\ side = SideOf(t, n)
<1>1. PICK top, sub : Hangs(t, top, sub)
  BY DEF Shaped, Shape
<1> QED BY <1>1, SideOfChild

\* Making a node the root, where it is the top.
LEMMA RootNode ==
  ASSUME NEW t, Typed(t), NEW n \in Nodes(t), NEW u, u = RootIfTop(t, n)
  PROVE  SameLinks(t, u) /\ SameValues(t, u) /\ SameColors(t, u) /\ u.root \in {t.root, n}
<1>1. t = [root |-> t.root, node |-> t.node] /\ n \in Int
  BY Keys DEF Typed
<1>2. u = t \/ u = [root |-> n, node |-> t.node]
  BY <1>1, Zenon DEF RootIfTop
<1>3. u.node = t.node /\ u.root \in {t.root, n} /\ u = [root |-> u.root, node |-> u.node]
  BY <1>1, <1>2
<1>4. Nodes(u) = Nodes(t)
  BY <1>3 DEF Nodes
<1> QED BY <1>1, <1>3, <1>4 DEF Typed, SameLinks, SameValues, SameColors, Color

\* Colours and links are all that balance is about.
LEMMA SameBalance ==
  ASSUME NEW t, Shaped(t), NEW u, SameLinks(t, u), SameColors(t, u), NEW H
  PROVE  /\ Even(t, H) => Even(u, H)
         /\ BlackTop(t) => BlackTop(u)
         /\ \A k : \A n \in Nodes(t) : CalmAt(t, n, k) => CalmAt(u, n, k)
         /\ Balanced(t, H) => Balanced(u, H)
<1>1. /\ Typed(t) /\ Nodes(u) = Nodes(t) /\ \A m \in Nodes(t), s \in Side : u.node[m][s] = t.node[m][s]
      /\ \A m \in Nodes(t) : Parent(u, m) = Parent(t, m)
  BY Sides DEF SameLinks, Parent, Link
<1>2. \A m \in Nodes(t) : Color(u, m) = Color(t, m) /\ Unit(u, m) = Unit(t, m)
  BY DEF SameColors, Unit
<1>3. \A k : \A n \in Nodes(t) : CalmAt(t, n, k) => CalmAt(u, n, k)
  <2> TAKE k
  <2> TAKE n \in Nodes(t)
  <2>1. \A s \in Side : u.node[n][s] = t.node[n][s]
    BY <1>1
  <2>2. \A s \in Side : Color(u, t.node[n][s]) = Color(t, t.node[n][s])
    BY ShapedAround DEF SameColors
  <2> QED BY <2>1, <2>2, <1>2 DEF CalmAt
<1> QED BY <1>1, <1>2, <1>3 DEF Even, Heights, EvenAt, BlackTop, Balanced

\* u is a tree with the nodes and values of t, and is in balance.
Mended(t, u) ==
  /\ Shaped(u) /\ SameValues(t, u) /\ u.root \in Nodes(t) \cup {t.root} /\ \E H : Balanced(u, H)

\* A clash below a black uncle is mended.
LEMMA RaiseClash ==
  ASSUME CompareOrder, NEW t, Shaped(t), NEW H, NEW k, NEW p, Clash(t, H, k, p), Color(t, Uncle(t, k)) = Black
  PROVE  Mended(t, RaiseOverGrandparent(t, k))
<1> DEFINE g == Parent(t, p)
           side == SideOf(t, p)
           t1 == IF SideOf(t, k) = side THEN t ELSE Rotate(t, p, side)
           t2 == Rotate(t1, g, Other(side))
           up == Parent(t2, g)
           u  == RootIfTop(Paint(Paint(t2, up, Black), g, Red), up)
<1>1. k \in Nodes(t) /\ p \in Nodes(t) /\ Parent(t, k) = p /\ Color(t, p) = Red /\ BlackTop(t) /\ Typed(t)
  BY DEF Clash, Shaped, Shape, Hangs
<1>2. RaiseOverGrandparent(t, k) = u
  BY <1>1 DEF RaiseOverGrandparent
<1>3. Parent(t, p) # NULL /\ Parent(t, k) # NULL
  <2>1. Parent(t, p) # NULL
    BY <1>1, ColorType DEF BlackTop
  <2> QED BY <2>1, <1>1, Keys DEF Typed
<1>4. g \in Nodes(t) /\ side \in Side /\ t.node[g][side] = p
  BY <1>1, <1>3, ShapedSide
<1>5. Color(t, t.node[g][Other(side)]) = Black
  BY <1>1 DEF Uncle
<1>6. SideOf(t, k) \in Side /\ t.node[p][SideOf(t, k)] = k
  BY <1>1, <1>3, ShapedSide
<1> HIDE DEF g, side
<1>7. ASSUME NEW r, Shaped(r), SameValues(t, r), r.root = t.root, g \in Nodes(r), NEW a, NEW b, Clash(r, H, a, b),
             r.node[g][side] = b, r.node[b][side] = a, Color(r, r.node[g][Other(side)]) = Black, t1 = r
      PROVE  Mended(t, u)
  <2> DEFINE v == Paint(Paint(t2, b, Black), g, Red)
  <2>1. t2 = Rotate(r, g, Other(side))
    BY <1>7
  <2> HIDE DEF t1, t2
  <2>2. /\ Shaped(v) /\ SameValues(r, v) /\ v.root = r.root /\ \E H2 : Balanced(v, H2)
        /\ up = b /\ b \in Nodes(v)
    BY <2>1, <1>4, <1>7, RaiseOuter
  <2>3. u = RootIfTop(v, b)
    BY <2>2
  <2> HIDE DEF u, v
  <2>4. Typed(v)
    BY <2>2 DEF Shaped, Shape, Hangs
  <2>5. SameLinks(v, u) /\ SameValues(v, u) /\ SameColors(v, u) /\ u.root \in {v.root, b}
    BY <2>2, <2>3, <2>4, RootNode
  <2>6. Shaped(u) /\ \E H2 : Balanced(u, H2)
    BY <2>2, <2>5, SameShape, SameBalance
  <2>7. SameValues(t, u) /\ b \in Nodes(t)
    BY <2>2, <2>5, <1>7 DEF SameValues
  <2> QED BY <2>2, <2>5, <2>6, <2>7, <1>7 DEF Mended
<1>8. CASE SideOf(t, k) = side
  <2>1. t1 = t /\ SameValues(t, t)
    BY <1>8 DEF SameValues
  <2> HIDE DEF t1, u
  <2>2. Mended(t, u)
    BY <2>1, <1>4, <1>5, <1>6, <1>8, <1>7
  <2> QED BY <2>2, <1>2
<1>9. CASE SideOf(t, k) # side
  <2>1. t1 = Rotate(t, p, side) /\ SideOf(t, k) = Other(side)
    BY <1>4, <1>6, <1>9, Sides
  <2> HIDE DEF t1, u
  <2>2. /\ Shaped(t1) /\ SameValues(t, t1) /\ t1.root = t.root /\ Clash(t1, H, p, k)
        /\ g \in Nodes(t1) /\ t1.node[g][side] = k /\ t1.node[k][side] = p
        /\ Color(t1, t1.node[g][Other(side)]) = Black
    BY <2>1, <1>4, <1>5, <1>6, RaiseInner
  <2>3. Mended(t, u)
    BY <2>2, <1>7
  <2> QED BY <2>3, <1>2
<1> QED BY <1>8, <1>9

-----------------------------------------------------------------------------
(* Insertion: the repair.                                                  *)

\* Painting several nodes.
LEMMA RecolorNodes ==
  ASSUME NEW t, Typed(t), NEW black, NEW red, NEW u, u = Recolor(t, black, red)
  PROVE  /\ SameLinks(t, u) /\ SameValues(t, u) /\ u.root = t.root /\ Color(u, LEAF) = Black
         /\ \A m \in Nodes(t) : Color(u, m) = IF m \in black THEN Black ELSE IF m \in red THEN Red ELSE Color(t, m)
<1> DEFINE color(m) == IF m \in black THEN Black ELSE IF m \in red THEN Red ELSE t.node[m].color
           node == [m \in Nodes(t) |-> [t.node[m] EXCEPT !["color"] = color(m)]]
<1>1. t = [root |-> t.root, node |-> t.node] /\ t.node \in [Nodes(t) -> Cell]
  BY DEF Typed
<1>2. u = [t EXCEPT !.node = node]
  BY DEF Recolor
<1>3. u = [root |-> t.root, node |-> node]
  BY <1>1, <1>2, Zenon
<1>4. ASSUME NEW m \in Nodes(t)
      PROVE  /\ [t.node[m] EXCEPT !["color"] = color(m)] \in Cell
             /\ node[m].value = t.node[m].value /\ \A g \in Link : node[m][g] = t.node[m][g]
             /\ node[m].color = color(m)
  <2>1. t.node[m] \in Cell /\ color(m) \in {Red, Black}
    BY <1>1 DEF Cell
  <2>2. node[m] = [t.node[m] EXCEPT !["color"] = color(m)]
    OBVIOUS
  <2> HIDE DEF color, node
  <2> QED BY <2>1, <2>2 DEF Cell, Link
<1>5. node \in [Nodes(t) -> Cell]
  BY <1>4
<1>6. u.node = node /\ u.root = t.root /\ u = [root |-> u.root, node |-> u.node] /\ Nodes(u) = Nodes(t)
  BY <1>3 DEF Nodes
<1> HIDE DEF node
<1>7. Typed(u) /\ LEAF \notin Nodes(t)
  BY <1>5, <1>6, Keys DEF Typed
<1> QED BY <1>4, <1>6, <1>7, Zenon DEF SameLinks, SameValues, Color

\* Below a parent there is less of the tree.
LEMMA ShapedDepths ==
  ASSUME NEW t, Shaped(t)
  PROVE  \E rank \in [Nodes(t) -> Nat] :
           \A n \in Nodes(t) : Parent(t, n) # NULL => Parent(t, n) \in Nodes(t) /\ rank[Parent(t, n)] < rank[n]
<1>1. PICK top, sub : Hangs(t, top, sub)
  BY DEF Shaped, Shape
<1>2. B!Hung(Nodes(t), Kid(t, "left"), Kid(t, "right"), Up(t), top, sub) /\ B!IsFiniteSet(Nodes(t)) /\ Typed(t)
  BY <1>1, Finite DEF Hangs, Typed
<1>3. \E rank \in [Nodes(t) -> Nat] :
        \A n \in Nodes(t) : Up(t)[n] # LEAF => Up(t)[n] \in Nodes(t) /\ rank[Up(t)[n]] < rank[n]
  BY <1>2, Keys, B!Depths
<1>4. \A n \in Nodes(t) : Parent(t, n) # NULL => Up(t)[n] = Parent(t, n) /\ Parent(t, n) \in Nodes(t) /\ Parent(t, n) # LEAF
  BY <1>1, <1>2, Keys DEF Hangs, Up, Typed
<1> QED BY <1>3, <1>4

\* The nodes the repair of an insertion passes, from k up to the last one.
LEMMA RisenWay ==
  ASSUME NEW t, Shaped(t), BlackTop(t), NEW k \in Nodes(t), NEW R, R = Risen(t, k)
  PROVE  /\ R \subseteq Nodes(t) /\ k \in R /\ (RedUncle(t, k) \/ R = {k})
         /\ \A m \in R : RedUncle(t, m) => Parent(t, Parent(t, m)) \in R
         /\ \A m \in R : Parent(t, m) # k /\ (RedUncle(t, m) => Parent(t, Parent(t, m)) # k)
         /\ \A m \in R : m = k \/ \E x \in R : RedUncle(t, x) /\ m = Parent(t, Parent(t, x))
         /\ \E m \in R : ~RedUncle(t, m) /\ \A x \in R : RedUncle(t, x) \/ x = m
<1> DEFINE N == Nodes(t)
           A == [m \in N |-> Parent(t, Parent(t, m))]
           Go == {m \in N : RedUncle(t, m)}
           rise == CHOOSE g : g = [m \in N |-> {m} \cup IF RedUncle(t, m) THEN g[Parent(t, Parent(t, m))] ELSE {}]
<1>1. PICK rank \in [N -> Nat] :
        \A n \in N : Parent(t, n) # NULL => Parent(t, n) \in N /\ rank[Parent(t, n)] < rank[n]
  BY ShapedDepths
<1>2. Go \subseteq N /\ \A n \in Go : A[n] \in N /\ rank[A[n]] < rank[n]
  <2>1. ASSUME NEW n \in Go PROVE A[n] \in N /\ rank[A[n]] < rank[n]
    <3>1. Parent(t, n) # NULL /\ Color(t, Parent(t, n)) = Red /\ n \in N
      BY DEF RedUncle
    <3>2. Parent(t, n) \in N /\ rank[Parent(t, n)] < rank[n]
      BY <3>1, <1>1
    <3>3. Parent(t, Parent(t, n)) # NULL
      BY <3>1, <3>2 DEF BlackTop, Red, Black
    <3>4. Parent(t, Parent(t, n)) \in N /\ rank[Parent(t, Parent(t, n))] < rank[Parent(t, n)]
      BY <3>2, <3>3, <1>1
    <3>5. A[n] = Parent(t, Parent(t, n))
      BY <3>1
    <3> HIDE DEF A
    <3>6. rank[n] \in Nat /\ rank[Parent(t, n)] \in Nat /\ rank[Parent(t, Parent(t, n))] \in Nat
      BY <3>1, <3>2, <3>4
    <3> QED BY <3>2, <3>4, <3>5, <3>6
  <2> QED BY <2>1
<1>3. R = rise[k]
  BY Zenon DEF Risen
<1>4. \E g : g = [m \in N |-> {m} \cup IF RedUncle(t, m) THEN g[Parent(t, Parent(t, m))] ELSE {}]
  <2>1. \E g \in [N -> SUBSET N] : B!Ways(N, A, Go, g)
    <3> HIDE DEF A, Go, N
    <3> QED BY <1>2, B!WaysExist, Zenon
  <2>2. PICK g \in [N -> SUBSET N] : B!Ways(N, A, Go, g)
    BY <2>1, Zenon
  <2>3. \A m \in N : g[m] = {m} \cup IF RedUncle(t, m) THEN g[Parent(t, Parent(t, m))] ELSE {}
    BY <2>2 DEF B!Ways
  <2> QED BY <2>2, <2>3
<1>5. rise = [m \in N |-> {m} \cup IF RedUncle(t, m) THEN rise[Parent(t, Parent(t, m))] ELSE {}]
  BY <1>4, Zenon
<1> HIDE DEF rise
<1>6. B!Ways(N, A, Go, rise)
  <2>1. \A m \in N : rise[m] = {m} \cup IF RedUncle(t, m) THEN rise[Parent(t, Parent(t, m))] ELSE {}
    BY <1>5, Zenon
  <2> QED BY <2>1 DEF B!Ways
<1>7. /\ R \subseteq N /\ k \in R /\ \A m \in R \cap Go : A[m] \in R
      /\ \A S : k \in S /\ (\A m \in S \cap Go : A[m] \in S) => R \subseteq S
      /\ \E m \in R \ Go : R \ Go = {m}
  <2>1. k \in N
    OBVIOUS
  <2> HIDE DEF A, Go, N
  <2>2. rise[k] \subseteq N /\ B!Way(A, Go, k, rise[k])
    BY <2>1, <1>2, <1>6, B!WaysEnd, Zenon
  <2> QED BY <2>2, <1>3 DEF B!Way
<1>8. \A m \in R : RedUncle(t, m) => Parent(t, Parent(t, m)) \in R
  BY <1>7
<1>9. \A m \in R : m = k \/ \E x \in R : RedUncle(t, x) /\ m = Parent(t, Parent(t, x))
  <2> DEFINE S == {k} \cup {m \in R : \E x \in R : RedUncle(t, x) /\ m = Parent(t, Parent(t, x))}
  <2>1. \A m \in S \cap Go : A[m] \in S
    <3> TAKE m \in S \cap Go
    <3>1. m \in R /\ m \in N /\ RedUncle(t, m) /\ A[m] = Parent(t, Parent(t, m))
      BY <1>7
    <3> QED BY <3>1, <1>8
  <2>2. R \subseteq S
    <3> HIDE DEF S, A, Go
    <3>1. k \in S
      BY DEF S
    <3> QED BY <3>1, <2>1, <1>7
  <2> QED BY <2>2
<1>10. \E m \in R : ~RedUncle(t, m) /\ \A x \in R : RedUncle(t, x) \/ x = m
  <2>1. PICK m \in R \ Go : R \ Go = {m}
    BY <1>7
  <2>2. ~RedUncle(t, m)
    BY <2>1, <1>7
  <2>3. \A x \in R : RedUncle(t, x) \/ x = m
    BY <2>1, <1>7
  <2> QED BY <2>1, <2>2, <2>3
<1>11. RedUncle(t, k) \/ R = {k}
  <2> SUFFICES ASSUME ~RedUncle(t, k) PROVE R = {k}
    OBVIOUS
  <2>1. \A m \in {k} \cap Go : A[m] \in {k}
    OBVIOUS
  <2> HIDE DEF A, Go
  <2>2. R \subseteq {k}
    BY <2>1, <1>7, Zenon
  <2> QED BY <2>2, <1>7
<1>12. \A m \in R : rank[m] <= rank[k]
  <2> DEFINE S == {m \in N : rank[m] <= rank[k]}
  <2>1. \A m \in S \cap Go : A[m] \in S
    <3> TAKE m \in S \cap Go
    <3>1. m \in N /\ rank[m] <= rank[k] /\ A[m] \in N /\ rank[A[m]] < rank[m]
      BY <1>2
    <3> HIDE DEF A
    <3>2. rank[m] \in Nat /\ rank[k] \in Nat /\ rank[A[m]] \in Nat
      BY <3>1
    <3> QED BY <3>1, <3>2
  <2>2. k \in S
    OBVIOUS
  <2>3. R \subseteq S
    <3> HIDE DEF S, A, Go
    <3> QED BY <2>1, <2>2, <1>7
  <2> QED BY <2>3
<1>13. \A m \in R : Parent(t, m) # k /\ (RedUncle(t, m) => Parent(t, Parent(t, m)) # k)
  <2> TAKE m \in R
  <2>0. m \in N /\ rank[m] <= rank[k] /\ k # NULL /\ rank[m] \in Nat /\ rank[k] \in Nat
    BY <1>7, <1>12, ShapedAround, Sides
  <2>1. Parent(t, m) # k
    <3>1. Parent(t, m) # NULL => rank[Parent(t, m)] < rank[m]
      BY <2>0, <1>1
    <3> QED BY <3>1, <2>0
  <2>2. RedUncle(t, m) => Parent(t, Parent(t, m)) # k
    <3> SUFFICES ASSUME RedUncle(t, m) PROVE Parent(t, Parent(t, m)) # k
      OBVIOUS
    <3>0. A[m] = Parent(t, Parent(t, m)) /\ m \in Go
      BY <2>0
    <3> HIDE DEF A, Go
    <3>1. rank[A[m]] < rank[m] /\ rank[A[m]] \in Nat
      BY <3>0, <1>2
    <3> QED BY <3>0, <3>1, <2>0
  <2> QED BY <2>1, <2>2
<1> QED BY <1>7, <1>8, <1>9, <1>10, <1>11, <1>13

\* What surrounds a node the repair of an insertion passes.
LEMMA PassedAround ==
  ASSUME NEW t, Shaped(t), BlackTop(t), NEW m \in Nodes(t), RedUncle(t, m),
         NEW p, p = Parent(t, m), NEW g, g = Parent(t, p), NEW y, y = Uncle(t, m)
  PROVE  /\ p \in Nodes(t) /\ g \in Nodes(t) /\ y \in Nodes(t) /\ p # y
         /\ Color(t, p) = Red /\ Color(t, y) = Red /\ Parent(t, y) = g
         /\ \A s \in Side : t.node[g][s] \in {p, y}
         /\ \A n \in Nodes(t), s \in Side : t.node[n][s] \in {p, y} => n = g
<1> DEFINE side == SideOf(t, p)
<1>1. p # NULL /\ Color(t, p) = Red /\ Color(t, y) = Red
  BY Zenon DEF RedUncle
<1>2. p \in Nodes(t)
  BY <1>1, ShapedAround, Sides
<1>3. g # NULL
  BY <1>1, <1>2 DEF BlackTop, Red, Black
<1>4. g \in Nodes(t) /\ side \in Side /\ t.node[g][side] = p
  BY <1>2, <1>3, ShapedSide
<1>5. y = t.node[g][Other(side)]
  BY DEF Uncle
<1> HIDE DEF side
<1>6. y \in Nodes(t)
  <2>1. y \in Nodes(t) \cup {LEAF}
    BY <1>4, <1>5, Sides, ShapedAround
  <2>2. y # LEAF
    BY <1>1 DEF Color, Red, Black
  <2> QED BY <2>1, <2>2
<1>7. Parent(t, y) = g /\ p # y
  <2>1. p # LEAF
    BY <1>2, ShapedAround, Sides
  <2>2. p # y
    BY <2>1, <1>4, <1>5, ShapedAround
  <2>3. Parent(t, y) = g
    BY <1>4, <1>5, <1>6, ShapedAround
  <2> QED BY <2>2, <2>3
<1>8. \A s \in Side : t.node[g][s] \in {p, y}
  BY <1>4, <1>5, Sides
<1>9. ASSUME NEW n \in Nodes(t), NEW s \in Side, t.node[n][s] \in {p, y} PROVE n = g
  <2>1. t.node[n][s] \in Nodes(t) /\ Parent(t, t.node[n][s]) = g
    BY <1>2, <1>6, <1>7, <1>9
  <2>2. Parent(t, t.node[n][s]) = n
    BY <2>1, ShapedAround
  <2> QED BY <2>1, <2>2
<1> QED BY <1>1, <1>2, <1>4, <1>6, <1>7, <1>8, <1>9

\* BL turns black and RD red, for the red node k, and last is where that ends.
Passes(t, k, BL, RD, last) ==
  /\ BL \subseteq Nodes(t) /\ RD \subseteq Nodes(t) /\ last \in RD \cup {k} /\ k \notin BL
  /\ \A x \in BL : Color(t, x) = Red
  /\ \A x \in RD : Color(t, x) = Black
  /\ \A n \in Nodes(t), s \in Side : n \in RD <=> t.node[n][s] \in BL
  /\ \A x \in RD \cup {k} : x = last \/ Parent(t, x) \in BL
  /\ ~RedUncle(t, last) /\ Parent(t, last) # k

\* So it is with the nodes of the way up.
LEMMA RisenPasses ==
  ASSUME NEW t, Shaped(t), BlackTop(t), NEW k \in Nodes(t), Color(t, k) = Red, \A n \in Nodes(t) : CalmAt(t, n, k),
         NEW passed, passed = {m \in Risen(t, k) : RedUncle(t, m)},
         NEW last, last = CHOOSE m \in Risen(t, k) : m \notin passed
  PROVE  Passes(t, k, UNION {{Parent(t, m), Uncle(t, m)} : m \in passed}, {Parent(t, Parent(t, m)) : m \in passed}, last)
<1> DEFINE R == Risen(t, k)
           BL == UNION {{Parent(t, m), Uncle(t, m)} : m \in passed}
           RD == {Parent(t, Parent(t, m)) : m \in passed}
<1>1. /\ R \subseteq Nodes(t) /\ k \in R /\ (RedUncle(t, k) \/ R = {k})
      /\ \A m \in R : RedUncle(t, m) => Parent(t, Parent(t, m)) \in R
      /\ \A m \in R : Parent(t, m) # k /\ (RedUncle(t, m) => Parent(t, Parent(t, m)) # k)
      /\ \A m \in R : m = k \/ \E x \in R : RedUncle(t, x) /\ m = Parent(t, Parent(t, x))
      /\ \E m \in R : ~RedUncle(t, m) /\ \A x \in R : RedUncle(t, x) \/ x = m
  BY RisenWay
<1>2. last \in R /\ ~RedUncle(t, last) /\ \A m \in R : m \in passed \/ m = last
  <2>1. \E m \in R : m \notin passed
    BY <1>1
  <2>2. last \in R /\ last \notin passed
    BY <2>1
  <2> QED BY <2>2, <1>1
<1> HIDE DEF R
<1>3. \A m \in passed : m \in R /\ m \in Nodes(t) /\ RedUncle(t, m)
  BY <1>1 DEF R
<1>4. ASSUME NEW m \in passed
      PROVE  /\ Parent(t, m) \in Nodes(t) /\ Uncle(t, m) \in Nodes(t) /\ Parent(t, Parent(t, m)) \in Nodes(t)
             /\ Color(t, Parent(t, m)) = Red /\ Color(t, Uncle(t, m)) = Red
             /\ \A s \in Side : t.node[Parent(t, Parent(t, m))][s] \in {Parent(t, m), Uncle(t, m)}
             /\ \A n \in Nodes(t), s \in Side :
                  t.node[n][s] \in {Parent(t, m), Uncle(t, m)} => n = Parent(t, Parent(t, m))
             /\ Parent(t, m) # Uncle(t, m) /\ Parent(t, Uncle(t, m)) = Parent(t, Parent(t, m))
  BY <1>3, PassedAround
<1>5. ASSUME NEW m \in passed PROVE Color(t, Parent(t, Parent(t, m))) = Black
  <2> DEFINE g == Parent(t, Parent(t, m))
             p == Parent(t, m)
  <2>1. g \in Nodes(t) /\ p \in Nodes(t) /\ p # k /\ Color(t, p) = Red
    BY <1>1, <1>3, <1>4
  <2>2. SideOf(t, p) \in Side /\ t.node[g][SideOf(t, p)] = p
    <3>1. g # NULL
      BY <2>1, ShapedAround, Sides
    <3> QED BY <2>1, <3>1, ShapedSide
  <2> HIDE DEF g, p
  <2>3. CalmAt(t, g, k)
    BY <2>1
  <2>4. Color(t, g) \in {Red, Black} /\ Red # Black
    BY <2>1, ColorType DEF Shaped, Shape, Hangs
  <2>5. Color(t, g) = Black
    BY <2>1, <2>2, <2>3, <2>4 DEF CalmAt
  <2> QED BY <2>5 DEF g
<1>6. k \notin BL
  <2> SUFFICES ASSUME NEW m \in passed, k \in {Parent(t, m), Uncle(t, m)} PROVE FALSE
    OBVIOUS
  <2>1. Parent(t, m) # k
    BY <1>1, <1>3
  <2>2. k = Uncle(t, m)
    BY <2>1
  <2>3. RedUncle(t, k)
    <3>1. m # k
      BY <2>2, <1>4, <1>3, ShapedAround, Sides
    <3>2. R # {k}
      BY <3>1, <1>3
    <3> QED BY <3>2, <1>1
  <2>4. Color(t, Parent(t, k)) = Red
    BY <2>3 DEF RedUncle
  <2>5. Parent(t, k) = Parent(t, Parent(t, m))
    BY <2>2, <1>4
  <2> QED BY <2>4, <2>5, <1>5 DEF Red, Black
<1>7. \A n \in Nodes(t), s \in Side : n \in RD <=> t.node[n][s] \in BL
  <2> TAKE n \in Nodes(t), s \in Side
  <2>1. ASSUME n \in RD PROVE t.node[n][s] \in BL
    <3>1. PICK m \in passed : n = Parent(t, Parent(t, m))
      BY <2>1
    <3> QED BY <3>1, <1>4
  <2>2. ASSUME t.node[n][s] \in BL PROVE n \in RD
    <3>1. PICK m \in passed : t.node[n][s] \in {Parent(t, m), Uncle(t, m)}
      BY <2>2
    <3> QED BY <3>1, <1>4
  <2> QED BY <2>1, <2>2
<1>8. \A x \in RD \cup {k} : x \in R
  BY <1>1, <1>3
<1>9. \A x \in RD \cup {k} : x = last \/ Parent(t, x) \in BL
  <2> TAKE x \in RD \cup {k}
  <2>1. x \in passed \/ x = last
    BY <1>2, <1>8
  <2> QED BY <2>1
<1>10. last \in RD \cup {k}
  <2>1. last = k \/ \E x \in R : RedUncle(t, x) /\ last = Parent(t, Parent(t, x))
    BY <1>1, <1>2
  <2>2. \A x \in R : RedUncle(t, x) => x \in passed
    BY DEF R
  <2> QED BY <2>1, <2>2
<1>11. BL \subseteq Nodes(t) /\ RD \subseteq Nodes(t)
  BY <1>4
<1>12. \A x \in BL : Color(t, x) = Red
  BY <1>4
<1>13. \A x \in RD : Color(t, x) = Black
  BY <1>5
<1>14. Parent(t, last) # k
  BY <1>1, <1>2
<1> HIDE DEF BL, RD
<1>15. Passes(t, k, BL, RD, last)
  BY <1>2, <1>6, <1>7, <1>9, <1>10, <1>11, <1>12, <1>13, <1>14 DEF Passes
<1> QED BY <1>15 DEF BL, RD

\* What is left of the imbalance is at the last node.
LEMMA PassesCalm ==
  ASSUME NEW t, Shaped(t), BlackTop(t), NEW H, Even(t, H), NEW k \in Nodes(t), Color(t, k) = Red,
         \A n \in Nodes(t) : CalmAt(t, n, k), NEW BL, NEW RD, NEW last, Passes(t, k, BL, RD, last),
         NEW u, u = Recolor(t, BL, RD)
  PROVE  /\ SameLinks(t, u) /\ Shaped(u) /\ SameValues(t, u) /\ u.root = t.root /\ last \in Nodes(t)
         /\ Color(u, last) = Red /\ \E H2 : Even(u, H2)
         /\ \A n \in Nodes(u) : CalmAt(u, n, last) /\ (Parent(u, n) = NULL => n = last \/ Color(u, n) = Black)
         /\ Parent(u, last) # NULL /\ Color(u, Parent(u, last)) = Red => Color(u, Uncle(u, last)) = Black
<1> DEFINE N == Nodes(t)
           H2 == [n \in N \cup {LEAF} |-> IF n \in BL THEN H[n] + 1 ELSE H[n]]
<1>1. /\ BL \subseteq N /\ RD \subseteq N /\ last \in RD \cup {k} /\ k \notin BL
      /\ \A x \in BL : Color(t, x) = Red
      /\ \A x \in RD : Color(t, x) = Black
      /\ \A n \in N, s \in Side : n \in RD <=> t.node[n][s] \in BL
      /\ \A x \in RD \cup {k} : x = last \/ Parent(t, x) \in BL
      /\ ~RedUncle(t, last) /\ Parent(t, last) # k
  BY DEF Passes
<1>2. Typed(t) /\ LEAF \notin N /\ NULL \notin N
  BY Keys DEF Shaped, Shape, Hangs, Typed
<1>3. /\ SameLinks(t, u) /\ SameValues(t, u) /\ u.root = t.root /\ Color(u, LEAF) = Black
      /\ \A m \in N : Color(u, m) = IF m \in BL THEN Black ELSE IF m \in RD THEN Red ELSE Color(t, m)
  BY <1>2, RecolorNodes
<1>4. /\ Shaped(u) /\ Nodes(u) = N /\ \A m \in N : Parent(u, m) = Parent(t, m)
      /\ \A m \in N, s \in Side : u.node[m][s] = t.node[m][s]
  BY <1>3, SameShape, Sides DEF SameLinks, Parent
<1>5. /\ \A n \in N : Color(t, n) \in {Red, Black}
      /\ Color(t, LEAF) = Black /\ Red # Black
  BY <1>2, ColorType
<1>6. last \in N /\ Color(u, last) = Red
  BY <1>1, <1>3, <1>5
<1>7. H \in [N \cup {LEAF} -> Nat] /\ H[LEAF] = 0 /\ \A n \in N : EvenAt(t, H, n)
  BY DEF Even, Heights
<1>8. Heights(u, H2)
  BY <1>1, <1>2, <1>4, <1>7 DEF Heights
<1>9. \A n \in N, s \in Side : t.node[n][s] \in N \cup {LEAF}
  BY ShapedAround
<1>10. ASSUME NEW n \in N PROVE EvenAt(u, H2, n)
  <2> SUFFICES ASSUME NEW s \in Side PROVE H2[n] = H2[t.node[n][s]] + Unit(u, n)
    BY <1>4, Zenon DEF EvenAt
  <2> DEFINE c == t.node[n][s]
  <2>1. c \in N \cup {LEAF} /\ H[n] = H[c] + Unit(t, n) /\ H[n] \in Nat /\ H[c] \in Nat
    BY <1>7, <1>9 DEF EvenAt
  <2>2. H2[n] = (IF n \in BL THEN H[n] + 1 ELSE H[n]) /\ H2[c] = IF c \in BL THEN H[c] + 1 ELSE H[c]
    BY <2>1
  <2>3. (n \in RD <=> c \in BL) /\ (n \in RD => n \notin BL)
    BY <1>1, <1>5
  <2>4. Unit(t, n) = (IF Color(t, n) = Black THEN 1 ELSE 0) /\ Unit(u, n) = IF Color(u, n) = Black THEN 1 ELSE 0
    BY DEF Unit
  <2>5. Color(u, n) = IF n \in BL THEN Black ELSE IF n \in RD THEN Red ELSE Color(t, n)
    BY <1>3
  <2>6. (n \in BL => Color(t, n) = Red) /\ (n \in RD => Color(t, n) = Black)
    BY <1>1
  <2> HIDE DEF c, H2
  <2>7. CASE n \in RD
    BY <2>1, <2>2, <2>3, <2>4, <2>5, <2>6, <2>7, <1>5 DEF c
  <2>8. CASE n \in BL
    BY <2>1, <2>2, <2>3, <2>4, <2>5, <2>6, <2>8, <1>5 DEF c
  <2>9. CASE n \notin BL /\ n \notin RD
    BY <2>1, <2>2, <2>3, <2>4, <2>5, <2>9 DEF c
  <2> QED BY <2>7, <2>8, <2>9
<1>11. Even(u, H2)
  BY <1>4, <1>8, <1>10 DEF Even
<1>12. ASSUME NEW n \in N PROVE CalmAt(u, n, last)
  <2> SUFFICES ASSUME Color(u, n) = Red, NEW s \in Side, t.node[n][s] # last
               PROVE  Color(u, t.node[n][s]) = Black
    BY <1>4 DEF CalmAt
  <2> DEFINE c == t.node[n][s]
  <2>1. n \notin BL /\ c \in N \cup {LEAF}
    BY <1>3, <1>5, <1>9
  <2>2. CASE c = LEAF
    BY <2>2, <1>3
  <2>3. CASE c \in N /\ n \in RD
    BY <2>3, <1>1, <1>3
  <2>4. CASE c \in N /\ n \notin RD
    <3>1. Parent(t, c) = n
      BY <2>4, ShapedAround
    <3>2. c \notin RD \cup {k}
      BY <3>1, <2>1, <1>1
    <3>3. Color(t, n) = Red
      BY <2>1, <2>4, <1>3
    <3>4. Color(t, c) = Black
      BY <3>2, <3>3 DEF CalmAt
    <3> QED BY <3>2, <3>4, <2>4, <1>3
  <2> QED BY <2>1, <2>2, <2>3, <2>4
<1>13. ASSUME NEW n \in N, Parent(t, n) = NULL PROVE n = last \/ Color(u, n) = Black
  <2>1. Color(t, n) = Black
    BY <1>13 DEF BlackTop
  <2>2. n \in RD => n = last
    BY <1>1, <1>2, <1>13
  <2> QED BY <2>1, <2>2, <1>3
<1>14. ASSUME Parent(t, last) # NULL, Color(u, Parent(t, last)) = Red PROVE Color(u, Uncle(u, last)) = Black
  <2> DEFINE p == Parent(t, last)
             g == Parent(t, p)
             side == SideOf(t, p)
             y == t.node[g][Other(side)]
  <2>1. p \in N /\ SideOf(t, last) \in Side /\ t.node[p][SideOf(t, last)] = last
    BY <1>6, <1>14, ShapedSide
  <2>2. p \notin RD /\ p \notin BL
    <3>1. p \notin BL
      BY <2>1, <1>3, <1>5, <1>14
    <3>2. p \notin RD
      <4>1. last \notin BL
        BY <1>1, <1>5
      <4> QED BY <4>1, <2>1, <1>1
    <3> QED BY <3>1, <3>2
  <2>3. Color(t, p) = Red
    BY <2>1, <2>2, <1>3, <1>14
  <2>4. g # NULL
    BY <2>1, <2>3, <1>5 DEF BlackTop
  <2>5. g \in N /\ side \in Side /\ t.node[g][side] = p
    BY <2>1, <2>4, ShapedSide
  <2>6. y = Uncle(t, last) /\ y \in N \cup {LEAF}
    BY <2>5, <1>9, Sides DEF Uncle
  <2>7. Color(t, y) = Black
    <3>1. Color(t, y) # Red
      BY <2>3, <2>6, <1>1, <1>14 DEF RedUncle
    <3> QED BY <3>1, <2>6, <1>5
  <2>8. y = Uncle(u, last)
    <3>1. Parent(u, last) = p /\ Parent(u, p) = g
      BY <2>1, <1>4, <1>6
    <3>2. SideOf(u, p) = side
      <4>1. u.node[g]["left"] = t.node[g]["left"] /\ Parent(u, p) = g
        BY <3>1, <2>5, <1>4, Sides
      <4> QED BY <4>1 DEF SideOf
    <3>3. u.node[g][Other(side)] = y
      BY <2>5, <1>4, Sides
    <3> QED BY <3>1, <3>2, <3>3 DEF Uncle
  <2> HIDE DEF p, g, side, y
  <2>9. y \notin RD
    <3> SUFFICES ASSUME y \in RD PROVE FALSE
      OBVIOUS
    <3>1. y \in N /\ y # LEAF /\ Other(side) \in Side
      BY <2>5, <1>1, <1>2, Sides
    <3>2. Parent(t, y) = g
      BY <3>1, <2>5, ShapedAround DEF y
    <3>3. y # last
      <4>1. Parent(t, last) = p /\ g # p
        BY <2>1, ShapedAround, Sides DEF p, g
      <4> QED BY <4>1, <3>2
    <3>4. g \in BL
      BY <3>2, <3>3, <1>1
    <3>5. Color(t, g) = Red /\ p # k
      BY <3>4, <1>1 DEF p
    <3>6. CalmAt(t, g, k)
      BY <2>5
    <3> QED BY <3>5, <3>6, <2>3, <2>5, <1>5 DEF CalmAt
  <2> QED BY <2>6, <2>7, <2>8, <2>9, <1>3
<1> QED BY <1>3, <1>4, <1>6, <1>11, <1>12, <1>13, <1>14

\* Painting the top black ends the repair.
LEMMA BlackenTop ==
  ASSUME NEW t, Shaped(t), NEW H, Even(t, H), NEW top \in Nodes(t), Parent(t, top) = NULL, Color(t, top) = Red,
         \A n \in Nodes(t) : CalmAt(t, n, top), NEW u, u = Paint(t, top, Black)
  PROVE  Mended(t, u)
<1> DEFINE N == Nodes(t)
           H2 == [H EXCEPT ![top] = H[top] + 1]
<1>1. Typed(t) /\ LEAF \notin N /\ NULL \notin N
  BY Keys DEF Shaped, Shape, Hangs, Typed
<1>2. Painted(t, u, top, Black)
  BY <1>1, PaintNode
<1>3. /\ SameLinks(t, u) /\ SameValues(t, u) /\ u.root = t.root
      /\ \A m \in N \cup {LEAF} : Color(u, m) = IF m = top THEN Black ELSE Color(t, m)
  BY <1>2 DEF Painted
<1>4. /\ Shaped(u) /\ Nodes(u) = N /\ \A m \in N : Parent(u, m) = Parent(t, m)
      /\ \A m \in N, s \in Side : u.node[m][s] = t.node[m][s]
  BY <1>3, SameShape, Sides DEF SameLinks, Parent
<1>5. \A n \in N, s \in Side : t.node[n][s] \in N \cup {LEAF} /\ t.node[n][s] # top
  <2> TAKE n \in N, s \in Side
  <2>1. t.node[n][s] \in N \cup {LEAF} /\ n # NULL
    BY ShapedAround
  <2>2. t.node[n][s] # top
    <3>1. Parent(t, top) = n <=> top \in {t.node[n][s], t.node[n][Other(s)]}
      BY ShapedAround
    <3> QED BY <3>1, <2>1
  <2> QED BY <2>1, <2>2
<1>6. H \in [N \cup {LEAF} -> Nat] /\ H[LEAF] = 0 /\ \A n \in N : EvenAt(t, H, n)
  BY DEF Even, Heights
<1>7. H2 \in [N \cup {LEAF} -> Nat] /\ H2[top] = H[top] + 1 /\ \A n \in N \cup {LEAF} : n # top => H2[n] = H[n]
  BY <1>6
<1> HIDE DEF H2
<1>8. Red # Black
  BY DEF Red, Black
<1>9. ASSUME NEW n \in N PROVE EvenAt(u, H2, n) /\ CalmAt(u, n, LEAF)
  <2>1. \A s \in Side : H2[t.node[n][s]] = H[t.node[n][s]] /\ Color(u, t.node[n][s]) = Color(t, t.node[n][s])
                        /\ H[t.node[n][s]] \in Nat /\ H[n] \in Nat
    BY <1>3, <1>5, <1>6, <1>7
  <2>2. H2[n] = (IF n = top THEN H[n] + 1 ELSE H[n])
        /\ Color(u, n) = (IF n = top THEN Black ELSE Color(t, n))
        /\ Unit(u, n) = IF n = top THEN Unit(t, n) + 1 ELSE Unit(t, n)
    BY <1>3, <1>7, <1>8 DEF Unit
  <2>3. \A s \in Side : H[n] = H[t.node[n][s]] + Unit(t, n)
    BY <1>6 DEF EvenAt
  <2>4. Unit(t, n) \in Nat
    BY DEF Unit
  <2>5. EvenAt(u, H2, n)
    <3>1. \A s \in Side : H2[n] = H2[t.node[n][s]] + Unit(u, n)
      BY <2>1, <2>2, <2>3, <2>4
    <3> QED BY <3>1, <1>4 DEF EvenAt
  <2>6. CalmAt(u, n, LEAF)
    <3>1. Color(u, n) = Red => Color(t, n) = Red
      BY <2>2, <1>8
    <3>2. Color(t, n) = Red => \A s \in Side : Color(t, t.node[n][s]) = Black
      BY <1>5 DEF CalmAt
    <3> QED BY <3>1, <3>2, <2>1, <1>4 DEF CalmAt
  <2> QED BY <2>5, <2>6
<1>10. BlackTop(u)
  <2>1. \A m \in N : Parent(t, m) = NULL => m = top
    BY ShapedAround, Sides
  <2> QED BY <2>1, <1>3, <1>4 DEF BlackTop
<1>11. Balanced(u, H2)
  BY <1>1, <1>4, <1>6, <1>7, <1>9, <1>10 DEF Balanced, Even, Heights
<1> QED BY <1>3, <1>4, <1>11 DEF Mended

\* The repair after an insertion mends the tree.
LEMMA RepairMends ==
  ASSUME CompareOrder, NEW t, Shaped(t), BlackTop(t), NEW H, Even(t, H), NEW k \in Nodes(t), Color(t, k) = Red,
         \A n \in Nodes(t) : CalmAt(t, n, k), NEW u, u = RepairAfterInsert(t, k)
  PROVE  Mended(t, u)
<1> DEFINE passed == {m \in Risen(t, k) : RedUncle(t, m)}
           last == CHOOSE m \in Risen(t, k) : m \notin passed
           BL == UNION {{Parent(t, m), Uncle(t, m)} : m \in passed}
           RD == {Parent(t, Parent(t, m)) : m \in passed}
           t1 == Recolor(t, BL, RD)
<1>1. u = IF Parent(t, last) = NULL THEN Paint(t1, last, Black)
          ELSE IF Color(t1, Parent(t, last)) = Black THEN t1 ELSE RaiseOverGrandparent(t1, last)
  BY DEF RepairAfterInsert
<1>2. Passes(t, k, BL, RD, last)
  BY RisenPasses, Zenon
<1> HIDE DEF last, BL, RD, t1
<1>3. t1 = Recolor(t, BL, RD)
  BY DEF t1
<1>4. /\ SameLinks(t, t1) /\ Shaped(t1) /\ SameValues(t, t1) /\ t1.root = t.root /\ last \in Nodes(t)
      /\ Color(t1, last) = Red /\ (\E H2 : Even(t1, H2))
      /\ \A n \in Nodes(t1) : CalmAt(t1, n, last) /\ (Parent(t1, n) = NULL => n = last \/ Color(t1, n) = Black)
      /\ (Parent(t1, last) # NULL /\ Color(t1, Parent(t1, last)) = Red => Color(t1, Uncle(t1, last)) = Black)
  BY <1>2, <1>3, PassesCalm
<1>5. Nodes(t1) = Nodes(t) /\ Parent(t1, last) = Parent(t, last)
  BY <1>4, Sides DEF SameLinks, Parent
<1>6. PICK H2 : Even(t1, H2)
  BY <1>4
<1>7. ASSUME Mended(t1, u) PROVE Mended(t, u)
  BY <1>4, <1>7 DEF Mended, SameValues
<1>8. CASE Parent(t, last) = NULL
  <2>1. u = Paint(t1, last, Black)
    BY <1>1, <1>8
  <2> QED BY <2>1, <1>4, <1>5, <1>6, <1>7, <1>8, BlackenTop
<1>9. CASE Parent(t, last) # NULL
  <2>1. BlackTop(t1)
    BY <1>4, <1>5, <1>9 DEF BlackTop
  <2>2. Parent(t1, last) \in Nodes(t1)
    BY <1>4, <1>5, <1>9, ShapedAround, Sides
  <2>3. Color(t1, Parent(t1, last)) \in {Red, Black}
    BY <2>2, <1>4, ColorType DEF Shaped, Shape, Hangs
  <2>4. CASE Color(t1, Parent(t, last)) = Black
    <3>1. u = t1
      BY <1>1, <1>9, <2>4
    <3>2. ASSUME NEW n \in Nodes(t1) PROVE CalmAt(t1, n, LEAF)
      <4> SUFFICES ASSUME Color(t1, n) = Red, NEW s \in Side PROVE Color(t1, t1.node[n][s]) = Black
        BY DEF CalmAt
      <4>1. CASE t1.node[n][s] = last
        <5>1. Parent(t1, last) = n
          BY <4>1, <1>4, <1>5, ShapedAround
        <5> QED BY <5>1, <1>5, <2>4 DEF Red, Black
      <4>2. CASE t1.node[n][s] # last
        BY <4>2, <1>4 DEF CalmAt
      <4> QED BY <4>1, <4>2
    <3>3. Balanced(t1, H2)
      BY <3>2, <2>1, <1>6 DEF Balanced
    <3> QED BY <3>1, <3>3, <1>4 DEF Mended
  <2>5. CASE Color(t1, Parent(t, last)) = Red
    <3>1. u = RaiseOverGrandparent(t1, last)
      BY <1>1, <1>9, <2>5 DEF Red, Black
    <3>2. Clash(t1, H2, last, Parent(t1, last))
      BY <1>4, <1>5, <1>6, <2>1, <2>2, <2>5 DEF Clash
    <3>3. Color(t1, Uncle(t1, last)) = Black
      BY <1>4, <1>5, <1>9, <2>5
    <3>4. Mended(t1, RaiseOverGrandparent(t1, last))
      BY <3>2, <3>3, <1>4, RaiseClash
    <3> QED BY <3>1, <3>4, <1>7
  <2> QED BY <2>3, <2>4, <2>5, <1>5
<1> QED BY <1>8, <1>9

-----------------------------------------------------------------------------
(* Lookup, and the place of a new node.                                    *)

\* The nodes whose subtrees a new key, k, belongs to the left of, and k's own.
LeftOf(t, k) == {n \in Nodes(t) : Compare(k, n) < 0}
Equal(t, k) == {n \in Nodes(t) : Compare(k, n) = 0}

\* The search for a key finds its node, or the place where it belongs.
LEMMA DescendEnds ==
  ASSUME CompareOrder, NEW t, NEW sub, Shape(t, t.root, sub), t.root \in Nodes(t), NEW k \in Key,
         NEW p, p = Descend(t, k)
  PROVE  /\ p \in Nodes(t) /\ Compare(k, p) \in Int /\ (Compare(k, p) = 0 <=> p = k) /\ (k \in Nodes(t) => p = k)
         /\ k \notin Nodes(t) =>
              B!Descent(Nodes(t), Kid(t, "left"), Kid(t, "right"), t.root, {n \in Nodes(t) : p \in sub[n]},
                        LeftOf(t, k), p)
<1> DEFINE N == Nodes(t)
           L == Kid(t, "left")
           R == Kid(t, "right")
           down == CHOOSE f : f = [n \in N |->
                     LET next == t.node[n][IF Compare(k, n) < 0 THEN "left" ELSE "right"]
                     IN IF Compare(k, n) = 0 \/ next = LEAF THEN n ELSE f[next]]
<1>1. /\ Hangs(t, t.root, sub) /\ B!Hung(N, L, R, Up(t), t.root, sub) /\ B!IsFiniteSet(N) /\ N \subseteq Key
      /\ B!Sorted(L, R, sub, N, Before) /\ B!NULL = LEAF
  BY Finite, Keys DEF Shape, Hangs, Typed
<1>2. t.root \in N /\ N # {}
  OBVIOUS
<1>3. p = down[t.root]
  BY Zenon DEF Descend
<1>4. \A n \in N : /\ n \in LeftOf(t, k) <=> Compare(k, n) < 0
                   /\ n \in Equal(t, k) <=> Compare(k, n) = 0
                   /\ L[n] = t.node[n]["left"] /\ R[n] = t.node[n]["right"]
  BY DEF LeftOf, Equal, Kid
<1>5. \E f : f = [n \in N |-> LET next == t.node[n][IF Compare(k, n) < 0 THEN "left" ELSE "right"]
                              IN IF Compare(k, n) = 0 \/ next = LEAF THEN n ELSE f[next]]
  <2>1. \E f \in [N -> N] : B!DownEnds(N, L, R, LeftOf(t, k), Equal(t, k), f)
    <3> HIDE DEF N, L, R
    <3> QED BY <1>1, <1>2, B!EndsExist, Zenon
  <2>2. PICK f \in [N -> N] : B!DownEnds(N, L, R, LeftOf(t, k), Equal(t, k), f)
    BY <2>1
  <2> HIDE DEF L, R
  <2>3. \A n \in N : f[n] = LET next == t.node[n][IF Compare(k, n) < 0 THEN "left" ELSE "right"]
                            IN IF Compare(k, n) = 0 \/ next = LEAF THEN n ELSE f[next]
    BY <2>2, <1>1, <1>4 DEF B!DownEnds
  <2> QED BY <2>2, <2>3
<1>6. down = [n \in N |-> LET next == t.node[n][IF Compare(k, n) < 0 THEN "left" ELSE "right"]
                          IN IF Compare(k, n) = 0 \/ next = LEAF THEN n ELSE down[next]]
  BY <1>5, Zenon
<1> HIDE DEF down
<1>7. B!DownEnds(N, L, R, LeftOf(t, k), Equal(t, k), down)
  <2>1. \A n \in N : down[n] = LET next == t.node[n][IF Compare(k, n) < 0 THEN "left" ELSE "right"]
                               IN IF Compare(k, n) = 0 \/ next = LEAF THEN n ELSE down[next]
    BY <1>6, Zenon
  <2> HIDE DEF L, R
  <2> QED BY <2>1, <1>1, <1>4 DEF B!DownEnds
<1>8. /\ p \in N
      /\ p \notin Equal(t, k) => B!Descent(N, L, R, t.root, {n \in N : p \in sub[n]}, LeftOf(t, k), p)
      /\ \A o \in N \cap Equal(t, k) :
           (\A n \in N : /\ o \in sub[L[n]] => n \in LeftOf(t, k) /\ n \notin Equal(t, k)
                         /\ o \in sub[R[n]] => n \notin LeftOf(t, k) /\ n \notin Equal(t, k)) => p = o
  <2> HIDE DEF N, L, R
  <2>1. B!Ended(N, L, R, sub, t.root, LeftOf(t, k), Equal(t, k), down[t.root])
    BY <1>1, <1>2, <1>7, B!EndsDescend
  <2> QED BY <2>1, <1>3 DEF B!Ended
<1>9. \A n \in N : Compare(k, n) \in Int /\ (Compare(k, n) = 0 <=> n = k) /\ n \in Key
  BY <1>1 DEF CompareOrder
<1>10. k \in N => p = k
  <2> SUFFICES ASSUME k \in N PROVE p = k
    OBVIOUS
  <2>1. k \in N \cap Equal(t, k)
    BY <1>4, <1>9
  <2>2. ASSUME NEW n \in N
        PROVE  /\ k \in sub[L[n]] => n \in LeftOf(t, k) /\ n \notin Equal(t, k)
               /\ k \in sub[R[n]] => n \notin LeftOf(t, k) /\ n \notin Equal(t, k)
    <3>1. /\ k \in sub[L[n]] => <<k, n>> \in Before
          /\ k \in sub[R[n]] => <<n, k>> \in Before
      BY <1>1 DEF B!Sorted
    <3>2. /\ <<k, n>> \in Before <=> Compare(k, n) < 0
          /\ <<n, k>> \in Before <=> Compare(n, k) < 0
      BY <1>9 DEF Before
    <3>3. /\ Compare(k, n) \in Int /\ Compare(n, k) \in Int
          /\ (Compare(n, k) < 0 <=> 0 < Compare(k, n))
      BY <1>9 DEF CompareOrder
    <3> HIDE DEF L, R, N
    <3> QED BY <3>1, <3>2, <3>3, <1>4
  <2> HIDE DEF N, L, R
  <2> QED BY <2>1, <2>2, <1>8
<1>11. k \notin N => p \notin Equal(t, k)
  BY <1>4, <1>8, <1>9
<1> QED BY <1>8, <1>9, <1>10, <1>11

\* A new node, as the assignments of an insertion leave the tree.
Grafted(t, u, k, p, side, v) ==
  /\ Typed(u) /\ Nodes(u) = Nodes(t) \cup {k} /\ u.root = t.root
  /\ u.node[k].value = v /\ Color(u, k) = Red /\ Parent(u, k) = p
  /\ \A s \in Side : u.node[k][s] = LEAF
  /\ \A m \in Nodes(t) : u.node[m].value = t.node[m].value /\ Color(u, m) = Color(t, m) /\ Parent(u, m) = Parent(t, m)
  /\ \A m \in Nodes(t), s \in Side : u.node[m][s] = IF m = p /\ s = side THEN k ELSE t.node[m][s]

\* The cell of a node added.
LEMMA WithNode ==
  ASSUME NEW t, Typed(t), NEW k \in Key, NEW c \in Cell, NEW u, u = With(t, k, c)
  PROVE  /\ Typed(u) /\ Nodes(u) = Nodes(t) \cup {k} /\ u.root = t.root /\ u.node[k] = c
         /\ \A m \in Nodes(t) \ {k} : u.node[m] = t.node[m]
<1>1. t = [root |-> t.root, node |-> t.node] /\ t.node \in [Nodes(t) -> Cell]
  BY DEF Typed
<1>2. u = [root |-> t.root, node |-> [m \in Nodes(t) \cup {k} |-> IF m = k THEN c ELSE t.node[m]]]
  BY <1>1 DEF With
<1>3. /\ u.root = t.root /\ u.node = [m \in Nodes(t) \cup {k} |-> IF m = k THEN c ELSE t.node[m]]
      /\ u = [root |-> u.root, node |-> u.node]
  BY <1>2
<1>4. Nodes(u) = Nodes(t) \cup {k}
  BY <1>3 DEF Nodes
<1>5. u.node \in [Nodes(u) -> Cell] /\ u.node[k] = c /\ \A m \in Nodes(t) \ {k} : u.node[m] = t.node[m]
  BY <1>1, <1>3, <1>4
<1>6. IsFiniteSet(Nodes(u))
  BY <1>4, FS_AddElement DEF Typed
<1> QED BY <1>3, <1>4, <1>5, <1>6 DEF Typed

\* Those assignments.
LEMMA GraftFields ==
  ASSUME NEW t, Typed(t), NEW k \in Key \ Nodes(t), NEW p \in Nodes(t), NEW side \in Side, NEW v \in Value,
         NEW u, u = Store(With(t, k, Node(p, v)), p, side, k)
  PROVE  Grafted(t, u, k, p, side, v)
<1> DEFINE w == With(t, k, Node(p, v))
<1>1. p \in Int /\ k \in Int /\ LEAF \in Int
  BY Keys DEF Typed
<1>2. Node(p, v) \in Cell
  BY <1>1 DEF Node, Cell
<1>3. /\ Node(p, v).parent = p /\ Node(p, v).value = v /\ Node(p, v).color = Red
      /\ Node(p, v)["parent"] = p /\ \A s \in Side : Node(p, v)[s] = LEAF
  BY DEF Node, Side
<1>4. /\ Typed(w) /\ Nodes(w) = Nodes(t) \cup {k} /\ w.root = t.root /\ w.node[k] = Node(p, v)
      /\ \A m \in Nodes(t) \ {k} : w.node[m] = t.node[m]
  BY <1>2, WithNode
<1>5. u = Store(w, p, side, k)
  OBVIOUS
<1> HIDE DEF w
<1>6. side \in Link /\ side # "parent" /\ \A s \in Side : s \in Link /\ s # "parent"
  BY Sides
<1>7. /\ Relinks(w, u) /\ u.root = w.root
      /\ \A m \in Nodes(w), g \in Link : u.node[m][g] = IF m = p /\ g = side THEN k ELSE w.node[m][g]
  BY <1>1, <1>4, <1>5, <1>6, StoreLink
<1>8. /\ Typed(u) /\ Nodes(u) = Nodes(t) \cup {k} /\ u.root = t.root
      /\ \A m \in Nodes(w) : u.node[m].color = w.node[m].color /\ u.node[m].value = w.node[m].value
  BY <1>4, <1>7 DEF Relinks
<1>9. LEAF \notin Nodes(u) /\ k # p
  BY <1>8, Keys DEF Typed
<1>10. u.node[k].value = v /\ u.node[k].color = Red /\ u.node[k]["parent"] = p /\ \A s \in Side : u.node[k][s] = LEAF
  BY <1>3, <1>4, <1>6, <1>7, <1>8, <1>9, Sides
<1>11. /\ \A m \in Nodes(t) : /\ u.node[m].value = t.node[m].value /\ u.node[m].color = t.node[m].color
                              /\ u.node[m]["parent"] = t.node[m]["parent"]
       /\ \A m \in Nodes(t), s \in Side : u.node[m][s] = IF m = p /\ s = side THEN k ELSE t.node[m][s]
  BY <1>4, <1>6, <1>7, <1>8, Sides
<1> QED BY <1>8, <1>9, <1>10, <1>11 DEF Grafted, Color, Parent

\* The new node is in its place.
LEMMA GraftShape ==
  ASSUME CompareOrder, NEW t, NEW sub, Shape(t, t.root, sub), t.root \in Nodes(t),
         NEW k \in Key \ Nodes(t), NEW p, p = Descend(t, k),
         NEW v \in Value, NEW side, side = (IF Compare(k, p) < 0 THEN "left" ELSE "right"),
         NEW u, u = Store(With(t, k, Node(p, v)), p, side, k)
  PROVE  Shaped(u) /\ Grafted(t, u, k, p, side, v) /\ p \in Nodes(t) /\ side \in Side /\ t.node[p][side] = LEAF
<1> DEFINE N == Nodes(t)
           M == N \cup {k}
           L == Kid(t, "left")
           R == Kid(t, "right")
           D == LeftOf(t, k)
           Q == {n \in N : p \in sub[n]}
           L2 == B!GraftLink(L, k, p, p \in D)
           R2 == B!GraftLink(R, k, p, p \notin D)
           P2 == B!GraftP(Up(t), k, p)
           new == B!GraftSub(sub, Q, k)
<1>1. /\ Hangs(t, t.root, sub) /\ Typed(t) /\ B!Hung(N, L, R, Up(t), t.root, sub)
      /\ B!Sorted(L, R, sub, N, Before) /\ B!NULL = LEAF /\ k # LEAF /\ k # NULL
      /\ LEAF \notin N /\ NULL \notin N /\ N \subseteq Key /\ k \notin N
  BY Keys DEF Shape, Hangs, Typed
<1>2. p \in N /\ B!Descent(N, L, R, t.root, Q, D, p)
  BY DescendEnds
<1>3. side \in Side
  BY DEF Side
<1>4. Grafted(t, u, k, p, side, v)
  BY <1>1, <1>2, <1>3, GraftFields
<1>5. (p \in D <=> side = "left") /\ (p \notin D <=> side = "right")
  BY <1>2 DEF LeftOf
<1>6. t.node[p][side] = LEAF
  <2>1. IF p \in D THEN L[p] = LEAF ELSE R[p] = LEAF
    BY <1>1, <1>2 DEF B!Descent
  <2>2. L[p] = t.node[p]["left"] /\ R[p] = t.node[p]["right"]
    BY <1>2 DEF Kid
  <2> HIDE DEF L, R
  <2> QED BY <2>1, <2>2, <1>5
<1>7. Typed(u) /\ Nodes(u) = M
  BY <1>4 DEF Grafted
<1>8. Kid(u, "left") = L2 /\ Kid(u, "right") = R2
  <2>1. \A m \in M : /\ u.node[m]["left"]  = IF m = k THEN LEAF ELSE IF m = p /\ p \in D THEN k ELSE t.node[m]["left"]
                     /\ u.node[m]["right"] = IF m = k THEN LEAF ELSE IF m = p /\ p \notin D THEN k ELSE t.node[m]["right"]
    BY <1>4, <1>5 DEF Grafted, Side
  <2>2. DOMAIN L = N /\ DOMAIN R = N /\ \A m \in N : L[m] = t.node[m]["left"] /\ R[m] = t.node[m]["right"]
    BY DEF Kid
  <2> HIDE DEF D, L, R
  <2>3. /\ Kid(u, "left") = [m \in M |-> IF m = k THEN LEAF ELSE IF m = p /\ p \in D THEN k ELSE L[m]]
        /\ Kid(u, "right") = [m \in M |-> IF m = k THEN LEAF ELSE IF m = p /\ p \notin D THEN k ELSE R[m]]
    BY <2>1, <2>2, <1>7 DEF Kid
  <2> QED BY <2>2, <2>3, <1>1 DEF B!GraftLink
<1>9. Up(u) = P2 /\ \A m \in M : Parent(u, m) \in M \cup {NULL}
  <2>1. Parent(u, k) = p /\ \A m \in N : Parent(u, m) = Parent(t, m) /\ Parent(t, m) \in N \cup {NULL}
    BY <1>1, <1>4 DEF Grafted, Hangs
  <2>2. DOMAIN Up(t) = N /\ \A m \in N : Up(t)[m] = IF Parent(t, m) = NULL THEN LEAF ELSE Parent(t, m)
    BY DEF Up
  <2>3. p # NULL
    BY <1>1, <1>2
  <2>4. Up(u) = [m \in M |-> IF m = k THEN p ELSE Up(t)[m]]
    BY <2>1, <2>2, <2>3, <1>7 DEF Up
  <2> QED BY <2>1, <2>2, <2>4, <1>2 DEF B!GraftP
<1>10. B!Hung(M, L2, R2, P2, t.root, new)
  <2> HIDE DEF N, L, R, D, Q
  <2> QED BY <1>1, <1>2, B!GraftHung, Zenon
<1>11. B!Sorted(L2, R2, new, M, Before)
  <2>1. \A n \in N : (n \in D => <<k, n>> \in Before) /\ (n \notin D => <<n, k>> \in Before)
    <3> TAKE n \in N
    <3>1. n \in Key /\ n # k
      BY <1>1
    <3>2. /\ Compare(k, n) \in Int /\ Compare(k, n) # 0 /\ (Compare(n, k) < 0 <=> 0 < Compare(k, n))
      BY <3>1 DEF CompareOrder
    <3> QED BY <3>1, <3>2 DEF LeftOf, Before
  <2> HIDE DEF N, L, R, D, Q
  <2> QED BY <2>1, <1>1, <1>2, B!GraftSorted, ZenonT(30)
<1>12. Shape(u, t.root, new)
  <2> HIDE DEF L2, R2, P2, new, M
  <2>1. Hangs(u, t.root, new)
    BY <1>7, <1>8, <1>9, <1>10 DEF Hangs
  <2> QED BY <2>1, <1>7, <1>8, <1>11 DEF Shape
<1> QED BY <1>2, <1>3, <1>4, <1>6, <1>12 DEF Shaped

\* A new leaf is red, which can only clash with a red parent.
LEMMA GraftBalance ==
  ASSUME NEW t, Shaped(t), NEW H, Balanced(t, H), NEW u, Shaped(u), NEW k, k \notin Nodes(t), k # LEAF,
         NEW p \in Nodes(t), NEW side \in Side, NEW v, Grafted(t, u, k, p, side, v), t.node[p][side] = LEAF
  PROVE  /\ BlackTop(u) /\ k \in Nodes(u) /\ Color(u, k) = Red /\ \A n \in Nodes(u) : CalmAt(u, n, k)
         /\ \E H2 : Even(u, H2)
<1> DEFINE N == Nodes(t)
           H2 == [n \in N \cup {k, LEAF} |-> IF n = k THEN 0 ELSE H[n]]
<1>1. /\ Nodes(u) = N \cup {k} /\ Color(u, k) = Red /\ Parent(u, k) = p
      /\ \A s \in Side : u.node[k][s] = LEAF
      /\ \A m \in N : Color(u, m) = Color(t, m) /\ Parent(u, m) = Parent(t, m)
      /\ \A m \in N, s \in Side : u.node[m][s] = IF m = p /\ s = side THEN k ELSE t.node[m][s]
  BY DEF Grafted
<1>2. /\ H \in [N \cup {LEAF} -> Nat] /\ H[LEAF] = 0 /\ \A n \in N : EvenAt(t, H, n) /\ CalmAt(t, n, LEAF)
      /\ BlackTop(t)
  BY DEF Balanced, Even, Heights
<1>3. Color(t, LEAF) = Black /\ Color(u, LEAF) = Black /\ Red # Black
  BY DEF Color, Red, Black
<1>4. p # NULL /\ \A n \in N, s \in Side : t.node[n][s] \in N \cup {LEAF}
  BY ShapedAround
<1>5. BlackTop(u)
  BY <1>1, <1>2, <1>4 DEF BlackTop
<1>6. H2[k] = 0 /\ H2[LEAF] = 0 /\ \A n \in N \cup {LEAF} : H2[n] = H[n]
  BY <1>2
<1>7. Heights(u, H2)
  BY <1>1, <1>2, <1>6 DEF Heights
<1> HIDE DEF H2
<1>8. ASSUME NEW n \in N \cup {k} PROVE EvenAt(u, H2, n) /\ CalmAt(u, n, k)
  <2>1. CASE n = k
    BY <2>1, <1>1, <1>3, <1>6 DEF EvenAt, CalmAt, Unit
  <2>2. CASE n \in N
    <3>1. Unit(u, n) = Unit(t, n) /\ Color(u, n) = Color(t, n) /\ H2[n] = H[n]
      BY <2>2, <1>1, <1>6 DEF Unit
    <3>2. ASSUME NEW s \in Side
          PROVE  /\ H2[u.node[n][s]] = H[t.node[n][s]]
                 /\ u.node[n][s] = k \/ Color(u, u.node[n][s]) = Color(t, t.node[n][s])
      <4>1. CASE n = p /\ s = side
        BY <4>1, <1>1, <1>2, <1>6
      <4>2. CASE ~(n = p /\ s = side)
        BY <4>2, <2>2, <1>1, <1>3, <1>4, <1>6
      <4> QED BY <4>1, <4>2
    <3>3. EvenAt(t, H, n) /\ CalmAt(t, n, LEAF)
      BY <2>2, <1>2
    <3>4. EvenAt(u, H2, n)
      BY <3>1, <3>2, <3>3 DEF EvenAt
    <3>5. CalmAt(u, n, k)
      BY <3>1, <3>2, <3>3, <1>3 DEF CalmAt
    <3> QED BY <3>4, <3>5
  <2> QED BY <2>1, <2>2
<1> QED BY <1>1, <1>5, <1>7, <1>8 DEF Even

\* A node alone is a tree.
LEMMA SingleNode ==
  ASSUME NEW t, Typed(t), NEW k, Nodes(t) = {k}, Parent(t, k) = NULL, \A s \in Side : t.node[k][s] = LEAF,
         Color(t, k) = Black
  PROVE  Shaped(t) /\ \E H : Balanced(t, H)
<1> DEFINE sub == [n \in {k, LEAF} |-> IF n = k THEN {k} ELSE {}]
           H == [n \in {k, LEAF} |-> IF n = k THEN 1 ELSE 0]
<1>1. k \in Key /\ k # LEAF /\ k # NULL /\ B!NULL = LEAF /\ "left" \in Side /\ "right" \in Side
  BY Keys DEF Typed, Side
<1>2. sub \in [{k, LEAF} -> SUBSET {k}] /\ sub[k] = {k} /\ sub[LEAF] = {}
  BY <1>1
<1>3. H \in [{k, LEAF} -> Nat] /\ H[k] = 1 /\ H[LEAF] = 0
  BY <1>1
<1> HIDE DEF sub, H
<1>4. Kid(t, "left") = [n \in {k} |-> LEAF] /\ Kid(t, "right") = [n \in {k} |-> LEAF] /\ Up(t) = [n \in {k} |-> LEAF]
  BY <1>1 DEF Kid, Up
<1>5. B!Hung({k}, Kid(t, "left"), Kid(t, "right"), Up(t), k, sub)
  BY <1>1, <1>2, <1>4 DEF B!Hung
<1>6. B!Sorted(Kid(t, "left"), Kid(t, "right"), sub, {k}, Before)
  BY <1>1, <1>2, <1>4 DEF B!Sorted
<1>7. Shaped(t)
  BY <1>5, <1>6 DEF Shaped, Shape, Hangs
<1>8. Unit(t, k) = 1 /\ Color(t, LEAF) = Black
  BY DEF Unit, Color
<1>9. Balanced(t, H)
  BY <1>3, <1>8 DEF Balanced, Even, Heights, EvenAt, BlackTop, CalmAt, Red, Black
<1> QED BY <1>7, <1>9

-----------------------------------------------------------------------------
(* Insertion as a whole.                                                   *)

\* A red-black tree, its root not looked at.
Sound(t) ==
  /\ Typed(t) /\ t.root \in Nodes(t) \cup {NULL}
  /\ Nodes(t) = {} \/ (Shaped(t) /\ \E H : Balanced(t, H))

\* The root is the top.
IsRooted(t) == IF Nodes(t) = {} THEN t.root = NULL ELSE t.root \in Nodes(t) /\ Parent(t, t.root) = NULL

\* Such a tree hangs from its root.
LEMMA RootedShape ==
  ASSUME NEW t, Shaped(t), Nodes(t) # {}, IsRooted(t)
  PROVE  (\E sub : Shape(t, t.root, sub)) /\ t.root \in Nodes(t) /\ Parent(t, t.root) = NULL
<1>1. PICK top, sub : Shape(t, top, sub)
  BY DEF Shaped
<1>2. t.root \in Nodes(t) /\ Parent(t, t.root) = NULL
  BY DEF IsRooted
<1>3. top = t.root
  BY <1>1, <1>2, HangsAround, Sides DEF Shape
<1> QED BY <1>1, <1>2, <1>3

\* An assignment to a value.
LEMMA StoreValue ==
  ASSUME NEW t, Typed(t), NEW n \in Nodes(t), NEW v \in Value, NEW u, u = Store(t, n, "value", v)
  PROVE  /\ SameLinks(t, u) /\ SameColors(t, u) /\ u.root = t.root
         /\ u.node[n].value = v /\ \A m \in Nodes(t) \ {n} : u.node[m].value = t.node[m].value
<1>1. t = [root |-> t.root, node |-> t.node] /\ t.node \in [Nodes(t) -> Cell]
  BY DEF Typed
<1>2. u = [t EXCEPT !.node = [t.node EXCEPT ![n] = [t.node[n] EXCEPT !["value"] = v]]]
  BY DEF Store
<1>3. u = [root |-> t.root, node |-> [t.node EXCEPT ![n] = [t.node[n] EXCEPT !["value"] = v]]]
  BY <1>1, <1>2
<1>4. [t.node[n] EXCEPT !["value"] = v] \in Cell
  BY <1>1 DEF Cell
<1>5. u.node \in [Nodes(t) -> Cell] /\ u.root = t.root /\ u = [root |-> u.root, node |-> u.node]
  BY <1>1, <1>3, <1>4
<1>6. Nodes(u) = Nodes(t)
  BY <1>5 DEF Nodes
<1>7. \A m \in Nodes(t) : u.node[m] = IF m = n THEN [t.node[m] EXCEPT !["value"] = v] ELSE t.node[m]
  BY <1>1, <1>3
<1>8. ASSUME NEW m \in Nodes(t)
      PROVE  /\ u.node[m].color = t.node[m].color /\ \A g \in Link : u.node[m][g] = t.node[m][g]
             /\ u.node[m].value = IF m = n THEN v ELSE t.node[m].value
  <2>1. t.node[m] \in Cell
    BY <1>1
  <2>2. u.node[m] = IF m = n THEN [t.node[m] EXCEPT !["value"] = v] ELSE t.node[m]
    BY <1>7
  <2> QED BY <2>1, <2>2 DEF Cell, Link
<1>9. Typed(u) /\ LEAF \notin Nodes(t)
  BY <1>5, <1>6, Keys DEF Typed
<1> QED BY <1>5, <1>6, <1>8, <1>9 DEF SameLinks, SameColors, Color

\* An insertion sets the value of a key, keeps the others, and keeps the balance.
LEMMA InsertKeeps ==
  ASSUME CompareOrder, NEW t, Sound(t), IsRooted(t), NEW k \in Key, NEW v \in Value,
         NEW u, u = InsertElement(t, k, v)
  PROVE  /\ Sound(u) /\ Nodes(u) = Nodes(t) \cup {k} /\ u.node[k].value = v
         /\ \A m \in Nodes(t) \ {k} : u.node[m].value = t.node[m].value
<1>1. Typed(t) /\ NULL \notin Nodes(t) /\ LEAF \notin Nodes(t) /\ k # LEAF /\ k # NULL /\ NULL \in Int /\ LEAF \in Int /\ k \in Int
  BY Keys DEF Sound, Typed
<1>2. CASE Nodes(t) = {}
  <2> DEFINE c == [Node(NULL, v) EXCEPT !.color = Black]
             w == With(t, k, c)
  <2>1. u = [w EXCEPT !.root = k]
    BY <1>2 DEF InsertElement, IsRooted
  <2>2. /\ c \in Cell /\ c.parent = NULL /\ c.value = v /\ c.color = Black
        /\ \A s \in Side : c[s] = LEAF
    BY <1>1 DEF Node, Cell, Side
  <2> HIDE DEF c
  <2>3. Typed(w) /\ Nodes(w) = {k} /\ w.node[k] = c
    <3>1. Typed(w) /\ Nodes(w) = Nodes(t) \cup {k} /\ w.node[k] = c
      BY <1>1, <2>2, WithNode
    <3> QED BY <3>1, <1>2
  <2> HIDE DEF w
  <2>4. w = [root |-> w.root, node |-> w.node]
    BY <2>3 DEF Typed
  <2>5. u = [root |-> k, node |-> w.node]
    BY <2>1, <2>4
  <2>6. u.root = k /\ u.node = w.node /\ u = [root |-> u.root, node |-> u.node]
    BY <2>5
  <2>7. Nodes(u) = {k} /\ Typed(u)
    BY <2>3, <2>6, <1>1 DEF Typed, Nodes
  <2>8. Parent(u, k) = NULL /\ Color(u, k) = Black /\ \A s \in Side : u.node[k][s] = LEAF
    BY <2>2, <2>3, <2>6, <1>1 DEF Parent, Color
  <2>9. Shaped(u) /\ \E H : Balanced(u, H)
    BY <2>7, <2>8, SingleNode
  <2> QED BY <2>2, <2>3, <2>6, <2>7, <2>9, <1>2 DEF Sound
<1>3. CASE Nodes(t) # {}
  <2>1. Shaped(t) /\ \E H : Balanced(t, H)
    BY <1>3 DEF Sound
  <2>2. PICK sub : Shape(t, t.root, sub)
    BY <2>1, <1>3, RootedShape
  <2>3. t.root \in Nodes(t) /\ t.root # NULL
    BY <2>1, <1>1, <1>3, RootedShape
  <2>4. PICK H : Balanced(t, H)
    BY <2>1
  <2> DEFINE p == Descend(t, k)
             side == IF Compare(k, p) < 0 THEN "left" ELSE "right"
             w == Store(With(t, k, Node(p, v)), p, side, k)
  <2>5. u = IF Compare(k, p) = 0 THEN Store(t, p, "value", v) ELSE RepairAfterInsert(w, k)
    BY <2>3 DEF InsertElement
  <2>6. p \in Nodes(t) /\ (Compare(k, p) = 0 <=> p = k) /\ (k \in Nodes(t) => p = k)
    BY <2>2, <2>3, DescendEnds, Zenon
  <2>7. CASE k \in Nodes(t)
    <3>1. u = Store(t, k, "value", v)
      BY <2>5, <2>6, <2>7
    <3>2. /\ SameLinks(t, u) /\ SameColors(t, u) /\ u.root = t.root
          /\ u.node[k].value = v /\ \A m \in Nodes(t) \ {k} : u.node[m].value = t.node[m].value
      BY <3>1, <2>7, <1>1, StoreValue
    <3>3. Nodes(u) = Nodes(t) /\ Typed(u)
      BY <3>2 DEF SameLinks
    <3>4. Shaped(u) /\ Balanced(u, H)
      BY <2>1, <2>4, <3>2, SameShape, SameBalance
    <3>5. Sound(u)
      BY <2>3, <3>2, <3>3, <3>4 DEF Sound
    <3> QED BY <2>7, <3>2, <3>3, <3>5
  <2>8. CASE k \notin Nodes(t)
    <3>1. u = RepairAfterInsert(w, k)
      BY <2>5, <2>6, <2>8
    <3>2. p = Descend(t, k) /\ side = (IF Compare(k, p) < 0 THEN "left" ELSE "right")
          /\ w = Store(With(t, k, Node(p, v)), p, side, k) /\ k \in Key \ Nodes(t)
      BY <2>8
    <3> HIDE DEF p, side, w
    <3>3. Shaped(w) /\ Grafted(t, w, k, p, side, v) /\ side \in Side /\ t.node[p][side] = LEAF
      BY <2>2, <2>3, <3>2, GraftShape
    <3>4. /\ Typed(w) /\ Nodes(w) = Nodes(t) \cup {k} /\ w.root = t.root /\ w.node[k].value = v
          /\ \A m \in Nodes(t) : w.node[m].value = t.node[m].value
      BY <3>3 DEF Grafted
    <3>5. /\ BlackTop(w) /\ k \in Nodes(w) /\ Color(w, k) = Red /\ \A n \in Nodes(w) : CalmAt(w, n, k)
          /\ \E H2 : Even(w, H2)
      BY <2>1, <2>4, <2>6, <2>8, <1>1, <3>3, GraftBalance
    <3>6. Mended(w, u)
      BY <3>1, <3>3, <3>5, RepairMends
    <3>7. Shaped(u) /\ SameValues(w, u) /\ u.root \in Nodes(w) \cup {w.root} /\ \E H2 : Balanced(u, H2)
      BY <3>6 DEF Mended
    <3>8. /\ Nodes(u) = Nodes(t) \cup {k} /\ u.node[k].value = v
          /\ \A m \in Nodes(t) \ {k} : u.node[m].value = t.node[m].value
      BY <3>4, <3>7 DEF SameValues
    <3>9. Typed(u) /\ u.root \in Nodes(u)
      BY <3>4, <3>7, <3>8, <2>3 DEF Shaped, Shape, Hangs
    <3> QED BY <3>7, <3>8, <3>9 DEF Sound
  <2> QED BY <2>7, <2>8
<1> QED BY <1>2, <1>3

-----------------------------------------------------------------------------
(* Deletion: the way up.                                                   *)

\* What lies below a node.
LEMMA Subtrees ==
  ASSUME NEW t, NEW top, NEW sub, Hangs(t, top, sub), NEW n \in Nodes(t), NEW side \in Side
  PROVE  /\ n \in sub[n] /\ sub[n] \subseteq Nodes(t) /\ sub[LEAF] = {}
         /\ sub[n] = {n} \cup sub[t.node[n][side]] \cup sub[t.node[n][Other(side)]]
         /\ sub[t.node[n][side]] \cap sub[t.node[n][Other(side)]] = {} /\ n \notin sub[t.node[n][side]]
         /\ \A m \in sub[n] : m # n => Parent(t, m) \in sub[n] /\ Parent(t, m) # NULL
         /\ Parent(t, n) # NULL => Parent(t, n) \notin sub[n]
<1>1. /\ B!Hung(Nodes(t), Kid(t, side), Kid(t, Other(side)), Up(t), top, sub) /\ B!IsFiniteSet(Nodes(t))
      /\ Typed(t) /\ B!NULL = LEAF
  BY HangsSides, Finite, Keys DEF Hangs, Typed
<1>2. Kid(t, side)[n] = t.node[n][side] /\ Kid(t, Other(side))[n] = t.node[n][Other(side)]
  BY DEF Kid
<1>3. /\ n \in sub[n] /\ sub[n] \subseteq Nodes(t) /\ sub[LEAF] = {}
      /\ sub[n] = {n} \cup sub[t.node[n][side]] \cup sub[t.node[n][Other(side)]]
      /\ sub[t.node[n][side]] \cap sub[t.node[n][Other(side)]] = {} /\ n \notin sub[t.node[n][side]]
      /\ Up(t)[n] \notin sub[n]
  <2>1. /\ n \in sub[n] /\ sub[n] \subseteq Nodes(t) /\ sub[B!NULL] = {}
        /\ sub[n] = {n} \cup sub[Kid(t, side)[n]] \cup sub[Kid(t, Other(side))[n]]
        /\ sub[Kid(t, side)[n]] \cap sub[Kid(t, Other(side))[n]] = {} /\ n \notin sub[Kid(t, side)[n]]
        /\ Up(t)[n] \notin sub[n]
    BY <1>1, B!Around
  <2> QED BY <2>1, <1>1, <1>2
<1>4. ASSUME NEW m \in sub[n], m # n PROVE Parent(t, m) \in sub[n] /\ Parent(t, m) # NULL
  <2>1. Up(t)[m] \in sub[n]
    BY <1>1, <1>4, B!ParentBelow
  <2>2. Up(t)[m] = IF Parent(t, m) = NULL THEN LEAF ELSE Parent(t, m)
    BY <1>3 DEF Up
  <2>3. LEAF \notin sub[n] /\ NULL \notin sub[n]
    BY <1>1, <1>3, Keys DEF Typed
  <2> QED BY <2>1, <2>2, <2>3
<1>5. Parent(t, n) # NULL => Parent(t, n) \notin sub[n]
  BY <1>3 DEF Up
<1> QED BY <1>3, <1>4, <1>5

\* A node that a deletion has left light: ways through that child of p hold one
\* black node less than they should.
Light(t, H, p, side) ==
  /\ Heights(t, H) /\ \A n \in Nodes(t) \ {p} : EvenAt(t, H, n)
  /\ p \in Nodes(t) /\ side \in Side /\ Color(t, t.node[p][side]) = Black
  /\ H[p] = H[t.node[p][Other(side)]] + Unit(t, p) /\ H[t.node[p][Other(side)]] = H[t.node[p][side]] + 1
  /\ BlackTop(t) /\ \A n \in Nodes(t) : CalmAt(t, n, LEAF)

\* The other child of p is a node.
LEMMA LightSibling ==
  ASSUME NEW t, Shaped(t), NEW H, NEW p, NEW side, Light(t, H, p, side), NEW s, s = t.node[p][Other(side)]
  PROVE  /\ s \in Nodes(t) /\ s # p /\ s # t.node[p][side] /\ Parent(t, s) = p /\ Other(side) \in Side
         /\ t.node[p][side] \in Nodes(t) \cup {LEAF} /\ H[t.node[p][side]] \in Nat /\ H[s] \in Nat
         /\ OtherChild(t, t.node[p][side], p) = s
<1>1. /\ p \in Nodes(t) /\ side \in Side /\ H \in [Nodes(t) \cup {LEAF} -> Nat] /\ H[LEAF] = 0
      /\ H[s] = H[t.node[p][side]] + 1
  BY DEF Light, Heights
<1>2. Other(side) \in Side /\ Other(Other(side)) = side
  BY <1>1, Sides
<1>3. s \in Nodes(t) \cup {LEAF} /\ t.node[p][side] \in Nodes(t) \cup {LEAF} /\ s # p
  BY <1>1, <1>2, ShapedAround
<1>4. H[s] \in Nat /\ H[t.node[p][side]] \in Nat
  BY <1>1, <1>3
<1>5. s # LEAF /\ s # t.node[p][side]
  BY <1>1, <1>4
<1>6. Parent(t, s) = p
  BY <1>1, <1>2, <1>3, <1>5, ShapedAround
<1>7. OtherChild(t, t.node[p][side], p) = s
  BY <1>1, <1>5 DEF OtherChild, Side, Other
<1> QED BY <1>2, <1>3, <1>4, <1>5, <1>6, <1>7

\* The nodes the repair of a deletion passes, from p up to the last one.
LEMMA LiftedWay ==
  ASSUME NEW t, Shaped(t), NEW p \in Nodes(t), NEW R, R = Lifted(t, p)
  PROVE  /\ R \subseteq Nodes(t) /\ p \in R
         /\ \A m \in R : Lightened(t, m) => Parent(t, m) \in R
         /\ \A S : p \in S /\ (\A m \in S \cap Nodes(t) : Lightened(t, m) => Parent(t, m) \in S) => R \subseteq S
         /\ \E m \in R : ~Lightened(t, m) /\ \A x \in R : Lightened(t, x) \/ x = m
<1> DEFINE N == Nodes(t)
           A == [m \in N |-> Parent(t, m)]
           Go == {m \in N : Lightened(t, m)}
           lift == CHOOSE g : g = [m \in N |-> {m} \cup IF Lightened(t, m) THEN g[Parent(t, m)] ELSE {}]
<1>1. PICK rank \in [N -> Nat] :
        \A n \in N : Parent(t, n) # NULL => Parent(t, n) \in N /\ rank[Parent(t, n)] < rank[n]
  BY ShapedDepths
<1>2. Go \subseteq N /\ \A n \in Go : A[n] \in N /\ rank[A[n]] < rank[n]
  BY <1>1 DEF Lightened
<1>3. R = lift[p]
  BY Zenon DEF Lifted
<1>4. \E g : g = [m \in N |-> {m} \cup IF Lightened(t, m) THEN g[Parent(t, m)] ELSE {}]
  <2>1. \E g \in [N -> SUBSET N] : B!Ways(N, A, Go, g)
    <3> HIDE DEF A, Go, N
    <3> QED BY <1>2, B!WaysExist, Zenon
  <2>2. PICK g \in [N -> SUBSET N] : B!Ways(N, A, Go, g)
    BY <2>1, Zenon
  <2>3. \A m \in N : g[m] = {m} \cup IF Lightened(t, m) THEN g[Parent(t, m)] ELSE {}
    BY <2>2 DEF B!Ways
  <2> QED BY <2>2, <2>3
<1>5. lift = [m \in N |-> {m} \cup IF Lightened(t, m) THEN lift[Parent(t, m)] ELSE {}]
  BY <1>4, Zenon
<1> HIDE DEF lift
<1>6. B!Ways(N, A, Go, lift)
  <2>1. \A m \in N : lift[m] = {m} \cup IF Lightened(t, m) THEN lift[Parent(t, m)] ELSE {}
    BY <1>5, Zenon
  <2> QED BY <2>1 DEF B!Ways
<1>7. /\ R \subseteq N /\ p \in R /\ \A m \in R \cap Go : A[m] \in R
      /\ \A S : p \in S /\ (\A m \in S \cap Go : A[m] \in S) => R \subseteq S
      /\ \E m \in R \ Go : R \ Go = {m}
  <2>1. p \in N
    OBVIOUS
  <2> HIDE DEF A, Go, N
  <2>2. lift[p] \subseteq N /\ B!Way(A, Go, p, lift[p])
    BY <2>1, <1>2, <1>6, B!WaysEnd, Zenon
  <2> QED BY <2>2, <1>3 DEF B!Way
<1>8. \A m \in R : Lightened(t, m) => Parent(t, m) \in R
  BY <1>7
<1>9. \A S : p \in S /\ (\A m \in S \cap N : Lightened(t, m) => Parent(t, m) \in S) => R \subseteq S
  <2> TAKE S
  <2> HAVE p \in S /\ (\A m \in S \cap N : Lightened(t, m) => Parent(t, m) \in S)
  <2>1. \A m \in S \cap Go : A[m] \in S
    OBVIOUS
  <2> HIDE DEF A, Go, N
  <2> QED BY <2>1, <1>7
<1>10. \E m \in R : ~Lightened(t, m) /\ \A x \in R : Lightened(t, x) \/ x = m
  <2>1. PICK m \in R \ Go : R \ Go = {m}
    BY <1>7
  <2>2. ~Lightened(t, m)
    BY <2>1, <1>7
  <2>3. \A x \in R : Lightened(t, x) \/ x = m
    BY <2>1, <1>7
  <2> QED BY <2>1, <2>2, <2>3
<1> QED BY <1>7, <1>8, <1>9, <1>10

\* The nodes LT lose a black node below, and their siblings RD turn red, up to last.
Lifts(t, p, side, LT, RD, last) ==
  /\ LT \subseteq Nodes(t) /\ RD \subseteq Nodes(t) /\ p \in LT /\ last \in LT /\ LT \cap RD = {}
  /\ \A m \in LT : /\ Color(t, m) = Black
                   /\ m = last \/ (Parent(t, m) \in LT /\ Lightened(t, m))
                   /\ m = p \/ \A s \in Side : t.node[m][s] \in LT \cup RD
                   /\ m = p \/ \E s \in Side : t.node[m][s] \in LT /\ t.node[m][Other(s)] \in RD
  /\ t.node[p][side] \notin LT \cup RD /\ t.node[p][Other(side)] \in RD
  /\ \A r \in RD : /\ Color(t, r) = Black /\ Parent(t, r) \in LT
                   /\ \A s \in Side : Color(t, t.node[r][s]) = Black /\ t.node[r][s] \notin LT \cup RD
  /\ Parent(t, last) \notin LT \cup RD /\ ~Lightened(t, last)

\* The other child of a node with one that is not LEAF.
LEMMA OtherOf ==
  ASSUME NEW t, Shaped(t), NEW x \in Nodes(t), Parent(t, x) # NULL
  PROVE  /\ Parent(t, x) \in Nodes(t)
         /\ \E s \in Side : /\ t.node[Parent(t, x)][s] = x /\ Other(s) \in Side
                            /\ OtherChild(t, x, Parent(t, x)) = t.node[Parent(t, x)][Other(s)]
<1> DEFINE m == Parent(t, x)
           s == SideOf(t, x)
<1>1. m \in Nodes(t) /\ s \in Side /\ t.node[m][s] = x
  BY ShapedSide
<1>2. x # LEAF
  BY ShapedAround, Sides
<1>3. t.node[m][s] # t.node[m][Other(s)]
  BY <1>1, <1>2, ShapedAround
<1> HIDE DEF m, s
<1>4. OtherChild(t, x, m) = t.node[m][Other(s)]
  BY <1>1, <1>3 DEF OtherChild, Side, Other
<1> QED BY <1>1, <1>4, Sides DEF m

\* What AllBlack says.
LEMMA AllBlackSays ==
  ASSUME NEW t, NEW x, NEW m, AllBlack(t, x, m), NEW r, r = OtherChild(t, x, m)
  PROVE  Color(t, m) = Black /\ Color(t, r) = Black /\ \A s \in Side : Color(t, t.node[r][s]) = Black
<1>1. {Color(t, m), Color(t, r), Color(t, t.node[r]["left"]), Color(t, t.node[r]["right"])} = {Black}
  BY DEF AllBlack
<1> QED BY <1>1 DEF Side

\* So it is on the way up from a light node.
LEMMA LiftedLifts ==
  ASSUME NEW t, Shaped(t), NEW H, NEW p, NEW side, Light(t, H, p, side), NEW c, c = t.node[p][side],
         AllBlack(t, c, p), NEW passed, passed = {m \in Lifted(t, p) : Lightened(t, m)},
         NEW last, last = CHOOSE m \in Lifted(t, p) : m \notin passed
  PROVE  Lifts(t, p, side, Lifted(t, p),
               {OtherChild(t, m, Parent(t, m)) : m \in passed} \cup {OtherChild(t, c, p)}, last)
<1> DEFINE N == Nodes(t)
           R == Lifted(t, p)
           RD == {OtherChild(t, m, Parent(t, m)) : m \in passed} \cup {OtherChild(t, c, p)}
           s0 == t.node[p][Other(side)]
<1>1. /\ p \in N /\ side \in Side /\ H \in [N \cup {LEAF} -> Nat] /\ H[LEAF] = 0
      /\ \A n \in N \ {p} : EvenAt(t, H, n)
  BY DEF Light, Heights
<1>2. PICK top, sub : Hangs(t, top, sub)
  BY DEF Shaped, Shape
<1>3. /\ R \subseteq N /\ p \in R
      /\ \A m \in R : Lightened(t, m) => Parent(t, m) \in R
      /\ \A S : p \in S /\ (\A m \in S \cap N : Lightened(t, m) => Parent(t, m) \in S) => R \subseteq S
      /\ \E m \in R : ~Lightened(t, m) /\ \A x \in R : Lightened(t, x) \/ x = m
  BY <1>1, LiftedWay
<1>4. last \in R /\ ~Lightened(t, last) /\ \A m \in R : m \in passed \/ m = last
  <2>1. \E m \in R : m \notin passed
    BY <1>3
  <2>2. last \in R /\ last \notin passed
    BY <2>1
  <2> QED BY <2>2, <1>3
<1>5. \A m \in passed : m \in R /\ m \in N /\ Lightened(t, m) /\ Parent(t, m) \in R /\ Parent(t, m) \in N
  BY <1>3
<1> HIDE DEF R
<1>6. /\ s0 \in N /\ s0 # p /\ s0 # c /\ Parent(t, s0) = p /\ Other(side) \in Side
      /\ c \in N \cup {LEAF} /\ OtherChild(t, c, p) = s0
  BY LightSibling
<1>7. \A m \in R : p \in sub[m]
  <2> DEFINE S == {m \in N : p \in sub[m]}
  <2>1. p \in S
    BY <1>1, <1>2, Subtrees
  <2>2. ASSUME NEW m \in S \cap N, Lightened(t, m) PROVE Parent(t, m) \in S
    <3>1. Parent(t, m) # NULL /\ m \in N /\ p \in sub[m]
      BY <2>2 DEF Lightened
    <3>2. PICK s \in Side : Parent(t, m) \in N /\ t.node[Parent(t, m)][s] = m
      BY <3>1, OtherOf
    <3>3. sub[m] \subseteq sub[Parent(t, m)]
      BY <3>2, <1>2, Subtrees
    <3> QED BY <3>1, <3>2, <3>3
  <2> HIDE DEF S
  <2>3. R \subseteq S
    BY <2>1, <2>2, <1>3
  <2> QED BY <2>3 DEF S
<1>8. \A m \in R : m \in sub[last]
  <2> DEFINE S == sub[last] \cap R
  <2>1. p \in S
    BY <1>3, <1>4, <1>7
  <2>2. ASSUME NEW m \in S \cap N, Lightened(t, m) PROVE Parent(t, m) \in S
    <3>1. m # last /\ m \in sub[last] /\ m \in R
      BY <2>2, <1>4, Zenon
    <3>2. last \in N
      BY <1>3, <1>4
    <3>3. Parent(t, m) \in sub[last]
      BY <3>1, <3>2, <1>2, Subtrees, Sides
    <3> QED BY <3>1, <3>3, <2>2, <1>3
  <2> HIDE DEF S
  <2>3. R \subseteq S
    BY <2>1, <2>2, <1>3
  <2> QED BY <2>3 DEF S
<1>9. \A m \in R : m = p \/ \E x \in passed : m = Parent(t, x)
  <2> DEFINE S == {p} \cup {m \in R : \E x \in passed : m = Parent(t, x)}
  <2>1. ASSUME NEW m \in S \cap N, Lightened(t, m) PROVE Parent(t, m) \in S
    <3>1. m \in R
      BY <2>1, <1>3
    <3>2. m \in passed
      BY <3>1, <2>1 DEF R
    <3> QED BY <3>2, <1>5
  <2>2. p \in S
    OBVIOUS
  <2> HIDE DEF S
  <2>3. R \subseteq S
    BY <2>1, <2>2, <1>3
  <2> QED BY <2>3 DEF S
<1>10. Color(t, p) = Black /\ Color(t, s0) = Black /\ \A s \in Side : Color(t, t.node[s0][s]) = Black
  BY <1>6, AllBlackSays
<1>11. ASSUME NEW x \in passed
       PROVE  /\ Color(t, Parent(t, x)) = Black
              /\ LET r == OtherChild(t, x, Parent(t, x))
                 IN /\ Color(t, r) = Black /\ \A s \in Side : Color(t, t.node[r][s]) = Black
                    /\ \E s \in Side : t.node[Parent(t, x)][s] = x /\ t.node[Parent(t, x)][Other(s)] = r
  <2>1. AllBlack(t, x, Parent(t, x)) /\ Parent(t, x) # NULL /\ x \in N
    BY <1>5 DEF Lightened
  <2> QED BY <2>1, AllBlackSays, OtherOf
<1>12. \A m \in R : Color(t, m) = Black
  BY <1>9, <1>10, <1>11
<1>13. \A m \in R : m # p => EvenAt(t, H, m)
  BY <1>1, <1>3
<1>14. \A m \in R : H[m] # 0
  <2> TAKE m \in R
  <2>1. CASE m = p
    <3>1. H[p] = H[s0] + Unit(t, p) /\ Unit(t, p) = 1 /\ H[s0] \in Nat
      BY <1>1, <1>6, <1>10 DEF Light, Unit
    <3> QED BY <2>1, <3>1
  <2>2. CASE m # p
    <3>1. H[m] = H[t.node[m]["left"]] + Unit(t, m) /\ Unit(t, m) = 1
      BY <2>2, <1>12, <1>13 DEF EvenAt, Unit, Side
    <3>2. t.node[m]["left"] \in N \cup {LEAF}
      BY <1>3, ShapedAround, Sides
    <3>3. H[t.node[m]["left"]] \in Nat
      BY <3>2, <1>1
    <3> QED BY <3>1, <3>3
  <2> QED BY <2>1, <2>2
<1>15. ASSUME NEW x \in passed
       PROVE  LET r == OtherChild(t, x, Parent(t, x))
              IN r \in N /\ Parent(t, r) = Parent(t, x) /\ p \notin sub[r] /\ Parent(t, x) # p
  <2> DEFINE m == Parent(t, x)
             r == OtherChild(t, x, m)
  <2>1. m \in N /\ m \in R /\ x \in R /\ x \in N /\ p \in sub[x] /\ m # NULL
    BY <1>5, <1>7 DEF Lightened
  <2>2. PICK s \in Side : t.node[m][s] = x /\ t.node[m][Other(s)] = r
    BY <1>11
  <2>3. m # p
    <3>1. m \notin sub[x]
      BY <2>1, <1>2, Subtrees, Sides
    <3> QED BY <3>1, <2>1
  <2> HIDE DEF m, r
  <2>4. Other(s) \in Side /\ EvenAt(t, H, m)
    BY <2>1, <2>3, <1>13, Sides
  <2>5. r \in N \cup {LEAF}
    BY <2>1, <2>2, <2>4, ShapedAround
  <2>6. r # LEAF
    <3>1. H[m] = H[x] + Unit(t, m) /\ H[m] = H[r] + Unit(t, m)
      BY <2>2, <2>4 DEF EvenAt
    <3>2. H[x] \in Nat /\ H[r] \in Nat /\ Unit(t, m) \in Nat
      BY <2>1, <2>5, <1>1 DEF Unit
    <3>3. H[x] # 0
      BY <2>1, <1>14
    <3> QED BY <3>1, <3>2, <3>3, <1>1
  <2>7. Parent(t, r) = m
    BY <2>1, <2>2, <2>4, <2>5, <2>6, ShapedAround
  <2>8. p \notin sub[r]
    BY <2>1, <2>2, <1>2, Subtrees
  <2> QED BY <2>3, <2>5, <2>6, <2>7, <2>8 DEF m, r
<1>16. p \notin sub[s0]
  BY <1>1, <1>2, <1>6, Subtrees, Sides
<1>17. ASSUME NEW r \in RD
       PROVE  /\ r \in N /\ Parent(t, r) \in R /\ p \notin sub[r] /\ Color(t, r) = Black
              /\ \A s \in Side : Color(t, t.node[r][s]) = Black
  <2>1. CASE r = OtherChild(t, c, p)
    BY <2>1, <1>3, <1>6, <1>10, <1>16
  <2>2. CASE r # OtherChild(t, c, p)
    <3>1. PICK x \in passed : r = OtherChild(t, x, Parent(t, x))
      BY <2>2
    <3> QED BY <3>1, <1>5, <1>11, <1>15
  <2> QED BY <2>1, <2>2
<1>18. R \cap RD = {}
  BY <1>7, <1>17
<1>19. ASSUME NEW r \in RD, NEW s \in Side PROVE t.node[r][s] \notin R \cup RD
  <2>1. r \in N /\ r \notin R /\ p \notin sub[r] /\ t.node[r][s] \in N \cup {LEAF}
    BY <1>17, <1>18, ShapedAround
  <2>2. t.node[r][s] \notin R
    <3>1. sub[t.node[r][s]] \subseteq sub[r]
      BY <2>1, <1>2, Subtrees
    <3> QED BY <3>1, <2>1, <1>7
  <2>3. t.node[r][s] \notin RD
    <3>1. t.node[r][s] \in RD => Parent(t, t.node[r][s]) = r
      BY <2>1, <1>17, ShapedAround
    <3> QED BY <3>1, <2>1, <1>17
  <2> QED BY <2>2, <2>3
<1>20. ASSUME NEW m \in R, m # p
       PROVE  \E s \in Side : t.node[m][s] \in R /\ t.node[m][Other(s)] \in RD
  <2>1. PICK x \in passed : m = Parent(t, x)
    BY <1>9, <1>20
  <2>2. PICK s \in Side : t.node[m][s] = x /\ t.node[m][Other(s)] = OtherChild(t, x, m)
    BY <2>1, <1>11
  <2> QED BY <2>1, <2>2, <1>5
<1>21. ASSUME NEW m \in R, m # p, NEW s \in Side PROVE t.node[m][s] \in R \cup RD
  <2>1. PICK r \in Side : t.node[m][r] \in R /\ t.node[m][Other(r)] \in RD
    BY <1>20, <1>21
  <2> QED BY <2>1, Sides
<1>22. c \notin R \cup RD
  <2>1. c \notin RD
    <3>1. c \in RD => c \in N /\ c # s0
      BY <1>6, <1>17
    <3>2. ASSUME c \in RD, NEW x \in passed, c = OtherChild(t, x, Parent(t, x)) PROVE FALSE
      <4>1. Parent(t, c) = Parent(t, x) /\ c \in N /\ Parent(t, x) # p
        BY <3>2, <1>15
      <4>2. Parent(t, c) = p
        BY <4>1, <1>1, ShapedAround
      <4> QED BY <4>1, <4>2
    <3> QED BY <3>1, <3>2, <1>6
  <2>2. c \notin R
    <3>1. p \notin sub[c]
      BY <1>1, <1>2, Subtrees
    <3> QED BY <3>1, <1>7
  <2> QED BY <2>1, <2>2
<1>23. Parent(t, last) \notin R \cup RD
  <2>1. last \in N /\ (Parent(t, last) = NULL \/ Parent(t, last) \in N) /\ NULL \notin N
    BY <1>3, <1>4, ShapedAround, Sides
  <2>2. CASE Parent(t, last) = NULL
    BY <2>1, <2>2, <1>3, <1>17
  <2>3. CASE Parent(t, last) # NULL
    <3>1. Parent(t, last) \notin sub[last]
      BY <2>1, <2>3, <1>2, Subtrees, Sides
    <3>2. Parent(t, last) \notin R
      BY <3>1, <1>8
    <3>3. PICK s \in Side : Parent(t, last) \in N /\ t.node[Parent(t, last)][s] = last
      BY <2>1, <2>3, OtherOf, Zenon
    <3>4. sub[last] \subseteq sub[Parent(t, last)]
      <4> DEFINE m == Parent(t, last)
      <4>1. m \in N /\ t.node[m][s] = last
        BY <3>3
      <4> HIDE DEF m
      <4>2. s \in Side /\ m \in Nodes(t) /\ Hangs(t, top, sub)
        BY <3>3, <4>1, <1>2
      <4>3. sub[m] = {m} \cup sub[t.node[m][s]] \cup sub[t.node[m][Other(s)]]
        BY ONLY <4>2, Subtrees
      <4> QED BY <4>1, <4>3 DEF m
    <3>5. p \in sub[Parent(t, last)]
      BY <3>4, <1>3, <1>8
    <3> QED BY <3>2, <3>5, <1>17
  <2> QED BY <2>2, <2>3
<1>24. \A m \in R : m = last \/ (Parent(t, m) \in R /\ Lightened(t, m))
  BY <1>4, <1>5
<1>25. t.node[p][side] \notin R \cup RD /\ t.node[p][Other(side)] \in RD
  BY <1>6, <1>22
<1>26. RD \subseteq N
  BY <1>17
<1> HIDE DEF RD
<1>27. Lifts(t, p, side, R, RD, last)
  BY <1>3, <1>4, <1>12, <1>17, <1>18, <1>19, <1>20, <1>21, <1>23, <1>24, <1>25, <1>26 DEF Lifts
<1> QED BY <1>27 DEF R, RD

\* The node whose parent's other child is not black, or has a child that is not, with
\* its parent: there the repair of a deletion stops.
Stuck(t, p, side) ==
  LET s == t.node[p][Other(side)]
  IN ~(Color(t, p) = Black /\ Color(t, s) = Black /\ \A r \in Side : Color(t, t.node[s][r]) = Black)

\* What AllBlack denies.
LEMMA NotAllBlack ==
  ASSUME NEW t, NEW p, NEW side, ~AllBlack(t, t.node[p][side], p),
         OtherChild(t, t.node[p][side], p) = t.node[p][Other(side)]
  PROVE  Stuck(t, p, side)
<1> DEFINE s == t.node[p][Other(side)]
<1>1. {Color(t, p), Color(t, s), Color(t, t.node[s]["left"]), Color(t, t.node[s]["right"])} # {Black}
  BY DEF AllBlack
<1> QED BY <1>1 DEF Stuck, Side

\* After that way up, the tree is in balance, or last is the light node.
LEMMA LiftsLight ==
  ASSUME NEW t, Shaped(t), NEW H, NEW p, NEW side, Light(t, H, p, side), NEW LT, NEW RD, NEW last,
         Lifts(t, p, side, LT, RD, last), NEW u, u = Recolor(t, {}, RD)
  PROVE  /\ SameLinks(t, u) /\ Shaped(u) /\ SameValues(t, u) /\ u.root = t.root /\ last \in Nodes(t)
         /\ Parent(t, last) = NULL => \E H2 : Balanced(u, H2)
         /\ Parent(t, last) # NULL =>
              /\ SideOf(t, last) \in Side
              /\ \E H2 : Light(u, H2, Parent(t, last), SideOf(t, last)) /\ Stuck(u, Parent(t, last), SideOf(t, last))
<1> DEFINE N == Nodes(t)
           H2 == [n \in N \cup {LEAF} |-> IF n \in LT \cup RD THEN H[n] - 1 ELSE H[n]]
           q == Parent(t, last)
<1>1. /\ LT \subseteq N /\ RD \subseteq N /\ p \in LT /\ last \in LT /\ LT \cap RD = {}
      /\ \A m \in LT : /\ Color(t, m) = Black
                       /\ m = last \/ (Parent(t, m) \in LT /\ Lightened(t, m))
                       /\ m = p \/ \A s \in Side : t.node[m][s] \in LT \cup RD
                       /\ m = p \/ \E s \in Side : t.node[m][s] \in LT /\ t.node[m][Other(s)] \in RD
      /\ t.node[p][side] \notin LT \cup RD /\ t.node[p][Other(side)] \in RD
      /\ \A r \in RD : /\ Color(t, r) = Black /\ Parent(t, r) \in LT
                       /\ \A s \in Side : Color(t, t.node[r][s]) = Black /\ t.node[r][s] \notin LT \cup RD
      /\ q \notin LT \cup RD /\ ~Lightened(t, last)
  BY DEF Lifts
<1>2. /\ p \in N /\ side \in Side /\ H \in [N \cup {LEAF} -> Nat] /\ H[LEAF] = 0
      /\ \A n \in N \ {p} : EvenAt(t, H, n)
      /\ H[p] = H[t.node[p][Other(side)]] + Unit(t, p) /\ H[t.node[p][Other(side)]] = H[t.node[p][side]] + 1
      /\ BlackTop(t) /\ \A n \in N : CalmAt(t, n, LEAF)
  BY DEF Light, Heights
<1>3. Typed(t) /\ LEAF \notin N /\ NULL \notin N
  BY Keys DEF Shaped, Shape, Hangs, Typed
<1>4. /\ SameLinks(t, u) /\ SameValues(t, u) /\ u.root = t.root /\ Color(u, LEAF) = Black
      /\ \A m \in N : Color(u, m) = IF m \in RD THEN Red ELSE Color(t, m)
  <2>1. /\ SameLinks(t, u) /\ SameValues(t, u) /\ u.root = t.root /\ Color(u, LEAF) = Black
        /\ \A m \in N : Color(u, m) = IF m \in {} THEN Black ELSE IF m \in RD THEN Red ELSE Color(t, m)
    BY <1>3, RecolorNodes
  <2> QED BY <2>1
<1>5. /\ Shaped(u) /\ Nodes(u) = N /\ \A m \in N : Parent(u, m) = Parent(t, m)
      /\ \A m \in N, s \in Side : u.node[m][s] = t.node[m][s]
  BY <1>4, SameShape, Sides DEF SameLinks, Parent
<1>6. /\ \A n \in N : Color(t, n) \in {Red, Black}
      /\ Color(t, LEAF) = Black /\ Red # Black
  BY <1>3, ColorType
<1>7. \A n \in N, s \in Side : t.node[n][s] \in N \cup {LEAF} /\ (t.node[n][s] # LEAF => Parent(t, t.node[n][s]) = n)
  BY ShapedAround
<1>8. \A n \in N : Unit(t, n) = (IF Color(t, n) = Black THEN 1 ELSE 0) /\ Unit(t, n) \in {0, 1}
                   /\ Unit(u, n) = (IF n \in RD THEN 0 ELSE Unit(t, n))
  BY <1>4, <1>6 DEF Unit
<1>9. ASSUME NEW n \in LT \cup RD PROVE H[n] \in Nat /\ H[n] # 0
  <2>1. n \in N /\ Unit(t, n) = 1
    BY <1>1, <1>8
  <2>2. CASE n = p
    <3>1. t.node[p][Other(side)] \in N
      BY <1>1
    <3> QED BY <3>1, <2>1, <2>2, <1>2
  <2>3. CASE n # p
    <3>1. H[n] = H[t.node[n]["left"]] + 1 /\ t.node[n]["left"] \in N \cup {LEAF}
      BY <2>1, <2>3, <1>2, <1>7, Sides DEF EvenAt
    <3> QED BY <3>1, <2>1, <1>2
  <2> QED BY <2>2, <2>3
<1>10. /\ H2 \in [N \cup {LEAF} -> Nat]
       /\ \A n \in N \cup {LEAF} : H2[n] = IF n \in LT \cup RD THEN H[n] - 1 ELSE H[n]
  BY <1>2, <1>9
<1>11. H2[LEAF] = 0
  BY <1>1, <1>2, <1>3, <1>10
<1> HIDE DEF H2
<1>12. Heights(u, H2)
  BY <1>5, <1>10, <1>11 DEF Heights
<1>13. ASSUME NEW n \in N, n # q PROVE EvenAt(u, H2, n)
  <2> SUFFICES ASSUME NEW s \in Side PROVE H2[n] = H2[t.node[n][s]] + Unit(u, n)
    BY <1>5 DEF EvenAt
  <2> DEFINE c == t.node[n][s]
  <2>1. c \in N \cup {LEAF} /\ (c # LEAF => Parent(t, c) = n) /\ H[n] \in Nat /\ H[c] \in Nat
    BY <1>2, <1>7
  <2>2. /\ H2[n] = (IF n \in LT \cup RD THEN H[n] - 1 ELSE H[n])
        /\ H2[c] = (IF c \in LT \cup RD THEN H[c] - 1 ELSE H[c])
    BY <2>1, <1>10
  <2> HIDE DEF c
  <2>3. CASE n \in RD
    <3>1. n # p /\ Unit(t, n) = 1 /\ Unit(u, n) = 0 /\ c \notin LT \cup RD
      BY <2>3, <1>1, <1>8 DEF c
    <3>2. H[n] = H[c] + 1
      BY <3>1, <1>2 DEF EvenAt, c
    <3> QED BY <3>1, <3>2, <2>1, <2>2, <2>3 DEF c
  <2>4. CASE n \in LT /\ n # p
    <3>1. Unit(t, n) = 1 /\ Unit(u, n) = 1 /\ c \in LT \cup RD
      BY <2>4, <1>1, <1>8 DEF c
    <3>2. H[n] = H[c] + 1 /\ H[c] # 0
      BY <3>1, <2>4, <1>2, <1>9 DEF EvenAt, c
    <3> QED BY <3>1, <3>2, <2>1, <2>2, <2>4 DEF c
  <2>5. CASE n = p
    <3>1. Unit(t, p) = 1 /\ Unit(u, p) = 1 /\ p \in LT
      BY <1>1, <1>2, <1>8
    <3>2. s = side \/ s = Other(side)
      BY <1>2, Sides
    <3>3. CASE s = side
      <4>1. c \notin LT \cup RD
        BY <3>3, <2>5, <1>1 DEF c
      <4>2. H[p] = H[c] + 1 + 1
        BY <3>1, <3>3, <2>5, <1>2 DEF c
      <4> QED BY <4>1, <4>2, <3>1, <2>1, <2>2, <2>5 DEF c
    <3>4. CASE s = Other(side)
      <4>1. c \in RD /\ H[c] # 0
        BY <3>4, <2>5, <1>1, <1>9 DEF c
      <4>2. H[p] = H[c] + 1
        BY <3>1, <3>4, <2>5, <1>2 DEF c
      <4> QED BY <4>1, <4>2, <3>1, <2>1, <2>2, <2>5 DEF c
    <3> QED BY <3>2, <3>3, <3>4
  <2>6. CASE n \notin LT \cup RD
    <3>1. c \notin LT \cup RD
      BY <2>1, <2>6, <1>1, <1>3, <1>13
    <3>2. n # p /\ Unit(u, n) = Unit(t, n) /\ Unit(t, n) \in Nat
      BY <2>6, <1>1, <1>8
    <3>3. H[n] = H[c] + Unit(t, n)
      BY <3>2, <1>2 DEF EvenAt, c
    <3> QED BY <3>1, <3>2, <3>3, <2>1, <2>2, <2>6 DEF c
  <2> QED BY <2>3, <2>4, <2>5, <2>6
<1>14. ASSUME NEW n \in N PROVE CalmAt(u, n, LEAF)
  <2> SUFFICES ASSUME Color(u, n) = Red, NEW s \in Side PROVE Color(u, t.node[n][s]) = Black
    BY <1>5 DEF CalmAt
  <2> DEFINE c == t.node[n][s]
  <2>1. c \in N \cup {LEAF} /\ (c # LEAF => Parent(t, c) = n)
    BY <1>7
  <2>2. c \notin RD /\ Color(t, c) = Black
    <3>1. CASE n \in RD
      BY <3>1, <1>1
    <3>2. CASE n \notin RD
      <4>1. Color(t, n) = Red
        BY <3>2, <1>4
      <4>2. Color(t, c) = Black
        BY <4>1, <1>2, <1>6 DEF CalmAt
      <4>3. c \in RD => n \in LT
        BY <2>1, <1>1, <1>3
      <4> QED BY <4>1, <4>2, <4>3, <1>1, <1>6
    <3> QED BY <3>1, <3>2
  <2> QED BY <2>1, <2>2, <1>4
<1>15. BlackTop(u)
  <2> SUFFICES ASSUME NEW m \in N, Parent(t, m) = NULL PROVE Color(u, m) = Black
    BY <1>5 DEF BlackTop
  <2>1. m \notin RD
    BY <1>1, <1>3
  <2> QED BY <2>1, <1>2, <1>4 DEF BlackTop
<1>16. q = NULL => Balanced(u, H2)
  BY <1>3, <1>5, <1>12, <1>13, <1>14, <1>15 DEF Balanced, Even
<1>17. ASSUME q # NULL
       PROVE  SideOf(t, last) \in Side /\ Light(u, H2, q, SideOf(t, last)) /\ Stuck(u, q, SideOf(t, last))
  <2> DEFINE r == SideOf(t, last)
             o == t.node[q][Other(r)]
  <2>1. last \in N /\ last # LEAF
    BY <1>1, <1>3
  <2>2. q \in N /\ r \in Side /\ t.node[q][r] = last /\ Other(r) \in Side
    BY <2>1, <1>17, ShapedSide, Sides
  <2> HIDE DEF q, r
  <2>3. o \in N \cup {LEAF} /\ o # last /\ (o # LEAF => Parent(t, o) = q) /\ H[o] \in Nat
    <3>1. o # last
      BY <2>1, <2>2, ShapedAround
    <3>2. o \in N \cup {LEAF} /\ (o # LEAF => Parent(t, o) = q)
      BY <2>2, <1>7
    <3> QED BY <3>1, <3>2, <1>2
  <2> HIDE DEF o
  <2>4. o \notin LT \cup RD
    <3>1. o \in LT => Parent(t, o) \in LT
      BY <2>3, <1>1
    <3>2. o \in RD => Parent(t, o) \in LT
      BY <1>1
    <3> QED BY <3>1, <3>2, <2>3, <1>1, <1>3
  <2>5. q # p /\ EvenAt(t, H, q) /\ Unit(u, q) = Unit(t, q) /\ Unit(t, q) \in Nat
    BY <2>2, <1>1, <1>2, <1>8
  <2>6. H[q] = H[last] + Unit(t, q) /\ H[q] = H[o] + Unit(t, q)
    BY <2>2, <2>5 DEF EvenAt, o
  <2>7. H2[q] = H[q] /\ H2[o] = H[o] /\ H2[last] = H[last] - 1 /\ H[last] \in Nat /\ H[last] # 0
    BY <2>1, <2>2, <2>3, <2>4, <1>1, <1>9, <1>10
  <2>8. u.node[q][r] = last /\ u.node[q][Other(r)] = o
    BY <2>2, <1>5 DEF o
  <2>9. H2[q] = H2[o] + Unit(u, q) /\ H2[o] = H2[last] + 1
    BY <2>3, <2>5, <2>6, <2>7
  <2>10. Color(u, last) = Black
    BY <2>1, <1>1, <1>4
  <2>11. Light(u, H2, q, r)
    BY <2>2, <2>8, <2>9, <2>10, <1>5, <1>12, <1>13, <1>14, <1>15 DEF Light
  <2>12. OtherChild(t, last, q) = o
    BY <2>1, <2>2, <2>3 DEF OtherChild, Side, Other, o
  <2>13. ~AllBlack(t, last, q)
    BY <1>1, <1>17 DEF Lightened, q
  <2>14. Stuck(t, q, r)
    BY <2>2, <2>12, <2>13, NotAllBlack DEF o
  <2>15. Stuck(u, q, r)
    <3>1. o # LEAF
      <4>1. H2[o] # 0
        BY <2>3, <2>7, <2>9
      <4> QED BY <4>1, <1>11
    <3>2. o \in N /\ \A s \in Side : u.node[o][s] = t.node[o][s] /\ t.node[o][s] \in N \cup {LEAF}
      BY <3>1, <2>3, <1>5, <1>7
    <3>3. Color(u, q) = Color(t, q) /\ Color(u, o) = Color(t, o)
      BY <3>2, <2>2, <2>4, <1>1, <1>4
    <3>4. \A s \in Side : t.node[o][s] \notin RD
      BY <3>2, <2>4, <1>1, <1>3, <1>7
    <3>5. \A s \in Side : Color(u, t.node[o][s]) = Color(t, t.node[o][s])
      BY <3>2, <3>4, <1>4, <1>6
    <3> QED BY <2>8, <2>14, <3>2, <3>3, <3>5 DEF Stuck, o
  <2> QED BY <2>2, <2>11, <2>15 DEF r
<1> QED BY <1>1, <1>4, <1>5, <1>16, <1>17

\* The way up leaves the tree in balance, or stops at a light node.
LEMMA MoveUpLight ==
  ASSUME NEW t, Shaped(t), NEW H, NEW p, NEW side, Light(t, H, p, side), NEW c, c = t.node[p][side],
         NEW m, m = MoveUp(t, c, p)
  PROVE  /\ Shaped(m.t) /\ SameValues(t, m.t) /\ m.t.root = t.root
         /\ m.p = NULL => \E H2 : Balanced(m.t, H2)
         /\ m.p # NULL => \E H2 : Light(m.t, H2, m.p, m.side) /\ Stuck(m.t, m.p, m.side)
<1> DEFINE up == IF AllBlack(t, c, p) THEN Lifted(t, p) ELSE {}
           passed == {x \in up : Lightened(t, x)}
           last == CHOOSE x \in up : x \notin passed
           x == IF up = {} THEN c ELSE last
           q == IF up = {} THEN p ELSE Parent(t, last)
           reds == {OtherChild(t, y, Parent(t, y)) : y \in passed}
           t1 == IF up = {} THEN t ELSE Recolor(t, {}, reds \cup {OtherChild(t, c, p)})
           side1 == IF q = NULL \/ x = t.node[q].left THEN "left" ELSE "right"
<1>1. m = [t |-> t1, p |-> q, side |-> side1]
  BY Zenon DEF MoveUp
<1>2. p \in Nodes(t) /\ side \in Side /\ p # NULL
  BY ShapedAround, Sides DEF Light
<1>3. CASE AllBlack(t, c, p)
  <2> DEFINE passed2 == {y \in Lifted(t, p) : Lightened(t, y)}
             last2 == CHOOSE y \in Lifted(t, p) : y \notin passed2
             RD == {OtherChild(t, y, Parent(t, y)) : y \in passed2} \cup {OtherChild(t, c, p)}
  <2>1. up = Lifted(t, p)
    BY <1>3
  <2>2. passed = passed2 /\ last = last2
    BY <2>1
  <2>3. Lifted(t, p) # {}
    BY <1>2, LiftedWay
  <2> HIDE DEF up
  <2>4. t1 = Recolor(t, {}, RD) /\ q = Parent(t, last2) /\ x = last2
    BY <2>1, <2>2, <2>3
  <2>5. Lifts(t, p, side, Lifted(t, p), RD, last2)
    BY <1>3, LiftedLifts, Zenon
  <2> HIDE DEF passed, last, x, q, reds, t1, RD, last2, passed2
  <2>6. /\ SameLinks(t, t1) /\ Shaped(t1) /\ SameValues(t, t1) /\ t1.root = t.root /\ last2 \in Nodes(t)
        /\ Parent(t, last2) = NULL => \E H2 : Balanced(t1, H2)
        /\ Parent(t, last2) # NULL =>
             /\ SideOf(t, last2) \in Side
             /\ \E H2 : Light(t1, H2, Parent(t, last2), SideOf(t, last2)) /\ Stuck(t1, Parent(t, last2), SideOf(t, last2))
    BY <2>4, <2>5, LiftsLight
  <2>7. q # NULL => side1 = SideOf(t, last2)
    BY <2>4 DEF SideOf
  <2> HIDE DEF side1
  <2>8. m.t = t1 /\ m.p = q /\ m.side = side1
    BY <1>1
  <2> QED BY <2>4, <2>6, <2>7, <2>8
<1>4. CASE ~AllBlack(t, c, p)
  <2>1. up = {}
    BY <1>4
  <2> HIDE DEF up
  <2>2. t1 = t /\ q = p /\ x = c
    BY <2>1
  <2>3. OtherChild(t, c, p) = t.node[p][Other(side)] /\ t.node[p][Other(side)] # c
    BY LightSibling
  <2>4. side1 = side
    <3>1. side = "left" \/ side = "right"
      BY <1>2 DEF Side
    <3>2. CASE side = "left"
      BY <3>2, <2>2
    <3>3. CASE side = "right"
      <4>1. c # t.node[p].left
        BY <3>3, <2>3 DEF Other
      <4> HIDE DEF q, x
      <4> QED BY <3>3, <4>1, <2>2, <1>2
    <3> QED BY <3>1, <3>2, <3>3
  <2>5. Stuck(t, p, side)
    BY <1>4, <2>3, NotAllBlack
  <2> HIDE DEF t1, q, x, side1
  <2>6. m.t = t /\ m.p = p /\ m.side = side
    BY <1>1, <2>2, <2>4
  <2>7. SameValues(t, t)
    BY SMTT(30) DEF SameValues
  <2> QED BY <2>5, <2>6, <2>7, <1>2
<1> QED BY <1>3, <1>4

-----------------------------------------------------------------------------
(* Deletion: the rotations.                                                *)

\* t with nodes painted, t1, has been rotated to r: n went down on that side.
Turned(t, t1, r, n, side, up, inner) ==
  /\ Shaped(r) /\ Nodes(r) = Nodes(t) /\ SameValues(t, r) /\ SameColors(t1, r) /\ r.root = t.root
  /\ n \in Nodes(t) /\ up \in Nodes(t) /\ inner \in Nodes(t) \cup {LEAF} /\ up # n /\ inner # n /\ inner # up
  /\ r.node[n][side] = t.node[n][side] /\ r.node[n][Other(side)] = inner
  /\ r.node[up][side] = n /\ r.node[up][Other(side)] = t.node[up][Other(side)]
  /\ t.node[n][side] \in (Nodes(t) \cup {LEAF}) \ {n, up}
  /\ t.node[up][Other(side)] \in (Nodes(t) \cup {LEAF}) \ {n, up}
  /\ \A m \in Nodes(t) \ {n, up}, s \in Side :
       /\ r.node[m][s] = IF t.node[m][s] = n THEN up ELSE t.node[m][s]
       /\ t.node[m][s] # up /\ t.node[m][s] \in Nodes(t) \cup {LEAF}
       /\ t.node[m][s] # LEAF => t.node[m][s] # t.node[up][Other(side)]
  /\ Parent(r, n) = up /\ Parent(r, up) = Parent(t, n) /\ (inner # LEAF => Parent(r, inner) = n)
  /\ \A m \in Nodes(t) \ {n, up, inner} : Parent(r, m) = Parent(t, m)

\* So it is after painting and a rotation.
LEMMA PaintedTurn ==
  ASSUME CompareOrder, NEW t, Shaped(t), NEW t1, SameLinks(t, t1), SameValues(t, t1), t1.root = t.root,
         NEW n \in Nodes(t), NEW side \in Side, NEW up, up = t.node[n][Other(side)], up # LEAF,
         NEW inner, inner = t.node[up][side], NEW r, r = Rotate(t1, n, side)
  PROVE  Turned(t, t1, r, n, side, up, inner)
<1> DEFINE N == Nodes(t)
<1>1. /\ Shaped(t1) /\ Nodes(t1) = N
      /\ \A m \in N, s \in Side : t1.node[m][s] = t.node[m][s]
      /\ \A m \in N : Parent(t1, m) = Parent(t, m)
  BY SameShape, Sides DEF SameLinks, Parent
<1>2. Other(side) \in Side /\ Other(Other(side)) = side
  BY Sides
<1>3. up \in N
  BY <1>2, ShapedAround
<1>4. up = t1.node[n][Other(side)] /\ inner = t1.node[up][side]
  BY <1>1, <1>2, <1>3
<1>5. Shaped(r) /\ Rotated(t1, r, n, side, up, inner)
  BY <1>1, <1>4, RotateShape
<1>6. /\ Relinks(t1, r) /\ r.root = t1.root
      /\ inner \in N \cup {LEAF} /\ up # n /\ inner # n /\ inner # up
      /\ r.node[n][side] = t1.node[n][side] /\ r.node[n][Other(side)] = inner
      /\ r.node[up][side] = n /\ r.node[up][Other(side)] = t1.node[up][Other(side)]
      /\ \A m \in N \ {n, up}, s \in Side : r.node[m][s] = IF t1.node[m][s] = n THEN up ELSE t1.node[m][s]
      /\ Parent(r, n) = up /\ Parent(r, up) = Parent(t1, n)
      /\ \A m \in N \ {n, up, inner} : Parent(r, m) = Parent(t1, m)
  BY <1>1, <1>5 DEF Rotated
<1>7. SameColors(t1, r) /\ SameValues(t1, r) /\ Nodes(r) = N
  BY <1>1, <1>6, RelinksKeeps
<1>8. SameValues(t, r)
  BY <1>7 DEF SameValues
<1>9. t.node[n][side] \in (N \cup {LEAF}) \ {n, up}
  <2>1. t.node[n][side] \in N \cup {LEAF} /\ t.node[n][side] # n
    BY ShapedAround
  <2>2. t.node[n][side] # up
    BY <1>2, ShapedAround
  <2> QED BY <2>1, <2>2
<1>10. t.node[up][Other(side)] \in (N \cup {LEAF}) \ {n, up}
  <2>1. t.node[up][Other(side)] \in N \cup {LEAF} /\ t.node[up][Other(side)] # up
    BY <1>2, <1>3, ShapedAround
  <2>2. t.node[up][Other(side)] # n
    <3>1. r.node[up][side] # LEAF => r.node[up][side] # r.node[up][Other(side)]
      BY <1>3, <1>5, <1>7, ShapedAround
    <3>2. n # LEAF
      BY ShapedAround
    <3> QED BY <3>1, <3>2, <1>1, <1>2, <1>3, <1>6
  <2> QED BY <2>1, <2>2
<1>11. ASSUME NEW m \in N \ {n, up}, NEW s \in Side
       PROVE  /\ t.node[m][s] # up /\ t.node[m][s] \in N \cup {LEAF}
              /\ t.node[m][s] # LEAF => t.node[m][s] # t.node[up][Other(side)]
  <2>1. t.node[m][s] # up
    BY <1>2, OneParent
  <2>2. t.node[m][s] # LEAF => t.node[m][s] # t.node[up][Other(side)]
    BY <1>2, <1>3, OneParent
  <2> QED BY <2>1, <2>2, ShapedAround
<1>12. inner # LEAF => Parent(r, inner) = n
  <2>1. \A m \in Nodes(r) : Parent(r, m) = n <=> m \in {r.node[n][side], r.node[n][Other(side)]}
    BY <1>5, <1>7, ShapedAround
  <2> QED BY <2>1, <1>6, <1>7
<1>13. \A m \in N \ {n, up}, s \in Side :
         /\ r.node[m][s] = IF t.node[m][s] = n THEN up ELSE t.node[m][s]
         /\ t.node[m][s] # up /\ t.node[m][s] \in N \cup {LEAF}
         /\ t.node[m][s] # LEAF => t.node[m][s] # t.node[up][Other(side)]
  BY <1>1, <1>6, <1>11
<1>14. /\ r.node[n][side] = t.node[n][side] /\ r.node[up][Other(side)] = t.node[up][Other(side)]
       /\ Parent(r, up) = Parent(t, n) /\ r.root = t.root
       /\ \A m \in N \ {n, up, inner} : Parent(r, m) = Parent(t, m)
  BY <1>1, <1>2, <1>3, <1>6
<1> QED BY <1>3, <1>5, <1>6, <1>7, <1>8, <1>9, <1>10, <1>12, <1>13, <1>14, Zenon DEF Turned

\* up has the height and the colour that n had, and what is not n, up or e keeps its own.
Kept(t, r, H, H2, n, up, e) ==
  /\ H2[up] = H[n] /\ Color(r, up) = Color(t, n)
  /\ \A x \in Nodes(t) \cup {LEAF} : x = LEAF \/ x \notin {n, up, e} => H2[x] = H[x] /\ Color(r, x) = Color(t, x)

\* What surrounds the nodes other than n, up and e is as it was.
Undisturbed(t, r, H, H2, n, up, e) ==
  /\ \A m \in Nodes(t) \ {n, up} : m # e =>
       (EvenAt(t, H, m) => EvenAt(r, H2, m)) /\ (CalmAt(t, m, LEAF) => CalmAt(r, m, LEAF))
  /\ \A m \in Nodes(t) \ {n, up}, s \in Side : /\ H2[r.node[m][s]] = H[t.node[m][s]]
                                               /\ Color(r, r.node[m][s]) = Color(t, t.node[m][s])

\* Then the other nodes are as they were.
LEMMA Elsewhere ==
  ASSUME NEW t, NEW t1, NEW r, NEW n, NEW side \in Side, NEW up, NEW inner, Turned(t, t1, r, n, side, up, inner),
         NEW e, e = t.node[up][Other(side)], NEW H, NEW H2, Kept(t, r, H, H2, n, up, e)
  PROVE  Undisturbed(t, r, H, H2, n, up, e)
<1>1. /\ Nodes(r) = Nodes(t) /\ n \in Nodes(t) /\ up \in Nodes(t)
      /\ \A m \in Nodes(t) \ {n, up}, s \in Side :
           /\ r.node[m][s] = IF t.node[m][s] = n THEN up ELSE t.node[m][s]
           /\ t.node[m][s] # up /\ t.node[m][s] \in Nodes(t) \cup {LEAF}
           /\ t.node[m][s] # LEAF => t.node[m][s] # e
  BY DEF Turned
<1>2. /\ H2[up] = H[n] /\ Color(r, up) = Color(t, n)
      /\ \A x \in Nodes(t) \cup {LEAF} : x = LEAF \/ x \notin {n, up, e} => H2[x] = H[x] /\ Color(r, x) = Color(t, x)
  BY DEF Kept
<1>3. ASSUME NEW m \in Nodes(t) \ {n, up}, NEW s \in Side
      PROVE  H2[r.node[m][s]] = H[t.node[m][s]] /\ Color(r, r.node[m][s]) = Color(t, t.node[m][s])
  <2>1. /\ r.node[m][s] = IF t.node[m][s] = n THEN up ELSE t.node[m][s]
        /\ t.node[m][s] # up /\ t.node[m][s] \in Nodes(t) \cup {LEAF}
        /\ t.node[m][s] # LEAF => t.node[m][s] # e
    BY <1>1
  <2> QED BY <2>1, <1>2
<1>4. ASSUME NEW m \in Nodes(t) \ {n, up}, m # e
      PROVE  (EvenAt(t, H, m) => EvenAt(r, H2, m)) /\ (CalmAt(t, m, LEAF) => CalmAt(r, m, LEAF))
  <2>1. H2[m] = H[m] /\ Color(r, m) = Color(t, m) /\ Unit(r, m) = Unit(t, m)
    BY <1>2, <1>4 DEF Unit
  <2>2. EvenAt(t, H, m) => EvenAt(r, H2, m)
    BY <2>1, <1>3 DEF EvenAt
  <2>3. CalmAt(t, m, LEAF) => CalmAt(r, m, LEAF)
    <3> SUFFICES ASSUME CalmAt(t, m, LEAF), Color(t, m) = Red, NEW s \in Side
                 PROVE  Color(r, r.node[m][s]) = Black
      BY <2>1 DEF CalmAt
    <3>1. Color(t, t.node[m][s]) = Black
      BY DEF CalmAt, Color
    <3> QED BY <3>1, <1>3
  <2> QED BY <2>2, <2>3
<1> QED BY <1>3, <1>4 DEF Undisturbed

\* And the top is black still.
LEMMA TurnedTop ==
  ASSUME NEW t, Shaped(t), BlackTop(t), NEW t1, NEW r, NEW n, NEW side \in Side, NEW up, NEW inner,
         Turned(t, t1, r, n, side, up, inner),
         NEW e, e = t.node[up][Other(side)], NEW H, NEW H2, Kept(t, r, H, H2, n, up, e)
  PROVE  BlackTop(r)
<1> SUFFICES ASSUME NEW m \in Nodes(t), Parent(r, m) = NULL PROVE Color(r, m) = Black
  BY DEF BlackTop, Turned
<1>1. /\ n \in Nodes(t) /\ up \in Nodes(t) /\ Parent(r, n) = up /\ Parent(r, up) = Parent(t, n)
      /\ (inner # LEAF => Parent(r, inner) = n)
      /\ \A x \in Nodes(t) \ {n, up, inner} : Parent(r, x) = Parent(t, x)
      /\ e \in (Nodes(t) \cup {LEAF}) \ {n, up}
  BY DEF Turned
<1>2. n # NULL /\ up # NULL /\ m # LEAF
  BY <1>1, ShapedAround
<1>3. m # n /\ m # inner
  BY <1>1, <1>2
<1>4. CASE m = up
  BY <1>1, <1>4 DEF BlackTop, Kept
<1>5. CASE m # up
  <2>1. Parent(t, m) = NULL
    BY <1>1, <1>3, <1>5
  <2>2. m # e
    <3>1. m = e => Parent(t, m) = up
      BY <1>1, <1>2, ShapedAround, Sides
    <3> QED BY <3>1, <2>1, <1>2
  <2> QED BY <2>1, <2>2, <1>3, <1>5 DEF BlackTop, Kept
<1> QED BY <1>4, <1>5

\* The light node's sibling is black, and it or a child of it, or p, is not all that
\* the repair moves up for.
Poised(t, H, p, side) ==
  Light(t, H, p, side) /\ Stuck(t, p, side) /\ Color(t, t.node[p][Other(side)]) = Black

\* A red sibling makes way for a black one.
LEMMA RaiseRedPoised ==
  ASSUME CompareOrder, NEW t, Shaped(t), NEW H, NEW p, NEW side, Light(t, H, p, side), Stuck(t, p, side),
         NEW u, u = RaiseRedSibling(t, p, side)
  PROVE  /\ Shaped(u) /\ SameValues(t, u) /\ u.root \in Nodes(t) \cup {t.root} /\ \E H2 : Poised(u, H2, p, side)
<1> DEFINE N == Nodes(t)
           s == t.node[p][Other(side)]
           c == t.node[p][side]
           inner == t.node[s][side]
           far == t.node[s][Other(side)]
           t1 == Paint(t, p, Red)
           t2 == Paint(t1, s, Black)
           r == Rotate(t2, p, side)
           H2 == [H EXCEPT ![p] = H[c] + 1, ![s] = H[p]]
<1>1. /\ p \in N /\ side \in Side /\ H \in [N \cup {LEAF} -> Nat] /\ H[LEAF] = 0
      /\ \A n \in N \ {p} : EvenAt(t, H, n)
      /\ H[p] = H[s] + Unit(t, p) /\ H[s] = H[c] + 1 /\ Color(t, c) = Black
      /\ BlackTop(t) /\ \A n \in N : CalmAt(t, n, LEAF)
  BY DEF Light, Heights
<1>2. /\ s \in N /\ s # p /\ s # c /\ Parent(t, s) = p /\ Other(side) \in Side
      /\ c \in N \cup {LEAF} /\ H[c] \in Nat /\ H[s] \in Nat
  BY LightSibling
<1>3. Typed(t) /\ LEAF \notin N /\ NULL \notin N
  BY Keys DEF Shaped, Shape, Hangs, Typed
<1>4. /\ \A n \in N \cup {LEAF} : Color(t, n) \in {Red, Black}
      /\ Color(t, LEAF) = Black /\ Red # Black
  BY <1>3, ColorType
<1>5. CASE Color(t, s) = Black
  <2>1. u = t
    BY <1>5 DEF RaiseRedSibling
  <2> QED BY <2>1, <1>5 DEF Poised, SameValues
<1>6. CASE Color(t, s) # Black
  <2>1. Color(t, s) = Red /\ Color(t, p) = Black
    BY <1>1, <1>2, <1>4, <1>6 DEF CalmAt
  <2>2. Unit(t, s) = 0 /\ Unit(t, p) = 1 /\ EvenAt(t, H, s) /\ CalmAt(t, s, LEAF)
    BY <2>1, <1>1, <1>2, <1>4 DEF Unit
  <2>3. inner \in N \cup {LEAF} /\ far \in N \cup {LEAF}
    BY <1>1, <1>2, ShapedAround
  <2>4. H[s] = H[inner] /\ H[s] = H[far] /\ H[inner] \in Nat /\ H[far] \in Nat
    <3>1. H[s] = H[inner] + 0 /\ H[s] = H[far] + 0
      BY <2>2, <1>1, <1>2 DEF EvenAt
    <3>2. H[inner] \in Nat /\ H[far] \in Nat
      BY <2>3, <1>1
    <3> QED BY <3>1, <3>2
  <2>5. Color(t, inner) = Black /\ Color(t, far) = Black
    BY <2>1, <2>2, <1>1, <1>2, <1>4 DEF CalmAt
  <2>6. u = IF Parent(r, Parent(r, p)) = NULL THEN [r EXCEPT !.root = r.node[p][Other(side)]] ELSE r
    BY <1>6 DEF RaiseRedSibling
  <2> HIDE DEF s, c, inner, far
  <2>7. Painted(t, t1, p, Red)
    BY <1>1, <1>3, PaintNode
  <2>8. Typed(t1) /\ Nodes(t1) = N
    BY <2>7 DEF Painted, SameLinks
  <2>9. Painted(t1, t2, s, Black)
    BY <2>8, <1>2, PaintNode
  <2> HIDE DEF t1, t2, H2
  <2>10. /\ SameLinks(t, t2) /\ SameValues(t, t2) /\ t2.root = t.root
         /\ \A m \in N \cup {LEAF} : Color(t2, m) = IF m = s THEN Black ELSE IF m = p THEN Red ELSE Color(t, m)
    BY <2>7, <2>8, <2>9, <1>2 DEF Painted, SameLinks, SameValues
  <2>11. Turned(t, t2, r, p, side, s, inner)
    <3>1. s # LEAF /\ s = t.node[p][Other(side)] /\ inner = t.node[s][side]
      BY <1>2, <1>3 DEF s, inner
    <3> QED BY <3>1, <2>10, <1>1, PaintedTurn
  <2> HIDE DEF r
  <2>12. /\ Shaped(r) /\ Nodes(r) = N /\ SameValues(t, r) /\ SameColors(t2, r) /\ r.root = t.root
         /\ inner # p /\ inner # s /\ r.node[p][side] = c /\ r.node[p][Other(side)] = inner
         /\ r.node[s][side] = p /\ r.node[s][Other(side)] = far
         /\ c \in (N \cup {LEAF}) \ {p, s} /\ far \in (N \cup {LEAF}) \ {p, s}
    BY <2>11 DEF Turned, s, c, inner, far
  <2>13. \A m \in N \cup {LEAF} : Color(r, m) = IF m = s THEN Black ELSE IF m = p THEN Red ELSE Color(t, m)
    BY <2>10, <2>12 DEF SameColors, SameLinks
  <2>14. /\ H2 \in [N \cup {LEAF} -> Nat] /\ H2[p] = H[c] + 1 /\ H2[s] = H[p]
         /\ \A m \in N \cup {LEAF} : m \notin {p, s} => H2[m] = H[m]
    BY <1>1, <1>2 DEF H2
  <2>15. Kept(t, r, H, H2, p, s, far)
    <3>1. p \in N \cup {LEAF} /\ s \in N \cup {LEAF} /\ LEAF \notin {p, s}
      BY <1>1, <1>2, <1>3
    <3>2. H2[s] = H[p] /\ Color(r, s) = Color(t, p)
      BY <3>1, <2>1, <2>13, <2>14
    <3>3. ASSUME NEW x \in N \cup {LEAF}, x = LEAF \/ x \notin {p, s, far} PROVE H2[x] = H[x] /\ Color(r, x) = Color(t, x)
      <4>1. x \notin {p, s}
        BY <3>1, <3>3
      <4> QED BY <4>1, <2>13, <2>14
    <3> QED BY <3>2, <3>3 DEF Kept
  <2>161. far = t.node[s][Other(side)]
    BY DEF far
  <2>16. BlackTop(r)
    BY <2>11, <2>15, <2>161, <1>1, TurnedTop, Zenon
  <2>162. Undisturbed(t, r, H, H2, p, s, far)
    BY <2>11, <2>15, <2>161, <1>1, Elsewhere, Zenon
  <2>17. \A m \in N \ {p, s} : m # far => EvenAt(r, H2, m) /\ CalmAt(r, m, LEAF)
    BY <2>162, <1>1 DEF Undisturbed
  <2>18. ASSUME far \in N PROVE EvenAt(r, H2, far) /\ CalmAt(r, far, LEAF)
    <3>1. far \notin {p, s} /\ H2[far] = H[far] /\ Color(r, far) = Color(t, far) /\ Unit(r, far) = Unit(t, far)
      BY <2>12, <2>13, <2>14, <2>18 DEF Unit
    <3>2. \A x \in Side : /\ H2[r.node[far][x]] = H[t.node[far][x]]
                          /\ Color(r, r.node[far][x]) = Color(t, t.node[far][x])
      BY <3>1, <2>162, <2>18 DEF Undisturbed
    <3>3. EvenAt(t, H, far) /\ CalmAt(t, far, LEAF)
      BY <3>1, <2>18, <1>1
    <3>4. EvenAt(r, H2, far)
      BY <3>1, <3>2, <3>3 DEF EvenAt
    <3>5. CalmAt(r, far, LEAF)
      BY <2>5, <3>1, <1>4 DEF CalmAt
    <3> QED BY <3>4, <3>5
  <2>19. EvenAt(r, H2, s) /\ CalmAt(r, s, LEAF)
    <3>1. Color(r, s) = Black /\ Unit(r, s) = 1
      BY <2>13, <1>2 DEF Unit
    <3>2. H2[far] = H[far]
      BY <2>12, <2>14
    <3>3. H2[s] = H2[p] + 1 /\ H2[s] = H2[far] + 1
      BY <2>2, <2>4, <2>14, <3>2, <1>1, <1>2
    <3>4. \A x \in Side : H2[s] = H2[r.node[s][x]] + 1
      BY <3>3, <2>12, <1>1, Sides
    <3> QED BY <3>1, <3>4, <1>4 DEF EvenAt, CalmAt
  <2>20. CalmAt(r, p, LEAF)
    <3>1. Color(r, c) = Black /\ Color(r, inner) = Black
      BY <2>3, <2>5, <2>12, <2>13, <1>1, <1>2
    <3>2. \A x \in Side : Color(r, r.node[p][x]) = Black
      BY <3>1, <2>12, <1>1, Sides
    <3> QED BY <3>2 DEF CalmAt
  <2>21. Light(r, H2, p, side)
    <3>1. Color(r, p) = Red /\ Unit(r, p) = 0
      BY <2>13, <1>1, <1>2, <1>4 DEF Unit
    <3>2. H2[c] = H[c] /\ H2[inner] = H[inner] /\ Color(r, c) = Black
      BY <2>3, <2>12, <2>13, <2>14, <1>1, <1>2
    <3>3. H2[p] = H2[inner] + 0 /\ H2[inner] = H2[c] + 1
      BY <3>2, <2>4, <2>14, <1>1, <1>2
    <3>4. Heights(r, H2)
      BY <2>12, <2>14, <1>1, <1>2, <1>3 DEF Heights
    <3>5. \A m \in N : CalmAt(r, m, LEAF)
      BY <2>17, <2>18, <2>19, <2>20
    <3>6. \A m \in N \ {p} : EvenAt(r, H2, m)
      BY <2>17, <2>18, <2>19
    <3> QED BY <3>1, <3>2, <3>3, <3>4, <3>5, <3>6, <2>12, <2>16, <1>1 DEF Light
  <2>22. Poised(r, H2, p, side)
    <3>1. Color(r, p) = Red /\ Color(r, inner) = Black
      BY <2>3, <2>5, <2>12, <2>13, <1>1, <1>2
    <3> QED BY <3>1, <2>12, <2>21, <1>4 DEF Poised, Stuck
  <2>23. CASE Parent(r, Parent(r, p)) # NULL
    <3>1. u = r
      BY <2>6, <2>23
    <3> QED BY <3>1, <2>12, <2>22
  <2>24. CASE Parent(r, Parent(r, p)) = NULL
    <3>1. u = [r EXCEPT !.root = inner]
      BY <2>6, <2>12, <2>24
    <3>2. Typed(r)
      BY <2>12 DEF Shaped, Shape, Hangs
    <3>3. inner \in N
      <4>1. H[inner] # 0
        BY <2>4, <1>1, <1>2
      <4> QED BY <4>1, <2>3, <1>1
    <3>4. r = [root |-> r.root, node |-> r.node] /\ inner \in Int
      BY <3>2, <3>3, <2>12, Keys DEF Typed
    <3>5. u = [root |-> inner, node |-> r.node]
      BY <3>1, <3>4
    <3>6. u.node = r.node /\ u.root = inner /\ u = [root |-> u.root, node |-> u.node]
      BY <3>5
    <3>7. Nodes(u) = N /\ Typed(u)
      BY <3>2, <3>4, <3>6, <2>12 DEF Typed, Nodes
    <3>8. SameLinks(r, u) /\ SameValues(r, u) /\ SameColors(r, u)
      BY <3>2, <3>6, <3>7, <2>12 DEF SameLinks, SameValues, SameColors, Color
    <3>9. Shaped(u) /\ SameValues(t, u)
      BY <3>8, <2>12, SameShape DEF SameValues
    <3>10. Poised(u, H2, p, side)
      <4>1. \A n \in N : /\ (EvenAt(r, H2, n) => EvenAt(u, H2, n))
        BY <3>6 DEF EvenAt, Unit, Color
      <4>2. \A n \in N : CalmAt(r, n, LEAF) => CalmAt(u, n, LEAF)
        BY <3>6 DEF CalmAt, Color
      <4>3. BlackTop(r) => BlackTop(u)
        BY <3>6, <3>7, <2>12 DEF BlackTop, Color, Parent
      <4>4. Light(r, H2, p, side) => Light(u, H2, p, side)
        BY <4>1, <4>2, <4>3, <3>6, <3>7, <2>12, SMTT(30) DEF Light, Heights, Unit, Color
      <4>5. Stuck(r, p, side) => Stuck(u, p, side)
        BY <3>6, Zenon DEF Stuck, Color
      <4> QED BY <4>4, <4>5, <2>22, <3>6 DEF Poised, Color
    <3> QED BY <3>3, <3>6, <3>9, <3>10
  <2> QED BY <2>23, <2>24
<1> QED BY <1>5, <1>6

\* Poised, with a red child on the far side of the sibling.
FarRed(t, H, p, side) ==
  /\ Light(t, H, p, side) /\ Color(t, t.node[p][Other(side)]) = Black
  /\ t.node[t.node[p][Other(side)]][Other(side)] \in Nodes(t)
  /\ Color(t, t.node[t.node[p][Other(side)]][Other(side)]) = Red

\* Straightening the sibling makes it so, unless p is red and the sibling is all black.
LEMMA StraightenFar ==
  ASSUME CompareOrder, NEW t, Shaped(t), NEW H, NEW p, NEW side, Poised(t, H, p, side),
         NEW s, s = t.node[p][Other(side)], \E x \in Side : Color(t, t.node[s][x]) = Red,
         NEW u, u = StraightenSibling(t, p, side)
  PROVE  Shaped(u) /\ SameValues(t, u) /\ u.root = t.root /\ \E H2 : FarRed(u, H2, p, side)
<1> DEFINE N == Nodes(t)
           away == Other(side)
           near == t.node[s][side]
           far == t.node[s][away]
           c == t.node[p][side]
           inner == t.node[near][away]
           outer == t.node[near][side]
           t1 == Paint(t, s, Red)
           t2 == Paint(t1, near, Black)
           r == Rotate(t2, s, away)
           H2 == [H EXCEPT ![near] = H[s], ![s] = H[near]]
<1>1. /\ p \in N /\ side \in Side /\ H \in [N \cup {LEAF} -> Nat] /\ H[LEAF] = 0
      /\ \A n \in N \ {p} : EvenAt(t, H, n)
      /\ H[p] = H[s] + Unit(t, p) /\ H[s] = H[c] + 1 /\ Color(t, c) = Black
      /\ BlackTop(t) /\ \A n \in N : CalmAt(t, n, LEAF) /\ Color(t, s) = Black /\ Light(t, H, p, side)
  BY DEF Light, Heights, Poised
<1>2. /\ s \in N /\ s # p /\ s # c /\ Parent(t, s) = p /\ away \in Side
      /\ c \in N \cup {LEAF} /\ H[c] \in Nat /\ H[s] \in Nat /\ Other(away) = side
  BY <1>1, LightSibling, Sides
<1>3. Typed(t) /\ LEAF \notin N /\ NULL \notin N
  BY Keys DEF Shaped, Shape, Hangs, Typed
<1>4. /\ \A n \in N \cup {LEAF} : Color(t, n) \in {Red, Black}
      /\ Color(t, LEAF) = Black /\ Red # Black
  BY <1>3, ColorType
<1>5. near \in N \cup {LEAF} /\ far \in N \cup {LEAF}
  BY <1>1, <1>2, ShapedAround
<1>6. u = IF Color(t, s) = Black /\ Color(t, near) = Red /\ Color(t, far) = Black THEN r ELSE t
  BY DEF StraightenSibling
<1>7. Color(t, near) = Red \/ Color(t, far) = Red
  BY <1>1, Sides
<1> HIDE DEF near, far, c, away
<1>8. CASE Color(t, far) = Red
  <2>1. u = t
    BY <1>4, <1>6, <1>8
  <2>2. far \in N
    BY <1>4, <1>5, <1>8
  <2>3. FarRed(t, H, p, side)
    BY <2>2, <1>1, <1>8 DEF FarRed, far, away
  <2> QED BY <2>1, <2>3 DEF SameValues
<1>9. CASE Color(t, far) # Red
  <2>1. Color(t, far) = Black /\ Color(t, near) = Red /\ near \in N
    BY <1>4, <1>5, <1>7, <1>9
  <2>2. u = r
    BY <2>1, <1>1, <1>6
  <2>3. Unit(t, near) = 0 /\ Unit(t, s) = 1 /\ CalmAt(t, near, LEAF)
    BY <2>1, <1>1, <1>4 DEF Unit
  <2>4. near # p /\ near # s
    <3>1. near # s
      BY <1>1, <1>2, ShapedAround DEF near
    <3>2. Parent(t, near) = s
      BY <2>1, <1>1, <1>2, ShapedAround DEF near
    <3>3. ASSUME near = p PROVE FALSE
      <4>1. PICK top, sub : Hangs(t, top, sub)
        BY DEF Shaped, Shape
      <4>2. sub[p] = {p} \cup sub[t.node[p][side]] \cup sub[t.node[p][Other(side)]] /\ s \in sub[s]
            /\ Parent(t, p) \notin sub[p]
        BY <4>1, <3>2, <3>3, <1>1, <1>2, <1>3, Subtrees
      <4> QED BY <4>2, <3>2, <3>3
    <3> QED BY <3>1, <3>3
  <2>5. inner \in N \cup {LEAF} /\ outer \in N \cup {LEAF}
    BY <2>1, <1>1, <1>2, ShapedAround
  <2>6. /\ H[s] = H[near] + 1 /\ H[s] = H[far] + 1 /\ H[near] = H[inner] /\ H[near] = H[outer]
        /\ H[near] \in Nat /\ H[far] \in Nat /\ H[inner] \in Nat /\ H[outer] \in Nat
    <3>1. EvenAt(t, H, s) /\ EvenAt(t, H, near)
      BY <2>1, <2>4, <1>1, <1>2, SMTT(30)
    <3>2. H[s] = H[near] + 1 /\ H[s] = H[far] + 1 /\ H[near] = H[inner] + 0 /\ H[near] = H[outer] + 0
      BY <2>3, <3>1, <1>1, <1>2, ZenonT(30) DEF EvenAt, near, far
    <3>3. H[near] \in Nat /\ H[far] \in Nat /\ H[inner] \in Nat /\ H[outer] \in Nat
      BY <2>1, <2>5, <1>1, <1>5
    <3> QED BY <3>2, <3>3
  <2>7. Color(t, inner) = Black /\ Color(t, outer) = Black
    BY <2>1, <2>3, <1>1, <1>2, <1>4 DEF CalmAt
  <2>8. Painted(t, t1, s, Red)
    BY <1>2, <1>3, PaintNode
  <2>9. Typed(t1) /\ Nodes(t1) = N
    BY <2>8 DEF Painted, SameLinks
  <2>10. Painted(t1, t2, near, Black)
    BY <2>1, <2>9, PaintNode
  <2> HIDE DEF t1, t2, H2, inner, outer
  <2>11. /\ SameLinks(t, t2) /\ SameValues(t, t2) /\ t2.root = t.root
         /\ \A m \in N \cup {LEAF} : Color(t2, m) = IF m = near THEN Black ELSE IF m = s THEN Red ELSE Color(t, m)
    BY <2>8, <2>9, <2>10 DEF Painted, SameLinks, SameValues
  <2>12. Turned(t, t2, r, s, away, near, inner)
    <3>1. near # LEAF /\ near = t.node[s][Other(away)] /\ inner = t.node[near][away]
      BY <2>1, <1>2, <1>3 DEF near, inner
    <3> QED BY <3>1, <2>11, <1>2, PaintedTurn
  <2> HIDE DEF r
  <2>13. /\ Shaped(r) /\ Nodes(r) = N /\ SameValues(t, r) /\ SameColors(t2, r) /\ r.root = t.root
         /\ inner # s /\ inner # near /\ r.node[s][away] = far /\ r.node[s][side] = inner
         /\ r.node[near][away] = s /\ r.node[near][side] = outer
         /\ far \in (N \cup {LEAF}) \ {s, near} /\ outer \in (N \cup {LEAF}) \ {s, near}
         /\ \A m \in N \ {s, near}, x \in Side : r.node[m][x] = IF t.node[m][x] = s THEN near ELSE t.node[m][x]
    <3>1. /\ Shaped(r) /\ Nodes(r) = N /\ SameValues(t, r) /\ SameColors(t2, r) /\ r.root = t.root
          /\ inner # s /\ inner # near /\ r.node[s][away] = t.node[s][away] /\ r.node[s][Other(away)] = inner
          /\ r.node[near][away] = s /\ r.node[near][Other(away)] = t.node[near][Other(away)]
          /\ t.node[s][away] \in (N \cup {LEAF}) \ {s, near} /\ t.node[near][Other(away)] \in (N \cup {LEAF}) \ {s, near}
          /\ \A m \in N \ {s, near}, x \in Side : r.node[m][x] = IF t.node[m][x] = s THEN near ELSE t.node[m][x]
      BY <2>12 DEF Turned
    <3>2. t.node[s][away] = far /\ t.node[near][side] = outer
      BY DEF far, outer
    <3> QED BY <3>1, <3>2, <1>2
  <2>14. \A m \in N \cup {LEAF} : Color(r, m) = IF m = near THEN Black ELSE IF m = s THEN Red ELSE Color(t, m)
    BY <2>11, <2>13 DEF SameColors, SameLinks
  <2>15. /\ H2 \in [N \cup {LEAF} -> Nat] /\ H2[near] = H[s] /\ H2[s] = H[near]
         /\ \A m \in N \cup {LEAF} : m \notin {s, near} => H2[m] = H[m]
    BY <2>1, <2>4, <1>1, <1>2 DEF H2
  <2>16. outer = t.node[near][Other(away)]
    BY <1>2 DEF outer
  <2>17. Kept(t, r, H, H2, s, near, outer)
    BY <2>1, <2>14, <2>15, <1>1, <1>2, <1>3 DEF Kept
  <2>18. BlackTop(r)
    BY <2>12, <2>16, <2>17, <1>1, <1>2, TurnedTop, Zenon
  <2>19. \A m \in N \ {s, near}, x \in Side : /\ H2[r.node[m][x]] = H[t.node[m][x]]
                                              /\ Color(r, r.node[m][x]) = Color(t, t.node[m][x])
    <3>1. Undisturbed(t, r, H, H2, s, near, outer)
      BY <2>12, <2>16, <2>17, <1>2, Elsewhere, Zenon
    <3> QED BY <3>1 DEF Undisturbed
  <2>20. ASSUME NEW m \in N \ {s, near}, m # p PROVE EvenAt(r, H2, m)
    <3>1. EvenAt(t, H, m) /\ H2[m] = H[m] /\ Unit(r, m) = Unit(t, m)
      BY <2>14, <2>15, <2>20, <1>1 DEF Unit
    <3> QED BY <3>1, <2>19 DEF EvenAt
  <2>21. ASSUME NEW m \in N \ {s, near} PROVE CalmAt(r, m, LEAF)
    <3>1. CalmAt(t, m, LEAF) /\ Color(r, m) = Color(t, m)
      BY <2>14, <1>1
    <3>2. Color(t, m) = Red => \A x \in Side : Color(t, t.node[m][x]) = Black
      BY <3>1, <1>4 DEF CalmAt
    <3> QED BY <3>1, <3>2, <2>19 DEF CalmAt
  <2>22. EvenAt(r, H2, near) /\ CalmAt(r, near, LEAF)
    <3>1. Color(r, near) = Black /\ Unit(r, near) = 1
      BY <2>1, <2>14 DEF Unit
    <3>2. H2[near] = H2[s] + 1 /\ H2[near] = H2[outer] + 1
      BY <2>6, <2>13, <2>15
    <3>3. \A x \in Side : H2[near] = H2[r.node[near][x]] + 1
      BY <3>2, <2>13, <1>1, Sides DEF away
    <3> QED BY <3>1, <3>3, <1>4 DEF EvenAt, CalmAt
  <2>23. EvenAt(r, H2, s) /\ CalmAt(r, s, LEAF)
    <3>1. Color(r, s) = Red /\ Unit(r, s) = 0
      BY <2>4, <2>14, <1>2, <1>4 DEF Unit
    <3>2. H2[s] = H2[far] + 0 /\ H2[s] = H2[inner] + 0
      <4>1. H2[far] = H[far] /\ H2[inner] = H[inner]
        BY <2>5, <2>13, <2>15, <1>5
      <4> QED BY <4>1, <2>6, <2>15
    <3>3. Color(r, far) = Black /\ Color(r, inner) = Black
      BY <2>1, <2>5, <2>7, <2>13, <2>14
    <3>4. \A x \in Side : H2[s] = H2[r.node[s][x]] + 0 /\ Color(r, r.node[s][x]) = Black
      BY <3>2, <3>3, <2>13, <1>1, Sides DEF away
    <3> QED BY <3>1, <3>4 DEF EvenAt, CalmAt
  <2>24. r.node[p][side] = c /\ r.node[p][away] = near
    BY <2>4, <2>13, <1>1, <1>2 DEF c, away
  <2>25. c \notin {s, near}
    <3>1. c # near
      BY <2>1, <2>4, <1>1, <1>2, <1>3, OneParent DEF c, near
    <3> QED BY <3>1, <1>2
  <2>26. FarRed(r, H2, p, side)
    <3>1. Color(r, c) = Black /\ H2[c] = H[c] /\ H2[p] = H[p] /\ Unit(r, p) = Unit(t, p)
      BY <2>4, <2>14, <2>15, <2>25, <1>1, <1>2 DEF Unit
    <3>2. Heights(r, H2)
      BY <2>1, <2>13, <2>15, <1>1, <1>2, <1>3 DEF Heights
    <3>3. Light(r, H2, p, side)
      BY <3>1, <3>2, <2>13, <2>15, <2>18, <2>20, <2>21, <2>22, <2>23, <2>24, <1>1 DEF Light, away
    <3>4. Color(r, near) = Black /\ Color(r, s) = Red
      BY <2>1, <2>4, <2>14, <1>2
    <3> QED BY <3>3, <3>4, <2>13, <2>24, <1>2 DEF FarRed, away
  <2> QED BY <2>2, <2>13, <2>26
<1> QED BY <1>8, <1>9

\* The rotation that ends the repair.
LEMMA RotateMends ==
  ASSUME CompareOrder, NEW t, Shaped(t), NEW H, NEW p, NEW side, FarRed(t, H, p, side)
  PROVE  Mended(t, RotateOverParent(t, p, side))
<1> DEFINE N == Nodes(t)
           s == t.node[p][Other(side)]
           c == t.node[p][side]
           inner == t.node[s][side]
           far == t.node[s][Other(side)]
           t1 == Paint(t, s, Color(t, p))
           t2 == Paint(t1, p, Black)
           t3 == Paint(t2, far, Black)
           r == Rotate(t3, p, side)
           u == RootIfTop(r, Parent(r, p))
           H2 == [H EXCEPT ![p] = H[c] + 1, ![s] = H[p], ![far] = H[far] + 1]
<1>1. /\ p \in N /\ side \in Side /\ H \in [N \cup {LEAF} -> Nat] /\ H[LEAF] = 0
      /\ \A n \in N \ {p} : EvenAt(t, H, n)
      /\ H[p] = H[s] + Unit(t, p) /\ H[s] = H[c] + 1 /\ Color(t, c) = Black
      /\ BlackTop(t) /\ \A n \in N : CalmAt(t, n, LEAF)
      /\ Color(t, s) = Black /\ far \in N /\ Color(t, far) = Red /\ Light(t, H, p, side)
  BY DEF Light, Heights, FarRed
<1>2. /\ s \in N /\ s # p /\ s # c /\ Parent(t, s) = p /\ Other(side) \in Side
      /\ c \in N \cup {LEAF} /\ H[c] \in Nat /\ H[s] \in Nat
  BY <1>1, LightSibling
<1>3. Typed(t) /\ LEAF \notin N /\ NULL \notin N
  BY Keys DEF Shaped, Shape, Hangs, Typed
<1>4. /\ \A n \in N \cup {LEAF} : Color(t, n) \in {Red, Black}
      /\ Color(t, LEAF) = Black /\ Red # Black
  BY <1>3, ColorType
<1>5. RotateOverParent(t, p, side) = u
  BY DEF RotateOverParent
<1>6. inner \in N \cup {LEAF}
  BY <1>1, <1>2, ShapedAround
<1>7. Unit(t, s) = 1 /\ Unit(t, far) = 0
  BY <1>1, <1>4 DEF Unit
<1>8. far # s
  BY <1>1, <1>2, ShapedAround
<1>9. /\ H[s] = H[inner] + 1 /\ H[s] = H[far] + 1 /\ H[inner] \in Nat /\ H[far] \in Nat /\ H[p] \in Nat
  <2>1. EvenAt(t, H, s)
    BY <1>1, <1>2
  <2>2. H[s] = H[inner] + 1 /\ H[s] = H[far] + 1
    BY <2>1, <1>1, <1>2, <1>7 DEF EvenAt
  <2> QED BY <2>2, <1>1, <1>6
<1> HIDE DEF s, c, inner, far
<1>10. Painted(t, t1, s, Color(t, p))
  BY <1>1, <1>2, <1>3, <1>4, PaintNode
<1>11. Typed(t1) /\ Nodes(t1) = N
  BY <1>10 DEF Painted, SameLinks
<1>12. Painted(t1, t2, p, Black)
  BY <1>1, <1>11, PaintNode
<1>13. Typed(t2) /\ Nodes(t2) = N
  BY <1>11, <1>12 DEF Painted, SameLinks
<1>14. Painted(t2, t3, far, Black)
  BY <1>1, <1>13, PaintNode
<1> HIDE DEF t1, t2, t3, H2
<1>15. /\ SameLinks(t, t3) /\ SameValues(t, t3) /\ t3.root = t.root
       /\ \A m \in N \cup {LEAF} : Color(t3, m) = IF m = far THEN Black ELSE IF m = p THEN Black
                                                  ELSE IF m = s THEN Color(t, p) ELSE Color(t, m)
  <2>1. SameLinks(t, t3) /\ SameValues(t, t3) /\ t3.root = t.root
    BY <1>10, <1>11, <1>12, <1>13, <1>14 DEF Painted, SameLinks, SameValues
  <2> QED BY <2>1, <1>10, <1>11, <1>12, <1>13, <1>14 DEF Painted
<1>16. Turned(t, t3, r, p, side, s, inner)
  <2>1. s # LEAF /\ s = t.node[p][Other(side)] /\ inner = t.node[s][side]
    BY <1>2, <1>3 DEF s, inner
  <2> QED BY <2>1, <1>15, <1>1, PaintedTurn
<1> HIDE DEF r
<1>17. /\ Shaped(r) /\ Nodes(r) = N /\ SameValues(t, r) /\ SameColors(t3, r) /\ r.root = t.root
       /\ inner # p /\ inner # s /\ r.node[p][side] = c /\ r.node[p][Other(side)] = inner
       /\ r.node[s][side] = p /\ r.node[s][Other(side)] = far /\ Parent(r, p) = s
       /\ c \in (N \cup {LEAF}) \ {p, s} /\ far \in (N \cup {LEAF}) \ {p, s}
  BY <1>16 DEF Turned, s, c, inner, far
<1>18. \A m \in N \cup {LEAF} : Color(r, m) = IF m = far THEN Black ELSE IF m = p THEN Black
                                              ELSE IF m = s THEN Color(t, p) ELSE Color(t, m)
  BY <1>15, <1>17 DEF SameColors, SameLinks
<1>19. /\ H2 \in [N \cup {LEAF} -> Nat] /\ H2[p] = H[c] + 1 /\ H2[s] = H[p] /\ H2[far] = H[far] + 1
       /\ \A m \in N \cup {LEAF} : m \notin {p, s, far} => H2[m] = H[m]
  BY <1>1, <1>2, <1>9, <1>17 DEF H2
<1>20. far = t.node[s][Other(side)]
  BY DEF far
<1>21. Kept(t, r, H, H2, p, s, far)
  <2>1. p \in N \cup {LEAF} /\ s \in N \cup {LEAF} /\ LEAF \notin {p, s, far}
    BY <1>1, <1>2, <1>3
  <2>2. H2[s] = H[p] /\ Color(r, s) = Color(t, p)
    BY <2>1, <1>2, <1>17, <1>18, <1>19
  <2>3. ASSUME NEW x \in N \cup {LEAF}, x = LEAF \/ x \notin {p, s, far} PROVE H2[x] = H[x] /\ Color(r, x) = Color(t, x)
    <3>1. x \notin {p, s, far}
      BY <2>1, <2>3
    <3> QED BY <3>1, <1>18, <1>19
  <2> QED BY <2>2, <2>3 DEF Kept
<1>22. BlackTop(r)
  BY <1>1, <1>16, <1>20, <1>21, TurnedTop, Zenon
<1>23. Undisturbed(t, r, H, H2, p, s, far)
  BY <1>1, <1>16, <1>20, <1>21, Elsewhere, Zenon
<1>24. \A m \in N \ {p, s} : m # far => EvenAt(r, H2, m) /\ CalmAt(r, m, LEAF)
  BY <1>23, <1>1 DEF Undisturbed
<1>25. EvenAt(r, H2, far) /\ CalmAt(r, far, LEAF)
  <2>1. far \in N \ {p, s} /\ Color(r, far) = Black /\ Unit(r, far) = 1 /\ H2[far] = H[far] + 1
    BY <1>1, <1>17, <1>18, <1>19 DEF Unit
  <2>2. \A x \in Side : H2[r.node[far][x]] = H[t.node[far][x]]
    BY <2>1, <1>23 DEF Undisturbed
  <2>3. \A x \in Side : H[far] = H[t.node[far][x]] + 0
    BY <2>1, <1>1, <1>7 DEF EvenAt
  <2>4. \A x \in Side : t.node[far][x] \in N \cup {LEAF}
    BY <1>1, ShapedAround
  <2>5. \A x \in Side : H[t.node[far][x]] \in Nat
    BY <2>4, <1>1
  <2>6. \A x \in Side : H2[far] = H2[r.node[far][x]] + 1
    BY <2>1, <2>2, <2>3, <2>5
  <2> QED BY <2>1, <2>6, <1>4 DEF EvenAt, CalmAt
<1>26. c # far /\ inner # far
  <2>1. far # inner
    BY <1>1, <1>2, <1>3, ShapedAround DEF far, inner
  <2>2. Parent(t, far) = s
    BY <1>1, <1>2, ShapedAround, Sides DEF far
  <2>3. c \in N => Parent(t, c) = p
    BY <1>1, ShapedAround DEF c
  <2> QED BY <2>1, <2>2, <2>3, <1>1, <1>2
<1>27. H2[c] = H[c] /\ H2[inner] = H[inner] /\ Color(r, c) = Black
  BY <1>1, <1>2, <1>6, <1>17, <1>18, <1>19, <1>26
<1>28. EvenAt(r, H2, p) /\ CalmAt(r, p, LEAF)
  <2>1. Color(r, p) = Black /\ Unit(r, p) = 1
    BY <1>1, <1>18 DEF Unit
  <2>2. H2[p] = H2[c] + 1 /\ H2[p] = H2[inner] + 1
    BY <1>1, <1>2, <1>9, <1>19, <1>27
  <2>3. \A x \in Side : H2[p] = H2[r.node[p][x]] + 1
    BY <2>2, <1>1, <1>17, Sides
  <2> QED BY <2>1, <2>3, <1>4 DEF EvenAt, CalmAt
<1>29. EvenAt(r, H2, s) /\ CalmAt(r, s, LEAF)
  <2>1. Color(r, s) = Color(t, p) /\ Unit(r, s) = Unit(t, p) /\ Unit(t, p) \in Nat
    BY <1>2, <1>17, <1>18 DEF Unit
  <2>2. H2[s] = H2[p] + Unit(r, s) /\ H2[s] = H2[far] + Unit(r, s)
    BY <2>1, <1>1, <1>2, <1>9, <1>19
  <2>3. \A x \in Side : H2[s] = H2[r.node[s][x]] + Unit(r, s)
    BY <2>2, <1>1, <1>17, Sides
  <2>4. \A x \in Side : Color(r, r.node[s][x]) = Black
    BY <1>1, <1>17, <1>18, Sides
  <2> QED BY <2>3, <2>4 DEF EvenAt, CalmAt
<1>30. Balanced(r, H2)
  <2>1. Heights(r, H2)
    <3>1. LEAF \notin {p, s, far}
      BY <1>1, <1>2, <1>3
    <3> QED BY <3>1, <1>1, <1>17, <1>19 DEF Heights
  <2>2. \A m \in N : EvenAt(r, H2, m) /\ CalmAt(r, m, LEAF)
    BY <1>24, <1>25, <1>28, <1>29
  <2> QED BY <2>1, <2>2, <1>17, <1>22 DEF Balanced, Even
<1>31. Typed(r) /\ s \in Nodes(r) /\ u = RootIfTop(r, s)
  BY <1>2, <1>17 DEF Shaped, Shape, Hangs
<1> HIDE DEF u
<1>32. SameLinks(r, u) /\ SameValues(r, u) /\ SameColors(r, u) /\ u.root \in {r.root, s}
  BY <1>31, RootNode
<1>33. Balanced(u, H2) /\ Shaped(u)
  BY <1>17, <1>30, <1>32, SameBalance, SameShape
<1>34. SameValues(t, u) /\ u.root \in N \cup {t.root}
  BY <1>2, <1>17, <1>32 DEF SameValues
<1> QED BY <1>5, <1>33, <1>34 DEF Mended

\* A red parent makes up for the light node, when the sibling can turn red.
LEMMA BlackenParent ==
  ASSUME NEW t, Shaped(t), NEW H, NEW p, NEW side, Light(t, H, p, side), Color(t, p) = Red,
         NEW s, s = t.node[p][Other(side)], \A x \in Side : Color(t, t.node[s][x]) = Black
  PROVE  Mended(t, Paint(Paint(t, s, Red), p, Black))
<1> DEFINE N == Nodes(t)
           c == t.node[p][side]
           t1 == Paint(t, s, Red)
           u == Paint(t1, p, Black)
           H2 == [H EXCEPT ![s] = H[c]]
<1>1. /\ p \in N /\ side \in Side /\ H \in [N \cup {LEAF} -> Nat] /\ H[LEAF] = 0
      /\ \A n \in N \ {p} : EvenAt(t, H, n)
      /\ H[p] = H[s] + Unit(t, p) /\ H[s] = H[c] + 1 /\ Color(t, c) = Black
      /\ BlackTop(t) /\ \A n \in N : CalmAt(t, n, LEAF)
  BY DEF Light, Heights
<1>2. /\ s \in N /\ s # p /\ s # c /\ Parent(t, s) = p /\ Other(side) \in Side
      /\ c \in N \cup {LEAF} /\ H[c] \in Nat /\ H[s] \in Nat
  BY LightSibling
<1>3. Typed(t) /\ LEAF \notin N /\ NULL \notin N
  BY Keys DEF Shaped, Shape, Hangs, Typed
<1>4. /\ \A n \in N \cup {LEAF} : Color(t, n) \in {Red, Black}
      /\ Color(t, LEAF) = Black /\ Red # Black
  BY <1>3, ColorType
<1>5. Color(t, s) = Black
  BY <1>1, <1>2, <1>3 DEF CalmAt
<1> HIDE DEF c
<1>6. Painted(t, t1, s, Red)
  BY <1>2, <1>3, PaintNode
<1>7. Typed(t1) /\ Nodes(t1) = N
  BY <1>6 DEF Painted, SameLinks
<1>8. Painted(t1, u, p, Black)
  BY <1>1, <1>7, PaintNode
<1> HIDE DEF t1, u, H2
<1>9. /\ SameLinks(t, u) /\ SameValues(t, u) /\ u.root = t.root
      /\ \A m \in N \cup {LEAF} : Color(u, m) = IF m = p THEN Black ELSE IF m = s THEN Red ELSE Color(t, m)
  BY <1>6, <1>7, <1>8 DEF Painted, SameLinks, SameValues
<1>10. Shaped(u) /\ Nodes(u) = N /\ \A m \in N, x \in Side : u.node[m][x] = t.node[m][x]
  BY <1>9, SameShape, Sides DEF SameLinks
<1>11. H2 \in [N \cup {LEAF} -> Nat] /\ H2[s] = H[c] /\ \A m \in (N \cup {LEAF}) \ {s} : H2[m] = H[m]
  BY <1>1, <1>2 DEF H2
<1>12. \A m \in N, x \in Side : /\ t.node[m][x] \in N \cup {LEAF}
                                /\ t.node[m][x] = s => m = p
                                /\ t.node[m][x] # p \/ m # p
  BY <1>2, <1>3, ShapedAround
<1>13. ASSUME NEW m \in N, m # p, m # s
       PROVE  EvenAt(u, H2, m) /\ CalmAt(u, m, LEAF)
  <2>1. Unit(u, m) = Unit(t, m) /\ H2[m] = H[m] /\ Color(u, m) = Color(t, m)
    BY <1>9, <1>11, <1>13 DEF Unit
  <2>2. \A x \in Side : u.node[m][x] = t.node[m][x] /\ H2[t.node[m][x]] = H[t.node[m][x]]
    BY <1>10, <1>11, <1>12, <1>13
  <2>3. EvenAt(t, H, m) /\ CalmAt(t, m, LEAF)
    BY <1>1, <1>13
  <2>4. EvenAt(u, H2, m)
    BY <2>1, <2>2, <2>3 DEF EvenAt
  <2>5. \A x \in Side : Color(t, t.node[m][x]) = Black => Color(u, t.node[m][x]) = Black
    BY <1>9, <1>12, <1>13
  <2>6. Color(t, m) = Red => \A x \in Side : Color(t, t.node[m][x]) = Black
    BY <2>3, <1>4 DEF CalmAt
  <2> QED BY <2>1, <2>2, <2>4, <2>5, <2>6 DEF CalmAt
<1>14. EvenAt(u, H2, p) /\ CalmAt(u, p, LEAF)
  <2>1. Color(u, p) = Black /\ Unit(u, p) = 1 /\ H2[p] = H[p] /\ H2[c] = H[c] /\ H2[s] = H[c] /\ Unit(t, p) = 0
    BY <1>1, <1>2, <1>4, <1>9, <1>11 DEF Unit
  <2>2. H2[p] = H2[c] + 1 /\ H2[p] = H2[s] + 1
    BY <2>1, <1>1, <1>2
  <2>3. u.node[p][side] = c /\ u.node[p][Other(side)] = s
    BY <1>1, <1>2, <1>10 DEF c
  <2>4. \A x \in Side : H2[p] = H2[u.node[p][x]] + 1
    BY <2>2, <2>3, <1>1, Sides
  <2> QED BY <2>1, <2>4, <1>4 DEF EvenAt, CalmAt
<1>15. EvenAt(u, H2, s) /\ CalmAt(u, s, LEAF)
  <2>1. Unit(u, s) = 0 /\ Unit(t, s) = 1
    BY <1>2, <1>4, <1>5, <1>9 DEF Unit
  <2>2. \A x \in Side : /\ u.node[s][x] = t.node[s][x] /\ t.node[s][x] \in N \cup {LEAF} /\ t.node[s][x] # s
                        /\ H[s] = H[t.node[s][x]] + 1
    BY <2>1, <1>1, <1>2, <1>10, ShapedAround DEF EvenAt
  <2>3. \A x \in Side : H2[u.node[s][x]] = H[t.node[s][x]] /\ H[t.node[s][x]] \in Nat
    BY <2>2, <1>1, <1>11
  <2>4. \A x \in Side : H2[s] = H2[u.node[s][x]] + 0
    <3> TAKE x \in Side
    <3>1. H[s] = H[c] + 1 /\ H2[s] = H[c] /\ H[c] \in Nat
      BY <1>1, <1>2, <1>11
    <3>2. H[s] = H[t.node[s][x]] + 1 /\ H2[u.node[s][x]] = H[t.node[s][x]] /\ H[t.node[s][x]] \in Nat
      BY <2>2, <2>3
    <3> QED BY <3>1, <3>2
  <2>5. \A x \in Side : Color(u, u.node[s][x]) = Black
    BY <2>2, <1>9
  <2> QED BY <2>1, <2>4, <2>5 DEF EvenAt, CalmAt
<1>16. BlackTop(u)
  <2>1. \A m \in N : Parent(u, m) = Parent(t, m)
    BY <1>9 DEF SameLinks, Parent, Link
  <2>2. p # NULL
    BY <1>1, <1>3
  <2> QED BY <2>1, <2>2, <1>1, <1>2, <1>9, <1>10 DEF BlackTop
<1>17. Balanced(u, H2)
  <2>1. Heights(u, H2)
    BY <1>1, <1>2, <1>3, <1>10, <1>11 DEF Heights
  <2>2. \A m \in N : EvenAt(u, H2, m) /\ CalmAt(u, m, LEAF)
    BY <1>13, <1>14, <1>15
  <2> QED BY <2>1, <2>2, <1>10, <1>16 DEF Balanced, Even
<1> QED BY <1>9, <1>10, <1>17 DEF Mended, u, t1

-----------------------------------------------------------------------------
(* Deletion: the repair.                                                   *)

\* The repair after a deletion restores the balance.
LEMMA EraseRepairMends ==
  ASSUME CompareOrder, NEW t, Shaped(t), NEW H, NEW p, NEW side, Light(t, H, p, side), NEW c, c = t.node[p][side]
  PROVE  Mended(t, RepairAfterErase(t, c, p))
<1> DEFINE m == MoveUp(t, c, p)
           t1 == RaiseRedSibling(m.t, m.p, m.side)
           s  == t1.node[m.p][Other(m.side)]
           t2 == StraightenSibling(t1, m.p, m.side)
           u == RepairAfterErase(t, c, p)
<1>1. u = IF m.p = NULL THEN m.t
          ELSE IF /\ Color(t1, m.p) = Red
                  /\ {Color(t1, s), Color(t1, t1.node[s].left), Color(t1, t1.node[s].right)} = {Black}
          THEN Paint(Paint(t1, s, Red), m.p, Black)
          ELSE RotateOverParent(t2, m.p, m.side)
  BY DEF RepairAfterErase
<1> HIDE DEF m, u
<1>2. /\ Shaped(m.t) /\ SameValues(t, m.t) /\ m.t.root = t.root
      /\ m.p = NULL => \E H2 : Balanced(m.t, H2)
      /\ m.p # NULL => \E H2 : Light(m.t, H2, m.p, m.side) /\ Stuck(m.t, m.p, m.side)
  BY MoveUpLight DEF m
<1>3. CASE m.p = NULL
  BY <1>1, <1>2, <1>3 DEF Mended, u
<1>4. CASE m.p # NULL
  <2>1. PICK H2 : Light(m.t, H2, m.p, m.side) /\ Stuck(m.t, m.p, m.side)
    BY <1>2, <1>4
  <2>2. /\ Shaped(t1) /\ SameValues(m.t, t1) /\ t1.root \in Nodes(m.t) \cup {m.t.root}
        /\ \E H3 : Poised(t1, H3, m.p, m.side)
    BY <2>1, <1>2, RaiseRedPoised
  <2>3. PICK H3 : Poised(t1, H3, m.p, m.side)
    BY <2>2
  <2> HIDE DEF t1, t2
  <2>4. SameValues(t, t1) /\ t1.root \in Nodes(t) \cup {t.root} /\ Nodes(t1) = Nodes(t)
    BY <2>2, <1>2 DEF SameValues
  <2>5. Color(t1, s) = Black /\ Light(t1, H3, m.p, m.side) /\ Stuck(t1, m.p, m.side)
    BY <2>3 DEF Poised
  <2>6. s \in Nodes(t1) /\ m.p \in Nodes(t1)
    BY <2>2, <2>5, LightSibling DEF Light
  <2>7. Typed(t1) /\ \A x \in Side : t1.node[s][x] \in Nodes(t1) \cup {LEAF}
    BY <2>2, <2>6, ShapedAround DEF Shaped, Shape, Hangs
  <2>8. Red # Black /\ \A n \in Nodes(t1) \cup {LEAF} : Color(t1, n) \in {Red, Black}
    BY <2>7, ColorType
  <2>9. CASE \A x \in Side : Color(t1, t1.node[s][x]) = Black
    <3>1. Color(t1, m.p) = Red
      BY <2>5, <2>6, <2>8, <2>9 DEF Stuck
    <3>2. Color(t1, t1.node[s].left) = Black /\ Color(t1, t1.node[s].right) = Black
      BY <2>9, Sides
    <3>3. u = Paint(Paint(t1, s, Red), m.p, Black)
      BY <3>1, <3>2, <2>5, <1>1, <1>4
    <3>4. Mended(t1, u)
      BY <3>1, <3>3, <2>2, <2>5, <2>9, BlackenParent
    <3> QED BY <3>4, <2>4 DEF Mended, SameValues, u
  <2>10. CASE \E x \in Side : Color(t1, t1.node[s][x]) # Black
    <3>1. \E x \in Side : Color(t1, t1.node[s][x]) = Red
      BY <2>7, <2>8, <2>10
    <3>2. Color(t1, t1.node[s].left) # Black \/ Color(t1, t1.node[s].right) # Black
      BY <2>10, Sides, SMTT(30)
    <3>3. u = RotateOverParent(t2, m.p, m.side)
      BY <3>2, <1>1, <1>4, Zenon
    <3>4. Shaped(t2) /\ SameValues(t1, t2) /\ t2.root = t1.root /\ \E H4 : FarRed(t2, H4, m.p, m.side)
      BY <3>1, <2>2, <2>3, StraightenFar DEF t2
    <3>5. Mended(t2, u)
      BY <3>3, <3>4, RotateMends
    <3> QED BY <3>4, <3>5, <2>4 DEF Mended, SameValues, u
  <2> QED BY <2>9, <2>10
<1> QED BY <1>3, <1>4

-----------------------------------------------------------------------------
(* Deletion: the node leaves the tree.                                     *)

\* The nodes of t make a tree, where P gives the parents, as t does but for the
\* node c.  (An exchange of two nodes leaves c's parent to be set.)
HangsBut(t, c, P, top, sub) ==
  /\ Typed(t) /\ \A m \in Nodes(t) : Parent(t, m) \in Nodes(t) \cup {NULL}
  /\ B!Hung(Nodes(t), Kid(t, "left"), Kid(t, "right"), P, top, sub)
  /\ \A m \in Nodes(t) \ {c} : P[m] = Up(t)[m]

\* What the links of a node other than c lead to.
Placed(t, n, p, top) ==
  /\ p = Parent(t, n) /\ p \in Nodes(t) \cup {NULL} /\ p # n /\ (p = NULL <=> n = top)
  /\ \A m \in Nodes(t), s \in Side : t.node[m][s] = n => m = p
  /\ p # NULL => /\ SideOf(t, n) \in Side /\ t.node[p][SideOf(t, n)] = n
                 /\ \A s \in Side : t.node[p][s] = n => s = SideOf(t, n)

\* What surrounds a node of such a tree.
LEMMA HangsButAround ==
  ASSUME NEW t, NEW c, NEW P, NEW top, NEW sub, HangsBut(t, c, P, top, sub), NEW n \in Nodes(t), n # c
  PROVE  Placed(t, n, Parent(t, n), top)
<1> DEFINE N == Nodes(t)
           L == Kid(t, "left")
           R == Kid(t, "right")
           p == Parent(t, n)
<1>1. /\ Typed(t) /\ p \in N \cup {NULL} /\ B!Hung(N, L, R, P, top, sub) /\ P[n] = Up(t)[n]
      /\ B!NULL = LEAF /\ LEAF \notin N /\ NULL \notin N /\ NULL # LEAF
  BY Keys DEF HangsBut, Typed
<1>2. P[n] = IF p = NULL THEN LEAF ELSE p
  BY <1>1 DEF Up
<1>3. \A m \in N : L[m] = t.node[m]["left"] /\ R[m] = t.node[m]["right"]
  BY DEF Kid
<1> HIDE DEF L, R
<1>4. (P[n] = LEAF <=> n = top) /\ \A m \in N : P[n] = m <=> n \in {L[m], R[m]}
  BY <1>1 DEF B!Hung
<1>5. P[n] # n /\ \A m \in N : L[m] # R[m] \/ L[m] = LEAF
  <2>1. P[n] \notin sub[n] /\ n \in sub[n]
    BY <1>1, B!Around
  <2>2. \A m \in N : L[m] # R[m] \/ L[m] = LEAF
    BY <1>1, B!Around
  <2> QED BY <2>1, <2>2
<1>6. ASSUME NEW m \in N, NEW s \in Side, t.node[m][s] = n PROVE m = p
  <2>1. n \in {L[m], R[m]}
    BY <1>3, <1>6 DEF Side
  <2> QED BY <2>1, <1>1, <1>2, <1>4
<1>7. ASSUME p # NULL
      PROVE  /\ SideOf(t, n) \in Side /\ t.node[p][SideOf(t, n)] = n
             /\ \A s \in Side : t.node[p][s] = n => s = SideOf(t, n)
  <2>1. p \in N /\ P[n] = p
    BY <1>1, <1>2, <1>7
  <2>2. n \in {t.node[p]["left"], t.node[p]["right"]} /\ ~(n = t.node[p]["left"] /\ n = t.node[p]["right"])
    BY <2>1, <1>1, <1>3, <1>4, <1>5
  <2>3. SideOf(t, n) = IF n = t.node[p]["left"] THEN "left" ELSE "right"
    BY DEF SideOf
  <2> HIDE DEF p
  <2> QED BY <2>2, <2>3 DEF Side
<1>8. p # n /\ (p = NULL <=> n = top)
  BY <1>1, <1>2, <1>4, <1>5
<1> QED BY <1>1, <1>6, <1>7, <1>8 DEF Placed

\* u is t without n, in whose place the child c is, which is black.
Unlinked(t, u, n, c, p) ==
  /\ Typed(u) /\ Nodes(u) = Nodes(t) \ {n}
  /\ u.root = IF p = NULL THEN (IF c = LEAF THEN NULL ELSE c) ELSE t.root
  /\ \A m \in Nodes(t) \ {n} : /\ u.node[m].value = t.node[m].value
                               /\ Parent(u, m) = IF m = c THEN p ELSE Parent(t, m)
  /\ \A m \in (Nodes(t) \ {n}) \cup {LEAF} : Color(u, m) = IF m = c THEN Black ELSE Color(t, m)
  /\ \A m \in Nodes(t) \ {n}, s \in Side : u.node[m][s] = IF t.node[m][s] = n THEN c ELSE t.node[m][s]

\* The cell of a node removed.
LEMMA WithoutNode ==
  ASSUME NEW t, Typed(t), NEW n, NEW u, u = Without(t, n)
  PROVE  /\ Typed(u) /\ Nodes(u) = Nodes(t) \ {n} /\ u.root = t.root
         /\ \A m \in Nodes(t) \ {n} : u.node[m] = t.node[m]
<1>1. t = [root |-> t.root, node |-> t.node] /\ t.node \in [Nodes(t) -> Cell]
  BY DEF Typed
<1>2. u = [root |-> t.root, node |-> [m \in Nodes(t) \ {n} |-> t.node[m]]]
  BY <1>1 DEF Without
<1>3. /\ u.root = t.root /\ u.node = [m \in Nodes(t) \ {n} |-> t.node[m]]
      /\ u = [root |-> u.root, node |-> u.node]
  BY <1>2
<1>4. Nodes(u) = Nodes(t) \ {n}
  BY <1>3 DEF Nodes
<1>5. u.node \in [Nodes(u) -> Cell] /\ \A m \in Nodes(t) \ {n} : u.node[m] = t.node[m]
  BY <1>1, <1>3, <1>4
<1>6. IsFiniteSet(Nodes(u))
  BY <1>4, FS_Subset DEF Typed
<1> QED BY <1>3, <1>4, <1>5, <1>6 DEF Typed

\* The assignments that unlink a node.
LEMMA UnlinkFields ==
  ASSUME NEW t, Typed(t), NEW n \in Nodes(t), NEW c \in Nodes(t) \cup {LEAF}, c = OnlyChild(t, n), c # n,
         NEW p, NEW top, Placed(t, n, p, top), NEW u, u = Unlink(t, n)
  PROVE  Unlinked(t, u, n, c, p)
<1> DEFINE N == Nodes(t)
           t0 == IF c = LEAF THEN t ELSE Paint(t, c, Black)
           t1 == SetParent(t0, c, p)
           t2 == IF p = NULL THEN [t1 EXCEPT !.root = IF c = LEAF THEN NULL ELSE c] ELSE Replace(t1, n, c)
<1>1. u = Without(t2, n)
  BY DEF Unlink, Placed
<1>2. /\ LEAF \notin N /\ NULL \notin N /\ NULL # LEAF /\ p \in Int /\ c \in Int /\ NULL \in Int
      /\ p \in N \cup {NULL} /\ p # n /\ Parent(t, n) = p
  BY Keys DEF Typed, Placed
<1>3. /\ SameLinks(t, t0) /\ SameValues(t, t0) /\ t0.root = t.root
      /\ \A m \in N \cup {LEAF} : Color(t0, m) = IF m = c THEN Black ELSE Color(t, m)
  <2>1. CASE c = LEAF
    BY <2>1 DEF SameLinks, SameValues, Color
  <2>2. CASE c # LEAF
    <3>1. t0 = Paint(t, c, Black) /\ c \in N
      BY <2>2
    <3> HIDE DEF t0
    <3>2. Painted(t, t0, c, Black)
      BY <3>1, PaintNode
    <3> QED BY <3>2 DEF Painted
  <2> QED BY <2>1, <2>2
<1> HIDE DEF t0
<1>4. Typed(t0) /\ Nodes(t0) = N
  BY <1>3 DEF SameLinks
<1>5. /\ Relinks(t0, t1) /\ t1.root = t0.root
      /\ \A m \in N, g \in Link : t1.node[m][g] = IF m = c /\ g = "parent" THEN p ELSE t0.node[m][g]
  BY <1>2, <1>4, SetParentLink
<1> HIDE DEF t1
<1>6. /\ Typed(t1) /\ Nodes(t1) = N
      /\ \A m \in N, s \in Side : t1.node[m][s] = t.node[m][s]
      /\ \A m \in N : t1.node[m]["parent"] = IF m = c THEN p ELSE t.node[m]["parent"]
  BY <1>3, <1>4, <1>5, Sides DEF Relinks, SameLinks
<1>7. Parent(t1, n) = p
  BY <1>2, <1>6 DEF Parent
<1>8. /\ Typed(t2) /\ Nodes(t2) = N /\ SameValues(t1, t2) /\ SameColors(t1, t2)
      /\ t2.root = IF p = NULL THEN (IF c = LEAF THEN NULL ELSE c) ELSE t1.root
      /\ \A m \in N : t2.node[m]["parent"] = t1.node[m]["parent"]
      /\ \A m \in N, s \in Side : t2.node[m][s] = IF t1.node[m][s] = n THEN c ELSE t1.node[m][s]
  <2>1. CASE p = NULL
    <3> DEFINE r == IF c = LEAF THEN NULL ELSE c
    <3>1. t1 = [root |-> t1.root, node |-> t1.node] /\ r \in Int
      BY <1>2, <1>6 DEF Typed
    <3>2. t2 = [t1 EXCEPT !.root = r]
      BY <2>1
    <3> HIDE DEF r, t2
    <3>3. t2 = [root |-> r, node |-> t1.node]
      BY <3>1, <3>2
    <3>4. t2.root = r /\ t2.node = t1.node /\ t2 = [root |-> t2.root, node |-> t2.node]
      BY <3>3
    <3>5. Nodes(t2) = N /\ Typed(t2)
      BY <3>1, <3>4, <1>6 DEF Typed, Nodes
    <3>6. SameValues(t1, t2) /\ SameColors(t1, t2)
      BY <3>4, <3>5, <1>6 DEF SameValues, SameColors, Color
    <3>7. \A m \in N, s \in Side : t1.node[m][s] # n
      BY <2>1, <1>2, <1>6, Zenon DEF Placed
    <3> QED BY <3>4, <3>5, <3>6, <3>7, <2>1 DEF r
  <2>2. CASE p # NULL
    <3> DEFINE s == SideOf(t, n)
    <3>1. /\ s \in Side /\ p \in N /\ \A m \in N, x \in Side : t.node[m][x] = n <=> m = p /\ x = s
      BY <2>2, <1>2 DEF Placed
    <3>2. SideOf(t1, n) = s
      BY <3>1, <1>2, <1>6, <1>7 DEF SideOf, Side
    <3>3. t2 = Store(t1, p, s, c)
      BY <3>2, <2>2, <1>7 DEF Replace
    <3> HIDE DEF s, t2
    <3>4. s \in Link /\ s # "parent"
      BY <3>1, Sides
    <3>5. /\ Relinks(t1, t2) /\ t2.root = t1.root
          /\ \A m \in N, g \in Link : t2.node[m][g] = IF m = p /\ g = s THEN c ELSE t1.node[m][g]
      BY <3>1, <3>3, <3>4, <1>2, <1>6, StoreLink
    <3>6. SameColors(t1, t2) /\ SameValues(t1, t2) /\ Typed(t2) /\ Nodes(t2) = N
      BY <3>5, <1>6, RelinksKeeps
    <3>7. \A m \in N : t2.node[m]["parent"] = t1.node[m]["parent"]
      BY <3>4, <3>5, Sides
    <3>8. \A m \in N, x \in Side : t2.node[m][x] = IF t1.node[m][x] = n THEN c ELSE t1.node[m][x]
      BY <3>1, <3>5, <1>6, Sides
    <3> QED BY <3>5, <3>6, <3>7, <3>8, <2>2
  <2> QED BY <2>1, <2>2
<1> HIDE DEF t2
<1>9. /\ Typed(u) /\ Nodes(u) = N \ {n} /\ u.root = t2.root
      /\ \A m \in N \ {n} : u.node[m] = t2.node[m]
  BY <1>1, <1>8, WithoutNode
<1>10. u.root = IF p = NULL THEN (IF c = LEAF THEN NULL ELSE c) ELSE t.root
  BY <1>3, <1>5, <1>8, <1>9
<1>11. \A m \in N \ {n} : u.node[m].value = t.node[m].value
  BY <1>3, <1>4, <1>5, <1>8, <1>9 DEF SameValues, Relinks
<1>12. \A m \in N \ {n} : Parent(u, m) = IF m = c THEN p ELSE Parent(t, m)
  BY <1>6, <1>8, <1>9 DEF Parent
<1>13. \A m \in (N \ {n}) \cup {LEAF} : Color(u, m) = IF m = c THEN Black ELSE Color(t, m)
  <2> TAKE m \in (N \ {n}) \cup {LEAF}
  <2>1. Color(u, m) = Color(t2, m)
    BY <1>9 DEF Color
  <2>2. Color(t2, m) = Color(t1, m)
    BY <1>6, <1>8 DEF SameColors
  <2>3. Color(t1, m) = Color(t0, m)
    BY <1>4, <1>5, RelinksKeeps DEF SameColors
  <2> QED BY <2>1, <2>2, <2>3, <1>3
<1>14. \A m \in N \ {n}, s \in Side : u.node[m][s] = IF t.node[m][s] = n THEN c ELSE t.node[m][s]
  BY <1>6, <1>8, <1>9
<1> QED BY <1>9, <1>10, <1>11, <1>12, <1>13, <1>14 DEF Unlinked

\* What remains is a search tree.
LEMMA UnlinkShape ==
  ASSUME NEW t, NEW n \in Nodes(t), NEW c \in Nodes(t) \cup {LEAF}, c = OnlyChild(t, n),
         LEAF \in {t.node[n].left, t.node[n].right},
         NEW P, NEW top, NEW sub, HangsBut(t, c, P, top, sub),
         B!Sorted(Kid(t, "left"), Kid(t, "right"), sub, Nodes(t) \ {n}, Before),
         NEW u, u = Unlink(t, n)
  PROVE  /\ c # n /\ Placed(t, n, Parent(t, n), top) /\ Unlinked(t, u, n, c, Parent(t, n)) /\ Shaped(u)
<1> DEFINE N == Nodes(t)
           M == N \ {n}
           L == Kid(t, "left")
           R == Kid(t, "right")
           p == Parent(t, n)
           L2 == B!CutLink(L, n, c)
           R2 == B!CutLink(R, n, c)
           P2 == B!CutP(P, n, c)
           top2 == B!CutRoot(top, n, c)
           new == B!CutSub(sub, n)
<1>1. /\ Typed(t) /\ B!Hung(N, L, R, P, top, sub) /\ B!IsFiniteSet(N)
      /\ B!NULL = LEAF /\ LEAF \notin N /\ NULL \notin N /\ NULL # LEAF
      /\ \A m \in N : Parent(t, m) \in N \cup {NULL}
  BY Finite, Keys DEF HangsBut, Typed
<1>2. L[n] = t.node[n].left /\ R[n] = t.node[n].right
  BY DEF Kid
<1>3. (L[n] = LEAF /\ R[n] = c) \/ (L[n] = c /\ R[n] = LEAF)
  BY <1>2 DEF OnlyChild
<1> HIDE DEF L, R
<1>4. c # n
  <2>1. L[n] # n /\ R[n] # n
    BY <1>1, B!Around
  <2> QED BY <2>1, <1>3
<1>5. Placed(t, n, p, top)
  BY <1>4, HangsButAround
<1> HIDE DEF p
<1>6. Unlinked(t, u, n, c, p)
  BY <1>1, <1>4, <1>5, UnlinkFields
<1>7. B!Hung(M, L2, R2, P2, top2, new)
  <2> HIDE DEF N
  <2>1. n \in N
    BY DEF N
  <2> QED BY <2>1, <1>1, <1>3, B!CutHung
<1>8. B!Sorted(L2, R2, new, M, Before)
  <2>1. B!Sorted(L, R, sub, N \ {n}, Before)
    BY DEF L, R
  <2> HIDE DEF N
  <2>2. n \in N
    BY DEF N
  <2> QED BY <2>1, <2>2, <1>1, <1>3, B!CutSorted
<1>9. Typed(u) /\ Nodes(u) = M
  BY <1>6 DEF Unlinked
<1>10. Kid(u, "left") = L2 /\ Kid(u, "right") = R2
  <2>1. DOMAIN L = N /\ DOMAIN R = N
    BY DEF L, R, Kid
  <2>2. \A m \in M : /\ u.node[m]["left"] = IF L[m] = n THEN c ELSE L[m]
                     /\ u.node[m]["right"] = IF R[m] = n THEN c ELSE R[m]
    BY <1>6 DEF Unlinked, Side, L, R, Kid
  <2>3. Kid(u, "left") = [m \in M |-> u.node[m]["left"]] /\ Kid(u, "right") = [m \in M |-> u.node[m]["right"]]
    BY <1>9 DEF Kid
  <2> QED BY <2>1, <2>2, <2>3 DEF B!CutLink
<1>11. Up(u) = P2
  <2>1. DOMAIN P = N
    BY <1>1 DEF B!Hung
  <2>2. ASSUME NEW m \in M
        PROVE  (IF Parent(u, m) = NULL THEN LEAF ELSE Parent(u, m)) = IF m = c THEN P[n] ELSE P[m]
    <3>1. Parent(u, m) = IF m = c THEN p ELSE Parent(t, m)
      BY <1>6 DEF Unlinked
    <3>2. P[n] = IF p = NULL THEN LEAF ELSE p
      BY <1>4 DEF HangsBut, Up, p
    <3>3. m # c => P[m] = IF Parent(t, m) = NULL THEN LEAF ELSE Parent(t, m)
      BY DEF HangsBut, Up
    <3> QED BY <3>1, <3>2, <3>3
  <2>3. Up(u) = [m \in M |-> IF Parent(u, m) = NULL THEN LEAF ELSE Parent(u, m)]
    BY <1>9 DEF Up
  <2> QED BY <2>1, <2>2, <2>3 DEF B!CutP
<1>12. \A m \in M : Parent(u, m) \in M \cup {NULL}
  <2> TAKE m \in M
  <2>1. Parent(u, m) = IF m = c THEN p ELSE Parent(t, m)
    BY <1>6 DEF Unlinked
  <2>2. m # c => Parent(t, m) # n
    <3> SUFFICES ASSUME m # c, Parent(t, m) = n PROVE FALSE
      OBVIOUS
    <3>1. P[m] = n
      BY <1>1 DEF HangsBut, Up
    <3>2. m \in {L[n], R[n]}
      BY <3>1, <1>1 DEF B!Hung
    <3> QED BY <3>2, <1>1, <1>3
  <2>3. p # n /\ p \in N \cup {NULL}
    BY <1>5 DEF Placed
  <2> QED BY <2>1, <2>2, <2>3, <1>1
<1>13. Hangs(u, top2, new)
  BY <1>7, <1>9, <1>10, <1>11, <1>12 DEF Hangs
<1>14. Shape(u, top2, new)
  BY <1>8, <1>9, <1>10, <1>13 DEF Shape
<1> QED BY <1>4, <1>5, <1>6, <1>14 DEF Shaped, p

\* The children of the nodes are apart.
LEMMA HangsButKids ==
  ASSUME NEW t, NEW c, NEW P, NEW top, NEW sub, HangsBut(t, c, P, top, sub), NEW n \in Nodes(t), n # c
  PROVE  /\ \A m \in Nodes(t), s \in Side : /\ t.node[m][s] \in Nodes(t) \cup {LEAF} /\ t.node[m][s] # m
                                            /\ t.node[m][s] # LEAF => t.node[m][s] # t.node[m][Other(s)]
         /\ \A m \in Nodes(t) \ {n}, r, s \in Side : t.node[m][r] = t.node[n][s] => t.node[m][r] = LEAF
         /\ \A s \in Side : Parent(t, n) # NULL => t.node[n][s] # Parent(t, n)
<1> DEFINE N == Nodes(t)
           L == Kid(t, "left")
           R == Kid(t, "right")
<1>1. /\ Typed(t) /\ B!Hung(N, L, R, P, top, sub) /\ B!NULL = LEAF /\ P[n] = Up(t)[n]
  BY Keys DEF HangsBut, Typed
<1>2. \A m \in N : L[m] = t.node[m]["left"] /\ R[m] = t.node[m]["right"]
  BY DEF Kid
<1> HIDE DEF L, R
<1>3. \A m \in N, s \in Side : t.node[m][s] \in {L[m], R[m]}
  BY <1>2 DEF Side
<1>4. \A m \in N : L[m] \in N \cup {LEAF} /\ R[m] \in N \cup {LEAF} /\ L[m] # m /\ R[m] # m /\ (L[m] # R[m] \/ L[m] = LEAF)
  BY <1>1, B!Around
<1>5. ASSUME NEW m \in N, NEW s \in Side, t.node[m][s] # LEAF PROVE t.node[m][s] # t.node[m][Other(s)]
  BY <1>2, <1>4, <1>5 DEF Side, Other
<1>6. ASSUME NEW m \in N \ {n}, NEW r \in Side, NEW s \in Side, t.node[m][r] = t.node[n][s] PROVE t.node[m][r] = LEAF
  <2> DEFINE x == t.node[m][r]
  <2> SUFFICES ASSUME x \in N PROVE FALSE
    BY <1>3, <1>4
  <2>1. x \in {L[m], R[m]} /\ x \in {L[n], R[n]}
    BY <1>3, <1>6
  <2> HIDE DEF x
  <2>2. P[x] = m /\ P[x] = n
    BY <2>1, <1>1 DEF B!Hung
  <2> QED BY <2>2
<1>7. ASSUME Parent(t, n) # NULL, NEW s \in Side PROVE t.node[n][s] # Parent(t, n)
  <2>1. P[n] = Parent(t, n)
    BY <1>1, <1>7 DEF Up
  <2>2. P[n] \notin sub[n] /\ sub[n] = {n} \cup sub[L[n]] \cup sub[R[n]]
    BY <1>1, B!Around
  <2>3. t.node[n][s] \in N => t.node[n][s] \in sub[t.node[n][s]]
    BY <1>1, B!Around
  <2>4. Parent(t, n) \in N
    BY <1>7 DEF HangsBut
  <2> QED BY <2>1, <2>2, <2>3, <2>4, <1>3
<1> QED BY <1>3, <1>4, <1>5, <1>6, <1>7

\* How the departure of n affects the balance.
AfterUnlink(t, u, n, c, p) ==
  IF p # NULL /\ Color(t, n) = Black /\ Color(t, c) = Black
  THEN SideOf(t, n) \in Side /\ u.node[p][SideOf(t, n)] = c /\ \E H : Light(u, H, p, SideOf(t, n))
  ELSE \E H : Balanced(u, H)

\* The departure of n leaves the tree balanced, or one black node short below p.
LEMMA UnlinkBalance ==
  ASSUME NEW t, NEW n \in Nodes(t), NEW c \in Nodes(t) \cup {LEAF}, c = OnlyChild(t, n), c # n,
         NEW P, NEW top, NEW sub, HangsBut(t, c, P, top, sub), NEW p, Placed(t, n, p, top),
         NEW H, Even(t, H), BlackTop(t), \A m \in Nodes(t) : CalmAt(t, m, LEAF),
         NEW u, Unlinked(t, u, n, c, p)
  PROVE  AfterUnlink(t, u, n, c, p)
<1> DEFINE N == Nodes(t)
           M == N \ {n}
           H2 == [m \in M \cup {LEAF} |-> IF m = c /\ Color(t, c) = Red THEN H[c] + 1 ELSE H[m]]
           side == SideOf(t, n)
           s == t.node[p][Other(side)]
<1>1. Typed(t) /\ LEAF \notin N /\ NULL \notin N /\ Red # Black /\ Color(t, LEAF) = Black
  BY Keys, ColorType DEF HangsBut, Typed
<1>2. \A m \in N \cup {LEAF} : Color(t, m) \in {Red, Black}
  BY <1>1, ColorType
<1>3. /\ H \in [N \cup {LEAF} -> Nat] /\ H[LEAF] = 0 /\ \A m \in N : EvenAt(t, H, m)
      /\ p = Parent(t, n) /\ p \in N \cup {NULL} /\ p # n /\ \A m \in N, x \in Side : t.node[m][x] = n => m = p
  BY DEF Even, Heights, Placed
<1>4. \E x \in Side : c = t.node[n][x]
  BY DEF OnlyChild, Side
<1>5. /\ \A m \in N, x \in Side : t.node[m][x] \in N \cup {LEAF} /\ t.node[m][x] # m
      /\ \A m \in M, x \in Side : t.node[m][x] = c => c = LEAF
      /\ p # NULL => p # c
  BY <1>3, <1>4, HangsButKids
<1>6. /\ Nodes(u) = M /\ \A m \in M : Parent(u, m) = IF m = c THEN p ELSE Parent(t, m)
      /\ \A m \in M \cup {LEAF} : Color(u, m) = IF m = c THEN Black ELSE Color(t, m)
      /\ \A m \in M, x \in Side : u.node[m][x] = IF t.node[m][x] = n THEN c ELSE t.node[m][x]
  BY DEF Unlinked
<1>7. H[n] = H[c] + Unit(t, n) /\ (Color(t, n) = Red => Color(t, c) = Black)
  BY <1>1, <1>2, <1>3, <1>4 DEF EvenAt, CalmAt
<1>8. /\ H2 \in [M \cup {LEAF} -> Nat] /\ H2[LEAF] = 0 /\ \A m \in M \cup {LEAF} : m # c => H2[m] = H[m]
      /\ c \in M \cup {LEAF} /\ H2[c] = (IF Color(t, c) = Red THEN H[c] + 1 ELSE H[c]) /\ H[c] \in Nat
  BY <1>1, <1>3
<1> HIDE DEF H2
<1>9. BlackTop(u)
  BY <1>6 DEF BlackTop
<1>10. ASSUME NEW m \in M PROVE CalmAt(u, m, LEAF)
  <2> SUFFICES ASSUME Color(u, m) = Red, NEW x \in Side PROVE Color(u, u.node[m][x]) = Black
    BY DEF CalmAt
  <2>1. Color(t, m) = Red
    BY <1>1, <1>6
  <2>2. Color(t, t.node[m][x]) = Black
    BY <2>1, <1>1 DEF CalmAt
  <2>3. t.node[m][x] \in N \cup {LEAF} /\ u.node[m][x] = IF t.node[m][x] = n THEN c ELSE t.node[m][x]
    BY <1>5, <1>6
  <2> QED BY <2>2, <2>3, <1>6, <1>8
<1>11. ASSUME NEW m \in M, m # p PROVE EvenAt(u, H2, m)
  <2>1. \A x \in Side : /\ u.node[m][x] = t.node[m][x] /\ H[m] = H[t.node[m][x]] + Unit(t, m)
                        /\ t.node[m][x] \in M \cup {LEAF} /\ H[t.node[m][x]] \in Nat
    BY <1>3, <1>5, <1>6, <1>11 DEF EvenAt
  <2>2. \A x \in Side : H2[t.node[m][x]] = H[t.node[m][x]]
    <3> TAKE x \in Side
    <3>1. t.node[m][x] = LEAF \/ t.node[m][x] # c
      BY <1>5
    <3> QED BY <3>1, <2>1, <1>3, <1>8
  <2>3. H2[m] = H[m] + (Unit(u, m) - Unit(t, m)) /\ H[m] \in Nat /\ Unit(u, m) \in Nat /\ Unit(t, m) \in Nat
    <3>1. CASE m = c
      <4>1. Color(u, m) = Black /\ Unit(u, m) = 1
        BY <3>1, <1>6 DEF Unit
      <4>2. Unit(t, m) = IF Color(t, c) = Red THEN 0 ELSE 1
        BY <3>1, <1>1, <1>2 DEF Unit
      <4> QED BY <4>1, <4>2, <3>1, <1>8
    <3>2. CASE m # c
      BY <3>2, <1>3, <1>6, <1>8 DEF Unit
    <3> QED BY <3>1, <3>2
  <2>4. \A x \in Side : H2[m] = H2[u.node[m][x]] + Unit(u, m)
    <3> TAKE x \in Side
    <3> QED BY <2>1, <2>2, <2>3
  <2> QED BY <2>4 DEF EvenAt
<1>12. Heights(u, H2)
  BY <1>6, <1>8 DEF Heights
<1>13. CASE p = NULL
  <2>1. Balanced(u, H2)
    BY <1>1, <1>6, <1>9, <1>10, <1>11, <1>12, <1>13 DEF Balanced, Even
  <2> QED BY <2>1, <1>13 DEF AfterUnlink
<1>14. CASE p # NULL
  <2>1. p \in M /\ side \in Side /\ t.node[p][side] = n /\ \A x \in Side : t.node[p][x] = n => x = side
    BY <1>3, <1>14 DEF Placed
  <2> HIDE DEF side
  <2>2. Other(side) \in Side /\ Other(side) # side
    BY <2>1, Sides
  <2>3. s # n /\ s \in M \cup {LEAF} /\ (s = c => c = LEAF) /\ H[s] \in Nat
    BY <2>1, <2>2, <1>3, <1>5
  <2>4. u.node[p][side] = c /\ u.node[p][Other(side)] = s
    BY <2>1, <2>2, <2>3, <1>6
  <2>5. H[p] = H[n] + Unit(t, p) /\ H[p] = H[s] + Unit(t, p) /\ H[n] \in Nat
    BY <2>1, <2>2, <1>3 DEF EvenAt
  <2>6. H2[p] = H[p] /\ Unit(u, p) = Unit(t, p) /\ Unit(t, p) \in Nat
    BY <2>1, <1>5, <1>6, <1>8, <1>14 DEF Unit
  <2>7. H2[s] = H[s] /\ H[s] = H[n]
    <3>1. s = LEAF \/ s # c
      BY <2>3
    <3>2. H2[s] = H[s]
      BY <3>1, <2>3, <1>3, <1>8
    <3> HIDE DEF s
    <3> QED BY <3>2, <2>3, <2>5, <2>6
  <2> HIDE DEF s
  <2>8. CASE Color(t, n) = Black /\ Color(t, c) = Black
    <3>1. H2[c] = H[c] /\ H[n] = H[c] + 1
      BY <2>8, <1>1, <1>7, <1>8 DEF Unit
    <3>2. H2[p] = H2[s] + Unit(u, p) /\ H2[s] = H2[c] + 1
      BY <3>1, <2>5, <2>6, <2>7
    <3>3. Color(u, c) = Black
      BY <1>6, <1>8
    <3>4. Light(u, H2, p, side)
      BY <3>2, <3>3, <2>1, <2>4, <1>6, <1>9, <1>10, <1>11, <1>12 DEF Light
    <3> QED BY <3>4, <2>1, <2>4, <2>8, <1>14 DEF AfterUnlink, side
  <2>9. CASE ~(Color(t, n) = Black /\ Color(t, c) = Black)
    <3>1. H2[c] = H[n]
      <4>1. CASE Color(t, n) = Red
        BY <4>1, <1>1, <1>7, <1>8 DEF Unit
      <4>2. CASE Color(t, n) = Black /\ Color(t, c) = Red
        BY <4>2, <1>7, <1>8 DEF Unit
      <4> QED BY <4>1, <4>2, <2>9, <1>2
    <3>2. H2[p] = H2[c] + Unit(u, p) /\ H2[p] = H2[s] + Unit(u, p)
      BY <3>1, <2>5, <2>6, <2>7
    <3>3. EvenAt(u, H2, p)
      BY <3>2, <2>1, <2>4, Sides DEF EvenAt
    <3>4. Balanced(u, H2)
      BY <3>3, <1>6, <1>9, <1>10, <1>11, <1>12 DEF Balanced, Even
    <3> QED BY <3>4, <2>9 DEF AfterUnlink
  <2> QED BY <2>8, <2>9
<1> QED BY <1>13, <1>14

-----------------------------------------------------------------------------
(* Deletion: a node exchanges its place with its predecessor.              *)

\* The recursion of Rightmost leads to the last node of a subtree.
LEMMA RightmostLast ==
  ASSUME CompareOrder, NEW t, NEW top, NEW sub, Shape(t, top, sub), NEW l \in Nodes(t), NEW q, q = Rightmost(t, l)
  PROVE  /\ q \in sub[l] /\ q \in Nodes(t) /\ t.node[q].right = LEAF
         /\ \A m \in sub[l] : m = q \/ <<m, q>> \in Before
         /\ q = l \/ (Parent(t, q) \in sub[l] /\ Parent(t, q) \in Nodes(t) /\ t.node[Parent(t, q)].right = q)
<1> DEFINE N == Nodes(t)
           L == Kid(t, "left")
           R == Kid(t, "right")
           P == Up(t)
           last == CHOOSE f : f = [m \in N |-> IF t.node[m].right = LEAF THEN m ELSE f[t.node[m].right]]
<1>1. /\ Typed(t) /\ B!Hung(N, L, R, P, top, sub) /\ B!IsFiniteSet(N) /\ N \subseteq Key
      /\ B!Sorted(L, R, sub, N, Before) /\ B!NULL = LEAF /\ LEAF \notin N /\ NULL \notin N /\ NULL # LEAF
      /\ \A m \in N : Parent(t, m) \in N \cup {NULL}
  BY Finite, Keys DEF Shape, Hangs, Typed
<1>2. q = last[l]
  BY Zenon DEF Rightmost
<1>3. \A m \in N : R[m] = t.node[m].right /\ P[m] = IF Parent(t, m) = NULL THEN LEAF ELSE Parent(t, m)
  BY DEF Kid, Up
<1> HIDE DEF L, R, P
<1>4. \E f : f = [m \in N |-> IF t.node[m].right = LEAF THEN m ELSE f[t.node[m].right]]
  <2>1. \E f \in [N -> N] : B!DownEnds(N, L, R, {}, {}, f)
    <3>1. N # {}
      OBVIOUS
    <3> HIDE DEF N
    <3> QED BY <3>1, <1>1, B!EndsExist, Zenon
  <2>2. PICK f \in [N -> N] : B!DownEnds(N, L, R, {}, {}, f)
    BY <2>1
  <2>3. \A m \in N : f[m] = IF t.node[m].right = LEAF THEN m ELSE f[t.node[m].right]
    BY <2>2, <1>1, <1>3 DEF B!DownEnds
  <2> QED BY <2>2, <2>3
<1>5. last = [m \in N |-> IF t.node[m].right = LEAF THEN m ELSE last[t.node[m].right]]
  BY <1>4, Zenon
<1> HIDE DEF last
<1>6. \A m \in N : last[m] = IF R[m] = LEAF THEN m ELSE last[R[m]]
  BY <1>3, <1>5
<1>7. last \in [N -> N]
  <2>1. \E f \in [N -> N] : B!DownEnds(N, L, R, {}, {}, f)
    <3>1. N # {}
      OBVIOUS
    <3> HIDE DEF N
    <3> QED BY <3>1, <1>1, B!EndsExist, Zenon
  <2>2. PICK f \in [N -> N] : B!DownEnds(N, L, R, {}, {}, f)
    BY <2>1
  <2> DEFINE T == {m \in N : last[m] # f[m]}
  <2>3. \A m \in T : R[m] \in T
    <3> TAKE m \in T
    <3>1. f[m] = IF R[m] = LEAF THEN m ELSE f[R[m]]
      BY <2>2, <1>1 DEF B!DownEnds
    <3>2. R[m] \in N \cup {LEAF}
      BY <1>1 DEF B!Hung
    <3> QED BY <3>1, <3>2, <1>6
  <2>4. T = {}
    <3>1. T \in SUBSET N
      OBVIOUS
    <3> HIDE DEF T, N
    <3> QED BY <3>1, <2>3, <1>1, B!DownInduction
  <2>5. \A m \in N : last[m] \in N
    BY <2>2, <2>4
  <2>6. last = [m \in N |-> last[m]]
    BY <1>5
  <2> QED BY <2>5, <2>6
<1>8. B!Lasts(N, R, last)
  BY <1>1, <1>6, <1>7 DEF B!Lasts
<1>9. B!Total(Before, N)
  BY <1>1, BeforeTotal
<1>10. /\ q \in sub[l] /\ R[q] = LEAF /\ (\A m \in sub[l] : m = q \/ <<m, q>> \in Before)
       /\ q = l \/ (P[q] \in sub[l] /\ R[P[q]] = q)
  <2>1. l \in N
    OBVIOUS
  <2> HIDE DEF N
  <2> QED BY <2>1, <1>1, <1>2, <1>8, <1>9, B!LastSorted
<1>11. sub[l] \subseteq N
  BY <1>1, B!Around
<1>12. q # l => P[q] = Parent(t, q) /\ P[q] \in N
  BY <1>1, <1>3, <1>10, <1>11, SMTT(30)
<1> QED BY <1>3, <1>10, <1>11, <1>12

\* What surrounds a node n and its predecessor q.
Predecessor(t, n, q) ==
  /\ n \in Nodes(t) /\ q \in Nodes(t) /\ q # n
  /\ t.node[n]["left"] \in Nodes(t) /\ t.node[n]["right"] \in Nodes(t) /\ t.node[n]["left"] # t.node[n]["right"]
  /\ t.node[n]["left"] # n /\ t.node[n]["right"] # n /\ t.node[n]["right"] # q
  /\ t.node[q]["right"] = LEAF /\ t.node[q]["left"] \in Nodes(t) \cup {LEAF}
  /\ t.node[q]["left"] \notin {q, n, t.node[n]["left"], t.node[n]["right"]}
  /\ t.node[q]["left"] # LEAF => Parent(t, t.node[q]["left"]) = q
  /\ Parent(t, n) \in Nodes(t) \cup {NULL} /\ Parent(t, n) # n /\ Parent(t, n) # q
  /\ Parent(t, q) \in Nodes(t) /\ Parent(t, q) # q /\ Parent(t, q) # Parent(t, n)
  /\ (Parent(t, q) = n <=> t.node[n]["left"] = q) /\ (Parent(t, q) # n => t.node[Parent(t, q)]["right"] = q)
  /\ \A m \in Nodes(t) : /\ t.node[m]["left"] = q => m = n
                         /\ t.node[m]["right"] = q => m = Parent(t, q)
                         /\ Parent(t, m) = n <=> m \in {t.node[n]["left"], t.node[n]["right"]}
                         /\ Parent(t, m) = q => m = t.node[q]["left"]
                         /\ Parent(t, m) \in Nodes(t) \cup {NULL}
                         /\ \A s \in Side : t.node[m][s] \in Nodes(t) \cup {LEAF}
  /\ Parent(t, n) = NULL => \A m \in Nodes(t), s \in Side : t.node[m][s] # n
  /\ Parent(t, n) # NULL => /\ SideOf(t, n) \in Side
                            /\ \A m \in Nodes(t), s \in Side : t.node[m][s] = n <=> m = Parent(t, n) /\ s = SideOf(t, n)

\* The rightmost node of the left subtree is such a predecessor.
LEMMA PredecessorPlace ==
  ASSUME CompareOrder, NEW t, NEW top, NEW sub, Shape(t, top, sub), NEW n \in Nodes(t),
         LEAF \notin {t.node[n].left, t.node[n].right}, NEW q, q = Rightmost(t, t.node[n].left)
  PROVE  Predecessor(t, n, q)
<1> DEFINE N == Nodes(t)
           l == t.node[n]["left"]
           r == t.node[n]["right"]
           h == Parent(t, q)
           c == t.node[q]["left"]
<1>1. /\ Shaped(t) /\ Hangs(t, top, sub) /\ "left" \in Side /\ "right" \in Side
      /\ Other("left") = "right" /\ Other("right") = "left" /\ LEAF \notin N /\ NULL \notin N
  BY Keys DEF Shape, Shaped, Hangs, Typed, Side, Other
<1>2. l \in N /\ r \in N /\ l # r /\ l # n /\ r # n
  BY <1>1, ShapedAround
<1>3. /\ q \in sub[l] /\ q \in N /\ t.node[q]["right"] = LEAF
      /\ q = l \/ (h \in sub[l] /\ h \in N /\ t.node[h]["right"] = q)
  BY <1>2, RightmostLast
<1>4. /\ sub[n] = {n} \cup sub[l] \cup sub[r] /\ sub[l] \cap sub[r] = {} /\ n \notin sub[l]
      /\ Parent(t, n) # NULL => Parent(t, n) \notin sub[n]
  BY <1>1, Subtrees
<1>5. r \in sub[r] /\ l \in sub[l]
  BY <1>1, <1>2, Subtrees
<1>6. q # n /\ r # q
  BY <1>3, <1>4, <1>5
<1>7. /\ c \in N \cup {LEAF} /\ c # q /\ Parent(t, q) # q /\ \A m \in N : Parent(t, m) = q <=> m \in {c, t.node[q]["right"]}
      /\ \A m \in N : Parent(t, m) = n <=> m \in {l, r}
      /\ Parent(t, n) \in N \cup {NULL} /\ Parent(t, n) # n
  BY <1>1, <1>3, ShapedAround
<1>8. Parent(t, l) = n /\ Parent(t, r) = n
  BY <1>2, <1>7
<1>9. Parent(t, n) # q
  BY <1>1, <1>3, <1>4
<1>10. c \notin {q, n, l, r}
  BY <1>1, <1>2, <1>3, <1>6, <1>7, <1>8, <1>9
<1>11. h \in N /\ h # Parent(t, n)
  BY <1>1, <1>2, <1>3, <1>4, <1>7, <1>8
<1>12. h = n <=> l = q
  BY <1>3, <1>6, <1>7
<1>13. \A m \in N, s \in Side : t.node[m][s] \in N => Parent(t, t.node[m][s]) = m
  BY ShapedAround, <1>1
<1>14. ASSUME NEW m \in N, t.node[m]["left"] = q PROVE m = n
  <2>1. m = h
    BY <1>1, <1>3, <1>13, <1>14
  <2>2. CASE h = n
    BY <2>1, <2>2
  <2>3. CASE h # n
    <3>1. t.node[h]["right"] = q
      BY <2>3, <1>3, <1>12
    <3>2. t.node[h]["left"] # LEAF => t.node[h]["left"] # t.node[h]["right"]
      BY <1>1, <1>11, ShapedAround
    <3> QED BY <3>1, <3>2, <2>1, <1>1, <1>3, <1>14
  <2> QED BY <2>2, <2>3
<1>15. ASSUME Parent(t, n) = NULL, NEW m \in N, NEW s \in Side PROVE t.node[m][s] # n
  BY <1>1, <1>13, <1>15
<1>16. ASSUME Parent(t, n) # NULL
       PROVE  /\ SideOf(t, n) \in Side
              /\ \A m \in N, s \in Side : t.node[m][s] = n <=> m = Parent(t, n) /\ s = SideOf(t, n)
  BY <1>1, <1>16, SideOfChild
<1>17. \A m \in N : /\ t.node[m]["right"] = q => m = h
                    /\ Parent(t, m) = q => m = c
                    /\ Parent(t, m) \in N \cup {NULL}
                    /\ \A s \in Side : t.node[m][s] \in N \cup {LEAF}
  BY <1>1, <1>3, <1>7, <1>13, ShapedAround
<1>18. (h # n => t.node[h]["right"] = q) /\ (c # LEAF => Parent(t, c) = q)
  BY <1>1, <1>3, <1>7, <1>12, <1>13
<1> QED BY <1>2, <1>3, <1>6, <1>7, <1>9, <1>10, <1>11, <1>12, <1>14, <1>15, <1>16, <1>17, <1>18, Zenon DEF Predecessor

\* What the assignments of the exchange leave.
Exchanged(t, u, n, q) ==
  LET s == [m \in Nodes(t) \cup {LEAF} |-> IF m = n THEN q ELSE IF m = q THEN n ELSE m]
  IN /\ Typed(u) /\ SameValues(t, u) /\ u.root = IF Parent(t, n) = NULL THEN q ELSE t.root
     /\ \A m \in Nodes(t) \cup {LEAF} : Color(u, m) = Color(t, s[m])
     /\ \A m \in Nodes(t), x \in Side : u.node[m][x] = s[t.node[s[m]][x]]
     /\ \A m \in Nodes(t) : Parent(u, m) = IF m = t.node[q]["left"] THEN q
                                           ELSE IF Parent(t, s[m]) = NULL THEN NULL ELSE s[Parent(t, s[m])]

\* The first assignments exchange the cells, but for the values.
CellsExchanged(t, u, n, q) ==
  /\ Typed(u) /\ Nodes(u) = Nodes(t) /\ u.root = t.root /\ SameValues(t, u)
  /\ \A m \in Nodes(t) :
       LET w == IF m = n THEN q ELSE IF m = q THEN n ELSE m
       IN u.node[m].color = t.node[w].color /\ \A g \in Link : u.node[m][g] = t.node[w][g]

\* So they do.
LEMMA ExchangeCells ==
  ASSUME NEW t, Typed(t), NEW n \in Nodes(t), NEW q \in Nodes(t), n # q,
         NEW u, u = [t EXCEPT !.node[q] = [t.node[n] EXCEPT !.value = t.node[q].value],
                              !.node[n] = [t.node[q] EXCEPT !.value = t.node[n].value]]
  PROVE  CellsExchanged(t, u, n, q)
<1> DEFINE x == [t.node[n] EXCEPT !.value = t.node[q].value]
           y == [t.node[q] EXCEPT !.value = t.node[n].value]
           cells == [t.node EXCEPT ![q] = x, ![n] = y]
<1>1. t = [root |-> t.root, node |-> t.node] /\ t.node \in [Nodes(t) -> Cell]
  BY DEF Typed
<1>2. u = [root |-> t.root, node |-> cells]
  BY <1>1, Zenon
<1>3. t.node[n] \in Cell /\ t.node[q] \in Cell
  BY <1>1
<1>4. /\ x \in Cell /\ y \in Cell /\ x.value = t.node[q].value /\ y.value = t.node[n].value
      /\ x.color = t.node[n].color /\ y.color = t.node[q].color
      /\ \A g \in Link : x[g] = t.node[n][g] /\ y[g] = t.node[q][g]
  BY <1>3 DEF Cell, Link
<1> HIDE DEF x, y, cells
<1>5. u.root = t.root /\ u.node = cells /\ u = [root |-> u.root, node |-> u.node]
  BY ONLY <1>2
<1>6. u.node \in [Nodes(t) -> Cell] /\ \A m \in Nodes(t) : u.node[m] = IF m = n THEN y ELSE IF m = q THEN x ELSE t.node[m]
  BY <1>1, <1>4, <1>5 DEF cells
<1>7. Nodes(u) = Nodes(t)
  BY <1>6 DEF Nodes
<1>8. Typed(u)
  BY <1>5, <1>6, <1>7 DEF Typed
<1>9. SameValues(t, u)
  BY <1>4, <1>6, <1>7 DEF SameValues
<1>10. ASSUME NEW m \in Nodes(t), NEW w, w = (IF m = n THEN q ELSE IF m = q THEN n ELSE m)
       PROVE  u.node[m].color = t.node[w].color /\ \A g \in Link : u.node[m][g] = t.node[w][g]
  BY <1>4, <1>6, <1>10
<1> QED BY <1>5, <1>7, <1>8, <1>9, <1>10, SMTT(30) DEF CellsExchanged

\* The assignments, where q is the predecessor.
SwapWith(t, n, q) ==
  LET a  == t.node[n]
      b  == t.node[q]
      t1 == [t EXCEPT !.node[q] = [a EXCEPT !.value = b.value],
                      !.node[n] = [b EXCEPT !.value = a.value]]
      t2 == IF a.left = q THEN [t1 EXCEPT !.node[q].left = n]
            ELSE [t1 EXCEPT !.node[b.parent].right = n]
      t3 == SetParent(SetParent(t2, t2.node[q].left, q), a.right, q)
  IN IF a.parent = NULL THEN [t3 EXCEPT !.root = q]
     ELSE [t3 EXCEPT !.node[a.parent][SideOf(t, n)] = q]

\* It is the exchange of the code when q is the predecessor.
LEMMA SwapWithRightmost ==
  ASSUME NEW t, NEW n
  PROVE  SwapWithPredecessor(t, n) = SwapWith(t, n, Rightmost(t, t.node[n].left))
BY Zenon DEF SwapWithPredecessor, SwapWith

\* The fields of the nodes after them.
LEMMA SwapFields ==
  ASSUME NEW t, Typed(t), NEW n, NEW q, Predecessor(t, n, q), q = Rightmost(t, t.node[n].left),
         NEW u, u = SwapWithPredecessor(t, n)
  PROVE  Exchanged(t, u, n, q)
<1> DEFINE N  == Nodes(t)
           a  == t.node[n]
           b  == t.node[q]
           l  == t.node[n]["left"]
           r  == t.node[n]["right"]
           c  == t.node[q]["left"]
           g  == Parent(t, n)
           h  == Parent(t, q)
           t1 == [t EXCEPT !.node[q] = [a EXCEPT !.value = b.value],
                           !.node[n] = [b EXCEPT !.value = a.value]]
           t2 == IF l = q THEN Store(t1, q, "left", n) ELSE Store(t1, h, "right", n)
           d  == t2.node[q]["left"]
           t3 == SetParent(t2, d, q)
           t4 == SetParent(t3, r, q)
           s  == [m \in N \cup {LEAF} |-> IF m = n THEN q ELSE IF m = q THEN n ELSE m]
           w(m) == IF m = n THEN q ELSE IF m = q THEN n ELSE m
<1>1. u = IF g = NULL THEN [t4 EXCEPT !.root = q] ELSE Store(t4, g, SideOf(t, n), q)
  <2> DEFINE v2 == IF a.left = q THEN [t1 EXCEPT !.node[q].left = n] ELSE [t1 EXCEPT !.node[b.parent].right = n]
             v3 == SetParent(SetParent(v2, v2.node[q].left, q), a.right, q)
  <2>1. u = IF a.parent = NULL THEN [v3 EXCEPT !.root = q] ELSE [v3 EXCEPT !.node[a.parent][SideOf(t, n)] = q]
    <3>1. u = SwapWith(t, n, q)
      BY SwapWithRightmost, SMTT(30)
    <3> QED BY ONLY <3>1, Zenon DEF SwapWith
  <2> HIDE DEF t1
  <2>2. v2 = t2
    BY Zenon DEF Store, Parent
  <2> HIDE DEF v2, t2
  <2>3. v3 = t4
    BY <2>2
  <2> HIDE DEF v3, t4
  <2> QED BY <2>1, <2>3 DEF Store, Parent
<1>2. /\ n \in N /\ q \in N /\ n # q /\ l \in N /\ r \in N /\ l # r /\ l # n /\ r # n /\ r # q
      /\ t.node[q]["right"] = LEAF /\ c \in N \cup {LEAF} /\ c \notin {q, n, l, r}
      /\ g \in N \cup {NULL} /\ g # n /\ g # q /\ h \in N /\ h # q /\ h # g
      /\ (h = n <=> l = q) /\ (h # n => t.node[h]["right"] = q)
  BY DEF Predecessor
<1>3. \A m \in N : /\ t.node[m]["left"] = q => m = n
                   /\ t.node[m]["right"] = q => m = h
                   /\ Parent(t, m) = n <=> m \in {l, r}
                   /\ Parent(t, m) = q => m = c
                   /\ Parent(t, m) \in N \cup {NULL} /\ Parent(t, m) = t.node[m]["parent"]
                   /\ \A x \in Side : t.node[m][x] \in N \cup {LEAF}
  BY DEF Predecessor, Parent
<1>4. /\ g = NULL => \A m \in N, x \in Side : t.node[m][x] # n
      /\ g # NULL => /\ SideOf(t, n) \in Side
                     /\ \A m \in N, x \in Side : t.node[m][x] = n <=> m = g /\ x = SideOf(t, n)
  BY DEF Predecessor
<1>5. /\ LEAF \notin N /\ NULL \notin N /\ n \in Int /\ q \in Int /\ "left" \in Link /\ "right" \in Link /\ "parent" \in Link
      /\ "left" # "right" /\ "left" # "parent" /\ "right" # "parent" /\ Side = {"left", "right"} /\ Link = {"parent", "left", "right"}
  BY <1>2, Keys, SMTT(30) DEF Typed, Link, Side
<1>6. /\ Typed(t1) /\ Nodes(t1) = N /\ t1.root = t.root /\ SameValues(t, t1)
      /\ \A m \in N : t1.node[m].color = t.node[w(m)].color /\ \A f \in Link : t1.node[m][f] = t.node[w(m)][f]
  <2>1. CellsExchanged(t, t1, n, q)
    BY <1>2, ExchangeCells, ZenonT(30)
  <2> QED BY <2>1, ZenonT(30) DEF CellsExchanged
<1> HIDE DEF t1, a, b
<1>7. Relinks(t1, t1)
  BY <1>6, SMTT(30) DEF Relinks
<1>8. /\ Relinks(t1, t2) /\ t2.root = t1.root
      /\ \A m \in N : /\ t2.node[m]["left"] = IF l = q /\ m = q THEN n ELSE t1.node[m]["left"]
                      /\ t2.node[m]["right"] = IF l # q /\ m = h THEN n ELSE t1.node[m]["right"]
                      /\ t2.node[m]["parent"] = t1.node[m]["parent"]
  <2>1. CASE l = q
    <3>1. t2 = Store(t1, q, "left", n)
      BY <2>1
    <3> HIDE DEF t2
    <3>2. Relinks(t1, t2) /\ Assigned(t1, t2, N, q, "left", n)
      BY <3>1, <1>2, <1>5, <1>6, <1>7, StoreOn
    <3> QED BY <3>2, <2>1, <1>5 DEF Assigned
  <2>2. CASE l # q
    <3>1. t2 = Store(t1, h, "right", n)
      BY <2>2, SMTT(30)
    <3> HIDE DEF t2
    <3>2. Relinks(t1, t2) /\ Assigned(t1, t2, N, h, "right", n)
      BY <3>1, <1>2, <1>5, <1>6, <1>7, StoreOn, Zenon
    <3> QED BY <3>2, <2>2, <1>5 DEF Assigned
  <2> QED BY <2>1, <2>2
<1> HIDE DEF t2
<1>9. d = IF l = q THEN n ELSE l
  BY <1>2, <1>5, <1>6, <1>8
<1>10. t3 = SetParent(t2, d, q) /\ t4 = SetParent(t3, r, q) /\ d \in N
  BY <1>2, <1>9
<1> HIDE DEF t3, t4, d
<1>11. Relinks(t1, t3) /\ Assigned(t2, t3, N, d, "parent", q)
  BY <1>5, <1>6, <1>8, <1>10, SetParentOn
<1>12. Relinks(t1, t4) /\ Assigned(t3, t4, N, r, "parent", q)
  BY <1>2, <1>5, <1>6, <1>10, <1>11, SetParentOn, Zenon
<1>13. /\ Typed(t4) /\ Nodes(t4) = N /\ t4.root = t.root /\ SameValues(t1, t4) /\ SameColors(t1, t4)
       /\ \A m \in N : /\ t4.node[m]["left"] = t2.node[m]["left"] /\ t4.node[m]["right"] = t2.node[m]["right"]
                       /\ t4.node[m]["parent"] = IF m \in {d, r} THEN q ELSE t1.node[m]["parent"]
  <2>1. Typed(t4) /\ Nodes(t4) = N /\ SameValues(t1, t4) /\ SameColors(t1, t4)
    BY <1>6, <1>12, RelinksKeeps
  <2>2. t4.root = t.root
    BY <1>6, <1>8, <1>11, <1>12 DEF Assigned
  <2> QED BY <2>1, <2>2, <1>5, <1>8, <1>11, <1>12 DEF Assigned
<1>14. /\ Typed(u) /\ Nodes(u) = N /\ SameValues(t4, u) /\ SameColors(t4, u)
       /\ u.root = IF g = NULL THEN q ELSE t.root
       /\ \A m \in N : u.node[m]["parent"] = t4.node[m]["parent"]
       /\ \A m \in N, x \in Side : u.node[m][x] = IF t.node[m][x] = n THEN q ELSE t4.node[m][x]
  <2>1. CASE g = NULL
    <3>1. t4 = [root |-> t4.root, node |-> t4.node]
      BY <1>13 DEF Typed
    <3>2. u = [root |-> q, node |-> t4.node]
      BY <3>1, <2>1, <1>1
    <3>3. u.root = q /\ u.node = t4.node /\ u = [root |-> u.root, node |-> u.node]
      BY <3>2
    <3>4. Nodes(u) = N /\ Typed(u)
      BY <3>3, <1>5, <1>13 DEF Typed, Nodes
    <3>5. SameValues(t4, u) /\ SameColors(t4, u)
      BY <3>3, <3>4, <1>13 DEF SameValues, SameColors, Color
    <3> QED BY <3>3, <3>4, <3>5, <2>1, <1>4
  <2>2. CASE g # NULL
    <3> DEFINE x == SideOf(t, n)
    <3>1. x \in Side /\ g \in N /\ \A m \in N, y \in Side : t.node[m][y] = n <=> m = g /\ y = x
      BY <2>2, <1>2, <1>4
    <3>2. u = Store(t4, g, x, q)
      BY <2>2, <1>1
    <3> HIDE DEF x
    <3>3. x \in Link /\ x # "parent"
      BY <3>1, <1>5
    <3>4. /\ Relinks(t4, u) /\ u.root = t4.root
          /\ \A m \in N, f \in Link : u.node[m][f] = IF m = g /\ f = x THEN q ELSE t4.node[m][f]
      BY <3>1, <3>2, <3>3, <1>5, <1>13, StoreLink
    <3>5. SameColors(t4, u) /\ SameValues(t4, u) /\ Typed(u) /\ Nodes(u) = N
      BY <3>4, <1>13, RelinksKeeps
    <3>6. \A m \in N : u.node[m]["parent"] = t4.node[m]["parent"]
      BY <3>3, <3>4, <1>5
    <3>7. \A m \in N, y \in Side : u.node[m][y] = IF t.node[m][y] = n THEN q ELSE t4.node[m][y]
      BY <3>1, <3>4, <1>5
    <3> QED BY <3>4, <3>5, <3>6, <3>7, <2>2, <1>13
  <2> QED BY <2>1, <2>2
<1>15. /\ s[n] = q /\ s[q] = n /\ s[LEAF] = LEAF /\ \A m \in (N \cup {LEAF}) \ {n, q} : s[m] = m
       /\ \A m \in N : s[m] = w(m) /\ s[m] \in N
  BY <1>2, <1>5
<1> HIDE DEF s
<1>16. SameValues(t, u)
  BY <1>6, <1>13, <1>14 DEF SameValues
<1>17. ASSUME NEW m \in N \cup {LEAF} PROVE Color(u, m) = Color(t, s[m])
  <2>1. Color(u, m) = Color(t4, m) /\ Color(t4, m) = Color(t1, m)
    BY <1>6, <1>13, <1>14, <1>17 DEF SameColors
  <2>2. CASE m = LEAF
    BY <2>1, <2>2, <1>15 DEF Color
  <2>3. CASE m # LEAF
    <3>1. m \in N /\ s[m] \in N /\ s[m] = w(m)
      BY <2>3, <1>15
    <3>2. t1.node[m].color = t.node[s[m]].color
      BY <3>1, <1>6
    <3> HIDE DEF w
    <3>3. s[m] # LEAF
      BY <3>1, <1>5
    <3> QED BY <3>2, <3>3, <2>1, <2>3 DEF Color
  <2> QED BY <2>2, <2>3
<1>18. ASSUME NEW m \in N PROVE u.node[m]["left"] = s[t.node[s[m]]["left"]]
  <2>1. u.node[m]["left"] = IF t.node[m]["left"] = n THEN q ELSE t2.node[m]["left"]
    BY <1>5, <1>13, <1>14
  <2>2. t2.node[m]["left"] = IF l = q /\ m = q THEN n ELSE t1.node[m]["left"]
    BY <1>8
  <2>3. t1.node[m]["left"] = t.node[s[m]]["left"]
    BY <1>5, <1>6, <1>15
  <2>4. CASE m = n
    <3>1. s[m] = q /\ s[c] = c
      BY <2>4, <1>2, <1>15
    <3> QED BY <3>1, <2>1, <2>2, <2>3, <2>4, <1>2
  <2>5. CASE m = q
    <3>1. s[m] = n /\ t.node[m]["left"] # n
      BY <2>5, <1>2, <1>15
    <3>2. s[l] = IF l = q THEN n ELSE l
      BY <1>2, <1>15
    <3> QED BY <3>1, <3>2, <2>1, <2>2, <2>3, <2>5
  <2>6. CASE m # n /\ m # q
    <3>1. s[m] = m /\ t.node[m]["left"] # q /\ t.node[m]["left"] \in N \cup {LEAF}
      BY <2>6, <1>3, <1>5, <1>15
    <3>2. s[t.node[m]["left"]] = IF t.node[m]["left"] = n THEN q ELSE t.node[m]["left"]
      BY <3>1, <1>15
    <3> QED BY <3>1, <3>2, <2>1, <2>2, <2>3, <2>6
  <2> QED BY <2>4, <2>5, <2>6
<1>19. ASSUME NEW m \in N PROVE u.node[m]["right"] = s[t.node[s[m]]["right"]]
  <2>1. u.node[m]["right"] = IF t.node[m]["right"] = n THEN q ELSE t2.node[m]["right"]
    BY <1>5, <1>13, <1>14
  <2>2. t2.node[m]["right"] = IF l # q /\ m = h THEN n ELSE t1.node[m]["right"]
    BY <1>8
  <2>3. t1.node[m]["right"] = t.node[s[m]]["right"]
    BY <1>5, <1>6, <1>15
  <2>4. CASE m = n
    <3>1. s[m] = q /\ ~(l # q /\ m = h) /\ t.node[m]["right"] # n /\ t.node[s[m]]["right"] = LEAF
      BY <2>4, <1>2, <1>15
    <3> QED BY <3>1, <2>1, <2>2, <2>3, <1>15
  <2>5. CASE m = q
    <3>1. s[m] = n /\ t.node[m]["right"] # n /\ m # h
      BY <2>5, <1>2, <1>5, <1>15
    <3>2. s[r] = r
      BY <1>2, <1>15
    <3> QED BY <3>1, <3>2, <2>1, <2>2, <2>3
  <2>6. CASE m # n /\ m # q
    <3>1. s[m] = m /\ t.node[m]["right"] \in N \cup {LEAF} /\ (t.node[m]["right"] = q <=> l # q /\ m = h)
      BY <2>6, <1>2, <1>3, <1>5, <1>15, Zenon
    <3>2. s[t.node[m]["right"]] = IF t.node[m]["right"] = n THEN q ELSE IF t.node[m]["right"] = q THEN n ELSE t.node[m]["right"]
      BY <3>1, <1>15
    <3> QED BY <3>1, <3>2, <2>1, <2>2, <2>3, <1>2
  <2> QED BY <2>4, <2>5, <2>6
<1>20. ASSUME NEW m \in N
       PROVE  Parent(u, m) = IF m = c THEN q ELSE IF Parent(t, s[m]) = NULL THEN NULL ELSE s[Parent(t, s[m])]
  <2>1. Parent(u, m) = IF m \in {d, r} THEN q ELSE t1.node[m]["parent"]
    BY <1>13, <1>14 DEF Parent
  <2>2. t1.node[m]["parent"] = Parent(t, s[m])
    BY <1>5, <1>6, <1>15 DEF Parent
  <2>3. CASE m = n
    <3>1. s[m] = q /\ m # c /\ m # r /\ h # NULL
      BY <2>3, <1>2, <1>5, <1>15
    <3>2. s[h] = IF h = n THEN q ELSE h
      BY <1>2, <1>15
    <3>3. m \in {d, r} <=> h = n
      BY <2>3, <1>2, <1>9
    <3> QED BY <3>1, <3>2, <3>3, <2>1, <2>2
  <2>4. CASE m = q
    <3>1. s[m] = n /\ m # c /\ m # r /\ m # d
      BY <2>4, <1>2, <1>9, <1>15
    <3>2. g # NULL => s[g] = g
      BY <1>2, <1>15
    <3> QED BY <3>1, <3>2, <2>1, <2>2
  <2>5. CASE m # n /\ m # q /\ m # c
    <3>1. s[m] = m /\ (m \in {d, r} <=> Parent(t, m) = n) /\ Parent(t, m) # q /\ Parent(t, m) \in N \cup {NULL}
      BY <2>5, <1>2, <1>3, <1>9, <1>15
    <3>2. n # NULL
      BY <1>2, <1>5
    <3>3. Parent(t, m) # NULL => s[Parent(t, m)] = IF Parent(t, m) = n THEN q ELSE Parent(t, m)
      BY <3>1, <1>15
    <3> QED BY <3>1, <3>2, <3>3, <2>1, <2>2, <2>5
  <2>6. CASE m = c
    <3>1. s[m] = m /\ m \notin {d, r}
      BY <2>6, <1>2, <1>9, <1>15, SMTT(30)
    <3>2. Parent(t, c) = q
      BY <2>6, <1>2, <1>5 DEF Predecessor
    <3> QED BY <3>1, <3>2, <2>1, <2>2, <2>6
  <2> QED BY <2>3, <2>4, <2>5, <2>6
<1>21. \A m \in N, x \in Side : u.node[m][x] = s[t.node[s[m]][x]]
  BY <1>5, <1>18, <1>19
<1> QED BY <1>14, <1>16, <1>17, <1>20, <1>21, Zenon DEF Exchanged, s

-----------------------------------------------------------------------------
(* Deletion as a whole.                                                    *)

\* After the exchange, n can leave the tree.
Detachable(t, u, n) ==
  LET c == OnlyChild(u, n) IN
  /\ Typed(u) /\ SameValues(t, u) /\ u.root \in Nodes(t) /\ (Parent(u, n) # NULL => u.root # n)
  /\ n \in Nodes(t) /\ c \in Nodes(t) \cup {LEAF} /\ LEAF \in {u.node[n].left, u.node[n].right}
  /\ \E P, top, sub : /\ HangsBut(u, c, P, top, sub)
                      /\ B!Sorted(Kid(u, "left"), Kid(u, "right"), sub, Nodes(u) \ {n}, Before)
  /\ \E H : Even(u, H)
  /\ BlackTop(u) /\ \A m \in Nodes(u) : CalmAt(u, m, LEAF)

\* After the exchange with its predecessor, a node is so.
LEMMA ExchangeDetaches ==
  ASSUME CompareOrder, NEW t, NEW top, NEW sub, Shape(t, top, sub), NEW H, Balanced(t, H), NEW n \in Nodes(t),
         LEAF \notin {t.node[n].left, t.node[n].right}, t.root \in Nodes(t), Parent(t, t.root) = NULL,
         NEW u, u = SwapWithPredecessor(t, n)
  PROVE  Detachable(t, u, n)
<1> DEFINE N == Nodes(t)
           l == t.node[n]["left"]
           q == Rightmost(t, l)
           c == t.node[q]["left"]
           s == [m \in N \cup {LEAF} |-> IF m = n THEN q ELSE IF m = q THEN n ELSE m]
           L == Kid(t, "left")
           R == Kid(t, "right")
           P == Up(t)
           P2 == B!Renamed(P, s)
           new == B!RenamedSub(N, sub, s)
           H2 == [m \in N \cup {LEAF} |-> H[s[m]]]
<1>1. /\ Typed(t) /\ B!Hung(N, L, R, P, top, sub) /\ B!IsFiniteSet(N) /\ N \subseteq Key
      /\ B!Sorted(L, R, sub, N, Before) /\ B!NULL = LEAF /\ LEAF \notin N /\ NULL \notin N /\ NULL # LEAF
      /\ \A m \in N : Parent(t, m) \in N \cup {NULL}
  BY Finite, Keys DEF Shape, Hangs, Typed
<1>2. Predecessor(t, n, q)
  BY PredecessorPlace
<1>3. /\ n \in N /\ q \in N /\ q # n /\ l \in N /\ t.node[q]["right"] = LEAF /\ c \in N \cup {LEAF} /\ c \notin {q, n, l}
      /\ Parent(t, n) # n /\ Parent(t, q) # q /\ Parent(t, q) \in N
      /\ \A m \in N : Parent(t, m) \in N \cup {NULL} /\ \A x \in Side : t.node[m][x] \in N \cup {LEAF}
  BY <1>2 DEF Predecessor
<1>4. /\ q \in sub[l] /\ \A m \in sub[l] : m = q \/ <<m, q>> \in Before
  BY <1>3, RightmostLast
<1> HIDE DEF q, l, c
<1>5. Exchanged(t, u, n, q)
  BY <1>1, <1>2, SwapFields DEF q, l
<1>6. /\ Typed(u) /\ SameValues(t, u) /\ Nodes(u) = N /\ u.root = IF Parent(t, n) = NULL THEN q ELSE t.root
      /\ \A m \in N \cup {LEAF} : Color(u, m) = Color(t, s[m])
      /\ \A m \in N, x \in Side : u.node[m][x] = s[t.node[s[m]][x]]
      /\ \A m \in N : Parent(u, m) = IF m = c THEN q ELSE IF Parent(t, s[m]) = NULL THEN NULL ELSE s[Parent(t, s[m])]
  BY <1>5, Zenon DEF Exchanged, SameValues, c
<1>7. /\ s \in [N \cup {LEAF} -> N \cup {LEAF}] /\ s[LEAF] = LEAF /\ \A m \in N \cup {LEAF} : s[s[m]] = m
      /\ \A m \in N : s[m] \in N
      /\ s[n] = q /\ s[q] = n /\ \A m \in N \ {n, q} : s[m] = m
  BY <1>1, <1>3
<1>8. B!Exchange(N, s)
  BY <1>1, <1>7 DEF B!Exchange
<1> HIDE DEF s, H2
<1>9. /\ \A m \in N : L[m] = t.node[m]["left"] /\ R[m] = t.node[m]["right"]
      /\ \A m \in N : P[m] = IF Parent(t, m) = NULL THEN LEAF ELSE Parent(t, m)
      /\ DOMAIN L = N /\ DOMAIN R = N /\ DOMAIN P = N
  BY DEF Kid, Up
<1>10. Kid(u, "left") = B!Renamed(L, s) /\ Kid(u, "right") = B!Renamed(R, s)
  <2>1. Kid(u, "left") = [m \in N |-> u.node[m]["left"]] /\ Kid(u, "right") = [m \in N |-> u.node[m]["right"]]
    BY <1>6 DEF Kid
  <2>2. \A m \in N : u.node[m]["left"] = s[L[s[m]]] /\ u.node[m]["right"] = s[R[s[m]]]
    BY <1>6, <1>7, <1>9 DEF Side
  <2> HIDE DEF L, R
  <2> QED BY <2>1, <2>2, <1>9 DEF B!Renamed
<1> HIDE DEF L, R, P
<1>11. B!Hung(N, B!Renamed(L, s), B!Renamed(R, s), P2, s[top], new)
  <2> HIDE DEF N
  <2> QED BY <1>1, <1>8, B!ExchangeHung
<1>12. B!Sorted(B!Renamed(L, s), B!Renamed(R, s), new, N \ {n}, Before)
  <2>1. B!Total(Before, N)
    BY <1>1, BeforeTotal
  <2>2. L[n] = l
    BY <1>9 DEF l
  <2> HIDE DEF N
  <2> QED BY <2>1, <2>2, <1>1, <1>3, <1>4, <1>7, <1>8, B!ExchangeSorted, Zenon
<1>13. \A m \in N : Parent(u, m) \in N \cup {NULL}
  BY <1>3, <1>6, <1>7
<1>14. \A m \in N \ {c} : P2[m] = Up(u)[m]
  <2> TAKE m \in N \ {c}
  <2>1. P2[m] = s[P[s[m]]]
    BY <1>9 DEF B!Renamed
  <2>2. P[s[m]] = IF Parent(t, s[m]) = NULL THEN LEAF ELSE Parent(t, s[m])
    BY <1>7, <1>9
  <2>3. Up(u)[m] = IF Parent(u, m) = NULL THEN LEAF ELSE Parent(u, m)
    BY <1>6 DEF Up
  <2>4. Parent(t, s[m]) # NULL => s[Parent(t, s[m])] # NULL
    BY <1>1, <1>3, <1>7
  <2> QED BY <2>1, <2>2, <2>3, <2>4, <1>6, <1>7
<1>15. HangsBut(u, c, P2, s[top], new)
  BY <1>6, <1>10, <1>11, <1>13, <1>14 DEF HangsBut
<1>16. u.node[n]["left"] = c /\ u.node[n]["right"] = LEAF
  <2>1. u.node[n]["left"] = s[t.node[q]["left"]] /\ u.node[n]["right"] = s[t.node[q]["right"]]
    BY <1>3, <1>6, <1>7 DEF Side
  <2>2. s[c] = c
    BY <1>3, <1>7
  <2> QED BY <2>1, <2>2, <1>3, <1>7 DEF c
<1>17. OnlyChild(u, n) = c
  BY <1>16 DEF OnlyChild
<1>18. H \in [N \cup {LEAF} -> Nat] /\ H[LEAF] = 0 /\ \A m \in N : EvenAt(t, H, m) /\ CalmAt(t, m, LEAF)
  BY DEF Balanced, Even, Heights
<1>19. /\ H2 \in [N \cup {LEAF} -> Nat] /\ H2[LEAF] = 0 /\ \A m \in N \cup {LEAF} : H2[m] = H[s[m]]
  BY <1>7, <1>18 DEF H2
<1>20. ASSUME NEW m \in N PROVE EvenAt(u, H2, m) /\ CalmAt(u, m, LEAF)
  <2>1. s[m] \in N
    BY <1>7
  <2>2. ASSUME NEW x \in Side
        PROVE  /\ H2[u.node[m][x]] = H[t.node[s[m]][x]]
               /\ Color(u, u.node[m][x]) = Color(t, t.node[s[m]][x])
    <3>1. u.node[m][x] = s[t.node[s[m]][x]] /\ t.node[s[m]][x] \in N \cup {LEAF}
      BY <2>1, <1>3, <1>6
    <3>2. s[t.node[s[m]][x]] \in N \cup {LEAF} /\ s[s[t.node[s[m]][x]]] = t.node[s[m]][x]
      BY <3>1, <1>7
    <3> QED BY <3>1, <3>2, <1>6, <1>19
  <2>3. H2[m] = H[s[m]] /\ Color(u, m) = Color(t, s[m]) /\ Unit(u, m) = Unit(t, s[m])
    BY <1>6, <1>19 DEF Unit
  <2>4. EvenAt(u, H2, m)
    <3>1. \A x \in Side : H[s[m]] = H[t.node[s[m]][x]] + Unit(t, s[m])
      BY <2>1, <1>18 DEF EvenAt
    <3> QED BY <3>1, <2>2, <2>3 DEF EvenAt
  <2>5. CalmAt(u, m, LEAF)
    <3> SUFFICES ASSUME Color(u, m) = Red, NEW x \in Side PROVE Color(u, u.node[m][x]) = Black
      BY DEF CalmAt
    <3>1. Color(t, t.node[s[m]][x]) = Black
      BY <2>1, <2>3, <1>18 DEF CalmAt, Color
    <3> QED BY <3>1, <2>2
  <2> QED BY <2>4, <2>5
<1>21. Even(u, H2)
  BY <1>6, <1>19, <1>20 DEF Even, Heights
<1>22. BlackTop(u)
  <2> SUFFICES ASSUME NEW m \in N, Parent(u, m) = NULL PROVE Color(u, m) = Black
    BY <1>6 DEF BlackTop
  <2>1. Parent(t, s[m]) = NULL
    BY <1>1, <1>3, <1>6, <1>7
  <2> QED BY <2>1, <1>6, <1>7 DEF Balanced, BlackTop
<1>23. u.root \in N /\ (Parent(u, n) # NULL => u.root # n)
  BY <1>3, <1>6
<1> QED BY <1>3, <1>6, <1>10, <1>12, <1>15, <1>16, <1>17, <1>20, <1>21, <1>22, <1>23 DEF Detachable

\* A deletion removes a key, keeps the values of the others, and keeps the balance.
LEMMA EraseKeeps ==
  ASSUME CompareOrder, NEW t, Sound(t), IsRooted(t), NEW n \in Nodes(t), NEW u, u = EraseElement(t, n)
  PROVE  /\ Sound(u) /\ Nodes(u) = Nodes(t) \ {n}
         /\ \A m \in Nodes(t) \ {n} : u.node[m].value = t.node[m].value
<1> DEFINE N == Nodes(t)
           t1 == IF LEAF \in {t.node[n].left, t.node[n].right} THEN t ELSE SwapWithPredecessor(t, n)
           t2 == Unlink(t1, n)
           c == OnlyChild(t1, n)
           p == Parent(t1, n)
<1>1. Typed(t) /\ Shaped(t) /\ LEAF \notin N /\ NULL \notin N /\ NULL # LEAF
  BY Keys DEF Sound, Typed
<1>2. PICK sub : Shape(t, t.root, sub)
  BY <1>1, RootedShape
<1>3. t.root \in N /\ Parent(t, t.root) = NULL
  BY <1>1, RootedShape
<1>4. PICK H : Balanced(t, H)
  BY DEF Sound
<1>5. u = IF p # NULL /\ Black = Color(t1, n) /\ Black = Color(t1, c) THEN RepairAfterErase(t2, c, p) ELSE t2
  BY Zenon DEF EraseElement
<1>6. Detachable(t, t1, n)
  <2>1. CASE LEAF \in {t.node[n].left, t.node[n].right}
    <3>1. t1 = t
      BY <2>1
    <3> DEFINE x == OnlyChild(t, n)
    <3>2. HangsBut(t, x, Up(t), t.root, sub)
      BY <1>2 DEF HangsBut, Shape, Hangs
    <3>3. B!Sorted(Kid(t, "left"), Kid(t, "right"), sub, N \ {n}, Before)
      BY <1>2, Zenon DEF Shape, B!Sorted
    <3>4. x \in N \cup {LEAF}
      BY <1>1, ShapedAround DEF OnlyChild, Side
    <3>5. SameValues(t, t)
      BY DEF SameValues
    <3>6. Even(t, H) /\ BlackTop(t) /\ \A m \in N : CalmAt(t, m, LEAF)
      BY <1>4 DEF Balanced
    <3>7. Parent(t, n) # NULL => t.root # n
      BY <1>3
    <3> HIDE DEF x
    <3>8. x = OnlyChild(t, n)
      BY DEF x
    <3> HIDE DEF N, t1
    <3>9. Detachable(t, t, n)
      BY <3>2, <3>3, <3>4, <3>5, <3>6, <3>7, <3>8, <2>1, <1>1, <1>3 DEF Detachable, N
    <3> QED BY <3>1, <3>9
  <2>2. CASE LEAF \notin {t.node[n].left, t.node[n].right}
    <3>1. t1 = SwapWithPredecessor(t, n)
      BY <2>2
    <3> HIDE DEF t1
    <3> QED BY <3>1, <2>2, <1>2, <1>3, <1>4, ExchangeDetaches
  <2> QED BY <2>1, <2>2
<1> HIDE DEF t1
<1>7. /\ Typed(t1) /\ SameValues(t, t1) /\ Nodes(t1) = N /\ t1.root \in N /\ (p # NULL => t1.root # n)
      /\ c \in N \cup {LEAF} /\ LEAF \in {t1.node[n].left, t1.node[n].right}
      /\ BlackTop(t1) /\ \A m \in N : CalmAt(t1, m, LEAF)
  BY <1>6 DEF Detachable, SameValues
<1>8. PICK P, top, new : /\ HangsBut(t1, c, P, top, new)
                         /\ B!Sorted(Kid(t1, "left"), Kid(t1, "right"), new, Nodes(t1) \ {n}, Before)
  BY <1>6 DEF Detachable
<1>9. PICK H1 : Even(t1, H1)
  BY <1>6 DEF Detachable
<1>10. c # n /\ Placed(t1, n, p, top) /\ Unlinked(t1, t2, n, c, p) /\ Shaped(t2)
  BY <1>7, <1>8, UnlinkShape
<1> HIDE DEF t2, c, p
<1>11. c = OnlyChild(t1, n)
  BY DEF c
<1>12. AfterUnlink(t1, t2, n, c, p)
  BY <1>7, <1>8, <1>9, <1>10, <1>11, UnlinkBalance
<1>13. /\ Typed(t2) /\ Nodes(t2) = N \ {n} /\ t2.root \in (N \ {n}) \cup {NULL}
       /\ \A m \in N \ {n} : t2.node[m].value = t.node[m].value
  BY <1>7, <1>10 DEF Unlinked, SameValues
<1>14. CASE p # NULL /\ Color(t1, n) = Black /\ Color(t1, c) = Black
  <2> DEFINE side == SideOf(t1, n)
  <2>1. u = RepairAfterErase(t2, c, p)
    BY <1>5, <1>14
  <2>2. t2.node[p][side] = c /\ \E H2 : Light(t2, H2, p, side)
    BY <1>12, <1>14 DEF AfterUnlink
  <2> HIDE DEF side
  <2>3. Mended(t2, u)
    BY <2>1, <2>2, <1>10, EraseRepairMends
  <2>4. Shaped(u) /\ SameValues(t2, u) /\ u.root \in Nodes(t2) \cup {t2.root} /\ \E H2 : Balanced(u, H2)
    BY <2>3 DEF Mended
  <2>5. Nodes(u) = N \ {n} /\ \A m \in N \ {n} : u.node[m].value = t.node[m].value
    BY <2>4, <1>13 DEF SameValues
  <2>6. Typed(u) /\ u.root \in Nodes(u) \cup {NULL}
    BY <2>4, <2>5, <1>13 DEF Shaped, Shape, Hangs
  <2> QED BY <2>4, <2>5, <2>6 DEF Sound
<1>15. CASE ~(p # NULL /\ Color(t1, n) = Black /\ Color(t1, c) = Black)
  <2>1. u = t2
    BY <1>5, <1>15
  <2>2. \E H2 : Balanced(t2, H2)
    BY <1>12, <1>15 DEF AfterUnlink
  <2> QED BY <2>1, <2>2, <1>10, <1>13 DEF Sound
<1> QED BY <1>14, <1>15

-----------------------------------------------------------------------------
(* The invariant, and what it means.                                       *)

\* A lookup finds the node of its key, and no other.
LEMMA FindExact ==
  ASSUME CompareOrder, NEW t, Sound(t), IsRooted(t), NEW k \in Key
  PROVE  FindByKey(t, k) = IF k \in Nodes(t) THEN k ELSE NULL
<1>1. CASE Nodes(t) = {}
  BY <1>1 DEF FindByKey, IsRooted
<1>2. CASE Nodes(t) # {}
  <2>1. Shaped(t)
    BY <1>2 DEF Sound
  <2>2. PICK sub : Shape(t, t.root, sub)
    BY <2>1, <1>2, RootedShape
  <2>3. t.root \in Nodes(t) /\ t.root # NULL
    BY <2>1, <1>2, RootedShape, Keys DEF Sound, Typed
  <2> DEFINE p == Descend(t, k)
  <2>4. p \in Nodes(t) /\ (Compare(k, p) = 0 <=> p = k) /\ (k \in Nodes(t) => p = k)
    BY <2>2, <2>3, DescendEnds, Zenon
  <2>5. FindByKey(t, k) = IF Compare(k, p) = 0 THEN p ELSE NULL
    BY <2>3 DEF FindByKey
  <2> HIDE DEF p
  <2> QED BY <2>4, <2>5
<1> QED BY <1>1, <1>2

\* The node above all the others, in any tree.
TopOf(t) == IF Nodes(t) = {} THEN NULL ELSE CHOOSE n \in Nodes(t) : Parent(t, n) = NULL

\* The root of a tree is the top when it has no parent.
LEMMA TopRooted ==
  ASSUME NEW t, Sound(t)
  PROVE  /\ t.root = TopOf(t) <=> IsRooted(t)
         /\ Nodes(t) # {} => TopOf(t) \in Nodes(t) /\ Parent(t, TopOf(t)) = NULL
<1>1. CASE Nodes(t) = {}
  BY <1>1 DEF TopOf, IsRooted
<1>2. CASE Nodes(t) # {}
  <2>1. Shaped(t) /\ "left" \in Side
    BY <1>2 DEF Sound, Side
  <2>2. \E n \in Nodes(t) : Parent(t, n) = NULL
    BY <2>1, <1>2, ShapedAround
  <2>3. TopOf(t) \in Nodes(t) /\ Parent(t, TopOf(t)) = NULL
    BY <2>2, <1>2 DEF TopOf
  <2>4. \A m \in Nodes(t) : Parent(t, m) = NULL => m = TopOf(t)
    BY <2>1, <2>3, ShapedAround
  <2> QED BY <2>3, <2>4, <1>2 DEF IsRooted
<1> QED BY <1>1, <1>2

\* The empty tree is in order.
LEMMA EmptySound == Sound(EmptyTree) /\ Nodes(EmptyTree) = {}
<1>1. EmptyTree.root = NULL /\ EmptyTree.node = << >> /\ EmptyTree = [root |-> EmptyTree.root, node |-> EmptyTree.node]
  BY DEF EmptyTree
<1>2. Nodes(EmptyTree) = {}
  BY <1>1 DEF Nodes
<1>3. EmptyTree.node \in [{} -> Cell]
  BY <1>1
<1>4. IsFiniteSet({})
  BY FS_EmptySet
<1> QED BY <1>1, <1>2, <1>3, <1>4, Keys DEF Sound, Typed

\* Every operation keeps the tree in order, whether or not it loses the root.
LEMMA SoundStep ==
  ASSUME CompareOrder, Sound(tree), [IntactNext]_tree
  PROVE  Sound(tree')
<1>1. CASE UNCHANGED tree
  BY <1>1
<1>2. ASSUME Rooted, NEW k \in Key, NEW v \in Value, Insert(k, v)
      PROVE  Sound(tree')
  <2>1. IsRooted(tree)
    BY <1>2, TopRooted DEF Rooted, Top, TopOf, Live
  <2> QED BY <2>1, <1>2, InsertKeeps DEF Insert
<1>3. ASSUME Rooted, NEW k \in Key, Erase(k)
      PROVE  Sound(tree')
  <2>1. IsRooted(tree)
    BY <1>3, TopRooted DEF Rooted, Top, TopOf, Live
  <2>2. CASE k \in Nodes(tree)
    <3>1. FindByKey(tree, k) = k /\ k # NULL
      BY <2>1, <2>2, FindExact, Keys
    <3>2. tree' = EraseElement(tree, k)
      BY <3>1, <1>3 DEF Erase
    <3> QED BY <2>1, <2>2, <3>2, EraseKeeps
  <2>3. CASE k \notin Nodes(tree)
    BY <2>1, <2>3, <1>3, FindExact DEF Erase
  <2> QED BY <2>2, <2>3
<1>4. CASE Drop
  BY <1>4, EmptySound DEF Drop
<1> QED BY <1>1, <1>2, <1>3, <1>4 DEF IntactNext, Stay, Next

\* The tree is in order at every moment, as long as its root is the top.
THEOREM TreeKept ==
  ASSUME CompareOrder
  PROVE  IntactSpec => []Sound(tree)
<1>1. Init => Sound(tree)
  BY EmptySound DEF Init
<1>2. Sound(tree) /\ [IntactNext]_tree => Sound(tree)'
  BY SoundStep
<1> QED BY <1>1, <1>2, PTL DEF IntactSpec

\* At every moment each link leads to a node of the tree or to none.
THEOREM TypesCorrect ==
  ASSUME CompareOrder
  PROVE  IntactSpec => []TypeOK
<1>1. Sound(tree) => TypeOK
  <2> SUFFICES ASSUME Sound(tree) PROVE TypeOK
    OBVIOUS
  <2>1. Typed(tree) /\ tree.root \in Live \cup {NULL} /\ Live \subseteq Key
    BY DEF Sound, Live, Typed
  <2>2. ASSUME NEW n \in Live
        PROVE  tree.node[n] \in [parent : Live \cup {NULL}, left : Live \cup {LEAF},
                                 right : Live \cup {LEAF}, color : {Red, Black}, value : Value]
    <3>1. Shaped(tree) /\ n \in Nodes(tree) /\ "left" \in Side /\ "right" \in Side
      BY <2>2 DEF Sound, Live, Side
    <3>2. /\ tree.node[n]["left"] \in Live \cup {LEAF} /\ tree.node[n]["parent"] \in Live \cup {NULL}
          /\ tree.node[n]["right"] \in Live \cup {LEAF}
      BY <3>1, ShapedAround DEF Live
    <3>3. tree.node[n] \in Cell
      BY <2>1, <3>1 DEF Typed
    <3> QED BY <3>2, <3>3 DEF Cell
  <2>3. tree.node = [n \in Live |-> tree.node[n]]
    BY <2>1 DEF Typed, Live
  <2>4. tree.node \in [Live -> [parent : Live \cup {NULL}, left : Live \cup {LEAF},
                                right : Live \cup {LEAF}, color : {Red, Black}, value : Value]]
    BY <2>2, <2>3, Zenon
  <2> QED BY <2>1, <2>4 DEF TypeOK
<1> QED BY <1>1, TreeKept, PTL

\* Of functions that a recursion from the children defines there is one.
LEMMA OneFold ==
  ASSUME NEW t, NEW top, NEW sub, Hangs(t, top, sub), NEW f, NEW g,
         f[LEAF] = g[LEAF],
         \A n \in Nodes(t) : f[t.node[n].left] = g[t.node[n].left] /\ f[t.node[n].right] = g[t.node[n].right] => f[n] = g[n]
  PROVE  \A n \in Nodes(t) \cup {LEAF} : f[n] = g[n]
<1> DEFINE N == Nodes(t)
           L == Kid(t, "left")
           R == Kid(t, "right")
           T == {n \in N : f[n] # g[n]}
<1>1. B!Hung(N, L, R, Up(t), top, sub) /\ B!IsFiniteSet(N)
  BY Finite DEF Hangs, Typed
<1>2. \A n \in N : /\ L[n] = t.node[n].left /\ R[n] = t.node[n].right
                   /\ t.node[n].left \in N \cup {LEAF} /\ t.node[n].right \in N \cup {LEAF}
  BY HangsAround DEF Kid, Side
<1>3. \A n \in T : L[n] \in T \/ R[n] \in T
  <2> HIDE DEF L, R
  <2> QED BY <1>2
<1>4. T \in SUBSET N
  OBVIOUS
<1>5. T = {}
  <2> HIDE DEF N, L, R, T
  <2> QED BY <1>1, <1>3, <1>4, B!DownInduction
<1> QED BY <1>5

\* Members gives the subtrees.
LEMMA MembersExact ==
  ASSUME NEW top, NEW sub, Hangs(tree, top, sub)
  PROVE  \A n \in Live \cup {LEAF} : Members[n] = sub[n]
<1> DEFINE below == CHOOSE f : f = [n \in Live \cup {LEAF} |->
                        IF n = LEAF THEN {} ELSE {n} \cup f[tree.node[n].left] \cup f[tree.node[n].right]]
<1>1. Members = below
  BY Zenon DEF Members
<1>2. LEAF \notin Live /\ Live = Nodes(tree) /\ B!NULL = LEAF
  BY Keys DEF Hangs, Typed, Live
<1>3. /\ sub \in [Live \cup {LEAF} -> SUBSET Live] /\ sub[LEAF] = {}
      /\ \A n \in Live : sub[n] = {n} \cup sub[tree.node[n].left] \cup sub[tree.node[n].right]
  <2>1. B!Hung(Live, Kid(tree, "left"), Kid(tree, "right"), Up(tree), top, sub)
    BY <1>2 DEF Hangs
  <2>2. \A n \in Live : Kid(tree, "left")[n] = tree.node[n].left /\ Kid(tree, "right")[n] = tree.node[n].right
    BY <1>2 DEF Kid
  <2> QED BY <2>1, <2>2, <1>2 DEF B!Hung
<1>4. sub = [n \in Live \cup {LEAF} |->
               IF n = LEAF THEN {} ELSE {n} \cup sub[tree.node[n].left] \cup sub[tree.node[n].right]]
  <2>1. sub = [n \in Live \cup {LEAF} |-> sub[n]]
    BY <1>3
  <2>2. \A n \in Live \cup {LEAF} :
          sub[n] = IF n = LEAF THEN {} ELSE {n} \cup sub[tree.node[n].left] \cup sub[tree.node[n].right]
    BY <1>2, <1>3
  <2> QED BY <2>1, <2>2, Zenon
<1>5. below = [n \in Live \cup {LEAF} |->
                 IF n = LEAF THEN {} ELSE {n} \cup below[tree.node[n].left] \cup below[tree.node[n].right]]
  BY <1>4, Zenon
<1> HIDE DEF below
<1>6. \A n \in Live \cup {LEAF} :
        below[n] = IF n = LEAF THEN {} ELSE {n} \cup below[tree.node[n].left] \cup below[tree.node[n].right]
  BY <1>5, Zenon
<1>7. below[LEAF] = sub[LEAF]
  BY <1>3, <1>6, Zenon
<1>8. \A n \in Nodes(tree) : below[tree.node[n].left] = sub[tree.node[n].left] /\ below[tree.node[n].right] = sub[tree.node[n].right]
                        => below[n] = sub[n]
  BY <1>2, <1>3, <1>6
<1>9. \A n \in Nodes(tree) \cup {LEAF} : below[n] = sub[n]
  BY <1>7, <1>8, OneFold
<1> QED BY <1>1, <1>2, <1>9

\* At every moment, and even after the operation that loses the root, the nodes form
\* one tree, linked both ways, with the keys in order.
THEOREM OrderKept ==
  ASSUME CompareOrder
  PROVE  IntactSpec => []SearchTree
<1>1. Sound(tree) => SearchTree
  <2> SUFFICES ASSUME Sound(tree), Live # {} PROVE SearchTree
    BY DEF SearchTree
  <2>1. Shaped(tree) /\ Nodes(tree) # {} /\ Live = Nodes(tree)
    BY DEF Sound, Live
  <2>2. PICK top, sub : Shape(tree, top, sub)
    BY <2>1 DEF Shaped
  <2>3. Hangs(tree, top, sub) /\ B!Hung(Live, Kid(tree, "left"), Kid(tree, "right"), Up(tree), top, sub)
        /\ B!Sorted(Kid(tree, "left"), Kid(tree, "right"), sub, Live, Before) /\ B!NULL = LEAF
        /\ Live \subseteq Key
    BY <2>1, <2>2, Keys DEF Shape, Hangs, Typed
  <2>4. \A n \in Live \cup {LEAF} : Members[n] = sub[n]
    BY <2>3, MembersExact
  <2>5. Top = top
    <3>1. Top \in Nodes(tree) /\ Parent(tree, Top) = NULL
      BY <2>1, TopRooted DEF TopOf, Top, Live
    <3> QED BY <3>1, <2>3, HangsAround, Sides
  <2>6. Members[Top] = Live
    BY <2>1, <2>3, <2>4, <2>5, HangsAround, Sides DEF B!Hung
  <2>7. ASSUME NEW n \in Live
        PROVE  /\ \A m \in Members[tree.node[n].left]  : Compare(m, n) < 0
               /\ \A m \in Members[tree.node[n].right] : Compare(n, m) < 0
               /\ \A m \in {tree.node[n].left, tree.node[n].right} \ {LEAF} : Parent(tree, m) = n
    <3>1. /\ Kid(tree, "left")[n] = tree.node[n].left /\ Kid(tree, "right")[n] = tree.node[n].right
          /\ tree.node[n].left \in Live \cup {LEAF} /\ tree.node[n].right \in Live \cup {LEAF}
          /\ \A m \in Live : Parent(tree, m) = n <=> m \in {tree.node[n].left, tree.node[n].right}
      BY <2>1, <2>3, HangsAround DEF Side, Other
    <3>2. /\ Members[tree.node[n].left] = sub[Kid(tree, "left")[n]]
          /\ Members[tree.node[n].right] = sub[Kid(tree, "right")[n]]
      BY <2>4, <3>1
    <3>3. sub[Kid(tree, "left")[n]] \subseteq Live /\ sub[Kid(tree, "right")[n]] \subseteq Live
      BY <2>3, <3>1 DEF B!Hung
    <3>4. \A x, y \in Key : <<x, y>> \in Before <=> Compare(x, y) < 0
      BY BeforeTotal, Zenon
    <3>5. /\ \A m \in sub[Kid(tree, "left")[n]]  : <<m, n>> \in Before
          /\ \A m \in sub[Kid(tree, "right")[n]] : <<n, m>> \in Before
      BY <2>3, <3>3, Zenon DEF B!Sorted
    <3> QED BY <2>3, <3>1, <3>2, <3>3, <3>4, <3>5, Zenon
  <2> QED BY <2>6, <2>7 DEF SearchTree
<1> QED BY <1>1, TreeKept, PTL

\* The black nodes on the ways down from a node, whichever way, are as many as H says.
LEMMA DepthsEven ==
  ASSUME NEW top, NEW sub, Hangs(tree, top, sub), NEW H, Even(tree, H), NEW depth,
         depth = CHOOSE f : f = [n \in Live \cup {LEAF} |->
                   IF n = LEAF THEN {0}
                   ELSE {d + (IF Color(tree, n) = Black THEN 1 ELSE 0) :
                           d \in f[tree.node[n].left] \cup f[tree.node[n].right]}]
  PROVE  \A n \in Live : depth[n] = {H[n]}
<1> DEFINE G == [n \in Live \cup {LEAF} |-> {H[n]}]
<1>1. LEAF \notin Live /\ Live = Nodes(tree)
  BY Keys DEF Hangs, Typed, Live
<1>2. \A n \in Live : tree.node[n].left \in Live \cup {LEAF} /\ tree.node[n].right \in Live \cup {LEAF}
  BY <1>1, HangsAround DEF Side
<1>3. /\ H[LEAF] = 0 /\ H \in [Live \cup {LEAF} -> Nat]
      /\ \A n \in Live : H[n] = H[tree.node[n].left] + Unit(tree, n) /\ H[n] = H[tree.node[n].right] + Unit(tree, n)
  BY <1>1 DEF Even, Heights, EvenAt, Side
<1>4. ASSUME NEW f, NEW n \in Live, f[tree.node[n].left] = {H[tree.node[n].left]},
             f[tree.node[n].right] = {H[tree.node[n].right]}
      PROVE  {d + (IF Color(tree, n) = Black THEN 1 ELSE 0) : d \in f[tree.node[n].left] \cup f[tree.node[n].right]}
             = {H[n]}
  BY <1>3, <1>4 DEF Unit
<1>5. \A n \in Live \cup {LEAF} : G[n] = {H[n]}
  OBVIOUS
<1> HIDE DEF G
<1>6. \A n \in Live \cup {LEAF} :
        G[n] = IF n = LEAF THEN {0}
               ELSE {d + (IF Color(tree, n) = Black THEN 1 ELSE 0) :
                       d \in G[tree.node[n].left] \cup G[tree.node[n].right]}
  <2> TAKE n \in Live \cup {LEAF}
  <2>1. CASE n = LEAF
    BY <2>1, <1>3, <1>5
  <2>2. CASE n # LEAF
    <3>1. n \in Live /\ G[n] = {H[n]} /\ G[tree.node[n].left] = {H[tree.node[n].left]}
          /\ G[tree.node[n].right] = {H[tree.node[n].right]}
      BY <2>2, <1>2, <1>5
    <3>2. {d + (IF Color(tree, n) = Black THEN 1 ELSE 0) : d \in G[tree.node[n].left] \cup G[tree.node[n].right]}
          = {H[n]}
      BY <3>1, <1>4, Zenon
    <3> QED BY <3>1, <3>2, <2>2, Zenon
  <2> QED BY <2>1, <2>2
<1>7. G = [n \in Live \cup {LEAF} |->
             IF n = LEAF THEN {0}
             ELSE {d + (IF Color(tree, n) = Black THEN 1 ELSE 0) :
                     d \in G[tree.node[n].left] \cup G[tree.node[n].right]}]
  <2>1. G = [n \in Live \cup {LEAF} |-> G[n]]
    BY Zenon DEF G
  <2> QED BY <2>1, <1>6, Zenon
<1>8. depth = [n \in Live \cup {LEAF} |->
                 IF n = LEAF THEN {0}
                 ELSE {d + (IF Color(tree, n) = Black THEN 1 ELSE 0) :
                         d \in depth[tree.node[n].left] \cup depth[tree.node[n].right]}]
  BY <1>7, Zenon
<1>9. \A n \in Live \cup {LEAF} :
        depth[n] = IF n = LEAF THEN {0}
                   ELSE {d + (IF Color(tree, n) = Black THEN 1 ELSE 0) :
                           d \in depth[tree.node[n].left] \cup depth[tree.node[n].right]}
  BY ONLY <1>8, Zenon
<1>10. depth[LEAF] = G[LEAF]
  <2>1. depth[LEAF] = {0}
    BY ONLY <1>9, Zenon
  <2> QED BY ONLY <2>1, <1>3, <1>5
<1>11. ASSUME NEW n \in Nodes(tree), depth[tree.node[n].left] = G[tree.node[n].left],
              depth[tree.node[n].right] = G[tree.node[n].right]
       PROVE  depth[n] = G[n]
  <2>1. n \in Live /\ n # LEAF
    BY <1>1
  <2>2. depth[tree.node[n].left] = {H[tree.node[n].left]} /\ depth[tree.node[n].right] = {H[tree.node[n].right]}
    BY <2>1, <1>2, <1>5, <1>11, Zenon
  <2>3. {d + (IF Color(tree, n) = Black THEN 1 ELSE 0) : d \in depth[tree.node[n].left] \cup depth[tree.node[n].right]}
        = {H[n]}
    BY ONLY <2>1, <2>2, <1>4
  <2>4. depth[n] = {d + (IF Color(tree, n) = Black THEN 1 ELSE 0) :
                      d \in depth[tree.node[n].left] \cup depth[tree.node[n].right]}
    BY ONLY <2>1, <1>9, Zenon
  <2> QED BY <2>1, <2>3, <2>4, <1>5, ZenonT(30)
<1>12. \A n \in Nodes(tree) \cup {LEAF} : depth[n] = G[n]
  <2> HIDE DEF G
  <2> QED BY ONLY <1>10, <1>11, OneFold, Hangs(tree, top, sub)
<1> QED BY <1>1, <1>5, <1>12, Zenon

\* At every moment the tree is balanced: a black top, no red node below a red one, and
\* as many black nodes on every way down.
THEOREM BalanceKept ==
  ASSUME CompareOrder
  PROVE  IntactSpec => []RedBlack
<1>1. Sound(tree) => RedBlack
  <2> SUFFICES ASSUME Sound(tree), Live # {} PROVE RedBlack
    BY DEF RedBlack
  <2>1. Shaped(tree) /\ Nodes(tree) # {} /\ Live = Nodes(tree) /\ LEAF \notin Live /\ Typed(tree)
    BY Keys DEF Sound, Live, Typed
  <2>2. PICK top, sub : Hangs(tree, top, sub)
    BY <2>1 DEF Shaped, Shape
  <2>3. PICK H : Balanced(tree, H)
    BY <2>1 DEF Sound
  <2>4. Top \in Live /\ Parent(tree, Top) = NULL
    BY <2>1, TopRooted DEF TopOf, Top, Live
  <2> DEFINE depth == CHOOSE f : f = [n \in Live \cup {LEAF} |->
                        IF n = LEAF THEN {0}
                        ELSE {d + (IF Color(tree, n) = Black THEN 1 ELSE 0) :
                                d \in f[tree.node[n].left] \cup f[tree.node[n].right]}]
  <2>5. \A n \in Live : depth[n] = {H[n]}
    BY <2>2, <2>3, DepthsEven, Zenon DEF Balanced
  <2>6. Cardinality(depth[Top]) = 1
    <3>1. depth[Top] = {H[Top]}
      BY <2>4, <2>5, Zenon
    <3> HIDE DEF depth
    <3> QED BY <3>1, FS_Singleton, Zenon
  <2>7. Color(tree, Top) = Black
    BY <2>1, <2>3, <2>4 DEF Balanced, BlackTop
  <2>8. ASSUME NEW n \in Live, Color(tree, n) = Red
        PROVE  Black = Color(tree, tree.node[n].left) /\ Black = Color(tree, tree.node[n].right)
    <3>1. \A s \in Side : tree.node[n][s] = LEAF \/ Color(tree, tree.node[n][s]) = Black
      BY <2>1, <2>3, <2>8 DEF Balanced, CalmAt
    <3>2. Color(tree, LEAF) = Black
      BY DEF Color
    <3> QED BY <3>1, <3>2 DEF Side
  <2> HIDE DEF depth
  <2> QED BY <2>6, <2>7, <2>8, Zenon DEF RedBlack, depth
<1> QED BY <1>1, TreeKept, PTL

\* As long as the root is the top, a lookup finds the element of its key, or none.
THEOREM LookupsExact ==
  ASSUME CompareOrder
  PROVE  IntactSpec => []LookupExact
<1>1. Sound(tree) => LookupExact
  <2> SUFFICES ASSUME Sound(tree), tree.root = Top PROVE FindsPresent /\ MissesAbsent
    BY DEF LookupExact
  <2>1. IsRooted(tree)
    BY TopRooted DEF Top, TopOf, Live
  <2>2. Live \subseteq Key
    BY DEF Sound, Typed, Live
  <2> QED BY <2>1, <2>2, FindExact DEF FindsPresent, MissesAbsent, Live
<1> QED BY <1>1, TreeKept, PTL

\* What the nodes of a tree say, key by key.
Contents(t) == [k \in Nodes(t) |-> t.node[k].value]

\* Seen through lookups, a tree with its root at the top is the map of its contents.
LEMMA ViewContents ==
  ASSUME CompareOrder, NEW t, Sound(t), IsRooted(t)
  PROVE  [k \in {x \in Key : FindByKey(t, x) # NULL} |-> t.node[FindByKey(t, k)].value] = Contents(t)
<1>1. Nodes(t) \subseteq Key /\ NULL \notin Nodes(t)
  BY Keys DEF Sound, Typed
<1>2. \A k \in Key : FindByKey(t, k) = IF k \in Nodes(t) THEN k ELSE NULL
  BY FindExact
<1>3. {x \in Key : FindByKey(t, x) # NULL} = Nodes(t)
  BY <1>1, <1>2
<1>4. \A k \in Nodes(t) : FindByKey(t, k) = k
  BY <1>1, <1>2
<1> QED BY <1>3, <1>4 DEF Contents

\* An insertion puts one pair.
LEMMA InsertPuts ==
  ASSUME CompareOrder, NEW t, Sound(t), IsRooted(t), NEW k \in Key, NEW v \in Value,
         NEW u, u = InsertElement(t, k, v)
  PROVE  Contents(u) = [x \in DOMAIN Contents(t) \cup {k} |-> IF x = k THEN v ELSE Contents(t)[x]]
<1>1. /\ Nodes(u) = Nodes(t) \cup {k} /\ u.node[k].value = v
      /\ \A m \in Nodes(t) \ {k} : u.node[m].value = t.node[m].value
  BY InsertKeeps
<1>2. DOMAIN Contents(t) = Nodes(t) /\ \A x \in Nodes(t) : Contents(t)[x] = t.node[x].value
  BY DEF Contents
<1>3. Contents(u) = [x \in Nodes(t) \cup {k} |-> u.node[x].value]
  BY <1>1 DEF Contents
<1>4. \A x \in Nodes(t) \cup {k} : u.node[x].value = IF x = k THEN v ELSE Contents(t)[x]
  BY <1>1, <1>2
<1> QED BY <1>2, <1>3, <1>4

\* A deletion removes one.
LEMMA EraseRemoves ==
  ASSUME CompareOrder, NEW t, Sound(t), IsRooted(t), NEW k \in Nodes(t), NEW u, u = EraseElement(t, k)
  PROVE  Contents(u) = [x \in DOMAIN Contents(t) \ {k} |-> Contents(t)[x]]
<1>1. Nodes(u) = Nodes(t) \ {k} /\ \A m \in Nodes(t) \ {k} : u.node[m].value = t.node[m].value
  BY EraseKeeps
<1>2. DOMAIN Contents(t) = Nodes(t) /\ \A x \in Nodes(t) : Contents(t)[x] = t.node[x].value
  BY DEF Contents
<1> QED BY <1>1, <1>2 DEF Contents

\* The map of an empty tree is empty.
LEMMA EmptySays == Contents(EmptyTree) = << >> /\ IsRooted(EmptyTree)
<1>1. Nodes(EmptyTree) = {} /\ EmptyTree.root = NULL
  BY EmptySound DEF EmptyTree
<1> QED BY <1>1 DEF Contents, IsRooted

\* An operation of a tree whose root is the top is one of the map.
LEMMA StepsMap ==
  ASSUME CompareOrder, Sound(tree), IsRooted(tree), IsRooted(tree'), Next
  PROVE  [Map!Next]_View
<1>1. Sound(tree')
  <2>1. Rooted
    BY TopRooted DEF Rooted, Top, TopOf, Live
  <2> QED BY <2>1, SoundStep DEF IntactNext
<1>2. View = Contents(tree)
  BY ViewContents DEF View
<1>3. View' = Contents(tree')
  BY <1>1, ViewContents, Zenon DEF View
<1>4. ASSUME NEW k \in Key, NEW v \in Value, Insert(k, v)
      PROVE  Map!Put(k, v)
  <2>1. Contents(tree') = [x \in DOMAIN Contents(tree) \cup {k} |-> IF x = k THEN v ELSE Contents(tree)[x]]
    BY <1>4, InsertPuts DEF Insert
  <2> QED BY <2>1, <1>2, <1>3 DEF Map!Put
<1>5. ASSUME NEW k \in Key, Erase(k)
      PROVE  Map!Remove(k) \/ UNCHANGED View
  <2>1. CASE k \in Nodes(tree)
    <3>1. FindByKey(tree, k) = k /\ k # NULL
      BY <2>1, FindExact, Keys
    <3>2. tree' = EraseElement(tree, k)
      BY <3>1, <1>5 DEF Erase
    <3>3. Contents(tree') = [x \in DOMAIN Contents(tree) \ {k} |-> Contents(tree)[x]]
      BY <3>2, <2>1, EraseRemoves
    <3>4. DOMAIN Contents(tree) \ {k} \subseteq DOMAIN Contents(tree)
      OBVIOUS
    <3> QED BY <3>3, <1>2, <1>3 DEF Map!Remove, Map!Restrict
  <2>2. CASE k \notin Nodes(tree)
    <3>1. tree' = tree
      BY <2>2, <1>5, FindExact DEF Erase
    <3> QED BY <3>1, <1>2, <1>3
  <2> QED BY <2>1, <2>2
<1>6. ASSUME Drop PROVE Map!Clear
  BY <1>3, <1>6, EmptySays DEF Drop, Map!Clear
<1> QED BY <1>4, <1>5, <1>6 DEF Next, Map!Next

\* As long as the root is the top, every operation changes what the map says of the
\* key it is given, and nothing of the others, however much the nodes move.
THEOREM TreeImplementsMap ==
  ASSUME CompareOrder
  PROVE  IntactSpec => ImplementsKeyMap
<1>1. Init => Map!Init
  <2> SUFFICES ASSUME Init PROVE Map!Init
    OBVIOUS
  <2>1. Sound(tree) /\ IsRooted(tree) /\ Contents(tree) = << >>
    BY EmptySound, EmptySays DEF Init
  <2>2. View = Contents(tree)
    BY <2>1, ViewContents, Zenon DEF View
  <2> QED BY <2>1, <2>2 DEF Map!Init
<1>2. Sound(tree) /\ Sound(tree)' /\ [IntactNext]_tree => [tree'.root = Top' => [Map!Next]_View]_tree
  <2> SUFFICES ASSUME Sound(tree), Sound(tree'), IntactNext, tree'.root = Top' PROVE [Map!Next]_View \/ tree' = tree
    OBVIOUS
  <2>1. CASE Stay
    BY <2>1 DEF Stay
  <2>2. CASE Rooted /\ Next
    <3>1. IsRooted(tree)
      BY <2>2, TopRooted DEF Rooted, Top, TopOf, Live
    <3>2. Top' = TopOf(tree')
      BY DEF Top, TopOf, Live, Parent
    <3>3. IsRooted(tree')
      BY <3>2, TopRooted
    <3> QED BY <3>1, <3>3, <2>2, StepsMap
  <2> QED BY <2>1, <2>2 DEF IntactNext
<1> QED BY <1>1, <1>2, TreeKept, PTL DEF IntactSpec, ImplementsKeyMap

-----------------------------------------------------------------------------
(* Iteration.                                                              *)

\* A tree in order, in the words of BinaryTree.
InWords(t, top, sub) ==
  /\ B!Hung(Nodes(t), Kid(t, "left"), Kid(t, "right"), Up(t), top, sub) /\ B!IsFiniteSet(Nodes(t))
  /\ B!Sorted(Kid(t, "left"), Kid(t, "right"), sub, Nodes(t), Before) /\ B!Total(Before, Nodes(t))

\* What the links of a tree in order lead to.
LEMMA LinksInWords ==
  ASSUME CompareOrder, NEW t, NEW top, NEW sub, Shape(t, top, sub)
  PROVE  /\ InWords(t, top, sub) /\ Nodes(t) \subseteq Key
         /\ B!NULL = LEAF /\ LEAF \notin Nodes(t) /\ NULL \notin Nodes(t) /\ NULL # LEAF
         /\ \A m \in Nodes(t) :
              /\ Kid(t, "left")[m] = t.node[m].left /\ Kid(t, "right")[m] = t.node[m].right
              /\ t.node[m].left \in Nodes(t) \cup {LEAF} /\ t.node[m].right \in Nodes(t) \cup {LEAF}
              /\ Up(t)[m] = (IF Parent(t, m) = NULL THEN LEAF ELSE Parent(t, m))
              /\ Parent(t, m) \in Nodes(t) \cup {NULL}
<1>1. Hangs(t, top, sub) /\ B!Sorted(Kid(t, "left"), Kid(t, "right"), sub, Nodes(t), Before)
  BY DEF Shape
<1>2. Nodes(t) \subseteq Key /\ IsFiniteSet(Nodes(t)) /\ B!Hung(Nodes(t), Kid(t, "left"), Kid(t, "right"), Up(t), top, sub)
  BY <1>1 DEF Hangs, Typed
<1>3. InWords(t, top, sub)
  BY <1>1, <1>2, Finite, BeforeTotal DEF InWords
<1>4. ASSUME NEW m \in Nodes(t)
      PROVE  /\ Kid(t, "left")[m] = t.node[m].left /\ Kid(t, "right")[m] = t.node[m].right
             /\ t.node[m].left \in Nodes(t) \cup {LEAF} /\ t.node[m].right \in Nodes(t) \cup {LEAF}
             /\ Up(t)[m] = (IF Parent(t, m) = NULL THEN LEAF ELSE Parent(t, m))
             /\ Parent(t, m) \in Nodes(t) \cup {NULL}
  <2>1. "left" \in Side /\ "right" \in Side
    BY DEF Side
  <2> QED BY <2>1, <1>1, HangsAround
<1> QED BY <1>2, <1>3, <1>4, Keys

\* The recursion of Leftmost leads to the first node of every subtree.
LEMMA LeftmostFirst ==
  ASSUME CompareOrder, NEW t, NEW top, NEW sub, Shape(t, top, sub)
  PROVE  \E first : B!Lasts(Nodes(t), Kid(t, "left"), first) /\ \A n \in Nodes(t) : Leftmost(t, n) = first[n]
<1> DEFINE N == Nodes(t)
           L == Kid(t, "left")
           R == Kid(t, "right")
           P == Up(t)
           first == CHOOSE f : f = [m \in N |-> IF t.node[m].left = LEAF THEN m ELSE f[t.node[m].left]]
<1>1. /\ B!Hung(N, L, R, P, top, sub) /\ B!IsFiniteSet(N) /\ B!NULL = LEAF /\ LEAF \notin N
      /\ \A m \in N : L[m] = t.node[m].left /\ L[m] \in N \cup {LEAF}
  BY LinksInWords DEF InWords
<1>2. \A n \in N : Leftmost(t, n) = first[n]
  BY Zenon DEF Leftmost
<1> HIDE DEF L, R, P
<1>3. ASSUME N # {}
      PROVE  \E f \in [N -> N] : \A m \in N : f[m] = IF L[m] = LEAF THEN m ELSE f[L[m]]
  <2>1. B!Hung(N, R, L, P, top, sub)
    <3> HIDE DEF N
    <3> QED BY <1>1, B!Mirror
  <2>2. \E f \in [N -> N] : B!DownEnds(N, R, L, {}, {}, f)
    <3> HIDE DEF N
    <3> QED BY <1>3, <2>1, <1>1, B!EndsExist, Zenon
  <2> QED BY <2>2, <1>1 DEF B!DownEnds
<1>4. \E f \in [N -> N] : \A m \in N : f[m] = IF L[m] = LEAF THEN m ELSE f[L[m]]
  <2>1. CASE N = {}
    <3> HIDE DEF N
    <3>1. [m \in N |-> m] \in [N -> N]
      OBVIOUS
    <3> QED BY <2>1, <3>1, Zenon
  <2> QED BY <2>1, <1>3
<1>5. PICK f \in [N -> N] : \A m \in N : f[m] = IF L[m] = LEAF THEN m ELSE f[L[m]]
  BY <1>4
<1>6. f = [m \in N |-> IF t.node[m].left = LEAF THEN m ELSE f[t.node[m].left]]
  BY <1>1, <1>5
<1>7. first = [m \in N |-> IF t.node[m].left = LEAF THEN m ELSE first[t.node[m].left]]
  BY <1>6, Zenon
<1> HIDE DEF first
<1>8. \A m \in N : first[m] = IF L[m] = LEAF THEN m ELSE first[L[m]]
  BY <1>1, <1>7
<1> DEFINE T == {m \in N : first[m] # f[m]}
<1>9. \A m \in T : L[m] \in T \/ R[m] \in T
  BY <1>1, <1>5, <1>8
<1>10. T = {}
  <2>1. T \in SUBSET N
    OBVIOUS
  <2> HIDE DEF T, N
  <2> QED BY <2>1, <1>1, <1>9, B!DownInduction
<1>11. first \in [N -> N]
  <2>1. \A m \in N : first[m] \in N
    BY <1>5, <1>10
  <2>2. first = [m \in N |-> first[m]]
    BY <1>7
  <2> QED BY <2>1, <2>2
<1>12. B!Lasts(N, L, first)
  BY <1>1, <1>8, <1>11 DEF B!Lasts
<1> QED BY <1>2, <1>12 DEF L

\* BackUp climbs as long as it comes from the right.
LEMMA BackUpNexts ==
  ASSUME CompareOrder, NEW t, NEW top, NEW sub, Shape(t, top, sub)
  PROVE  \E back : /\ B!Nexts(Nodes(t), Kid(t, "right"), Up(t), back)
                   /\ \A n \in Nodes(t) : BackUp(t, n) = IF back[n] = LEAF THEN NULL ELSE back[n]
<1> DEFINE N == Nodes(t)
           R == Kid(t, "right")
           P == Up(t)
           D == N \cup {LEAF}
           Body(m, f) == IF m = LEAF THEN LEAF ELSE IF P[m] # LEAF /\ m = R[P[m]] THEN f[P[m]] ELSE P[m]
           G == [m \in D |-> [f \in [D -> D] |-> Body(m, f)]]
           climb == CHOOSE g : g = [m \in N |->
                      IF Parent(t, m) # NULL /\ m = t.node[Parent(t, m)].right THEN g[Parent(t, m)] ELSE Parent(t, m)]
<1>1. /\ B!Hung(N, Kid(t, "left"), R, P, top, sub) /\ B!IsFiniteSet(N) /\ B!NULL = LEAF
      /\ LEAF \notin N /\ NULL \notin N /\ NULL # LEAF
      /\ \A m \in N : /\ P[m] = (IF Parent(t, m) = NULL THEN LEAF ELSE Parent(t, m)) /\ P[m] \in D
                      /\ Parent(t, m) \in N \cup {NULL} /\ R[m] = t.node[m].right
  BY LinksInWords DEF InWords
<1>2. \A n \in N : BackUp(t, n) = climb[n]
  BY Zenon DEF BackUp
<1> HIDE DEF R, P
<1>3. B!ByParent(N, P, D, D, G)
  <2>1. ASSUME NEW m \in D, NEW f \in [D -> D] PROVE Body(m, f) \in D
    BY <1>1
  <2>2. G \in [D -> [[D -> D] -> D]]
    BY <2>1
  <2>3. ASSUME NEW m \in D, NEW f \in [D -> D], NEW g \in [D -> D], m \in N => f[P[m]] = g[P[m]]
        PROVE  G[m][f] = G[m][g]
    BY <2>3, <1>1
  <2> HIDE DEF G
  <2> QED BY <2>2, <2>3, <1>1, Zenon DEF B!ByParent
<1>4. PICK f \in [D -> D] : \A m \in D : f[m] = G[m][f]
  <2> HIDE DEF G, N, D
  <2> QED BY <1>1, <1>3, B!UpRecursion
<1>5. f[LEAF] = LEAF /\ \A m \in N : f[m] = IF P[m] # LEAF /\ m = R[P[m]] THEN f[P[m]] ELSE P[m]
  BY <1>1, <1>4, Zenon
<1> HIDE DEF G
<1> DEFINE h == [m \in N |-> IF f[m] = LEAF THEN NULL ELSE f[m]]
<1>6. ASSUME NEW m \in N
      PROVE  h[m] = IF Parent(t, m) # NULL /\ m = t.node[Parent(t, m)].right THEN h[Parent(t, m)] ELSE Parent(t, m)
  <2>1. CASE Parent(t, m) = NULL
    BY <2>1, <1>1, <1>5
  <2>2. CASE Parent(t, m) # NULL
    BY <2>2, <1>1, <1>5
  <2> QED BY <2>1, <2>2
<1>7. h = [m \in N |->
             IF Parent(t, m) # NULL /\ m = t.node[Parent(t, m)].right THEN h[Parent(t, m)] ELSE Parent(t, m)]
  <2>1. h = [m \in N |-> h[m]]
    OBVIOUS
  <2> HIDE DEF h
  <2> QED BY <2>1, <1>6
<1>8. climb = [m \in N |->
             IF Parent(t, m) # NULL /\ m = t.node[Parent(t, m)].right THEN climb[Parent(t, m)] ELSE Parent(t, m)]
  <2> HIDE DEF h
  <2> QED BY <1>7, Zenon
<1> HIDE DEF climb
<1>9. \A m \in N : climb[m] = IF Parent(t, m) # NULL /\ m = t.node[Parent(t, m)].right
                              THEN climb[Parent(t, m)] ELSE Parent(t, m)
  BY ONLY <1>8, Zenon
<1> DEFINE T == {m \in N : climb[m] # h[m]}
<1>10. \A m \in T : P[m] \in T
  <2> TAKE m \in T
  <2>1. Parent(t, m) # NULL /\ climb[Parent(t, m)] # h[Parent(t, m)] /\ Parent(t, m) \in N
    <3> HIDE DEF h
    <3> QED BY <1>1, <1>6, <1>9
  <2> HIDE DEF h
  <2> QED BY <2>1, <1>1
<1>11. T = {}
  <2>1. T \in SUBSET N
    OBVIOUS
  <2> HIDE DEF T, N
  <2> QED BY <2>1, <1>1, <1>10, B!UpInduction
<1>12. \A n \in N : climb[n] = IF f[n] = LEAF THEN NULL ELSE f[n]
  BY <1>11, Zenon
<1>13. B!Nexts(N, R, P, f)
  BY <1>1, <1>5 DEF B!Nexts
<1> QED BY <1>2, <1>12, <1>13 DEF R, P

\* NextElement with LEAF for NULL.
After(t) == [n \in Nodes(t) |-> IF NextElement(t, n) = NULL THEN LEAF ELSE NextElement(t, n)]

\* The successor of an element is the least above it.
LEMMA AfterAdvances ==
  ASSUME CompareOrder, NEW t, NEW top, NEW sub, Shape(t, top, sub)
  PROVE  /\ B!AdvancesIn(Nodes(t), After(t), Before)
         /\ \A n \in Nodes(t) : NextElement(t, n) \in Nodes(t) \cup {NULL}
<1> DEFINE N == Nodes(t)
           L == Kid(t, "left")
           R == Kid(t, "right")
           P == Up(t)
           X == After(t)
<1>1. /\ B!Hung(N, L, R, P, top, sub) /\ B!IsFiniteSet(N) /\ B!NULL = LEAF
      /\ B!Sorted(L, R, sub, N, Before) /\ B!Total(Before, N)
      /\ LEAF \notin N /\ NULL \notin N /\ NULL # LEAF
      /\ \A m \in N : R[m] = t.node[m].right /\ R[m] \in N \cup {LEAF}
  BY LinksInWords DEF InWords
<1>2. PICK first : B!Lasts(N, L, first) /\ \A n \in N : Leftmost(t, n) = first[n]
  BY LeftmostFirst
<1>3. PICK back : B!Nexts(N, R, P, back) /\ \A n \in N : BackUp(t, n) = IF back[n] = LEAF THEN NULL ELSE back[n]
  BY BackUpNexts
<1>4. \A n \in N : X[n] = IF NextElement(t, n) = NULL THEN LEAF ELSE NextElement(t, n)
  BY DEF After
<1> HIDE DEF L, R, P, X
<1>5. \A n \in N : first[n] \in N /\ back[n] \in N \cup {LEAF}
  <2>1. first \in [N -> N]
    BY <1>2 DEF B!Lasts
  <2>2. ASSUME NEW n \in N PROVE B!FollowsIn(N, sub, Before, n, back[n])
    <3> HIDE DEF N
    <3> QED BY <1>1, <1>3, B!NextFollowsSorted
  <2> QED BY <2>1, <2>2, <1>1 DEF B!FollowsIn
<1>6. ASSUME NEW n \in N
      PROVE  X[n] = (IF R[n] # LEAF THEN first[R[n]] ELSE back[n]) /\ NextElement(t, n) \in N \cup {NULL}
  <2>1. NextElement(t, n) = IF R[n] # LEAF THEN Leftmost(t, R[n]) ELSE BackUp(t, n)
    BY <1>1 DEF NextElement
  <2> QED BY <2>1, <1>1, <1>2, <1>3, <1>4, <1>5
<1>7. X \in [N -> N \cup {LEAF}]
  <2>1. X = [n \in N |-> X[n]]
    BY DEF X, After
  <2>2. \A n \in N : X[n] \in N \cup {LEAF}
    BY <1>1, <1>5, <1>6
  <2> HIDE DEF N
  <2> QED BY <2>1, <2>2
<1>8. B!AdvancesIn(N, X, Before)
  <2> HIDE DEF N
  <2> QED BY <1>1, <1>2, <1>3, <1>6, <1>7, B!StepsAdvance
<1> QED BY <1>6, <1>8 DEF X

\* The walk from an element, as the recursion of Iterates defines it, has every element
\* from there on, and its neighbours are in order.
LEMMA VisitsRest ==
  ASSUME CompareOrder, NEW top, NEW sub, Shape(tree, top, sub), NEW visit,
         visit = CHOOSE g : g = [n \in Live \cup {NULL} |->
                   IF n = NULL THEN << >> ELSE <<n>> \o g[NextElement(tree, n)]]
  PROVE  /\ visit[NULL] = << >>
         /\ \A n \in Live : /\ ToSet(visit[n]) = {m \in Live : n = m \/ <<n, m>> \in Before}
                            /\ visit[n] \in Seq(Live) /\ B!Stepping(visit[n], Before)
<1> DEFINE N == Live
           X == After(tree)
           D == N \cup {NULL}
           E == N \cup {LEAF}
           S == Seq(N)
           leaf(n) == IF n = NULL THEN LEAF ELSE n
           W == B!UnwalkedIn(N, Before)
           rank == [n \in D |-> W[leaf(n)]]
           Y(n) == NextElement(tree, n)
           Body(n, f) == IF n = NULL THEN << >> ELSE <<n>> \o f[Y(n)]
           G == [n \in D |-> [f \in [D -> S] |-> Body(n, f)]]
<1>1. /\ N = Nodes(tree) /\ B!NULL = LEAF /\ LEAF \notin N /\ NULL \notin N /\ NULL # LEAF
      /\ B!AdvancesIn(N, X, Before)
      /\ \A n \in N : Y(n) \in D /\ X[n] = leaf(Y(n))
  BY LinksInWords, AfterAdvances DEF Live, After
<1>2. W \in [E -> Nat] /\ \A n \in N : X[n] \in E /\ W[X[n]] < W[n]
  <2> HIDE DEF N, X
  <2> QED BY <1>1, B!UnwalkedInShrinks, Zenon
<1> HIDE DEF X, W, Y
<1>3. rank \in [D -> Nat] /\ \A n \in N : rank[Y(n)] < rank[n]
  BY <1>1, <1>2
<1>4. S # {}
  <2>1. << >> \in Seq(N)
    OBVIOUS
  <2> QED BY <2>1, Zenon
<1>5. B!Recursive(D, rank, S, G)
  <2>1. ASSUME NEW n \in D, NEW f \in [D -> S] PROVE Body(n, f) \in S
    <3>1. CASE n = NULL
      BY <3>1
    <3>2. CASE n # NULL
      <4>1. n \in N /\ f[Y(n)] \in S /\ <<n>> \in S
        BY <1>1, <3>2
      <4> QED BY <4>1, <3>2
    <3> QED BY <3>1, <3>2
  <2>2. G \in [D -> [[D -> S] -> S]]
    BY <2>1, Zenon
  <2>3. ASSUME NEW n \in D, NEW f \in [D -> S], NEW g \in [D -> S],
               \A y \in D : rank[y] < rank[n] => f[y] = g[y]
        PROVE  G[n][f] = G[n][g]
    <3>1. CASE n = NULL
      BY <3>1
    <3>2. CASE n # NULL
      <4>1. n \in N /\ Y(n) \in D /\ rank[Y(n)] < rank[n]
        BY <1>1, <1>3, <3>2, Zenon
      <4>2. f[Y(n)] = g[Y(n)]
        <5> HIDE DEF rank
        <5> QED BY <4>1, <2>3
      <4> QED BY <4>2
    <3> QED BY <3>1, <3>2
  <2> HIDE DEF G, S, D, rank
  <2> QED BY <1>3, <1>4, <2>2, <2>3, Zenon DEF B!Recursive
<1>6. PICK f \in [D -> S] : \A n \in D : f[n] = G[n][f]
  <2> HIDE DEF G, S, D, rank
  <2> QED BY <1>5, B!RecursionWorks
<1>7. \A n \in D : f[n] = Body(n, f)
  BY <1>6, Zenon
<1> HIDE DEF G
<1>8. f = [n \in Live \cup {NULL} |-> IF n = NULL THEN << >> ELSE <<n>> \o f[NextElement(tree, n)]]
  <2>1. f = [n \in D |-> f[n]]
    BY <1>6
  <2>2. \A n \in D : f[n] = IF n = NULL THEN << >> ELSE <<n>> \o f[NextElement(tree, n)]
    BY <1>7, Zenon DEF Y
  <2> QED BY <2>1, <2>2, Zenon
<1>9. visit = [n \in Live \cup {NULL} |-> IF n = NULL THEN << >> ELSE <<n>> \o visit[NextElement(tree, n)]]
  BY <1>8, Zenon
<1>10. \A n \in D : visit[n] = Body(n, visit)
  BY ONLY <1>9, Zenon DEF Y
<1> DEFINE T == {n \in N : visit[n] # f[n]}
<1>11. visit[NULL] = << >> /\ f[NULL] = << >>
  BY <1>7, <1>10, Zenon
<1>12. ASSUME NEW n \in T PROVE X[n] \in T
  <2>1. n \in D /\ n # NULL /\ Y(n) \in D /\ X[n] = leaf(Y(n))
    BY <1>1, SMTT(30)
  <2>2. visit[n] = <<n>> \o visit[Y(n)] /\ f[n] = <<n>> \o f[Y(n)]
    BY <2>1, <1>7, <1>10, Zenon
  <2>3. visit[Y(n)] # f[Y(n)]
    BY <2>2, Zenon
  <2> QED BY <2>1, <2>3, <1>11
<1>13. T = {}
  <2>1. T \in SUBSET N
    OBVIOUS
  <2> HIDE DEF T, N
  <2> QED BY <2>1, <1>1, <1>12, B!BackwardsInduction
<1>14. \A n \in N : visit[n] = f[n]
  BY <1>13, Zenon
<1> DEFINE trail == [n \in E |-> IF n = LEAF THEN << >> ELSE f[n]]
<1>15. B!Trails(N, X, trail)
  <2>1. trail \in [E -> S]
    BY <1>6
  <2>2. ASSUME NEW n \in N PROVE trail[n] = <<n>> \o trail[X[n]]
    <3>1. n \in D /\ n # NULL /\ n # LEAF /\ Y(n) \in D /\ X[n] = leaf(Y(n)) /\ X[n] \in E
      BY <1>1
    <3>2. trail[n] = <<n>> \o f[Y(n)]
      BY <3>1, <1>7, Zenon
    <3>3. trail[X[n]] = f[Y(n)]
      BY <3>1, <1>1, <1>11
    <3> HIDE DEF trail
    <3> QED BY <3>2, <3>3
  <2>3. trail[LEAF] = << >>
    OBVIOUS
  <2> HIDE DEF trail, N
  <2> QED BY <2>1, <2>2, <2>3, <1>1 DEF B!Trails
<1>16. ASSUME NEW n \in N
       PROVE  /\ ToSet(visit[n]) = {m \in N : n = m \/ <<n, m>> \in Before}
              /\ visit[n] \in Seq(N) /\ B!Stepping(visit[n], Before)
  <2>1. trail[n] = visit[n] /\ visit[n] \in Seq(N)
    BY <1>1, <1>6, <1>14, Zenon
  <2> HIDE DEF trail, N
  <2>2. /\ B!ToSet(trail[n]) = {m \in N : n = m \/ <<n, m>> \in Before} /\ B!Stepping(trail[n], Before)
    BY <1>1, <1>15, B!TrailSteps
  <2>3. \A s : ToSet(s) = B!ToSet(s)
    BY DEF ToSet, B!ToSet
  <2> QED BY <2>1, <2>2, <2>3, Zenon
<1> QED BY <1>11, <1>16, Zenon

\* sm_rbtree_size counts the elements.
LEMMA SizeCounts ==
  ASSUME NEW t, NEW top, NEW sub, Hangs(t, top, sub), t.root = top
  PROVE  SizeOf(t) = Cardinality(Nodes(t))
<1> DEFINE N == Nodes(t)
           D == N \cup {NULL, LEAF}
           l(n) == t.node[n].left
           r(n) == t.node[n].right
           size == CHOOSE f : f = [n \in D |->
                     IF n \in {NULL, LEAF} THEN 0 ELSE 1 + f[t.node[n].left] + f[t.node[n].right]]
           c == [n \in D |-> IF n \in {NULL, LEAF} THEN 0 ELSE Cardinality(sub[n])]
<1>1. /\ NULL \notin N /\ LEAF \notin N /\ IsFiniteSet(N) /\ B!NULL = LEAF
      /\ B!Hung(N, Kid(t, "left"), Kid(t, "right"), Up(t), top, sub)
  BY Keys DEF Hangs, Typed
<1>2. ASSUME NEW n \in N
      PROVE  /\ l(n) \in N \cup {LEAF} /\ r(n) \in N \cup {LEAF}
             /\ Kid(t, "left")[n] = l(n) /\ Kid(t, "right")[n] = r(n)
  <2>1. "left" \in Side /\ "right" \in Side
    BY DEF Side
  <2> QED BY <2>1, HangsAround
<1>3. /\ sub[LEAF] = {} /\ sub[top] = N /\ sub \in [N \cup {LEAF} -> SUBSET N]
      /\ \A n \in N : /\ sub[n] = {n} \cup sub[l(n)] \cup sub[r(n)] /\ n \notin sub[l(n)] /\ n \notin sub[r(n)]
                      /\ sub[l(n)] \cap sub[r(n)] = {}
  <2> HIDE DEF N, l, r
  <2> QED BY <1>1, <1>2 DEF B!Hung
<1> HIDE DEF l, r
<1>4. \A n \in N \cup {LEAF} : IsFiniteSet(sub[n]) /\ Cardinality(sub[n]) \in Nat
  <2> TAKE n \in N \cup {LEAF}
  <2>1. sub[n] \in SUBSET N
    BY <1>3
  <2> QED BY <2>1, <1>1, FS_Subset, FS_CardinalityType
<1>5. \A n \in N \cup {LEAF} : c[n] = Cardinality(sub[n])
  <2>1. Cardinality(sub[LEAF]) = 0
    BY <1>3, FS_EmptySet
  <2> QED BY <2>1, <1>1
<1>6. ASSUME NEW n \in N PROVE c[n] = 1 + c[l(n)] + c[r(n)]
  <2> DEFINE A == sub[l(n)]
             C == sub[r(n)]
  <2>1. IsFiniteSet(A) /\ IsFiniteSet(C) /\ Cardinality(A) \in Nat /\ Cardinality(C) \in Nat
    BY <1>2, <1>4
  <2>2. sub[n] = (A \cup C) \cup {n} /\ n \notin A \cup C /\ A \cap C = {}
    BY <1>3
  <2>3. c[n] = Cardinality(sub[n]) /\ c[l(n)] = Cardinality(A) /\ c[r(n)] = Cardinality(C)
    BY <1>2, <1>5
  <2> HIDE DEF A, C, c
  <2>4. Cardinality(A \cap C) = 0
    BY <2>2, FS_EmptySet
  <2>5. IsFiniteSet(A \cup C) /\ Cardinality(A \cup C) = Cardinality(A) + Cardinality(C)
    <3>1. IsFiniteSet(A \cup C) /\ Cardinality(A \cup C) = Cardinality(A) + Cardinality(C) - Cardinality(A \cap C)
      BY ONLY <2>1, FS_Union, Zenon
    <3> QED BY ONLY <2>1, <2>4, <3>1
  <2>6. Cardinality((A \cup C) \cup {n}) = Cardinality(A \cup C) + 1
    BY <2>2, <2>5, FS_AddElement
  <2> QED BY <2>1, <2>2, <2>3, <2>5, <2>6
<1>7. c = [n \in D |-> IF n \in {NULL, LEAF} THEN 0 ELSE 1 + c[t.node[n].left] + c[t.node[n].right]]
  <2>1. c = [n \in D |-> c[n]]
    OBVIOUS
  <2>2. ASSUME NEW n \in D
        PROVE  c[n] = IF n \in {NULL, LEAF} THEN 0 ELSE 1 + c[t.node[n].left] + c[t.node[n].right]
    <3>1. CASE n \in {NULL, LEAF}
      BY <3>1
    <3>2. CASE n \notin {NULL, LEAF}
      <4>1. n \in N
        BY <3>2
      <4> HIDE DEF c
      <4> QED BY <3>2, <4>1, <1>6 DEF l, r
    <3> QED BY <3>1, <3>2
  <2> HIDE DEF c
  <2> QED BY <2>1, <2>2, Zenon
<1>8. size = [n \in D |-> IF n \in {NULL, LEAF} THEN 0 ELSE 1 + size[t.node[n].left] + size[t.node[n].right]]
  <2> HIDE DEF c
  <2> QED BY <1>7, Zenon
<1>9. SizeOf(t) = size[t.root]
  BY Zenon DEF SizeOf
<1> HIDE DEF size
<1>10. \A n \in D : size[n] = IF n \in {NULL, LEAF} THEN 0 ELSE 1 + size[l(n)] + size[r(n)]
  BY ONLY <1>8, Zenon DEF l, r
<1>11. size[LEAF] = c[LEAF]
  BY <1>10
<1>12. \A n \in Nodes(t) : size[t.node[n].left] = c[t.node[n].left] /\ size[t.node[n].right] = c[t.node[n].right]
                         => size[n] = c[n]
  <2> TAKE n \in Nodes(t)
  <2>1. n \in D /\ n \notin {NULL, LEAF}
    BY <1>1
  <2>2. size[n] = 1 + size[l(n)] + size[r(n)] /\ c[n] = 1 + c[l(n)] + c[r(n)]
    <3> HIDE DEF c
    <3> QED BY <2>1, <1>6, <1>10
  <2> HIDE DEF c
  <2> QED BY <2>2 DEF l, r
<1>13. \A n \in Nodes(t) \cup {LEAF} : size[n] = c[n]
  <2> HIDE DEF c
  <2> QED BY <1>11, <1>12, OneFold
<1>14. top \in N \cup {LEAF}
  BY <1>1 DEF B!Hung
<1> QED BY <1>3, <1>5, <1>9, <1>13, <1>14, ZenonT(30)

\* As long as the root is the top, first and next visit every element, in the order of
\* the keys, and size counts them.
THEOREM IterationComplete ==
  ASSUME CompareOrder
  PROVE  IntactSpec => []Iterates
<1> DEFINE visit == CHOOSE g : g = [n \in Live \cup {NULL} |->
                      IF n = NULL THEN << >> ELSE <<n>> \o g[NextElement(tree, n)]]
           walk == visit[First(tree)]
<1>1. ASSUME Sound(tree), tree.root = Top
      PROVE  /\ ToSet(walk) = Live /\ \A i \in 1..Len(walk) - 1 : Compare(walk[i], walk[i + 1]) < 0
             /\ SizeOf(tree) = Cardinality(Live)
  <2>1. IsRooted(tree) /\ Live = Nodes(tree)
    BY <1>1, TopRooted DEF Top, TopOf, Live
  <2>2. CASE Live = {}
    <3>1. tree.root = NULL
      BY <2>1, <2>2 DEF IsRooted
    <3>2. visit = [n \in Live \cup {NULL} |-> IF n = NULL THEN << >> ELSE <<n>> \o visit[NextElement(tree, n)]]
      <4> DEFINE f == [n \in {NULL} |-> << >>]
      <4>1. f = [n \in Live \cup {NULL} |-> IF n = NULL THEN << >> ELSE <<n>> \o f[NextElement(tree, n)]]
        BY <2>2
      <4> HIDE DEF f
      <4> QED BY <4>1, Zenon
    <3> HIDE DEF visit
    <3>3. visit[NULL] = << >>
      BY <3>2
    <3>4. walk = << >>
      BY <3>1, <3>3 DEF First
    <3>5. SizeOf(tree) = 0
      <4> DEFINE D == Nodes(tree) \cup {NULL, LEAF}
                 size == CHOOSE f : f = [n \in D |->
                     IF n \in {NULL, LEAF} THEN 0 ELSE 1 + f[tree.node[n].left] + f[tree.node[n].right]]
                 c == [n \in D |-> 0]
      <4>1. c = [n \in D |-> IF n \in {NULL, LEAF} THEN 0 ELSE 1 + c[tree.node[n].left] + c[tree.node[n].right]]
        BY <2>1, <2>2
      <4>2. size = [n \in D |-> IF n \in {NULL, LEAF} THEN 0
                                ELSE 1 + size[tree.node[n].left] + size[tree.node[n].right]]
        <5> HIDE DEF c
        <5> QED BY <4>1, Zenon
      <4>3. SizeOf(tree) = size[tree.root]
        BY Zenon DEF SizeOf
      <4> HIDE DEF size
      <4> QED BY <4>2, <4>3, <3>1
    <3>6. ToSet(<< >>) = {}
      BY DEF ToSet
    <3> QED BY <3>4, <3>5, <3>6, <2>2, FS_EmptySet
  <2>3. CASE Live # {}
    <3>1. Shaped(tree)
      BY <1>1, <2>1, <2>3 DEF Sound
    <3>2. PICK sub : Shape(tree, tree.root, sub)
      BY <2>1, <2>3, <3>1, RootedShape
    <3>3. tree.root \in Live /\ tree.root # NULL
      BY <2>1, <2>3, <3>1, <3>2, RootedShape, LinksInWords
    <3>4. Hangs(tree, tree.root, sub)
      BY <3>2 DEF Shape
    <3>5. SizeOf(tree) = Cardinality(Live)
      BY <2>1, <3>4, SizeCounts
    <3>6. \A n \in Live : /\ ToSet(visit[n]) = {m \in Live : n = m \/ <<n, m>> \in Before}
                          /\ visit[n] \in Seq(Live) /\ B!Stepping(visit[n], Before)
      BY <3>2, VisitsRest, Zenon
    <3> DEFINE o == First(tree)
    <3>7. o \in Live /\ \A m \in Live : o = m \/ <<o, m>> \in Before
      <4>1. PICK first : /\ B!Lasts(Nodes(tree), Kid(tree, "left"), first)
                         /\ \A n \in Nodes(tree) : Leftmost(tree, n) = first[n]
        BY <3>2, LeftmostFirst
      <4>2. o = first[tree.root]
        BY <2>1, <3>3, <4>1 DEF First
      <4>3. InWords(tree, tree.root, sub)
        BY <3>2, LinksInWords
      <4>4. first[tree.root] \in sub[tree.root]
            /\ \A m \in sub[tree.root] : m = first[tree.root] \/ <<first[tree.root], m>> \in Before
        BY <2>1, <3>3, <4>1, <4>3, B!FirstSorted DEF InWords
      <4>5. sub[tree.root] = Nodes(tree)
        BY <4>3 DEF InWords, B!Hung
      <4> QED BY <2>1, <4>2, <4>4, <4>5
    <3> HIDE DEF visit, o
    <3>8. ToSet(walk) = Live /\ walk \in Seq(Live) /\ B!Stepping(walk, Before)
      BY <3>6, <3>7, Zenon DEF o
    <3> HIDE DEF walk
    <3>9. \A x, y : <<x, y>> \in Before => Compare(x, y) < 0
      BY DEF Before
    <3>10. \A i \in 1..Len(walk) - 1 : Compare(walk[i], walk[i + 1]) < 0
      BY <3>8, <3>9, Zenon DEF B!Stepping
    <3> QED BY <3>5, <3>8, <3>10
  <2> QED BY <2>2, <2>3, Zenon
<1>2. Sound(tree) => Iterates
  <2> HIDE DEF visit
  <2> QED BY <1>1, Zenon DEF Iterates, visit
<1> QED BY <1>2, TreeKept, PTL
=============================================================================
