---------------------------- MODULE BufferProofs ---------------------------
(***************************************************************************)
(* The two buffers that do not grow: the trace of an error stays in its    *)
(* own, whatever its size, the names and the depth of the stack, and the   *)
(* texts of a session come out of its own as they are in the input.        *)
(***************************************************************************)
EXTENDS Trace, Repl, BinaryTree

-----------------------------------------------------------------------------
(* The trace of an error.                                                  *)

\* What InBuffer needs to be inductive: the types, and that a loop that goes on
\* has a frame left.
TraceInv ==
  /\ frames \in Seq(Lengths)
  /\ written \in Nat
  /\ state \in {"loop", "all", "ellipsis"}
  /\ state = "loop" => written < Len(frames)
  /\ InBuffer

\* A position in the buffer is a size_t as it is.
LEMMA PositionIsSize == ASSUME NEW n \in Nat PROVE AsSize(n) = n
  BY DEF AsSize

\* Every frame takes some room.
LEMMA NeededPositive ==
  ASSUME TraceInv, state = "loop"
  PROVE  Needed \in Nat /\ Needed >= 1
  <1>1. written + 1 \in 1..Len(frames)
    BY DEF TraceInv
  <1>2. frames[written + 1] \in Lengths
    BY <1>1 DEF TraceInv
  <1>3. frames[written + 1] \in Nat \ {0}
    BY <1>2, TraceAssumption
  <1> QED BY <1>3 DEF Needed

\* The space is measured right: the difference is not negative.
LEMMA RoomExact ==
  ASSUME TraceInv, state = "loop"
  PROVE  Room = p - (IF Parent THEN 3 ELSE 0)
  <1>1. p - (IF Parent THEN 3 ELSE 0) \in Nat
    BY TraceAssumption DEF TraceInv, InBuffer
  <1> QED BY <1>1, PositionIsSize DEF Room

\* The trace's invariant holds at first.
LEMMA TraceInitInv == TraceInit => TraceInv
  <1> SUFFICES ASSUME TraceInit PROVE TraceInv
    OBVIOUS
  <1>1. PICK n \in 1..MaxFrames : frames \in [1..n -> Lengths]
    BY DEF TraceInit
  <1>2. frames \in Seq(Lengths) /\ Len(frames) = n
    BY <1>1, TraceAssumption
  <1>3. p \in 0..BufSize - 1 /\ p >= 3
    BY TraceAssumption DEF TraceInit
  <1> QED BY <1>2, <1>3 DEF TraceInit, TraceInv, InBuffer

\* Every step of the trace keeps its invariant.
LEMMA TraceNextInv == TraceInv /\ [TraceNext]_traceVars => TraceInv'
  <1> SUFFICES ASSUME TraceInv, [TraceNext]_traceVars PROVE TraceInv'
    OBVIOUS
  <1>1. CASE Ellipsis
    <2>1. p' \in 0..BufSize - 1
      BY <1>1, TraceAssumption DEF Ellipsis, TraceInv, InBuffer
    <2> QED BY <1>1, <2>1 DEF Ellipsis, TraceInv, InBuffer
  <1>2. CASE Name
    <2>1. Needed \in Nat /\ Needed >= 1
      BY <1>2, NeededPositive DEF Name
    <2>2. Needed <= p - (IF Parent THEN 3 ELSE 0)
      BY <1>2, RoomExact DEF Name
    <2>3. p \in 0..BufSize - 1 /\ p' = p - Needed
      BY <1>2 DEF Name, TraceInv, InBuffer
    <2>4. p' \in 0..BufSize - 1
      BY <2>1, <2>2, <2>3, TraceAssumption
    <2>5. Parent => p' >= 3
      BY <2>1, <2>2, <2>3, TraceAssumption
    <2>6. frames' = frames /\ written' = written + 1 /\ state' = IF Parent THEN "loop" ELSE "all"
      BY <1>2 DEF Name
    <2>7. state' = "loop" => written' < Len(frames')
      BY <2>6 DEF Parent
    <2> QED BY <2>4, <2>5, <2>6, <2>7 DEF TraceInv, InBuffer
  <1>3. CASE UNCHANGED traceVars
    BY <1>3 DEF traceVars, TraceInv, InBuffer
  <1> QED BY <1>1, <1>2, <1>3 DEF TraceNext

\* sm_error never writes outside its buffer.
THEOREM TraceInBuffer == TraceSpec => []InBuffer
  <1>1. TraceInv => InBuffer
    BY DEF TraceInv
  <1> QED BY <1>1, TraceInitInv, TraceNextInv, PTL DEF TraceSpec

-----------------------------------------------------------------------------
(* How much of the stack the text tells.                                   *)

\* What a colon adds to the n-th frame.
Colon(n) == IF n = 1 THEN 0 ELSE 1

\* The recursion of TakenBy defines it.
LEMMA TakenByFrames ==
  ASSUME frames \in Seq(Nat)
  PROVE  /\ TakenBy[0] = 0
         /\ \A n \in 1..Len(frames) :
              TakenBy[n - 1] \in Nat /\ TakenBy[n] = TakenBy[n - 1] + frames[n] + Colon(n)
  <1> DEFINE D == 0..Len(frames)
             rank == [n \in D |-> n]
             G == [n \in D |-> [f \in [D -> Nat] |->
                     IF n = 0 THEN 0 ELSE f[n - 1] + frames[n] + Colon(n)]]
  <1>0. Len(frames) \in Nat /\ 0 \in D
    OBVIOUS
  <1>1. rank \in [D -> Nat] /\ 0 \in Nat
    OBVIOUS
  <1>2. ASSUME NEW n \in D, n # 0 PROVE n - 1 \in D /\ rank[n - 1] < rank[n] /\ frames[n] \in Nat
    BY <1>2
  <1>3. G \in [D -> [[D -> Nat] -> Nat]]
    <2>1. ASSUME NEW n \in D, NEW f \in [D -> Nat]
          PROVE  (IF n = 0 THEN 0 ELSE f[n - 1] + frames[n] + Colon(n)) \in Nat
      <3>1. CASE n # 0
        <4>1. f[n - 1] \in Nat /\ frames[n] \in Nat
          BY <3>1, <1>2
        <4> QED BY <4>1, <3>1 DEF Colon
      <3> QED BY <3>1
    <2> QED BY <2>1
  <1>4. Recursive(D, rank, Nat, G)
    BY <1>1, <1>2, <1>3 DEF Recursive
  <1>5. PICK f \in [D -> Nat] : \A n \in D : f[n] = G[n][f]
    <2> HIDE DEF D, rank, G
    <2> QED BY <1>4, RecursionWorks
  <1>6. \A n \in D : f[n] = IF n = 0 THEN 0 ELSE f[n - 1] + frames[n] + Colon(n)
    BY <1>5
  <1>7. f = [n \in 0..Len(frames) |->
               IF n = 0 THEN 0 ELSE f[n - 1] + frames[n] + (IF n = 1 THEN 0 ELSE 1)]
    BY <1>6 DEF Colon
  <1>8. TakenBy = [n \in 0..Len(frames) |->
               IF n = 0 THEN 0 ELSE TakenBy[n - 1] + frames[n] + (IF n = 1 THEN 0 ELSE 1)]
    BY <1>7 DEF TakenBy
  <1>9. \A n \in D : TakenBy[n] = IF n = 0 THEN 0 ELSE TakenBy[n - 1] + frames[n] + Colon(n)
    BY <1>8 DEF Colon
  <1>10. \A n \in D : TakenBy[n] \in Nat
    <2> DEFINE T == {n \in D : TakenBy[n] \notin Nat}
    <2> SUFFICES ASSUME T # {} PROVE FALSE
      OBVIOUS
    <2>1. PICK n \in T : \A m \in T : n <= m
      <3>1. T \in SUBSET Nat
        OBVIOUS
      <3> HIDE DEF T
      <3> QED BY <3>1, Least
    <2>2. n # 0
      BY <1>9, <1>0
    <2>3. n - 1 \in D /\ n - 1 \notin T /\ frames[n] \in Nat
      BY <2>1, <2>2, <1>2
    <2>4. TakenBy[n - 1] \in Nat /\ Colon(n) \in Nat
      BY <2>3 DEF Colon
    <2> QED BY <2>2, <2>3, <2>4, <1>9
  <1> QED BY <1>0, <1>9, <1>10

\* Where the text starts tells how many characters it has.
Position == p = BufSize - 1 - TakenBy[written] - (IF state = "ellipsis" THEN 3 ELSE 0)

Fits(n) == TakenBy[n] + (IF n < Len(frames) THEN 3 ELSE 0) <= BufSize - 1

TellsInv == TraceInv /\ TraceTells

\* The frames are given by the lengths of their names.
LEMMA FramesAreNumbers == TraceInv => frames \in Seq(Nat)
  <1> SUFFICES ASSUME TraceInv PROVE frames \in Seq(Nat)
    OBVIOUS
  <1>1. frames \in [1..Len(frames) -> Lengths] /\ Len(frames) \in Nat
    BY DEF TraceInv
  <1>2. frames \in [1..Len(frames) -> Nat]
    <2>1. \A n \in 1..Len(frames) : frames[n] \in Nat
      BY <1>1, TraceAssumption
    <2> QED BY <1>1, <2>1
  <1> QED BY <1>1, <1>2

\* An empty trace tells what fits.
LEMMA TellsInit == TraceInit => TellsInv
  <1> SUFFICES ASSUME TraceInit PROVE TellsInv
    OBVIOUS
  <1>1. TraceInv
    BY TraceInitInv
  <1>2. frames \in Seq(Nat)
    BY <1>1, FramesAreNumbers
  <1>3. TakenBy[0] = 0
    BY <1>2, TakenByFrames
  <1>4. written = 0 /\ state = "loop" /\ p = BufSize - 1
    BY DEF TraceInit
  <1>5. TraceTells
    BY <1>3, <1>4, TraceAssumption DEF TraceTells
  <1> QED BY <1>1, <1>5 DEF TellsInv

\* The next frame is written with a colon exactly when it is not the first.
LEMMA NeededExact ==
  ASSUME TellsInv, state = "loop"
  PROVE  /\ written + 1 \in 1..Len(frames)
         /\ TakenBy[written] \in Nat /\ TakenBy[written + 1] \in Nat
         /\ TakenBy[written + 1] = TakenBy[written] + Needed
         /\ p = BufSize - 1 - TakenBy[written]
         /\ Needed <= Room <=> Fits(written + 1)
  <1>1. TraceInv /\ frames \in Seq(Nat) /\ Len(frames) \in Nat /\ written \in Nat /\ written < Len(frames)
    BY FramesAreNumbers DEF TellsInv, TraceInv
  <1>2. written + 1 \in 1..Len(frames) /\ (written + 1) - 1 = written
    BY <1>1
  <1>3. /\ TakenBy[written] \in Nat
        /\ TakenBy[written + 1] = TakenBy[written] + frames[written + 1] + Colon(written + 1)
    BY <1>1, <1>2, TakenByFrames
  <1>4. p = BufSize - 1 - TakenBy[written]
    BY <1>3, TraceAssumption DEF TellsInv, TraceTells
  <1>5. written > 0 => TakenBy[written] > 0
    <2> SUFFICES ASSUME written > 0 PROVE TakenBy[written] > 0
      OBVIOUS
    <2>1. written \in 1..Len(frames)
      BY <1>1
    <2>2. frames[written] \in Lengths
      BY <2>1, <1>1 DEF TraceInv
    <2>3. frames[written] \in Nat \ {0}
      BY <2>2, TraceAssumption
    <2>4. TakenBy[written - 1] \in Nat /\ TakenBy[written] = TakenBy[written - 1] + frames[written] + Colon(written)
      BY <1>1, <2>1, TakenByFrames
    <2> QED BY <2>3, <2>4 DEF Colon
  <1>6. written = 0 => TakenBy[written] = 0
    BY <1>1, TakenByFrames
  <1>7. p # BufSize - 1 <=> written # 0
    BY <1>1, <1>3, <1>4, <1>5, <1>6, TraceAssumption
  <1>8. Needed = frames[written + 1] + Colon(written + 1)
    BY <1>1, <1>7 DEF Needed, Colon
  <1>9. Needed \in Nat
    BY <1>1, NeededPositive
  <1>10. TakenBy[written + 1] = TakenBy[written] + Needed
    <2>1. frames[written + 1] \in Nat /\ Colon(written + 1) \in Nat
      BY <1>1, <1>2 DEF Colon
    <2> QED BY <2>1, <1>3, <1>8
  <1>11. Room = p - (IF Parent THEN 3 ELSE 0)
    BY <1>1, RoomExact
  <1>12. Needed <= Room <=> Fits(written + 1)
    BY <1>3, <1>4, <1>9, <1>10, <1>11, TraceAssumption DEF Parent, Fits
  <1> QED BY <1>2, <1>3, <1>4, <1>9, <1>10, <1>12

\* Every frame the trace writes, skips or elides keeps it true to the stack.
LEMMA TellsNext == TellsInv /\ [TraceNext]_traceVars => TellsInv'
  <1> SUFFICES ASSUME TellsInv, [TraceNext]_traceVars PROVE TellsInv'
    OBVIOUS
  <1>1. TraceInv /\ TraceInv'
    BY TraceNextInv DEF TellsInv
  <1>2. frames' = frames /\ TakenBy' = TakenBy
    BY DEF TraceNext, Ellipsis, Name, traceVars, TakenBy
  <1>3. (\A n \in 1..written : Fits(n)) /\ Position
    BY DEF TellsInv, TraceTells, Fits, Position
  <1>4. CASE Ellipsis
    <2>1. state = "loop" /\ ~(Needed <= Room) /\ state' = "ellipsis" /\ written' = written /\ p' = p - 3
      <3>1. state = "loop" /\ Needed > Room /\ state' = "ellipsis" /\ written' = written /\ p' = p - 3
        BY <1>4 DEF Ellipsis
      <3>2. Needed \in Nat /\ Room \in Int
        BY <3>1, <1>1, NeededPositive, RoomExact DEF TraceInv, InBuffer
      <3> QED BY <3>1, <3>2
    <2>2. ~Fits(written + 1)
      BY <2>1, NeededExact
    <2>3. p' = BufSize - 1 - TakenBy[written] - 3
      BY <2>1, NeededExact, TraceAssumption
    <2>4. written < Len(frames)
      BY <2>1, <1>1 DEF TraceInv
    <2>5. TraceTells'
      BY <2>1, <2>2, <2>3, <2>4, <1>2, <1>3 DEF TraceTells, Fits
    <2> QED BY <1>1, <2>5 DEF TellsInv
  <1>5. CASE Name
    <2>1. /\ state = "loop" /\ Needed <= Room /\ written' = written + 1 /\ p' = p - Needed
          /\ state' = IF Parent THEN "loop" ELSE "all"
      BY <1>5 DEF Name
    <2>2. Fits(written + 1)
      BY <2>1, NeededExact
    <2>3. \A n \in 1..written' : Fits(n)
      <3>1. \A n \in 1..written' : n = written + 1 \/ n \in 1..written
        BY <2>1, <1>1 DEF TraceInv
      <3> QED BY <3>1, <2>2, <1>3
    <2>4. p' = BufSize - 1 - TakenBy[written']
      <3>1. Needed \in Nat
        BY <2>1, <1>1, NeededPositive
      <3> QED BY <3>1, <2>1, NeededExact, TraceAssumption
    <2>5. state' # "ellipsis" /\ (state' = "all" => written' = Len(frames))
      <3>1. written + 1 \in 1..Len(frames) /\ Len(frames) \in Nat
        BY <2>1, <1>1, NeededExact DEF TraceInv
      <3> QED BY <3>1, <2>1 DEF Parent
    <2>6. TakenBy[written'] \in Nat
      BY <2>1, NeededExact
    <2>7. TraceTells'
      BY <2>3, <2>4, <2>5, <2>6, <1>2, TraceAssumption DEF TraceTells, Fits
    <2> QED BY <1>1, <2>7 DEF TellsInv
  <1>6. CASE UNCHANGED traceVars
    <2>1. TraceTells'
      BY <1>6, <1>2 DEF TellsInv, TraceTells, traceVars
    <2> QED BY <1>1, <2>1 DEF TellsInv
  <1> QED BY <1>4, <1>5, <1>6 DEF TraceNext

\* The text names as many frames as leave space for an ellipsis, and no fewer; it
\* starts where their names and colons put it.
THEOREM TraceTellsStack == TraceSpec => []TraceTells
  <1>1. TellsInv => TraceTells
    BY DEF TellsInv
  <1> QED BY <1>1, TellsInit, TellsNext, PTL DEF TraceSpec

-----------------------------------------------------------------------------
(* The text of a session.                                                  *)

Begun == [whole : Seq(Nat), begun : Nat]

\* One line more makes texts of texts.
LEMMA WithLineTypes ==
  ASSUME NEW t \in Begun, NEW l \in Line
  PROVE  /\ WithLine(t, l) \in Begun
         /\ WithLine(t, l).whole = (IF l.complete THEN Append(t.whole, t.begun + l.len) ELSE t.whole)
         /\ WithLine(t, l).begun = (IF l.complete THEN 0 ELSE t.begun + l.len)
  <1>1. l.len \in Nat /\ l.complete \in BOOLEAN
    BY ReplAssumption DEF Line
  <1>2. t.begun + l.len \in Nat /\ Append(t.whole, t.begun + l.len) \in Seq(Nat) /\ t.whole \in Seq(Nat)
    BY <1>1 DEF Begun
  <1>3. CASE l.complete
    <2>1. WithLine(t, l) = [whole |-> Append(t.whole, t.begun + l.len), begun |-> 0]
      BY <1>3 DEF WithLine
    <2> QED BY <2>1, <1>2, <1>3 DEF Begun
  <1>4. CASE ~l.complete
    <2>1. WithLine(t, l) = [t EXCEPT !.begun = t.begun + l.len]
      BY <1>4 DEF WithLine
    <2> QED BY <2>1, <1>2, <1>4 DEF Begun
  <1> QED BY <1>3, <1>4

\* The recursion of TextsUpTo defines it.
LEMMA TextsByLine ==
  ASSUME lines \in Seq(Line)
  PROVE  /\ TextsUpTo[0] = [whole |-> << >>, begun |-> 0]
         /\ \A i \in 1..Len(lines) : TextsUpTo[i] = WithLine(TextsUpTo[i - 1], lines[i])
         /\ \A i \in 0..Len(lines) : TextsUpTo[i] \in Begun
  <1> DEFINE D == 0..Len(lines)
             none == [whole |-> << >>, begun |-> 0]
             rank == [i \in D |-> i]
             G == [i \in D |-> [f \in [D -> Begun] |-> IF i = 0 THEN none ELSE WithLine(f[i - 1], lines[i])]]
  <1>0. Len(lines) \in Nat /\ 0 \in D /\ none \in Begun
    BY DEF Begun
  <1>1. rank \in [D -> Nat] /\ Begun # {}
    BY <1>0
  <1>2. ASSUME NEW i \in D, i # 0 PROVE i - 1 \in D /\ rank[i - 1] < rank[i] /\ lines[i] \in Line
    BY <1>2
  <1> HIDE DEF none
  <1>3. G \in [D -> [[D -> Begun] -> Begun]]
    <2>1. ASSUME NEW i \in D, NEW f \in [D -> Begun]
          PROVE  (IF i = 0 THEN none ELSE WithLine(f[i - 1], lines[i])) \in Begun
      <3>1. CASE i # 0
        <4>1. f[i - 1] \in Begun /\ lines[i] \in Line
          BY <3>1, <1>2
        <4> QED BY <4>1, <3>1, WithLineTypes
      <3> QED BY <3>1, <1>0
    <2> QED BY <2>1
  <1>4. Recursive(D, rank, Begun, G)
    <2>1. ASSUME NEW i \in D, NEW f \in [D -> Begun], NEW g \in [D -> Begun],
                 \A k \in D : rank[k] < rank[i] => f[k] = g[k]
          PROVE  G[i][f] = G[i][g]
      <3>1. i # 0 => f[i - 1] = g[i - 1]
        BY <1>2, <2>1
      <3> QED BY <3>1
    <2> HIDE DEF G, rank, D
    <2> QED BY <1>1, <1>3, <2>1 DEF Recursive
  <1>5. PICK f \in [D -> Begun] : \A i \in D : f[i] = G[i][f]
    <2> HIDE DEF D, rank, G
    <2> QED BY <1>4, RecursionWorks
  <1>6. \A i \in D : f[i] = IF i = 0 THEN none ELSE WithLine(f[i - 1], lines[i])
    BY <1>5
  <1>7. f = [i \in 0..Len(lines) |-> IF i = 0 THEN [whole |-> << >>, begun |-> 0] ELSE WithLine(f[i - 1], lines[i])]
    BY <1>6 DEF none
  <1>8. TextsUpTo = [i \in 0..Len(lines) |->
                       IF i = 0 THEN [whole |-> << >>, begun |-> 0] ELSE WithLine(TextsUpTo[i - 1], lines[i])]
    BY <1>7, ZenonT(60) DEF TextsUpTo
  <1>9. \A i \in D : TextsUpTo[i] = IF i = 0 THEN none ELSE WithLine(TextsUpTo[i - 1], lines[i])
    BY <1>8, ZenonT(60) DEF none
  <1> DEFINE T == {i \in D : TextsUpTo[i] \in Begun}
  <1>10. 0 \in T
    BY <1>0, <1>9
  <1>11. ASSUME NEW i \in T, i < Len(lines) PROVE i + 1 \in T
    <2>1. i + 1 \in D /\ i + 1 # 0 /\ (i + 1) - 1 = i /\ TextsUpTo[i] \in Begun /\ lines[i + 1] \in Line
      BY <1>0, <1>11
    <2>2. TextsUpTo[i + 1] \in Begun
      BY <2>1, <1>9, WithLineTypes
    <2> QED BY <2>1, <2>2
  <1>12. T = D
    <2>1. T \in SUBSET D
      OBVIOUS
    <2> HIDE DEF T
    <2> QED BY <1>0, <1>10, <1>11, <2>1, UpTo
  <1> QED BY <1>0, <1>9, <1>12 DEF none

\* s is where t begins.
Begins(s, t) == Len(s) <= Len(t) /\ \A i \in 1..Len(s) : s[i] = t[i]

\* What begins a sequence begins a longer one.
LEMMA BeginsKept ==
  ASSUME NEW s \in Seq(Nat), NEW t \in Seq(Nat), NEW x \in Nat, Begins(s, t)
  PROVE  Append(t, x) \in Seq(Nat) /\ Begins(s, Append(t, x))
  <1>1. Append(t, x) \in Seq(Nat) /\ Len(Append(t, x)) = Len(t) + 1
    OBVIOUS
  <1>2. \A i \in 1..Len(t) : Append(t, x)[i] = t[i]
    OBVIOUS
  <1>3. Len(s) \in Nat /\ Len(t) \in Nat
    OBVIOUS
  <1> QED BY <1>1, <1>2, <1>3 DEF Begins

\* A sequence begins itself.
LEMMA BeginsSelf == ASSUME NEW s \in Seq(Nat) PROVE Begins(s, s)
  BY DEF Begins

\* What the first lines hold is where the texts of the input begin.
LEMMA TextsBegin ==
  ASSUME lines \in Seq(Line), NEW i \in 0..Len(lines)
  PROVE  /\ Texts \in Seq(Nat) /\ Begins(TextsUpTo[i].whole, Texts)
  <1> DEFINE n == Len(lines)
             W(k) == TextsUpTo[k].whole
             T == {k \in 0..n : \A j \in 0..k : Begins(W(j), W(k))}
  <1>0. n \in Nat /\ \A k \in 0..n : TextsUpTo[k] \in Begun /\ W(k) \in Seq(Nat) /\ TextsUpTo[k].begun \in Nat
    BY TextsByLine DEF Begun
  <1>1. 0 \in T
    BY <1>0 DEF Begins
  <1>2. ASSUME NEW k \in T, k < n PROVE k + 1 \in T
    <2>1. k + 1 \in 1..n /\ (k + 1) - 1 = k /\ k \in 0..n /\ k + 1 \in 0..n /\ lines[k + 1] \in Line
      BY <1>0, <1>2
    <2>2. TextsUpTo[k + 1] = WithLine(TextsUpTo[k], lines[k + 1]) /\ TextsUpTo[k] \in Begun
      BY <2>1, <1>0, TextsByLine
    <2> DEFINE x == TextsUpTo[k].begun + lines[k + 1].len
    <2>3. W(k + 1) = IF lines[k + 1].complete THEN Append(W(k), x) ELSE W(k)
      BY <2>1, <2>2, WithLineTypes
    <2>4. x \in Nat /\ W(k) \in Seq(Nat) /\ W(k + 1) \in Seq(Nat) /\ \A j \in 0..k : W(j) \in Seq(Nat)
      <3>1. lines[k + 1].len \in Nat
        BY <2>1, ReplAssumption DEF Line
      <3>2. /\ TextsUpTo[k].begun \in Nat /\ W(k) \in Seq(Nat) /\ W(k + 1) \in Seq(Nat)
            /\ \A j \in 0..k : j \in 0..n
        BY <2>1, <1>0
      <3>3. \A j \in 0..k : W(j) \in Seq(Nat)
        <4>1. \A j \in 0..n : W(j) \in Seq(Nat)
          BY <1>0
        <4> HIDE DEF W
        <4> QED BY <4>1, <3>2
      <3>4. x \in Nat
        BY <3>1, <3>2
      <3> HIDE DEF x, W
      <3> QED BY <3>2, <3>3, <3>4
    <2> HIDE DEF x, W
    <2>5. ASSUME NEW j \in 0..(k + 1) PROVE Begins(W(j), W(k + 1))
      <3>1. CASE j = k + 1
        BY <3>1, <2>4, BeginsSelf
      <3>2. CASE j # k + 1
        <4>1. j \in 0..k
          BY <3>2, <2>1
        <4>2. Begins(W(j), W(k)) /\ W(j) \in Seq(Nat)
          BY <4>1, <2>4 
        <4> QED BY <4>2, <2>3, <2>4, BeginsKept
      <3> QED BY <3>1, <3>2
    <2> QED BY <2>1, <2>5
  <1>3. T = 0..n
    <2>1. T \in SUBSET (0..n)
      OBVIOUS
    <2> HIDE DEF T, n
    <2> QED BY <1>0, <1>1, <1>2, <2>1, UpTo
  <1>4. Begins(W(i), W(n))
    <2>1. n \in 0..n
      BY <1>0
    <2> QED BY <1>3, <2>1
  <1>5. W(n) \in Seq(Nat) /\ TextsUpTo[n].begun \in Nat /\ W(i) \in Seq(Nat)
    BY <1>0
  <1>6. Texts = IF TextsUpTo[n].begun = 0 THEN W(n) ELSE Append(W(n), TextsUpTo[n].begun)
    BY DEF Texts
  <1>7. Begins(W(i), Texts) /\ Texts \in Seq(Nat)
    <2> DEFINE a == W(i)
               b == W(n)
               x == TextsUpTo[n].begun
    <2>1. a \in Seq(Nat) /\ b \in Seq(Nat) /\ x \in Nat /\ Begins(a, b) /\ (Texts = b \/ Texts = Append(b, x))
      BY <1>4, <1>5, <1>6
    <2> HIDE DEF a, b, x
    <2>2. Begins(a, Texts) /\ Texts \in Seq(Nat)
      BY <2>1, BeginsKept
    <2> QED BY <2>2 DEF a
  <1> QED BY <1>7

\* What the lines that have been read to their end hold.
Read == TextsUpTo[line - 1]

\* The buffer has what there is of the next text.
Reading == seen = Read.whole /\ length = Read.begun + taken

\* The text in the buffer is the next one of the input, and is whole.
Whole ==
  \/ taken = 0 /\ Append(seen, length) = Read.whole /\ Read.begun = 0
  \/ AtEnd /\ Append(seen, length) = Texts

\* What EvaluatesTexts needs to be inductive: what has been read is what has been
\* evaluated and the buffer, at every phase.
ReplInv ==
  /\ lines \in Seq(Line) /\ line \in 1..(Len(lines) + 1)
  /\ taken \in Nat /\ length \in 0..(LineBuf - 1) /\ over \in BOOLEAN
  /\ seen \in Seq(0..(LineBuf - 1))
  /\ ~AtEnd => taken < lines[line].len
  /\ AtEnd => taken = 0
  /\ phase \in {"start", "more", "eval", "exit"}
  /\ phase = "start" => /\ length = 0 /\ taken = 0
                        /\ (seen = Read.whole /\ Read.begun = 0) \/ (AtEnd /\ seen = Texts)
  /\ phase = "more" /\ over => taken = 0 /\ Append(seen, length) = Read.whole /\ Read.begun = 0
  /\ phase = "more" /\ ~over => Reading /\ length > 0
  /\ phase = "eval" => Whole
  /\ phase = "exit" => seen = Read.whole \/ seen = Texts

\* The texts are those of the lines, which stay.
LEMMA TextsStay ==
  ASSUME lines' = lines
  PROVE  /\ TextsUpTo' = TextsUpTo /\ Texts' = Texts /\ Read' = TextsUpTo[line' - 1]
         /\ AtEnd' <=> line' > Len(lines)
  <1>1. TextsUpTo' = TextsUpTo
    BY DEF TextsUpTo
  <1>2. Texts' = Texts
    BY <1>1 DEF Texts
  <1>3. Read' = TextsUpTo[line' - 1]
    BY <1>1 DEF Read
  <1> QED BY <1>1, <1>2, <1>3 DEF AtEnd

\* A call of fgets adds to the buffer what it reads of the input.
LEMMA FgetsReads ==
  ASSUME ReplInv, ~AtEnd, lines' = lines, Fgets(LineBuf - length), Reading
  PROVE  /\ line' \in 1..(Len(lines) + 1) /\ taken' \in Nat
         /\ length' \in 1..(LineBuf - 1) /\ over' \in BOOLEAN
         /\ ~AtEnd' => taken' < lines[line'].len
         /\ AtEnd' => taken' = 0
         /\ over' => taken' = 0 /\ Append(seen, length') = Read'.whole /\ Read'.begun = 0
         /\ ~over' => seen = Read'.whole /\ length' = Read'.begun + taken'
  <1> DEFINE l == lines[line]
             left == l.len - taken
             room == LineBuf - length - 1
             n == IF left <= room THEN left ELSE room
             t == TextsUpTo[line - 1]
  <1>1. /\ line \in 1..Len(lines) /\ l \in Line /\ line - 1 \in 0..Len(lines) /\ Len(lines) \in Nat
        /\ taken \in Nat /\ taken < l.len /\ length \in 0..(LineBuf - 1)
    BY DEF ReplInv, AtEnd
  <1>2. l.len \in Nat /\ l.complete \in BOOLEAN /\ LineBuf \in Nat /\ LineBuf >= 2
    BY <1>1, ReplAssumption DEF Line
  <1>3. t \in Begun /\ TextsUpTo[line] = WithLine(t, l) /\ t.begun \in Nat /\ t.whole \in Seq(Nat)
    <2>1. lines \in Seq(Line)
      BY DEF ReplInv
    <2>2. t \in Begun /\ TextsUpTo[line] = WithLine(t, l)
      BY <1>1, <2>1, TextsByLine
    <2> QED BY <2>2 DEF Begun
  <1>4. /\ length' = length + n
        /\ line' = IF n = left THEN line + 1 ELSE line
        /\ taken' = IF n = left THEN 0 ELSE taken + n
        /\ over' = (n = left /\ l.complete)
    BY <1>1, <1>2 DEF Fgets
  <1>5. seen = t.whole /\ length = t.begun + taken
    BY DEF Read, Reading
  <1>6. /\ WithLine(t, l).whole = (IF l.complete THEN Append(t.whole, t.begun + l.len) ELSE t.whole)
        /\ WithLine(t, l).begun = (IF l.complete THEN 0 ELSE t.begun + l.len)
    BY <1>1, <1>3, WithLineTypes
  <1>7. Read' = TextsUpTo[line' - 1] /\ (AtEnd' <=> line' > Len(lines))
    BY TextsStay
  <1>7b. \A i \in 1..Len(lines) : lines[i] \in Line /\ lines[i].len \in Nat /\ lines[i].len > 0
    <2>1. \A i \in 1..Len(lines) : lines[i] \in Line
      BY DEF ReplInv
    <2>2. \A k \in Nat \ {0} : k > 0
      OBVIOUS
    <2>3. \A x \in Line : x.len \in Nat \ {0}
      BY ReplAssumption DEF Line
    <2> QED BY <2>1, <2>2, <2>3
  <1> HIDE DEF l, t
  <1>8a. left \in Nat /\ left > 0 /\ left + taken = l.len /\ room \in Nat /\ (length = 0 => room > 0)
    BY <1>1, <1>2
  <1> HIDE DEF left
  <1>8b. room + length + 1 = LineBuf
    BY <1>1, <1>2
  <1> HIDE DEF room
  <1>8. n \in Nat /\ n <= left /\ n <= room /\ (length = 0 => n > 0)
    BY <1>8a
  <1> HIDE DEF n
  <1>9. length' \in 1..(LineBuf - 1)
    BY <1>8, <1>8a, <1>8b, <1>1, <1>2, <1>4
  <1>10. CASE n = left
    <2>1. line' = line + 1 /\ taken' = 0 /\ over' = l.complete /\ length' = t.begun + l.len
      <3>1. length' = length + left /\ line' = line + 1 /\ taken' = 0
        BY <1>10, <1>4
      <3>a. length = t.begun + taken /\ left + taken = l.len
        BY <1>5, <1>8a
      <3>b. left \in Nat /\ taken \in Nat /\ t.begun \in Nat
        BY <1>1, <1>3, <1>8a
      <3>2. length' = t.begun + l.len
        BY <3>1, <3>a, <3>b
      <3>3. over' = l.complete
        BY <1>10, <1>4, <1>2
      <3> QED BY <3>1, <3>2, <3>3
    <2>2. Read' = WithLine(t, l)
      BY <2>1, <1>1, <1>3, <1>7
    <2>3. line' \in 1..(Len(lines) + 1)
      BY <2>1, <1>1
    <2>4. ~AtEnd' => taken' < lines[line'].len
      <3>1. ASSUME ~AtEnd' PROVE line' \in 1..Len(lines)
        BY <3>1, <2>3, <1>1, <1>7
      <3>2. ASSUME ~AtEnd' PROVE taken' < lines[line'].len
        <4>1. lines[line'].len > 0
          BY <3>1, <3>2, <1>7b
        <4>2. taken' = 0
          BY <2>1
        <4> QED BY <4>1, <4>2
      <3> QED BY <3>2
    <2>5. over' => taken' = 0 /\ Append(seen, length') = Read'.whole /\ Read'.begun = 0
      BY <2>1, <2>2, <1>5, <1>6
    <2>6. ~over' => seen = Read'.whole /\ length' = Read'.begun + taken'
      BY <2>1, <2>2, <1>5, <1>6, <1>2, <1>3
    <2> QED BY <2>1, <2>3, <2>4, <2>5, <2>6, <1>9, <1>2
  <1>11. CASE n # left
    <2>1. line' = line /\ taken' = taken + n
      BY <1>11, <1>4
    <2>1a. over' = FALSE
      BY <1>11, <1>4
    <2>1b. n < left
      BY <1>11, <1>8, <1>8a
    <2>2. Read' = t
      BY <2>1, <1>7 DEF t
    <2>2a. ~AtEnd'
      BY <2>1, <1>7, <1>1
    <2>3. taken' < lines[line'].len /\ taken' \in Nat
      BY <2>1, <2>1b, <1>1, <1>2, <1>8, <1>8a DEF l
    <2>4. length' = Read'.begun + taken' /\ seen = Read'.whole
      BY <2>1, <2>2, <1>4, <1>5, <1>1, <1>3, <1>8, <1>8a
    <2>5. line' \in 1..(Len(lines) + 1)
      BY <2>1, <1>1
    <2> QED BY <2>1a, <2>2a, <2>3, <2>4, <2>5, <1>9
  <1> QED BY <1>10, <1>11

\* The session's invariant holds at first.
LEMMA ReplInitInv == ReplInit => ReplInv
  <1> SUFFICES ASSUME ReplInit PROVE ReplInv
    OBVIOUS
  <1>1. PICK n \in 0..MaxLines : lines \in [1..n -> Line]
    BY DEF ReplInit
  <1>2. lines \in Seq(Line) /\ Len(lines) = n /\ n \in Nat
    BY <1>1, ReplAssumption
  <1>3. TextsUpTo[0].whole = << >> /\ TextsUpTo[0].begun = 0
    BY <1>2, TextsByLine
  <1>4. Read.whole = << >> /\ Read.begun = 0
    <2>1. line - 1 = 0
      BY DEF ReplInit
    <2> QED BY <2>1, <1>3 DEF Read
  <1>5. ~AtEnd => 0 < lines[line].len
    <2>1. ASSUME ~AtEnd PROVE 0 < lines[line].len
      <3>1. lines[line] \in Line
        BY <2>1, <1>2 DEF ReplInit, AtEnd
      <3>2. lines[line].len \in Nat \ {0}
        BY <3>1, ReplAssumption DEF Line
      <3> QED BY <3>2
    <2> QED BY <2>1
  <1>6. line \in 1..(Len(lines) + 1) /\ 0 \in 0..(LineBuf - 1) /\ seen \in Seq(0..(LineBuf - 1))
    BY <1>2, ReplAssumption DEF ReplInit
  <1> QED BY <1>2, <1>4, <1>5, <1>6 DEF ReplInit, ReplInv

\* At the end of the input the texts are those that have been read.
LEMMA TextsAtEnd ==
  ASSUME ReplInv, AtEnd
  PROVE  Texts = IF Read.begun = 0 THEN Read.whole ELSE Append(Read.whole, Read.begun)
  <1>1. line - 1 = Len(lines)
    BY DEF ReplInv, AtEnd
  <1> QED BY <1>1 DEF Texts, Read

\* Every step of the session keeps its invariant.
LEMMA ReplNextInv == ReplInv /\ [ReplNext]_replVars => ReplInv'
  <1> SUFFICES ASSUME ReplInv, [ReplNext]_replVars PROVE ReplInv'
    OBVIOUS
  <1>s. lines' = lines
    BY DEF ReplNext, ReadFirst, EndOfInput, ReadMore, ReadNothing, Truncate, TextRead, Evaluate, replVars
  <1>t. Texts' = Texts /\ (line' = line => Read' = Read /\ AtEnd' = AtEnd)
    BY <1>s, TextsStay DEF Read, AtEnd
  <1>a. AtEnd => Texts = IF Read.begun = 0 THEN Read.whole ELSE Append(Read.whole, Read.begun)
    BY TextsAtEnd
  <1>1. CASE ReadFirst
    <2>1. /\ ~AtEnd /\ Fgets(LineBuf) /\ length = 0 /\ taken = 0 /\ seen = Read.whole /\ Read.begun = 0
          /\ phase' = "more" /\ seen' = seen
      BY <1>1 DEF ReadFirst, ReplInv
    <2>2. LineBuf - length = LineBuf /\ length = Read.begun + taken
      BY <2>1, ReplAssumption
    <2>3. Fgets(LineBuf - length) /\ Reading
      BY <2>1, <2>2 DEF Reading
    <2> QED BY <2>1, <2>3, <1>s, FgetsReads DEF ReplInv, Reading
  <1>2. CASE ReadMore
    <2>1. /\ ~AtEnd /\ Fgets(Size - length) /\ Reading
          /\ phase' = "more" /\ seen' = seen
      BY <1>2 DEF ReadMore, ReplInv
    <2>2. Size = LineBuf
      BY ReplAssumption DEF Size, ReplInv
    <2>3. Fgets(LineBuf - length)
      BY <2>1, <2>2
    <2> QED BY <2>1, <2>3, <1>s, FgetsReads DEF ReplInv, Reading
  <1>3. CASE EndOfInput
    <2>1. /\ phase = "start" /\ phase' = "exit"
          /\ UNCHANGED <<lines, line, taken, length, over, seen>>
      BY <1>3 DEF EndOfInput
    <2> QED BY <2>1, <1>t DEF ReplInv, Reading
  <1>4. CASE Truncate
    <2>1. /\ phase = "more" /\ ~over /\ AtEnd /\ phase' = "eval"
          /\ UNCHANGED <<lines, line, taken, length, over, seen>>
      BY <1>4 DEF Truncate
    <2>2. length = Read.begun + taken /\ length > 0 /\ taken = 0 /\ seen = Read.whole
      BY <2>1 DEF ReplInv, Reading
    <2>3. Read.begun = length
      <3>1. Read.begun \in Nat
        <4>1. line - 1 \in 0..Len(lines) /\ lines \in Seq(Line)
          BY DEF ReplInv
        <4> QED BY <4>1, TextsByLine DEF Read, Begun
      <3> QED BY <2>2, <3>1
    <2>4. Append(seen, length) = Texts
      BY <2>1, <2>2, <2>3, <1>a
    <2> QED BY <2>1, <2>4, <1>t DEF ReplInv, Whole, Reading
  <1>5. CASE TextRead
    <2>1. /\ phase = "more" /\ over /\ phase' = "eval"
          /\ UNCHANGED <<lines, line, taken, length, over, seen>>
      BY <1>5 DEF TextRead
    <2> QED BY <2>1, <1>t DEF ReplInv, Whole, Reading
  <1>6. CASE Evaluate
    <2>1. /\ phase = "eval" /\ phase' \in {"start", "exit"} /\ seen' = Append(seen, length)
          /\ length' = 0 /\ over' = FALSE /\ UNCHANGED <<lines, line, taken>>
      BY <1>6 DEF Evaluate
    <2>2. Whole
      BY <2>1 DEF ReplInv
    <2>3. seen' \in Seq(0..(LineBuf - 1)) /\ 0 \in 0..(LineBuf - 1)
      BY <2>1, ReplAssumption DEF ReplInv
    <2>4. taken = 0 /\ ((seen' = Read.whole /\ Read.begun = 0) \/ (AtEnd /\ seen' = Texts))
      BY <2>1, <2>2 DEF Whole, ReplInv
    <2> QED BY <2>1, <2>3, <2>4, <1>t DEF ReplInv
  <1>7. CASE UNCHANGED replVars
    BY <1>7, <1>t DEF replVars, ReplInv, Whole, Reading
  <1>8. CASE ReadNothing
    BY <1>8, <1>t DEF ReadNothing, replVars, ReplInv, Whole, Reading
  <1> QED BY <1>1, <1>2, <1>3, <1>4, <1>5, <1>6, <1>7, <1>8 DEF ReplNext

\* Where the invariant holds, what was evaluated is where the texts begin.
LEMMA ReplInvEvaluates == ReplInv => EvaluatesTexts
  <1> SUFFICES ASSUME ReplInv PROVE EvaluatesTexts
    OBVIOUS
  <1>1. lines \in Seq(Line) /\ line - 1 \in 0..Len(lines) /\ LineBuf \in Nat
    BY ReplAssumption DEF ReplInv
  <1>2. Texts \in Seq(Nat) /\ Begins(Read.whole, Texts) /\ Read.whole \in Seq(Nat)
    BY <1>1, TextsBegin, TextsByLine DEF Read, Begun
  <1>3. seen \in Seq(Nat) /\ \A i \in DOMAIN seen : seen[i] <= LineBuf - 1
    <2>1. seen \in Seq(0..(LineBuf - 1)) /\ LineBuf \in Nat
      BY <1>1 DEF ReplInv
    <2> QED BY <2>1
  <1>4. Begins(seen, Texts)
    <2>1. CASE seen = Read.whole
      BY <2>1, <1>2
    <2>2. CASE seen = Texts
      BY <2>2, <1>2, BeginsSelf
    <2>3. CASE Append(seen, length) = Read.whole \/ Append(seen, length) = Texts
      <3>0. length \in Nat
        BY <1>1 DEF ReplInv
      <3>a. Begins(Texts, Texts)
        BY <1>2, BeginsSelf
      <3>1. Begins(Append(seen, length), Texts) /\ length \in Nat
        BY <2>3, <1>2, <3>0, <3>a
      <3>2. Len(Append(seen, length)) = Len(seen) + 1 /\ \A i \in 1..Len(seen) : Append(seen, length)[i] = seen[i]
        BY <1>3, <3>1
      <3>3. Len(seen) \in Nat /\ Len(Texts) \in Nat
        BY <1>2, <1>3
      <3> QED BY <3>1, <3>2, <3>3 DEF Begins
    <2> QED BY <2>1, <2>2, <2>3 DEF ReplInv, Whole, Reading
  <1>5. seen = SubSeq(Texts, 1, Len(seen))
    BY <1>2, <1>3, <1>4 DEF Begins
  <1> QED BY <1>3, <1>5 DEF EvaluatesTexts

\* The texts that a session evaluates are those of its input, one after the other,
\* and each fits in the buffer.
THEOREM SessionReads == ReplSpec => []EvaluatesTexts
  <1>1. ReplInit => ReplInv
    BY ReplInitInv
  <1>2. ReplInv /\ [ReplNext]_replVars => ReplInv'
    BY ReplNextInv
  <1>3. ReplInv => EvaluatesTexts
    BY ReplInvEvaluates
  <1> QED BY <1>1, <1>2, <1>3, PTL DEF ReplSpec
=============================================================================
