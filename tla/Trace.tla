------------------------------- MODULE Trace -------------------------------
(***************************************************************************)
(* The trace of function names that sm_error (src/error.c) writes into a   *)
(* fixed buffer, backwards, from the innermost frame out.  One step is one *)
(* iteration of its loop.                                                  *)
(***************************************************************************)
EXTENDS Integers, Sequences

CONSTANTS BufSize,    \* of frame_buf
          Word,       \* 2^w, for the w bits of a size_t
          Lengths,    \* of the names
          MaxFrames   \* frames on the stack

ASSUME TraceAssumption ==
  /\ BufSize \in Nat /\ BufSize >= 4
  /\ Word \in Nat /\ Word > BufSize
  /\ Lengths \subseteq Nat \ {0}
  /\ MaxFrames \in Nat \ {0}

VARIABLES frames,    \* the lengths of the names, the innermost frame first
          written,   \* frames whose name is in the buffer
          p,         \* where the text in the buffer starts
          state      \* "loop", or "all" or "ellipsis" when the text is finished

traceVars == <<frames, written, p, state>>

TraceInit ==
  /\ frames \in UNION {[1..n -> Lengths] : n \in 1..MaxFrames}
  /\ written = 0
  /\ p = BufSize - 1
  /\ state = "loop"

\* A difference of pointers as a size_t.
AsSize(n) == IF n < 0 THEN n + Word ELSE n

NeededForName == frames[written + 1]   \* seeded fault: the colon is not counted

\* The name, and a colon if it is not the first.
Needed == frames[written + 1] + (IF p # BufSize - 1 THEN 1 ELSE 0)

Parent == written + 1 < Len(frames)

RoomForName == AsSize(p)   \* seeded fault: no space is kept for an ellipsis

\* Where the frame has a parent, three characters are kept for an ellipsis.
Room == AsSize(p - (IF Parent THEN 3 ELSE 0))

\* memcpy((p -= 3), "...", 3); break;
Ellipsis ==
  /\ state = "loop" /\ written < Len(frames)
  /\ Needed > Room
  /\ p' = p - 3
  /\ state' = "ellipsis"
  /\ UNCHANGED <<frames, written>>

Name ==
  /\ state = "loop" /\ written < Len(frames)
  /\ Needed <= Room
  /\ p' = p - Needed
  /\ written' = written + 1
  /\ state' = IF Parent THEN "loop" ELSE "all"
  /\ UNCHANGED frames

TraceNext == Ellipsis \/ Name

TraceSpec == TraceInit /\ [][TraceNext]_traceVars

-----------------------------------------------------------------------------
(* Properties                                                              *)

\* The text never starts before the buffer, although its position is compared as
\* an unsigned number: a frame that is yet to be written finds the three
\* characters that the one before it has kept.
InBuffer ==
  /\ p \in 0..BufSize - 1
  /\ state = "loop" => p >= 3

\* What the text of the first n frames takes, with the colons.
TakenBy[n \in 0..Len(frames)] ==
  IF n = 0 THEN 0 ELSE TakenBy[n - 1] + frames[n] + (IF n = 1 THEN 0 ELSE 1)

\* Exactly how much of the stack the text tells.  Every frame but the outermost
\* must leave space for an ellipsis: all are named if all do, else as many as do
\* so, after an ellipsis.  A stack that would fit just so is cut short.
TraceTells ==
  LET fits(n) == TakenBy[n] + (IF n < Len(frames) THEN 3 ELSE 0) <= BufSize - 1 IN
  /\ \A n \in 1..written : fits(n)
  /\ state = "all"      => written = Len(frames)
  /\ state = "ellipsis" => written < Len(frames) /\ ~fits(written + 1)
  /\ p = BufSize - 1 - TakenBy[written] - (IF state = "ellipsis" THEN 3 ELSE 0)
=============================================================================
