------------------------- MODULE MCObjectIndexDeep --------------------------
(***************************************************************************)
(* A larger instance of ObjectIndex: twelve objects of one byte are        *)
(* allocated in one fixed order of addresses, and from then on any object  *)
(* may be erased and any free block allocated again.  Fixing the first     *)
(* twelve insertions only removes behaviours: those left are behaviours of *)
(* ObjectIndex.                                                            *)
(***************************************************************************)
EXTENDS ObjectIndex

VARIABLE todo   \* the insertions that remain of the fixed prefix

MCBlock == 1..12
MCSize  == [o \in MCBlock |-> 1]
Prefix  == <<1, 2, 3, 5, 6, 4, 8, 10, 11, 7, 12, 9>>

DeepInit == Init /\ todo = Prefix

DeepNext ==
  \/ todo # << >> /\ Insert(Head(todo)) /\ todo' = Tail(todo)
  \/ todo = << >> /\ UNCHANGED todo /\ \E o \in Block : Insert(o) \/ Erase(o)

DeepSpec == DeepInit /\ [][DeepNext]_<<vars, todo>>
=============================================================================
