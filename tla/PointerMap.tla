----------------------------- MODULE PointerMap -----------------------------
(***************************************************************************)
(* What the object index promises, with no tree in it: a map from every    *)
(* address a program may hold to the live object whose memory contains it. *)
(* Insertion gives the bytes of a block an owner, erasure takes it away,   *)
(* and no operation disturbs the owner of any other byte.                  *)
(* ObjectIndex implements it with object_from_pointer as the map.          *)
(***************************************************************************)
EXTENDS Integers

CONSTANTS Block, Size, Pointer

NoOwner == 0

VARIABLE owner

Bytes(o) == o .. (o + Size[o] - 1)

Init == owner = [a \in Pointer |-> NoOwner]

Claim(o) ==
  /\ \A a \in Bytes(o) : owner[a] = NoOwner
  /\ owner' = [a \in Pointer |-> IF a \in Bytes(o) THEN o ELSE owner[a]]

Release(o) ==
  /\ owner[o] = o
  /\ owner' = [a \in Pointer |-> IF owner[a] = o THEN NoOwner ELSE owner[a]]

Clear == owner' = [a \in Pointer |-> NoOwner]

Next == Clear \/ \E o \in Block : Claim(o) \/ Release(o)

Spec == Init /\ [][Next]_owner
=============================================================================
