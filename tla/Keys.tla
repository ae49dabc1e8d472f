-------------------------------- MODULE Keys --------------------------------
(***************************************************************************)
(* The key comparisons of src/util.c and include/util.h, as the trees use  *)
(* them: their result, an intptr_t, is kept in an int.                     *)
(***************************************************************************)
EXTENDS Integers, Sequences

CONSTANT IntBits   \* the width of an int

\* int cmp = tree->compare(...)
AsInt(d) == LET r == d % (2 ^ IntBits) IN IF r < 2 ^ (IntBits - 1) THEN r ELSE r - 2 ^ IntBits

\* sm_key_compare_ptr, which orders symbols by their address
ComparePtr(a, b) == AsInt(a - b)

CommonPrefixOnly(a, b) ==   \* seeded fault: a text equals those it is a prefix of
  LET same == {i \in 1..Len(a) : i <= Len(b) /\ a[i] # b[i]}
  IN IF same = {} THEN 0 ELSE LET i == CHOOSE m \in same : \A n \in same : m <= n IN AsInt(a[i] - b[i])

\* sm_key_compare_data, which orders strings byte by byte
CompareData(a, b) ==
  LET same == {i \in 0..Len(a) : i <= Len(b) /\ \A j \in 1..i : a[j] = b[j]}
      i    == 1 + (CHOOSE m \in same : \A n \in same : n <= m)   \* where they part
      At(s)   == IF i > Len(s) THEN 0 ELSE s[i]
  IN AsInt(At(a) - At(b))
=============================================================================
