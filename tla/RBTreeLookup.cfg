SPECIFICATION Spec
CONSTANTS
  Key = {1, 2, 3, 4, 5, 6}
  Value = {v1}
  IntBits = 6
  Compare <- ByAddress
INVARIANTS FindsPresent
