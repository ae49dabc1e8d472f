SPECIFICATION Spec
CONSTANTS
  Block <- MCBlock
  Size  <- MCSize
INVARIANTS TypeOK SearchTree BoundsExact SuccInOrder
PROPERTIES ImplementsPointerMap InsertBalances
CHECK_DEADLOCK FALSE
