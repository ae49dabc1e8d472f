SPECIFICATION DeepSpec
CONSTANTS
  Block <- MCBlock
  Size  <- MCSize
INVARIANT NoPanic
CHECK_DEADLOCK FALSE
