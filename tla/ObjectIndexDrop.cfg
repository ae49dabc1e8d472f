SPECIFICATION Spec
CONSTANTS
  Block <- MCBlock
  Size  <- MCSize
INVARIANT DropFreesAll
CHECK_DEADLOCK FALSE
