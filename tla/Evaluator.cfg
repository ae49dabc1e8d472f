SPECIFICATION Spec
CONSTANTS
  MaxDepth = 4
  MaxForms = 2
INVARIANTS TypeOK FramesAlive ScopeHeld
PROPERTIES Restores ErrorsReported
CHECK_DEADLOCK FALSE
