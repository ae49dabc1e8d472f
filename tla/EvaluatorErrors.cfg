SPECIFICATION Spec
CONSTANTS
  MaxDepth = 2
  MaxForms = 1
PROPERTY OnlyIgnoreErrors
CHECK_DEADLOCK FALSE
