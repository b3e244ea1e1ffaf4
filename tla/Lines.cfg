SPECIFICATION Spec
CONSTANTS
  maxLineLen = 5
  Typed <- MCTyped
CHECK_DEADLOCK FALSE
INVARIANTS ReloadsTheSame SeparatorsTrail StringsAsTyped
