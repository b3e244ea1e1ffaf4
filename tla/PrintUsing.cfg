SPECIFICATION Spec
CONSTANTS
  MaxDigits = 3
  MaxOperands = 2
  Formats <- MCFormats
  Operands <- MCOperands
CHECK_DEADLOCK FALSE
INVARIANTS PlainFormatsKeepColumns UsingPanicsAreExplained
