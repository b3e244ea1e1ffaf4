SPECIFICATION Spec
CONSTANTS
  A = A
  B = B
  C = C
  I = I
  FloatNames = {A, B, C}
  IntNames = {I}
  RowIds <- MCRowIds
  maxImplicitSubscript = 2
  IntWidth = 3
  FloatMax = 9
  Programs <- MCPrograms
  Bytes = {0, 1, 2}
  LastAscii = 1
  Values = {3}
  Subscripts <- MCSubscripts
  Multipliers = {2}
  ReadLists <- MCReadLists
  MaxSteps = 4
CHECK_DEADLOCK FALSE
INVARIANTS SharedRowsAreAligned
PROPERTIES OnlyTransposeLosesElements RefusedChangesNothing PanicsAreExplained
