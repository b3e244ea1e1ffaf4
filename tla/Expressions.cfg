SPECIFICATION Spec
CONSTANTS
  Width = 3
  unit = 2
  floatMax = 8
  maxStringLen = 2
  Dims <- Arrays
  Scalars <- SimpleVariables
  Body <- Functions2
  Lets <- Statements
  Memories <- SomeMemories
  Frames <- SomeFrames
INVARIANTS
  TypeOK
  LetDoesWhatItSays
  OnlyApproxIsFatal
  StaticTypesHold
CHECK_DEADLOCK FALSE
