SPECIFICATION Spec
CONSTANTS
  Prog <- LoopProg
  forStackMax = 2
  gosubStackMax = 2
  fnRecursionMax = 2
  UserOps = {"int", "cont", "immediate"}
INVARIANTS
  TypeOK
  IterationFindsItsLoop
  ForLoopsAreDistinct
  ContResumesInPlace
  ResultsComeFromOwnFrame
PROPERTIES
  LevelsFollowFrames
  NumberedErrorsAreCaught
