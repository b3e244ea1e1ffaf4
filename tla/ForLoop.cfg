SPECIFICATION FairSpec
CONSTANTS
  maxForInteger = 4
  IntMax = 5
  Exact = 6
  Shown = 3
  Integer <- MCInteger
  Float <- MCFloat
CHECK_DEADLOCK FALSE
INVARIANT EveryValueOnce
PROPERTY LoopsEnd
