SPECIFICATION Spec
CONSTANTS
  maxInt16 = 3
  maxLineLen = 8
  Digits <- Bits
  numeral <- Binary
  value <- ValueOf
  fileA = fileA
  fileB = fileB
  Names = {fileA, fileB}
  NoName = NoName
  Absent = Absent
  BadLine = BadLine
  Typed <- TypedLines
  Edited <- EditedFiles
  Increments <- LineIncrements
  Faults <- AllFaults
INVARIANTS TypeOK EndIsLast EditsAreNotForgotten UnmodifiedMeansReloadable
PROPERTIES NothingDiscardedUnasked OverwriteNeedsConsent RenumberKeepsTargets RenumberKeepsTexts
SYMMETRY Files
