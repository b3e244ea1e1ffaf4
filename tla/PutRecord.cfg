SPECIFICATION Spec
CONSTANTS
  fileA = fileA
  fileB = fileB
  FileNames = {fileA, fileB}
  Absent = Absent
  maxFilenums = 3
  blockSize = 2
  OpenTwice = FALSE
  MaxRecord = 2
  MaxLines = 2
  MaxMapped = 3
PROPERTIES PutGoesWhereAsked
SYMMETRY DataFiles
