CONSTANTS
  Byte = {1, 2, 3, 4, 5}
  Absent = Absent
  Input <- MCInput
  BlockSize = 2
  BlockChecksum = TRUE
  StreamChecksum = TRUE
  LevelChoices = {"Fast"}
  CandidateSizes <- OneSize
  MaxWriteErrors = 1
  RetryAfterError = TRUE
SPECIFICATION Spec
INVARIANT FinishedIsContainer
