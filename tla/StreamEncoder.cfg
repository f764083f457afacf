CONSTANTS
  Byte = {1, 2, 3, 4, 5}
  Absent = Absent
  Input <- MCInput
  BlockSize = 2
  BlockChecksum = TRUE
  StreamChecksum = TRUE
  LevelChoices = {"Fast", "Balanced", "Compact", "Auto"}
  CandidateSizes <- MCSizes
  MaxWriteErrors = 1
  RetryAfterError = FALSE
SPECIFICATION FairSpec
INVARIANTS
  TypeOK
  InputAccounted
  FinishedIsContainer
  ExpansionSafeguard
PROPERTY CallsReturn
