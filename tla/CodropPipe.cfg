CONSTANTS
  Byte = {1, 2, 3, 4, 5}
  Absent = Absent
  Input <- MCInput
  BlockSize = 2
  BlockChecksum = TRUE
  StreamChecksum = TRUE
  LevelChoices = {"Fast"}
  CandidateSizes <- MCSizes
  MaxWriteErrors = 1
  RetryAfterError = FALSE
  Garbage = Garbage
  MaxOutputBytes = Absent
  VerifyBlocks = TRUE
  VerifyStream = TRUE
  Callers = {FALSE}
  MaxMisread = 2
  MayCut = TRUE
  Damageable = {"header", "block", "payload", "eos", "hash"}
  MaxDamage = 2
SPECIFICATION FairSpec
INVARIANT EndMeansComplete
PROPERTIES
  FinishedArrives
  ImplementsLossless
