CONSTANTS
  Radix = 2
  OffsetMode = "Offset16"
  Slot = {0, 1}
  hash4 <- MCHash
  Inputs <- MCInputs
  Payloads <- MCPayloads
  Expected = {0, 1, 4, 5, 7}
SPECIFICATION FairSpec
INVARIANTS
  SearchLooksBack
  DecoderStaysInBounds
  RoundTrip
PROPERTY Returns
