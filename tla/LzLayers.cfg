CONSTANTS
  Byte = {0, 1, 2}
  Slot = {0, 1, 2, 3, 4}
  hash4 <- MCHash
  MaxMatchLen = 262
  MaxOffset = 40
  Inputs <- MCInputs
  Payloads <- MCPayloads
  Paddings <- MCPaddings
  Expected = {0, 1, 4, 7}
  NumSymbols = 5
  AlphabetSize = 5
  MaxBits = 3
  PrimaryBits = 2
  TableLog = 4
  Eob = 3
  ByteBits = 4
  StateBits = 5
  Messages <- MCMessages
  LonePayloads <- MCBits
  Lengths <- MCLengths
  Norms <- MCNorms
  ExpectedLens = {1, 2}
SPECIFICATION LayersSpec
INVARIANTS
  SearchLooksBack
  DecoderStaysInBounds
  RoundTrip
  CodesArePrefixFree
  TreeIsOptimal
  TableFitsMessage
  StatesStayInTable
  SymbolsSurvive
  TruncationIsNoticed
PROPERTIES
  Returns
  CodingReturns
