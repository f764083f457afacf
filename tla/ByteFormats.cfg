CONSTANTS
  Escape = 20
  Digest <- MCDigest
  Decoded <- MCDecoded
  Plain <- MCPlain
  TwoFlips <- MCTwoFlips
  Picture <- MCPicture
  DefaultLimit = 1000
  Headers <- MCHeaders
  Directories <- MCDirectories
  Commands <- MCCommands
  MaxCalls = 2
  Half = 4
  Weights = {1, 4, 16}
  Usizes = {32, 128}
  LengthSpan = 4
  LitLens = 9
  Dists = 2
  Eob = 5
  AlphabetSize = 10
  TableSize = 8
  Blocks <- MCBlocks
  LitTables <- MCLitTables
  DistTables <- MCDistTables
  Norms <- MCNorms
  Tails <- MCTails
  Payloads <- MCPayloads
  Expected = {0, 1, 3, 7, 20}
  HashByte = {0, 1}
  Zero = 0
  WordSize = 3
  MaxLength = 8
SPECIFICATION FormatsSpec
INVARIANTS
  OnlyWholeContainersDecode
  FlippedBitsAreNoticed
  CutsAreReported
  DataSurvive
  BuffersAreFreedOnce
  DecoderStaysInBounds
  RoundTrip
  TruncationIsNoticed
  DigestIsChunkInvariant
PROPERTY RunsOnlyAdd
