CONSTANTS
  LiteralTag = 15
  Blanks = {2}
  Whitespace = {2, 3}
  Control = {0, 1}
  Quote = 4
  Backslash = 5
  Colon = 6
  Comma = 7
  OpenBrace = 8
  CloseBrace = 9
  OpenBracket = 10
  CloseBracket = 11
  SampleSize = 16
  MaxJsonToken = 12
  MaxTokenLen = 8
  MaxDynamicTokens = 2
  MinSource = 12
  MaxMeta = 100
  MaxDeltaStride = 8
  JsonDict <- MCJsonDict
  WebDict <- MCWebDict
  Sources <- MCSources
  CompSizes = {0, 4, 20}
  Heads <- MCHeads
  Contents <- MCContents
  Expected = {0, 3, 4}
  Limits = {3, 6}
SPECIFICATION PrefilterSpec
INVARIANT EveryBlockReturns
