CONSTANTS
  Escape = 20
  Digest <- MCDigest
  Decoded <- MCDecoded
  Plain <- MCPlain
  TwoFlips <- MCTwoFlips
  Picture <- MCPicture
  DefaultLimit = 1000
  Headers <- MCHeaders
  Directories <- MCDirectories
  Commands <- MCCommands
  MaxCalls = 2
SPECIFICATION FrontSpec
INVARIANT CutsAreUnexpectedEof
