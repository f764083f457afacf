CONSTANTS
  Half = 4
  Weights = {1, 4, 16}
  Usizes = {32}
  LengthSpan = 4
  LitLens = 9
  Dists = 2
  Eob = 5
  AlphabetSize = 10
  TableSize = 8
  Blocks <- MCBlocks
  LitTables <- MCLitTables
  DistTables <- MCDistTables
  Norms <- MCNorms
  Tails <- MCTails
  Payloads <- MCPayloads
  Expected = {0, 1, 3, 7, 20}
SPECIFICATION Spec
PROPERTY NoRunCuts
