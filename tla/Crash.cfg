\* The chain only grows; Run may stop anywhere, in the middle of a block too.
SPECIFICATION Spec
CONSTANTS
  NoHash = NoHash
  Blocks <- MCLine
  Height <- MCLineHeight
  Path <- MCLinePath
  Items <- MCItems
  Authors = {"x"}
  Topics = {"T"}
  Msg <- MCMsg
  Outs <- MCLineOuts
  MayShrink = FALSE
  StartHeight = 0
  ReorgDepth = 1
  ReorgLimit = 1
  TornBlocks = TRUE
  TornRewinds = TRUE
INVARIANTS
  OnlyProtocolRows
  NoMissingRows
  PayloadsMatch
  FirstWins
  VotesLatest
  VotesComplete
