\* Shallow reorganisations at any time; a block and a rewind, once begun, complete.
SPECIFICATION Spec
CONSTANTS
  NoHash = NoHash
  Blocks <- MCBlocks
  Height <- MCHeight
  Path <- MCPath
  Items <- MCItems
  Authors = {"x"}
  Topics = {"T"}
  Msg <- MCMsg
  Outs <- MCOuts
  MayShrink = FALSE
  StartHeight = 0
  ReorgDepth = 1
  ReorgLimit = 1
  TornBlocks = FALSE
  TornRewinds = FALSE
INVARIANTS
  NoOrphanRows
  OnlyProtocolRows
  NoMissingRows
  PayloadsMatch
  FirstWins
  VotesLatest
PROPERTY
  FollowsTheChain
