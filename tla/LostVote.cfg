\* As Reorg: a rewind deletes a vote that had replaced an earlier one.
SPECIFICATION Spec
CONSTANTS
  NoHash = NoHash
  Blocks <- MCBlocks
  Height <- MCHeight
  Path <- MCPath
  Items <- MCItems
  Authors = {"x"}
  Topics = {"T"}
  Msg <- MCMsg
  Outs <- MCOuts
  MayShrink = FALSE
  StartHeight = 0
  ReorgDepth = 1
  ReorgLimit = 1
  TornBlocks = FALSE
  TornRewinds = FALSE
INVARIANTS
  VotesComplete
