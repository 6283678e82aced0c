\* Run stops in the middle of a block that is then replaced.
SPECIFICATION Spec
CONSTANTS
  NoHash = NoHash
  Blocks <- MCBlocks
  Height <- MCHeight
  Path <- MCPath
  Items <- MCItems
  Authors = {"x"}
  Topics = {"T"}
  Msg <- MCMsg
  Outs <- MCOuts
  MayShrink = FALSE
  StartHeight = 0
  ReorgDepth = 1
  ReorgLimit = 0
  TornBlocks = TRUE
  TornRewinds = FALSE
INVARIANTS
  NoOrphanRows
