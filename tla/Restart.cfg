\* The process is restarted with a start height above the cursor.
SPECIFICATION RestartSpec
CONSTANTS
  NoHash = NoHash
  Blocks <- MCBlocks
  Height <- MCHeight
  Path <- MCPath
  Items <- MCItems
  Authors = {"x"}
  Topics = {"T"}
  Msg <- MCMsg
  Outs <- MCOuts
  MayShrink = FALSE
  StartHeight = 0
  ReorgDepth = 1
  ReorgLimit = 9
  TornBlocks = FALSE
  TornRewinds = FALSE
  Starts = {3}
PROPERTIES
  StartOnlyWhenFresh
