\* Everything at once: reorganisations of any depth, a shrinking chain, Run stopping
\* anywhere, and an answer before the comment it answers.
SPECIFICATION FairSpec
CONSTANTS
  NoHash = NoHash
  Blocks <- MCFewBlocks
  Height <- MCFewHeight
  Path <- MCFewPath
  Items <- MCItems
  Authors = {"x"}
  Topics = {"T", "0"}
  Msg <- MCMsg
  Outs <- MCFewOuts
  MayShrink = TRUE
  StartHeight = 0
  ReorgDepth = 1
  ReorgLimit = 9
  TornBlocks = TRUE
  TornRewinds = TRUE
  ZeroTopic = "0"
  ZeroKey = "nobody"
  Nsfw = {"s"}
  Subtype <- MCSubtype
  BlockTime <- MCBlockTime
  Now = 4
  Decay <- MCDecay
INVARIANTS
  TypeOK
  RefIntegrity
  CommentsReachable
  CountsShown
PROPERTIES
  CursorMoves
  EventuallySynced
