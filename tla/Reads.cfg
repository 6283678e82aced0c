SPECIFICATION ReaderSpec
CONSTANTS
  NoHash = NoHash
  Blocks <- MCBlocks
  Height <- MCHeight
  Path <- MCPath
  Items = {"s1", "s2", "s3", "t", "u", "z", "f", "c", "d", "e", "v"}
  Authors = {"x", "y"}
  Topics = {"T", "U", "0"}
  Msg <- MCMsg
  Outs <- MCOuts
  MayShrink = FALSE
  StartHeight = 0
  ReorgDepth = 2
  ReorgLimit = 2
  TornBlocks = FALSE
  TornRewinds = FALSE
  ZeroTopic = "0"
  ZeroKey = "nobody"
  Nsfw = {"s2"}
  Subtype <- MCSubtype
  BlockTime <- MCBlockTime
  Now = 3
  Decay <- MCDecay
  PageSize = 1
  DefaultLimit = 2
  Half = 16
  PageNumbers <- MCPageNumbers
INVARIANTS
  FeedIsTheChain
  NoStorySkipped
  CountsCoverTopic
  SurfacesAgree
  PagesTile
