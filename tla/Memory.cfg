\* The writes in any order, with rewinds to either height.
SPECIFICATION Spec
CONSTANTS
  NoHash = NoHash
  Blocks = {"b"}
  Items = {"s", "r", "c", "d", "e", "t", "u", "w", "k"}
  Authors = {"x", "y"}
  Topics = {"T", "0"}
  Msg <- MCMsgs
  Rows <- MCFewRows
  Heights = {1, 2}
  ZeroTopic = "0"
  ZeroKey = "nobody"
  Nsfw = {"r"}
  Subtype <- MCSubtype
  BlockTime <- MCBlockTime
  Now = 3
  Decay <- MCDecay
  IdRank <- MCIdRank
INVARIANT
  SameAnswers
PROPERTY
  MirrorsButChunks
