\* A rewind between a story and a chunk that continues it.
SPECIFICATION Spec
CONSTANTS
  NoHash = NoHash
  Blocks = {"b"}
  Items = {"s", "r", "c", "d", "e", "t", "u", "w", "k"}
  Authors = {"x", "y"}
  Topics = {"T", "0"}
  Msg <- MCMsgs
  Rows <- MCFewRows
  Heights = {1, 2}
  ZeroTopic = "0"
  ZeroKey = "nobody"
  Nsfw = {"r"}
  Subtype <- MCSubtype
  BlockTime <- MCBlockTime
  Now = 3
  Decay <- MCDecay
  IdRank <- MCIdRank
PROPERTY
  MirrorsSQLite
