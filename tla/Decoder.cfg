SPECIFICATION Spec
CONSTANTS
  Base = 8
  Magic <- MCMagic
  TopicLen = 1
  ItemIDLen = 1
  XOnlyPubKeyLen = 1
  SchnorrSigLen = 1
  HeadlineMaxLen = 4
  ContinuationChunk = 3
  Messages <- MCMessages
  Scripts <- MCScripts
  OpReturn = 7
  MaxDirect = 3
  PushData1 = 4
  PushData2 = 5
INVARIANTS
  NoPanic
  Canonical
  RoundTrip
  Authentic
  RawIsPublished
PROPERTY Terminates
