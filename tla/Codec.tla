------------------------------- MODULE Codec -------------------------------
(***************************************************************************)
(* Package codec: the bytes of a CoinNews payload.                         *)
(*                                                                         *)
(* The widths are parameters, so that TLC can take all the values around   *)
(* each boundary: a byte is one of Base values, and CompactSize keeps its  *)
(* one-digit, two-digit and four-digit forms and its three markers.  The   *)
(* code has Base = 256.                                                    *)
(***************************************************************************)
EXTENDS Integers, Sequences, SequencesExt

CONSTANTS
  Base,               \* values of a byte
  Magic,              \* the two bytes that a payload starts with
  TopicLen, ItemIDLen, XOnlyPubKeyLen, SchnorrSigLen,   \* lengths of the fixed fields
  HeadlineMaxLen,     \* the longest headline
  ContinuationChunk   \* the longest chunk

Byte == 0 .. Base - 1

ASSUME CodecAssumption ==
  /\ Base \in Nat /\ Base > 6
  /\ Magic \in Seq(Byte) /\ Len(Magic) = 2
  /\ {TopicLen, ItemIDLen, XOnlyPubKeyLen, SchnorrSigLen,
      HeadlineMaxLen, ContinuationChunk} \subseteq Nat

\* TypeTag
TopicCreation == 1
Story == 2
Comment == 3
Upvote == 4
Downvote == 5
Continuation == 6

\* TLV tags that more than one operator names
TLVURL == 1
TLVBody == 2
TLVLang == 3
TLVNSFW == 4
TLVSubtype == 5
TLVMediaHash == 6
TLVReplyQuote == 7

-----------------------------------------------------------------------------
\* varint.go.  0xfc, and the markers 0xfd, 0xfe and 0xff.

MaxSingle == Base - 4
TwoDigits == Base - 3
FourDigits == Base - 2
NotAllowed == Base - 1

\* Faulty: the first marker is taken for a one-digit value.
PutCompactSizeOffByOne(n) ==
  CASE n <= MaxSingle + 1  -> <<n>>
    [] OTHER               -> <<TwoDigits, n % Base, n \div Base>>

PutCompactSize(n) ==
  CASE n <= MaxSingle -> <<n>>
    [] n \in MaxSingle + 1 .. Base * Base - 1 -> <<TwoDigits, n % Base, n \div Base>>
    [] OTHER -> <<FourDigits, n % Base, (n \div Base) % Base,
                  (n \div (Base * Base)) % Base, (n \div (Base * Base * Base)) % Base>>

\* Digit i of a number, counted from zero; b is as long as its caller tested.
Digit(b, i) == IF i + 2 <= Len(b) THEN b[i + 2] ELSE 0

Two(b) == Digit(b, 0) + Base * Digit(b, 1)
Four(b) == Two(b) + Base * Base * (Digit(b, 2) + Base * Digit(b, 3))

Size(n, used) == {[n |-> n, used |-> used]}

\* Faulty: an over-long form is accepted.
ReadCompactSizeLax(b) ==
  IF Len(b) < 1 THEN {}
  ELSE CASE b[1] = NotAllowed -> {}
         [] b[1] = FourDigits -> IF Len(b) < 5 THEN {} ELSE Size(Four(b), 5)
         [] b[1] = TwoDigits  -> IF Len(b) < 3 THEN {} ELSE Size(Two(b), 3)
         [] OTHER             -> Size(b[1], 1)

\* The value at the front of b and the bytes it takes, or nothing on an error.
ReadCompactSize(b) ==
  IF Len(b) < 1 THEN {}
  ELSE CASE b[1] = NotAllowed -> {}
         [] b[1] = FourDigits -> IF Len(b) < 5 \/ Four(b) <= Base * Base - 1 THEN {}
                                 ELSE Size(Four(b), 5)
         [] b[1] = TwoDigits  -> IF Len(b) < 3 \/ Two(b) <= MaxSingle THEN {}
                                 ELSE Size(Two(b), 3)
         [] OTHER             -> Size(b[1], 1)

-----------------------------------------------------------------------------
\* tlv.go

TLV == [tag : Byte, value : Seq(Byte)]

EncodeTLV(t) == <<t.tag>> \o PutCompactSize(Len(t.value)) \o t.value

EncodeTLVs(tlvs) == FlattenSeq([i \in DOMAIN tlvs |-> EncodeTLV(tlvs[i])])

\* The value of the first tuple with a tag, or nothing.
FindFirst(tlvs, tag) ==
  LET at == {i \in DOMAIN tlvs : tlvs[i].tag = tag}
  IN  {tlvs[i].value : i \in {j \in at : \A k \in at : j <= k}}

-----------------------------------------------------------------------------
\* encode.go.  A message keeps the name of its Go type and the fields of that type; a
\* vote keeps its tag as well.

Header(tag) == Magic \o <<tag>>

Encode(m) ==
  Header(m.tag) \o
  CASE m.tag = TopicCreation -> m.topic \o <<m.days>> \o PutCompactSize(Len(m.text)) \o m.text
    [] m.tag = Story         -> m.topic \o PutCompactSize(Len(m.text)) \o m.text
                                  \o EncodeTLVs(m.tlvs)
    [] m.tag = Comment       -> m.ref \o m.xpk \o m.sig \o EncodeTLVs(m.tlvs)
    [] m.tag \in {Upvote, Downvote} -> m.ref \o m.xpk \o m.sig
    [] m.tag = Continuation  -> m.ref \o <<m.seq>> \o m.text

-----------------------------------------------------------------------------
\* sign.go.  A digest is the pair of the domain tag and the bytes that are hashed: the
\* hash is taken to be injective.

TaggedHash(tag, bytes) == <<tag, bytes>>

CommentSigHash(parent, blob) == TaggedHash("CoinNews/Comment", parent \o blob)

\* Faulty: the kind of the vote is not signed.
VoteSigHashNoTag(tag, target) == TaggedHash("CoinNews/Vote", target)

VoteSigHash(tag, target) == TaggedHash("CoinNews/Vote", <<tag>> \o target)

\* What VerifyComment and VerifyVote hash; blob is the TLV section as it arrived.
SigHash(m, blob) == IF m.tag = Comment THEN CommentSigHash(m.ref, blob)
                    ELSE VoteSigHash(m.tag, m.ref)
=============================================================================
