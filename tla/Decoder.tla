------------------------------ MODULE Decoder ------------------------------
(***************************************************************************)
(* One output on its way from the chain to a row: OpReturnPayload,         *)
(* DecodeMessage with the loop of DecodeTLVs, the signature check, and     *)
(* storyFromMsg or commentFromMsg.                                         *)
(*                                                                         *)
(* Somebody publishes a message with the encoders of the package; anybody  *)
(* may publish a changed copy of it, or any other script.  A slice that    *)
(* reaches beyond its end would stop the process, which after a restart    *)
(* meets the same output again: the state "panic".                         *)
(***************************************************************************)
EXTENDS Codec

CONSTANTS
  Messages,    \* the messages that are published
  Scripts,     \* scripts of other origin
  OpReturn, MaxDirect, PushData1, PushData2   \* opcodes

ASSUME OpcodesAssumption ==
  /\ MaxDirect \in Nat
  /\ {OpReturn, PushData1, PushData2} \subseteq Byte \ (0 .. MaxDirect)
  /\ PushData1 # PushData2 /\ OpReturn \notin {PushData1, PushData2}

\* The messages of message.go: an array of the code is a Bytes of its length.
Bytes(n) == {b \in Seq(Byte) : Len(b) = n}
TopicMessage == [tag : {TopicCreation}, topic : Bytes(TopicLen), days : Byte, text : Seq(Byte)]
StoryMessage == [tag : {Story}, topic : Bytes(TopicLen), text : Seq(Byte), tlvs : Seq(TLV)]
CommentMessage == [tag : {Comment}, ref : Bytes(ItemIDLen), xpk : Bytes(XOnlyPubKeyLen),
                   sig : Bytes(SchnorrSigLen), tlvs : Seq(TLV)]
VoteMessage == [tag : {Upvote, Downvote}, ref : Bytes(ItemIDLen), xpk : Bytes(XOnlyPubKeyLen),
                sig : Bytes(SchnorrSigLen)]
ContinuationMessage == [tag : {Continuation}, ref : Bytes(ItemIDLen), seq : Byte, text : Seq(Byte)]

\* A publisher keeps to the limits of the protocol, which the encoders do not enforce, and
\* a payload fits the longest push.
ASSUME MessagesAssumption ==
  /\ Scripts \subseteq Seq(Byte)
  /\ \A m \in Messages :
       /\ m \in TopicMessage \cup StoryMessage \cup CommentMessage \cup VoteMessage
                \cup ContinuationMessage
       /\ m.tag = Story => Len(m.text) <= HeadlineMaxLen
       /\ m.tag = Continuation => Len(m.text) \in 1 .. ContinuationChunk
       /\ Len(Encode(m)) < Base * Base

VARIABLES
  sent,      \* the message published, or nothing
  copied,    \* the script is a changed copy of the one published
  script,    \* the script of the output
  pc,        \* where the code is: see PCs
  payload,   \* the data that the script pushes
  rest,      \* b: the bytes not yet decoded
  msg,       \* m: the message, as far as it is decoded
  row        \* the row that persist writes

vars == <<sent, copied, script, pc, payload, rest, msg, row>>

PCs == {"script", "payload", "body", "tlvs", "verify", "row", "skipped", "done", "panic"}
Final == {"skipped", "done", "panic"}

\* A publisher's script for a payload, the shortest push that fits.  (External: wallets.)
Push(data) ==
  <<OpReturn>> \o (IF Len(data) \in 1 .. MaxDirect THEN <<Len(data)>>
                   ELSE IF Len(data) < Base THEN <<PushData1, Len(data)>>
                   ELSE <<PushData2, Len(data) % Base, Len(data) \div Base>>) \o data

Init ==
  /\ \/ \E m \in Messages : sent = {m} /\ script = Push(Encode(m))
     \/ sent = {} /\ script \in Scripts
  /\ copied = FALSE
  /\ pc = "script"
  /\ payload = <<>>
  /\ rest = <<>>
  /\ msg = [tag |-> 0]
  /\ row = [raw |-> <<>>]

\* Somebody publishes a copy with one byte changed, added at the end or missing there.
Copy ==
  /\ pc = "script" /\ sent # {} /\ ~copied
  /\ copied' = TRUE
  /\ \/ \E i \in DOMAIN script, b \in Byte : script' = [script EXCEPT ![i] = b]
     \/ \E b \in Byte : script' = Append(script, b)
     \/ script' = Front(script)
  /\ UNCHANGED <<sent, pc, payload, rest, msg, row>>

-----------------------------------------------------------------------------
\* The slices b[:n] for the lengths given (at most four), one after the other, and what is
\* left.

Width(lens, i) == IF i \in DOMAIN lens THEN lens[i] ELSE 0
Start(lens, i) == (IF i > 1 THEN Width(lens, 1) ELSE 0) + (IF i > 2 THEN Width(lens, 2) ELSE 0)
                    + (IF i > 3 THEN Width(lens, 3) ELSE 0)
Total(lens) == Start(lens, 4) + Width(lens, 4)
Fits(b, lens) == Total(lens) <= Len(b)
Field(b, lens, i) == SubSeq(b, Start(lens, i) + 1, Start(lens, i) + lens[i])
After(b, lens) == SubSeq(b, Total(lens) + 1, Len(b))

\* The code goes on at l with message m and b left, unless a slice of b was out of range.
Goto(l, b, lens, m) ==
  /\ pc' = IF Fits(b, lens) THEN l ELSE "panic"
  /\ rest' = IF Fits(b, lens) THEN After(b, lens) ELSE rest
  /\ msg' = IF Fits(b, lens) THEN m ELSE msg
  /\ UNCHANGED <<sent, copied, script, payload, row>>

\* An error: ProcessBlock passes the output over.
Skip == pc' = "skipped" /\ UNCHANGED <<sent, copied, script, payload, rest, msg, row>>

\* parsePush: the length of the push and the bytes before the data, or nothing.
\* b begins after OP_RETURN.
PushSize(b) ==
  LET op == IF b = <<>> THEN 0 ELSE b[1]
  IN  CASE op \in 1 .. MaxDirect               -> Size(op, 1)
        [] op = PushData1 /\ Len(b) > 1        -> Size(b[2], 2)
        [] op = PushData2 /\ Len(b) > 2        -> Size(b[2] + Base * b[3], 3)
        [] OTHER                               -> {}

\* OpReturnPayload
OpReturnPayload ==
  /\ pc = "script"
  /\ LET sizes == IF script # <<>> /\ script[1] = OpReturn THEN PushSize(Tail(script)) ELSE {}
     IN  \/ sizes = {} /\ Skip
         \/ \E s \in sizes : Len(script) - 1 - s.used < s.n /\ Skip
         \/ \E s \in sizes :
              /\ Len(script) - 1 - s.used >= s.n
              /\ payload' = SubSeq(script, 2 + s.used, 1 + s.used + s.n)
              /\ pc' = "payload"
              /\ UNCHANGED <<sent, copied, script, rest, msg, row>>

\* DecodeMessage, up to its switch.
DecodeMessage ==
  /\ pc = "payload"
  /\ IF \/ Len(payload) < 3
        \/ SubSeq(payload, 1, 2) # Magic
        \/ payload[3] \notin {TopicCreation, Story, Comment, Upvote, Downvote, Continuation}
     THEN Skip
     ELSE Goto("body", payload, <<3>>, [tag |-> payload[3]])

DecodeTopicCreation ==
  /\ pc = "body" /\ msg.tag = TopicCreation
  /\ LET sizes == ReadCompactSize(After(rest, <<TopicLen, 1>>))
     IN  \/ (Len(rest) < TopicLen + 1 \/ sizes = {}) /\ Skip
         \/ \E s \in sizes :
              LET lens == <<TopicLen, 1, s.used, s.n>>
              IN  /\ Len(rest) >= TopicLen + 1
                  /\ IF Len(rest) # Total(lens) THEN Skip
                     ELSE Goto("row", rest, lens,
                               [tag |-> TopicCreation, topic |-> Field(rest, lens, 1),
                                days |-> rest[TopicLen + 1], text |-> Field(rest, lens, 4)])

\* Faulty: the length of the headline is not compared with what is left.
DecodeStoryUnchecked ==
  /\ pc = "body" /\ msg.tag = Story
  /\ LET sizes == ReadCompactSize(After(rest, <<TopicLen>>))
     IN  \/ (Len(rest) < TopicLen \/ sizes = {}) /\ Skip
         \/ \E s \in sizes :
              LET lens == <<TopicLen, s.used, s.n>>
              IN  /\ Len(rest) >= TopicLen
                  /\ IF s.n > HeadlineMaxLen THEN Skip
                     ELSE Goto("tlvs", rest, lens,
                               [tag |-> Story, topic |-> Field(rest, lens, 1),
                                text |-> Field(rest, lens, 3), tlvs |-> <<>>])

DecodeStory ==
  /\ pc = "body" /\ msg.tag = Story
  /\ LET sizes == ReadCompactSize(After(rest, <<TopicLen>>))
     IN  \/ (Len(rest) < TopicLen \/ sizes = {}) /\ Skip
         \/ \E s \in sizes :
              LET lens == <<TopicLen, s.used, s.n>>
              IN  /\ Len(rest) >= TopicLen
                  /\ IF s.n > HeadlineMaxLen \/ Len(rest) < Total(lens) THEN Skip
                     ELSE Goto("tlvs", rest, lens,
                               [tag |-> Story, topic |-> Field(rest, lens, 1),
                                text |-> Field(rest, lens, 3), tlvs |-> <<>>])

\* ParentID or TargetID, AuthorXPK and Sig.
Signed == <<ItemIDLen, XOnlyPubKeyLen, SchnorrSigLen>>

DecodeComment ==
  /\ pc = "body" /\ msg.tag = Comment
  /\ IF Len(rest) < Total(Signed) THEN Skip
     ELSE Goto("tlvs", rest, Signed,
               [tag |-> Comment, ref |-> Field(rest, Signed, 1), xpk |-> Field(rest, Signed, 2),
                sig |-> Field(rest, Signed, 3), blob |-> After(rest, Signed), tlvs |-> <<>>])

DecodeVote ==
  /\ pc = "body" /\ msg.tag \in {Upvote, Downvote}
  /\ IF Len(rest) # Total(Signed) THEN Skip
     ELSE Goto("verify", rest, Signed,
               [tag |-> msg.tag, ref |-> Field(rest, Signed, 1), xpk |-> Field(rest, Signed, 2),
                sig |-> Field(rest, Signed, 3)])

DecodeContinuation ==
  /\ pc = "body" /\ msg.tag = Continuation
  /\ LET chunk == Len(rest) - ItemIDLen - 1
         lens == <<ItemIDLen, 1, chunk>>
     IN  IF chunk < 1 \/ chunk > ContinuationChunk THEN Skip
         ELSE Goto("row", rest, lens,
                   [tag |-> Continuation, ref |-> Field(rest, lens, 1),
                    seq |-> rest[ItemIDLen + 1], text |-> Field(rest, lens, 3)])

\* Faulty: a tuple of length zero is passed over before the bytes are.
DecodeTLVsStuck ==
  /\ pc = "tlvs"
  /\ IF rest = <<>> THEN Goto(IF msg.tag = Comment THEN "verify" ELSE "row", rest, <<>>, msg)
     ELSE LET sizes == ReadCompactSize(Tail(rest))
          IN  \/ sizes = {} /\ Skip
              \/ \E s \in sizes :
                   LET lens == <<1, s.used, s.n>>
                   IN  IF Len(rest) < Total(lens) THEN Skip
                       ELSE IF s.n = 0 THEN UNCHANGED vars
                       ELSE Goto("tlvs", rest, lens,
                                 [msg EXCEPT !.tlvs = Append(@, [tag |-> rest[1],
                                                                 value |-> Field(rest, lens, 3)])])

\* DecodeTLVs: one tuple, or the end of the loop.
DecodeTLVs ==
  /\ pc = "tlvs"
  /\ IF rest = <<>> THEN Goto(IF msg.tag = Comment THEN "verify" ELSE "row", rest, <<>>, msg)
     ELSE LET sizes == ReadCompactSize(Tail(rest))
          IN  \/ sizes = {} /\ Skip
              \/ \E s \in sizes :
                   LET lens == <<1, s.used, s.n>>
                   IN  IF Len(rest) < Total(lens) THEN Skip
                       ELSE Goto("tlvs", rest, lens,
                                 [msg EXCEPT !.tlvs = Append(@, [tag |-> rest[1],
                                                                 value |-> Field(rest, lens, 3)])])

-----------------------------------------------------------------------------
\* BIP-340, external: the one signature known for a key is the one its owner made.
VerifySchnorr(xpk, sig, digest) ==
  \E m \in sent : /\ m.tag \in {Comment, Upvote, Downvote}
                  /\ m.xpk = xpk /\ m.sig = sig
                  /\ digest = SigHash(m, IF m.tag = Comment THEN EncodeTLVs(m.tlvs) ELSE <<>>)

\* VerifyComment and VerifyVote, as persist calls them.
Verify ==
  /\ pc = "verify"
  /\ LET blob == IF msg.tag = Comment THEN msg.blob ELSE <<>>
     IN  IF VerifySchnorr(msg.xpk, msg.sig, SigHash(msg, blob))
         THEN Goto("row", rest, <<>>, msg) ELSE Skip

\* A column for a TLV: its first value; the zero value if there is none.
Column(tag) ==
  IF FindFirst(msg.tlvs, tag) = {} THEN <<>> ELSE CHOOSE v \in FindFirst(msg.tlvs, tag) : TRUE

\* Faulty: the tuples with an unassigned tag are left out.
StoryFromMsgTrims ==
  [url |-> Column(TLVURL), body |-> Column(TLVBody), lang |-> Column(TLVLang),
   nsfw |-> FindFirst(msg.tlvs, TLVNSFW) # {},
   subtype |-> IF Column(TLVSubtype) = <<>> THEN 0 ELSE Column(TLVSubtype)[1],
   media |-> Column(TLVMediaHash),
   raw |-> EncodeTLVs(SelectSeq(msg.tlvs, LAMBDA t : t.tag # 0))]

StoryFromMsg ==
  [url |-> Column(TLVURL), body |-> Column(TLVBody), lang |-> Column(TLVLang),
   nsfw |-> FindFirst(msg.tlvs, TLVNSFW) # {},
   subtype |-> IF Column(TLVSubtype) = <<>> THEN 0 ELSE Column(TLVSubtype)[1],
   media |-> Column(TLVMediaHash), raw |-> EncodeTLVs(msg.tlvs)]

CommentFromMsg ==
  [url |-> Column(TLVURL), body |-> Column(TLVBody), lang |-> Column(TLVLang),
   quote |-> Column(TLVReplyQuote), raw |-> msg.blob]

WriteRow ==
  /\ pc = "row"
  /\ row' = CASE msg.tag = Story   -> StoryFromMsg
              [] msg.tag = Comment -> CommentFromMsg
              [] OTHER             -> [raw |-> <<>>]
  /\ pc' = "done"
  /\ UNCHANGED <<sent, copied, script, payload, rest, msg>>

Terminated == pc \in Final /\ UNCHANGED vars

Decode ==
  \/ OpReturnPayload \/ DecodeMessage
  \/ DecodeTopicCreation \/ DecodeStory \/ DecodeComment \/ DecodeVote \/ DecodeContinuation
  \/ DecodeTLVs \/ Verify \/ WriteRow

Next == Copy \/ Decode \/ Terminated

\* The decoder is plain sequential code.
Spec == Init /\ [][Next]_vars /\ WF_vars(Decode)

-----------------------------------------------------------------------------
\* Properties.

\* The length tests of parsePush, DecodeMessage and the decoders: no script, of whatever
\* origin, makes the decoder slice beyond the end of its bytes and stop the indexer.
NoPanic == pc # "panic"

\* readCompactSize "rejects [...] any non-canonical (over-long) encoding", and the decoders
\* leave no byte unread: a payload is accepted only if it is the one encoding of its
\* message.  In the loop of DecodeTLVs, the tuples so far and the rest make up the payload.
Canonical ==
  pc \in {"tlvs", "verify", "row", "done"} => Encode(msg) \o rest = payload

\* encode.go and message.go agree: a message that the encoders wrote, with every length on
\* either side of a boundary of CompactSize, comes back as it was.
RoundTrip ==
  pc \in Final /\ ~copied =>
    \A m \in sent : pc = "done" /\ \A f \in DOMAIN m : msg[f] = m[f]

\* sign.go: "so a signature cannot be replayed across vote kinds".  A comment or a vote that
\* is indexed is, in all of its fields, the one that its author signed: no copy of it on
\* another item, with other TLVs, or as a message of another kind is.
Authentic ==
  pc = "done" /\ msg.tag \in {Comment, Upvote, Downvote} =>
    \E m \in sent : \A f \in DOMAIN m : msg[f] = m[f]

\* The raw_tlv column keeps the TLV section byte for byte, though a story's is encoded
\* again from its tuples and a comment's is the slice that was signed.
RawIsPublished ==
  pc = "done" /\ msg.tag \in {Story, Comment} =>
    Encode([msg EXCEPT !.tlvs = <<>>]) \o row.raw = payload

\* The loop of DecodeTLVs ends, on every script.
Terminates == <>(pc \in Final)
=============================================================================
