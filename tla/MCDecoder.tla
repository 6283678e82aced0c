----------------------------- MODULE MCDecoder -----------------------------
(***************************************************************************)
(* Bytes of eight values: the one-digit form of CompactSize holds 0 to 4,  *)
(* its markers are 5, 6 and 7.  Fields that have no structure are of one   *)
(* byte.  Lengths lie on both sides of 4.                                  *)
(***************************************************************************)
EXTENDS Decoder

MCMagic == <<2, 3>>

Rep(n, b) == [i \in 1 .. n |-> b]

MCTuples == {[tag |-> TLVURL, value |-> <<>>], [tag |-> TLVSubtype, value |-> <<7>>],
             [tag |-> 0, value |-> Rep(MaxSingle, 1)],
             [tag |-> TLVNSFW, value |-> Rep(MaxSingle + 1, 6)]}
MCTLVs == {<<>>, <<[tag |-> TLVBody, value |-> Rep(Base + 1, 0)]>>} \cup {<<t>> : t \in MCTuples} \cup {<<t, u>> : t, u \in MCTuples}

MCMessages ==
  {[tag |-> TopicCreation, topic |-> <<1>>, days |-> 7, text |-> Rep(n, 1)] :
     n \in {0, MaxSingle, MaxSingle + 1}}
  \cup {[tag |-> Story, topic |-> <<1>>, text |-> Rep(n, 1), tlvs |-> s] :
     n \in {0, HeadlineMaxLen}, s \in MCTLVs}
  \cup {[tag |-> Comment, ref |-> <<0>>, xpk |-> <<1>>, sig |-> <<2>>, tlvs |-> s] : s \in MCTLVs}
  \cup {[tag |-> t, ref |-> <<0>>, xpk |-> <<1>>, sig |-> <<2>>] : t \in {Upvote, Downvote}}
  \cup {[tag |-> Continuation, ref |-> <<0>>, seq |-> 1, text |-> Rep(n, 5)] :
     n \in {1, ContinuationChunk}}

\* Lengths in the four-digit form, over-long or beyond every payload, of a headline and of
\* a TLV.
MCLong == {prefix \o <<FourDigits, n, m, k, 0>> \o Rep(n, 1) :
             prefix \in {<<Story, 1>>, <<Story, 1, 0, TLVURL>>}, n \in 0 .. 4, m \in 0 .. 1, k \in 0 .. 1}

\* Every short script, and every payload with the magic and up to four more bytes.
MCScripts == {<<>>} \cup UNION {[1 .. n -> Byte] : n \in 1 .. 3}
             \cup {Push(MCMagic \o s) : s \in MCLong \cup UNION {[1 .. n -> Byte] : n \in 1 .. 4}}
=============================================================================
