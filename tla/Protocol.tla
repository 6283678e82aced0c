------------------------------ MODULE Protocol ------------------------------
(***************************************************************************)
(* The CoinNews messages, as the scanner receives them from the codec.     *)
(*                                                                         *)
(* An item id stands for an outpoint (txid, vout): codec.ItemIDFromRPC     *)
(* derives the one from the other, and two outpoints never share an id.    *)
(* The payload of an outpoint is fixed when its transaction is signed, so  *)
(* what an id decodes to is a constant of the model: Msg[id].  Texts, TLVs *)
(* and times are left out, no property below tells them apart.             *)
(***************************************************************************)
EXTENDS Integers, Sequences

CONSTANTS
  Blocks,     \* block hashes; a hash names its block
  NoHash,     \* the empty string: no hash
  Items,      \* item ids: the outpoints that occur on some branch, or are referred to
  Authors,    \* x-only public keys
  Topics,     \* four-byte topic ids
  Msg         \* Msg[id]: the message that the output with this id decodes to

\* What DecodeMessage returns.  "none" is every output ProcessBlock passes over:
\* no nulldata script, no single push, no magic, an unknown tag, a malformed body.
Kinds == {"none", "topic", "story", "comment", "vote", "cont"}

\* One record shape for every message; a field a kind does not have is arbitrary.
\*   sig   the Schnorr signature verifies (VerifyComment, VerifyVote)
\*   ref   ParentID of a comment, TargetID of a vote, HeadID of a continuation
\*   up    an upvote (TypeUpvote) rather than a downvote (TypeDownvote)
Message == [kind : Kinds, sig : BOOLEAN, ref : Items, author : Authors,
            up : BOOLEAN, topic : Topics, seq : Nat]

\* The messages that carry a signature and refer to an item that must be indexed.
SignedKinds == {"comment", "vote"}

ASSUME MsgAssumption == Msg \in [Items -> Message]
=============================================================================
