-------------------------- MODULE ScannerProperties --------------------------
(***************************************************************************)
(* What the index must be, whatever the interleaving of the scanner, the   *)
(* node and the failures.                                                  *)
(***************************************************************************)
EXTENDS Scanner

\* The variables have their types; the tables respect their keys; Run's locals have the
\* values its control flow leaves in them.
TypeOK ==
  /\ tip \in Blocks
  /\ StoreTypeOK
  /\ pc \in PCs
  /\ next \in Nat
  /\ prev \in Blocks \cup {NoHash}
  /\ hash \in Blocks \cup {NoHash}
  /\ idx \in Nat
  /\ pc \in {"block", "item", "payload"} <=> hash # NoHash
  /\ MidBlock => idx \in 1 .. Len(Outs[hash]) + 1
  /\ pc = "payload" => idx <= Len(Outs[hash]) /\ msg.kind # "none"

-----------------------------------------------------------------------------
\* Properties that hold whatever fails and however far the chain is reorganised.

\* persist: "referenced items must already exist".  The item a comment answers or a vote
\* is for is indexed, at no greater height, so that no rewind (DeleteFromHeight) takes a
\* parent and leaves its child; and the FOREIGN KEYs of cn_stories and cn_comments hold.
RefIntegrity ==
  /\ \A r \in items : Msg[r.id].kind \in SignedKinds =>
       \E p \in items : p.id = Msg[r.id].ref /\ p.height <= r.height
  /\ \A v \in votes : \E p \in items : p.id = v.target /\ p.height <= v.height
  /\ \A id \in stories \cup comments : ItemByID(id)

\* SaveCursor: the cursor moves to a child of its block, back by a rewind, or to the
\* start height, and never past a height that was not scanned; when it moves, no row is
\* above it.
CursorMoves ==
  [][cursor' # cursor =>
       /\ \A r \in items' : r.height <= cursor'.height
       /\ \/ /\ cursor # NoCursor
             /\ cursor'.height = cursor.height + 1
             /\ PreviousBlockHash(cursor'.hash) = cursor.hash
          \/ cursor'.height < cursor.height
          \/ cursor'.height = StartHeight]_vars

-----------------------------------------------------------------------------
\* The index is what the chain says.

OnActiveChain(h, b) == HasHeight(h) /\ GetBlockHash(h) = b

\* The block that the tables stand for.  A rewind deletes first and stores the cursor
\* later: until then it is the block below the rewind's target, or none.
IndexedHead == IF ~Rewinding THEN cursor.hash
               ELSE IF pc \in {"anchor", "reanchor"} THEN Path[cursor.hash][next - 1]
               ELSE NoHash

\* The scanner would go on from the cursor, and no rewind is under way.
Settled ==
  /\ cursor # NoCursor
  /\ OnActiveChain(cursor.height, cursor.hash)
  /\ ~Rewinding

\* The rows the cursor covers.
Covered(rows) == {r \in rows : r.height <= cursor.height}

\* The positions of the chain that the cursor covers.
ChainRows ==
  UNION {{RowOf(Path[cursor.hash][h], i) : i \in DOMAIN Outs[Path[cursor.hash][h]]}
           : h \in StartHeight .. cursor.height}

\* The protocol's rule, stated on the finished index: a message counts if it decodes and,
\* when it is signed, the signature verifies and the item it refers to counts and comes
\* earlier in the chain.
Counts(r) ==
  /\ Msg[r.id].kind # "none"
  /\ Msg[r.id].kind \in SignedKinds =>
       /\ Msg[r.id].sig
       /\ \E p \in items : p.id = Msg[r.id].ref /\ LaterThan(r, p)

OfKind(k) == {r \in Covered(items) : Msg[r.id].kind = k}

\* After a reorg (rewind), nothing of the abandoned branch is left in cn_items.
NoOrphanRows == Settled => Covered(items) \subseteq ChainRows

\* Only what the protocol's rules accept is indexed, also when a block is replayed.
OnlyProtocolRows == Settled => \A r \in Covered(items) : Counts(r)

\* Everything the rules accept, from the start height to the cursor, is indexed.
NoMissingRows == Settled => \A r \in ChainRows : Counts(r) => r \in items

\* PutItem and PutStory or PutComment are two statements; under the cursor both were
\* executed.
PayloadsMatch ==
  Settled => \A r \in Covered(items) :
               /\ r.id \in stories <=> Msg[r.id].kind = "story"
               /\ r.id \in comments <=> Msg[r.id].kind = "comment"

\* InsertTopicIfAbsent and PutContinuation: the row of a topic, and of a chunk, is the
\* first of the chain, also after rewinds and replays.
FirstWins ==
  Settled =>
    /\ Covered(topics) =
         {[topic |-> Msg[r.id].topic, id |-> r.id, height |-> r.height] :
            r \in {x \in OfKind("topic") :
                     \A y \in OfKind("topic") :
                       Msg[x.id].topic = Msg[y.id].topic => ~LaterThan(x, y)}}
    /\ Covered(conts) =
         {[head |-> Msg[r.id].ref, seq |-> Msg[r.id].seq, id |-> r.id, height |-> r.height] :
            r \in {x \in OfKind("cont") :
                     \A y \in OfKind("cont") :
                       /\ Msg[x.id].ref = Msg[y.id].ref
                       /\ Msg[x.id].seq = Msg[y.id].seq
                       => ~LaterThan(x, y)}}

\* PutVote: a stored vote is a vote of the chain, and the latest of its author for its
\* target.
VotesLatest ==
  Settled => \A v \in Covered(votes) :
    /\ \E r \in OfKind("vote") : VoteOf(r) = v
    /\ \A r \in OfKind("vote") : SameVote(VoteOf(r), v) => ~LaterThan(r, v)

\* PutVote: "keeps only the latest vote per (target, author)", so an author whose vote
\* is on the chain has one in the index.
VotesComplete ==
  Settled => \A r \in OfKind("vote") : \E v \in votes : SameVote(VoteOf(r), v)

-----------------------------------------------------------------------------
\* From some point on the tip stays where it is and calls do not fail: only the scanner
\* takes steps.
Calm == <>[][ScannerStep(StartHeight) \/ HeightRefused]_vars

\* resume asks the node for the hash at the cursor's height, and the chain has one.
LongEnough == <>[](Height[tip] >= cursor.height)

\* cmdRun: "retried on the next poll".  Once the node stays put, answers, and has a chain
\* that is not shorter than the one indexed, the cursor reaches its tip and stays there.
EventuallySynced == Calm /\ LongEnough => <>[](cursor.hash = tip)
=============================================================================
