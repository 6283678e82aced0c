------------------------------- MODULE Scanner -------------------------------
(***************************************************************************)
(* scanner.Scanner, running in the poll loop of cmdRun: it follows the     *)
(* active chain of the node and keeps the index of the store.              *)
(*                                                                         *)
(* Every call to the node or to the store is a step of its own: between    *)
(* two of them the chain may change, the next call may fail, the context   *)
(* may be cancelled, or the process may die.  Reads of the store belong to *)
(* the step that acts on them: the scanner is the store's only writer.     *)
(***************************************************************************)
EXTENDS Node, Store

CONSTANTS
  StartHeight,   \* the -start flag
  ReorgDepth,    \* Scanner.ReorgDepth
  ReorgLimit,    \* how far below the cursor the node may replace blocks
  TornBlocks,    \* may Run stop between the first write of a block and its cursor?
  TornRewinds    \* may Run stop between the delete of a rewind and the next cursor?

ASSUME ScannerAssumption ==
  /\ StartHeight \in Nat
  /\ ReorgDepth \in Nat
  /\ ReorgLimit \in Nat
  /\ TornBlocks \in BOOLEAN
  /\ TornRewinds \in BOOLEAN

VARIABLES
  pc,     \* the call that Run makes next; "wait" between two calls of Run
  next,   \* Run's next (while a rewind is about to delete: from + 1)
  prev,   \* Run's prevHash
  hash,   \* Run's hash: the block being fetched or indexed
  idx     \* ProcessBlock's position among the outputs of the block

store == <<tables, cursor>>
locals == <<next, prev, hash, idx>>
vars == <<tip, store, pc, locals>>

PCs == {"wait", "count", "hash", "block", "item", "payload", "delete", "anchor", "reanchor"}

Init ==
  /\ tip \in Blocks
  /\ StoreInit
  /\ pc = "wait"
  /\ next = 0
  /\ prev = NoHash
  /\ hash = NoHash
  /\ idx = 0

\* Run returns: its locals are gone.
Return ==
  /\ pc' = "wait"
  /\ next' = 0
  /\ prev' = NoHash
  /\ hash' = NoHash
  /\ idx' = 0

Continue(call, n, p) ==
  /\ pc' = call
  /\ next' = n
  /\ prev' = p
  /\ hash' = NoHash
  /\ idx' = 0

-----------------------------------------------------------------------------
\* resume: a fresh database starts at the configured height; otherwise the block of
\* the cursor must still be on the active chain.

ResumeFresh(start) ==
  /\ pc = "wait"
  /\ cursor = NoCursor
  /\ Continue("count", start, NoHash)
  /\ UNCHANGED <<tip, store>>

ResumeOnChain ==
  /\ pc = "wait"
  /\ cursor # NoCursor
  /\ HasHeight(cursor.height)
  /\ GetBlockHash(cursor.height) = cursor.hash
  /\ Continue("count", cursor.height + 1, cursor.hash)
  /\ UNCHANGED <<tip, store>>

ResumeDiverged ==
  /\ pc = "wait"
  /\ cursor # NoCursor
  /\ HasHeight(cursor.height)
  /\ GetBlockHash(cursor.height) # cursor.hash
  /\ Continue("delete", cursor.height + 1, NoHash)
  /\ UNCHANGED <<tip, store>>

-----------------------------------------------------------------------------
\* rewind(from, startHeight), with from = next - 1.

\* Faulty: one block too few.
RewindTargetShort(from, start) ==
  IF from - ReorgDepth < start THEN start ELSE from - ReorgDepth + 1

RewindTarget(from, start) ==
  IF from - ReorgDepth < start THEN start ELSE from - ReorgDepth

RewindDelete(start) ==
  LET target == RewindTarget(next - 1, start)
  IN  /\ pc = "delete"
      /\ DeleteFromHeight(target)
      /\ Continue(IF target <= start THEN "count" ELSE "anchor", target, NoHash)
      /\ UNCHANGED tip

RewindAnchor ==
  /\ pc = "anchor"
  /\ HasHeight(next - 1)
  /\ Continue("reanchor", next, GetBlockHash(next - 1))
  /\ UNCHANGED <<tip, store>>

\* Faulty: the cursor covers the block that is scanned next.
RewindSaveTarget ==
  /\ pc = "reanchor"
  /\ HasHeight(next)
  /\ SaveCursor(next, GetBlockHash(next))
  /\ Continue("count", next + 1, GetBlockHash(next))
  /\ UNCHANGED tip

RewindSave ==
  /\ pc = "reanchor"
  /\ SaveCursor(next - 1, prev)
  /\ Continue("count", next, prev)
  /\ UNCHANGED tip

-----------------------------------------------------------------------------
\* The loop of Run.

\* Faulty: the last block is left for later.
CaughtUpEarly ==
  /\ pc = "count"
  /\ next >= GetBlockCount
  /\ Return
  /\ UNCHANGED <<tip, store>>

CaughtUp ==
  /\ pc = "count"
  /\ next > GetBlockCount
  /\ Return
  /\ UNCHANGED <<tip, store>>

CountBlocks ==
  /\ pc = "count"
  /\ next <= GetBlockCount
  /\ Continue("hash", next, prev)
  /\ UNCHANGED <<tip, store>>

FetchHash ==
  /\ pc = "hash"
  /\ HasHeight(next)
  /\ pc' = "block"
  /\ hash' = GetBlockHash(next)
  /\ UNCHANGED <<tip, store, next, prev, idx>>

\* Faulty: no continuity check.
BuildsAlways(b) == b \in Blocks

\* The continuity check: without a previous hash there is nothing to compare with.
Builds(b) == prev = NoHash \/ PreviousBlockHash(b) = prev

\* Faulty: the cursor is stored before the block is indexed.
FetchBlockSaveFirst ==
  /\ pc = "block"
  /\ Builds(hash)
  /\ SaveCursor(next, hash)
  /\ pc' = "item"
  /\ idx' = 1
  /\ UNCHANGED <<tip, next, prev, hash>>

FetchBlock ==
  /\ pc = "block"
  /\ Builds(hash)
  /\ pc' = "item"
  /\ idx' = 1
  /\ UNCHANGED <<tip, store, next, prev, hash>>

FetchBlockDiverged ==
  /\ pc = "block"
  /\ ~Builds(hash)
  /\ Continue("delete", next, NoHash)
  /\ UNCHANGED <<tip, store>>

BlockDone ==
  /\ pc = "item"
  /\ idx > Len(Outs[hash])
  /\ SaveCursor(next, hash)
  /\ Continue("count", next + 1, hash)
  /\ UNCHANGED tip

-----------------------------------------------------------------------------
\* ProcessBlock and persist, one output at a time.

RowOf(b, i) == [id |-> Outs[b][i].id, height |-> Height[b],
                tx |-> Outs[b][i].tx, vout |-> Outs[b][i].vout]

row == RowOf(hash, idx)
msg == Msg[row.id]

\* Faulty: the signature is not verified.
AdmissibleUnsigned(m) == m.kind \in SignedKinds => ItemByID(m.ref)

\* Faulty: the reference is not looked up.
AdmissibleUnknown(m) == m.kind \in SignedKinds => m.sig

\* persist's rules for a message with a signature and a reference.
Admissible(m) == m.kind \in SignedKinds => m.sig /\ ItemByID(m.ref)

AtOutput == pc = "item" /\ idx <= Len(Outs[hash])

NextOutput ==
  /\ pc' = "item"
  /\ idx' = idx + 1
  /\ UNCHANGED <<tip, next, prev, hash>>

SkipOutput ==
  /\ AtOutput
  /\ msg.kind = "none"
  /\ NextOutput
  /\ UNCHANGED store

DropMessage ==
  /\ AtOutput
  /\ ~Admissible(msg)
  /\ NextOutput
  /\ UNCHANGED store

\* Faulty: an item that has its row is taken to be finished.
PersistItemOnce ==
  /\ AtOutput
  /\ msg.kind # "none"
  /\ Admissible(msg)
  /\ PutItem(row)
  /\ IF ItemByID(row.id)
     THEN NextOutput
     ELSE pc' = "payload" /\ UNCHANGED <<tip, locals>>

PersistItem ==
  /\ AtOutput
  /\ msg.kind # "none"
  /\ Admissible(msg)
  /\ PutItem(row)
  /\ pc' = "payload"
  /\ UNCHANGED <<tip, locals>>

PersistTopic ==
  /\ pc = "payload"
  /\ msg.kind = "topic"
  /\ InsertTopicIfAbsent([topic |-> msg.topic, id |-> row.id, height |-> row.height])
  /\ NextOutput

PersistStory ==
  /\ pc = "payload"
  /\ msg.kind = "story"
  /\ PutStory(row.id)
  /\ NextOutput

PersistComment ==
  /\ pc = "payload"
  /\ msg.kind = "comment"
  /\ PutComment(row.id)
  /\ NextOutput

VoteOf(r) == [target |-> Msg[r.id].ref, author |-> Msg[r.id].author, up |-> Msg[r.id].up,
              height |-> r.height, tx |-> r.tx, vout |-> r.vout]

PersistVote ==
  /\ pc = "payload"
  /\ msg.kind = "vote"
  /\ PutVote(VoteOf(row))
  /\ NextOutput

PersistContinuation ==
  /\ pc = "payload"
  /\ msg.kind = "cont"
  /\ PutContinuation([head |-> msg.ref, seq |-> msg.seq, id |-> row.id, height |-> row.height])
  /\ NextOutput

ProcessOutput ==
  \/ SkipOutput
  \/ DropMessage
  \/ PersistItem
  \/ PersistTopic
  \/ PersistStory
  \/ PersistComment
  \/ PersistVote
  \/ PersistContinuation

ScannerStep(start) ==
  \/ ResumeFresh(start)
  \/ ResumeOnChain
  \/ ResumeDiverged
  \/ RewindDelete(start)
  \/ RewindAnchor
  \/ RewindSave
  \/ CaughtUp
  \/ CountBlocks
  \/ FetchHash
  \/ FetchBlock
  \/ FetchBlockDiverged
  \/ ProcessOutput
  \/ BlockDone

-----------------------------------------------------------------------------
\* What may go wrong.

\* A rewind has deleted rows and has not stored a cursor since.
Rewinding ==
  /\ cursor # NoCursor
  /\ \/ pc \in {"anchor", "reanchor"}
     \/ pc \in {"count", "hash", "block", "item", "payload"} /\ prev = NoHash

\* Rows of a block may have been written, the cursor that covers them has not.
MidBlock == pc \in {"item", "payload"}

\* Run returns before it has caught up: an RPC or store error, a cancelled context, a
\* height the active chain does not have, a killed process.  The poll loop, or the next
\* process, calls Run again.
Fail ==
  /\ pc # "wait"
  /\ MidBlock => TornBlocks
  /\ Rewinding => TornRewinds
  /\ Return
  /\ UNCHANGED <<tip, store>>

\* getblockhash refuses a height beyond the tip: Run returns the error.  (When resume
\* meets it, Run was only just called, and nothing changes.)
HeightRefused ==
  /\ \/ pc = "hash" /\ ~HasHeight(next)
     \/ pc = "anchor" /\ ~HasHeight(next - 1)
  /\ Return
  /\ UNCHANGED <<tip, store>>

\* The blocks that the switch to b takes from the active chain are within the limit: it
\* keeps the block ReorgLimit below the cursor, as the cursor or as the tip knows it.
Shallow(b) ==
  LET k == cursor.height - ReorgLimit
  IN  cursor # NoCursor /\ k >= StartHeight =>
        /\ k <= Height[b]
        /\ \/ Path[b][k] = Path[cursor.hash][k]
           \/ k <= Height[tip] /\ Path[b][k] = Path[tip][k]

NodeStep(b) ==
  /\ Activate(b)
  /\ Shallow(b)
  /\ UNCHANGED <<store, pc, locals>>

Next ==
  \/ ScannerStep(StartHeight)
  \/ HeightRefused
  \/ Fail
  \/ \E b \in Blocks : NodeStep(b)

Spec == Init /\ [][Next]_vars

\* The poll loop calls Run again and again, and Run makes its calls.
FairSpec == Spec /\ WF_vars(ScannerStep(StartHeight) \/ HeightRefused)
=============================================================================
