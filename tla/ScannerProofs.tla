---------------------------- MODULE ScannerProofs ----------------------------
(***************************************************************************)
(* Proofs, for every chain, content, start height, reorg depth and mix of  *)
(* failures, of the properties that the run AnyFault checks on a small     *)
(* chain.                                                                  *)
(***************************************************************************)
EXTENDS ScannerProperties, TLAPS

\* Run is in its loop: it has resumed or rewound.
Looping == pc \in {"count", "hash", "block", "item", "payload"}

\* What Run's locals have to do with the cursor: a previous hash is the cursor's, and
\* without one Run scans the start height; a rewind starts at the cursor and goes back.
Control ==
  /\ cursor # NoCursor =>
       /\ cursor.hash \in Blocks
       /\ Height[cursor.hash] = cursor.height
       /\ cursor.height >= StartHeight
  /\ pc \in {"block", "item", "payload"} => Height[hash] = next
  /\ pc \in {"item", "payload"} => Builds(hash)
  /\ Looping =>
       \/ prev = NoHash /\ next = StartHeight
       \/ prev # NoHash /\ next = cursor.height + 1 /\ prev = cursor.hash
  /\ pc = "delete" => cursor # NoCursor /\ next = cursor.height + 1
  /\ pc \in {"anchor", "reanchor"} =>
       cursor # NoCursor /\ StartHeight < next /\ next <= cursor.height
  /\ pc = "reanchor" => prev \in Blocks /\ Height[prev] = next - 1

\* No row is above the block that Run is at, or would resume at.
RowsBelow ==
  \A r \in items :
    /\ pc \in {"wait", "delete"} =>
         r.height <= IF cursor = NoCursor THEN StartHeight ELSE cursor.height + 1
    /\ Looping => r.height <= next
    /\ pc \in {"anchor", "reanchor"} => r.height < next

\* Between the two writes of a message its item row is there, and so is the item it
\* refers to.
Pending ==
  pc = "payload" =>
    /\ ItemByID(row.id)
    /\ msg.kind \in SignedKinds => \E p \in items : p.id = msg.ref /\ p.height <= next

IInv == TypeOK /\ Control /\ RowsBelow /\ Pending /\ RefIntegrity

-----------------------------------------------------------------------------
\* The node: getblockhash answers with a block of the height asked for.
LEMMA BlockAtHeight ==
  ASSUME tip \in Blocks, NEW h \in Nat, HasHeight(h)
  PROVE  GetBlockHash(h) \in Blocks /\ Height[GetBlockHash(h)] = h
BY TreeAssumption DEF HasHeight, GetBlockHash

\* rewind: the target is a height from the start height up, and no higher than from
\* unless the start height is.
LEMMA TargetRange ==
  ASSUME NEW n \in Nat
  PROVE  /\ RewindTarget(n - 1, StartHeight) \in Nat
         /\ RewindTarget(n - 1, StartHeight) >= StartHeight
         /\ RewindTarget(n - 1, StartHeight) > StartHeight
              => RewindTarget(n - 1, StartHeight) <= n - 1
BY ScannerAssumption DEF RewindTarget

\* ProcessBlock: inside a block there is an output, with a row of the types of cn_items.
LEMMA OutputTypes ==
  ASSUME NEW b \in Blocks, NEW i \in 1 .. Len(Outs[b])
  PROVE  /\ RowOf(b, i) \in ItemRow
         /\ RowOf(b, i).id \in Items
         /\ RowOf(b, i).height = Height[b]
         /\ Msg[RowOf(b, i).id] \in Message
<1>1. Outs[b] \in Seq(Output)
  BY OutsAssumption
<1>2. Outs[b][i] \in Output
  BY <1>1
<1>3. Outs[b][i].id \in Items /\ Outs[b][i].tx \in Nat /\ Outs[b][i].vout \in Nat
  BY <1>2 DEF Output
<1>4. Height[b] \in Nat
  BY TreeAssumption
<1>5. Msg[Outs[b][i].id] \in Message
  BY <1>3, MsgAssumption
<1> QED
  BY <1>3, <1>4, <1>5 DEF RowOf, ItemRow

-----------------------------------------------------------------------------
\* Type correctness, in two parts: the store, and Run's locals.

LocalsOK ==
  /\ pc \in PCs
  /\ next \in Nat
  /\ prev \in Blocks \cup {NoHash}
  /\ hash \in Blocks \cup {NoHash}
  /\ idx \in Nat
  /\ pc \in {"block", "item", "payload"} <=> hash # NoHash
  /\ MidBlock => idx \in 1 .. Len(Outs[hash]) + 1
  /\ pc = "payload" => idx <= Len(Outs[hash]) /\ msg.kind # "none"

\* The tables keep their types and keys in every store operation.
LEMMA PutItemType ==
  ASSUME StoreTypeOK, NEW r \in ItemRow, PutItem(r)
  PROVE  StoreTypeOK'
BY DEF StoreTypeOK, PutItem, ItemByID

\* InsertTopic keeps the shape of the tables.
LEMMA InsertTopicType ==
  ASSUME StoreTypeOK, NEW t \in TopicRow, InsertTopicIfAbsent(t)
  PROVE  StoreTypeOK'
BY DEF StoreTypeOK, InsertTopicIfAbsent

\* UpsertVote keeps the shape of the tables.
LEMMA PutVoteType ==
  ASSUME StoreTypeOK, NEW v \in VoteRow, PutVote(v)
  PROVE  StoreTypeOK'
BY DEF StoreTypeOK, PutVote, SameVote

\* InsertContinuation keeps the shape of the tables.
LEMMA PutContinuationType ==
  ASSUME StoreTypeOK, NEW c \in ContRow, PutContinuation(c)
  PROVE  StoreTypeOK'
BY DEF StoreTypeOK, PutContinuation

\* DeleteAtAndAbove keeps the shape of the tables.
LEMMA DeleteType ==
  ASSUME StoreTypeOK, NEW h, DeleteFromHeight(h)
  PROVE  StoreTypeOK'
BY DEF StoreTypeOK, DeleteFromHeight

\* SaveCursor keeps the shape of the tables.
LEMMA SaveCursorType ==
  ASSUME StoreTypeOK, NEW h \in Nat, NEW b \in Blocks \cup {NoHash}, SaveCursor(h, b)
  PROVE  StoreTypeOK'
BY DEF StoreTypeOK, SaveCursor, tables, Cursor

\* A step that leaves the tables alone keeps their shape.
LEMMA UnchangedType ==
  ASSUME StoreTypeOK, UNCHANGED store
  PROVE  StoreTypeOK'
BY DEF StoreTypeOK, store, tables

\* Every step keeps the store's types.
LEMMA StoreTypeStep ==
  ASSUME TypeOK, Control, [Next]_vars
  PROVE  StoreTypeOK'
<1>0. StoreTypeOK
  BY DEF TypeOK
<1>1. CASE RewindDelete(StartHeight)
  BY <1>0, <1>1, DeleteType DEF RewindDelete
<1>2. CASE RewindSave
  <2>1. next - 1 \in Nat /\ prev \in Blocks \cup {NoHash}
    BY <1>2, ScannerAssumption DEF RewindSave, TypeOK, Control
  <2> QED
    BY <1>0, <1>2, <2>1, SaveCursorType DEF RewindSave
<1>3. CASE BlockDone
  BY <1>0, <1>3, SaveCursorType DEF BlockDone, TypeOK
<1>4. ASSUME pc \in {"item", "payload"}, idx <= Len(Outs[hash])
      PROVE  /\ row \in ItemRow
             /\ row.id \in Items
             /\ row.height \in Nat
             /\ msg \in Message
  <2>1. hash \in Blocks /\ idx \in 1 .. Len(Outs[hash])
    BY <1>4, OutsAssumption DEF TypeOK, MidBlock
  <2> QED
    BY <2>1, OutputTypes DEF row, msg, ItemRow
<1>5. CASE PersistItem
  BY <1>0, <1>4, <1>5, PutItemType DEF PersistItem, AtOutput
<1>6. pc = "payload" => idx <= Len(Outs[hash])
  BY DEF TypeOK
<1>7. CASE PersistTopic
  <2>1. [topic |-> msg.topic, id |-> row.id, height |-> row.height] \in TopicRow
    BY <1>4, <1>6, <1>7 DEF PersistTopic, TopicRow, Message
  <2> QED
    BY <1>0, <1>7, <2>1, InsertTopicType DEF PersistTopic
<1>8. CASE PersistStory
  BY <1>0, <1>4, <1>6, <1>8 DEF PersistStory, PutStory, StoreTypeOK
<1>9. CASE PersistComment
  BY <1>0, <1>4, <1>6, <1>9 DEF PersistComment, PutComment, StoreTypeOK
<1>10. CASE PersistVote
  <2>1. VoteOf(row) \in VoteRow
    BY <1>4, <1>6, <1>10 DEF PersistVote, VoteOf, VoteRow, Message, ItemRow, msg
  <2> QED
    BY <1>0, <1>10, <2>1, PutVoteType DEF PersistVote
<1>11. CASE PersistContinuation
  <2>1. [head |-> msg.ref, seq |-> msg.seq, id |-> row.id, height |-> row.height] \in ContRow
    BY <1>4, <1>6, <1>11 DEF PersistContinuation, ContRow, Message
  <2> QED
    BY <1>0, <1>11, <2>1, PutContinuationType DEF PersistContinuation
<1>12. CASE UNCHANGED store
  BY <1>0, <1>12, UnchangedType
<1>13. \/ UNCHANGED store \/ RewindDelete(StartHeight) \/ RewindSave \/ BlockDone
       \/ PersistItem \/ PersistTopic \/ PersistStory \/ PersistComment \/ PersistVote
       \/ PersistContinuation
  BY DEF Next, ScannerStep, ProcessOutput, ResumeFresh, ResumeOnChain, ResumeDiverged,
         RewindAnchor, CaughtUp, CountBlocks, FetchHash, FetchBlock, FetchBlockDiverged,
         SkipOutput, DropMessage, HeightRefused, Fail, NodeStep, vars
<1> QED
  BY <1>1, <1>2, <1>3, <1>5, <1>7, <1>8, <1>9, <1>10, <1>11, <1>12, <1>13

\* Every step keeps the types of the tip and of Run's locals.
LEMMA LocalsTypeStep ==
  ASSUME TypeOK, Control, [Next]_vars
  PROVE  (tip \in Blocks)' /\ LocalsOK'
<1>0. tip \in Blocks /\ LocalsOK
  BY DEF TypeOK, LocalsOK
<1>1. StartHeight \in Nat /\ cursor.height + 1 \in Nat
      /\ cursor.hash \in Blocks \cup {NoHash} /\ NoHash \notin Blocks
  BY ScannerAssumption, TreeAssumption DEF TypeOK, StoreTypeOK, Cursor
<1>2. ASSUME NEW call \in PCs \ {"block", "item", "payload"}, NEW n \in Nat,
             NEW p \in Blocks \cup {NoHash}, Continue(call, n, p)
      PROVE  LocalsOK'
  BY <1>2 DEF Continue, LocalsOK, MidBlock
<1>3. ASSUME Return
      PROVE  LocalsOK'
  BY <1>1, <1>3 DEF Return, LocalsOK, MidBlock, PCs
<1>4. ASSUME pc \in {"item", "payload"}, idx <= Len(Outs[hash]), NextOutput
      PROVE  tip' = tip /\ LocalsOK'
  <2>1. Len(Outs[hash]) \in Nat
    BY <1>0, <1>4, OutsAssumption DEF LocalsOK
  <2> QED
    BY <1>0, <1>4, <2>1 DEF NextOutput, LocalsOK, MidBlock, PCs
<1>5. CASE ResumeFresh(StartHeight)
  BY <1>0, <1>1, <1>2, <1>5 DEF ResumeFresh, PCs
<1>6. CASE ResumeOnChain
  BY <1>0, <1>1, <1>2, <1>6 DEF ResumeOnChain, PCs
<1>7. CASE ResumeDiverged
  BY <1>0, <1>1, <1>2, <1>7 DEF ResumeDiverged, PCs
<1>8. CASE RewindDelete(StartHeight)
  BY <1>0, <1>2, <1>8, TargetRange DEF RewindDelete, PCs, LocalsOK
<1>9. CASE RewindAnchor
  <2>1. next - 1 \in Nat
    BY <1>0, <1>1, <1>9 DEF RewindAnchor, Control, LocalsOK
  <2>2. GetBlockHash(next - 1) \in Blocks
    BY <1>0, <1>9, <2>1, BlockAtHeight DEF RewindAnchor
  <2> QED
    BY <1>0, <1>2, <1>9, <2>2 DEF RewindAnchor, PCs, LocalsOK
<1>10. CASE RewindSave
  BY <1>0, <1>2, <1>10 DEF RewindSave, PCs, LocalsOK
<1>11. CASE CaughtUp
  BY <1>0, <1>3, <1>11 DEF CaughtUp
<1>12. CASE CountBlocks
  BY <1>0, <1>2, <1>12 DEF CountBlocks, PCs, LocalsOK
<1>13. CASE FetchHash
  <2>1. GetBlockHash(next) \in Blocks
    BY <1>0, <1>13, BlockAtHeight DEF FetchHash, LocalsOK
  <2> QED
    BY <1>0, <1>1, <1>13, <2>1 DEF FetchHash, LocalsOK, MidBlock, PCs
<1>14. CASE FetchBlock
  <2>1. hash \in Blocks /\ Len(Outs[hash]) \in Nat
    BY <1>0, <1>14, OutsAssumption DEF FetchBlock, LocalsOK
  <2> QED
    BY <1>0, <1>14, <2>1 DEF FetchBlock, LocalsOK, MidBlock, PCs
<1>15. CASE FetchBlockDiverged
  BY <1>0, <1>2, <1>15 DEF FetchBlockDiverged, PCs, LocalsOK
<1>16. CASE BlockDone
  BY <1>0, <1>2, <1>16 DEF BlockDone, PCs, LocalsOK
<1>17. CASE SkipOutput \/ DropMessage
  BY <1>0, <1>4, <1>17 DEF SkipOutput, DropMessage, AtOutput
<1>18. CASE PersistItem
  BY <1>0, <1>18 DEF PersistItem, AtOutput, LocalsOK, MidBlock, PCs, locals, msg, row
<1>19. CASE PersistTopic \/ PersistStory \/ PersistComment \/ PersistVote \/ PersistContinuation
  BY <1>0, <1>4, <1>19 DEF PersistTopic, PersistStory, PersistComment, PersistVote,
     PersistContinuation, LocalsOK
<1>20. CASE HeightRefused \/ Fail
  BY <1>0, <1>3, <1>20 DEF HeightRefused, Fail
<1>21. CASE \E b \in Blocks : NodeStep(b)
  <2>1. UNCHANGED <<pc, next, prev, hash, idx>> /\ tip' \in Blocks
    BY <1>21 DEF NodeStep, Activate, locals
  <2> QED
    BY <1>0, <2>1 DEF LocalsOK, MidBlock, msg, row
<1>22. CASE UNCHANGED vars
  <2>1. UNCHANGED <<tip, pc, next, prev, hash, idx>>
    BY <1>22 DEF vars, locals
  <2> QED
    BY <1>0, <2>1 DEF LocalsOK, MidBlock, msg, row
<1> QED
  BY <1>5, <1>6, <1>7, <1>8, <1>9, <1>10, <1>11, <1>12, <1>13, <1>14, <1>15, <1>16, <1>17,
     <1>18, <1>19, <1>20, <1>21, <1>22 DEF Next, ScannerStep, ProcessOutput

-----------------------------------------------------------------------------
\* Every step keeps the relation between Run's locals and the cursor.
LEMMA ControlStep ==
  ASSUME TypeOK, Control, [Next]_vars
  PROVE  Control'
<1>0. /\ StartHeight \in Nat
      /\ NoHash \notin Blocks
      /\ tip \in Blocks
      /\ next \in Nat
      /\ prev \in Blocks \cup {NoHash}
      /\ pc \in PCs
      /\ cursor \in Cursor
      /\ pc \in {"block", "item", "payload"} => hash \in Blocks
  BY ScannerAssumption, TreeAssumption DEF TypeOK, StoreTypeOK
<1>1. cursor # NoCursor => cursor.height \in Nat /\ cursor.hash # NoHash
  BY <1>0 DEF Control, Cursor
<1>2. CASE ResumeFresh(StartHeight)
  BY <1>0, <1>2 DEF ResumeFresh, Continue, Control, Looping, store
<1>3. CASE ResumeOnChain
  BY <1>0, <1>1, <1>3 DEF ResumeOnChain, Continue, Control, Looping, store
<1>4. CASE ResumeDiverged
  BY <1>0, <1>1, <1>4 DEF ResumeDiverged, Continue, Control, Looping, store
<1>5. CASE RewindDelete(StartHeight)
  <2> DEFINE target == RewindTarget(next - 1, StartHeight)
  <2>1. /\ target \in Nat
        /\ target >= StartHeight
        /\ target > StartHeight => target <= next - 1
    BY <1>0, TargetRange
  <2>2. /\ cursor' = cursor
        /\ Continue(IF target <= StartHeight THEN "count" ELSE "anchor", target, NoHash)
        /\ cursor # NoCursor
        /\ next = cursor.height + 1
    BY <1>5 DEF RewindDelete, DeleteFromHeight, Control
  <2> HIDE DEF target
  <2> QED
    BY <1>0, <1>1, <2>1, <2>2 DEF Continue, Control, Looping
<1>6. CASE RewindAnchor
  <2>1. next - 1 \in Nat /\ cursor # NoCursor /\ StartHeight < next /\ next <= cursor.height
    BY <1>0, <1>6 DEF RewindAnchor, Control
  <2>2. GetBlockHash(next - 1) \in Blocks /\ Height[GetBlockHash(next - 1)] = next - 1
    BY <1>0, <1>6, <2>1, BlockAtHeight DEF RewindAnchor
  <2> QED
    BY <1>0, <1>6, <2>1, <2>2 DEF RewindAnchor, Continue, Control, Looping, store
<1>7. CASE RewindSave
  <2>1. /\ prev \in Blocks /\ Height[prev] = next - 1
        /\ StartHeight < next
        /\ cursor' = [height |-> next - 1, hash |-> prev]
        /\ Continue("count", next, prev)
    BY <1>7 DEF RewindSave, SaveCursor, Control
  <2>2. cursor'.height = next - 1 /\ cursor'.hash = prev /\ cursor' # NoCursor
    BY <1>0, <2>1 DEF NoCursor
  <2> QED
    BY <1>0, <2>1, <2>2 DEF Continue, Control, Looping
<1>8. CASE CaughtUp \/ HeightRefused \/ Fail
  BY <1>8 DEF CaughtUp, HeightRefused, Fail, Return, Control, Looping, store
<1>9. CASE CountBlocks
  BY <1>9 DEF CountBlocks, Continue, Control, Looping, store
<1>10. CASE FetchHash
  <2>1. GetBlockHash(next) \in Blocks /\ Height[GetBlockHash(next)] = next
    BY <1>0, <1>10, BlockAtHeight DEF FetchHash
  <2> QED
    BY <1>10, <2>1 DEF FetchHash, Control, Looping, store
<1>11. CASE FetchBlock
  BY <1>11 DEF FetchBlock, Builds, Control, Looping, store
<1>12. CASE FetchBlockDiverged
  <2>1. prev # NoHash /\ next = cursor.height + 1 /\ prev = cursor.hash
    BY <1>12 DEF FetchBlockDiverged, Builds, Control, Looping
  <2>2. cursor # NoCursor
    BY <2>1 DEF NoCursor
  <2> QED
    BY <1>12, <2>1, <2>2 DEF FetchBlockDiverged, Continue, Control, Looping, store
<1>13. CASE BlockDone
  <2>1. /\ hash \in Blocks
        /\ Height[hash] = next
        /\ next >= StartHeight
        /\ cursor' = [height |-> next, hash |-> hash]
        /\ Continue("count", next + 1, hash)
    <3>1. next >= StartHeight
      BY <1>0, <1>13 DEF BlockDone, Control, Looping, NoCursor, Cursor
    <3> QED
      BY <1>0, <1>13, <3>1 DEF BlockDone, SaveCursor, Control
  <2>2. cursor'.height = next /\ cursor'.hash = hash /\ cursor' # NoCursor
    BY <1>0, <2>1 DEF NoCursor
  <2> QED
    BY <1>0, <2>1, <2>2 DEF Continue, Control, Looping
<1>14. CASE SkipOutput \/ DropMessage
  BY <1>14 DEF SkipOutput, DropMessage, AtOutput, NextOutput, Builds, Control,
     Looping, store
<1>15. CASE PersistItem
  BY <1>15 DEF PersistItem, AtOutput, PutItem, Builds, Control, Looping, locals
<1>16. CASE PersistTopic \/ PersistStory \/ PersistComment \/ PersistVote \/ PersistContinuation
  BY <1>16 DEF PersistTopic, PersistStory, PersistComment, PersistVote, PersistContinuation,
     InsertTopicIfAbsent, PutStory, PutComment, PutVote, PutContinuation, NextOutput,
     Builds, Control, Looping
<1>17. CASE \E b \in Blocks : NodeStep(b)
  BY <1>17 DEF NodeStep, Builds, Control, Looping, store, locals
<1>18. CASE UNCHANGED vars
  BY <1>18 DEF vars, Builds, Control, Looping, store, locals
<1> QED
  BY <1>2, <1>3, <1>4, <1>5, <1>6, <1>7, <1>8, <1>9, <1>10, <1>11, <1>12, <1>13, <1>14,
     <1>15, <1>16, <1>17, <1>18 DEF Next, ScannerStep, ProcessOutput

\* Every step keeps the rows below the block that Run is at.
LEMMA RowsStep ==
  ASSUME TypeOK, Control, RowsBelow, [Next]_vars
  PROVE  RowsBelow'
<1>0. /\ StartHeight \in Nat
      /\ next \in Nat
      /\ cursor.height \in Nat
      /\ pc \in PCs
      /\ \A r \in items : r.height \in Nat
  BY ScannerAssumption DEF TypeOK, StoreTypeOK, Cursor, ItemRow
<1>1. CASE ResumeFresh(StartHeight)
  BY <1>0, <1>1 DEF ResumeFresh, Continue, RowsBelow, Looping, store, tables
<1>2. CASE ResumeOnChain
  BY <1>0, <1>2 DEF ResumeOnChain, Continue, RowsBelow, Looping, store, tables
<1>3. CASE ResumeDiverged
  BY <1>0, <1>3 DEF ResumeDiverged, Continue, RowsBelow, Looping, store, tables
<1>4. CASE RewindDelete(StartHeight)
  <2> DEFINE target == RewindTarget(next - 1, StartHeight)
  <2>1. target \in Nat
    BY <1>0, TargetRange
  <2>2. /\ items' = {r \in items : r.height < target}
        /\ next' = target
        /\ pc' \in {"count", "anchor"}
    BY <1>4 DEF RewindDelete, DeleteFromHeight, Continue
  <2> HIDE DEF target
  <2> QED
    BY <1>0, <2>1, <2>2 DEF RowsBelow, Looping
<1>5. CASE RewindAnchor
  BY <1>0, <1>5 DEF RewindAnchor, Continue, RowsBelow, Looping, store, tables
<1>6. CASE RewindSave
  BY <1>0, <1>6 DEF RewindSave, SaveCursor, Continue, RowsBelow, Looping, tables
<1>7. CASE CaughtUp \/ HeightRefused \/ Fail
  \* Run stops: the rows are below the block at which it would resume.
  <2>1. /\ pc' = "wait"
        /\ UNCHANGED <<items, cursor>>
        /\ pc # "wait"
    BY <1>7 DEF CaughtUp, HeightRefused, Fail, Return, store, tables
  <2>2. ASSUME NEW r \in items
        PROVE  r.height <= IF cursor = NoCursor THEN StartHeight ELSE cursor.height + 1
    <3>1. CASE Looping
      BY <1>0, <3>1 DEF RowsBelow, Control, Looping, NoCursor
    <3>2. CASE pc = "delete"
      BY <3>2 DEF RowsBelow
    <3>3. CASE pc \in {"anchor", "reanchor"}
      BY <1>0, <3>3 DEF RowsBelow, Control
    <3> QED
      BY <1>0, <2>1, <3>1, <3>2, <3>3 DEF PCs, Looping
  <2> QED
    BY <2>1, <2>2 DEF RowsBelow, Looping
<1>8. CASE CountBlocks
  BY <1>8 DEF CountBlocks, Continue, RowsBelow, Looping, store, tables
<1>9. CASE FetchHash
  BY <1>9 DEF FetchHash, RowsBelow, Looping, store, tables
<1>10. CASE FetchBlock
  BY <1>10 DEF FetchBlock, RowsBelow, Looping, store, tables
<1>11. CASE FetchBlockDiverged
  <2>1. next = cursor.height + 1 /\ cursor # NoCursor
    BY <1>11 DEF FetchBlockDiverged, Builds, Control, Looping, NoCursor
  <2> QED
    BY <1>11, <2>1 DEF FetchBlockDiverged, Continue, RowsBelow, Looping, store, tables
<1>12. CASE BlockDone
  BY <1>0, <1>12 DEF BlockDone, SaveCursor, Continue, RowsBelow, Looping, tables
<1>13. CASE SkipOutput \/ DropMessage
  BY <1>13 DEF SkipOutput, DropMessage, AtOutput, NextOutput, RowsBelow, Looping, store, tables
<1>14. CASE PersistItem
  <2>1. row.height = next
    BY <1>14 DEF PersistItem, AtOutput, Control, row, RowOf
  <2>2. items' \subseteq items \cup {row} /\ next' = next /\ pc = "item" /\ pc' = "payload"
    BY <1>14 DEF PersistItem, AtOutput, PutItem, locals
  <2> QED
    BY <1>0, <2>1, <2>2 DEF RowsBelow, Looping
<1>15. CASE PersistTopic \/ PersistStory \/ PersistComment \/ PersistVote \/ PersistContinuation
  BY <1>15 DEF PersistTopic, PersistStory, PersistComment, PersistVote, PersistContinuation,
     InsertTopicIfAbsent, PutStory, PutComment, PutVote, PutContinuation, NextOutput,
     RowsBelow, Looping
<1>16. CASE \E b \in Blocks : NodeStep(b)
  BY <1>16 DEF NodeStep, RowsBelow, Looping, store, tables, locals
<1>17. CASE UNCHANGED vars
  BY <1>17 DEF vars, RowsBelow, Looping, store, tables, locals
<1> QED
  BY <1>1, <1>2, <1>3, <1>4, <1>5, <1>6, <1>7, <1>8, <1>9, <1>10, <1>11, <1>12, <1>13,
     <1>14, <1>15, <1>16, <1>17 DEF Next, ScannerStep, ProcessOutput

-----------------------------------------------------------------------------
\* A rewind takes no parent and leaves its child.
LEMMA DeleteRefs ==
  ASSUME StoreTypeOK, RefIntegrity, NEW h \in Nat, DeleteFromHeight(h)
  PROVE  RefIntegrity'
<1>0. /\ \A r \in items : r.height \in Nat
      /\ \A v \in votes : v.height \in Nat
  BY DEF StoreTypeOK, ItemRow, VoteRow
<1>1. ASSUME NEW r \in items', Msg[r.id].kind \in SignedKinds
      PROVE  \E p \in items' : p.id = Msg[r.id].ref /\ p.height <= r.height
  <2>1. r \in items /\ r.height < h
    BY DEF DeleteFromHeight
  <2>2. PICK p \in items : p.id = Msg[r.id].ref /\ p.height <= r.height
    BY <1>1, <2>1 DEF RefIntegrity
  <2>3. p \in items'
    BY <1>0, <2>1, <2>2 DEF DeleteFromHeight
  <2> QED
    BY <2>2, <2>3
<1>2. ASSUME NEW v \in votes'
      PROVE  \E p \in items' : p.id = v.target /\ p.height <= v.height
  <2>1. v \in votes /\ v.height < h
    BY DEF DeleteFromHeight
  <2>2. PICK p \in items : p.id = v.target /\ p.height <= v.height
    BY <2>1 DEF RefIntegrity
  <2>3. p \in items'
    BY <1>0, <2>1, <2>2 DEF DeleteFromHeight
  <2> QED
    BY <2>2, <2>3
<1>3. ASSUME NEW id \in stories' \cup comments'
      PROVE  \E p \in items' : p.id = id
  <2>1. /\ id \in stories \cup comments
        /\ id \notin {r.id : r \in {x \in items : x.height >= h}}
    BY DEF DeleteFromHeight
  <2>2. PICK p \in items : p.id = id
    BY <2>1 DEF RefIntegrity, ItemByID
  <2>3. p.height < h
    BY <1>0, <2>1, <2>2
  <2> QED
    BY <2>2, <2>3 DEF DeleteFromHeight
<1> QED
  BY <1>1, <1>2, <1>3 DEF RefIntegrity, ItemByID

\* Every step keeps the references, and between the two writes of a message the rows
\* that the second one relies on.
LEMMA RefStep ==
  ASSUME TypeOK, Control, RowsBelow, Pending, RefIntegrity, [Next]_vars
  PROVE  RefIntegrity' /\ Pending'
<1>0. /\ next \in Nat
      /\ \A r \in items : r.height \in Nat
      /\ StoreTypeOK
      /\ pc = "payload" => row.height = next
  BY DEF TypeOK, StoreTypeOK, ItemRow, Control, row, RowOf
<1>1. CASE RewindDelete(StartHeight)
  <2>1. RefIntegrity'
    BY <1>0, <1>1, DeleteRefs, TargetRange DEF RewindDelete
  <2>2. pc' # "payload"
    BY <1>1 DEF RewindDelete, Continue
  <2> QED
    BY <2>1, <2>2 DEF Pending
<1>2. CASE PersistItem
  <2>1. /\ pc = "item"
        /\ Admissible(msg)
        /\ PutItem(row)
        /\ UNCHANGED <<next, hash, idx>>
        /\ row.height = next
    BY <1>2 DEF PersistItem, AtOutput, locals, Control, row, RowOf
  <2>2. msg.kind \in SignedKinds => \E p \in items : p.id = msg.ref /\ p.height <= next
    BY <2>1 DEF Admissible, ItemByID, RowsBelow, Looping
  <2>3. items \subseteq items' /\ items' \subseteq items \cup {row} /\ \E p \in items' : p.id = row.id
    BY <2>1 DEF PutItem, ItemByID
  <2>4. ASSUME NEW r \in items', Msg[r.id].kind \in SignedKinds
        PROVE  \E p \in items' : p.id = Msg[r.id].ref /\ p.height <= r.height
    <3>1. CASE r \in items
      BY <2>3, <2>4, <3>1 DEF RefIntegrity
    <3>2. CASE r = row
      BY <2>1, <2>2, <2>3, <2>4, <3>2 DEF msg
    <3> QED
      BY <2>3, <3>1, <3>2
  <2>5. UNCHANGED <<votes, stories, comments>>
    BY <2>1 DEF PutItem
  <2>6. RefIntegrity'
    BY <2>3, <2>4, <2>5 DEF RefIntegrity, ItemByID
  <2>7. row' = row /\ msg' = msg
    BY <2>1 DEF row, msg
  <2>8. Pending'
    BY <2>1, <2>2, <2>3, <2>7 DEF Pending, ItemByID
  <2> QED
    BY <2>6, <2>8
<1>3. CASE PersistVote
  <2>1. /\ votes' \subseteq votes \cup {VoteOf(row)}
        /\ UNCHANGED <<items, stories, comments>>
        /\ pc' # "payload"
    BY <1>3 DEF PersistVote, PutVote, NextOutput
  <2>2. \E p \in items : p.id = VoteOf(row).target /\ p.height <= VoteOf(row).height
    BY <1>0, <1>3 DEF PersistVote, Pending, VoteOf, msg, SignedKinds
  <2>3. \A v \in votes' : \E p \in items' : p.id = v.target /\ p.height <= v.height
    BY <2>1, <2>2 DEF RefIntegrity
  <2> QED
    BY <2>1, <2>3 DEF RefIntegrity, Pending, ItemByID
<1>4. CASE PersistStory \/ PersistComment
  <2>1. /\ stories' \cup comments' \subseteq stories \cup comments \cup {row.id}
        /\ UNCHANGED <<items, votes>>
        /\ pc = "payload"
        /\ pc' # "payload"
    BY <1>4 DEF PersistStory, PersistComment, PutStory, PutComment, NextOutput
  <2>2. ItemByID(row.id)
    BY <2>1 DEF Pending
  <2> QED
    BY <2>1, <2>2 DEF RefIntegrity, Pending, ItemByID
<1>5. CASE /\ UNCHANGED <<items, votes, stories, comments>>
           /\ pc' # "payload"
  BY <1>5 DEF RefIntegrity, Pending, ItemByID
<1>6. CASE UNCHANGED <<items, votes, stories, comments, pc, next, hash, idx>>
  BY <1>6 DEF RefIntegrity, Pending, ItemByID, row, msg
<1>7. CASE UNCHANGED vars \/ \E b \in Blocks : NodeStep(b)
  BY <1>6, <1>7 DEF vars, NodeStep, store, tables, locals
<1>8. CASE RewindSave \/ BlockDone \/ PersistTopic \/ PersistContinuation
  BY <1>5, <1>8 DEF RewindSave, BlockDone, SaveCursor, Continue, PersistTopic,
     PersistContinuation, InsertTopicIfAbsent, PutContinuation, NextOutput, tables
<1>9. CASE \/ ResumeFresh(StartHeight) \/ ResumeOnChain \/ ResumeDiverged \/ RewindAnchor
           \/ CaughtUp \/ CountBlocks \/ FetchHash \/ FetchBlock \/ FetchBlockDiverged
           \/ SkipOutput \/ DropMessage \/ HeightRefused \/ Fail
  BY <1>5, <1>9 DEF ResumeFresh, ResumeOnChain, ResumeDiverged, RewindAnchor, CaughtUp,
     CountBlocks, FetchHash, FetchBlock, FetchBlockDiverged, SkipOutput, DropMessage,
     HeightRefused, Fail, Continue, Return, NextOutput, store, tables
<1> QED
  BY <1>1, <1>2, <1>3, <1>4, <1>7, <1>8, <1>9 DEF Next, ScannerStep, ProcessOutput

-----------------------------------------------------------------------------
\* The inductive invariant holds initially ...
LEMMA InitIInv == Init => IInv
<1> SUFFICES ASSUME Init
             PROVE  IInv
  OBVIOUS
<1>1. TypeOK
  BY DEF Init, StoreInit, TypeOK, StoreTypeOK, Cursor, NoCursor, PCs, MidBlock
<1>2. Control /\ RowsBelow /\ Pending /\ RefIntegrity
  BY DEF Init, StoreInit, Control, Looping, RowsBelow, Pending, RefIntegrity
<1> QED
  BY <1>1, <1>2 DEF IInv

\* ... and is kept by every step.
LEMMA NextIInv == IInv /\ [Next]_vars => IInv'
<1> SUFFICES ASSUME IInv, [Next]_vars
             PROVE  IInv'
  OBVIOUS
<1>0. TypeOK /\ Control /\ RowsBelow /\ Pending /\ RefIntegrity
  BY DEF IInv
<1>1. TypeOK'
  BY <1>0, StoreTypeStep, LocalsTypeStep DEF TypeOK, LocalsOK
<1>2. Control'
  BY <1>0, ControlStep
<1>3. RowsBelow'
  BY <1>0, RowsStep
<1>4. RefIntegrity' /\ Pending'
  BY <1>0, RefStep
<1> QED
  BY <1>1, <1>2, <1>3, <1>4 DEF IInv

\* The inductive invariant holds throughout.
THEOREM Invariance == Spec => []IInv
BY InitIInv, NextIInv, PTL DEF Spec

\* The variables always have their types and the tables respect their keys.
THEOREM TypeCorrect == Spec => []TypeOK
<1>1. IInv => TypeOK
  BY DEF IInv
<1> QED
  BY <1>1, Invariance, PTL

\* persist and DeleteFromHeight: whatever fails, and however far the chain is
\* reorganised, no comment or vote is indexed without the item it refers to, and the
\* foreign keys hold.
THEOREM RefsAlwaysThere == Spec => []RefIntegrity
<1>1. IInv => RefIntegrity
  BY DEF IInv
<1> QED
  BY <1>1, Invariance, PTL

\* What one step may do to the cursor.
CursorMove ==
  cursor' # cursor =>
    /\ \A r \in items' : r.height <= cursor'.height
    /\ \/ /\ cursor # NoCursor
          /\ cursor'.height = cursor.height + 1
          /\ PreviousBlockHash(cursor'.hash) = cursor.hash
       \/ cursor'.height < cursor.height
       \/ cursor'.height = StartHeight

\* Only two steps store a cursor, and both move it as they may.
LEMMA CursorStep == IInv /\ [Next]_vars => CursorMove
<1> SUFFICES ASSUME IInv, [Next]_vars
             PROVE  CursorMove
  OBVIOUS
<1>0. /\ TypeOK /\ Control /\ RowsBelow
      /\ next \in Nat
      /\ \A r \in items : r.height \in Nat
      /\ cursor.height \in Nat
  BY DEF IInv, TypeOK, StoreTypeOK, Cursor, ItemRow
<1>1. CASE RewindSave
  <2>1. /\ cursor'.height = next - 1
        /\ items' = items
        /\ next <= cursor.height
        /\ \A r \in items : r.height < next
    BY <1>0, <1>1 DEF RewindSave, SaveCursor, tables, Control, RowsBelow
  <2> QED
    BY <1>0, <2>1 DEF CursorMove
<1>2. CASE BlockDone
  <2>1. /\ cursor'.height = next
        /\ cursor'.hash = hash
        /\ items' = items
        /\ \A r \in items : r.height <= next
    BY <1>0, <1>2 DEF BlockDone, SaveCursor, tables, RowsBelow, Looping
  <2>2. CASE prev = NoHash
    BY <1>0, <1>2, <2>1, <2>2 DEF CursorMove, BlockDone, Control, Looping
  <2>3. CASE prev # NoHash
    <3>1. next = cursor.height + 1 /\ cursor.hash = prev /\ cursor # NoCursor
      BY <1>0, <1>2, <2>3 DEF BlockDone, Control, Looping, NoCursor
    <3>2. PreviousBlockHash(hash) = prev
      BY <1>0, <1>2, <2>3 DEF BlockDone, Control, Builds
    <3> QED
      BY <2>1, <3>1, <3>2 DEF CursorMove
  <2> QED
    BY <2>2, <2>3
<1>3. CASE cursor' = cursor
  BY <1>3 DEF CursorMove
<1>4. cursor' = cursor \/ RewindSave \/ BlockDone
  BY DEF Next, ScannerStep, ProcessOutput, ResumeFresh, ResumeOnChain, ResumeDiverged,
         RewindDelete, DeleteFromHeight, RewindAnchor, CaughtUp, CountBlocks, FetchHash,
         FetchBlock, FetchBlockDiverged, SkipOutput, DropMessage, PersistItem, PutItem,
         PersistTopic, InsertTopicIfAbsent, PersistStory, PutStory, PersistComment, PutComment,
         PersistVote, PutVote, PersistContinuation, PutContinuation, HeightRefused, Fail,
         NodeStep, vars, store
<1> QED
  BY <1>1, <1>2, <1>3, <1>4

\* SaveCursor: whatever fails, the heights from the start height to the cursor are
\* scanned without a gap, each block on top of the one before, and no row is above the
\* cursor when it is stored.
THEOREM CursorNeverSkips == Spec => CursorMoves
<1>1. IInv /\ [Next]_vars => [CursorMove]_vars
  BY CursorStep
<1>2. Spec => [][CursorMove]_vars
  BY <1>1, Invariance, PTL DEF Spec
<1> QED
  BY <1>2 DEF CursorMoves, CursorMove
=============================================================================
