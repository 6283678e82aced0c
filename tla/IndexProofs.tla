---------------------------- MODULE IndexProofs ----------------------------
(***************************************************************************)
(* Proofs that the index is what the chain says, in the two environments   *)
(* that the runs Reorg and Crash check on a small chain: for every chain,  *)
(* content, start height and reorg depth.                                  *)
(***************************************************************************)
EXTENDS ScannerProofs, WellFoundedInduction

\* The environment of run Reorg: the chain is replaced within ReorgDepth and never gets
\* shorter, and a block and a rewind, once begun, complete.
ShallowReorgs ==
  /\ ~TornBlocks
  /\ ~TornRewinds
  /\ ~MayShrink
  /\ ReorgLimit <= ReorgDepth

\* No message refers to a later output of its own block.
NoForwardRefs ==
  \A b \in Blocks : \A i, j \in DOMAIN Outs[b] :
    i < j /\ Msg[Outs[b][i].id].kind \in SignedKinds => Msg[Outs[b][i].id].ref # Outs[b][j].id

\* The environment of run Crash: all blocks are on one chain, and Run may stop anywhere.
OneChain ==
  /\ \A a, b \in Blocks : Height[a] <= Height[b] => Path[b][Height[a]] = a
  /\ NoForwardRefs

-----------------------------------------------------------------------------
\* The inductive invariant.

\* In the environment ShallowReorgs: no height that Run asks for is refused while it
\* matters, and the active chain and the chain of the cursor differ only near its end, so
\* that the block that a rewind goes back to is on both.  One block more is on both from
\* the moment that a block is fetched on top of the cursor.
Near(d) ==
  LET k == cursor.height - ReorgLimit - d
  IN  k >= StartHeight => k <= Height[tip] /\ Path[tip][k] = Path[cursor.hash][k]

Anchored ==
  ShallowReorgs =>
    /\ cursor # NoCursor => cursor.height <= Height[tip] /\ Near(1)
    /\ pc \in {"hash", "block", "item", "payload"} => next <= Height[tip]
    /\ pc \in {"block", "item", "payload"} /\ prev # NoHash /\ Builds(hash) => Near(0)
    /\ pc \in {"anchor", "reanchor"} => next <= cursor.height - ReorgLimit
    /\ pc = "reanchor" => prev = Path[cursor.hash][next - 1]

\* In the environment OneChain nothing is ever rewound.
Straight ==
  OneChain => /\ pc \notin {"delete", "anchor", "reanchor"}
              /\ cursor # NoCursor /\ Looping => prev # NoHash

AllRows == UNION {{RowOf(b, i) : i \in DOMAIN Outs[b]} : b \in Blocks}

\* r is an output of the chain that ends in b, from the start height on.
OnChain(b, r) ==
  /\ b # NoHash
  /\ r.height \in StartHeight .. Height[b]
  /\ \E i \in DOMAIN Outs[Path[b][r.height]] : r = RowOf(Path[b][r.height], i)

\* All the statements for the output r have been executed.
Done(r) ==
  \/ OnChain(IndexedHead, r)
  \/ MidBlock /\ \E i \in 1 .. idx - 1 : r = RowOf(hash, i)

\* The first of the two statements for the output r has been executed.
Writing(r) == pc = "payload" /\ r = row

\* The height that is scanned next.
ScanHeight == IF IndexedHead = NoHash THEN StartHeight ELSE Height[IndexedHead] + 1

\* r may be left by an earlier attempt at the block that is scanned next.
LeftOver(r) ==
  /\ OneChain /\ TornBlocks
  /\ \E b \in Blocks : Height[b] = ScanHeight /\ \E i \in DOMAIN Outs[b] : r = RowOf(b, i)

Source == \A r \in items : Done(r) \/ Writing(r) \/ LeftOver(r)

Rules == \A r \in items : Counts(r)

\* What counts is indexed, up to the last row that is.
Complete ==
  \A q \in AllRows :
    /\ Counts(q)
    /\ Done(q) \/ (LeftOver(q) /\ \E r \in items : LaterThan(r, q))
    => q \in items

RowThere == pc = "payload" => row \in items

Payloads ==
  \A r \in items :
    /\ r.id \in stories => Msg[r.id].kind = "story"
    /\ r.id \in comments => Msg[r.id].kind = "comment"
    /\ Done(r) /\ Msg[r.id].kind = "story" => r.id \in stories
    /\ Done(r) /\ Msg[r.id].kind = "comment" => r.id \in comments

TopicOf(r) == [topic |-> Msg[r.id].topic, id |-> r.id, height |-> r.height]
ContOf(r) == [head |-> Msg[r.id].ref, seq |-> Msg[r.id].seq, id |-> r.id, height |-> r.height]

\* Two items claim the same topic, or the same chunk.
SameKey(r, s) ==
  /\ Msg[r.id].kind = Msg[s.id].kind
  /\ \/ Msg[r.id].kind = "topic" /\ Msg[r.id].topic = Msg[s.id].topic
     \/ /\ Msg[r.id].kind = "cont"
        /\ Msg[r.id].ref = Msg[s.id].ref
        /\ Msg[r.id].seq = Msg[s.id].seq

\* The row of the topic, or of the chunk, is the one of item r.
Holds(r) ==
  \/ Msg[r.id].kind = "topic" /\ TopicOf(r) \in topics
  \/ Msg[r.id].kind = "cont" /\ ContOf(r) \in conts

Firsts ==
  /\ \A t \in topics : \E r \in items : Msg[r.id].kind = "topic" /\ t = TopicOf(r)
  /\ \A c \in conts : \E r \in items : Msg[r.id].kind = "cont" /\ c = ContOf(r)
  /\ \A r, s \in items : Holds(r) /\ SameKey(r, s) => ~LaterThan(r, s)
  /\ \A r \in items : Done(r) /\ Msg[r.id].kind \in {"topic", "cont"} =>
       \E s \in items : SameKey(r, s) /\ Holds(s)

Lasts ==
  /\ \A v \in votes : \E r \in items : Msg[r.id].kind = "vote" /\ v = VoteOf(r)
  /\ \A v \in votes, r \in items :
       Done(r) /\ Msg[r.id].kind = "vote" /\ SameVote(VoteOf(r), v) => ~LaterThan(r, v)
  /\ OneChain => \A r \in items : Done(r) /\ Msg[r.id].kind = "vote" =>
                   \E v \in votes : SameVote(VoteOf(r), v)

Tables == Rules /\ Complete /\ Payloads /\ Firsts /\ Lasts

IndexInv == Anchored /\ Straight /\ Source /\ RowThere /\ Tables

-----------------------------------------------------------------------------
\* Induction over the natural numbers, for a set instead of a predicate.

Less == {p \in Nat \X Nat : p[1] < p[2]}

\* A set with zero, and with the successor of each of its numbers, has all of them.
LEMMA SetInduction ==
  ASSUME NEW S, 0 \in S, \A n \in Nat : n \in S => n + 1 \in S
  PROVE  \A n \in Nat : n \in S
<1> DEFINE T == Nat \ S
<1> SUFFICES ASSUME T # {}
             PROVE  FALSE
  OBVIOUS
<1>1. IsWellFoundedOn(Less, Nat)
  BY NatLessThanWellFounded DEF OpToRel, Less
<1>2. PICK x \in T : \A y \in T : <<y, x>> \notin Less
  <2> HIDE DEF T
  <2>1. T \subseteq Nat
    BY DEF T
  <2> QED
    BY <1>1, <2>1, WFMin
<1>3. x \in Nat /\ x # 0 /\ x - 1 \in Nat /\ x - 1 < x
  OBVIOUS
<1>4. x - 1 \in S
  BY <1>2, <1>3 DEF Less
<1> QED
  BY <1>3, <1>4

-----------------------------------------------------------------------------
\* The node: two chains that meet at a height are the same below it.
LEMMA ChainBelow ==
  ASSUME NEW a \in Blocks, NEW b \in Blocks, NEW k \in Nat, k <= Height[a], k <= Height[b],
         Path[a][k] = Path[b][k], NEW j \in 0 .. k
  PROVE  Path[a][j] = Path[b][j]
<1>1. k \in 0 .. Height[a] /\ k \in 0 .. Height[b] /\ Height[a] \in Nat /\ Height[b] \in Nat
  BY TreeAssumption
<1>2. Path[Path[a][k]][j] = Path[a][j] /\ Path[Path[b][k]][j] = Path[b][j]
  BY <1>1, TreeAssumption
<1> QED
  BY <1>2

\* The chain of a block, and of a block on it.
LEMMA OnPath ==
  ASSUME NEW b \in Blocks, NEW h \in 0 .. Height[b]
  PROVE  /\ Path[b][h] \in Blocks
         /\ Height[Path[b][h]] = h
         /\ \A k \in 0 .. h : Path[Path[b][h]][k] = Path[b][k]
         /\ Path[b][Height[b]] = b
         /\ Height[b] \in Nat
BY TreeAssumption

\* A block that builds on b extends its chain.
LEMMA Child ==
  ASSUME NEW a \in Blocks, NEW b \in Blocks, PreviousBlockHash(a) = b,
         Height[a] = Height[b] + 1
  PROVE  \A h \in 0 .. Height[b] : Path[a][h] = Path[b][h]
<1>1. Height[b] \in Nat /\ Height[a] \in Nat
  BY TreeAssumption
<1>2. Path[a][Height[b]] = b
  BY <1>1 DEF PreviousBlockHash
<1>3. Path[b][Height[b]] = b
  BY TreeAssumption
<1> QED
  BY <1>1, <1>2, <1>3, ChainBelow

\* The facts about types that the steps below need.
LEMMA Types ==
  ASSUME IInv
  PROVE  /\ StartHeight \in Nat /\ ReorgDepth \in Nat /\ ReorgLimit \in Nat
         /\ NoHash \notin Blocks
         /\ tip \in Blocks /\ Height[tip] \in Nat
         /\ next \in Nat /\ idx \in Nat /\ pc \in PCs
         /\ prev \in Blocks \cup {NoHash}
         /\ cursor.height \in Nat
         /\ cursor # NoCursor =>
              /\ cursor.hash \in Blocks
              /\ Height[cursor.hash] = cursor.height
              /\ cursor.height >= StartHeight
         /\ cursor = NoCursor => cursor.hash = NoHash
         /\ pc \in {"block", "item", "payload"} => hash \in Blocks /\ Height[hash] = next
         /\ Looping =>
              \/ prev = NoHash /\ next = StartHeight
              \/ /\ prev # NoHash /\ next = cursor.height + 1 /\ prev = cursor.hash
                 /\ cursor # NoCursor
         /\ pc = "delete" => cursor # NoCursor /\ next = cursor.height + 1
         /\ pc \in {"anchor", "reanchor"} =>
              cursor # NoCursor /\ StartHeight < next /\ next <= cursor.height
<1> USE DEF IInv
<1>1. /\ StartHeight \in Nat /\ ReorgDepth \in Nat /\ ReorgLimit \in Nat
      /\ NoHash \notin Blocks
      /\ tip \in Blocks /\ Height[tip] \in Nat
      /\ next \in Nat /\ idx \in Nat /\ pc \in PCs
      /\ prev \in Blocks \cup {NoHash}
      /\ cursor.height \in Nat
  BY ScannerAssumption, TreeAssumption DEF TypeOK, StoreTypeOK, Cursor
<1>2. cursor = NoCursor => cursor.hash = NoHash
  BY DEF NoCursor
<1>3. pc \in {"block", "item", "payload"} => hash \in Blocks /\ Height[hash] = next
  BY DEF TypeOK, Control
<1> QED
  BY <1>1, <1>2, <1>3 DEF Control

\* Every step of the node keeps the active chain near the cursor's.
LEMMA NearStep ==
  ASSUME IInv, ShallowReorgs, Anchored, cursor # NoCursor, NEW b \in Blocks, NodeStep(b)
  PROVE  /\ Near(1)'
         /\ Near(0) => Near(0)'
<1>0. /\ StartHeight \in Nat /\ ReorgLimit \in Nat /\ tip \in Blocks /\ Height[tip] \in Nat
      /\ cursor.hash \in Blocks /\ Height[cursor.hash] = cursor.height /\ cursor.height \in Nat
      /\ Height[b] \in Nat
  BY Types, TreeAssumption
<1>1. tip' = b /\ cursor' = cursor
  BY DEF NodeStep, Activate, store
<1>2. Near(1)
  BY DEF Anchored
<1> DEFINE k == cursor.height - ReorgLimit
<1>3. k >= StartHeight => /\ k <= Height[b]
                          /\ \/ Path[b][k] = Path[cursor.hash][k]
                             \/ k <= Height[tip] /\ Path[b][k] = Path[tip][k]
  BY DEF NodeStep, Shallow
<1>4. Near(0) => Near(0)'
  BY <1>0, <1>1, <1>3 DEF Near
<1>5. ASSUME k - 1 >= StartHeight
      PROVE  k - 1 <= Height[b] /\ Path[b][k - 1] = Path[cursor.hash][k - 1]
  <2>1. k \in Nat /\ k <= cursor.height /\ k - 1 \in 0 .. k /\ k - 1 <= Height[b] /\ k <= Height[b]
    BY <1>0, <1>3, <1>5
  <2>2. CASE Path[b][k] = Path[cursor.hash][k]
    <3> HIDE DEF k
    <3> QED BY <1>0, <2>1, <2>2, ChainBelow
  <2>3. CASE k <= Height[tip] /\ Path[b][k] = Path[tip][k]
    <3>1. Path[tip][k - 1] = Path[cursor.hash][k - 1]
      BY <1>0, <1>2, <1>5 DEF Near
    <3> HIDE DEF k
    <3>2. Path[b][k - 1] = Path[tip][k - 1]
      BY <1>0, <2>1, <2>3, ChainBelow
    <3> QED
      BY <2>1, <3>1, <3>2
  <2> QED
    BY <1>0, <1>3, <1>5, <2>1, <2>2, <2>3
<1>6. Near(1)'
  BY <1>0, <1>1, <1>5 DEF Near
<1> QED
  BY <1>4, <1>6

\* Every step keeps the active chain near the cursor's.
LEMMA AnchoredStep ==
  ASSUME IInv, Anchored, [Next]_vars
  PROVE  Anchored'
<1> SUFFICES ASSUME ShallowReorgs
             PROVE  Anchored'
  BY DEF Anchored, ShallowReorgs
<1>0. /\ StartHeight \in Nat /\ ReorgDepth \in Nat /\ ReorgLimit \in Nat
      /\ ReorgLimit <= ReorgDepth /\ ~MayShrink
      /\ NoHash \notin Blocks
      /\ tip \in Blocks /\ Height[tip] \in Nat
      /\ next \in Nat /\ pc \in PCs
      /\ prev \in Blocks \cup {NoHash}
      /\ cursor.height \in Nat
      /\ cursor # NoCursor => cursor.hash \in Blocks /\ Height[cursor.hash] = cursor.height
  BY Types DEF ShallowReorgs
<1>1. /\ cursor # NoCursor => cursor.height <= Height[tip] /\ Near(1)
      /\ pc \in {"hash", "block", "item", "payload"} => next <= Height[tip]
      /\ pc \in {"block", "item", "payload"} /\ prev # NoHash /\ Builds(hash) => Near(0)
      /\ pc \in {"anchor", "reanchor"} => next <= cursor.height - ReorgLimit
      /\ pc = "reanchor" => prev = Path[cursor.hash][next - 1]
  BY DEF Anchored
<1>2. CASE ResumeFresh(StartHeight) \/ ResumeOnChain \/ ResumeDiverged \/ FetchBlockDiverged
           \/ CaughtUp \/ HeightRefused \/ Fail
  <2>1. tip' = tip /\ cursor' = cursor /\ pc' \in {"wait", "count", "delete"}
    BY <1>2 DEF ResumeFresh, ResumeOnChain, ResumeDiverged, FetchBlockDiverged, CaughtUp,
       HeightRefused, Fail, Continue, Return, store
  <2> QED
    BY <1>1, <2>1 DEF Anchored, Near
<1>3. CASE RewindDelete(StartHeight)
  <2> DEFINE target == RewindTarget(next - 1, StartHeight)
  <2>1. tip' = tip /\ cursor' = cursor /\ next' = target
        /\ pc' = IF target <= StartHeight THEN "count" ELSE "anchor"
    BY <1>3 DEF RewindDelete, DeleteFromHeight, Continue
  <2>2. next = cursor.height + 1
    BY <1>3, Types DEF RewindDelete
  <2>3. target > StartHeight => target <= cursor.height - ReorgLimit
    BY <1>0, <2>2 DEF RewindTarget
  <2>4. target \in Nat
    BY <1>0, TargetRange
  <2> HIDE DEF target
  <2> QED
    BY <1>0, <1>1, <2>1, <2>3, <2>4 DEF Anchored, Near
<1>4. CASE RewindAnchor
  <2>1. /\ tip' = tip /\ cursor' = cursor /\ next' = next
        /\ pc' = "reanchor" /\ prev' = Path[tip][next - 1]
        /\ cursor # NoCursor
        /\ StartHeight < next /\ next <= cursor.height - ReorgLimit
    BY <1>1, <1>4, Types DEF RewindAnchor, Continue, GetBlockHash, store
  <2> DEFINE k == cursor.height - ReorgLimit - 1
  <2>2. k \in Nat /\ k <= Height[tip] /\ k <= cursor.height /\ Path[tip][k] = Path[cursor.hash][k]
        /\ next - 1 \in 0 .. k
    BY <1>0, <1>1, <2>1 DEF Near
  <2>3. Path[tip][next - 1] = Path[cursor.hash][next - 1]
    <3> HIDE DEF k
    <3> QED BY <1>0, <2>1, <2>2, ChainBelow
  <2> QED
    BY <1>1, <2>1, <2>3 DEF Anchored, Near
<1>5. CASE RewindSave
  <2>1. /\ tip' = tip /\ pc' = "count"
        /\ cursor' = [height |-> next - 1, hash |-> prev]
        /\ cursor # NoCursor
        /\ StartHeight < next /\ next <= cursor.height
        /\ prev = Path[cursor.hash][next - 1]
    BY <1>1, <1>5, Types DEF RewindSave, SaveCursor, Continue
  <2>2. next - 1 \in 0 .. cursor.height /\ cursor'.height = next - 1 /\ cursor'.hash = prev
    BY <1>0, <2>1
  <2>3. ASSUME next - 1 - ReorgLimit - 1 >= StartHeight
        PROVE  /\ next - 1 - ReorgLimit - 1 <= Height[tip]
               /\ Path[tip][next - 1 - ReorgLimit - 1] = Path[prev][next - 1 - ReorgLimit - 1]
    <3> DEFINE j == next - 1 - ReorgLimit - 1
               k == cursor.height - ReorgLimit - 1
    <3>1. /\ k \in Nat /\ j \in 0 .. k /\ j \in 0 .. next - 1
          /\ k <= Height[tip] /\ k <= cursor.height /\ j <= Height[tip]
          /\ Path[tip][k] = Path[cursor.hash][k]
      BY <1>0, <1>1, <2>1, <2>3 DEF Near
    <3>2. Path[prev][j] = Path[cursor.hash][j]
      <4> HIDE DEF j, k
      <4> QED BY <1>0, <2>1, <2>2, <3>1, OnPath
    <3>3. Path[tip][j] = Path[cursor.hash][j]
      <4> HIDE DEF j, k
      <4> QED BY <1>0, <2>1, <3>1, ChainBelow
    <3> QED
      BY <3>1, <3>2, <3>3
  <2> QED
    BY <1>0, <1>1, <2>1, <2>2, <2>3 DEF Anchored, Near
<1>6. CASE CountBlocks
  <2>1. tip' = tip /\ cursor' = cursor /\ next' = next /\ pc' = "hash" /\ next <= Height[tip]
    BY <1>6 DEF CountBlocks, Continue, GetBlockCount, store
  <2> QED
    BY <1>1, <2>1 DEF Anchored, Near
<1>7. CASE FetchHash
  <2>1. /\ tip' = tip /\ cursor' = cursor /\ next' = next /\ prev' = prev /\ pc' = "block"
        /\ hash' = Path[tip][next] /\ pc = "hash" /\ next <= Height[tip]
    BY <1>7 DEF FetchHash, HasHeight, GetBlockHash, store
  <2>2. ASSUME prev # NoHash, PreviousBlockHash(hash') = prev
        PROVE  Near(0)
    <3>1. next = cursor.height + 1 /\ prev = cursor.hash /\ cursor # NoCursor
      BY <2>1, <2>2, Types DEF Looping
    <3>2. hash' \in Blocks /\ Height[hash'] = next
          /\ \A k \in 0 .. next : Path[hash'][k] = Path[tip][k]
      BY <1>0, <2>1, OnPath
    <3>3. \A h \in 0 .. cursor.height : Path[hash'][h] = Path[cursor.hash][h]
      BY <1>0, <2>2, <3>1, <3>2, Child
    <3> QED
      BY <1>0, <2>1, <3>1, <3>2, <3>3 DEF Near
  <2>3. Near(0)' = Near(0) /\ Near(1)' = Near(1)
    BY <2>1 DEF Near
  <2>4. Builds(hash)' /\ prev' # NoHash => PreviousBlockHash(hash') = prev
    BY <2>1 DEF Builds
  <2> QED
    BY <1>1, <2>1, <2>2, <2>3, <2>4 DEF Anchored
<1>8. CASE FetchBlock \/ ProcessOutput
  <2>1. /\ tip' = tip /\ cursor' = cursor /\ next' = next /\ prev' = prev /\ hash' = hash
        /\ pc \in {"block", "item", "payload"} /\ pc' \in {"item", "payload"}
    BY <1>8 DEF FetchBlock, ProcessOutput, SkipOutput, DropMessage, AtOutput, PersistItem,
       PersistTopic, PersistStory, PersistComment, PersistVote, PersistContinuation,
       PutItem, InsertTopicIfAbsent, PutStory, PutComment, PutVote, PutContinuation,
       NextOutput, store, locals
  <2> QED
    BY <1>1, <2>1 DEF Anchored, Near, Builds
<1>9. CASE BlockDone
  <2>1. /\ tip' = tip /\ pc' = "count" /\ pc = "item"
        /\ cursor' = [height |-> next, hash |-> hash]
        /\ hash \in Blocks /\ Height[hash] = next /\ next <= Height[tip]
        /\ Builds(hash)
    BY <1>1, <1>9, Types DEF BlockDone, SaveCursor, Continue, IInv, Control
  <2>2. cursor'.height = next /\ cursor'.hash = hash
    BY <2>1
  <2>3. CASE prev = NoHash
    <3>1. next = StartHeight
      BY <2>1, <2>3, Types DEF Looping
    <3> QED
      BY <1>0, <2>1, <2>2, <3>1 DEF Anchored, Near
  <2>4. CASE prev # NoHash
    <3>1. /\ next = cursor.height + 1 /\ prev = cursor.hash /\ cursor # NoCursor
          /\ PreviousBlockHash(hash) = prev /\ Near(0)
      BY <1>1, <2>1, <2>4, Types DEF Looping, Builds
    <3>2. \A h \in 0 .. cursor.height : Path[hash][h] = Path[cursor.hash][h]
      BY <1>0, <2>1, <3>1, Child
    <3>3. next - ReorgLimit - 1 = cursor.height - ReorgLimit - 0
      BY <1>0, <3>1
    <3>4. next - ReorgLimit - 1 >= StartHeight =>
            /\ next - ReorgLimit - 1 <= Height[tip]
            /\ Path[tip][next - ReorgLimit - 1] = Path[hash][next - ReorgLimit - 1]
      BY <1>0, <3>1, <3>2, <3>3 DEF Near
    <3> QED
      BY <2>1, <2>2, <3>4 DEF Anchored, Near
  <2> QED
    BY <2>3, <2>4
<1>10. CASE \E b \in Blocks : NodeStep(b)
  <2>1. PICK b \in Blocks : NodeStep(b)
    BY <1>10
  <2>2. /\ tip' = b /\ Height[b] >= Height[tip] /\ Height[b] \in Nat
        /\ UNCHANGED <<cursor, pc, next, prev, hash>>
    BY <1>0, <2>1, TreeAssumption DEF NodeStep, Activate, store, locals
  <2>3. cursor # NoCursor => Near(1)' /\ (Near(0) => Near(0)')
    BY <2>1, NearStep
  <2>4. pc \in {"block", "item", "payload"} /\ prev # NoHash => cursor # NoCursor
    BY Types DEF Looping
  <2> QED
    BY <1>0, <1>1, <2>2, <2>3, <2>4 DEF Anchored, Builds
<1>11. CASE UNCHANGED vars
  BY <1>1, <1>11 DEF vars, store, locals, Anchored, Near, Builds
<1> QED
  BY <1>2, <1>3, <1>4, <1>5, <1>6, <1>7, <1>8, <1>9, <1>10, <1>11 DEF Next, ScannerStep

\* On one chain, every block builds on the one before, and no rewind begins.
LEMMA StraightStep ==
  ASSUME IInv, Straight, [Next]_vars
  PROVE  Straight'
<1> SUFFICES ASSUME OneChain
             PROVE  Straight'
  BY DEF Straight, OneChain, NoForwardRefs
<1>0. /\ NoHash \notin Blocks
      /\ tip \in Blocks /\ Height[tip] \in Nat /\ StartHeight \in Nat
      /\ cursor # NoCursor => cursor.hash \in Blocks /\ Height[cursor.hash] = cursor.height
      /\ cursor.height \in Nat /\ next \in Nat
      /\ pc \notin {"delete", "anchor", "reanchor"}
      /\ cursor # NoCursor /\ Looping => prev # NoHash
      /\ \A a, b \in Blocks : Height[a] <= Height[b] => Path[b][Height[a]] = a
  BY Types DEF Straight, OneChain
<1>1. ~ResumeDiverged
  BY <1>0 DEF ResumeDiverged, HasHeight, GetBlockHash
<1>2. ~FetchBlockDiverged
  <2> SUFFICES ASSUME FetchBlockDiverged
               PROVE  FALSE
    OBVIOUS
  <2>1. /\ hash \in Blocks /\ Height[hash] = next /\ prev # NoHash
        /\ PreviousBlockHash(hash) # prev
        /\ next = cursor.height + 1 /\ prev = cursor.hash /\ cursor # NoCursor
    BY Types DEF FetchBlockDiverged, Builds, Looping
  <2> QED
    BY <1>0, <2>1 DEF PreviousBlockHash
<1>3. CASE ResumeFresh(StartHeight) \/ ResumeOnChain
  BY <1>0, <1>3 DEF ResumeFresh, ResumeOnChain, Continue, Straight, Looping, store
<1>4. CASE CaughtUp \/ HeightRefused \/ Fail
  BY <1>4 DEF CaughtUp, HeightRefused, Fail, Return, Straight, Looping
<1>5. CASE CountBlocks \/ FetchHash \/ FetchBlock \/ ProcessOutput
  <2>1. /\ cursor' = cursor /\ prev' = prev /\ Looping
        /\ pc' \in {"hash", "block", "item", "payload"}
    BY <1>5 DEF CountBlocks, FetchHash, FetchBlock, ProcessOutput, SkipOutput, DropMessage,
       AtOutput, PersistItem, PersistTopic, PersistStory, PersistComment, PersistVote,
       PersistContinuation, PutItem, InsertTopicIfAbsent, PutStory, PutComment, PutVote,
       PutContinuation, NextOutput, store, locals, Continue, Looping
  <2> QED
    BY <1>0, <2>1 DEF Straight, Looping
<1>6. CASE BlockDone
  <2>1. prev' = hash /\ hash \in Blocks /\ pc' = "count"
    BY <1>6, Types DEF BlockDone, Continue
  <2> QED
    BY <1>0, <2>1 DEF Straight
<1>7. CASE UNCHANGED vars \/ \E b \in Blocks : NodeStep(b)
  BY <1>0, <1>7 DEF vars, NodeStep, store, locals, Straight, Looping
<1> QED
  BY <1>0, <1>1, <1>2, <1>3, <1>4, <1>5, <1>6, <1>7 DEF Next, ScannerStep, RewindDelete,
     RewindAnchor, RewindSave

-----------------------------------------------------------------------------
\* Rows and their order.

\* The rows of the chain are rows of cn_items.
LEMMA RowTypes ==
  /\ AllRows \subseteq ItemRow
  /\ \A b \in Blocks : \A i \in DOMAIN Outs[b] :
       /\ RowOf(b, i) \in AllRows
       /\ RowOf(b, i) \in ItemRow
       /\ RowOf(b, i).height = Height[b]
       /\ RowOf(b, i).id = Outs[b][i].id
       /\ Msg[RowOf(b, i).id] \in Message
<1>1. ASSUME NEW b \in Blocks, NEW i \in DOMAIN Outs[b]
      PROVE  /\ RowOf(b, i) \in AllRows
             /\ RowOf(b, i) \in ItemRow
             /\ RowOf(b, i).height = Height[b]
             /\ RowOf(b, i).id = Outs[b][i].id
             /\ Msg[RowOf(b, i).id] \in Message
  <2>1. i \in 1 .. Len(Outs[b])
    BY OutsAssumption
  <2> QED
    BY <2>1, OutputTypes DEF RowOf, AllRows
<1>2. ASSUME NEW r \in AllRows
      PROVE  r \in ItemRow
  <2>1. PICK b \in Blocks : \E i \in DOMAIN Outs[b] : r = RowOf(b, i)
    BY DEF AllRows
  <2> QED
    BY <1>1, <2>1
<1> QED
  BY <1>1, <1>2

\* Canonical order is a strict order on rows.
LEMMA Order ==
  ASSUME NEW r \in ItemRow, NEW s \in ItemRow
  PROVE  /\ ~LaterThan(r, r)
         /\ LaterThan(r, s) => ~LaterThan(s, r) /\ s.height <= r.height
         /\ r.height > s.height => LaterThan(r, s)
BY DEF LaterThan, ItemRow

\* The order of the rows of the chain is transitive.
LEMMA OrderTransitive ==
  ASSUME NEW r \in ItemRow, NEW s \in ItemRow, NEW t \in ItemRow,
         LaterThan(r, s), LaterThan(s, t)
  PROVE  LaterThan(r, t)
BY DEF LaterThan, ItemRow

\* ProcessBlock meets the outputs of a block in canonical order.
LEMMA OutputOrder ==
  ASSUME NEW b \in Blocks, NEW i \in DOMAIN Outs[b], NEW j \in DOMAIN Outs[b]
  PROVE  LaterThan(RowOf(b, j), RowOf(b, i)) <=> i < j
<1>1. i \in Nat /\ j \in Nat
  BY OutsAssumption
<1>2. Outs[b][i] \in Output /\ Outs[b][j] \in Output
  BY OutsAssumption
<1>3. /\ Outs[b][i].tx \in Nat /\ Outs[b][i].vout \in Nat
      /\ Outs[b][j].tx \in Nat /\ Outs[b][j].vout \in Nat
  BY <1>2 DEF Output
<1>4. ASSUME NEW m \in DOMAIN Outs[b], NEW n \in DOMAIN Outs[b], m < n
      PROVE  \/ Outs[b][m].tx < Outs[b][n].tx
             \/ /\ Outs[b][m].tx = Outs[b][n].tx
                /\ Outs[b][m].vout < Outs[b][n].vout
  BY <1>4, OutsAssumption
<1>5. Height[b] \in Nat
  BY TreeAssumption
<1>6. LaterThan(RowOf(b, j), RowOf(b, i)) <=>
        \/ Outs[b][i].tx < Outs[b][j].tx
        \/ Outs[b][i].tx = Outs[b][j].tx /\ Outs[b][i].vout < Outs[b][j].vout
  BY <1>3, <1>5 DEF LaterThan, RowOf
<1>7. i < j \/ j < i \/ i = j
  BY <1>1
<1> QED
  BY <1>1, <1>3, <1>4, <1>6, <1>7

\* A chain confirms a transaction once, and has one output at a position.
LEMMA OneRow ==
  ASSUME NEW b \in Blocks, NEW r, NEW s, OnChain(b, r), OnChain(b, s)
  PROVE  /\ r.id = s.id => r = s
         /\ ~LaterThan(r, s) /\ ~LaterThan(s, r) => r = s
         /\ r \in AllRows /\ r \in ItemRow
<1>1. /\ r.height \in 0 .. Height[b] /\ s.height \in 0 .. Height[b]
  BY TreeAssumption, ScannerAssumption DEF OnChain
<1> DEFINE c == Path[b][r.height]
           d == Path[b][s.height]
<1>2. c \in Blocks /\ d \in Blocks
  BY <1>1, OnPath
<1>3. PICK i \in DOMAIN Outs[c] : r = RowOf(c, i)
  BY DEF OnChain
<1>4. PICK j \in DOMAIN Outs[d] : s = RowOf(d, j)
  BY DEF OnChain
<1>5. /\ r \in ItemRow /\ s \in ItemRow /\ r \in AllRows
      /\ r.id = Outs[c][i].id /\ s.id = Outs[d][j].id
  BY <1>2, <1>3, <1>4, RowTypes
<1>6. ASSUME r.id = s.id
      PROVE  r = s
  <2>1. Outs[Path[b][r.height]][i].id = Outs[Path[b][s.height]][j].id
    BY <1>5, <1>6
  <2>2. r.height = s.height /\ i = j
    BY <1>1, <1>3, <1>4, <2>1, UniqueAssumption
  <2> QED
    BY <1>3, <1>4, <2>2
<1>7. ASSUME ~LaterThan(r, s), ~LaterThan(s, r)
      PROVE  r = s
  <2>1. r.height = s.height
    BY <1>5, <1>7 DEF LaterThan, ItemRow
  <2>2. j \in DOMAIN Outs[c] /\ s = RowOf(c, j)
    BY <1>4, <2>1
  <2>3. ~(i < j) /\ ~(j < i)
    BY <1>2, <1>3, <1>7, <2>2, OutputOrder
  <2>4. i \in Nat /\ j \in Nat
    BY <1>2, <2>2, OutsAssumption
  <2> QED
    BY <1>3, <2>2, <2>3, <2>4
<1> QED
  BY <1>5, <1>6, <1>7

\* The outputs of a chain are those of a shorter one, and the ones above.
LEMMA ChainCut ==
  ASSUME NEW b \in Blocks, NEW h \in Nat, h <= Height[b], NEW r, r.height \in Nat
  PROVE  OnChain(Path[b][h], r) <=> OnChain(b, r) /\ r.height <= h
<1>1. /\ Height[b] \in Nat /\ StartHeight \in Nat /\ h \in 0 .. Height[b]
      /\ Path[b][h] \in Blocks /\ Height[Path[b][h]] = h
      /\ \A k \in 0 .. h : Path[Path[b][h]][k] = Path[b][k]
      /\ NoHash \notin Blocks
  BY OnPath, ScannerAssumption, TreeAssumption
<1>2. CASE r.height <= h
  <2>1. Path[Path[b][h]][r.height] = Path[b][r.height]
    BY <1>1, <1>2
  <2> QED
    BY <1>1, <1>2, <2>1 DEF OnChain
<1>3. CASE ~(r.height <= h)
  BY <1>1, <1>3 DEF OnChain
<1> QED
  BY <1>2, <1>3

\* The block that the tables stand for, when Run is in its loop: the previous hash.
LEMMA HeadInLoop ==
  ASSUME IInv, Looping
  PROVE  /\ IndexedHead = prev
         /\ ScanHeight = next
         /\ IndexedHead # NoHash => IndexedHead \in Blocks /\ next = Height[IndexedHead] + 1
         /\ IndexedHead = NoHash => next = StartHeight
<1>1. IndexedHead = prev
  BY Types DEF IndexedHead, Rewinding, Looping
<1>2. prev # NoHash => prev \in Blocks /\ next = Height[prev] + 1
  BY Types
<1> QED
  BY <1>1, <1>2, Types DEF ScanHeight

\* While a block is indexed, what is done and what is left over are outputs of its chain,
\* and what is done comes before the output at hand.
LEMMA AtBlock ==
  ASSUME IInv, pc \in {"item", "payload"}, NEW r
  PROVE  /\ hash \in Blocks /\ next >= StartHeight
         /\ OnChain(IndexedHead, r) => OnChain(hash, r) /\ r.height < next
         /\ Done(r) => OnChain(hash, r)
         /\ Done(r) /\ idx <= Len(Outs[hash]) => LaterThan(row, r)
         /\ LeftOver(r) => \E i \in DOMAIN Outs[hash] : r = RowOf(hash, i)
         /\ \A i \in DOMAIN Outs[hash] : OnChain(hash, RowOf(hash, i))
         /\ idx <= Len(Outs[hash]) => idx \in DOMAIN Outs[hash]
         /\ 1 .. idx - 1 \subseteq DOMAIN Outs[hash]
<1>0. /\ hash \in Blocks /\ Height[hash] = next /\ next \in Nat /\ StartHeight \in Nat
      /\ NoHash \notin Blocks /\ Looping /\ Height[hash] \in Nat /\ Builds(hash)
      /\ idx \in 1 .. Len(Outs[hash]) + 1
      /\ Outs[hash] \in Seq(Output)
      /\ DOMAIN Outs[hash] = 1 .. Len(Outs[hash]) /\ Len(Outs[hash]) \in Nat
  BY Types, OutsAssumption DEF Looping, IInv, Control, TypeOK, MidBlock
<1>1. /\ IndexedHead = prev
      /\ IndexedHead # NoHash => IndexedHead \in Blocks /\ next = Height[IndexedHead] + 1
      /\ IndexedHead = NoHash => next = StartHeight
      /\ ScanHeight = next
  BY <1>0, HeadInLoop
<1>2. next >= StartHeight
  BY <1>0, <1>1, Types DEF Looping
<1>3. OnChain(IndexedHead, r) => OnChain(hash, r) /\ r.height < next
  <2> SUFFICES ASSUME OnChain(IndexedHead, r)
               PROVE  OnChain(hash, r) /\ r.height < next
    OBVIOUS
  <2>1. IndexedHead # NoHash /\ IndexedHead \in Blocks /\ next = Height[IndexedHead] + 1
    BY <1>1 DEF OnChain
  <2>2. Height[IndexedHead] \in Nat /\ r.height \in 0 .. Height[IndexedHead]
    BY <1>0, <2>1, TreeAssumption DEF OnChain
  <2>3. Path[hash][r.height] = Path[IndexedHead][r.height]
    BY <1>0, <1>1, <2>1, <2>2, Child DEF Builds
  <2> QED
    BY <1>0, <2>1, <2>2, <2>3 DEF OnChain
<1>4. ASSUME NEW i \in DOMAIN Outs[hash]
      PROVE  OnChain(hash, RowOf(hash, i)) /\ RowOf(hash, i).height = next
  <2>1. RowOf(hash, i).height = next /\ Path[hash][next] = hash
    BY <1>0, RowTypes, TreeAssumption
  <2> QED
    BY <1>0, <1>2, <2>1 DEF OnChain
<1>5. 1 .. idx - 1 \subseteq DOMAIN Outs[hash] /\ (idx <= Len(Outs[hash]) => idx \in DOMAIN Outs[hash])
  BY <1>0
<1>6. Done(r) => OnChain(hash, r)
  BY <1>3, <1>4, <1>5 DEF Done
<1>7. ASSUME Done(r), idx <= Len(Outs[hash])
      PROVE  LaterThan(row, r)
  <2>1. row.height = next /\ row \in ItemRow
    BY <1>0, <1>5, <1>7, RowTypes DEF row
  <2>2. CASE OnChain(IndexedHead, r)
    <3>1. r.height < next
      BY <1>3, <2>2
    <3>2. r \in ItemRow
      BY <1>0, <1>3, <2>2, OneRow
    <3> QED
      BY <2>1, <3>1, <3>2, Order DEF ItemRow
  <2>3. CASE \E i \in 1 .. idx - 1 : r = RowOf(hash, i)
    <3>1. PICK i \in 1 .. idx - 1 : r = RowOf(hash, i)
      BY <2>3
    <3>2. i < idx /\ i \in DOMAIN Outs[hash]
      BY <1>0, <1>5
    <3> QED
      BY <1>0, <1>5, <1>7, <3>1, <3>2, OutputOrder DEF row
  <2> QED
    BY <1>7, <2>2, <2>3 DEF Done
<1>8. ASSUME LeftOver(r)
      PROVE  \E i \in DOMAIN Outs[hash] : r = RowOf(hash, i)
  <2>1. PICK b \in Blocks : Height[b] = next /\ \E i \in DOMAIN Outs[b] : r = RowOf(b, i)
    BY <1>1, <1>8 DEF LeftOver
  <2>2. b = hash
    <3>1. Path[b][Height[hash]] = hash
      BY <1>0, <1>8, <2>1 DEF LeftOver, OneChain
    <3> QED
      BY <1>0, <2>1, <3>1, TreeAssumption
  <2> QED
    BY <2>1, <2>2
<1> QED
  BY <1>0, <1>2, <1>3, <1>4, <1>5, <1>6, <1>7, <1>8

-----------------------------------------------------------------------------
\* Steps that write no row.

\* What the tables say stays true when nothing but the position of Run changes, and no
\* indexed row, nor one that counts, becomes done.
LEMMA Quiet ==
  ASSUME Tables, UNCHANGED <<items, stories, comments, votes, topics, conts>>,
         \A r \in items : Done(r)' => Done(r),
         \A q \in AllRows :
           /\ Counts(q)
           /\ Done(q)' \/ (LeftOver(q)' /\ \E r \in items : LaterThan(r, q))
           => Done(q) \/ (LeftOver(q) /\ \E r \in items : LaterThan(r, q))
  PROVE  Tables'
<1>1. \A q : Counts(q)' <=> Counts(q)
  BY DEF Counts
<1>2. Rules'
  BY <1>1 DEF Tables, Rules
<1>3. Complete'
  BY <1>1 DEF Tables, Complete
<1>4. Payloads'
  BY DEF Tables, Payloads
<1>5. Firsts'
  BY DEF Tables, Firsts, Holds
<1>6. Lasts'
  BY DEF Tables, Lasts
<1> QED
  BY <1>2, <1>3, <1>4, <1>5, <1>6 DEF Tables

\* The steps of Run outside ProcessBlock that neither index a block nor delete anything.
Moves ==
  \/ ResumeFresh(StartHeight) \/ ResumeOnChain \/ ResumeDiverged
  \/ RewindAnchor \/ RewindSave \/ CaughtUp \/ CountBlocks \/ FetchHash \/ FetchBlock
  \/ FetchBlockDiverged \/ HeightRefused \/ Fail

\* They leave the tables as they are, and leave them standing for the same block: no call
\* of Run ends in the middle of a rewind, and a rewind goes back to a block of the chain
\* that was indexed.
LEMMA HeadStays ==
  ASSUME IInv, Anchored, Straight, ShallowReorgs \/ OneChain, Moves
  PROVE  /\ UNCHANGED <<items, stories, comments, votes, topics, conts>>
         /\ IndexedHead' = IndexedHead
         /\ MidBlock' => idx' = 1
         /\ ~TornBlocks => ~MidBlock
<1>0. /\ NoHash \notin Blocks /\ StartHeight \in Nat /\ next \in Nat /\ Height[tip] \in Nat
      /\ cursor.height \in Nat
      /\ cursor # NoCursor => cursor.hash \in Blocks /\ cursor.height >= StartHeight
  BY Types
<1>1. CASE ResumeFresh(StartHeight) \/ ResumeOnChain \/ ResumeDiverged
  BY <1>0, <1>1 DEF ResumeFresh, ResumeOnChain, ResumeDiverged, Continue, IndexedHead, Rewinding,
     MidBlock, store, tables
<1>2. CASE FetchBlockDiverged
  BY <1>2 DEF FetchBlockDiverged, Builds, Continue, IndexedHead, Rewinding, MidBlock, store, tables
<1>3. CASE RewindAnchor
  BY <1>3, Types DEF RewindAnchor, Continue, IndexedHead, Rewinding, MidBlock, store, tables
<1>4. CASE RewindSave
  <2>1. /\ pc = "reanchor" /\ cursor # NoCursor /\ ~OneChain
    BY <1>4, Types DEF RewindSave, Straight
  <2>2. prev = Path[cursor.hash][next - 1] /\ prev \in Blocks
    BY <2>1 DEF Anchored, IInv, Control
  <2>3. /\ UNCHANGED <<items, stories, comments, votes, topics, conts>>
        /\ cursor' = [height |-> next - 1, hash |-> prev]
        /\ pc' = "count" /\ prev' = prev
    BY <1>4 DEF RewindSave, SaveCursor, Continue, tables
  <2>4. IndexedHead = prev
    BY <2>1, <2>2 DEF IndexedHead, Rewinding
  <2>5. IndexedHead' = prev
    BY <1>0, <2>2, <2>3 DEF IndexedHead, Rewinding
  <2> QED
    BY <2>1, <2>3, <2>4, <2>5 DEF MidBlock
<1>5. CASE CaughtUp \/ HeightRefused \/ Fail
  <2>1. ~Rewinding
    <3>1. CASE OneChain
      BY <1>5, <3>1 DEF Straight, Rewinding, Looping
    <3>2. CASE ShallowReorgs
      <4>1. CASE CaughtUp
        BY <1>0, <3>2, <4>1, Types DEF CaughtUp, GetBlockCount, Rewinding, Anchored, Looping
      <4>2. CASE HeightRefused
        BY <1>0, <3>2, <4>2, Types DEF HeightRefused, HasHeight, Anchored
      <4>3. CASE Fail
        BY <3>2, <4>3 DEF Fail, ShallowReorgs
      <4> QED
        BY <1>5, <4>1, <4>2, <4>3
    <3> QED
      BY <3>1, <3>2
  <2>2. IndexedHead = cursor.hash
    BY <2>1 DEF IndexedHead
  <2>3. /\ UNCHANGED <<items, stories, comments, votes, topics, conts>>
        /\ cursor' = cursor /\ pc' = "wait"
    BY <1>5 DEF CaughtUp, HeightRefused, Fail, Return, store, tables
  <2>4. ~TornBlocks => ~MidBlock
    BY <1>5 DEF CaughtUp, HeightRefused, Fail, ShallowReorgs, MidBlock
  <2> QED
    BY <2>2, <2>3, <2>4 DEF IndexedHead, Rewinding, MidBlock
<1>6. CASE CountBlocks \/ FetchHash \/ FetchBlock
  <2>1. /\ UNCHANGED <<items, stories, comments, votes, topics, conts>>
        /\ UNCHANGED <<cursor, prev>>
        /\ pc \in {"count", "hash", "block"} /\ pc' \in {"hash", "block", "item"}
        /\ pc' = "item" => idx' = 1
    BY <1>6 DEF CountBlocks, FetchHash, FetchBlock, Continue, store, tables
  <2> QED
    BY <2>1 DEF IndexedHead, Rewinding, MidBlock
<1> QED
  BY <1>1, <1>2, <1>3, <1>4, <1>5, <1>6 DEF Moves

\* So they keep what the tables say.
LEMMA MovesStep ==
  ASSUME IInv, IndexInv, ShallowReorgs \/ OneChain, Moves
  PROVE  Source' /\ RowThere' /\ Tables'
<1>1. /\ UNCHANGED <<items, stories, comments, votes, topics, conts>>
      /\ IndexedHead' = IndexedHead
      /\ MidBlock' => idx' = 1
      /\ ~TornBlocks => ~MidBlock
  BY HeadStays DEF IndexInv
<1>2. \A r : /\ OnChain(IndexedHead, r)' <=> OnChain(IndexedHead, r)
             /\ LeftOver(r)' <=> LeftOver(r)
  BY <1>1 DEF OnChain, LeftOver, ScanHeight, OneChain, NoForwardRefs, RowOf
<1>3. \A r : Done(r)' <=> OnChain(IndexedHead, r)
  BY <1>1, <1>2 DEF Done
<1>4. Tables'
  BY <1>1, <1>2, <1>3, Quiet DEF IndexInv, Done
<1>5. ASSUME NEW r \in items, MidBlock, OneChain, TornBlocks, Done(r) \/ Writing(r)
      PROVE  OnChain(IndexedHead, r) \/ LeftOver(r)
  <2>1. /\ pc \in {"item", "payload"} /\ ScanHeight = next /\ hash \in Blocks
        /\ Height[hash] = next /\ 1 .. idx - 1 \subseteq DOMAIN Outs[hash]
        /\ pc = "payload" => idx \in DOMAIN Outs[hash]
    BY <1>5, Types, HeadInLoop, AtBlock DEF MidBlock, Looping, IInv, TypeOK
  <2> QED
    BY <1>5, <2>1 DEF Done, Writing, LeftOver, row
<1>6. Source'
  <2> SUFFICES ASSUME NEW r \in items
               PROVE  OnChain(IndexedHead, r) \/ LeftOver(r)
    BY <1>1, <1>2, <1>3 DEF Source
  <2>1. Done(r) \/ Writing(r) \/ LeftOver(r)
    BY DEF IndexInv, Source
  <2>2. CASE ~MidBlock
    BY <2>1, <2>2 DEF Done, Writing, MidBlock
  <2>3. CASE MidBlock
    BY <1>1, <1>5, <2>1, <2>3 DEF ShallowReorgs
  <2> QED
    BY <2>2, <2>3
<1>7. RowThere'
  <2>1. pc' # "payload"
    BY DEF Moves, ResumeFresh, ResumeOnChain, ResumeDiverged, RewindAnchor, RewindSave, CaughtUp,
       CountBlocks, FetchHash, FetchBlock, FetchBlockDiverged, HeightRefused, Fail, Continue, Return
  <2> QED
    BY <2>1 DEF RowThere
<1> QED
  BY <1>4, <1>6, <1>7

\* The node changes nothing of this.
LEMMA TipStep ==
  ASSUME IndexInv, UNCHANGED vars \/ \E b \in Blocks : NodeStep(b)
  PROVE  Source' /\ RowThere' /\ Tables'
<1>1. /\ UNCHANGED <<items, stories, comments, votes, topics, conts>>
      /\ UNCHANGED <<cursor, pc, next, prev, hash, idx>>
  BY DEF vars, NodeStep, store, tables, locals
<1>2. IndexedHead' = IndexedHead
  BY <1>1 DEF IndexedHead, Rewinding
<1>3. \A r : /\ Done(r)' <=> Done(r)
             /\ Writing(r)' <=> Writing(r)
             /\ LeftOver(r)' <=> LeftOver(r)
  BY <1>1, <1>2 DEF Done, OnChain, Writing, row, MidBlock, LeftOver, ScanHeight, OneChain,
     NoForwardRefs, RowOf
<1>4. Source' /\ RowThere'
  BY <1>1, <1>3 DEF IndexInv, Source, RowThere, row
<1> QED
  BY <1>1, <1>3, <1>4, Quiet DEF IndexInv

\* When a block is done, the tables stand for it.
LEMMA BlockDoneStep ==
  ASSUME IInv, IndexInv, BlockDone
  PROVE  Source' /\ RowThere' /\ Tables'
<1>1. /\ UNCHANGED <<items, stories, comments, votes, topics, conts>>
      /\ cursor' = [height |-> next, hash |-> hash]
      /\ pc = "item" /\ pc' = "count" /\ prev' = hash
      /\ idx > Len(Outs[hash])
  BY DEF BlockDone, SaveCursor, Continue, tables
<1>2. /\ hash \in Blocks /\ Height[hash] = next /\ NoHash \notin Blocks /\ next \in Nat
      /\ Len(Outs[hash]) \in Nat /\ DOMAIN Outs[hash] = 1 .. Len(Outs[hash])
      /\ idx = Len(Outs[hash]) + 1
  <2>1. hash \in Blocks /\ Height[hash] = next /\ NoHash \notin Blocks /\ next \in Nat
    BY <1>1, Types
  <2>2. Len(Outs[hash]) \in Nat /\ DOMAIN Outs[hash] = 1 .. Len(Outs[hash])
    BY <2>1, OutsAssumption
  <2>3. idx \in 1 .. Len(Outs[hash]) + 1
    BY <1>1 DEF IInv, TypeOK, MidBlock
  <2> QED
    BY <1>1, <2>1, <2>2, <2>3
<1>3. IndexedHead' = hash /\ ~MidBlock'
  BY <1>1, <1>2 DEF IndexedHead, Rewinding, MidBlock
<1>4. \A r : Done(r)' <=> OnChain(hash, r)
  BY <1>3 DEF Done, OnChain, RowOf
<1>5. ASSUME NEW r, OnChain(hash, r)
      PROVE  Done(r)
  <2>1. CASE r.height = next
    <3>1. Path[hash][r.height] = hash
      BY <1>2, <2>1, TreeAssumption
    <3>2. PICK i \in DOMAIN Outs[hash] : r = RowOf(hash, i)
      BY <1>5, <3>1 DEF OnChain
    <3>3. i \in 1 .. idx - 1
      BY <1>2
    <3> QED
      BY <1>1, <3>2, <3>3 DEF Done, MidBlock
  <2>2. CASE r.height # next
    <3>0. r.height \in StartHeight .. next
      BY <1>2, <1>5 DEF OnChain
    <3>1. r.height < next /\ r.height \in Nat /\ next # StartHeight
      BY <1>2, <2>2, <3>0, Types
    <3>2. IndexedHead = prev /\ IndexedHead \in Blocks /\ next = Height[IndexedHead] + 1
      BY <1>1, <3>1, HeadInLoop DEF Looping
    <3>3. Height[IndexedHead] \in Nat /\ PreviousBlockHash(hash) = IndexedHead
      BY <1>1, <1>2, <3>2, TreeAssumption DEF IInv, Control, Builds
    <3>4. Path[hash][r.height] = Path[IndexedHead][r.height]
      BY <1>2, <3>1, <3>2, <3>3, Child
    <3>5. OnChain(IndexedHead, r)
      BY <1>2, <1>5, <3>0, <3>1, <3>2, <3>3, <3>4 DEF OnChain
    <3> QED
      BY <3>5 DEF Done
  <2> QED
    BY <2>1, <2>2
<1>6. ASSUME NEW r, Done(r) \/ LeftOver(r)
      PROVE  OnChain(hash, r)
  BY <1>1, <1>6, AtBlock
<1>7. Source'
  BY <1>1, <1>4, <1>6 DEF IndexInv, Source, Writing
<1>8. ASSUME NEW q \in AllRows, LeftOver(q)', NEW r \in items
      PROVE  ~LaterThan(r, q)
  <2>1. ScanHeight' = next + 1
    BY <1>2, <1>3 DEF ScanHeight
  <2>2. q.height = next + 1 /\ q \in ItemRow
    BY <1>8, <2>1, RowTypes DEF LeftOver, RowOf
  <2>3. r.height <= next /\ r \in ItemRow
    BY <1>1 DEF IInv, RowsBelow, Looping, TypeOK, StoreTypeOK
  <2> QED
    BY <1>2, <2>2, <2>3 DEF LaterThan, ItemRow
<1>9. Tables'
  BY <1>1, <1>4, <1>5, <1>8, Quiet DEF IndexInv
<1>10. RowThere'
  BY <1>1 DEF RowThere
<1> QED
  BY <1>7, <1>9, <1>10

-----------------------------------------------------------------------------
\* Steps of ProcessBlock and persist.

\* The output at hand is done next.
LEMMA NextDone ==
  ASSUME IInv, pc \in {"item", "payload"}, idx <= Len(Outs[hash]), UNCHANGED cursor, NextOutput
  PROVE  /\ IndexedHead' = IndexedHead
         /\ \A r : Done(r)' <=> Done(r) \/ r = row
         /\ \A r : LeftOver(r)' <=> LeftOver(r)
         /\ \A r : ~Writing(r)'
<1>1. /\ pc' = "item" /\ idx' = idx + 1 /\ UNCHANGED <<next, prev, hash>>
      /\ idx \in Nat /\ idx >= 1
  BY Types DEF NextOutput, IInv, TypeOK, MidBlock
<1>2. IndexedHead' = IndexedHead
  BY <1>1 DEF IndexedHead, Rewinding
<1>3. 1 .. idx' - 1 = (1 .. idx - 1) \cup {idx}
  BY <1>1
<1>4. \A r : Done(r)' <=> Done(r) \/ r = row
  BY <1>1, <1>2, <1>3 DEF Done, OnChain, MidBlock, row, RowOf
<1> QED
  BY <1>1, <1>2, <1>4 DEF LeftOver, ScanHeight, OneChain, NoForwardRefs, RowOf, Writing

\* An output that is passed over does not count.
LEMMA PassOverStep ==
  ASSUME IInv, IndexInv, SkipOutput \/ DropMessage
  PROVE  Source' /\ RowThere' /\ Tables'
<1>1. /\ UNCHANGED <<items, stories, comments, votes, topics, conts>>
      /\ cursor' = cursor /\ NextOutput
      /\ pc = "item" /\ idx <= Len(Outs[hash]) /\ pc' = "item"
  BY DEF SkipOutput, DropMessage, AtOutput, store, tables, NextOutput
<1>2. ~Counts(row)
  BY DEF SkipOutput, DropMessage, Admissible, ItemByID, Counts, msg
<1>3. /\ \A r : Done(r)' <=> Done(r) \/ r = row
      /\ \A r : LeftOver(r)' <=> LeftOver(r)
  BY <1>1, NextDone
<1>4. row \notin items
  BY <1>2 DEF IndexInv, Tables, Rules
<1>5. Tables'
  BY <1>1, <1>2, <1>3, <1>4, Quiet DEF IndexInv
<1>6. Source'
  BY <1>1, <1>3 DEF IndexInv, Source, Writing
<1> QED
  BY <1>1, <1>5, <1>6 DEF RowThere

\* persist's rule, applied to the index as it is before the output, agrees with the rule
\* on the finished index.
LEMMA AdmissibleCounts ==
  ASSUME IInv, IndexInv, ShallowReorgs \/ OneChain, AtOutput, msg.kind # "none", Admissible(msg)
  PROVE  Counts(row)
<1> SUFFICES ASSUME msg.kind \in SignedKinds
             PROVE  \E p \in items : p.id = msg.ref /\ LaterThan(row, p)
  BY DEF Counts, Admissible, msg
<1>1. PICK p \in items : p.id = msg.ref
  BY DEF Admissible, ItemByID
<1>2. pc = "item" /\ idx <= Len(Outs[hash]) /\ hash \in Blocks /\ idx \in DOMAIN Outs[hash]
  BY AtBlock DEF AtOutput
<1>3. CASE Done(p)
  BY <1>1, <1>2, <1>3, AtBlock
<1>4. CASE LeftOver(p)
  <2>1. PICK j \in DOMAIN Outs[hash] : p = RowOf(hash, j)
    BY <1>2, <1>4, AtBlock
  <2>2. idx \in Nat /\ j \in Nat
    BY <1>2, <2>1, OutsAssumption
  <2>3. ~(idx < j)
    <3>1. p.id = Outs[hash][j].id /\ row.id = Outs[hash][idx].id
      BY <2>1 DEF RowOf, row
    <3> QED
      BY <1>1, <1>2, <1>4, <3>1 DEF LeftOver, OneChain, NoForwardRefs, msg
  <2>4. CASE j = idx
    <3>1. p = row
      BY <2>1, <2>4 DEF row
    <3> QED
      BY <3>1 DEF IndexInv, Tables, Rules, Counts, msg
  <2>5. CASE j < idx
    BY <1>1, <1>2, <2>1, <2>5, OutputOrder DEF row
  <2> QED
    BY <2>2, <2>3, <2>4, <2>5
<1> QED
  BY <1>2, <1>3, <1>4 DEF IndexInv, Source, Writing

\* A row that is new is the last one.
LEMMA NewIsLast ==
  ASSUME IInv, IndexInv, AtOutput, Counts(row), ~ItemByID(row.id), NEW r \in items
  PROVE  LaterThan(row, r)
<1>1. /\ pc = "item" /\ idx <= Len(Outs[hash]) /\ hash \in Blocks /\ idx \in DOMAIN Outs[hash]
      /\ row \notin items
  BY AtBlock DEF AtOutput, ItemByID
<1>2. CASE Done(r)
  BY <1>1, <1>2, AtBlock
<1>3. CASE LeftOver(r)
  <2>1. PICK j \in DOMAIN Outs[hash] : r = RowOf(hash, j)
    BY <1>1, <1>3, AtBlock
  <2>2. idx \in Nat /\ j \in Nat
    BY <1>1, <2>1, OutsAssumption
  <2>3. j # idx
    BY <1>1, <2>1 DEF row
  <2>4. ~(idx < j)
    <3> SUFFICES ASSUME idx < j
                 PROVE  row \in items
      BY <1>1
    <3>1. LaterThan(r, row)
      BY <1>1, <2>1, OutputOrder DEF row
    <3>2. row \in AllRows
      BY <1>1, RowTypes DEF row
    <3>3. LeftOver(row)
      <4>1. ScanHeight = next /\ Height[hash] = next
        BY <1>1, HeadInLoop, Types DEF Looping
      <4> QED
        BY <1>1, <1>3, <4>1 DEF LeftOver, row
    <3> QED
      BY <3>1, <3>2, <3>3 DEF IndexInv, Tables, Complete
  <2> QED
    BY <1>1, <2>1, <2>2, <2>3, <2>4, OutputOrder DEF row
<1> QED
  BY <1>1, <1>2, <1>3 DEF IndexInv, Source, Writing

\* The item row of a message: a new one is the last of all, an old one is the same.
LEMMA PersistItemStep ==
  ASSUME IInv, IndexInv, ShallowReorgs \/ OneChain, PersistItem
  PROVE  Source' /\ RowThere' /\ Tables'
<1>1. /\ AtOutput /\ msg.kind # "none" /\ Admissible(msg) /\ pc = "item" /\ pc' = "payload"
      /\ idx <= Len(Outs[hash])
      /\ items' = IF ItemByID(row.id) THEN items ELSE items \cup {row}
      /\ UNCHANGED <<stories, comments, votes, topics, conts>>
      /\ UNCHANGED <<cursor, next, prev, hash, idx>>
  BY DEF PersistItem, AtOutput, PutItem, locals
<1>2. row' = row /\ IndexedHead' = IndexedHead
  BY <1>1 DEF row, RowOf, IndexedHead, Rewinding
<1>3. \A r : /\ Done(r)' <=> Done(r)
             /\ LeftOver(r)' <=> LeftOver(r)
             /\ Writing(r)' <=> r = row
             /\ ~Writing(r)
  BY <1>1, <1>2 DEF Done, OnChain, RowOf, MidBlock, LeftOver, ScanHeight, OneChain, NoForwardRefs,
     Writing
<1>4. /\ Counts(row)
      /\ hash \in Blocks /\ idx \in DOMAIN Outs[hash] /\ OnChain(hash, row)
      /\ row \in ItemRow /\ row \in AllRows
  BY <1>1, AdmissibleCounts, AtBlock, RowTypes DEF row
<1>5. \A r \in items : Done(r) \/ LeftOver(r)
  BY <1>3 DEF IndexInv, Source
<1>6. Source'
  BY <1>1, <1>3, <1>5 DEF Source
<1>7. CASE ItemByID(row.id)
  <2>1. PICK r \in items : r.id = row.id
    BY <1>7 DEF ItemByID
  <2>2. OnChain(hash, r)
    BY <1>1, <1>5, AtBlock
  <2>3. row \in items
    BY <1>4, <2>1, <2>2, OneRow
  <2>4. Tables'
    BY <1>1, <1>3, <1>7, Quiet DEF IndexInv
  <2> QED
    BY <1>1, <1>2, <1>6, <1>7, <2>3, <2>4 DEF RowThere
<1>8. CASE ~ItemByID(row.id)
  <2>1. items' = items \cup {row} /\ row \notin items /\ \A r \in items : r.id # row.id
    BY <1>1, <1>8 DEF ItemByID
  <2>2. \A r \in items : LaterThan(row, r) /\ ~LaterThan(r, row) /\ r \in ItemRow
    BY <1>1, <1>4, <1>8, NewIsLast, Order DEF IInv, TypeOK, StoreTypeOK
  <2>3. ~Done(row)
    BY <1>1, <1>4, AtBlock, Order
  <2>4. Rules'
    BY <1>4, <2>1 DEF IndexInv, Tables, Rules, Counts
  <2>5. Complete'
    <3> SUFFICES ASSUME NEW q \in AllRows, Counts(q)', q \notin items',
                        Done(q) \/ (LeftOver(q) /\ \E r \in items' : LaterThan(r, q))
                 PROVE  FALSE
      BY <1>3 DEF Complete
    <3>1. q \in ItemRow /\ q # row
      BY <2>1, RowTypes
    <3>2. Done(q) \/ (LeftOver(q) /\ \E r \in items : LaterThan(r, q))
      <4> SUFFICES ASSUME LeftOver(q), LaterThan(row, q)
                   PROVE  Done(q)
        BY <2>1
      <4>1. PICK j \in DOMAIN Outs[hash] : q = RowOf(hash, j)
        BY <1>1, AtBlock
      <4>2. j < idx
        BY <1>4, <4>1, OutputOrder DEF row
      <4>3. j \in 1 .. idx - 1
        BY <1>4, <4>1, <4>2, OutsAssumption
      <4> QED
        BY <1>1, <4>1, <4>3 DEF Done, MidBlock
    <3>3. ~LaterThan(q, row)
      <4>1. LaterThan(row, q)
        BY <1>1, <1>4, <2>2, <3>1, <3>2, AtBlock, OrderTransitive
      <4> QED
        BY <1>4, <3>1, <4>1, Order
    <3>4. Counts(q)
      BY <2>1, <3>3 DEF Counts
    <3> QED
      BY <2>1, <3>2, <3>4 DEF IndexInv, Tables, Complete
  <2>6. Payloads'
    <3>1. row.id \notin stories /\ row.id \notin comments
      BY <1>8 DEF IInv, RefIntegrity
    <3> QED
      BY <1>1, <1>3, <2>1, <2>3, <3>1 DEF IndexInv, Tables, Payloads
  <2>7. Firsts'
    <3>1. ~Holds(row)
      BY <2>1 DEF IndexInv, Tables, Firsts, Holds, TopicOf, ContOf
    <3>2. \A r : Holds(r)' <=> Holds(r)
      BY <1>1 DEF Holds
    <3>3. \A r, s \in items' : Holds(r) /\ SameKey(r, s) => ~LaterThan(r, s)
      BY <2>1, <2>2, <3>1 DEF IndexInv, Tables, Firsts
    <3>4. \A r \in items' : Done(r) /\ Msg[r.id].kind \in {"topic", "cont"} =>
            \E s \in items' : SameKey(r, s) /\ Holds(s)
      BY <2>1, <2>3 DEF IndexInv, Tables, Firsts
    <3>5. /\ \A t \in topics : \E r \in items' : Msg[r.id].kind = "topic" /\ t = TopicOf(r)
          /\ \A c \in conts : \E r \in items' : Msg[r.id].kind = "cont" /\ c = ContOf(r)
      BY <2>1 DEF IndexInv, Tables, Firsts
    <3> QED
      BY <1>1, <1>3, <3>2, <3>3, <3>4, <3>5 DEF Firsts
  <2>8. Lasts'
    BY <1>1, <1>3, <2>1, <2>3 DEF IndexInv, Tables, Lasts
  <2>9. RowThere'
    BY <1>2, <2>1 DEF RowThere
  <2> QED
    BY <1>6, <2>4, <2>5, <2>6, <2>7, <2>8, <2>9 DEF Tables
<1> QED
  BY <1>7, <1>8

\* The second statement of a message: what it does not touch, and what it may rely on.
LEMMA PayloadFacts ==
  ASSUME IInv, IndexInv, pc = "payload", NextOutput, UNCHANGED <<items, cursor>>
  PROVE  /\ row \in items /\ row \in ItemRow /\ msg \in Message
         /\ \A r : Done(r)' <=> Done(r) \/ r = row
         /\ \A r \in items : Done(r) => LaterThan(row, r)
         /\ \A r \in items : LaterThan(row, r) => Done(r)
         /\ \A r \in items : r.id = row.id => r = row
         /\ Source' /\ RowThere' /\ Rules' /\ Complete'
<1>1. /\ idx <= Len(Outs[hash]) /\ hash \in Blocks /\ idx \in DOMAIN Outs[hash]
      /\ pc' = "item"
  BY AtBlock DEF IInv, TypeOK, NextOutput
<1>2. row \in items /\ row \in ItemRow /\ row \in AllRows /\ msg \in Message
  BY <1>1, RowTypes DEF IndexInv, RowThere, row, msg
<1>3. /\ \A r : Done(r)' <=> Done(r) \/ r = row
      /\ \A r : LeftOver(r)' <=> LeftOver(r)
  BY <1>1, NextDone
<1>4. \A r \in items : Done(r) => LaterThan(row, r)
  BY <1>1, AtBlock
<1>5. ASSUME NEW r \in items, LaterThan(row, r)
      PROVE  Done(r)
  <2>1. r # row
    BY <1>2, <1>5, Order
  <2>2. CASE LeftOver(r)
    <3>1. PICK j \in DOMAIN Outs[hash] : r = RowOf(hash, j)
      BY <2>2, AtBlock
    <3>2. j < idx
      BY <1>1, <1>5, <3>1, OutputOrder DEF row
    <3>3. j \in 1 .. idx - 1
      BY <1>1, <3>1, <3>2, OutsAssumption
    <3> QED
      BY <3>1, <3>3 DEF Done, MidBlock
  <2> QED
    BY <2>1, <2>2 DEF IndexInv, Source, Writing
<1>6. \A r \in items : r.id = row.id => r = row
  BY <1>2 DEF IInv, TypeOK, StoreTypeOK
<1>7. Source' /\ RowThere'
  BY <1>1, <1>3 DEF IndexInv, Source, Writing, RowThere
<1>8. Rules' /\ Complete'
  <2>1. \A q : Counts(q)' <=> Counts(q)
    BY DEF Counts
  <2> QED
    BY <1>2, <1>3, <2>1 DEF IndexInv, Tables, Rules, Complete
<1> QED
  BY <1>2, <1>3, <1>4, <1>5, <1>6, <1>7, <1>8

\* A message leaves its row in one of the tables.
LEMMA PayloadsStep ==
  ASSUME IInv, IndexInv, pc = "payload", NextOutput, UNCHANGED <<items, cursor>>,
         stories' = IF msg.kind = "story" THEN stories \cup {row.id} ELSE stories,
         comments' = IF msg.kind = "comment" THEN comments \cup {row.id} ELSE comments
  PROVE  Payloads'
<1>1. /\ row \in items
      /\ \A r : Done(r)' <=> Done(r) \/ r = row
      /\ \A r \in items : r.id = row.id => r = row
  BY PayloadFacts
<1>2. ASSUME NEW r \in items, r # row
      PROVE  /\ r.id # row.id
             /\ r.id \in stories' <=> r.id \in stories
             /\ r.id \in comments' <=> r.id \in comments
             /\ Done(r)' <=> Done(r)
  BY <1>1, <1>2
<1>3. /\ row.id \in stories' <=> Msg[row.id].kind = "story"
      /\ row.id \in comments' <=> Msg[row.id].kind = "comment"
  BY <1>1 DEF IndexInv, Tables, Payloads, msg
<1> QED
  BY <1>1, <1>2, <1>3 DEF IndexInv, Tables, Payloads

\* InsertTopicIfAbsent and PutContinuation keep the first.
LEMMA FirstsStep ==
  ASSUME IInv, IndexInv, pc = "payload", NextOutput, UNCHANGED <<items, cursor>>,
         topics' = IF msg.kind = "topic" /\ ~ \E t \in topics : t.topic = msg.topic
                   THEN topics \cup {TopicOf(row)} ELSE topics,
         conts' = IF msg.kind = "cont" /\ ~ \E c \in conts : c.head = msg.ref /\ c.seq = msg.seq
                  THEN conts \cup {ContOf(row)} ELSE conts
  PROVE  Firsts'
<1>0. /\ row \in items /\ row \in ItemRow
      /\ \A r : Done(r)' <=> Done(r) \/ r = row
      /\ \A r \in items : LaterThan(row, r) => Done(r)
      /\ \A r \in items : r.id = row.id => r = row
  BY PayloadFacts
<1>1. /\ \A t \in topics : \E r \in items : Msg[r.id].kind = "topic" /\ t = TopicOf(r)
      /\ \A c \in conts : \E r \in items : Msg[r.id].kind = "cont" /\ c = ContOf(r)
      /\ \A r, s \in items : Holds(r) /\ SameKey(r, s) => ~LaterThan(r, s)
      /\ \A r \in items : Done(r) /\ Msg[r.id].kind \in {"topic", "cont"} =>
           \E s \in items : SameKey(r, s) /\ Holds(s)
  BY DEF IndexInv, Tables, Firsts
<1>2. /\ \A t \in topics' : \E r \in items : Msg[r.id].kind = "topic" /\ t = TopicOf(r)
      /\ \A c \in conts' : \E r \in items : Msg[r.id].kind = "cont" /\ c = ContOf(r)
  BY <1>0, <1>1 DEF msg
<1>3. \A r : Holds(r) => Holds(r)'
  BY DEF Holds
<1>4. \A r \in items : Holds(r)' => Holds(r) \/ r = row
  BY <1>0 DEF Holds, TopicOf, ContOf
<1>5. ASSUME NEW r \in items, r = row, Holds(r)', ~Holds(r), NEW s \in items, SameKey(r, s)
      PROVE  ~LaterThan(r, s)
  <2> SUFFICES ASSUME LaterThan(r, s)
               PROVE  FALSE
    OBVIOUS
  <2>1. Done(s) /\ Msg[s.id].kind \in {"topic", "cont"}
    BY <1>0, <1>5 DEF SameKey
  <2>2. PICK u \in items : SameKey(s, u) /\ Holds(u)
    BY <1>1, <2>1
  <2>3. SameKey(r, u)
    BY <1>5, <2>2 DEF SameKey
  <2>4. CASE msg.kind = "topic"
    <3>1. TopicOf(r) \in topics' /\ TopicOf(r) \notin topics
      BY <1>5, <2>4 DEF Holds, msg
    <3>2. TopicOf(u) \in topics /\ TopicOf(u).topic = msg.topic
      BY <1>5, <2>2, <2>3, <2>4 DEF Holds, SameKey, TopicOf, msg
    <3> QED
      BY <1>5, <2>4, <3>1, <3>2
  <2>5. CASE msg.kind = "cont"
    <3>1. ContOf(r) \in conts' /\ ContOf(r) \notin conts
      BY <1>5, <2>5 DEF Holds, msg
    <3>2. ContOf(u) \in conts /\ ContOf(u).head = msg.ref /\ ContOf(u).seq = msg.seq
      BY <1>5, <2>2, <2>3, <2>5 DEF Holds, SameKey, ContOf, msg
    <3> QED
      BY <1>5, <2>5, <3>1, <3>2
  <2> QED
    BY <1>5, <2>4, <2>5 DEF SameKey, msg
<1>6. ASSUME NEW r \in items, NEW s \in items, Holds(r)', SameKey(r, s)
      PROVE  ~LaterThan(r, s)
  <2>1. CASE Holds(r)
    BY <1>1, <1>6, <2>1
  <2>2. CASE ~Holds(r)
    <3>1. r = row
      BY <1>4, <1>6, <2>2
    <3> QED
      BY <1>5, <1>6, <2>2, <3>1
  <2> QED
    BY <2>1, <2>2
<1>7. ASSUME msg.kind \in {"topic", "cont"}
      PROVE  \E s \in items : SameKey(row, s) /\ Holds(s)'
  <2>1. CASE msg.kind = "topic" /\ \E t \in topics : t.topic = msg.topic
    <3>1. PICK s \in items : Msg[s.id].kind = "topic" /\ TopicOf(s) \in topics
                             /\ TopicOf(s).topic = msg.topic
      BY <1>1, <2>1
    <3> QED
      BY <1>3, <2>1, <3>1 DEF SameKey, Holds, TopicOf, msg
  <2>2. CASE msg.kind = "cont" /\ \E c \in conts : c.head = msg.ref /\ c.seq = msg.seq
    <3>1. PICK s \in items : Msg[s.id].kind = "cont" /\ ContOf(s) \in conts
                             /\ ContOf(s).head = msg.ref /\ ContOf(s).seq = msg.seq
      BY <1>1, <2>2
    <3> QED
      BY <1>3, <2>2, <3>1 DEF SameKey, Holds, ContOf, msg
  <2>3. CASE msg.kind = "topic" /\ ~ \E t \in topics : t.topic = msg.topic
    BY <1>0, <2>3 DEF SameKey, Holds, msg
  <2>4. CASE msg.kind = "cont" /\ ~ \E c \in conts : c.head = msg.ref /\ c.seq = msg.seq
    BY <1>0, <2>4 DEF SameKey, Holds, msg
  <2> QED
    BY <1>7, <2>1, <2>2, <2>3, <2>4
<1>8. \A r \in items : Done(r)' /\ Msg[r.id].kind \in {"topic", "cont"} =>
        \E s \in items : SameKey(r, s) /\ Holds(s)'
  BY <1>0, <1>1, <1>3, <1>7 DEF msg
<1> QED
  BY <1>2, <1>6, <1>8 DEF Firsts

\* PutVote keeps the last.
LEMMA LastsStep ==
  ASSUME IInv, IndexInv, pc = "payload", NextOutput, UNCHANGED <<items, cursor>>,
         IF msg.kind = "vote" THEN PutVote(VoteOf(row)) ELSE votes' = votes
  PROVE  Lasts'
<1>0. /\ row \in items /\ row \in ItemRow
      /\ \A r : Done(r)' <=> Done(r) \/ r = row
      /\ \A r \in items : Done(r) => LaterThan(row, r)
      /\ \A r \in items : r \in ItemRow
  BY PayloadFacts DEF IInv, TypeOK, StoreTypeOK
<1>1. /\ \A v \in votes : \E r \in items : Msg[r.id].kind = "vote" /\ v = VoteOf(r)
      /\ \A v \in votes, r \in items :
           Done(r) /\ Msg[r.id].kind = "vote" /\ SameVote(VoteOf(r), v) => ~LaterThan(r, v)
      /\ OneChain => \A r \in items : Done(r) /\ Msg[r.id].kind = "vote" =>
                       \E v \in votes : SameVote(VoteOf(r), v)
  BY DEF IndexInv, Tables, Lasts
<1>2. CASE msg.kind # "vote"
  BY <1>0, <1>1, <1>2 DEF Lasts, msg
<1>3. CASE msg.kind = "vote" /\ \E w \in votes : SameVote(VoteOf(row), w) /\ ~LaterThan(VoteOf(row), w)
  <2>1. votes' = votes
    BY <1>3 DEF PutVote
  <2>2. PICK w \in votes : SameVote(VoteOf(row), w) /\ ~LaterThan(VoteOf(row), w)
    BY <1>3
  <2>3. \A v \in votes : SameVote(VoteOf(row), v) => v = w
    BY <2>2 DEF SameVote, IInv, TypeOK, StoreTypeOK
  <2>4. ~LaterThan(row, w)
    BY <2>2 DEF LaterThan, VoteOf
  <2> QED
    BY <1>0, <1>1, <2>1, <2>2, <2>3, <2>4 DEF Lasts
<1>4. CASE msg.kind = "vote" /\ ~ \E w \in votes : SameVote(VoteOf(row), w) /\ ~LaterThan(VoteOf(row), w)
  <2>1. votes' = {w \in votes : ~SameVote(VoteOf(row), w)} \cup {VoteOf(row)}
    BY <1>4 DEF PutVote
  <2>2. \A v \in votes' : \E r \in items : Msg[r.id].kind = "vote" /\ v = VoteOf(r)
    BY <1>0, <1>1, <1>4, <2>1 DEF msg
  <2>3. \A r \in items : Done(r)' => ~LaterThan(r, VoteOf(row))
    <3>1. \A r \in items : Done(r)' => ~LaterThan(r, row)
      BY <1>0, Order
    <3> QED
      BY <3>1 DEF LaterThan, VoteOf
  <2>4. \A v \in votes', r \in items :
          Done(r)' /\ Msg[r.id].kind = "vote" /\ SameVote(VoteOf(r), v) => ~LaterThan(r, v)
    <3> SUFFICES ASSUME NEW v \in votes', NEW r \in items, Done(r)', Msg[r.id].kind = "vote",
                        SameVote(VoteOf(r), v)
                 PROVE  ~LaterThan(r, v)
      OBVIOUS
    <3>1. CASE v = VoteOf(row)
      BY <2>3, <3>1
    <3>2. CASE v \in votes /\ ~SameVote(VoteOf(row), v)
      BY <1>0, <1>1, <3>2
    <3> QED
      BY <2>1, <3>1, <3>2
  <2>5. ASSUME OneChain, NEW r \in items, Done(r)', Msg[r.id].kind = "vote"
        PROVE  \E v \in votes' : SameVote(VoteOf(r), v)
    <3>1. CASE SameVote(VoteOf(r), VoteOf(row))
      BY <2>1, <3>1
    <3>2. CASE ~SameVote(VoteOf(r), VoteOf(row))
      <4>1. Done(r)
        BY <1>0, <2>5, <3>2 DEF SameVote
      <4>2. PICK v \in votes : SameVote(VoteOf(r), v)
        BY <1>1, <2>5, <4>1
      <4>3. ~SameVote(VoteOf(row), v)
        BY <3>2, <4>2 DEF SameVote
      <4> QED
        BY <2>1, <4>2, <4>3
    <3> QED
      BY <3>1, <3>2
  <2> QED
    BY <2>2, <2>4, <2>5 DEF Lasts, OneChain, NoForwardRefs
<1> QED
  BY <1>2, <1>3, <1>4

\* The second statements of all messages.
LEMMA PayloadStep ==
  ASSUME IInv, IndexInv,
         PersistTopic \/ PersistStory \/ PersistComment \/ PersistVote \/ PersistContinuation
  PROVE  Source' /\ RowThere' /\ Tables'
<1>1. /\ pc = "payload" /\ NextOutput /\ UNCHANGED <<items, cursor>>
      /\ stories' = IF msg.kind = "story" THEN stories \cup {row.id} ELSE stories
      /\ comments' = IF msg.kind = "comment" THEN comments \cup {row.id} ELSE comments
      /\ topics' = IF msg.kind = "topic" /\ ~ \E t \in topics : t.topic = msg.topic
                   THEN topics \cup {TopicOf(row)} ELSE topics
      /\ conts' = IF msg.kind = "cont" /\ ~ \E c \in conts : c.head = msg.ref /\ c.seq = msg.seq
                  THEN conts \cup {ContOf(row)} ELSE conts
      /\ IF msg.kind = "vote" THEN PutVote(VoteOf(row)) ELSE votes' = votes
  <2>1. CASE PersistTopic
    BY <2>1 DEF PersistTopic, InsertTopicIfAbsent, TopicOf, msg
  <2>2. CASE PersistStory \/ PersistComment
    BY <2>2 DEF PersistStory, PutStory, PersistComment, PutComment
  <2>3. CASE PersistVote
    <3>1. msg.kind = "vote" /\ PutVote(VoteOf(row)) /\ pc = "payload" /\ NextOutput
      BY <2>3 DEF PersistVote
    <3>2. UNCHANGED <<items, stories, comments, topics, conts, cursor>>
      BY <3>1 DEF PutVote
    <3> QED
      BY <3>1, <3>2
  <2>4. CASE PersistContinuation
    BY <2>4 DEF PersistContinuation, PutContinuation, ContOf, msg
  <2> QED
    BY <2>1, <2>2, <2>3, <2>4
<1>2. Payloads' /\ Firsts' /\ Lasts'
  BY <1>1, PayloadsStep, FirstsStep, LastsStep
<1>3. Source' /\ RowThere' /\ Rules' /\ Complete'
  BY <1>1, PayloadFacts
<1> QED
  BY <1>2, <1>3 DEF Tables

-----------------------------------------------------------------------------
\* A rewind leaves the index of the chain below its target.
LEMMA RewindStep ==
  ASSUME IInv, IndexInv, RewindDelete(StartHeight)
  PROVE  Source' /\ RowThere' /\ Tables'
<1> DEFINE t == RewindTarget(next - 1, StartHeight)
<1>0. /\ pc = "delete" /\ ~OneChain
      /\ cursor # NoCursor /\ next = cursor.height + 1
      /\ cursor.hash \in Blocks /\ Height[cursor.hash] = cursor.height
      /\ StartHeight \in Nat /\ cursor.height \in Nat /\ next \in Nat /\ NoHash \notin Blocks
  BY Types DEF RewindDelete, IndexInv, Straight
<1>1. /\ items' = {r \in items : r.height < t}
      /\ stories' = stories \ {r.id : r \in {x \in items : x.height >= t}}
      /\ comments' = comments \ {r.id : r \in {x \in items : x.height >= t}}
      /\ votes' = {v \in votes : v.height < t}
      /\ topics' = {u \in topics : u.height < t}
      /\ conts' = {c \in conts : c.height < t}
      /\ cursor' = cursor /\ next' = t /\ prev' = NoHash
      /\ pc' = IF t <= StartHeight THEN "count" ELSE "anchor"
  BY DEF RewindDelete, DeleteFromHeight, Continue
<1>2. t \in Nat /\ t >= StartHeight /\ (t > StartHeight => t <= cursor.height)
  BY <1>0, TargetRange
<1> HIDE DEF t
<1>3. /\ \A r \in items : r \in ItemRow /\ r.height \in Nat
      /\ \A r, s \in items : r.id = s.id => r = s
  BY DEF IInv, TypeOK, StoreTypeOK, ItemRow
<1>4. \A r : Done(r) <=> OnChain(cursor.hash, r)
  BY <1>0 DEF Done, MidBlock, IndexedHead, Rewinding
<1>5. \A r : ~LeftOver(r) /\ ~LeftOver(r)' /\ ~Writing(r)
  BY <1>0 DEF LeftOver, Writing, OneChain, NoForwardRefs
<1>6. ASSUME NEW r, r.height \in Nat
      PROVE  Done(r)' <=> Done(r) /\ r.height < t
  <2>1. CASE t > StartHeight
    <3>1. IndexedHead' = Path[cursor.hash][t - 1] /\ ~MidBlock'
      BY <1>0, <1>1, <1>2, <2>1 DEF IndexedHead, Rewinding, MidBlock
    <3>2. Done(r)' <=> OnChain(Path[cursor.hash][t - 1], r)
      BY <3>1 DEF Done, OnChain, RowOf
    <3>3. t - 1 \in Nat /\ t - 1 <= Height[cursor.hash]
      BY <1>0, <1>2, <2>1
    <3>4. OnChain(Path[cursor.hash][t - 1], r) <=> OnChain(cursor.hash, r) /\ r.height <= t - 1
      BY <1>0, <1>6, <3>3, ChainCut
    <3> QED
      BY <1>2, <1>4, <1>6, <3>2, <3>4
  <2>2. CASE t <= StartHeight
    <3>1. IndexedHead' = NoHash /\ ~MidBlock'
      BY <1>0, <1>1, <2>2 DEF IndexedHead, Rewinding, MidBlock
    <3>2. ~Done(r)'
      BY <3>1 DEF Done, OnChain
    <3>3. ~(OnChain(cursor.hash, r) /\ r.height < t)
      BY <1>0, <1>2, <1>6, <2>2 DEF OnChain
    <3> QED
      BY <1>4, <3>2, <3>3
  <2> QED
    BY <1>0, <1>2, <2>1, <2>2
<1>7. Source' /\ RowThere'
  <2>1. pc' # "payload"
    BY <1>1
  <2>2. \A r \in items' : Done(r)'
    BY <1>1, <1>3, <1>5, <1>6 DEF IndexInv, Source
  <2> QED
    BY <2>1, <2>2 DEF Source, RowThere
<1>8. ASSUME NEW r \in ItemRow, r.height < t
      PROVE  Counts(r)' <=> Counts(r)
  <2>1. \A p \in items : LaterThan(r, p) => p \in items'
    BY <1>1, <1>2, <1>3, <1>8, Order DEF ItemRow
  <2> QED
    BY <1>1, <2>1 DEF Counts
<1>9. Rules'
  BY <1>1, <1>3, <1>8 DEF IndexInv, Tables, Rules
<1>10. Complete'
  <2> SUFFICES ASSUME NEW q \in AllRows, Counts(q)', Done(q)'
               PROVE  q \in items'
    BY <1>5 DEF Complete
  <2>1. q \in ItemRow /\ q.height \in Nat
    BY RowTypes DEF ItemRow
  <2>2. Done(q) /\ q.height < t
    BY <1>6, <2>1
  <2>3. Counts(q)
    BY <1>8, <2>1, <2>2
  <2> QED
    BY <1>1, <2>2, <2>3 DEF IndexInv, Tables, Complete
<1>11. Payloads'
  <2> SUFFICES ASSUME NEW r \in items'
               PROVE  /\ r.id \in stories' <=> r.id \in stories
                      /\ r.id \in comments' <=> r.id \in comments
                      /\ r \in items /\ (Done(r)' => Done(r))
    BY DEF IndexInv, Tables, Payloads
  <2>1. r \in items /\ r.height < t /\ r.height \in Nat
    BY <1>1, <1>3
  <2>2. r.id \notin {s.id : s \in {x \in items : x.height >= t}}
    BY <1>2, <1>3, <2>1
  <2> QED
    BY <1>1, <1>6, <2>1, <2>2
<1>12. Firsts'
  <2>0. /\ \A u \in topics : \E r \in items : Msg[r.id].kind = "topic" /\ u = TopicOf(r)
        /\ \A c \in conts : \E r \in items : Msg[r.id].kind = "cont" /\ c = ContOf(r)
        /\ \A r, s \in items : Holds(r) /\ SameKey(r, s) => ~LaterThan(r, s)
        /\ \A r \in items : Done(r) /\ Msg[r.id].kind \in {"topic", "cont"} =>
             \E s \in items : SameKey(r, s) /\ Holds(s)
    BY DEF IndexInv, Tables, Firsts
  <2>1. /\ \A u \in topics' : \E r \in items' : Msg[r.id].kind = "topic" /\ u = TopicOf(r)
        /\ \A c \in conts' : \E r \in items' : Msg[r.id].kind = "cont" /\ c = ContOf(r)
    BY <1>1, <2>0 DEF TopicOf, ContOf
  <2>2. \A r \in items : Holds(r)' <=> Holds(r) /\ r.height < t
    BY <1>1 DEF Holds, TopicOf, ContOf
  <2>3. \A r, s \in items' : Holds(r)' /\ SameKey(r, s) => ~LaterThan(r, s)
    BY <1>1, <2>0, <2>2
  <2>4. ASSUME NEW r \in items', Done(r)', Msg[r.id].kind \in {"topic", "cont"}
        PROVE  \E s \in items' : SameKey(r, s) /\ Holds(s)'
    <3>1. r \in items /\ r.height < t /\ r.height \in Nat /\ Done(r) /\ r \in ItemRow
      BY <1>1, <1>3, <1>6, <2>4
    <3>2. PICK s \in items : SameKey(r, s) /\ Holds(s)
      BY <2>0, <2>4, <3>1
    <3>3. SameKey(s, r)
      BY <3>2 DEF SameKey
    <3>4. ~LaterThan(s, r)
      BY <2>0, <3>1, <3>2, <3>3
    <3>5. s.height < t
      BY <1>2, <1>3, <3>1, <3>4 DEF LaterThan
    <3> QED
      BY <1>1, <2>2, <3>2, <3>5
  <2> QED
    BY <2>1, <2>3, <2>4 DEF Firsts
<1>13. Lasts'
  <2>1. \A v \in votes' : \E r \in items' : Msg[r.id].kind = "vote" /\ v = VoteOf(r)
    BY <1>1 DEF IndexInv, Tables, Lasts, VoteOf
  <2>2. \A v \in votes', r \in items' :
          Done(r)' /\ Msg[r.id].kind = "vote" /\ SameVote(VoteOf(r), v) => ~LaterThan(r, v)
    BY <1>1, <1>3, <1>6 DEF IndexInv, Tables, Lasts
  <2> QED
    BY <1>0, <2>1, <2>2 DEF Lasts, OneChain, NoForwardRefs
<1> QED
  BY <1>7, <1>9, <1>10, <1>11, <1>12, <1>13 DEF Tables

-----------------------------------------------------------------------------
\* The invariant holds initially ...
LEMMA InitIndexInv == Init => IndexInv
<1> SUFFICES ASSUME Init
             PROVE  IndexInv
  OBVIOUS
<1>1. /\ items = {} /\ stories = {} /\ comments = {} /\ votes = {} /\ topics = {} /\ conts = {}
      /\ cursor = NoCursor /\ pc = "wait" /\ IndexedHead = NoHash
  BY DEF Init, StoreInit, IndexedHead, Rewinding, NoCursor
<1>2. Anchored /\ Straight /\ Source /\ RowThere
  BY <1>1 DEF Anchored, Straight, Looping, Source, RowThere
<1>3. Tables
  BY <1>1 DEF Tables, Rules, Complete, Done, OnChain, MidBlock, Payloads, Firsts, Lasts
<1> QED
  BY <1>2, <1>3 DEF IndexInv

\* ... and is kept by every step.
LEMMA NextIndexInv ==
  ASSUME ShallowReorgs \/ OneChain
  PROVE  IInv /\ IndexInv /\ [Next]_vars => IndexInv'
<1> SUFFICES ASSUME IInv, IndexInv, [Next]_vars
             PROVE  IndexInv'
  OBVIOUS
<1>1. Anchored' /\ Straight'
  BY AnchoredStep, StraightStep DEF IndexInv
<1>2. Source' /\ RowThere' /\ Tables'
  <2>1. CASE Moves
    BY <2>1, MovesStep
  <2>2. CASE UNCHANGED vars \/ \E b \in Blocks : NodeStep(b)
    BY <2>2, TipStep
  <2>3. CASE BlockDone
    BY <2>3, BlockDoneStep
  <2>4. CASE RewindDelete(StartHeight)
    BY <2>4, RewindStep
  <2>5. CASE ProcessOutput
    BY <2>5, PassOverStep, PersistItemStep, PayloadStep DEF ProcessOutput
  <2> QED
    BY <2>1, <2>2, <2>3, <2>4, <2>5 DEF Next, ScannerStep, Moves
<1> QED
  BY <1>1, <1>2 DEF IndexInv

\* The inductive invariant holds throughout, in both environments.
THEOREM IndexInvariance ==
  ASSUME ShallowReorgs \/ OneChain
  PROVE  Spec => [](IInv /\ IndexInv)
<1>1. Init => IInv /\ IndexInv
  BY InitIInv, InitIndexInv
<1>2. IInv /\ IndexInv /\ [Next]_vars => (IInv /\ IndexInv)'
  BY NextIInv, NextIndexInv
<1> QED
  BY <1>1, <1>2, PTL DEF Spec

-----------------------------------------------------------------------------
\* What the invariant says of a settled index: the rows under the cursor are outputs of
\* its chain, and all their statements were executed.
LEMMA UnderCursor ==
  ASSUME IInv, IndexInv, Settled
  PROVE  /\ cursor.hash \in Blocks
         /\ \A r : r \in ChainRows <=> OnChain(cursor.hash, r)
         /\ \A r : OnChain(cursor.hash, r) => Done(r) /\ r \in AllRows
         /\ \A r \in Covered(items) : OnChain(cursor.hash, r)
<1>0. /\ cursor # NoCursor /\ ~Rewinding /\ IndexedHead = cursor.hash
      /\ cursor.hash \in Blocks /\ Height[cursor.hash] = cursor.height /\ cursor.height \in Nat
      /\ StartHeight \in Nat /\ NoHash \notin Blocks
  BY Types DEF Settled, IndexedHead
<1>1. ASSUME NEW r
      PROVE  r \in ChainRows <=> OnChain(cursor.hash, r)
  <2>1. ASSUME NEW h \in StartHeight .. cursor.height, NEW i \in DOMAIN Outs[Path[cursor.hash][h]]
        PROVE  RowOf(Path[cursor.hash][h], i).height = h
    <3>1. h \in 0 .. Height[cursor.hash]
      BY <1>0
    <3>2. Height[Path[cursor.hash][h]] = h
      BY <1>0, <3>1, OnPath
    <3> QED
      BY <3>2 DEF RowOf
  <2> QED
    BY <1>0, <2>1 DEF ChainRows, OnChain
<1>2. ASSUME NEW r, OnChain(cursor.hash, r)
      PROVE  Done(r) /\ r \in AllRows
  BY <1>0, <1>2, OneRow DEF Done
<1>3. ASSUME NEW r \in Covered(items)
      PROVE  OnChain(cursor.hash, r)
  <2>1. r \in items /\ r.height <= cursor.height
    BY DEF Covered
  <2>2. ScanHeight = cursor.height + 1
    BY <1>0 DEF ScanHeight
  <2>3. ~LeftOver(r)
    BY <1>0, <2>1, <2>2 DEF LeftOver, RowOf
  <2>4. ASSUME MidBlock
        PROVE  Height[hash] = cursor.height + 1
    <3>1. Looping /\ pc \in {"block", "item", "payload"}
      BY <2>4 DEF Looping, MidBlock
    <3>2. Height[hash] = next /\ ScanHeight = next
      BY <3>1, Types, HeadInLoop
    <3> QED
      BY <2>2, <3>2
  <2>5. ~Writing(r)
    BY <1>0, <2>1, <2>4 DEF Writing, row, RowOf, MidBlock
  <2> QED
    BY <1>0, <2>1, <2>3, <2>4, <2>5 DEF IndexInv, Source, Done, RowOf
<1> QED
  BY <1>0, <1>1, <1>2, <1>3

\* Of the settled items that claim a topic or a chunk, the first one has it.
LEMMA FirstHolds ==
  ASSUME IInv, IndexInv, Settled, NEW x \in Covered(items),
         Msg[x.id].kind \in {"topic", "cont"},
         \A y \in Covered(items) : SameKey(x, y) => ~LaterThan(x, y)
  PROVE  Holds(x)
<1>1. x \in items /\ OnChain(cursor.hash, x) /\ Done(x)
  BY UnderCursor DEF Covered
<1>2. PICK s \in items : SameKey(x, s) /\ Holds(s)
  BY <1>1 DEF IndexInv, Tables, Firsts
<1>3. SameKey(s, x)
  BY <1>2 DEF SameKey
<1>4. ~LaterThan(s, x)
  BY <1>1, <1>2, <1>3 DEF IndexInv, Tables, Firsts
<1>5. x \in ItemRow /\ s \in ItemRow /\ cursor.height \in Nat
  BY <1>1, Types DEF IInv, TypeOK, StoreTypeOK
<1>6. s \in Covered(items)
  BY <1>1, <1>4, <1>5, Order DEF Covered, ItemRow
<1>7. x = s
  BY <1>1, <1>2, <1>4, <1>6, UnderCursor, OneRow
<1> QED
  BY <1>2, <1>7

\* rewind and DeleteFromHeight: when reorgs are no deeper than ReorgDepth, or nothing is
\* reorganised but Run may die anywhere, no row of an abandoned branch is left.
THEOREM NoOrphans ==
  ASSUME ShallowReorgs \/ OneChain
  PROVE  Spec => []NoOrphanRows
<1>1. IInv /\ IndexInv => NoOrphanRows
  BY UnderCursor DEF NoOrphanRows
<1> QED
  BY <1>1, IndexInvariance, PTL

\* ProcessBlock and persist: only what the protocol's rules accept is indexed, also when
\* a block is scanned again after a crash in the middle of it.
THEOREM OnlyTheProtocol ==
  ASSUME ShallowReorgs \/ OneChain
  PROVE  Spec => []OnlyProtocolRows
<1>1. IInv /\ IndexInv => OnlyProtocolRows
  BY DEF OnlyProtocolRows, IndexInv, Tables, Rules, Covered
<1> QED
  BY <1>1, IndexInvariance, PTL

\* ProcessBlock, SaveCursor and rewind: nothing that counts is missing under the cursor.
THEOREM NothingMissing ==
  ASSUME ShallowReorgs \/ OneChain
  PROVE  Spec => []NoMissingRows
<1>1. IInv /\ IndexInv => NoMissingRows
  BY UnderCursor DEF NoMissingRows, IndexInv, Tables, Complete
<1> QED
  BY <1>1, IndexInvariance, PTL

\* persist: under the cursor an item and its payload are both there, although they are
\* written by two statements.
THEOREM PayloadsThere ==
  ASSUME ShallowReorgs \/ OneChain
  PROVE  Spec => []PayloadsMatch
<1>1. ASSUME IInv, IndexInv
      PROVE  PayloadsMatch
  <2> SUFFICES ASSUME Settled, NEW r \in Covered(items)
               PROVE  /\ r.id \in stories <=> Msg[r.id].kind = "story"
                      /\ r.id \in comments <=> Msg[r.id].kind = "comment"
    BY DEF PayloadsMatch
  <2>1. r \in items /\ Done(r)
    BY <1>1, UnderCursor DEF Covered
  <2> QED
    BY <1>1, <2>1 DEF IndexInv, Tables, Payloads
<1> QED
  BY <1>1, IndexInvariance, PTL

\* InsertTopicIfAbsent and PutContinuation: the first claim of the chain has the topic, or
\* the chunk, whatever was rewound and replayed.
THEOREM FirstAlwaysWins ==
  ASSUME ShallowReorgs \/ OneChain
  PROVE  Spec => []FirstWins
<1>1. ASSUME IInv, IndexInv
      PROVE  FirstWins
  <2> SUFFICES ASSUME Settled
               PROVE  FirstWins
    BY DEF FirstWins
  <2>1. Covered(topics) =
         {TopicOf(r) :
            r \in {x \in OfKind("topic") :
                     \A y \in OfKind("topic") :
                       Msg[x.id].topic = Msg[y.id].topic => ~LaterThan(x, y)}}
    <3>1. ASSUME NEW t \in Covered(topics)
          PROVE  \E r \in OfKind("topic") :
                   /\ t = TopicOf(r)
                   /\ \A y \in OfKind("topic") :
                        Msg[r.id].topic = Msg[y.id].topic => ~LaterThan(r, y)
      <4>1. PICK r \in items : Msg[r.id].kind = "topic" /\ t = TopicOf(r)
        BY <1>1 DEF Covered, IndexInv, Tables, Firsts
      <4>2. r \in OfKind("topic")
        BY <4>1 DEF OfKind, Covered, TopicOf
      <4>3. Holds(r)
        BY <4>1 DEF Holds, Covered
      <4>4. ASSUME NEW y \in OfKind("topic"), Msg[r.id].topic = Msg[y.id].topic
            PROVE  ~LaterThan(r, y)
        <5>1. SameKey(r, y) /\ y \in items
          BY <4>1, <4>4 DEF SameKey, OfKind, Covered
        <5> QED
          BY <1>1, <4>1, <4>3, <5>1 DEF IndexInv, Tables, Firsts
      <4> QED
        BY <4>1, <4>2, <4>4
    <3>2. ASSUME NEW x \in OfKind("topic"),
                 \A y \in OfKind("topic") :
                   Msg[x.id].topic = Msg[y.id].topic => ~LaterThan(x, y)
          PROVE  TopicOf(x) \in Covered(topics)
      <4>1. \A y \in Covered(items) : SameKey(x, y) => ~LaterThan(x, y)
        BY <3>2 DEF SameKey, OfKind
      <4>2. x \in Covered(items) /\ Msg[x.id].kind = "topic"
        BY DEF OfKind
      <4>3. Holds(x)
        BY <1>1, <4>1, <4>2, FirstHolds
      <4> QED
        BY <4>2, <4>3 DEF Holds, Covered, TopicOf
    <3> QED
      BY <3>1, <3>2 DEF Covered
  <2>2. Covered(conts) =
         {ContOf(r) :
            r \in {x \in OfKind("cont") :
                     \A y \in OfKind("cont") :
                       /\ Msg[x.id].ref = Msg[y.id].ref
                       /\ Msg[x.id].seq = Msg[y.id].seq
                       => ~LaterThan(x, y)}}
    <3>1. ASSUME NEW c \in Covered(conts)
          PROVE  \E r \in OfKind("cont") :
                   /\ c = ContOf(r)
                   /\ \A y \in OfKind("cont") :
                        /\ Msg[r.id].ref = Msg[y.id].ref
                        /\ Msg[r.id].seq = Msg[y.id].seq
                        => ~LaterThan(r, y)
      <4>1. PICK r \in items : Msg[r.id].kind = "cont" /\ c = ContOf(r)
        BY <1>1 DEF Covered, IndexInv, Tables, Firsts
      <4>2. r \in OfKind("cont")
        BY <4>1 DEF OfKind, Covered, ContOf
      <4>3. Holds(r)
        BY <4>1 DEF Holds, Covered
      <4>4. ASSUME NEW y \in OfKind("cont"), Msg[r.id].ref = Msg[y.id].ref,
                   Msg[r.id].seq = Msg[y.id].seq
            PROVE  ~LaterThan(r, y)
        <5>1. SameKey(r, y) /\ y \in items
          BY <4>1, <4>4 DEF SameKey, OfKind, Covered
        <5> QED
          BY <1>1, <4>1, <4>3, <5>1 DEF IndexInv, Tables, Firsts
      <4> QED
        BY <4>1, <4>2, <4>4
    <3>2. ASSUME NEW x \in OfKind("cont"),
                 \A y \in OfKind("cont") :
                   /\ Msg[x.id].ref = Msg[y.id].ref
                   /\ Msg[x.id].seq = Msg[y.id].seq
                   => ~LaterThan(x, y)
          PROVE  ContOf(x) \in Covered(conts)
      <4>1. \A y \in Covered(items) : SameKey(x, y) => ~LaterThan(x, y)
        BY <3>2 DEF SameKey, OfKind
      <4>2. x \in Covered(items) /\ Msg[x.id].kind = "cont"
        BY DEF OfKind
      <4>3. Holds(x)
        BY <1>1, <4>1, <4>2, FirstHolds
      <4> QED
        BY <4>2, <4>3 DEF Holds, Covered, ContOf
    <3> QED
      BY <3>1, <3>2 DEF Covered
  <2> QED
    BY <2>1, <2>2 DEF FirstWins, TopicOf, ContOf
<1> QED
  BY <1>1, IndexInvariance, PTL

\* PutVote: under the cursor, a stored vote is the latest vote of its author for its
\* target on the chain.
THEOREM LatestVoteWins ==
  ASSUME ShallowReorgs \/ OneChain
  PROVE  Spec => []VotesLatest
<1>1. ASSUME IInv, IndexInv
      PROVE  VotesLatest
  <2> SUFFICES ASSUME Settled, NEW v \in Covered(votes)
               PROVE  /\ \E r \in OfKind("vote") : VoteOf(r) = v
                      /\ \A r \in OfKind("vote") : SameVote(VoteOf(r), v) => ~LaterThan(r, v)
    BY DEF VotesLatest
  <2>1. PICK r \in items : Msg[r.id].kind = "vote" /\ v = VoteOf(r)
    BY <1>1 DEF Covered, IndexInv, Tables, Lasts
  <2>2. r \in OfKind("vote")
    BY <2>1 DEF OfKind, Covered, VoteOf
  <2>3. ASSUME NEW s \in OfKind("vote"), SameVote(VoteOf(s), v)
        PROVE  ~LaterThan(s, v)
    <3>1. s \in items /\ Done(s) /\ Msg[s.id].kind = "vote" /\ v \in votes
      BY <1>1, UnderCursor DEF OfKind, Covered
    <3> QED
      BY <1>1, <2>3, <3>1 DEF IndexInv, Tables, Lasts
  <2> QED
    BY <2>1, <2>2, <2>3
<1> QED
  BY <1>1, IndexInvariance, PTL

\* PutVote: where nothing is reorganised, an author whose vote is on the chain has one in
\* the index, wherever Run was stopped.  (After a reorg that is false: run LostVote.)
THEOREM NoVoteLost ==
  ASSUME OneChain
  PROVE  Spec => []VotesComplete
<1>1. ASSUME IInv, IndexInv
      PROVE  VotesComplete
  <2> SUFFICES ASSUME Settled, NEW r \in OfKind("vote")
               PROVE  \E v \in votes : SameVote(VoteOf(r), v)
    BY DEF VotesComplete
  <2>1. r \in items /\ Done(r) /\ Msg[r.id].kind = "vote"
    BY <1>1, UnderCursor DEF OfKind, Covered
  <2> QED
    BY <1>1, <2>1 DEF IndexInv, Tables, Lasts
<1> QED
  BY <1>1, IndexInvariance, PTL
=============================================================================
