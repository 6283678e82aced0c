---------------------------- MODULE MemoryProofs ----------------------------
(***************************************************************************)
(* Proof that the in-memory backend implements the SQLite backend: its     *)
(* maps, read as tables, change as module Store says, for every set of     *)
(* messages, positions and rewinds.                                        *)
(***************************************************************************)
EXTENDS MemoryStore, TLAPS

\* f is a map with keys in K and values in V.
IsMap(f, K, V) == DOMAIN f \subseteq K /\ f = [k \in DOMAIN f |-> f[k]] /\ \A k \in DOMAIN f : f[k] \in V

Position == [height : Nat, tx : Nat, vout : Nat]
Ballot == [up : BOOLEAN, height : Nat, tx : Nat, vout : Nat]
Creation == [id : Items, height : Nat]

\* The maps have their types.
MemoryTypeOK ==
  /\ IsMap(items, Items, Position)
  /\ IsMap(topics, Topics, Creation)
  /\ IsMap(votes, Items \X Authors, Ballot)
  /\ DOMAIN conts \subseteq Items
  /\ conts = [h \in DOMAIN conts |-> conts[h]]
  /\ \A h \in DOMAIN conts : IsMap(conts[h], Nat, Creation)

-----------------------------------------------------------------------------
\* A map gets one more entry.
LEMMA WithMap ==
  ASSUME NEW K, NEW V, NEW f, IsMap(f, K, V), NEW k \in K, NEW v \in V
  PROVE  /\ IsMap(With(f, k, v), K, V)
         /\ DOMAIN With(f, k, v) = DOMAIN f \cup {k}
         /\ With(f, k, v)[k] = v
         /\ \A x \in DOMAIN f : x # k => With(f, k, v)[x] = f[x]
BY DEF IsMap, With

\* A map loses entries.
LEMMA RestrictMap ==
  ASSUME NEW K, NEW V, NEW f, IsMap(f, K, V), NEW S \in SUBSET DOMAIN f
  PROVE  /\ IsMap(Restrict(f, S), K, V)
         /\ DOMAIN Restrict(f, S) = S
         /\ \A x \in S : Restrict(f, S)[x] = f[x]
BY DEF IsMap, Restrict

\* The rows and the messages have their types.
LEMMA RowFacts ==
  ASSUME NEW r \in Rows
  PROVE  /\ r.id \in Items /\ r.height \in Nat /\ r.tx \in Nat /\ r.vout \in Nat
         /\ r = [id |-> r.id, height |-> r.height, tx |-> r.tx, vout |-> r.vout]
         /\ Pos(r) \in Position
         /\ Msg[r.id].kind \in Kinds /\ Msg[r.id].ref \in Items /\ Msg[r.id].author \in Authors
         /\ Msg[r.id].up \in BOOLEAN /\ Msg[r.id].topic \in Topics /\ Msg[r.id].seq \in Nat
BY RowsAssumption, MsgAssumption DEF Message, Pos, Position

\* Every method keeps the types of the maps.
LEMMA InitMemoryTypes == NewMemory => MemoryTypeOK
BY DEF NewMemory, MemoryTypeOK, IsMap, Empty

\* Every step keeps the shape of the maps.
LEMMA NextMemoryTypes == MemoryTypeOK /\ [Next]_mvars => MemoryTypeOK'
<1> SUFFICES ASSUME MemoryTypeOK, [Next]_mvars
             PROVE  MemoryTypeOK'
  OBVIOUS
<1>1. CASE \E r \in Rows : PutItem(r)
  <2>1. PICK r \in Rows : PutItem(r)
    BY <1>1
  <2>2. IsMap(With(items, r.id, Pos(r)), Items, Position)
    BY RowFacts, WithMap DEF MemoryTypeOK
  <2> QED
    BY <2>1, <2>2 DEF PutItem, MemoryTypeOK
<1>2. CASE \E r \in Rows : InsertTopicIfAbsent(r)
  <2>1. PICK r \in Rows : InsertTopicIfAbsent(r)
    BY <1>2
  <2>2. [id |-> r.id, height |-> r.height] \in Creation /\ Msg[r.id].topic \in Topics
    BY RowFacts DEF Creation
  <2>3. IsMap(With(topics, Msg[r.id].topic, [id |-> r.id, height |-> r.height]), Topics, Creation)
    BY <2>2, WithMap DEF MemoryTypeOK
  <2> QED
    BY <2>1, <2>3 DEF InsertTopicIfAbsent, MemoryTypeOK
<1>3. CASE \E r \in Rows : PutStory(r) \/ PutComment(r)
  BY <1>3 DEF PutStory, PutComment, MemoryTypeOK
<1>4. CASE \E r \in Rows : PutVote(r)
  <2>1. PICK r \in Rows : PutVote(r)
    BY <1>4
  <2> DEFINE v == [up |-> Msg[r.id].up, height |-> r.height, tx |-> r.tx, vout |-> r.vout]
             k == <<Msg[r.id].ref, Msg[r.id].author>>
  <2>2. v \in Ballot /\ k \in Items \X Authors
    BY RowFacts DEF Ballot
  <2>3. votes' = votes \/ votes' = With(votes, k, v)
    BY <2>1 DEF PutVote
  <2>4. UNCHANGED <<items, topics, conts>>
    BY <2>1 DEF PutVote
  <2> HIDE DEF v, k
  <2>5. IsMap(With(votes, k, v), Items \X Authors, Ballot)
    BY <2>2, WithMap DEF MemoryTypeOK
  <2> QED
    BY <2>3, <2>4, <2>5 DEF MemoryTypeOK
<1>5. CASE \E r \in Rows : PutContinuation(r)
  <2>1. PICK r \in Rows : PutContinuation(r)
    BY <1>5
  <2> DEFINE c == [id |-> r.id, height |-> r.height]
             head == Msg[r.id].ref
             seqs == IF head \in DOMAIN conts THEN conts[head] ELSE Empty
             new == IF Msg[r.id].seq \in DOMAIN seqs THEN seqs ELSE With(seqs, Msg[r.id].seq, c)
  <2>2. c \in Creation /\ head \in Items /\ Msg[r.id].seq \in Nat
    BY RowFacts DEF Creation
  <2>3. UNCHANGED <<items, topics, votes>> /\ conts' = With(conts, head, new)
    BY <2>1 DEF PutContinuation
  <2>4. IsMap(seqs, Nat, Creation)
    BY DEF MemoryTypeOK, Empty, IsMap
  <2> HIDE DEF c, head, seqs
  <2>5. IsMap(new, Nat, Creation)
    BY <2>2, <2>4, WithMap
  <2> HIDE DEF new
  <2>6. /\ DOMAIN conts' \subseteq Items
        /\ conts' = [h \in DOMAIN conts' |-> conts'[h]]
        /\ \A h \in DOMAIN conts' : IsMap(conts'[h], Nat, Creation)
    BY <2>2, <2>3, <2>5 DEF With, MemoryTypeOK
  <2> QED
    BY <2>3, <2>6 DEF MemoryTypeOK
<1>6. CASE \E h \in Heights : DeleteFromHeight(h)
  <2>1. PICK h \in Heights : DeleteFromHeight(h)
    BY <1>6
  <2> DEFINE gone == {id \in DOMAIN items : items[id].height >= h}
  <2>2. /\ items' = Restrict(items, DOMAIN items \ gone)
        /\ conts' = Restrict(conts, DOMAIN conts \ gone)
        /\ votes' = Restrict(votes, {k \in DOMAIN votes : votes[k].height < h})
        /\ topics' = Restrict(topics, {t \in DOMAIN topics : topics[t].height < h})
    BY <2>1 DEF DeleteFromHeight, Without, RestrictDomain
  <2> HIDE DEF gone
  <2>3. IsMap(items', Items, Position)
    BY <2>2, RestrictMap DEF MemoryTypeOK
  <2>4. IsMap(topics', Topics, Creation)
    BY <2>2, RestrictMap DEF MemoryTypeOK
  <2>5. IsMap(votes', Items \X Authors, Ballot)
    BY <2>2, RestrictMap DEF MemoryTypeOK
  <2>6. /\ DOMAIN conts' \subseteq Items
        /\ conts' = [x \in DOMAIN conts' |-> conts'[x]]
        /\ \A x \in DOMAIN conts' : IsMap(conts'[x], Nat, Creation)
    BY <2>2 DEF Restrict, MemoryTypeOK
  <2> QED
    BY <2>3, <2>4, <2>5, <2>6 DEF MemoryTypeOK
<1>7. CASE UNCHANGED mvars \/ \E h \in Heights, b \in Blocks : SaveCursor(h, b)
  BY <1>7 DEF SaveCursor, mvars, MemoryTypeOK
<1> QED
  BY <1>1, <1>2, <1>3, <1>4, <1>5, <1>6, <1>7 DEF Next, Payload

-----------------------------------------------------------------------------
\* Each method of MemoryStore, on the tables read off the maps, is the statement of
\* SQLiteStore.

\* PutItem: INSERT OR IGNORE.
LEMMA PutItemMirrors ==
  ASSUME MemoryTypeOK, NEW r \in Rows, PutItem(r)
  PROVE  SQL!PutItem(r)
<1>1. SQL!ItemByID(r.id) <=> r.id \in DOMAIN items
  <2>1. ASSUME r.id \in DOMAIN items
        PROVE  \E q \in ItemRows : q.id = r.id
    <3> DEFINE q == [id |-> r.id, height |-> items[r.id].height, tx |-> items[r.id].tx,
                     vout |-> items[r.id].vout]
    <3>1. q \in ItemRows /\ q.id = r.id
      BY <2>1 DEF ItemRows
    <3> QED BY <3>1
  <2>2. ASSUME NEW q \in ItemRows, q.id = r.id
        PROVE  r.id \in DOMAIN items
    BY <2>2 DEF ItemRows
  <2> QED
    BY <2>1, <2>2 DEF SQL!ItemByID
<1>2. ItemRows' = IF r.id \in DOMAIN items THEN ItemRows ELSE ItemRows \cup {r}
  <2>1. CASE r.id \in DOMAIN items
    BY <2>1 DEF PutItem, ItemRows
  <2>2. CASE r.id \notin DOMAIN items
    <3>0. items' = With(items, r.id, Pos(r))
      BY <2>2 DEF PutItem
    <3>1. /\ DOMAIN items' = DOMAIN items \cup {r.id}
          /\ items'[r.id] = Pos(r)
          /\ \A x \in DOMAIN items : items'[x] = items[x]
      BY <2>2, <3>0 DEF With
    <3>2. r = [id |-> r.id, height |-> items'[r.id].height, tx |-> items'[r.id].tx,
               vout |-> items'[r.id].vout]
      BY <3>1, RowFacts DEF Pos
    <3> QED
      BY <2>2, <3>1, <3>2 DEF ItemRows
  <2> QED
    BY <2>1, <2>2
<1>3. UNCHANGED <<stories, comments, VoteRows, TopicRows, ContRows, cursor>>
  BY DEF PutItem, VoteRows, TopicRows, ContRows
<1> QED
  BY <1>1, <1>2, <1>3 DEF SQL!PutItem

\* InsertTopicIfAbsent: the first one wins.
LEMMA InsertTopicMirrors ==
  ASSUME MemoryTypeOK, NEW r \in Rows, InsertTopicIfAbsent(r)
  PROVE  SQL!InsertTopicIfAbsent([topic |-> Msg[r.id].topic, id |-> r.id, height |-> r.height])
<1> DEFINE t == Msg[r.id].topic
           c == [id |-> r.id, height |-> r.height]
           new == [topic |-> t, id |-> r.id, height |-> r.height]
<1>1. (\E u \in TopicRows : u.topic = new.topic) <=> t \in DOMAIN topics
  <2>1. ASSUME t \in DOMAIN topics
        PROVE  \E u \in TopicRows : u.topic = new.topic
    <3> DEFINE u == [topic |-> t, id |-> topics[t].id, height |-> topics[t].height]
    <3>1. u \in TopicRows /\ u.topic = new.topic
      BY <2>1 DEF TopicRows
    <3> QED BY <3>1
  <2>2. ASSUME NEW u \in TopicRows, u.topic = new.topic
        PROVE  t \in DOMAIN topics
    BY <2>2 DEF TopicRows
  <2> QED
    BY <2>1, <2>2
<1>2. TopicRows' = IF t \in DOMAIN topics THEN TopicRows ELSE TopicRows \cup {new}
  <2>1. CASE t \in DOMAIN topics
    BY <2>1 DEF InsertTopicIfAbsent, TopicRows
  <2>2. CASE t \notin DOMAIN topics
    <3>1. topics' = With(topics, t, c) /\ t \in Topics /\ c \in Creation
      BY <2>2, RowFacts DEF InsertTopicIfAbsent, Creation
    <3>2. /\ DOMAIN topics' = DOMAIN topics \cup {t}
          /\ topics'[t] = c
          /\ \A x \in DOMAIN topics : topics'[x] = topics[x]
      BY <2>2, <3>1 DEF With
    <3>3. new = [topic |-> t, id |-> topics'[t].id, height |-> topics'[t].height]
      BY <3>2
    <3> HIDE DEF t, c, new
    <3> QED
      BY <2>2, <3>2, <3>3 DEF TopicRows
  <2> QED
    BY <2>1, <2>2
<1>3. UNCHANGED <<ItemRows, stories, comments, VoteRows, ContRows, cursor>>
  BY DEF InsertTopicIfAbsent, VoteRows, ItemRows, ContRows
<1> QED
  BY <1>1, <1>2, <1>3 DEF SQL!InsertTopicIfAbsent

\* PutStory and PutComment.
LEMMA PutPayloadMirrors ==
  ASSUME NEW r \in Rows
  PROVE  /\ PutStory(r) => SQL!PutStory(r.id)
         /\ PutComment(r) => SQL!PutComment(r.id)
<1>1. PutStory(r) => SQL!PutStory(r.id)
  BY DEF PutStory, SQL!PutStory, ItemRows, VoteRows, TopicRows, ContRows
<1>2. PutComment(r) => SQL!PutComment(r.id)
  BY DEF PutComment, SQL!PutComment, ItemRows, VoteRows, TopicRows, ContRows
<1> QED
  BY <1>1, <1>2

\* PutVote: the upsert.
LEMMA PutVoteMirrors ==
  ASSUME MemoryTypeOK, NEW r \in Rows, PutVote(r)
  PROVE  SQL!PutVote([target |-> Msg[r.id].ref, author |-> Msg[r.id].author,
                      up |-> Msg[r.id].up, height |-> r.height, tx |-> r.tx, vout |-> r.vout])
<1> DEFINE k == <<Msg[r.id].ref, Msg[r.id].author>>
           v == [up |-> Msg[r.id].up, height |-> r.height, tx |-> r.tx, vout |-> r.vout]
           new == [target |-> Msg[r.id].ref, author |-> Msg[r.id].author,
                   up |-> Msg[r.id].up, height |-> r.height, tx |-> r.tx, vout |-> r.vout]
           VRow(key, w) == [target |-> key[1], author |-> key[2], up |-> w.up,
                            height |-> w.height, tx |-> w.tx, vout |-> w.vout]
<1>0. /\ k \in Items \X Authors /\ v \in Ballot /\ new = VRow(k, v)
      /\ DOMAIN votes \subseteq Items \X Authors
      /\ \A x \in DOMAIN votes : votes[x] \in Ballot
  BY RowFacts DEF Ballot, MemoryTypeOK, IsMap
<1>1. ASSUME NEW x \in DOMAIN votes
      PROVE  SQL!SameVote(new, VRow(x, votes[x])) <=> x = k
  BY <1>0 DEF SQL!SameVote
<1>2. ASSUME NEW x \in DOMAIN votes
      PROVE  Later(v, votes[x]) <=> SQL!LaterThan(new, VRow(x, votes[x]))
  BY <1>0 DEF Later, SQL!LaterThan, Ballot
<1>3. VoteRows = {VRow(x, votes[x]) : x \in DOMAIN votes}
  BY DEF VoteRows
<1>4. VoteRows' = {VRow(x, votes'[x]) : x \in DOMAIN votes'}
  BY DEF VoteRows
<1>5. votes' = IF k \in DOMAIN votes /\ ~Later(v, votes[k]) THEN votes ELSE With(votes, k, v)
  BY DEF PutVote
<1>7. UNCHANGED <<ItemRows, stories, comments, TopicRows, ContRows, cursor>>
  BY DEF PutVote, TopicRows, ItemRows, ContRows
<1>8. SQL!PutVote(new) <=>
        /\ VoteRows' = IF \E w \in VoteRows : SQL!SameVote(new, w) /\ ~SQL!LaterThan(new, w)
                       THEN VoteRows
                       ELSE {w \in VoteRows : ~SQL!SameVote(new, w)} \cup {new}
        /\ UNCHANGED <<ItemRows, stories, comments, TopicRows, ContRows, cursor>>
  BY DEF SQL!PutVote
<1> HIDE DEF k, v, new, VRow
<1>9. (\E w \in VoteRows : SQL!SameVote(new, w) /\ ~SQL!LaterThan(new, w))
        <=> k \in DOMAIN votes /\ ~Later(v, votes[k])
  BY <1>1, <1>2, <1>3
<1>10. SQL!PutVote(new)
  <2>1. CASE k \in DOMAIN votes /\ ~Later(v, votes[k])
    BY <1>3, <1>4, <1>5, <1>7, <1>8, <1>9, <2>1
  <2>2. CASE ~(k \in DOMAIN votes /\ ~Later(v, votes[k]))
    <3>1. votes' = With(votes, k, v)
      BY <1>5, <2>2
    <3>2. /\ DOMAIN votes' = DOMAIN votes \cup {k} /\ votes'[k] = v
          /\ \A x \in DOMAIN votes : x # k => votes'[x] = votes[x]
      BY <3>1 DEF With
    <3>3. VoteRows' = {w \in VoteRows : ~SQL!SameVote(new, w)} \cup {new}
      BY <1>0, <1>1, <1>3, <1>4, <3>2
    <3> QED
      BY <1>7, <1>8, <1>9, <2>2, <3>3
  <2> QED
    BY <2>1, <2>2
<1> QED
  BY <1>10 DEF new

\* The row of a chunk.
ChunkRow(h, n, c) == [head |-> h, seq |-> n, id |-> c.id, height |-> c.height]

\* The rows that the slices of continuations stand for.
LEMMA ContRowsAre ==
  ASSUME NEW d
  PROVE  d \in ContRows <=> \E h \in DOMAIN conts : \E n \in DOMAIN conts[h] :
                              d = ChunkRow(h, n, conts[h][n])
BY DEF ContRows, ChunkRow

\* PutContinuation: the first one wins.
LEMMA PutContinuationMirrors ==
  ASSUME NEW r \in Rows, PutContinuation(r)
  PROVE  SQL!PutContinuation([head |-> Msg[r.id].ref, seq |-> Msg[r.id].seq, id |-> r.id,
                              height |-> r.height])
<1> DEFINE head == Msg[r.id].ref
           seq == Msg[r.id].seq
           c == [id |-> r.id, height |-> r.height]
           seqs == IF head \in DOMAIN conts THEN conts[head] ELSE Empty
           new == ChunkRow(head, seq, c)
           there == head \in DOMAIN conts /\ seq \in DOMAIN conts[head]
<1>1. conts' = With(conts, head, IF seq \in DOMAIN seqs THEN seqs ELSE With(seqs, seq, c))
  BY DEF PutContinuation
<1>2. seq \in DOMAIN seqs <=> there
  BY DEF Empty
<1>3. /\ DOMAIN conts' = DOMAIN conts \cup {head}
      /\ \A h \in DOMAIN conts : h # head => conts'[h] = conts[h]
      /\ conts'[head] = IF there THEN conts[head] ELSE With(seqs, seq, c)
  BY <1>1, <1>2 DEF With
<1>4. /\ DOMAIN With(seqs, seq, c) = DOMAIN seqs \cup {seq}
      /\ With(seqs, seq, c)[seq] = c
      /\ \A n \in DOMAIN seqs : n # seq => With(seqs, seq, c)[n] = seqs[n]
  BY DEF With
<1>5. head \notin DOMAIN conts => DOMAIN seqs = {}
  BY DEF Empty
<1>6. UNCHANGED <<ItemRows, stories, comments, VoteRows, TopicRows, cursor>>
  BY DEF PutContinuation, ItemRows, VoteRows, TopicRows
<1>7. SQL!PutContinuation(new) <=>
        /\ ContRows' = IF \E d \in ContRows : d.head = new.head /\ d.seq = new.seq
                       THEN ContRows
                       ELSE ContRows \cup {new}
        /\ UNCHANGED <<ItemRows, stories, comments, VoteRows, TopicRows, cursor>>
  BY DEF SQL!PutContinuation
<1>8. new.head = head /\ new.seq = seq
  BY DEF ChunkRow
<1>9. (\E d \in ContRows : d.head = head /\ d.seq = seq) <=> there
  <2>1. ASSUME there
        PROVE  \E d \in ContRows : d.head = head /\ d.seq = seq
    <3>1. ChunkRow(head, seq, conts[head][seq]) \in ContRows
      BY <2>1, ContRowsAre
    <3> QED
      BY <3>1 DEF ChunkRow
  <2>2. ASSUME NEW d \in ContRows, d.head = head, d.seq = seq
        PROVE  there
    BY <2>2, ContRowsAre DEF ChunkRow
  <2> QED
    BY <2>1, <2>2
<1>10. ASSUME NEW d
       PROVE  d \in ContRows' <=> \E h \in DOMAIN conts' : \E n \in DOMAIN conts'[h] :
                                    d = ChunkRow(h, n, conts'[h][n])
  BY DEF ContRows, ChunkRow
<1> HIDE DEF head, seq, c, seqs, new
<1>11. CASE there
  <2>1. DOMAIN conts' = DOMAIN conts /\ \A h \in DOMAIN conts : conts'[h] = conts[h]
    BY <1>3, <1>11
  <2>2. ContRows' = ContRows
    BY <1>10, <2>1, ContRowsAre
  <2> QED
    BY <1>6, <1>7, <1>8, <1>9, <1>11, <2>2 DEF new, head, seq, c, ChunkRow
<1>12. CASE ~there
  <2>1. conts'[head] = With(seqs, seq, c)
    BY <1>3, <1>12
  <2>2. seq \notin DOMAIN seqs
    BY <1>2, <1>12
  <2>3. head \in DOMAIN conts => seqs = conts[head]
    BY DEF seqs
  <2>4. ASSUME NEW d \in ContRows'
        PROVE  d \in ContRows \cup {new}
    <3>0. PICK h \in DOMAIN conts' : \E n \in DOMAIN conts'[h] : d = ChunkRow(h, n, conts'[h][n])
      BY <1>10, <2>4
    <3>1. PICK n \in DOMAIN conts'[h] : d = ChunkRow(h, n, conts'[h][n])
      BY <3>0
    <3>2. CASE h # head
      BY <1>3, <3>1, <3>2, ContRowsAre
    <3>3. CASE h = head /\ n = seq
      BY <1>4, <2>1, <3>1, <3>3 DEF new
    <3>4. CASE h = head /\ n # seq
      <4>1. n \in DOMAIN seqs /\ conts'[h][n] = seqs[n]
        BY <1>4, <2>1, <3>1, <3>4
      <4>2. head \in DOMAIN conts /\ conts[head][n] = seqs[n] /\ n \in DOMAIN conts[head]
        BY <1>5, <2>3, <4>1
      <4> QED
        BY <3>1, <3>4, <4>1, <4>2, ContRowsAre
    <3> QED
      BY <3>2, <3>3, <3>4
  <2>5. ASSUME NEW d \in ContRows
        PROVE  d \in ContRows'
    <3>0. PICK h \in DOMAIN conts : \E n \in DOMAIN conts[h] : d = ChunkRow(h, n, conts[h][n])
      BY ContRowsAre
    <3>1. PICK n \in DOMAIN conts[h] : d = ChunkRow(h, n, conts[h][n])
      BY <3>0
    <3>2. h \in DOMAIN conts' /\ n \in DOMAIN conts'[h] /\ conts'[h][n] = conts[h][n]
      BY <1>3, <1>4, <2>1, <2>2, <2>3
    <3> QED
      BY <1>10, <3>1, <3>2
  <2>6. new \in ContRows'
    <3>1. head \in DOMAIN conts' /\ seq \in DOMAIN conts'[head] /\ conts'[head][seq] = c
      BY <1>3, <1>4, <2>1
    <3> QED
      BY <1>10, <3>1 DEF new
  <2>7. ContRows' = ContRows \cup {new}
    BY <2>4, <2>5, <2>6
  <2> QED
    BY <1>6, <1>7, <1>8, <1>9, <1>12, <2>7 DEF new, head, seq, c, ChunkRow
<1> QED
  BY <1>11, <1>12

\* DeleteFromHeight: the transaction, but for its statement on the continuations.
LEMMA DeleteMirrorsRows ==
  ASSUME MemoryTypeOK, NEW h \in Heights, DeleteFromHeight(h)
  PROVE  /\ ItemRows' = {r \in ItemRows : r.height < h}
         /\ VoteRows' = {v \in VoteRows : v.height < h}
         /\ TopicRows' = {t \in TopicRows : t.height < h}
         /\ stories' = stories \ {r.id : r \in {x \in ItemRows : x.height >= h}}
         /\ comments' = comments \ {r.id : r \in {x \in ItemRows : x.height >= h}}
         /\ cursor' = cursor
<1> DEFINE gone == {id \in DOMAIN items : items[id].height >= h}
           sqlGone == {r.id : r \in {x \in ItemRows : x.height >= h}}
<1>0. /\ h \in Nat
      /\ \A id \in DOMAIN items : items[id].height \in Nat
      /\ \A t \in DOMAIN topics : topics[t].height \in Nat
      /\ \A k \in DOMAIN votes : votes[k].height \in Nat
  BY RowsAssumption DEF MemoryTypeOK, IsMap, Position, Creation, Ballot
<1>1. /\ items' = [id \in DOMAIN items \ gone |-> items[id]]
      /\ votes' = [k \in {x \in DOMAIN votes : votes[x].height < h} |-> votes[k]]
      /\ topics' = [t \in {x \in DOMAIN topics : topics[x].height < h} |-> topics[t]]
      /\ stories' = stories \ gone
      /\ comments' = comments \ gone
      /\ cursor' = cursor
  BY DEF DeleteFromHeight, Without, RestrictDomain, Restrict
<1>2. sqlGone = gone
  <2>1. ASSUME NEW id \in gone
        PROVE  id \in sqlGone
    <3> DEFINE q == [id |-> id, height |-> items[id].height, tx |-> items[id].tx,
                     vout |-> items[id].vout]
    <3>1. q \in ItemRows /\ q.height >= h /\ q.id = id
      BY DEF ItemRows
    <3> HIDE DEF q
    <3> QED BY <3>1
  <2>2. ASSUME NEW id \in sqlGone
        PROVE  id \in gone
    BY DEF ItemRows
  <2> QED
    BY <2>1, <2>2
<1>3. ItemRows' = {r \in ItemRows : r.height < h}
  BY <1>0, <1>1 DEF ItemRows
<1>4. VoteRows' = {v \in VoteRows : v.height < h}
  BY <1>0, <1>1 DEF VoteRows
<1>5. TopicRows' = {t \in TopicRows : t.height < h}
  BY <1>0, <1>1 DEF TopicRows
<1> QED
  BY <1>1, <1>2, <1>3, <1>4, <1>5

\* A rewind to height h takes a chunk if and only if it takes the item that the chunk
\* continues: a condition on the calls of the client, not on MemoryStore.
Together(h) ==
  \A head \in DOMAIN conts : \A n \in DOMAIN conts[head] :
    conts[head][n].height >= h <=> head \in DOMAIN items /\ items[head].height >= h

\* DeleteFromHeight: the transaction.
LEMMA DeleteMirrors ==
  ASSUME MemoryTypeOK, NEW h \in Heights, DeleteFromHeight(h), Together(h)
  PROVE  SQL!DeleteFromHeight(h)
<1> DEFINE gone == {id \in DOMAIN items : items[id].height >= h}
<1>0. /\ h \in Nat
      /\ \A id \in DOMAIN items : items[id].height \in Nat
      /\ \A x \in DOMAIN conts : \A n \in DOMAIN conts[x] : conts[x][n].height \in Nat
  BY RowsAssumption DEF MemoryTypeOK, IsMap, Position, Creation
<1>1. conts' = [x \in DOMAIN conts \ gone |-> conts[x]]
  BY DEF DeleteFromHeight, Without, Restrict
<1>2. ContRows' = {c \in ContRows : c.height < h}
  <2>1. ASSUME NEW d
        PROVE  d \in ContRows' <=> \E x \in DOMAIN conts' : \E n \in DOMAIN conts'[x] :
                                     d = ChunkRow(x, n, conts'[x][n])
    BY DEF ContRows, ChunkRow
  <2>2. ASSUME NEW x \in DOMAIN conts, NEW n \in DOMAIN conts[x]
        PROVE  conts[x][n].height < h <=> x \in DOMAIN conts'
    BY <1>0, <1>1 DEF Together
  <2>3. DOMAIN conts' \subseteq DOMAIN conts /\ \A x \in DOMAIN conts' : conts'[x] = conts[x]
    BY <1>1
  <2>4. \A x, n, c : ChunkRow(x, n, c).height = c.height
    BY DEF ChunkRow
  <2> QED
    BY <2>1, <2>2, <2>3, <2>4, ContRowsAre
<1> QED
  BY <1>2, DeleteMirrorsRows DEF SQL!DeleteFromHeight

\* SaveCursor.
LEMMA SaveCursorMirrors ==
  ASSUME NEW h \in Heights, NEW b \in Blocks, SaveCursor(h, b)
  PROVE  SQL!SaveCursor(h, b)
BY DEF SaveCursor, SQL!SaveCursor, SQL!tables, ItemRows, VoteRows, TopicRows, ContRows

-----------------------------------------------------------------------------
\* No rewind of the client separates a chunk from the item that it continues.
NoneSeparated == \A h \in Heights : DeleteFromHeight(h) => Together(h)

sqlvars == <<ItemRows, stories, comments, VoteRows, TopicRows, ContRows, cursor>>

\* Every call, on the tables read off the maps, is a call of the SQLite backend.
LEMMA StepMirrors ==
  ASSUME MemoryTypeOK, [Next]_mvars, [NoneSeparated]_mvars
  PROVE  [SQLCall]_sqlvars
<1>0. CASE UNCHANGED mvars
  BY <1>0 DEF mvars, sqlvars, ItemRows, VoteRows, TopicRows, ContRows
<1>1. ASSUME NEW r \in Rows, PutItem(r)
      PROVE  SQLCall
  BY <1>1, PutItemMirrors DEF SQLCall
<1>2. ASSUME NEW r \in Rows, InsertTopicIfAbsent(r)
      PROVE  SQLCall
  BY <1>2, InsertTopicMirrors DEF SQLCall
<1>3. ASSUME NEW r \in Rows, PutStory(r) \/ PutComment(r)
      PROVE  SQLCall
  BY <1>3, PutPayloadMirrors DEF SQLCall
<1>4. ASSUME NEW r \in Rows, PutVote(r)
      PROVE  SQLCall
  BY <1>4, PutVoteMirrors DEF SQLCall
<1>5. ASSUME NEW r \in Rows, PutContinuation(r)
      PROVE  SQLCall
  BY <1>5, PutContinuationMirrors DEF SQLCall
<1>6. ASSUME NEW h \in Heights, DeleteFromHeight(h), NoneSeparated
      PROVE  SQLCall
  BY <1>6, DeleteMirrors DEF SQLCall, NoneSeparated
<1>7. ASSUME NEW h \in Heights, NEW b \in Blocks, SaveCursor(h, b)
      PROVE  SQLCall
  BY <1>7, SaveCursorMirrors DEF SQLCall
<1> QED
  BY <1>0, <1>1, <1>2, <1>3, <1>4, <1>5, <1>6, <1>7 DEF Next, Payload

\* An empty memory store is an empty database.
LEMMA InitMirrors == NewMemory => SQL!StoreInit
BY DEF NewMemory, SQL!StoreInit, SQL!NoCursor, Empty, ItemRows, VoteRows, TopicRows, ContRows

\* The comment on MemoryStore, that it "mirrors the SQLite backend's semantics", holds for
\* every client whose rewinds take a chunk if and only if they take its head; only the
\* chunks need that condition.
THEOREM MemoryMirrors == Spec /\ [][NoneSeparated]_mvars => MirrorsSQLite
<1>1. NewMemory /\ [][Next]_mvars => []MemoryTypeOK
  BY InitMemoryTypes, NextMemoryTypes, PTL
<1>2. MemoryTypeOK /\ [Next]_mvars /\ [NoneSeparated]_mvars => [SQLCall]_sqlvars
  BY StepMirrors
<1>3. Spec /\ [][NoneSeparated]_mvars => SQL!StoreInit /\ [][SQLCall]_sqlvars
  BY <1>1, <1>2, InitMirrors, PTL DEF Spec
<1> QED
  BY <1>3 DEF MirrorsSQLite, sqlvars

-----------------------------------------------------------------------------
\* The maps without the continuations.

restvars == <<ItemRows, stories, comments, VoteRows, TopicRows, cursor>>

\* Every call, on the tables without the continuations, is a call of the SQLite backend.
LEMMA StepMirrorsRest ==
  ASSUME MemoryTypeOK, [Next]_mvars
  PROVE  [RestCall]_restvars
<1>0. CASE UNCHANGED mvars
  BY <1>0 DEF mvars, restvars, ItemRows, VoteRows, TopicRows
<1>1. ASSUME NEW r \in Rows, PutItem(r)
      PROVE  RestCall
  <2>1. Rest!PutItem(r)
    BY <1>1, PutItemMirrors DEF SQL!PutItem, SQL!ItemByID, Rest!PutItem, Rest!ItemByID
  <2> QED
    BY <2>1 DEF RestCall
<1>2. ASSUME NEW r \in Rows, InsertTopicIfAbsent(r)
      PROVE  RestCall
  <2> DEFINE t == [topic |-> Msg[r.id].topic, id |-> r.id, height |-> r.height]
  <2>1. SQL!InsertTopicIfAbsent(t)
    BY <1>2, InsertTopicMirrors
  <2> HIDE DEF t
  <2>2. Rest!InsertTopicIfAbsent(t)
    BY <2>1 DEF SQL!InsertTopicIfAbsent, Rest!InsertTopicIfAbsent
  <2> QED
    BY <2>2 DEF RestCall, t
<1>3. ASSUME NEW r \in Rows, PutStory(r) \/ PutComment(r)
      PROVE  RestCall
  <2>1. Rest!PutStory(r.id) \/ Rest!PutComment(r.id)
    BY <1>3, PutPayloadMirrors DEF SQL!PutStory, Rest!PutStory, SQL!PutComment, Rest!PutComment
  <2> QED
    BY <2>1 DEF RestCall
<1>4. ASSUME NEW r \in Rows, PutVote(r)
      PROVE  RestCall
  <2> DEFINE v == [target |-> Msg[r.id].ref, author |-> Msg[r.id].author,
                   up |-> Msg[r.id].up, height |-> r.height, tx |-> r.tx, vout |-> r.vout]
  <2>1. SQL!PutVote(v)
    BY <1>4, PutVoteMirrors
  <2> HIDE DEF v
  <2>2. Rest!PutVote(v)
    BY <2>1 DEF SQL!PutVote, SQL!SameVote, SQL!LaterThan, Rest!PutVote, Rest!SameVote, Rest!LaterThan
  <2> QED
    BY <2>2 DEF RestCall, v
<1>5. ASSUME NEW r \in Rows, PutContinuation(r)
      PROVE  UNCHANGED restvars
  BY <1>5 DEF PutContinuation, restvars, ItemRows, VoteRows, TopicRows
<1>6. ASSUME NEW h \in Heights, DeleteFromHeight(h)
      PROVE  RestCall
  <2>1. Rest!DeleteFromHeight(h)
    BY <1>6, DeleteMirrorsRows DEF Rest!DeleteFromHeight
  <2> QED
    BY <2>1 DEF RestCall
<1>7. ASSUME NEW h \in Heights, NEW b \in Blocks, SaveCursor(h, b)
      PROVE  RestCall
  <2>1. Rest!SaveCursor(h, b)
    BY <1>7 DEF SaveCursor, Rest!SaveCursor, Rest!tables, ItemRows, VoteRows, TopicRows
  <2> QED
    BY <2>1 DEF RestCall
<1> QED
  BY <1>0, <1>1, <1>2, <1>3, <1>4, <1>5, <1>6, <1>7 DEF Next, Payload

\* What the queries of MemoryStore read "mirrors the SQLite backend's semantics" for every
\* client and every sequence of puts and rewinds, whatever becomes of the continuations.
THEOREM MemoryMirrorsRest == Spec => MirrorsButChunks
<1>1. NewMemory /\ [][Next]_mvars => []MemoryTypeOK
  BY InitMemoryTypes, NextMemoryTypes, PTL
<1>2. MemoryTypeOK /\ [Next]_mvars => [RestCall]_restvars
  BY StepMirrorsRest
<1>3. NewMemory => Rest!StoreInit
  BY DEF NewMemory, Rest!StoreInit, Rest!NoCursor, Empty, ItemRows, VoteRows, TopicRows
<1>4. Spec => Rest!StoreInit /\ [][RestCall]_restvars
  BY <1>1, <1>2, <1>3, PTL DEF Spec
<1> QED
  BY <1>4 DEF MirrorsButChunks, restvars
=============================================================================
