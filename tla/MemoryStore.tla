---------------------------- MODULE MemoryStore ----------------------------
(***************************************************************************)
(* store.MemoryStore: the in-memory backend, its maps and its writes.  A   *)
(* method holds the mutex from its first line to its last, so it is one    *)
(* step.  The client calls the methods as persist does, the item before    *)
(* its payload, but in any order otherwise: blocks are replayed, and       *)
(* rewinds come at any moment.                                             *)
(*                                                                         *)
(* The comment on MemoryStore says that it "mirrors the SQLite backend's   *)
(* semantics": module Store, with its tables read off the maps, is the     *)
(* abstract specification.                                                 *)
(***************************************************************************)
EXTENDS Protocol, Functions

CONSTANTS
  Rows,      \* the rows that the client puts: outputs at positions of some chain
  Heights    \* the heights it rewinds to or saves

VARIABLES
  items,      \* id -> position
  byOut,      \* the outpoints with an entry; an outpoint is written as the id it hashes to
  topics,     \* topic -> the creation that is kept
  stories,    \* the ids that have an entry
  comments,   \* the ids that have an entry
  votes,      \* <<target, author>> -> vote
  conts,      \* head -> sequence number -> chunk
  cursor      \* cursorH and cursorHs

mvars == <<items, byOut, topics, stories, comments, votes, conts, cursor>>

ASSUME RowsAssumption ==
  /\ \A r \in Rows : /\ r.id \in Items /\ r.height \in Nat /\ r.tx \in Nat /\ r.vout \in Nat
                     /\ r = [id |-> r.id, height |-> r.height, tx |-> r.tx, vout |-> r.vout]
  /\ Heights \subseteq Nat
  /\ NoHash \notin Blocks

\* A map with one more entry.
With(f, k, v) == [x \in DOMAIN f \cup {k} |-> IF x = k THEN v ELSE f[x]]

\* A map without some of its keys.
Without(f, gone) == Restrict(f, DOMAIN f \ gone)

Empty == [x \in {} |-> x]

\* NewMemory
NewMemory ==
  /\ items = Empty
  /\ byOut = {}
  /\ topics = Empty
  /\ stories = {}
  /\ comments = {}
  /\ votes = Empty
  /\ conts = Empty
  /\ cursor = [height |-> 0, hash |-> NoHash]

-----------------------------------------------------------------------------
Pos(r) == [height |-> r.height, tx |-> r.tx, vout |-> r.vout]

PutItem(r) ==
  /\ IF r.id \in DOMAIN items
     THEN UNCHANGED <<items, byOut>>
     ELSE /\ items' = With(items, r.id, Pos(r))
          /\ byOut' = byOut \cup {r.id}
  /\ UNCHANGED <<topics, stories, comments, votes, conts, cursor>>

InsertTopicIfAbsent(r) ==
  /\ topics' = IF Msg[r.id].topic \in DOMAIN topics
               THEN topics
               ELSE With(topics, Msg[r.id].topic, [id |-> r.id, height |-> r.height])
  /\ UNCHANGED <<items, byOut, stories, comments, votes, conts, cursor>>

PutStory(r) ==
  /\ stories' = stories \cup {r.id}
  /\ UNCHANGED <<items, byOut, topics, comments, votes, conts, cursor>>

PutComment(r) ==
  /\ comments' = comments \cup {r.id}
  /\ UNCHANGED <<items, byOut, topics, stories, votes, conts, cursor>>

\* laterThan: a comes after b in scan order.
Later(a, b) ==
  IF a.height # b.height THEN a.height > b.height
  ELSE IF a.tx # b.tx THEN a.tx > b.tx
  ELSE a.vout > b.vout

PutVote(r) ==
  LET k == <<Msg[r.id].ref, Msg[r.id].author>>
      v == [up |-> Msg[r.id].up, height |-> r.height, tx |-> r.tx, vout |-> r.vout]
  IN  /\ votes' = IF k \in DOMAIN votes /\ ~Later(v, votes[k]) THEN votes ELSE With(votes, k, v)
      /\ UNCHANGED <<items, byOut, topics, stories, comments, conts, cursor>>

PutContinuation(r) ==
  LET head == Msg[r.id].ref
      seqs == IF head \in DOMAIN conts THEN conts[head] ELSE Empty
  IN  /\ conts' = With(conts, head,
                       IF Msg[r.id].seq \in DOMAIN seqs THEN seqs
                       ELSE With(seqs, Msg[r.id].seq, [id |-> r.id, height |-> r.height]))
      /\ UNCHANGED <<items, byOut, topics, stories, comments, votes, cursor>>

\* Faulty: the stories and comments of deleted items stay.
DeleteOnlyItems(h) ==
  LET gone == {id \in DOMAIN items : items[id].height >= h}
  IN  /\ items' = Without(items, gone)
      /\ byOut' = byOut \ gone
      /\ votes' = RestrictDomain(votes, LAMBDA k : votes[k].height < h)
      /\ topics' = RestrictDomain(topics, LAMBDA t : topics[t].height < h)
      /\ UNCHANGED <<stories, comments, conts, cursor>>

\* Continuations go with the item that they continue, whatever their own height.
DeleteFromHeight(h) ==
  LET gone == {id \in DOMAIN items : items[id].height >= h}
  IN  /\ items' = Without(items, gone)
      /\ byOut' = byOut \ gone
      /\ stories' = stories \ gone
      /\ comments' = comments \ gone
      /\ conts' = Without(conts, gone)
      /\ votes' = RestrictDomain(votes, LAMBDA k : votes[k].height < h)
      /\ topics' = RestrictDomain(topics, LAMBDA t : topics[t].height < h)
      /\ UNCHANGED cursor

SaveCursor(h, b) ==
  /\ cursor' = [height |-> h, hash |-> b]
  /\ UNCHANGED <<items, byOut, topics, stories, comments, votes, conts>>

-----------------------------------------------------------------------------
\* persist: the payload goes in after its item.
Payload(kind) == {r \in Rows : r.id \in DOMAIN items /\ Msg[r.id].kind = kind}

Next ==
  \/ \E r \in Rows : Msg[r.id].kind # "none" /\ PutItem(r)
  \/ \E r \in Payload("topic") : InsertTopicIfAbsent(r)
  \/ \E r \in Payload("story") : PutStory(r)
  \/ \E r \in Payload("comment") : PutComment(r)
  \/ \E r \in Payload("vote") : PutVote(r)
  \/ \E r \in Payload("cont") : PutContinuation(r)
  \/ \E h \in Heights : DeleteFromHeight(h)
  \/ \E h \in Heights, b \in Blocks : SaveCursor(h, b)

Spec == NewMemory /\ [][Next]_mvars

-----------------------------------------------------------------------------
\* The tables of schema.sql, read off the maps.
ItemRows == {[id |-> id, height |-> items[id].height, tx |-> items[id].tx,
              vout |-> items[id].vout] : id \in DOMAIN items}

TopicRows == {[topic |-> t, id |-> topics[t].id, height |-> topics[t].height] :
                t \in DOMAIN topics}

VoteRows == {[target |-> k[1], author |-> k[2], up |-> votes[k].up, height |-> votes[k].height,
              tx |-> votes[k].tx, vout |-> votes[k].vout] : k \in DOMAIN votes}

ContRows == UNION {{[head |-> h, seq |-> n, id |-> conts[h][n].id, height |-> conts[h][n].height] :
                      n \in DOMAIN conts[h]} : h \in DOMAIN conts}

SQL == INSTANCE Store WITH items <- ItemRows, topics <- TopicRows, votes <- VoteRows,
                           conts <- ContRows

\* The writes of the SQLite backend, by the same client.
SQLCall ==
  \/ \E r \in Rows :
       \/ SQL!PutItem(r)
       \/ SQL!InsertTopicIfAbsent([topic |-> Msg[r.id].topic, id |-> r.id, height |-> r.height])
       \/ SQL!PutStory(r.id)
       \/ SQL!PutComment(r.id)
       \/ SQL!PutVote([target |-> Msg[r.id].ref, author |-> Msg[r.id].author,
                       up |-> Msg[r.id].up, height |-> r.height, tx |-> r.tx, vout |-> r.vout])
       \/ SQL!PutContinuation([head |-> Msg[r.id].ref, seq |-> Msg[r.id].seq, id |-> r.id,
                               height |-> r.height])
  \/ \E h \in Heights : SQL!DeleteFromHeight(h)
  \/ \E h \in Heights, b \in Blocks : SQL!SaveCursor(h, b)

\* MemoryStore "mirrors the SQLite backend's semantics (first-topic-wins, latest-vote-wins,
\* reorg rewind)": every call changes the maps as it would change the tables.
MirrorsSQLite ==
  SQL!StoreInit /\ [][SQLCall]_<<ItemRows, stories, comments, VoteRows, TopicRows, ContRows, cursor>>

-----------------------------------------------------------------------------
\* The same tables, and none for the continuations.
Rest == INSTANCE Store WITH items <- ItemRows, topics <- TopicRows, votes <- VoteRows,
                            conts <- {}

RestCall ==
  \/ \E r \in Rows :
       \/ Rest!PutItem(r)
       \/ Rest!InsertTopicIfAbsent([topic |-> Msg[r.id].topic, id |-> r.id, height |-> r.height])
       \/ Rest!PutStory(r.id)
       \/ Rest!PutComment(r.id)
       \/ Rest!PutVote([target |-> Msg[r.id].ref, author |-> Msg[r.id].author,
                        up |-> Msg[r.id].up, height |-> r.height, tx |-> r.tx, vout |-> r.vout])
  \/ \E h \in Heights : Rest!DeleteFromHeight(h)
  \/ \E h \in Heights, b \in Blocks : Rest!SaveCursor(h, b)

\* All that the queries read is mirrored, for every client and every rewind: the maps
\* without the continuations change as the tables would, also when a payload, a vote or a
\* topic is at another height than on the branch that was rewound.
MirrorsButChunks ==
  Rest!StoreInit /\ [][RestCall]_<<ItemRows, stories, comments, VoteRows, TopicRows, cursor>>
=============================================================================
