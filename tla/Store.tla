-------------------------------- MODULE Store --------------------------------
(***************************************************************************)
(* The index kept by store.SQLiteStore: the tables of schema.sql and the   *)
(* write operations of the store.Store interface, one action each.  Every  *)
(* operation is one SQL statement, or (DeleteFromHeight) one transaction,  *)
(* so it happens in one step, and a crash leaves all of it or nothing.     *)
(*                                                                         *)
(* A row keeps its key and its position in the chain; the columns copied   *)
(* from the message are Msg[id].  A story and a comment have no position   *)
(* of their own: schema.sql gives them only the item_id.                   *)
(***************************************************************************)
EXTENDS Protocol

VARIABLES
  items,      \* cn_items: a row for every indexed outpoint
  stories,    \* cn_stories: the item ids it has a row for
  comments,   \* cn_comments: the item ids it has a row for
  votes,      \* cn_votes: at most one row for a target and an author
  topics,     \* cn_topics: at most one row for a topic
  conts,      \* cn_continuations: at most one row for a head and a sequence number
  cursor      \* cn_scanner_cursor: its row, or NoCursor

tables == <<items, stories, comments, votes, topics, conts>>

ItemRow == [id : Items, height : Nat, tx : Nat, vout : Nat]

VoteRow == [target : Items, author : Authors, up : BOOLEAN,
            height : Nat, tx : Nat, vout : Nat]

\* id is the outpoint that created the topic: it stands for the name, the retention
\* period and the txid of the row.
TopicRow == [topic : Topics, id : Items, height : Nat]

\* id is the outpoint of the continuation: it stands for the chunk.
ContRow == [head : Items, seq : Nat, id : Items, height : Nat]

Cursor == [height : Nat, hash : Blocks \cup {NoHash}]

NoCursor == [height |-> 0, hash |-> NoHash]

StoreInit ==
  /\ items = {}
  /\ stories = {}
  /\ comments = {}
  /\ votes = {}
  /\ topics = {}
  /\ conts = {}
  /\ cursor = NoCursor

\* Every table has the columns of its rows, and respects its PRIMARY KEY.
StoreTypeOK ==
  /\ items \subseteq ItemRow
  /\ \A r, s \in items : r.id = s.id => r = s
  /\ stories \subseteq Items
  /\ comments \subseteq Items
  /\ votes \subseteq VoteRow
  /\ \A v, w \in votes : v.target = w.target /\ v.author = w.author => v = w
  /\ topics \subseteq TopicRow
  /\ \A t, u \in topics : t.topic = u.topic => t = u
  /\ conts \subseteq ContRow
  /\ \A c, d \in conts : c.head = d.head /\ c.seq = d.seq => c = d
  /\ cursor \in Cursor

-----------------------------------------------------------------------------
\* Canonical order: by height, then by transaction, then by output.
LaterThan(r, s) ==
  \/ r.height > s.height
  \/ r.height = s.height /\ r.tx > s.tx
  \/ r.height = s.height /\ r.tx = s.tx /\ r.vout > s.vout

\* ItemByID, as exists uses it: is there a row with this id?
ItemByID(id) == \E r \in items : r.id = id

\* An existing row is kept as it is, whatever height it was recorded at.
PutItem(it) ==
  /\ items' = IF ItemByID(it.id) THEN items ELSE items \cup {it}
  /\ UNCHANGED <<stories, comments, votes, topics, conts, cursor>>

\* Faulty: INSERT OR REPLACE.
InsertTopicLastWins(t) ==
  /\ topics' = {u \in topics : u.topic # t.topic} \cup {t}
  /\ UNCHANGED <<items, stories, comments, votes, conts, cursor>>

InsertTopicIfAbsent(t) ==
  /\ topics' = IF \E u \in topics : u.topic = t.topic THEN topics ELSE topics \cup {t}
  /\ UNCHANGED <<items, stories, comments, votes, conts, cursor>>

PutStory(id) ==
  /\ stories' = stories \cup {id}
  /\ UNCHANGED <<items, comments, votes, topics, conts, cursor>>

PutComment(id) ==
  /\ comments' = comments \cup {id}
  /\ UNCHANGED <<items, stories, votes, topics, conts, cursor>>

SameVote(v, w) == v.target = w.target /\ v.author = w.author

\* Faulty: the WHERE compares only the heights.
PutVoteByHeight(v) ==
  /\ votes' = IF \E w \in votes : SameVote(v, w) /\ v.height <= w.height
              THEN votes
              ELSE {w \in votes : ~SameVote(v, w)} \cup {v}
  /\ UNCHANGED <<items, stories, comments, topics, conts, cursor>>

\* The upsert of cn_votes: a row that conflicts is replaced if v is later.
PutVote(v) ==
  /\ votes' = IF \E w \in votes : SameVote(v, w) /\ ~LaterThan(v, w)
              THEN votes
              ELSE {w \in votes : ~SameVote(v, w)} \cup {v}
  /\ UNCHANGED <<items, stories, comments, topics, conts, cursor>>

\* Faulty: no conflict clause, and no key that would refuse the row.
PutContinuationTwice(c) ==
  /\ conts' = conts \cup {c}
  /\ UNCHANGED <<items, stories, comments, votes, topics, cursor>>

PutContinuation(c) ==
  /\ conts' = IF \E d \in conts : d.head = c.head /\ d.seq = c.seq
              THEN conts
              ELSE conts \cup {c}
  /\ UNCHANGED <<items, stories, comments, votes, topics, cursor>>

\* Faulty: the votes stay.
DeleteKeepsVotes(h) ==
  LET gone == {r.id : r \in {x \in items : x.height >= h}}
  IN  /\ items' = {r \in items : r.height < h}
      /\ stories' = stories \ gone
      /\ comments' = comments \ gone
      /\ topics' = {t \in topics : t.height < h}
      /\ conts' = {c \in conts : c.height < h}
      /\ UNCHANGED <<votes, cursor>>

\* Faulty: the topics created at the height itself stay.
DeleteTopicsAbove(h) ==
  LET gone == {r.id : r \in {x \in items : x.height >= h}}
  IN  /\ items' = {r \in items : r.height < h}
      /\ stories' = stories \ gone
      /\ comments' = comments \ gone
      /\ votes' = {v \in votes : v.height < h}
      /\ topics' = {t \in topics : t.height <= h}
      /\ conts' = {c \in conts : c.height < h}
      /\ UNCHANGED cursor

\* Faulty: the stories and comments of the block below go too.
DeletePayloadsBelow(h) ==
  LET gone == {r.id : r \in {x \in items : x.height >= h - 1}}
  IN  /\ items' = {r \in items : r.height < h}
      /\ stories' = stories \ gone
      /\ comments' = comments \ gone
      /\ votes' = {v \in votes : v.height < h}
      /\ topics' = {t \in topics : t.height < h}
      /\ conts' = {c \in conts : c.height < h}
      /\ UNCHANGED cursor

\* Faulty: the comments stay.
DeleteKeepsComments(h) ==
  LET gone == {r.id : r \in {x \in items : x.height >= h}}
  IN  /\ items' = {r \in items : r.height < h}
      /\ stories' = stories \ gone
      /\ votes' = {v \in votes : v.height < h}
      /\ topics' = {t \in topics : t.height < h}
      /\ conts' = {c \in conts : c.height < h}
      /\ UNCHANGED <<comments, cursor>>

\* One transaction.  Stories and comments go by the height of their item; the others
\* by their own.  The cursor is not touched.
DeleteFromHeight(h) ==
  LET gone == {r.id : r \in {x \in items : x.height >= h}}
  IN  /\ items' = {r \in items : r.height < h}
      /\ stories' = stories \ gone
      /\ comments' = comments \ gone
      /\ votes' = {v \in votes : v.height < h}
      /\ topics' = {t \in topics : t.height < h}
      /\ conts' = {c \in conts : c.height < h}
      /\ UNCHANGED cursor

SaveCursor(h, b) ==
  /\ cursor' = [height |-> h, hash |-> b]
  /\ UNCHANGED tables
=============================================================================
