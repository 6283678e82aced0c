------------------------------ MODULE Queries ------------------------------
(***************************************************************************)
(* The read methods of store.SQLiteStore, and the ranking, sorting and     *)
(* paging of store.go that both backends share.                            *)
(*                                                                         *)
(* Every method but ListTopics is one SQL statement, so it reads one state *)
(* of the tables.  A SELECT without ORDER BY gives its rows in an order    *)
(* that the database chooses: the methods that sort afterwards, in Go, are *)
(* given as the set of the answers that they may return.  Texts are left   *)
(* out; a pointer that may be nil is a set of at most one element.         *)
(***************************************************************************)
EXTENDS Store, SequencesExt, FiniteSetsExt

CONSTANTS
  ZeroTopic,  \* the reserved topic 00000000
  ZeroKey,    \* the key of 32 zero bytes; no author has it
  Nsfw,       \* the ids of the stories that carry an nsfw TLV
  Subtype,    \* Subtype[id]: the subtype of a story, one byte
  BlockTime,  \* BlockTime[h]: the time of the block at height h, in hours
  Now,        \* the clock of the request, in hours
  Decay       \* Decay[a]: what a point is worth at an age of a hours

ASSUME QueriesAssumption ==
  /\ ZeroTopic \in Topics
  /\ ZeroKey \notin Authors
  /\ Nsfw \subseteq Items
  /\ \A id \in Items : Subtype[id] \in 0 .. 255
  /\ Now \in Nat
  /\ \A a \in 0 .. Now : Decay[a] \in Nat
  /\ \A a \in 1 .. Now : 0 < Decay[a] /\ Decay[a] < Decay[a - 1]
-----------------------------------------------------------------------------
\* A stable sort, as sort.SliceStable: equal elements keep their order.
StableSort(s, Less(_, _)) ==
  LET Before(i, j) == Less(s[i], s[j]) \/ (~Less(s[j], s[i]) /\ i < j)
      rank == [i \in DOMAIN s |-> 1 + Cardinality({j \in DOMAIN s : Before(j, i)})]
  IN  [k \in DOMAIN s |-> s[CHOOSE i \in DOMAIN s : rank[i] = k]]

\* points / (age + 2)^1.8, with an age of at least zero.
RankScore(points, h) ==
  points * Decay[IF Now > BlockTime[h] THEN Now - BlockTime[h] ELSE 0]

SortByScore(s) ==
  StableSort(s, LAMBDA f, g : f.score > g.score \/ (f.score = g.score /\ f.height > g.height))

\* Faulty: the output index is not compared.
SortByNewestTx(s) ==
  StableSort(s, LAMBDA f, g : LaterThan([f EXCEPT !.vout = 0], [g EXCEPT !.vout = 0]))

SortByNewest(s) == StableSort(s, LaterThan)

\* Faulty: the rows that are skipped count towards the limit.
PageToLimit(s, limit, offset) ==
  LET from == Max({offset, 0})
  IN  SubSeq(s, from + 1, IF limit > 0 THEN Min({limit, Len(s)}) ELSE Len(s))

\* page: from an offset on, at most limit elements, or all when the limit is not positive.
Page(s, limit, offset) ==
  LET from == Max({offset, 0})
  IN  SubSeq(s, from + 1, IF limit > 0 THEN Min({from + limit, Len(s)}) ELSE Len(s))

-----------------------------------------------------------------------------
\* feedSelect and commentSelect.

\* JOIN cn_items i ON i.item_id = ...: the item rows of the payload rows with these ids.
Joined(ids) == {r \in items : r.id \in ids}

\* An outpoint is written as the id that it hashes to.
ItemByOutpoint(id) == {r \in items : r.id = id}

Points(id) ==
  Cardinality({v \in votes : v.target = id /\ v.up})
    - Cardinality({v \in votes : v.target = id /\ ~v.up})

Replies(id) == {c \in comments : Msg[c].ref = id}

CommentCount(id) == Cardinality(Replies(id))

\* Faulty: ORDER BY ... DESC.
LatestAuthor(id) ==
  LET rows == {r \in items : r.id \in Replies(id)}
  IN  IF rows = {}
      THEN ZeroKey
      ELSE Msg[(CHOOSE r \in rows : \A s \in rows : ~LaterThan(s, r)).id].author

\* The author of the earliest direct comment; a NULL leaves the key zero.
FirstCommentAuthor(id) ==
  LET rows == {r \in items : r.id \in Replies(id)}
  IN  IF rows = {}
      THEN ZeroKey
      ELSE Msg[(CHOOSE r \in rows : \A s \in rows : ~LaterThan(r, s)).id].author

\* The columns of a story, and of a comment, for the item row r that it is joined with.
FeedItem(r) ==
  [id |-> r.id, height |-> r.height, tx |-> r.tx, vout |-> r.vout,
   topic |-> Msg[r.id].topic, subtype |-> Subtype[r.id], nsfw |-> r.id \in Nsfw,
   author |-> FirstCommentAuthor(r.id), points |-> Points(r.id),
   comments |-> CommentCount(r.id), score |-> RankScore(Points(r.id), r.height)]

ThreadComment(r) ==
  [id |-> r.id, parent |-> Msg[r.id].ref, author |-> Msg[r.id].author,
   height |-> r.height, tx |-> r.tx, vout |-> r.vout,
   points |-> Points(r.id), score |-> RankScore(Points(r.id), r.height)]

\* queryFeed: a row for each story and item row that join, in any order.
QueryFeed(ids) == SetToSeqs({FeedItem(r) : r \in Joined(stories \cap ids)})

\* A FeedQuery: topic and subtype are pointers.
FeedQuery(topic, subtype, nsfw, limit, offset) ==
  [topic |-> topic, subtype |-> subtype, nsfw |-> nsfw, limit |-> limit, offset |-> offset]

\* buildFilter
Filter(q) == {id \in stories : /\ q.topic # {} => Msg[id].topic \in q.topic
                               /\ q.subtype # {} => Subtype[id] \in q.subtype
                               /\ q.nsfw \/ id \notin Nsfw}

-----------------------------------------------------------------------------
\* The methods of the Store interface that read.

FrontPage(q) == {Page(SortByScore(s), q.limit, q.offset) : s \in QueryFeed(Filter(q))}

NewFeed(q) == {Page(SortByNewest(s), q.limit, q.offset) : s \in QueryFeed(Filter(q))}

ByTopic(topic, limit, offset) == NewFeed(FeedQuery({topic}, {}, TRUE, limit, offset))

\* The rows of the whole feed that have this author are kept in the order that they came
\* in, which may be any.
ItemsByAuthor(author, limit, offset) ==
  {Page(SortByNewest(s), limit, offset) :
     s \in QueryFeed({id \in stories : FirstCommentAuthor(id) = author})}

\* The rows with this id, of which the first is taken: cn_items has an id once.
GetItem(id) == {FeedItem(r) : r \in Joined(stories \cap {id})}

\* Faulty: the walk ends with the answers to the root.
ThreadIdsDirect(root) == Replies(root)

\* WITH RECURSIVE thread: the comments whose parent chain leads back to the root.
ThreadIds(root) ==
  LET walk[n \in 0 .. Cardinality(comments)] ==
        IF n = 0 THEN Replies(root)
        ELSE walk[n - 1] \cup UNION {Replies(c) : c \in walk[n - 1]}
  IN  walk[Cardinality(comments)]

Thread(root) ==
  StableSort(SetToSeq({ThreadComment(r) : r \in Joined(ThreadIds(root))}),
             LAMBDA c, d : LaterThan(d, c))

\* The LIMIT clause, and the OFFSET with it, is there only when the limit is positive.
ByAuthor(author, limit, offset) ==
  LET all == StableSort(SetToSeq({ThreadComment(r) : r \in
                                   Joined({c \in comments : Msg[c].author = author})}),
                        LaterThan)
  IN  IF limit > 0 THEN Page(all, limit, offset) ELSE all

\* ListTopics makes two queries.  The first one:
TopicRows == {t \in topics : t.topic # ZeroTopic}

\* the second one:
StoryCounts == [t \in Topics |-> Cardinality({id \in stories : Msg[id].topic = t})]

\* and what it may return for the results of the two.  sortTopics leaves topics of the same
\* height in the order of the first, which may be any.
TopicList(rows, counts) ==
  {StableSort(s, LAMBDA t, u : t.height < u.height) :
     s \in SetToSeqs({[topic |-> t.topic, id |-> t.id, height |-> t.height,
                       count |-> counts[t.topic]] : t \in rows})}
=============================================================================
