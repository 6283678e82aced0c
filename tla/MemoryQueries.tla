--------------------------- MODULE MemoryQueries ---------------------------
(***************************************************************************)
(* The read methods of store.MemoryStore, compared with those of the       *)
(* SQLite backend (module Queries) on the same contents.  A range over a   *)
(* map visits the entries in an order that differs from call to call.      *)
(***************************************************************************)
EXTENDS MemoryStore, SequencesExt, FiniteSetsExt

CONSTANTS
  ZeroTopic, ZeroKey, Nsfw, Subtype, BlockTime, Now, Decay,   \* see module Queries
  IdRank      \* IdRank[id]: where id.String() is among the ids

SQLite == INSTANCE Queries WITH items <- ItemRows, topics <- TopicRows, votes <- VoteRows,
                                conts <- ContRows

-----------------------------------------------------------------------------
ItemByOutpoint(id) == {[id |-> i] @@ items[i] : i \in byOut \cap {id}}

\* tally: a loop over the votes, +1 or -1 for those on the target.
Tally(target) ==
  MapThenSumSet(LAMBDA k : IF k[1] # target THEN 0 ELSE IF votes[k].up THEN 1 ELSE -1,
                DOMAIN votes)

CommentCount(parent) == Cardinality({c \in comments : Msg[c].ref = parent})

ItemBefore(a, b) == Later(b, a)

\* Faulty: the loop keeps the last one.
FirstCommentAuthorLast(parent) ==
  LET Keep(c, best) == IF best = {} \/ \E b \in best : Later(items[c], items[b]) THEN {c} ELSE best
      first == FoldSet(Keep, {}, {c \in comments : Msg[c].ref = parent})
  IN  IF first = {} THEN ZeroKey ELSE Msg[CHOOSE c \in first : TRUE].author

\* firstCommentAuthor: a loop over the comments that keeps the best one so far; the key
\* stays zero when there is none.
FirstCommentAuthor(parent) ==
  LET Keep(c, best) == IF best = {} \/ \E b \in best : ItemBefore(items[c], items[b])
                       THEN {c} ELSE best
      first == FoldSet(Keep, {}, {c \in comments : Msg[c].ref = parent})
  IN  IF first = {} THEN ZeroKey ELSE Msg[CHOOSE c \in first : TRUE].author

FeedItem(id) ==
  [id |-> id, height |-> items[id].height, tx |-> items[id].tx, vout |-> items[id].vout,
   topic |-> Msg[id].topic, subtype |-> Subtype[id], nsfw |-> id \in Nsfw,
   author |-> FirstCommentAuthor(id), points |-> Tally(id), comments |-> CommentCount(id),
   score |-> SQLite!RankScore(Tally(id), items[id].height)]

BuildFeed == SetToSeqs({FeedItem(id) : id \in stories \cap DOMAIN items})

FilteredFeed(q) ==
  {SelectSeq(s, LAMBDA f : ~ \/ q.topic # {} /\ f.topic \notin q.topic
                             \/ q.subtype # {} /\ f.subtype \notin q.subtype
                             \/ ~q.nsfw /\ f.nsfw) : s \in BuildFeed}

FrontPage(q) == {SQLite!Page(SQLite!SortByScore(s), q.limit, q.offset) : s \in FilteredFeed(q)}

NewFeed(q) == {SQLite!Page(SQLite!SortByNewest(s), q.limit, q.offset) : s \in FilteredFeed(q)}

ByTopic(topic, limit, offset) == NewFeed(SQLite!FeedQuery({topic}, {}, TRUE, limit, offset))

GetItem(id) == {FeedItem(s) : s \in stories \cap {id}}

ItemsByAuthor(author, limit, offset) ==
  {SQLite!Page(SQLite!SortByNewest(SelectSeq(s, LAMBDA f : f.author = author)), limit, offset) :
     s \in BuildFeed}

ThreadComment(c) ==
  [id |-> c, parent |-> Msg[c].ref, author |-> Msg[c].author, height |-> items[c].height,
   tx |-> items[c].tx, vout |-> items[c].vout, points |-> Tally(c),
   score |-> SQLite!RankScore(Tally(c), items[c].height)]

\* Faulty: one pass over the comments.
WantOnce(root) == {root} \cup {c \in comments : Msg[c].ref = root}

\* The loop of Thread: passes over the comments until one finds nothing new.
Want(root) ==
  LET want[n \in 0 .. Cardinality(comments)] ==
        IF n = 0 THEN {root}
        ELSE want[n - 1] \cup {c \in comments : Msg[c].ref \in want[n - 1]}
  IN  want[Cardinality(comments)]

\* sortThreadCanonical: by height, then by the string of the id.
SortThread(S) ==
  SetToSortSeq(S, LAMBDA c, d : \/ c.height < d.height
                                \/ c.height = d.height /\ IdRank[c.id] < IdRank[d.id])

Thread(root) == SortThread({ThreadComment(c) : c \in (comments \cap Want(root)) \ {root}})

ByAuthor(author, limit, offset) ==
  SQLite!Page(Reverse(SortThread({ThreadComment(c) : c \in {d \in comments : Msg[d].author = author}})),
              limit, offset)

\* The result sorted by creation height, here without an order.
ListTopics ==
  {[topic |-> t, id |-> topics[t].id, height |-> topics[t].height,
    count |-> Cardinality({s \in stories : Msg[s].topic = t})] : t \in DOMAIN topics \ {ZeroTopic}}

-----------------------------------------------------------------------------
\* Every filter on the whole feed, and a page of the unfiltered one.
Queried ==
  {SQLite!FeedQuery(t, s, n, 0, 0) : t \in {{}, {ZeroTopic}}, s \in {{}, {1}}, n \in BOOLEAN}
    \cup {SQLite!FeedQuery({}, {}, TRUE, 1, 1)}

\* "The Store interface lets callers swap the SQLite backend for the in-memory backend":
\* each feed, item, author's story list, thread and topic list has the same answers, the
\* sets of the comments being compared where the backends order them differently.
SameAnswers ==
  /\ \A q \in Queried : /\ FrontPage(q) = SQLite!FrontPage(q)
                        /\ NewFeed(q) = SQLite!NewFeed(q)
  /\ \A t \in Topics : ByTopic(t, 1, 1) = SQLite!ByTopic(t, 1, 1)
  /\ \A id \in Items : /\ GetItem(id) = SQLite!GetItem(id)
                       /\ ItemByOutpoint(id) = SQLite!ItemByOutpoint(id)
                       /\ ToSet(Thread(id)) = ToSet(SQLite!Thread(id))
  /\ \A a \in Authors \cup {ZeroKey} :
       /\ ItemsByAuthor(a, 1, 0) = SQLite!ItemsByAuthor(a, 1, 0)
       /\ ToSet(ByAuthor(a, 0, 0)) = ToSet(SQLite!ByAuthor(a, 0, 0))
  /\ \A list \in SQLite!TopicList(SQLite!TopicRows, SQLite!StoryCounts) : ListTopics = ToSet(list)
=============================================================================
