------------------------------- MODULE Reader -------------------------------
(***************************************************************************)
(* The API reading the index while the scanner writes it, as in cmdRun.    *)
(*                                                                         *)
(* A request reads the tables in one statement, except GET /v1/topics,     *)
(* which makes two.  A client that walks a feed makes one request for a    *)
(* page.  Between two statements the scanner, the node and the failures    *)
(* take any of their steps.                                                *)
(***************************************************************************)
EXTENDS QueryProperties

CONSTANT PageSize   \* the limit parameter of the client that walks /v1/new

ASSUME ReaderAssumption == PageSize \in Nat \ {0}

VARIABLES
  req,      \* what is going on: see Reqs
  base,     \* the tables as the first statement found them
  clean,    \* nothing was deleted since then
  at,       \* the walk: the offset of its next request
  seen,     \* the walk: the stories it was shown
  answer    \* the last answer of /v1/topics

Reqs == {"idle", "topics", "listed", "walk", "walked"}

rvars == <<req, base, at, seen, answer>>
allvars == <<vars, rvars, clean>>

Snapshot == [rows |-> TopicRows, counts |-> StoryCounts, ids |-> stories]

ReaderInit ==
  /\ req = "idle"
  /\ base = Snapshot
  /\ clean = TRUE
  /\ at = 0
  /\ seen = {}
  /\ answer = <<>>

\* handleTopics, the first query of ListTopics.
BeginTopics ==
  /\ req = "idle"
  /\ req' = "topics"
  /\ base' = Snapshot
  /\ clean' = TRUE
  /\ UNCHANGED <<vars, at, seen, answer>>

\* Faulty: the counts are queried first.
TopicsAnswerCountsFirst == TopicList(TopicRows, base.counts)

\* The second query, and the result.
TopicsAnswer == TopicList(base.rows, StoryCounts)

EndTopics ==
  /\ req = "topics"
  /\ req' = "listed"
  /\ answer' \in TopicsAnswer
  /\ UNCHANGED <<vars, base, clean, at, seen>>

\* A client starts to walk /v1/new?nsfw=1&limit=PageSize ...
BeginWalk ==
  /\ req = "idle"
  /\ req' = "walk"
  /\ base' = Snapshot
  /\ clean' = TRUE
  /\ UNCHANGED <<vars, at, seen, answer>>

\* ... and asks for one page after the other (handleNewFeed), until one is empty.
WalkPage ==
  /\ req = "walk"
  /\ \E page \in NewFeed(FeedQuery({}, {}, TRUE, PageSize, at)) :
       /\ req' = IF page = <<>> THEN "walked" ELSE "walk"
       /\ seen' = seen \cup {f.id : f \in ToSet(page)}
  /\ at' = at + PageSize
  /\ UNCHANGED <<vars, base, clean, answer>>

Finish ==
  /\ req \in {"listed", "walked"}
  /\ req' = "idle"
  /\ base' = Snapshot
  /\ clean' = TRUE
  /\ at' = 0
  /\ seen' = {}
  /\ answer' = <<>>
  /\ UNCHANGED vars

ReaderStep == BeginTopics \/ EndTopics \/ BeginWalk \/ WalkPage \/ Finish

\* A step of the scanner or of its environment.  base follows the tables while there is
\* no request.
WriterStep ==
  /\ Next
  /\ base' = IF req = "idle" THEN Snapshot' ELSE base
  /\ clean' = (req = "idle" \/ (clean /\ stories \subseteq stories' /\ items \subseteq items'))
  /\ UNCHANGED <<req, at, seen, answer>>

ReaderSpec == Init /\ ReaderInit /\ [][WriterStep \/ ReaderStep]_allvars

-----------------------------------------------------------------------------
\* Properties of requests that take several statements.

\* NewFeed: however many blocks are indexed while a client walks the pages, it misses no
\* story that was there when it began, unless rows were deleted meanwhile.
NoStorySkipped == req = "walked" /\ clean => base.ids \subseteq seen

ItemOf(id) == CHOOSE r \in items : r.id = id

\* ListTopics without a transaction: if no rewind came between its two queries, the count
\* of a listed topic includes all the stories that precede its creation in the chain.
CountsCoverTopic ==
  req = "listed" /\ clean =>
    \A t \in ToSet(answer) :
      /\ ItemByID(t.id)
      /\ t.count >= Cardinality({id \in stories : /\ Msg[id].topic = t.topic
                                                  /\ LaterThan(ItemOf(t.id), ItemOf(id))})
=============================================================================
