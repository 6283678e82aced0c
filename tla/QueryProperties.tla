-------------------------- MODULE QueryProperties --------------------------
(***************************************************************************)
(* What the queries of the SQLite backend show of the index that the       *)
(* scanner keeps.                                                          *)
(***************************************************************************)
EXTENDS ScannerProperties, Queries

\* Every block has a time.
ASSUME TimesAssumption == \A b \in Blocks : BlockTime[Height[b]] \in Nat

-----------------------------------------------------------------------------
\* Properties of a single statement, in every state that the scanner can leave the
\* tables in: within a block, within a rewind, after a crash.

\* Thread and persist: "referenced items must already exist".  No comment is lost to the
\* readers: its thread leads to an item that is no comment, and GET .../thread of that
\* item shows it.
CommentsReachable ==
  \A c \in comments : \E r \in items :
    /\ r.id \notin comments
    /\ \E d \in ToSet(Thread(r.id)) : d.id = c

\* CommentCount is counted without the join that Thread makes: the number on a story is
\* the number of answers to it that its thread shows.
CountsShown ==
  \A id \in stories : \A f \in GetItem(id) :
    LET thread == Thread(id)
    IN  f.comments = Cardinality({i \in DOMAIN thread : thread[i].parent = id})

-----------------------------------------------------------------------------
\* "The chain is the only source of truth".

\* The valid comments of the chain on a story.
ChainReplies(story) ==
  {r \in ChainRows : /\ Msg[r.id].kind = "comment" /\ Msg[r.id].sig
                     /\ Msg[r.id].ref = story.id
                     /\ LaterThan(r, story)}

\* A story of the feed, computed from the blocks.
ChainStory(r) ==
  LET cs == ChainReplies(r)
  IN  [id |-> r.id, comments |-> Cardinality(cs),
       author |-> IF cs = {} THEN ZeroKey
                  ELSE Msg[(CHOOSE c \in cs : \A d \in cs : ~LaterThan(c, d)).id].author]

\* Once the scanner has caught up, after any reorganisations, NewFeed has the stories of
\* the active chain newest first, each with its comments and its author.
FeedIsTheChain ==
  Settled /\ cursor.hash = tip /\ ~MidBlock =>
    LET rows == {r \in ChainRows : Msg[r.id].kind = "story"}
    IN  \A feed \in NewFeed(FeedQuery({}, {}, TRUE, 0, 0)) :
          /\ Len(feed) = Cardinality(rows)
          /\ \A i \in DOMAIN feed : \E r \in rows :
               /\ Cardinality({q \in rows : LaterThan(q, r)}) = i - 1
               /\ ChainStory(r) = [id |-> feed[i].id, comments |-> feed[i].comments,
                                   author |-> feed[i].author]
=============================================================================
