--------------------------- MODULE ScannerFollows ---------------------------
(***************************************************************************)
(* The scanner implements Follower, as long as the chain is reorganised    *)
(* within ReorgDepth and no block or rewind is left half done.             *)
(***************************************************************************)
EXTENDS ScannerProperties

\* The tables without the block that is being indexed.
Below(rows) == {r \in rows : IndexedHead # NoHash /\ r.height <= Height[IndexedHead]}
BelowIds(ids) == {id \in ids : \E r \in Below(items) : r.id = id}

F == INSTANCE Follower WITH
       head <- IndexedHead,
       index <- [items |-> Below(items), topics |-> Below(topics), conts |-> Below(conts),
                 stories |-> BelowIds(stories), comments |-> BelowIds(comments)]

\* README: "The chain is the only source of truth".  Rewinds and replays included, every
\* step of the scanner takes the index of one chain to the index of a chain that is one
\* block longer, or shorter, or leaves it as it is.
FollowsTheChain == F!Spec
=============================================================================
