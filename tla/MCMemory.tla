------------------------------ MODULE MCMemory ------------------------------
(***************************************************************************)
(* A vote may be put at height 1 or 2, as on two branches of a chain;      *)
(* rewinds go to either height.                                            *)
(***************************************************************************)
EXTENDS MemoryQueries

M(kind, ref, author) == [kind |-> kind, sig |-> TRUE, ref |-> ref, author |-> author,
                         up |-> TRUE, topic |-> "T", seq |-> 0]

MCMsg == [s |-> M("story", "s", "x"),
          c |-> M("comment", "s", "x"),
          d |-> M("comment", "c", "y"),
          e |-> M("comment", "s", "y"),
          t |-> M("topic", "s", "x"),
          u |-> M("vote", "s", "x"),
          w |-> [M("vote", "s", "x") EXCEPT !.up = FALSE],
          k |-> M("cont", "s", "x"),
          r |-> [M("story", "s", "x") EXCEPT !.topic = "0"]]

MCTx == [s |-> 0, r |-> 0, t |-> 1, c |-> 1, d |-> 3, e |-> 2, u |-> 1, w |-> 2,
         k |-> 1]
MCVout == [id \in DOMAIN MCMsg |-> IF id = "r" THEN 1 ELSE 0]
MCRows == {[id |-> id, height |-> h, tx |-> MCTx[id], vout |-> MCVout[id]] :
             id \in Items, h \in {1, 2}}
\* Height 1 or 2 for a vote, and one height for the others: a comment that is later than
\* another on the same story, and a chunk one block above the story that it continues.
MCFewRows == {r \in MCRows : \/ r.height = (IF r.id \in {"s", "e", "w"} THEN 1 ELSE 2)
                             \/ r.id = "u"}
MCMsgs == [id \in Items |-> MCMsg[id]]
MCSubtype == [id \in Items |-> IF id = "r" THEN 1 ELSE 0]
MCIdRank == [id \in Items |-> -MCTx[id]]   \* the ids are in the opposite order
MCBlockTime == [h \in 0 .. 2 |-> h]
MCDecay == [a \in 0 .. 3 |-> 4 - a]
=============================================================================
