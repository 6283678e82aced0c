------------------------------ MODULE MCScanner ------------------------------
(***************************************************************************)
(* A small chain for TLC: two branches from the first block on, forks of   *)
(* one, two and three blocks.                                              *)
(*                                                                         *)
(*      g --- a1 --- a2 --- a3 --- a4                                      *)
(*       \      \       \      \                                           *)
(*        \      \       c3     e4                                         *)
(*         \      b2 --- b3 --- b4                                         *)
(*          d1 -- d2 --- d3                                                *)
(***************************************************************************)
EXTENDS ScannerFollows

MCParent == [a1 |-> "g", d1 |-> "g", a2 |-> "a1", b2 |-> "a1", d2 |-> "d1",
             a3 |-> "a2", c3 |-> "a2", b3 |-> "b2", d3 |-> "d2",
             a4 |-> "a3", e4 |-> "a3", b4 |-> "b3"]
MCBlocks == {"g"} \cup DOMAIN MCParent
MCHeight == [g |-> 0, a1 |-> 1, d1 |-> 1, a2 |-> 2, b2 |-> 2, d2 |-> 2, a3 |-> 3, c3 |-> 3,
             b3 |-> 3, d3 |-> 3, a4 |-> 4, e4 |-> 4, b4 |-> 4]
MCPath ==
  LET path[b \in MCBlocks] ==
        IF b = "g" THEN [h \in {0} |-> "g"]
        ELSE [h \in 0 .. MCHeight[b] |-> IF h = MCHeight[b] THEN b ELSE path[MCParent[b]][h]]
  IN  path

\* The output with this id, in transaction tx of its block at index vout.
At(id, tx, vout) == [id |-> id, tx |-> tx, vout |-> vout]

M(kind, ref) == [kind |-> kind, sig |-> TRUE, ref |-> ref, author |-> "x", up |-> TRUE,
                 topic |-> "T", seq |-> 0]

MCMsg == [t |-> M("topic", "t"),                     \* creates topic T
          t2 |-> M("topic", "t"),                    \* creates it again
          s |-> M("story", "s"),
          u |-> M("vote", "s"),                      \* x's upvote for the story,
          d |-> [M("vote", "s") EXCEPT !.up = FALSE],  \* the downvote x changes it to,
          w |-> M("vote", "s"),                      \* and x's second upvote
          c |-> M("comment", "s"),                   \* answers the story
          e |-> M("comment", "c"),                   \* answers c
          f |-> [M("comment", "s") EXCEPT !.sig = FALSE],
          k |-> M("cont", "s"),                      \* a chunk of the story
          k2 |-> M("cont", "s"),                     \* the same chunk again
          n |-> M("none", "s"),
          p |-> M("comment", "q"),                   \* answers q, in the same block
          q |-> M("comment", "s")]
MCItems == DOMAIN MCMsg

MCOuts == [g  |-> <<At("s", 1, 0), At("u", 1, 1)>>,
           a1 |-> <<At("k", 0, 0), At("c", 1, 0), At("t", 2, 0)>>,
           d1 |-> <<At("n", 0, 0), At("c", 0, 1), At("t2", 1, 0)>>,
           a2 |-> <<At("d", 0, 0), At("w", 0, 1)>>,
           b2 |-> <<At("e", 0, 0), At("k2", 1, 0)>>,
           d2 |-> <<At("d", 0, 0), At("k2", 1, 0)>>,
           a3 |-> <<At("e", 1, 0), At("t2", 2, 0)>>,
           c3 |-> <<At("e", 0, 0)>>,
           b3 |-> <<At("d", 0, 0), At("f", 1, 0)>>,
           d3 |-> <<At("w", 0, 0)>>,
           a4 |-> <<At("k2", 0, 0), At("f", 1, 0)>>,
           e4 |-> <<At("f", 0, 0), At("k2", 1, 0)>>,
           b4 |-> <<At("w", 0, 0), At("t2", 1, 0)>>]

\* The same, but in a2 an answer comes before the comment it answers, and a1 and d1 are
\* shorter, for fewer states.
MCForwardOuts == [MCOuts EXCEPT !["a1"] = <<At("k", 0, 0), At("c", 1, 0)>>,
                                !["d1"] = <<At("c", 0, 1), At("t2", 1, 0)>>,
                                !["a2"] = <<At("p", 0, 0), At("q", 1, 0)>>]

\* The chain without its forks: the node only ever adds blocks.
MCLine == {"g", "a1", "a2", "a3", "a4"}
MCLineHeight == [b \in MCLine |-> MCHeight[b]]
MCLinePath == [b \in MCLine |-> MCPath[b]]
MCLineOuts == [b \in MCLine |-> MCOuts[b]]
=============================================================================
