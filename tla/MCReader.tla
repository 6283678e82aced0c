------------------------------ MODULE MCReader ------------------------------
(***************************************************************************)
(* A chain with one fork of up to two blocks, and a feed of two to four    *)
(* stories.                                                                *)
(*                                                                         *)
(*      g --- a1 --- a2                                                    *)
(*       \                                                                 *)
(*        b1 --- b2                                                        *)
(***************************************************************************)
EXTENDS ApiProperties

MCBlocks == {"g", "a1", "a2", "b1", "b2"}
MCHeight == [g |-> 0, a1 |-> 1, a2 |-> 2, b1 |-> 1, b2 |-> 2]
MCPath == LET To(b, c) == [h \in 0 .. MCHeight[b] |-> CASE h = 0 -> "g" [] h = 1 -> c [] h = 2 -> b]
          IN  [g |-> To("g", "g"), a1 |-> To("a1", "a1"), a2 |-> To("a2", "a1"),
               b1 |-> To("b1", "b1"), b2 |-> To("b2", "b1")]

At(id, tx, vout) == [id |-> id, tx |-> tx, vout |-> vout]

M(kind, ref, author) == [kind |-> kind, sig |-> TRUE, ref |-> ref, author |-> author,
                         up |-> TRUE, topic |-> "T", seq |-> 0]

MCMsg == [s1 |-> M("story", "s1", "x"), s2 |-> M("story", "s1", "x"),
          s3 |-> M("story", "s1", "x"),
          t |-> M("topic", "s1", "x"),
          u |-> [M("topic", "s1", "x") EXCEPT !.topic = "U"],
          z |-> [M("topic", "s1", "x") EXCEPT !.topic = "0"],
          f |-> [M("comment", "s1", "y") EXCEPT !.sig = FALSE],
          c |-> M("comment", "s1", "x"),        \* x answers s1,
          d |-> M("comment", "s1", "y"),        \* y answers s1,
          e |-> M("comment", "c", "y"),         \* y answers x
          v |-> [M("vote", "s2", "y") EXCEPT !.up = FALSE]]

MCOuts == [g  |-> <<At("s1", 0, 0), At("s2", 0, 1)>>,
           a1 |-> <<At("f", 0, 0), At("c", 0, 1), At("t", 1, 0), At("u", 1, 1)>>,
           a2 |-> <<At("e", 0, 0), At("s3", 0, 1), At("d", 1, 0)>>,
           b1 |-> <<At("d", 0, 0), At("c", 0, 1), At("s3", 1, 0)>>,
           b2 |-> <<At("t", 0, 0), At("v", 0, 1), At("z", 1, 0)>>]

\* 5 is the last subtype that has a name, and 7 has none.
MCSubtype == [id \in DOMAIN MCMsg |-> CASE id = "s2" -> 7 [] id = "s3" -> 5 [] OTHER -> 0]
MCBlockTime == [h \in 0 .. 2 |-> h]
MCDecay == [a \in 0 .. 3 |-> 4 - a]

\* A limit above every list, and those around the default.
MCPageNumbers == {0, 1, 2, 4}
=============================================================================
