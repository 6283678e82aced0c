------------------------------ MODULE Follower ------------------------------
(***************************************************************************)
(* What the index promises, without Run, cursors, rewinds and rows written *)
(* one by one: at every moment it is the index that a fresh scan of some   *)
(* chain would produce, and it moves from chain to chain block by block.   *)
(*                                                                         *)
(* Votes are left out: a rewind does not bring back the vote that a later  *)
(* one had replaced (see VotesComplete).                                   *)
(***************************************************************************)
EXTENDS Protocol, SequencesExt

CONSTANTS Height, Path, Outs, StartHeight   \* as in Node and Scanner

VARIABLES
  head,    \* the last block that is indexed, or NoHash
  index    \* the tables

Nothing == [items |-> {}, topics |-> {}, stories |-> {}, comments |-> {}, conts |-> {}]

\* The index after one more output: the rules of the protocol.
Index(x, r) ==
  LET m == Msg[r.id]
      refused == m.kind = "none" \/ (m.kind \in SignedKinds
                                     /\ ~(m.sig /\ \E p \in x.items : p.id = m.ref))
      topic == [topic |-> m.topic, id |-> r.id, height |-> r.height]
      chunk == [head |-> m.ref, seq |-> m.seq, id |-> r.id, height |-> r.height]
      first == CASE m.kind = "topic" -> \A t \in x.topics : t.topic # m.topic
                 [] m.kind = "cont"  -> \A c \in x.conts : c.head # m.ref \/ c.seq # m.seq
                 [] OTHER -> FALSE
      Add(set, e, cond) == IF cond THEN set \cup {e} ELSE set
  IN  IF refused THEN x
      ELSE [items    |-> x.items \cup {r},
            stories  |-> Add(x.stories, r.id, m.kind = "story"),
            comments |-> Add(x.comments, r.id, m.kind = "comment"),
            topics   |-> Add(x.topics, topic, m.kind = "topic" /\ first),
            conts    |-> Add(x.conts, chunk, m.kind = "cont" /\ first)]

\* The index x after the outputs of block c.
IndexBlock(x, c) ==
  FoldLeft(Index, x, [i \in DOMAIN Outs[c] |->
                        [id |-> Outs[c][i].id, height |-> Height[c],
                         tx |-> Outs[c][i].tx, vout |-> Outs[c][i].vout]])

\* The index of a fresh scan of the chain that ends in b.
Fresh(b) ==
  IF b = NoHash THEN Nothing
  ELSE FoldLeft(IndexBlock, Nothing,
                [n \in 1 .. Height[b] - StartHeight + 1 |-> Path[b][StartHeight + n - 1]])

Init == head = NoHash /\ index = Nothing

\* The next block of the chain, or the first one.
Extend ==
  \E b \in Blocks :
    /\ head' = b
    /\ IF head = NoHash THEN Height[b] = StartHeight
       ELSE Height[b] = Height[head] + 1 /\ Path[b][Height[head]] = head
    /\ index' = Fresh(b)

\* Back to an earlier block, or to the beginning.
Retreat ==
  /\ head # NoHash
  /\ head' \in {NoHash} \cup {Path[head][h] : h \in StartHeight .. Height[head] - 1}
  /\ index' = Fresh(head')

Next == Extend \/ Retreat

Spec == Init /\ [][Next]_<<head, index>>
=============================================================================
