--------------------------- MODULE FollowsProofs ---------------------------
(***************************************************************************)
(* The scanner implements Follower, in the environments of IndexProofs.    *)
(*                                                                         *)
(* The tables that the inductive invariant describes are computed by the   *)
(* folds of Follower, output by output and block by block: so the index is *)
(* the one of a fresh scan, and it is enough to look at how the block that *)
(* it stands for changes.                                                  *)
(***************************************************************************)
EXTENDS IndexProofs, ScannerFollows

-----------------------------------------------------------------------------
\* FoldLeft, for the two operators that Follower folds.

Step(each, x, e) == IF each = "block" THEN F!IndexBlock(x, e) ELSE F!Index(x, e)

IsFold(each, g, n, x, s) ==
  g = [d \in SUBSET (1 .. n) |->
         IF d = {} THEN x ELSE Step(each, g[d \ {F!Max(d)}], s[F!Max(d)])]

\* The function inside FoldLeft, as it is written there.
IsIndexFold(g, n, x, s) ==
  g = [d \in SUBSET (1 .. n) |->
         IF d = {} THEN x ELSE F!Index(g[d \ {F!Max(d)}], s[F!Max(d)])]

IsBlockFold(g, n, x, s) ==
  g = [d \in SUBSET (1 .. n) |->
         IF d = {} THEN x ELSE F!IndexBlock(g[d \ {F!Max(d)}], s[F!Max(d)])]

\* The greatest element of a set of positions.
LEMMA MaxIs ==
  \A n \in Nat : \A d \in SUBSET (1 .. n) :
    d # {} => F!Max(d) \in d /\ \A y \in d : F!Max(d) >= y
<1> DEFINE S == {n \in Nat : \A d \in SUBSET (1 .. n) :
                   d # {} => \E x \in d : \A y \in d : x >= y}
<1>1. 0 \in S
  <2>1. 1 .. 0 = {}
    OBVIOUS
  <2> QED
    BY <2>1
<1>2. ASSUME NEW n \in Nat, n \in S
      PROVE  n + 1 \in S
  <2> SUFFICES ASSUME NEW d \in SUBSET (1 .. n + 1), d # {}
               PROVE  \E x \in d : \A y \in d : x >= y
    OBVIOUS
  <2>1. CASE n + 1 \in d
    BY <2>1
  <2>2. CASE n + 1 \notin d
    <3>1. d \in SUBSET (1 .. n)
      BY <2>2
    <3> QED
      BY <1>2, <3>1
  <2> QED
    BY <2>1, <2>2
<1>3. \A n \in Nat : n \in S
  <2> HIDE DEF S
  <2> QED
    BY <1>1, <1>2, SetInduction
<1> QED
  BY <1>3 DEF F!Max

\* What is left without the greatest element.
LEMMA WithoutMax ==
  ASSUME NEW n \in Nat, NEW d \in SUBSET (1 .. n + 1), d # {}
  PROVE  F!Max(d) \in 1 .. n + 1 /\ d \ {F!Max(d)} \in SUBSET (1 .. n)
<1>1. n + 1 \in Nat
  OBVIOUS
<1>2. F!Max(d) \in d /\ \A y \in d : F!Max(d) >= y
  BY <1>1, MaxIs
<1> DEFINE m == F!Max(d)
<1> HIDE DEF m
<1>3. m \in d /\ \A y \in d : m >= y
  BY <1>2 DEF m
<1>4. \A y \in d \ {m} : y \in 1 .. n
  BY <1>3
<1> QED
  BY <1>3, <1>4 DEF m

\* The greatest of the first positions.
LEMMA MaxOfFirst ==
  ASSUME NEW n \in Nat
  PROVE  F!Max(1 .. n + 1) = n + 1 /\ (1 .. n + 1) \ {n + 1} = 1 .. n
<1>1. n + 1 \in Nat /\ 1 .. n + 1 \in SUBSET (1 .. n + 1) /\ 1 .. n + 1 # {} /\ n + 1 \in 1 .. n + 1
  OBVIOUS
<1>2. F!Max(1 .. n + 1) \in 1 .. n + 1 /\ F!Max(1 .. n + 1) >= n + 1
  BY <1>1, MaxIs
<1> QED
  BY <1>2

\* The function inside FoldLeft exists.
LEMMA FoldExists ==
  ASSUME NEW each, NEW x, NEW s
  PROVE  \A n \in Nat : \E g : IsFold(each, g, n, x, s)
<1> DEFINE Val(g, d) == IF d = {} THEN x ELSE Step(each, g[d \ {F!Max(d)}], s[F!Max(d)])
           S == {n \in Nat : \E g : IsFold(each, g, n, x, s)}
<1>1. 0 \in S
  <2> DEFINE e == [d \in SUBSET (1 .. 0) |-> x]
  <2>1. \A d \in SUBSET (1 .. 0) : d = {}
    OBVIOUS
  <2>2. e = [d \in SUBSET (1 .. 0) |-> Val(e, d)]
    BY <2>1
  <2> HIDE DEF e
  <2>3. IsFold(each, e, 0, x, s)
    BY <2>2 DEF IsFold
  <2> QED
    BY <2>3
<1>2. ASSUME NEW n \in Nat, n \in S
      PROVE  n + 1 \in S
  <2>1. PICK f : IsFold(each, f, n, x, s)
    BY <1>2
  <2> DEFINE g == [d \in SUBSET (1 .. n + 1) |-> Val(f, d)]
  <2>2. \A d \in SUBSET (1 .. n) : f[d] = Val(f, d) /\ d \in SUBSET (1 .. n + 1)
    <3>1. f = [d \in SUBSET (1 .. n) |-> Val(f, d)]
      BY <2>1 DEF IsFold
    <3>2. \A d \in SUBSET (1 .. n) : f[d] = Val(f, d)
      <4> DEFINE k == [d \in SUBSET (1 .. n) |-> Val(f, d)]
      <4>1. \A d \in SUBSET (1 .. n) : k[d] = Val(f, d)
        OBVIOUS
      <4> QED
        BY <3>1, <4>1
    <3>3. \A d \in SUBSET (1 .. n) : d \in SUBSET (1 .. n + 1)
      OBVIOUS
    <3> QED
      BY <3>2, <3>3
  <2>3. \A d \in SUBSET (1 .. n) : g[d] = f[d]
    BY <2>2
  <2>4. ASSUME NEW d \in SUBSET (1 .. n + 1)
        PROVE  g[d] = Val(g, d)
    <3>1. CASE d = {}
      BY <3>1
    <3>2. CASE d # {}
      <4> DEFINE r == d \ {F!Max(d)}
      <4>1. r \in SUBSET (1 .. n)
        BY <3>2, WithoutMax
      <4>2. g[r] = f[r]
        BY <2>3, <4>1
      <4>3. g[d] = Val(f, d)
        OBVIOUS
      <4> HIDE DEF g
      <4> QED
        BY <3>2, <4>2, <4>3
    <3> QED
      BY <3>1, <3>2
  <2>5. g = [d \in SUBSET (1 .. n + 1) |-> g[d]]
    OBVIOUS
  <2> HIDE DEF g
  <2>6. g = [d \in SUBSET (1 .. n + 1) |-> Val(g, d)]
    BY <2>4, <2>5
  <2>7. IsFold(each, g, n + 1, x, s)
    BY <2>6 DEF IsFold
  <2> QED
    BY <2>7
<1>3. \A n \in Nat : n \in S
  <2> HIDE DEF S
  <2> QED
    BY <1>1, <1>2, SetInduction
<1> QED
  BY <1>3

\* Its values at the first positions are those of the loop.
IsLoop(each, h, n, x, s) ==
  /\ h[0] = x
  /\ \A i \in 0 .. n - 1 : h[i + 1] = Step(each, h[i], s[i + 1])

LEMMA FoldLoop ==
  ASSUME NEW each, NEW x, NEW s, NEW n \in Nat, NEW g, IsFold(each, g, n, x, s)
  PROVE  \E h : IsLoop(each, h, n, x, s) /\ h[n] = g[1 .. n]
<1> DEFINE h == [i \in 0 .. n |-> g[1 .. i]]
<1>1. h[0] = x
  <2>1. 1 .. 0 = {} /\ {} \in SUBSET (1 .. n)
    OBVIOUS
  <2>2. g[{}] = x
    BY <2>1 DEF IsFold
  <2> QED
    BY <2>1, <2>2
<1>2. ASSUME NEW i \in 0 .. n - 1
      PROVE  h[i + 1] = Step(each, h[i], s[i + 1])
  <2> DEFINE d == 1 .. i + 1
  <2>1. d \in SUBSET (1 .. n) /\ d # {} /\ i \in Nat
    OBVIOUS
  <2>2. F!Max(d) = i + 1 /\ d \ {i + 1} = 1 .. i
    BY <2>1, MaxOfFirst
  <2> HIDE DEF d
  <2>3. g[d] = Step(each, g[d \ {F!Max(d)}], s[F!Max(d)])
    BY <2>1 DEF IsFold
  <2>4. h[i + 1] = g[d] /\ h[i] = g[1 .. i]
    BY DEF d
  <2> QED
    BY ONLY <2>2, <2>3, <2>4
<1>3. h[n] = g[1 .. n]
  OBVIOUS
<1> HIDE DEF h
<1>4. IsLoop(each, h, n, x, s)
  BY <1>1, <1>2 DEF IsLoop
<1> QED
  BY <1>3, <1>4

\* FoldLeft is the loop over the outputs ...
LEMMA IndexLoop ==
  ASSUME NEW x, NEW s, NEW n \in Nat, DOMAIN s = 1 .. n
  PROVE  \E h : IsLoop("output", h, n, x, s) /\ F!FoldLeft(F!Index, x, s) = h[n]
<1> DEFINE g == CHOOSE f : IsIndexFold(f, n, x, s)
           v == F!FoldLeft(F!Index, x, s)
<1>1. v = g[1 .. n]
  BY DEF F!FoldLeft, F!MapThenFoldSet, IsIndexFold
<1>2. \A f : IsFold("output", f, n, x, s) <=> IsIndexFold(f, n, x, s)
  BY DEF IsFold, IsIndexFold, Step
<1>3. IsFold("output", g, n, x, s)
  <2>1. \E f : IsIndexFold(f, n, x, s)
    BY <1>2, FoldExists
  <2> QED
    BY <1>2, <2>1
<1> HIDE DEF g, v
<1>4. \E h : IsLoop("output", h, n, x, s) /\ v = h[n]
  BY <1>1, <1>3, FoldLoop
<1> QED
  BY <1>4 DEF v

\* ... and the one over the blocks.
LEMMA BlockLoop ==
  ASSUME NEW x, NEW s, NEW n \in Nat, DOMAIN s = 1 .. n
  PROVE  \E h : IsLoop("block", h, n, x, s) /\ F!FoldLeft(F!IndexBlock, x, s) = h[n]
<1> DEFINE g == CHOOSE f : IsBlockFold(f, n, x, s)
           v == F!FoldLeft(F!IndexBlock, x, s)
<1>1. v = g[1 .. n]
  BY DEF F!FoldLeft, F!MapThenFoldSet, IsBlockFold
<1>2. \A f : IsFold("block", f, n, x, s) <=> IsBlockFold(f, n, x, s)
  BY DEF IsFold, IsBlockFold, Step
<1>3. IsFold("block", g, n, x, s)
  <2>1. \E f : IsBlockFold(f, n, x, s)
    BY <1>2, FoldExists
  <2> QED
    BY <1>2, <2>1
<1> HIDE DEF g, v
<1>4. \E h : IsLoop("block", h, n, x, s) /\ v = h[n]
  BY <1>1, <1>3, FoldLoop
<1> QED
  BY <1>4 DEF v

-----------------------------------------------------------------------------
\* The index of the items R: what each table has of them.
View(R) ==
  [items    |-> R,
   topics   |-> {t \in topics : \E r \in R : Msg[r.id].kind = "topic" /\ t = TopicOf(r)},
   stories  |-> {id \in stories : \E r \in R : r.id = id},
   comments |-> {id \in comments : \E r \in R : r.id = id},
   conts    |-> {c \in conts : \E r \in R : Msg[r.id].kind = "cont" /\ c = ContOf(r)}]

\* The tables stand for a block from the start height on, or for none.
LEMMA HeadIs ==
  ASSUME IInv, IndexedHead # NoHash
  PROVE  /\ IndexedHead \in Blocks /\ Height[IndexedHead] \in Nat
         /\ Height[IndexedHead] >= StartHeight
<1>1. /\ StartHeight \in Nat /\ next \in Nat /\ cursor.height \in Nat
      /\ cursor # NoCursor =>
           /\ cursor.hash \in Blocks /\ Height[cursor.hash] = cursor.height
           /\ cursor.height >= StartHeight
      /\ cursor = NoCursor => cursor.hash = NoHash
      /\ pc \in {"anchor", "reanchor"} =>
           cursor # NoCursor /\ StartHeight < next /\ next <= cursor.height
  BY Types
<1>2. CASE ~Rewinding
  BY <1>1, <1>2 DEF IndexedHead
<1>3. CASE Rewinding
  <2>1. pc \in {"anchor", "reanchor"} /\ IndexedHead = Path[cursor.hash][next - 1]
    BY <1>3 DEF IndexedHead
  <2>2. cursor.hash \in Blocks /\ next - 1 \in 0 .. Height[cursor.hash] /\ next - 1 >= StartHeight
    BY <1>1, <2>1
  <2> QED
    BY <2>1, <2>2, OnPath
<1> QED
  BY <1>2, <1>3

\* An item up to the height of that block is an output of its chain.
LEMMA OnHead ==
  ASSUME IInv, IndexInv, IndexedHead # NoHash, NEW r \in items, r.height <= Height[IndexedHead]
  PROVE  OnChain(IndexedHead, r)
<1>1. IndexedHead \in Blocks /\ Height[IndexedHead] \in Nat
  BY HeadIs
<1>2. Done(r) \/ Writing(r) \/ LeftOver(r)
  BY DEF IndexInv, Source
<1>3. ASSUME pc \in {"item", "payload"}, NEW i \in DOMAIN Outs[hash], r = RowOf(hash, i)
      PROVE  FALSE
  <2>1. Looping /\ hash \in Blocks /\ Height[hash] = next
    BY <1>3, Types DEF Looping
  <2>2. next = Height[IndexedHead] + 1
    BY <2>1, HeadInLoop
  <2>3. r.height = next
    BY <1>3, <2>1, RowTypes
  <2> QED
    BY <1>1, <2>2, <2>3
<1>4. CASE LeftOver(r)
  <2>1. r.height = ScanHeight
    BY <1>4, RowTypes DEF LeftOver
  <2> QED
    BY <1>1, <2>1 DEF ScanHeight
<1>5. CASE Writing(r)
  <2>1. pc = "payload" /\ r = RowOf(hash, idx)
    BY <1>5 DEF Writing, row
  <2>2. idx \in DOMAIN Outs[hash]
    BY <2>1, AtBlock DEF IInv, TypeOK
  <2> QED
    BY <1>3, <2>1, <2>2
<1>6. CASE Done(r)
  <2> SUFFICES ASSUME MidBlock, NEW i \in 1 .. idx - 1, r = RowOf(hash, i)
               PROVE  FALSE
    BY <1>6 DEF Done
  <2>1. pc \in {"item", "payload"}
    BY DEF MidBlock
  <2>2. i \in DOMAIN Outs[hash]
    BY <2>1, AtBlock
  <2> QED
    BY <1>3, <2>1, <2>2
<1> QED
  BY <1>2, <1>4, <1>5, <1>6

\* The outputs that come before q on the chain of the block, and are indexed.
Before(q) == {r \in items : OnChain(IndexedHead, r) /\ LaterThan(q, r)}

\* What IndexInv says of an output of that chain.
LEMMA OutputFacts ==
  ASSUME IInv, IndexInv, IndexedHead # NoHash, NEW q, OnChain(IndexedHead, q)
  PROVE  /\ q \in ItemRow /\ Msg[q.id] \in Message
         /\ q \in items <=> Counts(q)
         /\ \A p \in items : LaterThan(q, p) <=> p \in Before(q)
         /\ \A p \in items : ~LaterThan(p, q) => p = q \/ p \in Before(q)
         /\ q \notin Before(q)
         /\ \A p \in Before(q) : p.id # q.id
         /\ Done(q)
<1>1. /\ IndexedHead \in Blocks /\ Height[IndexedHead] \in Nat
      /\ q \in AllRows /\ q \in ItemRow /\ q.height <= Height[IndexedHead]
      /\ Done(q)
  BY HeadIs, OneRow DEF OnChain, Done
<1>2. Msg[q.id] \in Message
  BY <1>1, MsgAssumption DEF ItemRow
<1>3. q \in items <=> Counts(q)
  BY <1>1 DEF IndexInv, Tables, Rules, Complete
<1>4. \A p \in items : p \in ItemRow
  BY DEF IInv, TypeOK, StoreTypeOK
<1>5. ASSUME NEW p \in items, ~LaterThan(p, q)
      PROVE  OnChain(IndexedHead, p) /\ (p = q \/ LaterThan(q, p))
  <2>1. p.height \in Nat /\ q.height \in Nat
    BY <1>1, <1>4 DEF ItemRow
  <2>2. p.height <= q.height
    BY <1>5, <2>1 DEF LaterThan
  <2>3. OnChain(IndexedHead, p)
    BY <1>1, <2>1, <2>2, OnHead
  <2> QED
    BY <1>1, <1>5, <2>3, OneRow
<1>6. \A p \in items : LaterThan(q, p) => ~LaterThan(p, q)
  BY <1>1, <1>4, Order
<1>7. ~LaterThan(q, q)
  BY <1>1, Order
<1>8. \A p \in items : LaterThan(q, p) <=> p \in Before(q)
  BY <1>5, <1>6 DEF Before
<1>9. ASSUME NEW p \in Before(q)
      PROVE  p.id # q.id
  <2>1. OnChain(IndexedHead, p) /\ LaterThan(q, p)
    BY DEF Before
  <2> QED
    BY <1>1, <1>7, <2>1, OneRow
<1> QED
  BY <1>1, <1>2, <1>3, <1>5, <1>7, <1>8, <1>9 DEF Before

\* What Follower does with an output that the rules accept.
Accepted(x, r) ==
  LET m == Msg[r.id]
  IN  [items    |-> x.items \cup {r},
       stories  |-> IF m.kind = "story" THEN x.stories \cup {r.id} ELSE x.stories,
       comments |-> IF m.kind = "comment" THEN x.comments \cup {r.id} ELSE x.comments,
       topics   |-> IF m.kind = "topic" /\ \A t \in x.topics : t.topic # m.topic
                    THEN x.topics \cup {TopicOf(r)} ELSE x.topics,
       conts    |-> IF m.kind = "cont" /\ \A c \in x.conts : c.head # m.ref \/ c.seq # m.seq
                    THEN x.conts \cup {ContOf(r)} ELSE x.conts]

Refused(x, r) ==
  LET m == Msg[r.id]
  IN  m.kind = "none" \/ (m.kind \in SignedKinds /\ ~(m.sig /\ \E p \in x.items : p.id = m.ref))

\* Index, without its abbreviations.
LEMMA IndexIs ==
  ASSUME NEW x, NEW r
  PROVE  F!Index(x, r) = IF Refused(x, r) THEN x ELSE Accepted(x, r)
<1> DEFINE m == Msg[r.id]
<1>1. CASE m.kind = "topic"
  BY <1>1 DEF F!Index, Refused, Accepted, TopicOf, ContOf, F!SignedKinds, SignedKinds
<1>2. CASE m.kind = "cont"
  BY <1>2 DEF F!Index, Refused, Accepted, TopicOf, ContOf, F!SignedKinds, SignedKinds
<1>3. CASE m.kind \notin {"topic", "cont"}
  BY <1>3 DEF F!Index, Refused, Accepted, TopicOf, ContOf, F!SignedKinds, SignedKinds
<1> QED
  BY <1>1, <1>2, <1>3

\* One output more: Follower's rules and the tables agree.
LEMMA IndexStep ==
  ASSUME IInv, IndexInv, IndexedHead # NoHash, NEW q, OnChain(IndexedHead, q)
  PROVE  F!Index(View(Before(q)), q) = View(Before(q) \cup (items \cap {q}))
<1> DEFINE R == Before(q)
           x == View(R)
           m == Msg[q.id]
<1>1. /\ q \in ItemRow /\ m \in Message
      /\ q \in items <=> Counts(q)
      /\ \A p \in items : LaterThan(q, p) <=> p \in R
      /\ \A p \in items : ~LaterThan(p, q) => p = q \/ p \in R
      /\ q \notin R /\ R \subseteq items
      /\ \A p \in R : p.id # q.id
      /\ Done(q)
  BY OutputFacts DEF Before
<1> HIDE DEF R
<1>2. x.items = R
  BY DEF View
<1>3. Refused(x, q) <=> ~Counts(q)
  BY <1>1, <1>2 DEF Refused, Counts
<1>4. CASE q \notin items
  <2>1. F!Index(x, q) = x
    BY <1>1, <1>3, <1>4, IndexIs
  <2>2. R \cup (items \cap {q}) = R
    BY <1>4
  <2> QED
    BY <2>1, <2>2 DEF R
<1>5. CASE q \in items
  <2> DEFINE S == R \cup {q}
  <2>1. F!Index(x, q) = Accepted(x, q)
    BY <1>1, <1>3, <1>5, IndexIs
  <2>2. R \cup (items \cap {q}) = S
    BY <1>5
  <2>3. /\ q.id \in stories <=> m.kind = "story"
        /\ q.id \in comments <=> m.kind = "comment"
    BY <1>1, <1>5 DEF IndexInv, Tables, Payloads
  <2>4. Accepted(x, q).stories = {id \in stories : \E r \in S : r.id = id}
    BY <2>3 DEF Accepted, View
  <2>5. Accepted(x, q).comments = {id \in comments : \E r \in S : r.id = id}
    BY <2>3 DEF Accepted, View
  <2>6. /\ \A r, s \in items : Holds(r) /\ SameKey(r, s) => ~LaterThan(r, s)
        /\ m.kind \in {"topic", "cont"} => \E s \in items : SameKey(q, s) /\ Holds(s)
    BY <1>1, <1>5 DEF IndexInv, Tables, Firsts
  <2>7. ASSUME m.kind \in {"topic", "cont"}, ~Holds(q)
        PROVE  \E s \in R : SameKey(q, s) /\ Holds(s)
    <3>1. PICK s \in items : SameKey(q, s) /\ Holds(s)
      BY <2>6, <2>7
    <3>2. SameKey(s, q)
      BY <3>1 DEF SameKey
    <3>3. ~LaterThan(s, q)
      BY <1>5, <2>6, <3>1, <3>2
    <3> QED
      BY <1>1, <2>7, <3>1, <3>3
  <2>8. Accepted(x, q).topics
          = {t \in topics : \E r \in S : Msg[r.id].kind = "topic" /\ t = TopicOf(r)}
    <3> DEFINE old == {t \in topics : \E r \in R : Msg[r.id].kind = "topic" /\ t = TopicOf(r)}
               new == {t \in topics : \E r \in S : Msg[r.id].kind = "topic" /\ t = TopicOf(r)}
               first == m.kind = "topic" /\ \A t \in old : t.topic # m.topic
    <3>1. Accepted(x, q).topics = IF first THEN old \cup {TopicOf(q)} ELSE old
      BY DEF Accepted, View
    <3>2. m.kind = "topic" => (Holds(q) <=> TopicOf(q) \in topics)
      BY DEF Holds
    <3>3. CASE first
      <4>1. Holds(q)
        <5> SUFFICES ASSUME ~Holds(q) PROVE FALSE
          OBVIOUS
        <5>1. PICK s \in R : SameKey(q, s) /\ Holds(s)
          BY <2>7, <3>3
        <5>2. TopicOf(s) \in old /\ TopicOf(s).topic = m.topic
          BY <3>3, <5>1 DEF SameKey, Holds, TopicOf
        <5> QED
          BY <3>3, <5>2
      <4> QED
        BY <3>1, <3>2, <3>3, <4>1
    <3>4. CASE ~first
      <4>1. ASSUME m.kind = "topic", TopicOf(q) \in topics
            PROVE  FALSE
        <5>1. PICK t \in old : t.topic = m.topic
          BY <3>4, <4>1
        <5>2. PICK r \in R : t = TopicOf(r)
          OBVIOUS
        <5>3. t = TopicOf(q)
          <6>1. t \in topics /\ TopicOf(q).topic = t.topic
            BY <5>1 DEF TopicOf
          <6> QED
            BY <4>1, <6>1 DEF IInv, TypeOK, StoreTypeOK
        <5>4. r.id = q.id
          BY <5>2, <5>3 DEF TopicOf
        <5> QED
          BY <1>1, <5>4
      <4> QED
        BY <3>1, <3>4, <4>1
    <3> QED
      BY <3>3, <3>4
  <2>9. Accepted(x, q).conts
          = {c \in conts : \E r \in S : Msg[r.id].kind = "cont" /\ c = ContOf(r)}
    <3> DEFINE old == {c \in conts : \E r \in R : Msg[r.id].kind = "cont" /\ c = ContOf(r)}
               new == {c \in conts : \E r \in S : Msg[r.id].kind = "cont" /\ c = ContOf(r)}
               first == m.kind = "cont" /\ \A c \in old : c.head # m.ref \/ c.seq # m.seq
    <3>1. Accepted(x, q).conts = IF first THEN old \cup {ContOf(q)} ELSE old
      BY DEF Accepted, View
    <3>2. m.kind = "cont" => (Holds(q) <=> ContOf(q) \in conts)
      BY DEF Holds
    <3>3. CASE first
      <4>1. Holds(q)
        <5> SUFFICES ASSUME ~Holds(q) PROVE FALSE
          OBVIOUS
        <5>1. PICK s \in R : SameKey(q, s) /\ Holds(s)
          BY <2>7, <3>3
        <5>2. ContOf(s) \in old /\ ContOf(s).head = m.ref /\ ContOf(s).seq = m.seq
          BY <3>3, <5>1 DEF SameKey, Holds, ContOf
        <5> QED
          BY <3>3, <5>2
      <4> QED
        BY <3>1, <3>2, <3>3, <4>1
    <3>4. CASE ~first
      <4>1. ASSUME m.kind = "cont", ContOf(q) \in conts
            PROVE  FALSE
        <5>1. PICK c \in old : c.head = m.ref /\ c.seq = m.seq
          BY <3>4, <4>1
        <5>2. PICK r \in R : c = ContOf(r)
          OBVIOUS
        <5>3. c = ContOf(q)
          <6>1. c \in conts /\ ContOf(q).head = c.head /\ ContOf(q).seq = c.seq
            BY <5>1 DEF ContOf
          <6> QED
            BY <4>1, <6>1 DEF IInv, TypeOK, StoreTypeOK
        <5>4. r.id = q.id
          BY <5>2, <5>3 DEF ContOf
        <5> QED
          BY <1>1, <5>4
      <4> QED
        BY <3>1, <3>4, <4>1
    <3> QED
      BY <3>3, <3>4
  <2>10. Accepted(x, q) = View(S)
    <3> DEFINE a == Accepted(x, q)
    <3>1. a = [items |-> a.items, stories |-> a.stories, comments |-> a.comments,
               topics |-> a.topics, conts |-> a.conts]
      BY DEF Accepted
    <3>2. a.items = S
      BY <1>2 DEF Accepted
    <3> HIDE DEF a, S
    <3> QED
      BY ONLY <2>4, <2>5, <2>8, <2>9, <3>1, <3>2 DEF View, a
  <2> QED
    BY <2>1, <2>2, <2>10 DEF R
<1> QED
  BY <1>4, <1>5

-----------------------------------------------------------------------------
\* The items of the chain below height h, and of the first i outputs at that height.
Scanned(h, i) ==
  {r \in items : /\ OnChain(IndexedHead, r)
                 /\ r.height < h \/ \E j \in 1 .. i : r = RowOf(Path[IndexedHead][h], j)}

\* They are the ones before the next output.
LEMMA ScannedOne ==
  ASSUME IInv, IndexInv, IndexedHead # NoHash, NEW h \in StartHeight .. Height[IndexedHead],
         NEW c, c = Path[IndexedHead][h], NEW i \in Nat, i + 1 \in DOMAIN Outs[c],
         NEW q, q = RowOf(c, i + 1)
  PROVE  /\ OnChain(IndexedHead, q)
         /\ Scanned(h, i) = Before(q)
         /\ Scanned(h, i + 1) = Before(q) \cup (items \cap {q})
<1> DEFINE b == IndexedHead
<1>1. /\ b \in Blocks /\ Height[b] \in Nat /\ StartHeight \in Nat /\ h \in 0 .. Height[b]
      /\ h \in Nat
  BY HeadIs, ScannerAssumption
<1>2. c \in Blocks /\ Height[c] = h
  BY <1>1, OnPath
<1>3. DOMAIN Outs[c] = 1 .. Len(Outs[c]) /\ Len(Outs[c]) \in Nat
  BY <1>2, OutsAssumption
<1>4. q.height = h /\ q \in ItemRow
  BY <1>2, RowTypes
<1>5. OnChain(b, q)
  BY <1>1, <1>4 DEF OnChain
<1>6. ASSUME NEW r \in items, OnChain(b, r)
      PROVE  LaterThan(q, r) <=> r.height < h \/ \E j \in 1 .. i : r = RowOf(c, j)
  <2>1. r \in ItemRow /\ r.height \in Nat
    BY <1>1, <1>6, OneRow DEF ItemRow
  <2>2. CASE r.height < h
    BY <1>4, <2>1, <2>2, Order
  <2>3. CASE r.height > h
    <3>1. ~LaterThan(q, r)
      BY <1>4, <2>1, <2>3, Order
    <3>2. \A j \in 1 .. i : RowOf(c, j).height = h
      BY <1>2, <1>3, RowTypes
    <3> QED
      BY <1>1, <2>1, <2>3, <3>1, <3>2
  <2>4. CASE r.height = h
    <3>1. PICK k \in DOMAIN Outs[c] : r = RowOf(c, k)
      BY <1>6, <2>4 DEF OnChain
    <3>2. LaterThan(q, r) <=> k < i + 1
      BY <1>2, <3>1, OutputOrder
    <3>3. k < i + 1 => k \in 1 .. i
      BY <1>3
    <3>4. ASSUME NEW j \in 1 .. i, r = RowOf(c, j)
          PROVE  LaterThan(q, r)
      <4>1. j \in DOMAIN Outs[c] /\ j < i + 1
        BY <1>3
      <4> QED
        BY <1>2, <3>4, <4>1, OutputOrder
    <3> QED
      BY <1>1, <2>4, <3>1, <3>2, <3>3, <3>4
  <2> QED
    BY <1>1, <2>1, <2>2, <2>3, <2>4
<1>7. Scanned(h, i) = Before(q)
  BY <1>6 DEF Scanned, Before
<1>8. Scanned(h, i + 1) = Scanned(h, i) \cup (items \cap {q})
  <2>1. 1 .. i + 1 = 1 .. i \cup {i + 1}
    OBVIOUS
  <2> QED
    BY <1>5, <2>1 DEF Scanned
<1> QED
  BY <1>5, <1>7, <1>8

\* A block that is done is below the next one.
LEMMA ScannedBlock ==
  ASSUME IInv, IndexInv, IndexedHead # NoHash, NEW h \in StartHeight .. Height[IndexedHead]
  PROVE  Scanned(h, Len(Outs[Path[IndexedHead][h]])) = Scanned(h + 1, 0)
<1> DEFINE b == IndexedHead
           c == Path[b][h]
           n == Len(Outs[c])
<1>1. /\ b \in Blocks /\ Height[b] \in Nat /\ StartHeight \in Nat /\ h \in 0 .. Height[b]
      /\ h \in Nat
  BY HeadIs, ScannerAssumption
<1>2. c \in Blocks /\ Height[c] = h
  BY <1>1, OnPath
<1>3. DOMAIN Outs[c] = 1 .. n
  BY <1>2, OutsAssumption
<1>4. ASSUME NEW r \in items, OnChain(b, r)
      PROVE  (r.height < h \/ \E j \in 1 .. n : r = RowOf(c, j)) <=> r.height < h + 1
  <2>1. r.height \in Nat
    BY <1>1, <1>4, OneRow DEF ItemRow
  <2>2. r.height = h => \E j \in 1 .. n : r = RowOf(c, j)
    BY <1>3, <1>4 DEF OnChain
  <2>3. \A j \in 1 .. n : RowOf(c, j).height = h
    BY <1>2, <1>3, RowTypes
  <2> HIDE DEF c, n
  <2> QED
    BY <1>1, <2>1, <2>2, <2>3
<1>5. 1 .. 0 = {}
  OBVIOUS
<1> QED
  BY <1>4, <1>5 DEF Scanned

\* One block more.
LEMMA BlockIndexed ==
  ASSUME IInv, IndexInv, IndexedHead # NoHash, NEW h \in StartHeight .. Height[IndexedHead],
         NEW c, c = Path[IndexedHead][h]
  PROVE  F!IndexBlock(View(Scanned(h, 0)), c) = View(Scanned(h + 1, 0))
<1> DEFINE s == [i \in DOMAIN Outs[c] |-> RowOf(c, i)]
           n == Len(Outs[c])
           x == View(Scanned(h, 0))
           v == F!IndexBlock(x, c)
<1>1. c \in Blocks
  BY HeadIs, OnPath, ScannerAssumption
<1>2. DOMAIN Outs[c] = 1 .. n /\ n \in Nat
  BY <1>1, OutsAssumption
<1>3. DOMAIN s = 1 .. n /\ \A i \in 1 .. n : s[i] = RowOf(c, i)
  BY <1>2
<1>4. v = F!FoldLeft(F!Index, x, s)
  BY DEF F!IndexBlock, RowOf
<1> HIDE DEF s, v
<1>5. PICK f : IsLoop("output", f, n, x, s) /\ v = f[n]
  <2>1. \E f : IsLoop("output", f, n, x, s) /\ F!FoldLeft(F!Index, x, s) = f[n]
    BY <1>2, <1>3, IndexLoop
  <2> QED
    BY <1>4, <2>1
<1> DEFINE T == {i \in Nat : i <= n => f[i] = View(Scanned(h, i))}
<1>6. 0 \in T
  BY <1>5 DEF IsLoop
<1>7. ASSUME NEW i \in Nat, i \in T
      PROVE  i + 1 \in T
  <2> SUFFICES ASSUME i + 1 <= n
               PROVE  f[i + 1] = View(Scanned(h, i + 1))
    OBVIOUS
  <2> DEFINE q == RowOf(c, i + 1)
  <2>1. i \in 0 .. n - 1 /\ i + 1 \in 1 .. n /\ i <= n
    BY <1>2
  <2>2. f[i] = View(Scanned(h, i))
    BY <1>7, <2>1
  <2>3. f[i + 1] = F!Index(f[i], s[i + 1])
    BY <1>5, <2>1 DEF IsLoop, Step
  <2>4. s[i + 1] = q
    BY <1>3, <2>1
  <2>5. i + 1 \in DOMAIN Outs[c]
    BY <1>2, <2>1
  <2>0. q = RowOf(c, i + 1)
    OBVIOUS
  <2> HIDE DEF q
  <2>6. /\ OnChain(IndexedHead, q)
        /\ Scanned(h, i) = Before(q)
        /\ Scanned(h, i + 1) = Before(q) \cup (items \cap {q})
    BY ONLY IInv, IndexInv, IndexedHead # NoHash, h \in StartHeight .. Height[IndexedHead],
            c = Path[IndexedHead][h], i \in Nat, <2>0, <2>5, ScannedOne
  <2>7. F!Index(View(Before(q)), q) = View(Before(q) \cup (items \cap {q}))
    BY <2>6, IndexStep
  <2> QED
    BY ONLY <2>2, <2>3, <2>4, <2>6, <2>7
<1>8. \A i \in Nat : i \in T
  <2> HIDE DEF T
  <2> QED
    BY <1>6, <1>7, SetInduction
<1>9. f[n] = View(Scanned(h, n))
  BY <1>2, <1>8
<1>10. Scanned(h, n) = Scanned(h + 1, 0)
  BY ScannedBlock
<1> QED
  BY <1>5, <1>9, <1>10 DEF v

\* A fresh scan of the chain of the block gives the items below it.
LEMMA FreshIs ==
  ASSUME IInv, IndexInv, IndexedHead # NoHash
  PROVE  F!Fresh(IndexedHead) = View(Scanned(Height[IndexedHead] + 1, 0))
<1> DEFINE b == IndexedHead
           n == Height[b] - StartHeight + 1
           s == [k \in 1 .. n |-> Path[b][StartHeight + k - 1]]
           v == F!Fresh(b)
<1>1. Height[b] \in Nat /\ StartHeight \in Nat /\ Height[b] >= StartHeight /\ n \in Nat
  BY HeadIs, ScannerAssumption
<1>2. DOMAIN s = 1 .. n /\ \A k \in 1 .. n : s[k] = Path[b][StartHeight + k - 1]
  OBVIOUS
<1>3. v = F!FoldLeft(F!IndexBlock, F!Nothing, s)
  BY DEF F!Fresh
<1> HIDE DEF s, v
<1>4. PICK f : IsLoop("block", f, n, F!Nothing, s) /\ v = f[n]
  <2>1. \E f : IsLoop("block", f, n, F!Nothing, s) /\ F!FoldLeft(F!IndexBlock, F!Nothing, s) = f[n]
    BY <1>1, <1>2, BlockLoop
  <2> QED
    BY <1>3, <2>1
<1> DEFINE T == {k \in Nat : k <= n => f[k] = View(Scanned(StartHeight + k, 0))}
<1>5. 0 \in T
  <2>1. Scanned(StartHeight, 0) = {}
    <3>1. \A r : OnChain(b, r) => ~(r.height < StartHeight)
      BY <1>1 DEF OnChain
    <3>2. 1 .. 0 = {}
      OBVIOUS
    <3> QED
      BY <3>1, <3>2 DEF Scanned
  <2>2. View({}) = F!Nothing
    BY DEF View, F!Nothing
  <2>3. f[0] = F!Nothing
    BY <1>4 DEF IsLoop
  <2>4. StartHeight + 0 = StartHeight
    BY <1>1
  <2> QED
    BY <2>1, <2>2, <2>3, <2>4
<1>6. ASSUME NEW k \in Nat, k \in T
      PROVE  k + 1 \in T
  <2> SUFFICES ASSUME k + 1 <= n
               PROVE  f[k + 1] = View(Scanned(StartHeight + (k + 1), 0))
    OBVIOUS
  <2> DEFINE h == StartHeight + k
             c == Path[b][h]
  <2>1. /\ k \in 0 .. n - 1 /\ k + 1 \in 1 .. n /\ k <= n /\ h \in StartHeight .. Height[b]
        /\ StartHeight + (k + 1) - 1 = h /\ StartHeight + (k + 1) = h + 1
    BY <1>1
  <2>2. f[k] = View(Scanned(h, 0))
    BY <1>6, <2>1
  <2>3. f[k + 1] = F!IndexBlock(f[k], s[k + 1])
    BY <1>4, <2>1 DEF IsLoop, Step
  <2>4. s[k + 1] = c
    BY <1>2, <2>1
  <2> HIDE DEF h, c
  <2>5. F!IndexBlock(View(Scanned(h, 0)), c) = View(Scanned(h + 1, 0))
    BY <2>1, BlockIndexed DEF c
  <2> QED
    BY ONLY <2>1, <2>2, <2>3, <2>4, <2>5
<1>7. \A k \in Nat : k \in T
  <2> HIDE DEF T
  <2> QED
    BY <1>5, <1>6, SetInduction
<1>8. f[n] = View(Scanned(StartHeight + n, 0)) /\ StartHeight + n = Height[b] + 1
  BY <1>1, <1>7
<1> QED
  BY <1>4, <1>8 DEF v

-----------------------------------------------------------------------------
\* The tables that the refinement looks at.
Tabled == [items |-> Below(items), topics |-> Below(topics), conts |-> Below(conts),
           stories |-> BelowIds(stories), comments |-> BelowIds(comments)]

\* They are what a fresh scan would give.
IsFresh == \A b : b = IndexedHead => Tabled = F!Fresh(b)

\* The tables of the chain that is indexed are those of a fresh scan of it.
LEMMA IndexIsFresh == IInv /\ IndexInv => IsFresh
<1> SUFFICES ASSUME IInv, IndexInv
             PROVE  Tabled = F!Fresh(IndexedHead)
  BY DEF IsFresh
<1>1. CASE IndexedHead = NoHash
  <2>1. F!Fresh(IndexedHead) = F!Nothing
    BY <1>1 DEF F!Fresh
  <2>2. /\ Below(items) = {} /\ Below(topics) = {} /\ Below(conts) = {}
        /\ BelowIds(stories) = {} /\ BelowIds(comments) = {}
    BY <1>1 DEF Below, BelowIds
  <2> QED
    BY <2>1, <2>2 DEF Tabled, F!Nothing
<1>2. CASE IndexedHead # NoHash
  <2> DEFINE n == Height[IndexedHead]
             R == Scanned(n + 1, 0)
  <2>1. IndexedHead \in Blocks /\ n \in Nat
    BY <1>2, HeadIs
  <2>2. F!Fresh(IndexedHead) = View(R)
    BY <1>2, FreshIs
  <2>3. \A r \in items : r.height \in Nat
    BY DEF IInv, TypeOK, StoreTypeOK, ItemRow
  <2>4. R = Below(items)
    <3>1. 1 .. 0 = {}
      OBVIOUS
    <3>2. \A r \in items : r.height <= n => OnChain(IndexedHead, r)
      BY <1>2, OnHead
    <3> QED
      BY <1>2, <2>1, <2>3, <3>1, <3>2 DEF Scanned, Below
  <2>5. /\ \A t \in topics : \E r \in items : Msg[r.id].kind = "topic" /\ t = TopicOf(r)
        /\ \A c \in conts : \E r \in items : Msg[r.id].kind = "cont" /\ c = ContOf(r)
    BY DEF IndexInv, Tables, Firsts
  <2> HIDE DEF R
  <2>6. Below(topics) = {t \in topics : \E r \in R : Msg[r.id].kind = "topic" /\ t = TopicOf(r)}
    BY <2>4, <2>5 DEF Below, TopicOf
  <2>7. Below(conts) = {c \in conts : \E r \in R : Msg[r.id].kind = "cont" /\ c = ContOf(r)}
    BY <2>4, <2>5 DEF Below, ContOf
  <2>8. /\ BelowIds(stories) = {id \in stories : \E r \in R : r.id = id}
        /\ BelowIds(comments) = {id \in comments : \E r \in R : r.id = id}
    BY <2>4 DEF BelowIds
  <2>9. Tabled = View(R)
    BY ONLY <2>4, <2>6, <2>7, <2>8 DEF Tabled, View
  <2> QED
    BY <2>2, <2>9
<1> QED
  BY <1>1, <1>2

-----------------------------------------------------------------------------
\* How the block that the tables stand for moves.
Extends ==
  /\ IndexedHead' \in Blocks
  /\ IF IndexedHead = NoHash THEN Height[IndexedHead'] = StartHeight
     ELSE /\ Height[IndexedHead'] = Height[IndexedHead] + 1
          /\ Path[IndexedHead'][Height[IndexedHead]] = IndexedHead

Retreats ==
  /\ IndexedHead # NoHash
  /\ IndexedHead' \in {NoHash} \cup
       {Path[IndexedHead][h] : h \in StartHeight .. Height[IndexedHead] - 1}

\* A block that is done is the next of the chain.
LEMMA DoneExtends ==
  ASSUME IInv, BlockDone
  PROVE  Extends
<1>1. /\ cursor' = [height |-> next, hash |-> hash]
      /\ pc = "item" /\ pc' = "count" /\ prev' = hash
  BY DEF BlockDone, SaveCursor, Continue
<1>2. hash \in Blocks /\ Height[hash] = next /\ NoHash \notin Blocks /\ next \in Nat
  BY <1>1, Types
<1>3. IndexedHead' = hash
  BY <1>1, <1>2 DEF IndexedHead, Rewinding
<1>4. /\ IndexedHead = prev
      /\ IndexedHead # NoHash => IndexedHead \in Blocks /\ next = Height[IndexedHead] + 1
      /\ IndexedHead = NoHash => next = StartHeight
  BY <1>1, HeadInLoop DEF Looping
<1>5. ASSUME IndexedHead # NoHash
      PROVE  Path[hash][Height[IndexedHead]] = IndexedHead
  <2>1. PreviousBlockHash(hash) = prev
    BY <1>1, <1>4, <1>5 DEF IInv, Control, Builds
  <2>2. Height[IndexedHead] \in Nat /\ Height[hash] - 1 = Height[IndexedHead]
    BY <1>2, <1>4, <1>5, TreeAssumption
  <2> QED
    BY <1>4, <1>5, <2>1, <2>2, TreeAssumption DEF PreviousBlockHash
<1> QED
  BY <1>2, <1>3, <1>4, <1>5 DEF Extends

\* A rewind goes back.
LEMMA RewindRetreats ==
  ASSUME IInv, RewindDelete(StartHeight)
  PROVE  Retreats
<1> DEFINE t == RewindTarget(next - 1, StartHeight)
<1>1. /\ pc = "delete" /\ cursor # NoCursor /\ next = cursor.height + 1
      /\ cursor.hash \in Blocks /\ Height[cursor.hash] = cursor.height
      /\ StartHeight \in Nat /\ cursor.height \in Nat /\ next \in Nat /\ NoHash \notin Blocks
  BY Types DEF RewindDelete
<1>2. /\ cursor' = cursor /\ next' = t /\ prev' = NoHash
      /\ pc' = IF t <= StartHeight THEN "count" ELSE "anchor"
  BY DEF RewindDelete, DeleteFromHeight, Continue
<1>3. t \in Nat /\ t >= StartHeight /\ (t > StartHeight => t <= cursor.height)
  BY <1>1, TargetRange
<1> HIDE DEF t
<1>4. IndexedHead = cursor.hash
  BY <1>1 DEF IndexedHead, Rewinding
<1>5. CASE t > StartHeight
  <2>1. IndexedHead' = Path[cursor.hash][t - 1]
    BY <1>1, <1>2, <1>3, <1>5 DEF IndexedHead, Rewinding
  <2>2. t - 1 \in StartHeight .. Height[cursor.hash] - 1
    BY <1>1, <1>3, <1>5
  <2> QED
    BY <1>1, <1>4, <2>1, <2>2 DEF Retreats
<1>6. CASE t <= StartHeight
  <2>1. IndexedHead' = NoHash
    BY <1>1, <1>2, <1>6 DEF IndexedHead, Rewinding
  <2> QED
    BY <1>1, <1>4, <2>1 DEF Retreats
<1> QED
  BY <1>1, <1>3, <1>5, <1>6

\* While the outputs of a block are indexed, the tables below it stay.
LEMMA OutputStays ==
  ASSUME IInv, IndexInv, ProcessOutput
  PROVE  IndexedHead' = IndexedHead
<1>1. cursor' = cursor /\ prev' = prev /\ pc \in {"item", "payload"} /\ pc' \in {"item", "payload"}
  <2>1. CASE SkipOutput \/ DropMessage
    BY <2>1 DEF SkipOutput, DropMessage, AtOutput, NextOutput, store
  <2>2. CASE PersistItem
    BY <2>2 DEF PersistItem, AtOutput, PutItem, locals
  <2>3. CASE PersistTopic \/ PersistContinuation
    BY <2>3 DEF PersistTopic, PersistContinuation, InsertTopicIfAbsent, PutContinuation, NextOutput
  <2>4. CASE PersistStory \/ PersistComment
    BY <2>4 DEF PersistStory, PersistComment, PutStory, PutComment, NextOutput
  <2>5. CASE PersistVote
    BY <2>5 DEF PersistVote, PutVote, NextOutput
  <2> QED
    BY <2>1, <2>2, <2>3, <2>4, <2>5 DEF ProcessOutput
<1> QED
  BY <1>1 DEF IndexedHead, Rewinding

\* Every step takes the tables one block further, or back, or leaves them on their block.
LEMMA HeadMoves ==
  ASSUME ShallowReorgs \/ OneChain, IInv, IndexInv, [Next]_vars
  PROVE  IndexedHead' = IndexedHead \/ Extends \/ Retreats
<1>1. CASE Moves
  BY <1>1, HeadStays DEF IndexInv
<1>2. CASE UNCHANGED vars \/ \E b \in Blocks : NodeStep(b)
  <2>1. UNCHANGED <<cursor, pc, next, prev>>
    BY <1>2 DEF vars, NodeStep, store, locals
  <2> QED
    BY <2>1 DEF IndexedHead, Rewinding
<1>3. CASE BlockDone
  BY <1>3, DoneExtends
<1>4. CASE RewindDelete(StartHeight)
  BY <1>4, RewindRetreats
<1>5. CASE ProcessOutput
  BY <1>5, OutputStays
<1> QED
  BY <1>1, <1>2, <1>3, <1>4, <1>5 DEF Next, ScannerStep, Moves

\* In the two environments the scanner implements Follower: the initial states map to its
\* initial state, and every step to a step of it or to none.
THEOREM Follows ==
  ASSUME ShallowReorgs \/ OneChain
  PROVE  Spec => FollowsTheChain
<1>1. Init => F!Init
  <2> SUFFICES ASSUME Init
               PROVE  F!Init
    OBVIOUS
  <2>1. IndexedHead = NoHash
    BY DEF Init, StoreInit, IndexedHead, Rewinding, NoCursor
  <2> QED
    BY <2>1 DEF F!Init, F!Nothing, Below, BelowIds
<1>2. /\ IInv /\ IndexInv /\ IsFresh
      /\ [Next]_vars
      /\ IsFresh'
      => [F!Next]_<<IndexedHead, Tabled>>
  <2> SUFFICES ASSUME IInv, IndexInv, IsFresh, [Next]_vars, IsFresh'
               PROVE  [F!Next]_<<IndexedHead, Tabled>>
    OBVIOUS
  <2>1. Tabled = F!Fresh(IndexedHead)
    BY DEF IsFresh
  <2>2. Tabled' = F!Fresh(IndexedHead')
    BY DEF IsFresh
  <2>3. CASE IndexedHead' = IndexedHead
    BY <2>1, <2>2, <2>3
  <2>4. CASE Extends
    <3>1. F!Extend
      BY <2>2, <2>4 DEF F!Extend, Extends, Tabled
    <3> QED
      BY <3>1 DEF F!Next
  <2>5. CASE Retreats
    <3>1. F!Retreat
      BY <2>2, <2>5 DEF F!Retreat, Retreats, Tabled
    <3> QED
      BY <3>1 DEF F!Next
  <2> QED
    BY <2>3, <2>4, <2>5, HeadMoves
<1>3. [F!Next]_<<IndexedHead, Tabled>> => [F!Next]_<<IndexedHead,
         [items |-> Below(items), topics |-> Below(topics), conts |-> Below(conts),
          stories |-> BelowIds(stories), comments |-> BelowIds(comments)]>>
  BY DEF Tabled
<1>4. Spec => [](IInv /\ IndexInv)
  BY IndexInvariance
<1> QED
  BY <1>1, <1>2, <1>3, <1>4, IndexIsFresh, PTL DEF Spec, FollowsTheChain, F!Spec
=============================================================================
