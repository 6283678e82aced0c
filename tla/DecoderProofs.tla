---------------------------- MODULE DecoderProofs ----------------------------
(***************************************************************************)
(* Decoder, for every Base, every length of a field, every script and      *)
(* every message that keeps to the limits of the protocol.                 *)
(***************************************************************************)
EXTENDS Decoder, CodecProofs

-----------------------------------------------------------------------------
\* Slices.

\* b[n:] is b[n:n+k] and b[n+k:].
LEMMA CutAt ==
  ASSUME NEW b \in Seq(Byte), NEW n \in Nat, NEW k \in Nat, n + k <= Len(b)
  PROVE  /\ SubSeq(b, n + 1, n + k) \in Seq(Byte)
         /\ Len(SubSeq(b, n + 1, n + k)) = k
         /\ SubSeq(b, n + k + 1, Len(b)) \in Seq(Byte)
         /\ Len(SubSeq(b, n + k + 1, Len(b))) = Len(b) - (n + k)
         /\ SubSeq(b, n + 1, Len(b)) = SubSeq(b, n + 1, n + k) \o SubSeq(b, n + k + 1, Len(b))
<1>1. Len(b) \in Nat
  OBVIOUS
<1> DEFINE s == SubSeq(b, n + 1, n + k)
           t == SubSeq(b, n + k + 1, Len(b))
           u == SubSeq(b, n + 1, Len(b))
<1>2. s \in Seq(Byte) /\ Len(s) = k /\ \A i \in 1 .. k : s[i] = b[n + i]
  BY <1>1
<1>3. /\ t \in Seq(Byte) /\ Len(t) = Len(b) - (n + k)
      /\ \A i \in 1 .. Len(b) - (n + k) : t[i] = b[n + k + i]
  BY <1>1
<1>4. u \in Seq(Byte) /\ Len(u) = Len(b) - n /\ \A i \in 1 .. Len(b) - n : u[i] = b[n + i]
  BY <1>1
<1> HIDE DEF s, t, u
<1>5. s \o t \in Seq(Byte) /\ Len(s \o t) = Len(b) - n
  BY <1>1, <1>2, <1>3, Cat
<1>6. ASSUME NEW i \in 1 .. Len(b) - n
      PROVE  u[i] = (s \o t)[i]
  <2>1. CASE i <= k
    <3>1. i \in 1 .. k
      BY <1>1, <2>1
    <3> QED
      BY <1>2, <1>3, <1>4, <3>1, Cat
  <2>2. CASE i > k
    <3> DEFINE j == i - k
    <3>1. j \in 1 .. Len(b) - (n + k) /\ i = k + j /\ n + i = n + k + j
      BY <1>1, <2>2
    <3> HIDE DEF j
    <3>2. (s \o t)[k + j] = t[j]
      BY <1>2, <1>3, <3>1, Cat
    <3>3. u[i] = b[n + k + j]
      BY <1>4, <3>1
    <3> QED
      BY <1>3, <3>1, <3>2, <3>3
  <2>3. i <= k \/ i > k
    BY <1>1
  <2> QED
    BY ONLY <2>1, <2>2, <2>3
<1>7. u = s \o t
  BY <1>1, <1>4, <1>5, <1>6, SameBytes
<1> QED
  BY <1>2, <1>3, <1>7 DEF s, t, u

\* The fields of b and what is left of it, for one, three and four of them.
LEMMA OneField ==
  ASSUME NEW b \in Seq(Byte), NEW x \in Nat, x <= Len(b)
  PROVE  LET l == <<x>>
         IN  /\ Total(l) = x /\ Fits(b, l)
             /\ After(b, l) \in Seq(Byte)
             /\ Len(After(b, l)) = Len(b) - x
             /\ SubSeq(b, 1, x) \o After(b, l) = b
<1> DEFINE l == <<x>>
<1>1. Total(l) = x
  BY DEF Total, Start, Width
<1>2. Fits(b, l) /\ After(b, l) = SubSeq(b, x + 1, Len(b))
  BY <1>1 DEF Fits, After
<1>3. x \in 0 .. Len(b)
  OBVIOUS
<1> QED
  BY <1>1, <1>2, <1>3, Cut

InThree(b, l, x, y, z) ==
  /\ Total(l) = x + y + z /\ Fits(b, l)
  /\ Field(b, l, 1) \in Seq(Byte) /\ Len(Field(b, l, 1)) = x
  /\ Field(b, l, 2) \in Seq(Byte) /\ Len(Field(b, l, 2)) = y
  /\ Field(b, l, 3) \in Seq(Byte) /\ Len(Field(b, l, 3)) = z
  /\ Field(b, l, 1) = SubSeq(b, 1, x)
  /\ Field(b, l, 2) = SubSeq(b, x + 1, x + y)
  /\ After(b, l) \in Seq(Byte)
  /\ Len(After(b, l)) = Len(b) - (x + y + z)
  /\ b = Field(b, l, 1) \o (Field(b, l, 2) \o (Field(b, l, 3) \o After(b, l)))

\* The first three slices of such a sequence, by Field.
LEMMA ThreeFields ==
  ASSUME NEW b \in Seq(Byte), NEW x \in Nat, NEW y \in Nat, NEW z \in Nat, x + y + z <= Len(b),
         NEW l, l = <<x, y, z>>
  PROVE  InThree(b, l, x, y, z)
<1>1. Total(l) = x + y + z /\ Start(l, 1) = 0 /\ Start(l, 2) = x /\ Start(l, 3) = x + y
  BY DEF Total, Start, Width
<1>2. Len(b) \in Nat
  OBVIOUS
<1>3. /\ Field(b, l, 1) = SubSeq(b, 1, x)
      /\ Field(b, l, 2) = SubSeq(b, x + 1, x + y)
      /\ Field(b, l, 3) = SubSeq(b, (x + y) + 1, (x + y) + z)
      /\ After(b, l) = SubSeq(b, (x + y) + z + 1, Len(b))
  <2>1. l[1] = x /\ l[2] = y /\ l[3] = z
    OBVIOUS
  <2>2. 0 + 1 = 1 /\ 0 + x = x
    OBVIOUS
  <2> QED
    BY ONLY <1>1, <2>1, <2>2 DEF Field, After
<1>4. Fits(b, l)
  BY <1>1 DEF Fits
<1> DEFINE w == x + y
<1>5. x \in 0 .. Len(b) /\ x + y <= Len(b) /\ w \in Nat /\ w + z <= Len(b) /\ w = x + y
  BY <1>2
<1> HIDE DEF w
<1>6. /\ SubSeq(b, 1, x) \in Seq(Byte) /\ Len(SubSeq(b, 1, x)) = x
      /\ SubSeq(b, 1, x) \o SubSeq(b, x + 1, Len(b)) = b
  BY <1>5, Cut
<1>7. /\ SubSeq(b, x + 1, x + y) \in Seq(Byte) /\ Len(SubSeq(b, x + 1, x + y)) = y
      /\ SubSeq(b, x + 1, Len(b)) = SubSeq(b, x + 1, x + y) \o SubSeq(b, x + y + 1, Len(b))
  BY <1>5, CutAt, ZenonT(60)
<1>8. /\ SubSeq(b, w + 1, w + z) \in Seq(Byte) /\ Len(SubSeq(b, w + 1, w + z)) = z
      /\ SubSeq(b, w + z + 1, Len(b)) \in Seq(Byte)
      /\ Len(SubSeq(b, w + z + 1, Len(b))) = Len(b) - (w + z)
      /\ SubSeq(b, w + 1, Len(b)) = SubSeq(b, w + 1, w + z) \o SubSeq(b, w + z + 1, Len(b))
  BY <1>2, <1>5, CutAt, ZenonT(60)
<1> QED
  BY ONLY <1>1, <1>3, <1>4, <1>5, <1>6, <1>7, <1>8 DEF InThree

\* b[x:][:y] is b[x:x+y].
LEMMA PrefixOfRest ==
  ASSUME NEW b \in Seq(Byte), NEW x \in Nat, NEW y \in Nat, x + y <= Len(b)
  PROVE  SubSeq(SubSeq(b, x + 1, Len(b)), 1, y) = SubSeq(b, x + 1, x + y)
<1> DEFINE s == SubSeq(b, x + 1, x + y)
           t == SubSeq(b, x + y + 1, Len(b))
<1>1. s \in Seq(Byte) /\ t \in Seq(Byte) /\ Len(s) = y /\ SubSeq(b, x + 1, Len(b)) = s \o t
  BY CutAt
<1> HIDE DEF s, t
<1>2. SubSeq(s \o t, 1, Len(s)) = s
  BY <1>1, CutCat
<1> QED
  BY <1>1, <1>2 DEF s

\* The bytes of the slice b[x:x+1].
LEMMA OneByte ==
  ASSUME NEW b \in Seq(Byte), NEW x \in Nat, x + 1 <= Len(b)
  PROVE  b[x + 1] \in Byte /\ SubSeq(b, x + 1, x + 1) = <<b[x + 1]>>
<1>1. b[x + 1] \in Byte
  OBVIOUS
<1> DEFINE s == SubSeq(b, x + 1, x + 1)
           t == <<b[x + 1]>>
<1>2. s \in Seq(Byte) /\ Len(s) = 1 /\ s[1] = b[x + 1]
  <2>0. Len(b) \in Nat
    OBVIOUS
  <2>1. ASSUME NEW k \in Nat, k = 1
        PROVE  LET u == SubSeq(b, x + 1, x + k)
               IN  u \in Seq(Byte) /\ Len(u) = k /\ \A i \in 1 .. k : u[i] = b[x + i]
    BY <2>0, <2>1
  <2>2. 1 \in Nat
    OBVIOUS
  <2> QED
    BY ONLY <2>1, <2>2
<1>3. t \in Seq(Byte) /\ Len(t) = 1 /\ t[1] = b[x + 1]
  BY <1>1
<1> HIDE DEF s, t
<1>4. s = t
  BY <1>2, <1>3, SameBytes
<1> QED
  BY <1>1, <1>4 DEF s, t

\* The length of three slices.
LEMMA TotalThree ==
  ASSUME NEW x \in Nat, NEW y \in Nat, NEW z \in Nat, NEW l, l = <<x, y, z>>
  PROVE  Total(l) = x + y + z
BY DEF Total, Start, Width

\* A field behind its length, as readCompactSize finds it.
InSized(b, l, x) ==
  /\ Fits(b, l)
  /\ Field(b, l, 1) \in Seq(Byte) /\ Len(Field(b, l, 1)) = x
  /\ Field(b, l, 1) = SubSeq(b, 1, x)
  /\ Field(b, l, 3) \in Seq(Byte)
  /\ After(b, l) \in Seq(Byte)
  /\ Len(After(b, l)) = Len(b) - Total(l)
  /\ b = Field(b, l, 1) \o (PutCompactSize(Len(Field(b, l, 3))) \o (Field(b, l, 3) \o After(b, l)))

\* The text behind its length, by Field.
LEMMA SizedField ==
  ASSUME NEW b \in Seq(Byte), NEW x \in Nat, x <= Len(b),
         NEW s \in ReadCompactSize(SubSeq(b, x + 1, Len(b))),
         NEW l, l = <<x, s.used, s.n>>
  PROVE  /\ s.used \in Nat /\ s.used >= 1 /\ s.n \in Nat
         /\ Total(l) = x + s.used + s.n
         /\ Total(l) <= Len(b) => InSized(b, l, x) /\ Len(Field(b, l, 3)) = s.n
<1> DEFINE c == SubSeq(b, x + 1, Len(b))
<1>1. c \in Seq(Byte) /\ Len(c) = Len(b) - x
  BY Cut
<1>2. s.n \in Nat /\ s.used \in 1 .. Len(c) /\ PutCompactSize(s.n) = SubSeq(c, 1, s.used)
  BY <1>1, ReadIsCanonical
<1>3. s.used \in Nat /\ s.used >= 1 /\ x + s.used <= Len(b)
  BY <1>1, <1>2
<1>4. PutCompactSize(s.n) = SubSeq(b, x + 1, x + s.used)
  BY <1>2, <1>3, PrefixOfRest
<1> DEFINE y == s.used
           z == s.n
<1>5. /\ l = <<x, y, z>> /\ y \in Nat /\ z \in Nat
      /\ PutCompactSize(z) = SubSeq(b, x + 1, x + y)
  BY <1>2, <1>3, <1>4
<1> HIDE DEF y, z
<1>6. b \in Seq(Byte) /\ x \in Nat
  OBVIOUS
<1>7. Total(l) = x + y + z
  BY ONLY <1>5, <1>6, TotalThree
<1>8. ASSUME Total(l) <= Len(b)
      PROVE  InSized(b, l, x) /\ Len(Field(b, l, 3)) = z
  <2>1. x + y + z <= Len(b)
    BY <1>7, <1>8
  <2>2. InThree(b, l, x, y, z)
    BY ONLY <1>5, <1>6, <2>1, ThreeFields
  <2> QED
    BY ONLY <1>5, <2>2 DEF InThree, InSized
<1> QED
  BY ONLY <1>2, <1>3, <1>7, <1>8 DEF y, z

-----------------------------------------------------------------------------
\* encode.go

\* The header is three bytes.
LEMMA HeaderBytes ==
  ASSUME NEW t \in Byte
  PROVE  Header(t) \in Seq(Byte) /\ Len(Header(t)) = 3 /\ Header(t) = Magic \o <<t>>
<1>1. Magic \in Seq(Byte) /\ Len(Magic) = 2
  BY CodecAssumption
<1>2. <<t>> \in Seq(Byte) /\ Len(<<t>>) = 1
  OBVIOUS
<1>3. Magic \o <<t>> \in Seq(Byte) /\ Len(Magic \o <<t>>) = Len(Magic) + Len(<<t>>)
  BY <1>1, <1>2, Cat
<1> QED
  BY <1>1, <1>2, <1>3 DEF Header

\* The type tags are bytes, and they differ.
LEMMA Tags ==
  /\ {TopicCreation, Story, Comment, Upvote, Downvote, Continuation} \subseteq Byte
  /\ TopicCreation \notin {Story, Comment, Upvote, Downvote, Continuation}
  /\ Story \notin {TopicCreation, Comment, Upvote, Downvote, Continuation}
  /\ Comment \notin {TopicCreation, Story, Upvote, Downvote, Continuation}
  /\ Upvote \notin {TopicCreation, Story, Comment, Downvote, Continuation}
  /\ Downvote \notin {TopicCreation, Story, Comment, Upvote, Continuation}
  /\ Continuation \notin {TopicCreation, Story, Comment, Upvote, Downvote}
BY Bases DEF TopicCreation, Story, Comment, Upvote, Downvote, Continuation

\* What the encoders write, for each type.
LEMMA EncodeIs ==
  ASSUME NEW m
  PROVE  /\ m.tag = TopicCreation => Encode(m) = Header(TopicCreation) \o
              (((m.topic \o <<m.days>>) \o PutCompactSize(Len(m.text))) \o m.text)
         /\ m.tag = Story => Encode(m) = Header(Story) \o
              (((m.topic \o PutCompactSize(Len(m.text))) \o m.text) \o EncodeTLVs(m.tlvs))
         /\ m.tag = Comment => Encode(m) = Header(Comment) \o
              (((m.ref \o m.xpk) \o m.sig) \o EncodeTLVs(m.tlvs))
         /\ m.tag \in {Upvote, Downvote} => Encode(m) = Header(m.tag) \o ((m.ref \o m.xpk) \o m.sig)
         /\ m.tag = Continuation => Encode(m) = Header(Continuation) \o ((m.ref \o <<m.seq>>) \o m.text)
<1>1. CASE m.tag = TopicCreation
  BY ONLY <1>1, Tags DEF Encode
<1>2. CASE m.tag = Story
  BY ONLY <1>2, Tags DEF Encode
<1>3. CASE m.tag = Comment
  BY ONLY <1>3, Tags DEF Encode
<1>4. CASE m.tag \in {Upvote, Downvote}
  BY ONLY <1>4, Tags DEF Encode
<1>5. CASE m.tag = Continuation
  BY ONLY <1>5, Tags DEF Encode
<1> QED
  BY ONLY <1>1, <1>2, <1>3, <1>4, <1>5

\* Grouping to the right what Encode groups to the left.
IsFlatThree(h, a, b, c, r) ==
  /\ h \o ((a \o b) \o c) \in Seq(Byte)
  /\ (h \o ((a \o b) \o c)) \o r = h \o (a \o (b \o (c \o r)))

IsFlatFour(h, a, b, c, d, r) ==
  /\ h \o (((a \o b) \o c) \o d) \in Seq(Byte)
  /\ (h \o (((a \o b) \o c) \o d)) \o r = h \o (a \o (b \o (c \o (d \o r))))

\* Three parts behind a header, regrouped.
LEMMA FlatThree ==
  ASSUME NEW h, NEW a, NEW b, NEW c, NEW r,
         h \in Seq(Byte), a \in Seq(Byte), b \in Seq(Byte), c \in Seq(Byte), r \in Seq(Byte)
  PROVE  IsFlatThree(h, a, b, c, r)
<1> DEFINE p == a \o b
           u == p \o c
           v == c \o r
<1>1. h \in Seq(Byte) /\ r \in Seq(Byte)
  OBVIOUS
<1>2. a \in Seq(Byte) /\ b \in Seq(Byte)
  OBVIOUS
<1>3. c \in Seq(Byte) /\ r \in Seq(Byte)
  OBVIOUS
<1>4. p \in Seq(Byte)
  BY ONLY <1>2, Cat
<1>5. v \in Seq(Byte)
  BY ONLY <1>3, Cat
<1> HIDE DEF p, v
<1>6. u \in Seq(Byte)
  BY ONLY <1>3, <1>4, Cat
<1>7. (p \o c) \o r = p \o (c \o r)
  BY ONLY <1>3, <1>4, CatAssociative
<1>8. (a \o b) \o v = a \o (b \o v)
  BY ONLY <1>2, <1>5, CatAssociative
<1> HIDE DEF u
<1>9. h \o u \in Seq(Byte)
  BY ONLY <1>1, <1>6, Cat
<1>10. (h \o u) \o r = h \o (u \o r)
  BY ONLY <1>1, <1>6, CatAssociative
<1> QED
  BY ONLY <1>7, <1>8, <1>9, <1>10, Zenon DEF p, u, v, IsFlatThree

\* Four parts behind a header, regrouped.
LEMMA FlatFour ==
  ASSUME NEW h, NEW a, NEW b, NEW c, NEW d, NEW r,
         h \in Seq(Byte), a \in Seq(Byte), b \in Seq(Byte), c \in Seq(Byte), d \in Seq(Byte),
         r \in Seq(Byte)
  PROVE  IsFlatFour(h, a, b, c, d, r)
<1> DEFINE u == (a \o b) \o c
           v == d \o r
           w == h \o u
<1>1. d \in Seq(Byte) /\ r \in Seq(Byte)
  OBVIOUS
<1>2. h \in Seq(Byte)
  OBVIOUS
<1>3. v \in Seq(Byte)
  BY ONLY <1>1, Cat
<1> HIDE DEF v
<1>4. w \in Seq(Byte) /\ w \o v = h \o (a \o (b \o (c \o v)))
  <2> HIDE DEF w
  <2>1. IsFlatThree(h, a, b, c, v)
    BY <1>3, FlatThree
  <2> QED
    BY ONLY <2>1, Zenon DEF w, IsFlatThree
<1>5. u \in Seq(Byte)
  <2>1. a \o b \in Seq(Byte)
    BY Cat
  <2> HIDE DEF v, w
  <2> QED
    BY <2>1, Cat
<1> HIDE DEF u
<1>6. h \o (u \o d) = (h \o u) \o d
  BY ONLY <1>1, <1>2, <1>5, CatAssociative
<1> HIDE DEF w
<1>7. w \o d \in Seq(Byte)
  BY ONLY <1>1, <1>4, Cat
<1>8. (w \o d) \o r = w \o (d \o r)
  BY ONLY <1>1, <1>4, CatAssociative
<1> QED
  BY ONLY <1>4, <1>6, <1>7, <1>8, Zenon DEF u, v, w, IsFlatFour

\* decodeTopicCreation: the message it returns has one encoding, and that is the payload.
LEMMA TopicCanonical ==
  ASSUME NEW b \in Seq(Byte), TopicLen + 1 <= Len(b),
         NEW s \in ReadCompactSize(After(b, <<TopicLen, 1>>)),
         NEW l, l = <<TopicLen, 1, s.used, s.n>>,
         Len(b) = Total(l),
         NEW m, m = [tag |-> TopicCreation, topic |-> Field(b, l, 1), days |-> b[TopicLen + 1],
                     text |-> Field(b, l, 4)]
  PROVE  /\ Fits(b, l) /\ After(b, l) = <<>>
         /\ m \in TopicMessage
         /\ Encode(m) = Header(TopicCreation) \o b
<1> DEFINE x == TopicLen
           x1 == x + 1
           k == <<x1, s.used, s.n>>
           h == Header(TopicCreation)
<1>1. x \in Nat /\ x1 \in Nat
  BY CodecAssumption
<1>2. After(b, <<TopicLen, 1>>) = SubSeq(b, x1 + 1, Len(b))
  <2>1. Total(<<TopicLen, 1>>) = x1
    BY <1>1 DEF Total, Start, Width
  <2> QED
    BY ONLY <2>1 DEF After
<1>3. s \in ReadCompactSize(SubSeq(b, x1 + 1, Len(b))) /\ x1 <= Len(b)
  BY <1>2
<1> HIDE DEF x1
<1>4. /\ s.used \in Nat /\ s.n \in Nat /\ Total(k) = x1 + s.used + s.n
      /\ Total(k) <= Len(b) => InSized(b, k, x1)
  <2> HIDE DEF k
  <2>1. k = <<x1, s.used, s.n>>
    BY DEF k
  <2> QED
    BY ONLY <1>1, <1>3, <2>1, SizedField, b \in Seq(Byte)
<1>5. /\ Total(l) = x + 1 + s.used + s.n /\ Total(k) = Total(l)
      /\ Start(l, 1) = 0 /\ Start(l, 4) = x + 1 + s.used
      /\ Start(k, 3) = x + 1 + s.used
      /\ l[1] = x /\ l[4] = s.n /\ k[3] = s.n
  BY <1>1, <1>4 DEF Total, Start, Width, x1
<1>6. InSized(b, k, x1)
  BY <1>4, <1>5
<1>7. /\ Field(b, l, 4) = Field(b, k, 3) /\ After(b, l) = After(b, k)
      /\ Field(b, l, 1) = SubSeq(b, 0 + 1, 0 + x)
      /\ Fits(b, l)
  BY ONLY <1>5, <1>6 DEF Field, After, InSized, Fits
<1> DEFINE t == SubSeq(b, 1, x)
           d == <<b[x + 1]>>
           v == Field(b, k, 3)
           p == PutCompactSize(Len(v))
           r == After(b, k)
<1>8. /\ t \in Seq(Byte) /\ Len(t) = x /\ b[x + 1] \in Byte /\ d \in Seq(Byte)
      /\ SubSeq(b, 1, x1) = t \o d
  <2>1. t \in Seq(Byte) /\ Len(t) = x
    BY <1>1, <1>3, Cut DEF x1
  <2>2. b[x + 1] \in Byte /\ SubSeq(b, x + 1, x + 1) = d
    BY <1>1, <1>3, OneByte DEF x1
  <2>3. SubSeq(b, 1, x1) = t \o SubSeq(b, x + 1, x + 1)
    <3> DEFINE w == SubSeq(b, 1, x1)
    <3>1. w \in Seq(Byte) /\ Len(w) = x1
      BY <1>1, <1>3, Cut
    <3>2. SubSeq(w, 1, x) \o SubSeq(w, x + 1, Len(w)) = w
      BY <1>1, <3>1, Cut DEF x1
    <3>3. SubSeq(w, 1, x) = t
      BY <1>1, <1>3 DEF x1
    <3>4. SubSeq(w, x + 1, x + 1) = <<w[x + 1]>> /\ w[x + 1] = b[x + 1]
      <4> HIDE DEF w
      <4>1. SubSeq(w, x + 1, x + 1) = <<w[x + 1]>>
        BY <1>1, <3>1, OneByte DEF x1
      <4>2. w[x + 1] = b[x + 1]
        BY <1>1, <1>3 DEF w, x1
      <4> QED
        BY <4>1, <4>2
    <3> QED
      BY ONLY <2>2, <3>1, <3>2, <3>3, <3>4 DEF x1, w
  <2>4. d \in Seq(Byte)
    BY <2>2
  <2> QED
    BY ONLY <2>1, <2>2, <2>3, <2>4, Zenon
<1>9. /\ v \in Seq(Byte) /\ r \in Seq(Byte) /\ Len(r) = 0
      /\ b = (t \o d) \o (p \o (v \o r))
  <2>1. Total(k) = Len(b) /\ Len(b) \in Nat
    BY <1>5
  <2>2. Field(b, k, 1) = t \o d
    BY ONLY <1>6, <1>8 DEF InSized
  <2>3. /\ v \in Seq(Byte) /\ r \in Seq(Byte) /\ Len(r) = Len(b) - Total(k)
        /\ b = Field(b, k, 1) \o (p \o (v \o r))
    BY ONLY <1>6 DEF InSized
  <2>4. Len(r) = 0
    BY ONLY <2>1, <2>3
  <2> QED
    BY ONLY <2>2, <2>3, <2>4, Zenon
<1>10. Len(v) \in Nat /\ p \in Seq(Byte) /\ h \in Seq(Byte)
  <2>1. Len(v) \in Nat
    <3> HIDE DEF v
    <3> QED
      BY ONLY <1>9
  <2>2. TopicCreation \in Byte
    BY ONLY Tags
  <2> QED
    BY ONLY <2>1, <2>2, PutBytes, HeaderBytes, Zenon
<1>11. /\ m.tag = TopicCreation /\ m.topic = t /\ m.days = b[x + 1] /\ m.text = v
       /\ m = [tag |-> TopicCreation, topic |-> t, days |-> b[x + 1], text |-> v]
  <2>1. Field(b, l, 1) = t
    BY ONLY <1>1, <1>7
  <2>2. m = [tag |-> TopicCreation, topic |-> t, days |-> b[x + 1], text |-> v]
    BY <1>7, <2>1, Zenon
  <2> HIDE DEF t, v
  <2> QED
    BY ONLY <2>2
<1> HIDE DEF t, d, v, p, r, h, x, k
<1>12. r = <<>>
  BY ONLY <1>9, CatEmpty
<1>13. Encode(m) = h \o (((t \o d) \o p) \o v)
  BY ONLY <1>11, EncodeIs DEF h, d, p
<1>14. ((t \o d) \o p) \o v = (t \o d) \o (p \o v)
  <2>1. t \o d \in Seq(Byte)
    BY ONLY <1>8, Cat
  <2> QED
    BY ONLY <2>1, <1>9, <1>10, CatAssociative
<1>15. v \o r = v
  BY ONLY <1>9, <1>12, CatEmpty
<1>16. m \in TopicMessage
  BY ONLY <1>8, <1>9, <1>11 DEF TopicMessage, Bytes, x
<1> QED
  BY ONLY <1>7, <1>9, <1>12, <1>13, <1>14, <1>15, <1>16 DEF h, r

\* decodeStory, before its TLVs.
LEMMA StoryCanonical ==
  ASSUME NEW b \in Seq(Byte), TopicLen <= Len(b),
         NEW s \in ReadCompactSize(After(b, <<TopicLen>>)),
         NEW l, l = <<TopicLen, s.used, s.n>>,
         Total(l) <= Len(b),
         NEW m, m = [tag |-> Story, topic |-> Field(b, l, 1), text |-> Field(b, l, 3), tlvs |-> <<>>]
  PROVE  /\ Fits(b, l) /\ After(b, l) \in Seq(Byte)
         /\ m \in StoryMessage
         /\ Encode(m) \o After(b, l) = Header(Story) \o b
<1> DEFINE x == TopicLen
           h == Header(Story)
           t == Field(b, l, 1)
           v == Field(b, l, 3)
           p == PutCompactSize(Len(v))
           e == EncodeTLVs(<<>>)
           r == After(b, l)
<1>1. x \in Nat
  BY CodecAssumption
<1>2. After(b, <<x>>) = SubSeq(b, x + 1, Len(b))
  <2>1. Total(<<x>>) = x
    BY <1>1 DEF Total, Start, Width
  <2> QED
    BY ONLY <2>1 DEF After
<1>3. s \in ReadCompactSize(SubSeq(b, x + 1, Len(b)))
  BY <1>2
<1>4. InSized(b, l, x)
  BY ONLY <1>1, <1>3, SizedField, b \in Seq(Byte), l = <<x, s.used, s.n>>, x <= Len(b),
          Total(l) <= Len(b)
<1>5. /\ t \in Seq(Byte) /\ Len(t) = x /\ v \in Seq(Byte) /\ r \in Seq(Byte)
      /\ b = t \o (p \o (v \o r))
      /\ Fits(b, l)
  BY ONLY <1>4 DEF InSized
<1>6. p \in Seq(Byte) /\ h \in Seq(Byte)
  <2>1. Len(v) \in Nat
    <3> HIDE DEF v
    <3> QED
      BY ONLY <1>5
  <2>2. Story \in Byte
    BY ONLY Tags
  <2> QED
    BY ONLY <2>1, <2>2, PutBytes, HeaderBytes, Zenon
<1>7. e = <<>> /\ e \in Seq(Byte) /\ e \o r = r
  <2> HIDE DEF r, e
  <2>1. e = <<>>
    BY ONLY EncodeTLVsEmpty DEF e
  <2> QED
    BY ONLY <1>5, <2>1, CatEmpty
<1>8. /\ m.tag = Story /\ m.topic = t /\ m.text = v /\ m.tlvs = <<>>
      /\ m = [tag |-> Story, topic |-> t, text |-> v, tlvs |-> <<>>]
  <2> HIDE DEF t, v
  <2>1. m = [tag |-> Story, topic |-> t, text |-> v, tlvs |-> <<>>]
    BY DEF t, v
  <2> QED
    BY ONLY <2>1
<1> HIDE DEF h, t, v, p, e, r
<1>9. IsFlatFour(h, t, p, v, e, r)
  BY ONLY <1>5, <1>6, <1>7, FlatFour
<1>10. Encode(m) = h \o (((t \o p) \o v) \o e)
  BY ONLY <1>8, EncodeIs DEF h, p, e
<1>11. m \in StoryMessage
  <2>1. <<>> \in Seq(TLV)
    OBVIOUS
  <2> QED
    BY ONLY <1>5, <1>8, <2>1 DEF StoryMessage, Bytes, x
<1>12. Encode(m) \o r = h \o b
  BY ONLY <1>5, <1>7, <1>9, <1>10, Zenon DEF IsFlatFour
<1> QED
  BY ONLY <1>5, <1>11, <1>12 DEF h, r

\* The fields of a comment or of a vote.
LEMMA SignedFields ==
  ASSUME NEW b \in Seq(Byte), Total(Signed) <= Len(b)
  PROVE  /\ InThree(b, Signed, ItemIDLen, XOnlyPubKeyLen, SchnorrSigLen)
         /\ Field(b, Signed, 1) \in Bytes(ItemIDLen)
         /\ Field(b, Signed, 2) \in Bytes(XOnlyPubKeyLen)
         /\ Field(b, Signed, 3) \in Bytes(SchnorrSigLen)
<1>1. ItemIDLen \in Nat /\ XOnlyPubKeyLen \in Nat /\ SchnorrSigLen \in Nat
  BY CodecAssumption
<1>2. Signed = <<ItemIDLen, XOnlyPubKeyLen, SchnorrSigLen>>
  BY DEF Signed
<1>3. Total(Signed) = ItemIDLen + XOnlyPubKeyLen + SchnorrSigLen
  BY ONLY <1>1, <1>2, TotalThree
<1>4. ItemIDLen + XOnlyPubKeyLen + SchnorrSigLen <= Len(b) /\ b \in Seq(Byte)
  BY <1>3
<1>5. InThree(b, Signed, ItemIDLen, XOnlyPubKeyLen, SchnorrSigLen)
  BY ONLY <1>1, <1>2, <1>4, ThreeFields
<1> QED
  BY ONLY <1>5 DEF InThree, Bytes

\* decodeComment, before its TLVs.
DecodedComment ==
  [tag : {Comment}, ref : Bytes(ItemIDLen), xpk : Bytes(XOnlyPubKeyLen),
   sig : Bytes(SchnorrSigLen), blob : Seq(Byte), tlvs : Seq(TLV)]

\* DecodeComment: the fields and the tuples make up the payload.
LEMMA CommentCanonical ==
  ASSUME NEW b \in Seq(Byte), Total(Signed) <= Len(b),
         NEW m, m = [tag |-> Comment, ref |-> Field(b, Signed, 1), xpk |-> Field(b, Signed, 2),
                     sig |-> Field(b, Signed, 3), blob |-> After(b, Signed), tlvs |-> <<>>]
  PROVE  /\ Fits(b, Signed) /\ After(b, Signed) \in Seq(Byte)
         /\ m \in DecodedComment
         /\ m.blob = EncodeTLVs(m.tlvs) \o After(b, Signed)
         /\ Encode(m) \o After(b, Signed) = Header(Comment) \o b
<1> DEFINE h == Header(Comment)
           f == Field(b, Signed, 1)
           g == Field(b, Signed, 2)
           k == Field(b, Signed, 3)
           e == EncodeTLVs(<<>>)
           r == After(b, Signed)
<1>1. f \in Bytes(ItemIDLen) /\ g \in Bytes(XOnlyPubKeyLen) /\ k \in Bytes(SchnorrSigLen)
  BY SignedFields
<1>2. /\ f \in Seq(Byte) /\ g \in Seq(Byte) /\ k \in Seq(Byte) /\ r \in Seq(Byte)
      /\ b = f \o (g \o (k \o r))
      /\ Fits(b, Signed)
  <2>1. InThree(b, Signed, ItemIDLen, XOnlyPubKeyLen, SchnorrSigLen)
    BY SignedFields
  <2> QED
    BY ONLY <2>1 DEF InThree
<1>3. h \in Seq(Byte)
  BY ONLY Tags, HeaderBytes
<1>4. e = <<>> /\ e \in Seq(Byte) /\ e \o r = r
  <2> HIDE DEF r, e
  <2>1. e = <<>>
    BY ONLY EncodeTLVsEmpty DEF e
  <2> QED
    BY ONLY <1>2, <2>1, CatEmpty
<1>5. /\ m.tag = Comment /\ m.ref = f /\ m.xpk = g /\ m.sig = k /\ m.blob = r /\ m.tlvs = <<>>
      /\ m = [tag |-> Comment, ref |-> f, xpk |-> g, sig |-> k, blob |-> r, tlvs |-> <<>>]
  <2> HIDE DEF f, g, k, r
  <2>1. m = [tag |-> Comment, ref |-> f, xpk |-> g, sig |-> k, blob |-> r, tlvs |-> <<>>]
    BY DEF f, g, k, r
  <2> QED
    BY ONLY <2>1
<1> HIDE DEF h, f, g, k, e, r
<1>6. IsFlatFour(h, f, g, k, e, r)
  BY ONLY <1>2, <1>3, <1>4, FlatFour
<1>7. Encode(m) = h \o (((f \o g) \o k) \o e)
  BY ONLY <1>5, EncodeIs DEF h, e
<1>8. m \in DecodedComment
  <2>1. <<>> \in Seq(TLV)
    OBVIOUS
  <2> QED
    BY ONLY <1>1, <1>2, <1>5, <2>1 DEF DecodedComment
<1>9. Encode(m) \o r = h \o b
  BY ONLY <1>2, <1>4, <1>6, <1>7, Zenon DEF IsFlatFour
<1>10. m.blob = EncodeTLVs(m.tlvs) \o r
  BY ONLY <1>4, <1>5, Zenon DEF e
<1> QED
  BY ONLY <1>2, <1>8, <1>9, <1>10 DEF h, r

\* decodeVote
LEMMA VoteCanonical ==
  ASSUME NEW b \in Seq(Byte), Len(b) = Total(Signed), NEW t \in {Upvote, Downvote},
         NEW m, m = [tag |-> t, ref |-> Field(b, Signed, 1), xpk |-> Field(b, Signed, 2),
                     sig |-> Field(b, Signed, 3)]
  PROVE  /\ Fits(b, Signed) /\ After(b, Signed) = <<>>
         /\ m \in VoteMessage
         /\ Encode(m) \o After(b, Signed) = Header(t) \o b
<1> DEFINE h == Header(t)
           f == Field(b, Signed, 1)
           g == Field(b, Signed, 2)
           k == Field(b, Signed, 3)
           r == After(b, Signed)
<1>0. Total(Signed) <= Len(b) /\ Len(b) \in Nat
  OBVIOUS
<1>1. f \in Bytes(ItemIDLen) /\ g \in Bytes(XOnlyPubKeyLen) /\ k \in Bytes(SchnorrSigLen)
  BY <1>0, SignedFields
<1>2. /\ f \in Seq(Byte) /\ g \in Seq(Byte) /\ k \in Seq(Byte) /\ r \in Seq(Byte)
      /\ b = f \o (g \o (k \o r))
      /\ Fits(b, Signed)
      /\ r = <<>>
  <2>1. InThree(b, Signed, ItemIDLen, XOnlyPubKeyLen, SchnorrSigLen)
    BY <1>0, SignedFields
  <2>2. Len(r) = Len(b) - (ItemIDLen + XOnlyPubKeyLen + SchnorrSigLen) /\ r \in Seq(Byte)
        /\ Total(Signed) = ItemIDLen + XOnlyPubKeyLen + SchnorrSigLen
    BY ONLY <2>1 DEF InThree
  <2>3. Len(r) = 0
    <3> HIDE DEF r
    <3> QED
      BY <2>2, <1>0
  <2>4. r = <<>>
    <3> HIDE DEF r
    <3> QED
      BY ONLY <2>2, <2>3, CatEmpty
  <2> QED
    BY ONLY <2>1, <2>4 DEF InThree
<1>3. h \in Seq(Byte)
  BY Tags, HeaderBytes
<1>4. /\ m.tag = t /\ m.ref = f /\ m.xpk = g /\ m.sig = k
      /\ m = [tag |-> t, ref |-> f, xpk |-> g, sig |-> k]
  <2> HIDE DEF f, g, k
  <2>1. m = [tag |-> t, ref |-> f, xpk |-> g, sig |-> k]
    BY DEF f, g, k
  <2> QED
    BY ONLY <2>1
<1> HIDE DEF h, f, g, k, r
<1>5. IsFlatThree(h, f, g, k, r)
  BY ONLY <1>2, <1>3, FlatThree
<1>6. Encode(m) = h \o ((f \o g) \o k)
  BY <1>4, EncodeIs DEF h
<1>7. m \in VoteMessage
  BY <1>1, <1>4 DEF VoteMessage
<1>8. Encode(m) \o r = h \o b
  BY ONLY <1>2, <1>5, <1>6, Zenon DEF IsFlatThree
<1> QED
  BY ONLY <1>2, <1>7, <1>8 DEF h, r

\* decodeContinuation
LEMMA ContinuationCanonical ==
  ASSUME NEW b \in Seq(Byte), NEW n \in Nat, ItemIDLen + 1 + n = Len(b),
         NEW l, l = <<ItemIDLen, 1, n>>,
         NEW m, m = [tag |-> Continuation, ref |-> Field(b, l, 1), seq |-> b[ItemIDLen + 1],
                     text |-> Field(b, l, 3)]
  PROVE  /\ Fits(b, l) /\ After(b, l) = <<>>
         /\ m \in ContinuationMessage
         /\ Encode(m) \o After(b, l) = Header(Continuation) \o b
<1> DEFINE x == ItemIDLen
           h == Header(Continuation)
           f == Field(b, l, 1)
           g == <<b[x + 1]>>
           k == Field(b, l, 3)
           r == After(b, l)
<1>0. x \in Nat /\ 1 \in Nat /\ x + 1 + n <= Len(b) /\ Len(b) \in Nat
  BY CodecAssumption
<1>1. InThree(b, l, x, 1, n)
  BY ONLY <1>0, ThreeFields, b \in Seq(Byte), n \in Nat, l = <<x, 1, n>>
<1>2. b[x + 1] \in Byte /\ SubSeq(b, x + 1, x + 1) = g /\ g \in Seq(Byte)
  <2>1. b[x + 1] \in Byte /\ SubSeq(b, x + 1, x + 1) = g
    BY <1>0, OneByte
  <2> QED
    BY <2>1
<1>3. /\ f \in Seq(Byte) /\ Len(f) = x /\ k \in Seq(Byte) /\ r \in Seq(Byte)
      /\ Len(r) = Len(b) - (x + 1 + n)
      /\ b = f \o (Field(b, l, 2) \o (k \o r)) /\ Field(b, l, 2) = SubSeq(b, x + 1, x + 1)
      /\ Fits(b, l)
  BY ONLY <1>1 DEF InThree
<1>4. r = <<>>
  <2> HIDE DEF r
  <2>1. Len(r) = 0
    BY <1>0, <1>3
  <2> QED
    BY ONLY <1>3, <2>1, CatEmpty
<1>5. h \in Seq(Byte)
  BY Tags, HeaderBytes
<1>6. /\ m.tag = Continuation /\ m.ref = f /\ m.seq = b[x + 1] /\ m.text = k
      /\ m = [tag |-> Continuation, ref |-> f, seq |-> b[x + 1], text |-> k]
  <2> HIDE DEF f, k
  <2>1. m = [tag |-> Continuation, ref |-> f, seq |-> b[x + 1], text |-> k]
    BY DEF f, k
  <2> QED
    BY ONLY <2>1
<1> HIDE DEF h, f, g, k, r
<1>7. IsFlatThree(h, f, g, k, r)
  BY ONLY <1>2, <1>3, <1>5, FlatThree
<1>8. Encode(m) = h \o ((f \o g) \o k)
  BY ONLY <1>6, EncodeIs DEF h, g
<1>9. m \in ContinuationMessage
  BY ONLY <1>2, <1>3, <1>6 DEF ContinuationMessage, Bytes, x
<1>10. Encode(m) \o r = h \o b
  BY ONLY <1>2, <1>3, <1>7, <1>8, Zenon DEF IsFlatThree
<1> QED
  BY ONLY <1>3, <1>4, <1>9, <1>10 DEF h, r

\* Of a message with TLVs, the bytes before them.
Bare(m) == Encode([m EXCEPT !.tlvs = <<>>])

\* The encoding ends with the TLV section.
LEMMA TLVSection ==
  ASSUME NEW m \in StoryMessage \cup CommentMessage \cup DecodedComment, NEW q \in Seq(TLV)
  PROVE  /\ Bare(m) \in Seq(Byte)
         /\ Encode([m EXCEPT !.tlvs = q]) = Bare(m) \o EncodeTLVs(q)
<1> DEFINE n == [m EXCEPT !.tlvs = q]
           n0 == [m EXCEPT !.tlvs = <<>>]
           e == EncodeTLVs(q)
<1>1. e \in Seq(Byte) /\ EncodeTLVs(<<>>) = <<>> /\ <<>> \in Seq(Byte)
  BY EncodeTLVsBytes, EncodeTLVsEmpty
<1>2. ASSUME NEW h, NEW a, NEW b, NEW c,
             h \in Seq(Byte), a \in Seq(Byte), b \in Seq(Byte), c \in Seq(Byte),
             Encode(n) = h \o (((a \o b) \o c) \o e),
             Encode(n0) = h \o (((a \o b) \o c) \o <<>>)
      PROVE  Encode(n0) \in Seq(Byte) /\ Encode(n) = Encode(n0) \o e
  <2> HIDE DEF n, n0, e
  <2> DEFINE p == a \o b
             u == p \o c
             hu == h \o u
  <2>1. p \in Seq(Byte)
    BY ONLY <1>2, Cat
  <2> HIDE DEF p
  <2>2. u \in Seq(Byte)
    BY ONLY <1>2, <2>1, Cat
  <2> HIDE DEF u
  <2>3. hu \in Seq(Byte)
    BY ONLY <1>2, <2>2, Cat
  <2>4. u \o <<>> = u
    BY ONLY <2>2, CatEmpty
  <2>5. (h \o u) \o e = h \o (u \o e)
    BY ONLY h \in Seq(Byte), <1>1, <2>2, CatAssociative
  <2>6. Encode(n) = h \o (u \o e) /\ Encode(n0) = h \o (u \o <<>>)
    BY ONLY <1>2, Zenon DEF p, u
  <2> QED
    BY ONLY <2>3, <2>4, <2>5, <2>6, Zenon
<1>3. CASE m \in StoryMessage
  <2>1. m.topic \in Seq(Byte) /\ m.text \in Seq(Byte) /\ Len(m.text) \in Nat
    BY <1>3 DEF StoryMessage, Bytes
  <2>2. PutCompactSize(Len(m.text)) \in Seq(Byte) /\ Header(Story) \in Seq(Byte)
    BY <2>1, PutBytes, HeaderBytes, Tags, Zenon
  <2>3. /\ n.tag = Story /\ n.topic = m.topic /\ n.text = m.text /\ n.tlvs = q
        /\ n0.tag = Story /\ n0.topic = m.topic /\ n0.text = m.text /\ n0.tlvs = <<>>
    BY <1>3 DEF StoryMessage
  <2> HIDE DEF n, n0
  <2>4. /\ Encode(n) = Header(Story) \o (((m.topic \o PutCompactSize(Len(m.text))) \o m.text) \o e)
        /\ Encode(n0) = Header(Story) \o (((m.topic \o PutCompactSize(Len(m.text))) \o m.text) \o <<>>)
    BY ONLY <1>1, <2>3, EncodeIs, Zenon
  <2> QED
    BY ONLY <1>2, <2>1, <2>2, <2>4, Zenon DEF Bare, n, n0
<1>4. CASE m \in CommentMessage \cup DecodedComment
  <2>1. m.ref \in Seq(Byte) /\ m.xpk \in Seq(Byte) /\ m.sig \in Seq(Byte)
    BY <1>4 DEF CommentMessage, DecodedComment, Bytes
  <2>2. Header(Comment) \in Seq(Byte)
    BY HeaderBytes, Tags, Zenon
  <2>3. /\ n.tag = Comment /\ n.ref = m.ref /\ n.xpk = m.xpk /\ n.sig = m.sig /\ n.tlvs = q
        /\ n0.tag = Comment /\ n0.ref = m.ref /\ n0.xpk = m.xpk /\ n0.sig = m.sig /\ n0.tlvs = <<>>
    BY <1>4 DEF CommentMessage, DecodedComment
  <2> HIDE DEF n, n0
  <2>4. /\ Encode(n) = Header(Comment) \o (((m.ref \o m.xpk) \o m.sig) \o e)
        /\ Encode(n0) = Header(Comment) \o (((m.ref \o m.xpk) \o m.sig) \o <<>>)
    BY ONLY <1>1, <2>3, EncodeIs, Zenon
  <2> QED
    BY ONLY <1>2, <2>1, <2>2, <2>4, Zenon DEF Bare, n, n0
<1> QED
  BY <1>3, <1>4

\* The same message with the TLVs that it has.
LEMMA SameMessage ==
  ASSUME NEW m \in StoryMessage \cup CommentMessage \cup DecodedComment
  PROVE  m = [m EXCEPT !.tlvs = m.tlvs] /\ m.tlvs \in Seq(TLV)
BY DEF StoryMessage, CommentMessage, DecodedComment

\* One turn of the loop of DecodeTLVs.
LEMMA TLVCanonical ==
  ASSUME NEW b \in Seq(Byte), b # <<>>,
         NEW s \in ReadCompactSize(Tail(b)),
         NEW l, l = <<1, s.used, s.n>>, Total(l) <= Len(b),
         NEW t, t = [tag |-> b[1], value |-> Field(b, l, 3)]
  PROVE  /\ Fits(b, l) /\ After(b, l) \in Seq(Byte)
         /\ t \in TLV
         /\ b = EncodeTLV(t) \o After(b, l)
<1> DEFINE v == Field(b, l, 3)
           p == PutCompactSize(Len(v))
           r == After(b, l)
           a == <<b[1]>>
<1>1. 1 \in Nat /\ 1 <= Len(b) /\ b[1] \in Byte /\ Tail(b) = SubSeq(b, 1 + 1, Len(b)) /\ a \in Seq(Byte)
  OBVIOUS
<1>2. InSized(b, l, 1)
  BY ONLY <1>1, SizedField, b \in Seq(Byte), s \in ReadCompactSize(Tail(b)),
          l = <<1, s.used, s.n>>, Total(l) <= Len(b)
<1>3. v \in Seq(Byte) /\ r \in Seq(Byte) /\ Fits(b, l) /\ b = SubSeq(b, 1, 1) \o (p \o (v \o r))
  BY ONLY <1>2 DEF InSized
<1>4. SubSeq(b, 1, 1) = a
  <2>1. 0 \in Nat /\ 0 + 1 <= Len(b) /\ 0 + 1 = 1
    BY <1>1
  <2> QED
    BY ONLY <2>1, OneByte, b \in Seq(Byte)
<1>5. t = [tag |-> b[1], value |-> v] /\ t.tag = b[1] /\ t.value = v
  <2> HIDE DEF v
  <2>1. t = [tag |-> b[1], value |-> v]
    BY DEF v
  <2> QED
    BY ONLY <2>1
<1> HIDE DEF v, p, r, a
<1>6. t \in TLV
  BY ONLY <1>1, <1>3, <1>5 DEF TLV
<1>7. p \in Seq(Byte)
  <2>1. Len(v) \in Nat
    BY ONLY <1>3
  <2> QED
    BY ONLY <2>1, PutBytes DEF p
<1>8. EncodeTLV(t) = a \o (p \o v)
  BY ONLY <1>5, <1>6, EncodeTLVBytes, Zenon DEF a, p
<1>9. (a \o (p \o v)) \o r = a \o (p \o (v \o r))
  <2> DEFINE u == p \o v
  <2>1. u \in Seq(Byte)
    BY ONLY <1>3, <1>7, Cat
  <2>2. (p \o v) \o r = p \o (v \o r)
    BY ONLY <1>3, <1>7, CatAssociative
  <2> HIDE DEF u
  <2>3. (a \o u) \o r = a \o (u \o r)
    BY ONLY <1>1, <1>3, <2>1, CatAssociative
  <2> QED
    BY ONLY <2>2, <2>3, Zenon DEF u
<1> QED
  BY ONLY <1>3, <1>4, <1>6, <1>8, <1>9, Zenon DEF r

\* One tuple read: m and b become n and r.
TupleRead(m, b, n, r) ==
  /\ EncodeTLVs(n.tlvs) \o r = EncodeTLVs(m.tlvs) \o b
  /\ Encode(n) \o r = Encode(m) \o b

\* One tuple moves from what is left to what is decoded.
LEMMA TLVStep ==
  ASSUME NEW m \in StoryMessage \cup DecodedComment, NEW b \in Seq(Byte), NEW r \in Seq(Byte),
         NEW t \in TLV, b = EncodeTLV(t) \o r,
         NEW n, n = [m EXCEPT !.tlvs = Append(m.tlvs, t)]
  PROVE  TupleRead(m, b, n, r)
<1> DEFINE q == m.tlvs
           q2 == Append(q, t)
           e == EncodeTLVs(q)
           f == EncodeTLV(t)
           c == Bare(m)
<1>1. q \in Seq(TLV) /\ m = [m EXCEPT !.tlvs = q]
  BY SameMessage
<1>2. q2 \in Seq(TLV) /\ n = [m EXCEPT !.tlvs = q2] /\ n.tlvs = q2
  <2>1. n.tlvs = q2
    BY DEF StoryMessage, DecodedComment
  <2> QED
    BY <1>1, <2>1
<1>3. e \in Seq(Byte) /\ EncodeTLVs(q2) = e \o f /\ f \in Seq(Byte)
  BY <1>1, EncodeTLVsBytes, EncodeTLVsAppend, EncodeTLVBytes, Zenon
<1>4. c \in Seq(Byte) /\ Encode(m) = c \o e /\ Encode(n) = c \o (e \o f)
  BY <1>1, <1>2, <1>3, TLVSection, Zenon
<1>5. b = f \o r /\ r \in Seq(Byte) /\ b \in Seq(Byte)
  OBVIOUS
<1> HIDE DEF q, q2, e, f, c
<1>6. (e \o f) \o r = e \o (f \o r)
  BY ONLY <1>3, r \in Seq(Byte), CatAssociative
<1>7. e \o f \in Seq(Byte)
  BY ONLY <1>3, Cat
<1>8. (c \o (e \o f)) \o r = c \o ((e \o f) \o r)
  <2> DEFINE g == e \o f
  <2>1. g \in Seq(Byte)
    BY ONLY <1>7
  <2> HIDE DEF g
  <2>2. (c \o g) \o r = c \o (g \o r)
    BY ONLY <1>4, <2>1, r \in Seq(Byte), CatAssociative
  <2> QED
    BY ONLY <2>2, Zenon DEF g
<1>9. (c \o e) \o b = c \o (e \o b)
  BY ONLY <1>3, <1>4, b \in Seq(Byte), CatAssociative
<1> QED
  BY ONLY <1>2, <1>3, <1>4, <1>5, <1>6, <1>8, <1>9, Zenon DEF q, e, TupleRead

-----------------------------------------------------------------------------
\* The invariant.

Decoded == TopicMessage \cup StoryMessage \cup DecodedComment \cup VoteMessage \cup ContinuationMessage

\* What the variables hold, and that no slice was out of range.
TypeInv ==
  /\ pc \in PCs \ {"panic"}
  /\ script \in Seq(Byte) /\ payload \in Seq(Byte) /\ rest \in Seq(Byte)
  /\ sent \subseteq Messages

\* What is decoded and what is not make up the payload.
DecodedInv ==
  /\ pc = "body" =>
       /\ msg.tag \in {TopicCreation, Story, Comment, Upvote, Downvote, Continuation}
       /\ payload = Header(msg.tag) \o rest
  /\ pc \in {"tlvs", "verify", "row", "done"} =>
       /\ msg \in Decoded
       /\ Encode(msg) \o rest = payload
       /\ msg.tag = Comment => msg.blob = EncodeTLVs(msg.tlvs) \o rest
  /\ pc = "tlvs" => msg.tag \in {Story, Comment}
  /\ pc = "verify" => msg.tag \in {Comment, Upvote, Downvote}
  /\ pc \in {"verify", "row", "done"} => rest = <<>>

\* The bytes that a signature covers.
Blob == IF msg.tag = Comment THEN msg.blob ELSE <<>>

\* What is indexed is signed, and a row keeps the TLV section.
RowInv ==
  /\ pc \in {"row", "done"} /\ msg.tag \in {Comment, Upvote, Downvote} =>
       VerifySchnorr(msg.xpk, msg.sig, SigHash(msg, Blob))
  /\ pc = "done" /\ msg.tag \in {Story, Comment} => row.raw = EncodeTLVs(msg.tlvs)

DecoderInv == TypeInv /\ DecodedInv /\ RowInv

\* Which messages have which tags.
LEMMA ByTag ==
  ASSUME NEW m \in Decoded
  PROVE  /\ m.tag = Story => m \in StoryMessage
         /\ m.tag = Comment => m \in DecodedComment
         /\ m.tag \in {Upvote, Downvote} => m \in VoteMessage
         /\ m.tag = TopicCreation => m \in TopicMessage
         /\ m.tag = Continuation => m \in ContinuationMessage
BY Tags DEF Decoded, TopicMessage, StoryMessage, DecodedComment, VoteMessage, ContinuationMessage

\* Every published message is a sequence of bytes, and so is its script.
LEMMA EncodeBytes ==
  ASSUME NEW m \in TopicMessage \cup StoryMessage \cup CommentMessage \cup VoteMessage
                    \cup ContinuationMessage
  PROVE  Encode(m) \in Seq(Byte)
<1>1. CASE m \in StoryMessage \cup CommentMessage
  <2>1. m = [m EXCEPT !.tlvs = m.tlvs] /\ m.tlvs \in Seq(TLV)
    BY <1>1, SameMessage
  <2>2. Bare(m) \in Seq(Byte) /\ Encode(m) = Bare(m) \o EncodeTLVs(m.tlvs)
    BY <1>1, <2>1, TLVSection, Zenon
  <2>3. EncodeTLVs(m.tlvs) \in Seq(Byte)
    BY <2>1, EncodeTLVsBytes
  <2> QED
    BY ONLY <2>2, <2>3, Cat
<1>2. CASE m \in TopicMessage
  <2>1. /\ m.topic \in Seq(Byte) /\ m.text \in Seq(Byte) /\ Len(m.text) \in Nat /\ m.days \in Byte
        /\ <<m.days>> \in Seq(Byte) /\ m.tag = TopicCreation
    BY <1>2 DEF TopicMessage, Bytes
  <2>2. PutCompactSize(Len(m.text)) \in Seq(Byte) /\ Header(TopicCreation) \in Seq(Byte)
    BY <2>1, PutBytes, HeaderBytes, Tags, Zenon
  <2>3. IsFlatFour(Header(TopicCreation), m.topic, <<m.days>>, PutCompactSize(Len(m.text)),
                   m.text, m.text)
    BY ONLY <2>1, <2>2, FlatFour, Zenon
  <2>4. Encode(m) = Header(TopicCreation) \o
              (((m.topic \o <<m.days>>) \o PutCompactSize(Len(m.text))) \o m.text)
    BY ONLY <2>1, EncodeIs, Zenon
  <2> QED
    BY ONLY <2>3, <2>4, Zenon DEF IsFlatFour
<1>3. CASE m \in VoteMessage
  <2>1. /\ m.ref \in Seq(Byte) /\ m.xpk \in Seq(Byte) /\ m.sig \in Seq(Byte)
        /\ m.tag \in {Upvote, Downvote}
    BY <1>3 DEF VoteMessage, Bytes
  <2>2. Header(m.tag) \in Seq(Byte)
    BY <2>1, HeaderBytes, Tags
  <2>3. IsFlatThree(Header(m.tag), m.ref, m.xpk, m.sig, m.sig)
    BY ONLY <2>1, <2>2, FlatThree, Zenon
  <2>4. Encode(m) = Header(m.tag) \o ((m.ref \o m.xpk) \o m.sig)
    BY ONLY <2>1, EncodeIs, Zenon
  <2> QED
    BY ONLY <2>3, <2>4, Zenon DEF IsFlatThree
<1>4. CASE m \in ContinuationMessage
  <2>1. /\ m.ref \in Seq(Byte) /\ m.seq \in Byte /\ m.text \in Seq(Byte) /\ <<m.seq>> \in Seq(Byte)
        /\ m.tag = Continuation
    BY <1>4 DEF ContinuationMessage, Bytes
  <2>2. Header(Continuation) \in Seq(Byte)
    BY <2>1, HeaderBytes, Tags
  <2>3. IsFlatThree(Header(Continuation), m.ref, <<m.seq>>, m.text, m.text)
    BY ONLY <2>1, <2>2, FlatThree, Zenon
  <2>4. Encode(m) = Header(Continuation) \o ((m.ref \o <<m.seq>>) \o m.text)
    BY ONLY <2>1, EncodeIs, Zenon
  <2> QED
    BY ONLY <2>3, <2>4, Zenon DEF IsFlatThree
<1> QED
  BY <1>1, <1>2, <1>3, <1>4

\* A script that pushes a payload, and what parsePush reads in it.
IsPush(b, pre, data) ==
  /\ pre \in Seq(Byte)
  /\ b = (<<OpReturn>> \o pre) \o data
  /\ PushSize(pre \o data) = {[n |-> Len(data), used |-> Len(pre)]}

\* Every push of the publisher's wallet is one that parsePush reads back.
LEMMA PushIs ==
  ASSUME NEW data \in Seq(Byte), Len(data) < Base * Base
  PROVE  \E pre : IsPush(Push(data), pre, data)
<1> DEFINE n == Len(data)
           one == <<n>>
           two == <<PushData1, n>>
           three == <<PushData2, n % Base, n \div Base>>
<1>0. n \in Nat /\ n < Base * Base /\ Base \in Nat /\ Base > 6
  BY Bases
<1>1. /\ OpReturn \in Byte /\ PushData1 \in Byte /\ PushData2 \in Byte /\ MaxDirect \in Nat
      /\ MaxDirect < Base /\ PushData1 \notin 1 .. MaxDirect /\ PushData2 \notin 1 .. MaxDirect
      /\ PushData1 # PushData2
  BY OpcodesAssumption, Bases
<1>2. CASE n \in 1 .. MaxDirect
  <2>1. n \in Byte
    BY <1>0, <1>1, <1>2, Bases
  <2>2. one \in Seq(Byte) /\ Len(one) = 1 /\ one[1] = n
    BY <2>1
  <2>3. Push(data) = (<<OpReturn>> \o one) \o data
    BY <1>2 DEF Push
  <2> DEFINE c == one \o data
  <2>4. c # <<>> /\ c[1] = n
    <3> HIDE DEF one
    <3>1. c \in Seq(Byte) /\ Len(c) = Len(one) + n /\ \A i \in 1 .. Len(one) : c[i] = one[i]
      BY <2>2, Cat
    <3> HIDE DEF c
    <3> QED
      BY <1>0, <2>2, <3>1
  <2> HIDE DEF c, one
  <2>5. PushSize(c) = {[n |-> n, used |-> 1]}
    <3> HIDE DEF n
    <3> QED
      BY ONLY <1>1, <1>2, <2>4 DEF PushSize, Size
  <2> QED
    BY <2>2, <2>3, <2>5 DEF IsPush, c
<1>3. CASE n \notin 1 .. MaxDirect /\ n < Base
  <2>1. n \in Byte
    BY <1>0, <1>3, Bases
  <2>2. two \in Seq(Byte) /\ Len(two) = 2 /\ two[1] = PushData1 /\ two[2] = n
    BY <1>1, <2>1
  <2>3. Push(data) = (<<OpReturn>> \o two) \o data
    BY <1>3 DEF Push
  <2> DEFINE c == two \o data
  <2>4. c # <<>> /\ c[1] = PushData1 /\ c[2] = n /\ Len(c) > 1
    <3> HIDE DEF two
    <3>1. c \in Seq(Byte) /\ Len(c) = Len(two) + n /\ \A i \in 1 .. Len(two) : c[i] = two[i]
      BY <2>2, Cat
    <3> HIDE DEF c
    <3> QED
      BY <1>0, <2>2, <3>1
  <2> HIDE DEF c, two
  <2>5. PushSize(c) = {[n |-> n, used |-> 2]}
    <3> HIDE DEF n
    <3> QED
      BY ONLY <1>1, <2>4 DEF PushSize, Size
  <2> QED
    BY <2>2, <2>3, <2>5 DEF IsPush, c
<1>4. CASE n \notin 1 .. MaxDirect /\ ~(n < Base)
  <2>1. n % Base \in Byte /\ n \div Base \in Byte /\ n = (n % Base) + Base * (n \div Base)
    <3>1. n % Base \in 0 .. Base - 1 /\ n \div Base \in Nat /\ n = (n % Base) + Base * (n \div Base)
      BY <1>0, DivMod
    <3>2. n \div Base < Base
      BY <1>0, Quotient
    <3> QED
      BY <1>0, <3>1, <3>2, Bases
  <2>2. /\ three \in Seq(Byte) /\ Len(three) = 3
        /\ three[1] = PushData2 /\ three[2] = n % Base /\ three[3] = n \div Base
    BY <1>1, <2>1
  <2>3. Push(data) = (<<OpReturn>> \o three) \o data
    BY <1>4 DEF Push
  <2> DEFINE c == three \o data
  <2>4. c # <<>> /\ c[1] = PushData2 /\ c[2] + Base * c[3] = n /\ Len(c) > 2
    <3> HIDE DEF three
    <3>1. c \in Seq(Byte) /\ Len(c) = Len(three) + n /\ \A i \in 1 .. Len(three) : c[i] = three[i]
      BY <2>2, Cat
    <3> HIDE DEF c
    <3>2. c[1] = PushData2 /\ c[2] = n % Base /\ c[3] = n \div Base
      BY <2>2, <3>1
    <3> QED
      BY <1>0, <2>1, <2>2, <3>1, <3>2
  <2> HIDE DEF c, three
  <2>5. PushSize(c) = {[n |-> n, used |-> 3]}
    <3> HIDE DEF n
    <3> QED
      BY ONLY <1>1, <2>4 DEF PushSize, Size
  <2> QED
    BY <2>2, <2>3, <2>5 DEF IsPush, c
<1> QED
  BY <1>2, <1>3, <1>4

-----------------------------------------------------------------------------
\* Every step keeps the invariant.

\* The invariant holds before the output is looked at.
LEMMA DecoderInit == Init => DecoderInv
<1> SUFFICES ASSUME Init PROVE DecoderInv
  OBVIOUS
<1>1. script \in Seq(Byte) /\ sent \subseteq Messages
  <2>1. CASE sent = {} /\ script \in Scripts
    BY <2>1, MessagesAssumption
  <2>2. CASE \E m \in Messages : sent = {m} /\ script = Push(Encode(m))
    <3>1. PICK m \in Messages : sent = {m} /\ script = Push(Encode(m))
      BY <2>2
    <3> DEFINE data == Encode(m)
    <3>2. data \in Seq(Byte) /\ Len(data) < Base * Base
      BY MessagesAssumption, EncodeBytes
    <3> HIDE DEF data
    <3>3. PICK pre : IsPush(Push(data), pre, data)
      BY <3>2, PushIs
    <3>4. <<OpReturn>> \in Seq(Byte)
      BY OpcodesAssumption
    <3>5. <<OpReturn>> \o pre \in Seq(Byte)
      BY ONLY <3>3, <3>4, Cat DEF IsPush
    <3>6. (<<OpReturn>> \o pre) \o data \in Seq(Byte)
      BY ONLY <3>2, <3>5, Cat
    <3> QED
      BY <3>1, <3>3, <3>6 DEF IsPush, data
  <2> QED
    BY <2>1, <2>2 DEF Init
<1>2. /\ pc = "script" /\ payload = <<>> /\ rest = <<>>
  BY DEF Init
<1> QED
  BY <1>1, <1>2 DEF DecoderInv, TypeInv, DecodedInv, RowInv, PCs

\* An output that is passed over.
LEMMA SkipStep ==
  ASSUME DecoderInv, Skip
  PROVE  DecoderInv'
<1>1. pc' = "skipped" /\ UNCHANGED <<sent, script, payload, rest>>
  BY DEF Skip
<1>2. TypeInv'
  BY <1>1 DEF DecoderInv, TypeInv, PCs
<1>3. DecodedInv' /\ RowInv'
  BY <1>1 DEF DecodedInv, RowInv
<1> QED
  BY <1>2, <1>3 DEF DecoderInv

\* A changed copy is a script like any other.
LEMMA CopyStep ==
  ASSUME DecoderInv, Copy
  PROVE  DecoderInv'
<1>1. pc = "script" /\ UNCHANGED <<sent, pc, payload, rest, msg, row>>
  BY DEF Copy
<1>2. script' \in Seq(Byte)
  <2>0. script \in Seq(Byte)
    BY DEF DecoderInv, TypeInv
  <2>1. CASE \E i \in DOMAIN script, b \in Byte : script' = [script EXCEPT ![i] = b]
    BY <2>0, <2>1
  <2>2. CASE \E b \in Byte : script' = Append(script, b)
    BY <2>0, <2>2
  <2>3. CASE script' = Front(script)
    BY <2>0, <2>3 DEF Front
  <2> QED
    BY <2>1, <2>2, <2>3 DEF Copy
<1>3. TypeInv'
  BY <1>1, <1>2 DEF DecoderInv, TypeInv
<1>4. DecodedInv' /\ RowInv'
  BY <1>1 DEF DecodedInv, RowInv
<1> QED
  BY <1>3, <1>4 DEF DecoderInv

\* The slice that OpReturnPayload returns.
LEMMA OpReturnPayloadStep ==
  ASSUME DecoderInv, OpReturnPayload
  PROVE  DecoderInv'
<1>1. CASE Skip
  BY <1>1, SkipStep
<1>2. ASSUME NEW s \in PushSize(Tail(script)), script # <<>>,
             Len(script) - 1 - s.used >= s.n,
             payload' = SubSeq(script, 2 + s.used, 1 + s.used + s.n),
             pc' = "payload",
             UNCHANGED <<sent, copied, script, rest, msg, row>>
      PROVE  DecoderInv'
  <2>1. script \in Seq(Byte) /\ Len(script) \in Nat /\ Tail(script) \in Seq(Byte)
    BY <1>2 DEF DecoderInv, TypeInv
  <2> DEFINE c == Tail(script)
  <2>2. s.n \in Nat /\ s.used \in Nat
    <3> HIDE DEF c
    <3>1. c \in Seq(Byte) /\ s \in PushSize(c)
      BY <1>2, <2>1 DEF c
    <3>2. Base \in Nat /\ MaxDirect \in Nat
      BY Bases, OpcodesAssumption
    <3>3. \A i \in 1 .. Len(c) : c[i] \in Nat
      BY <3>1, Bases
    <3>4. c # <<>> => Len(c) >= 1 /\ Len(c) \in Nat
      BY <3>1
    <3> DEFINE op == IF c = <<>> THEN 0 ELSE c[1]
    <3>5. CASE op \in 1 .. MaxDirect
      <4>1. s = [n |-> op, used |-> 1]
        BY <3>1, <3>5, OpcodesAssumption DEF PushSize, Size
      <4> QED
        BY <3>2, <3>5, <4>1
    <3>6. CASE op \notin 1 .. MaxDirect /\ op = PushData1 /\ Len(c) > 1
      <4>1. s = [n |-> c[2], used |-> 2]
        BY <3>1, <3>6, OpcodesAssumption DEF PushSize, Size
      <4> QED
        BY <3>1, <3>3, <3>6, <4>1
    <3>7. CASE op \notin 1 .. MaxDirect /\ op = PushData2 /\ Len(c) > 2
      <4>1. s = [n |-> c[2] + Base * c[3], used |-> 3]
        BY <3>1, <3>7, OpcodesAssumption DEF PushSize, Size
      <4>2. c[2] \in Nat /\ c[3] \in Nat
        BY <3>1, <3>3, <3>7
      <4> QED
        BY <3>2, <4>1, <4>2
    <3>8. op \in 1 .. MaxDirect \/ (op \notin 1 .. MaxDirect /\ op = PushData1 /\ Len(c) > 1)
            \/ (op \notin 1 .. MaxDirect /\ op = PushData2 /\ Len(c) > 2)
      BY <3>1, OpcodesAssumption DEF PushSize, Size
    <3> QED
      BY <3>5, <3>6, <3>7, <3>8
  <2> DEFINE u == 1 + s.used
             n == s.n
  <2>3. u \in Nat /\ n \in Nat /\ u + n <= Len(script) /\ 2 + s.used = u + 1 /\ 1 + s.used + s.n = u + n
    BY <1>2, <2>1, <2>2
  <2> HIDE DEF u, n
  <2>4. SubSeq(script, u + 1, u + n) \in Seq(Byte)
    BY ONLY <2>1, <2>3, CutAt
  <2>5. payload' \in Seq(Byte)
    BY ONLY <1>2, <2>3, <2>4
  <2>6. TypeInv'
    BY <1>2, <2>5 DEF DecoderInv, TypeInv, PCs
  <2> QED
    BY <1>2, <2>6 DEF DecoderInv, DecodedInv, RowInv
<1> QED
  BY <1>1, <1>2 DEF OpReturnPayload

\* DecodeMessage: the header and what follows it.
LEMMA DecodeMessageStep ==
  ASSUME DecoderInv, DecodeMessage
  PROVE  DecoderInv'
<1>1. CASE Skip
  BY <1>1, SkipStep
<1>2. ASSUME Len(payload) >= 3, SubSeq(payload, 1, 2) = Magic,
             payload[3] \in {TopicCreation, Story, Comment, Upvote, Downvote, Continuation},
             Goto("body", payload, << 3 >>, [tag |-> payload[3]])
      PROVE  DecoderInv'
  <2>1. payload \in Seq(Byte) /\ 3 \in Nat /\ 2 \in Nat /\ 2 + 1 = 3
    BY DEF DecoderInv, TypeInv
  <2> DEFINE b == payload
             l == <<3>>
             r == After(b, l)
  <2>2. Fits(b, l) /\ r \in Seq(Byte) /\ SubSeq(b, 1, 3) \o r = b
    BY <1>2, <2>1, OneField
  <2>3. SubSeq(b, 1, 3) = Header(b[3])
    <3> DEFINE w == SubSeq(b, 1, 3)
    <3>1. w \in Seq(Byte) /\ Len(w) = 3 /\ w[3] = b[3] /\ SubSeq(w, 1, 2) = SubSeq(b, 1, 2)
      BY <1>2, <2>1
    <3> HIDE DEF w
    <3>2. SubSeq(w, 1, 2) \o SubSeq(w, 2 + 1, Len(w)) = w
      BY <3>1, Cut
    <3>3. SubSeq(w, 2 + 1, 2 + 1) = <<w[2 + 1]>>
      BY ONLY <2>1, <3>1, OneByte
    <3> QED
      BY ONLY <1>2, <2>1, <3>1, <3>2, <3>3 DEF Header, w
  <2>4. /\ pc' = "body" /\ rest' = r /\ msg' = [tag |-> b[3]]
        /\ UNCHANGED <<sent, copied, script, payload, row>>
    BY <1>2, <2>2 DEF Goto
  <2> HIDE DEF r, l
  <2>5. TypeInv'
    BY <2>2, <2>4 DEF DecoderInv, TypeInv, PCs
  <2>6. msg'.tag = b[3]
    BY <2>4
  <2>7. DecodedInv'
    BY ONLY <1>2, <2>2, <2>3, <2>4, <2>6 DEF DecodedInv
  <2>8. RowInv'
    BY ONLY <2>4 DEF RowInv
  <2> QED
    BY <2>5, <2>7, <2>8 DEF DecoderInv
<1> QED
  BY <1>1, <1>2 DEF DecodeMessage

\* Where the decoder of a type goes on.
NextPC(l, m, r) ==
  \/ l = "tlvs" /\ m.tag = Story
  \/ l = "tlvs" /\ m.tag = Comment /\ m.blob = EncodeTLVs(m.tlvs) \o r
  \/ l = "verify" /\ r = <<>> /\ m.tag \in {Upvote, Downvote}
  \/ l = "row" /\ r = <<>> /\ m.tag \in {TopicCreation, Continuation}

\* What the decoders of a body have in common.
LEMMA BodyStep ==
  ASSUME DecoderInv, pc = "body", NEW l, NEW m, NEW r, r \in Seq(Byte), m \in Decoded,
         Encode(m) \o r = Header(msg.tag) \o rest, NextPC(l, m, r),
         pc' = l, rest' = r, msg' = m, UNCHANGED <<sent, copied, script, payload, row>>
  PROVE  DecoderInv'
<1>1. TypeInv'
  BY DEF DecoderInv, TypeInv, PCs, NextPC
<1>2. payload = Header(msg.tag) \o rest
  BY DEF DecoderInv, DecodedInv
<1>3. Encode(msg') \o rest' = payload'
  BY <1>2, Zenon
<1>4. DecodedInv'
  <2>1. CASE l = "tlvs" /\ m.tag = Story
    BY ONLY <1>3, <2>1, m \in Decoded, pc' = l, rest' = r, msg' = m, Tags DEF DecodedInv
  <2>2. CASE l = "tlvs" /\ m.tag = Comment /\ m.blob = EncodeTLVs(m.tlvs) \o r
    BY ONLY <1>3, <2>2, m \in Decoded, pc' = l, rest' = r, msg' = m, Tags DEF DecodedInv
  <2>3. CASE l = "verify" /\ r = <<>> /\ m.tag \in {Upvote, Downvote}
    BY ONLY <1>3, <2>3, m \in Decoded, pc' = l, rest' = r, msg' = m, Tags DEF DecodedInv
  <2>4. CASE l = "row" /\ r = <<>> /\ m.tag \in {TopicCreation, Continuation}
    BY ONLY <1>3, <2>4, m \in Decoded, pc' = l, rest' = r, msg' = m, Tags DEF DecodedInv
  <2> QED
    BY <2>1, <2>2, <2>3, <2>4 DEF NextPC
<1>5. RowInv'
  BY Tags DEF RowInv, NextPC
<1> QED
  BY <1>1, <1>4, <1>5 DEF DecoderInv

\* DecodeTopicCreation keeps the invariant.
LEMMA TopicStep ==
  ASSUME DecoderInv, DecodeTopicCreation
  PROVE  DecoderInv'
<1>1. CASE Skip
  BY <1>1, SkipStep
<1>2. ASSUME NEW s \in ReadCompactSize(After(rest, <<TopicLen, 1>>)), NEW l,
             l = <<TopicLen, 1, s.used, s.n>>, Len(rest) >= TopicLen + 1, Len(rest) = Total(l),
             Goto("row", rest, l, [tag |-> TopicCreation, topic |-> Field(rest, l, 1),
                                   days |-> rest[TopicLen + 1], text |-> Field(rest, l, 4)])
      PROVE  DecoderInv'
  <2>1. rest \in Seq(Byte) /\ Len(rest) \in Nat /\ TopicLen \in Nat /\ TopicLen + 1 <= Len(rest)
    BY <1>2, CodecAssumption DEF DecoderInv, TypeInv
  <2> DEFINE m == [tag |-> TopicCreation, topic |-> Field(rest, l, 1),
                   days |-> rest[TopicLen + 1], text |-> Field(rest, l, 4)]
             r == After(rest, l)
  <2>2. m.tag = TopicCreation
    OBVIOUS
  <2> HIDE DEF m
  <2>3. Fits(rest, l) /\ r = <<>> /\ m \in TopicMessage /\ Encode(m) = Header(TopicCreation) \o rest
    BY <1>2, <2>1, TopicCanonical DEF m
  <2>4. pc = "body" /\ msg.tag = TopicCreation
    BY DEF DecodeTopicCreation
  <2>5. Encode(m) \o r = Header(msg.tag) \o rest
    <3>1. Encode(m) \in Seq(Byte)
      BY <2>3, EncodeBytes
    <3>2. Encode(m) \o r = Encode(m)
      BY ONLY <2>3, <3>1, CatEmpty
    <3> QED
      BY ONLY <2>3, <2>4, <3>2
  <2>6. /\ pc' = "row" /\ rest' = r /\ msg' = m /\ UNCHANGED <<sent, copied, script, payload, row>>
    BY <1>2, <2>3 DEF Goto, m
  <2>7. r \in Seq(Byte) /\ m \in Decoded /\ NextPC("row", m, r)
    BY <2>2, <2>3 DEF Decoded, NextPC
  <2> HIDE DEF r
  <2> QED
    BY ONLY DecoderInv, <2>4, <2>5, <2>6, <2>7, BodyStep
<1> QED
  BY <1>1, <1>2 DEF DecodeTopicCreation

\* DecodeStory keeps the invariant.
LEMMA StoryStep ==
  ASSUME DecoderInv, DecodeStory
  PROVE  DecoderInv'
<1>1. CASE Skip
  BY <1>1, SkipStep
<1>2. ASSUME NEW s \in ReadCompactSize(After(rest, <<TopicLen>>)), NEW l,
             l = <<TopicLen, s.used, s.n>>, Len(rest) >= TopicLen, ~ (Len(rest) < Total(l)),
             Goto("tlvs", rest, l, [tag |-> Story, topic |-> Field(rest, l, 1),
                                    text |-> Field(rest, l, 3), tlvs |-> <<>>])
      PROVE  DecoderInv'
  <2>1. rest \in Seq(Byte) /\ Len(rest) \in Nat /\ TopicLen \in Nat /\ TopicLen <= Len(rest)
    BY <1>2, CodecAssumption DEF DecoderInv, TypeInv
  <2> DEFINE m == [tag |-> Story, topic |-> Field(rest, l, 1), text |-> Field(rest, l, 3),
                   tlvs |-> <<>>]
             r == After(rest, l)
  <2>2. m.tag = Story
    OBVIOUS
  <2>3. Total(l) <= Len(rest)
    <3>1. After(rest, <<TopicLen>>) \in Seq(Byte)
      BY <2>1, OneField
    <3>2. s.n \in Nat /\ s.used \in Nat
      BY <3>1, ReadIsCanonical
    <3>3. Total(l) \in Nat
      BY <1>2, <2>1, <3>2, TotalThree
    <3> QED
      BY <1>2, <2>1, <3>3
  <2> HIDE DEF m
  <2>4. /\ Fits(rest, l) /\ r \in Seq(Byte) /\ m \in StoryMessage
        /\ Encode(m) \o r = Header(Story) \o rest
    BY <1>2, <2>1, <2>3, StoryCanonical DEF m
  <2>5. pc = "body" /\ msg.tag = Story
    BY DEF DecodeStory
  <2>6. Encode(m) \o r = Header(msg.tag) \o rest
    BY ONLY <2>4, <2>5
  <2>7. /\ pc' = "tlvs" /\ rest' = r /\ msg' = m /\ UNCHANGED <<sent, copied, script, payload, row>>
    BY <1>2, <2>4 DEF Goto, m
  <2>8. r \in Seq(Byte) /\ m \in Decoded /\ NextPC("tlvs", m, r)
    BY <2>2, <2>4 DEF Decoded, NextPC
  <2> HIDE DEF r
  <2> QED
    BY ONLY DecoderInv, <2>5, <2>6, <2>7, <2>8, BodyStep
<1> QED
  <2>1. rest \in Seq(Byte)
    BY DEF DecoderInv, TypeInv
  <2> QED
    BY <1>1, <1>2, <2>1 DEF DecodeStory

\* DecodeComment keeps the invariant.
LEMMA CommentStep ==
  ASSUME DecoderInv, DecodeComment
  PROVE  DecoderInv'
<1>1. CASE Skip
  BY <1>1, SkipStep
<1> DEFINE m == [tag |-> Comment, ref |-> Field(rest, Signed, 1), xpk |-> Field(rest, Signed, 2),
                 sig |-> Field(rest, Signed, 3), blob |-> After(rest, Signed), tlvs |-> <<>>]
           r == After(rest, Signed)
<1>2. ASSUME Len(rest) >= Total(Signed), Goto("tlvs", rest, Signed, m)
      PROVE  DecoderInv'
  <2>1. rest \in Seq(Byte) /\ Total(Signed) <= Len(rest)
    BY <1>2 DEF DecoderInv, TypeInv
  <2>2. m.tag = Comment
    OBVIOUS
  <2>3. /\ Fits(rest, Signed) /\ r \in Seq(Byte) /\ m \in DecodedComment
        /\ m.blob = EncodeTLVs(m.tlvs) \o r
        /\ Encode(m) \o r = Header(Comment) \o rest
    <3> HIDE DEF m
    <3> QED
      BY <2>1, CommentCanonical DEF m
  <2> HIDE DEF m
  <2>4. pc = "body" /\ msg.tag = Comment
    BY DEF DecodeComment
  <2>5. Encode(m) \o r = Header(msg.tag) \o rest
    BY ONLY <2>3, <2>4
  <2>6. /\ pc' = "tlvs" /\ rest' = r /\ msg' = m /\ UNCHANGED <<sent, copied, script, payload, row>>
    BY <1>2, <2>3 DEF Goto
  <2>7. r \in Seq(Byte) /\ m \in Decoded /\ NextPC("tlvs", m, r)
    BY <2>2, <2>3 DEF Decoded, NextPC
  <2> HIDE DEF r
  <2> QED
    BY ONLY DecoderInv, <2>4, <2>5, <2>6, <2>7, BodyStep
<1> QED
  <2>1. Len(rest) < Total(Signed) \/ Len(rest) >= Total(Signed)
    <3>1. rest \in Seq(Byte) /\ Len(rest) \in Nat
      BY DEF DecoderInv, TypeInv
    <3>2. Total(Signed) \in Nat
      BY CodecAssumption, TotalThree DEF Signed
    <3> QED
      BY <3>1, <3>2
  <2> QED
    BY <1>1, <1>2, <2>1 DEF DecodeComment

\* DecodeVote keeps the invariant.
LEMMA VoteStep ==
  ASSUME DecoderInv, DecodeVote
  PROVE  DecoderInv'
<1>1. CASE Skip
  BY <1>1, SkipStep
<1> DEFINE m == [tag |-> msg.tag, ref |-> Field(rest, Signed, 1), xpk |-> Field(rest, Signed, 2),
                 sig |-> Field(rest, Signed, 3)]
           r == After(rest, Signed)
<1>2. ASSUME Len(rest) = Total(Signed), Goto("verify", rest, Signed, m)
      PROVE  DecoderInv'
  <2>1. rest \in Seq(Byte)
    BY <1>2 DEF DecoderInv, TypeInv
  <2>2. m.tag = msg.tag
    OBVIOUS
  <2>3. pc = "body" /\ msg.tag \in {Upvote, Downvote}
    BY DEF DecodeVote
  <2>4. /\ Fits(rest, Signed) /\ r = <<>> /\ m \in VoteMessage
        /\ Encode(m) \o r = Header(msg.tag) \o rest
    <3> HIDE DEF m
    <3> QED
      BY <1>2, <2>1, <2>3, VoteCanonical DEF m
  <2> HIDE DEF m
  <2>5. /\ pc' = "verify" /\ rest' = r /\ msg' = m /\ UNCHANGED <<sent, copied, script, payload, row>>
    BY <1>2, <2>4 DEF Goto
  <2>6. r \in Seq(Byte) /\ m \in Decoded /\ NextPC("verify", m, r)
    BY <2>2, <2>3, <2>4 DEF Decoded, NextPC
  <2> HIDE DEF r
  <2> QED
    BY ONLY DecoderInv, <2>3, <2>4, <2>5, <2>6, BodyStep
<1> QED
  BY <1>1, <1>2 DEF DecodeVote

\* DecodeContinuation keeps the invariant.
LEMMA ContinuationStep ==
  ASSUME DecoderInv, DecodeContinuation
  PROVE  DecoderInv'
<1>1. CASE Skip
  BY <1>1, SkipStep
<1>2. ASSUME NEW n, n = Len(rest) - ItemIDLen - 1, NEW l, l = <<ItemIDLen, 1, n>>,
             ~ (n < 1),
             Goto("row", rest, l, [tag |-> Continuation, ref |-> Field(rest, l, 1),
                                   seq |-> rest[ItemIDLen + 1], text |-> Field(rest, l, 3)])
      PROVE  DecoderInv'
  <2>1. rest \in Seq(Byte) /\ Len(rest) \in Nat /\ ItemIDLen \in Nat
    BY <1>2, CodecAssumption DEF DecoderInv, TypeInv
  <2>2. n \in Nat /\ ItemIDLen + 1 + n = Len(rest)
    BY <1>2, <2>1
  <2> DEFINE m == [tag |-> Continuation, ref |-> Field(rest, l, 1),
                   seq |-> rest[ItemIDLen + 1], text |-> Field(rest, l, 3)]
             r == After(rest, l)
  <2>3. m.tag = Continuation
    OBVIOUS
  <2> HIDE DEF m
  <2>4. /\ Fits(rest, l) /\ r = <<>> /\ m \in ContinuationMessage
        /\ Encode(m) \o r = Header(Continuation) \o rest
    BY <1>2, <2>1, <2>2, ContinuationCanonical DEF m
  <2>5. pc = "body" /\ msg.tag = Continuation
    BY DEF DecodeContinuation
  <2>6. Encode(m) \o r = Header(msg.tag) \o rest
    BY ONLY <2>4, <2>5
  <2>7. /\ pc' = "row" /\ rest' = r /\ msg' = m /\ UNCHANGED <<sent, copied, script, payload, row>>
    BY <1>2, <2>4 DEF Goto, m
  <2>8. r \in Seq(Byte) /\ m \in Decoded /\ NextPC("row", m, r)
    BY <2>3, <2>4 DEF Decoded, NextPC
  <2> HIDE DEF r
  <2> QED
    BY ONLY DecoderInv, <2>5, <2>6, <2>7, <2>8, BodyStep
<1> QED
  BY <1>1, <1>2 DEF DecodeContinuation

\* A slice of no length is in range, and leaves everything.
LEMMA NoField ==
  ASSUME NEW b \in Seq(Byte)
  PROVE  Fits(b, <<>>) /\ After(b, <<>>) = b
<1>1. Total(<<>>) = 0
  BY DEF Total, Start, Width
<1>2. Len(b) \in Nat /\ SubSeq(b, 0 + 1, Len(b)) = b
  OBVIOUS
<1> QED
  BY ONLY <1>1, <1>2 DEF Fits, After

\* The loop of DecodeTLVs keeps the invariant.
LEMMA TLVsStep ==
  ASSUME DecoderInv, DecodeTLVs
  PROVE  DecoderInv'
<1>0. /\ pc = "tlvs" /\ rest \in Seq(Byte) /\ msg \in Decoded /\ msg.tag \in {Story, Comment}
      /\ Encode(msg) \o rest = payload
      /\ msg.tag = Comment => msg.blob = EncodeTLVs(msg.tlvs) \o rest
  BY DEF DecodeTLVs, DecoderInv, TypeInv, DecodedInv
<1>1. CASE Skip
  BY <1>1, SkipStep
<1>2. ASSUME rest = <<>>,
             Goto(IF msg.tag = Comment THEN "verify" ELSE "row", rest, <<>>, msg)
      PROVE  DecoderInv'
  <2>1. /\ pc' = (IF msg.tag = Comment THEN "verify" ELSE "row") /\ rest' = rest /\ msg' = msg
        /\ UNCHANGED <<sent, copied, script, payload, row>>
    BY <1>0, <1>2, NoField DEF Goto
  <2>2. TypeInv'
    BY <1>0, <2>1 DEF DecoderInv, TypeInv, PCs
  <2>3. DecodedInv'
    <3>1. CASE msg.tag = Comment
      BY ONLY <1>0, <1>2, <2>1, <3>1 DEF DecodedInv
    <3>2. CASE msg.tag = Story
      BY ONLY <1>0, <1>2, <2>1, <3>2, Tags DEF DecodedInv
    <3> QED
      BY <1>0, <3>1, <3>2
  <2>4. RowInv'
    BY ONLY <1>0, <2>1, Tags DEF RowInv
  <2> QED
    BY <2>2, <2>3, <2>4 DEF DecoderInv
<1>3. ASSUME rest # <<>>, NEW s \in ReadCompactSize(Tail(rest)), NEW l,
             l = <<1, s.used, s.n>>, ~ (Len(rest) < Total(l)),
             Goto("tlvs", rest, l,
                  [msg EXCEPT !.tlvs = Append(@, [tag |-> rest[1], value |-> Field(rest, l, 3)])])
      PROVE  DecoderInv'
  <2> DEFINE t == [tag |-> rest[1], value |-> Field(rest, l, 3)]
             m == [msg EXCEPT !.tlvs = Append(msg.tlvs, t)]
             r == After(rest, l)
  <2>1. Total(l) <= Len(rest)
    <3>1. Tail(rest) \in Seq(Byte) /\ Len(rest) \in Nat /\ 1 \in Nat
      BY <1>0, <1>3
    <3> DEFINE c == Tail(rest)
    <3>2. s.n \in Nat /\ s.used \in Nat
      <4>1. c \in Seq(Byte) /\ s \in ReadCompactSize(c)
        BY <3>1
      <4> HIDE DEF c
      <4>2. s.n \in Nat /\ s.used \in 1 .. Len(c) /\ Len(c) \in Nat
        BY ONLY <4>1, ReadIsCanonical
      <4> QED
        BY ONLY <4>2
    <3>3. Total(l) \in Nat
      <4>1. Total(l) = 1 + s.used + s.n
        BY ONLY <1>3, <3>2 DEF Total, Start, Width
      <4> QED
        BY ONLY <3>2, <4>1
    <3> QED
      BY <1>3, <3>1, <3>3
  <2> HIDE DEF t
  <2>2. Fits(rest, l) /\ r \in Seq(Byte) /\ t \in TLV /\ rest = EncodeTLV(t) \o r
    BY <1>0, <1>3, <2>1, TLVCanonical, ZenonT(60) DEF t
  <2>3. msg \in StoryMessage \cup DecodedComment /\ msg.tlvs \in Seq(TLV)
    BY <1>0, ByTag, SameMessage
  <2>4. /\ pc' = "tlvs" /\ rest' = r /\ msg' = m /\ UNCHANGED <<sent, copied, script, payload, row>>
    BY <1>3, <2>2 DEF Goto, t
  <2>5. /\ m.tag = msg.tag
        /\ msg.tag = Comment => m.blob = msg.blob
        /\ m \in StoryMessage \cup DecodedComment
    <3>1. Append(msg.tlvs, t) \in Seq(TLV)
      BY <2>2, <2>3
    <3>2. CASE msg \in StoryMessage
      BY <3>1, <3>2, Tags DEF StoryMessage
    <3>3. CASE msg \in DecodedComment
      BY <3>1, <3>3, Tags DEF DecodedComment
    <3> QED
      BY <2>3, <3>2, <3>3
  <2> HIDE DEF m, r
  <2>6. /\ EncodeTLVs(m.tlvs) \o r = EncodeTLVs(msg.tlvs) \o rest
        /\ Encode(m) \o r = Encode(msg) \o rest
    <3>1. m = [msg EXCEPT !.tlvs = Append(msg.tlvs, t)]
      BY DEF m
    <3>2. TupleRead(msg, rest, m, r)
      BY ONLY <1>0, <2>2, <2>3, <3>1, TLVStep
    <3> QED
      BY ONLY <3>2, Zenon DEF TupleRead
  <2>7. TypeInv'
    BY <2>2, <2>4 DEF DecoderInv, TypeInv, PCs
  <2>8. m \in Decoded
    BY <2>5 DEF Decoded
  <2>9. DecodedInv'
    BY ONLY <1>0, <2>4, <2>5, <2>6, <2>8, Zenon DEF DecodedInv
  <2>10. RowInv'
    BY ONLY <2>4 DEF RowInv
  <2> QED
    BY <2>7, <2>9, <2>10 DEF DecoderInv
<1> QED
  BY <1>1, <1>2, <1>3 DEF DecodeTLVs

\* VerifyComment and VerifyVote keep the invariant.
LEMMA VerifyStep ==
  ASSUME DecoderInv, Verify
  PROVE  DecoderInv'
<1>1. CASE Skip
  BY <1>1, SkipStep
<1>2. ASSUME VerifySchnorr(msg.xpk, msg.sig, SigHash(msg, Blob)), Goto("row", rest, <<>>, msg)
      PROVE  DecoderInv'
  <2>0. pc = "verify" /\ rest \in Seq(Byte)
    BY DEF Verify, DecoderInv, TypeInv
  <2>1. /\ pc' = "row" /\ rest' = rest /\ msg' = msg
        /\ UNCHANGED <<sent, copied, script, payload, row>>
    BY <1>2, <2>0, NoField DEF Goto
  <2>2. TypeInv'
    BY <2>1 DEF DecoderInv, TypeInv, PCs
  <2>3. DecodedInv'
    BY <2>0, <2>1 DEF DecoderInv, DecodedInv
  <2>4. VerifySchnorr(msg.xpk, msg.sig, SigHash(msg, Blob))'
    BY <1>2, <2>1 DEF VerifySchnorr, Blob
  <2>5. RowInv'
    BY <2>1, <2>4 DEF RowInv
  <2> QED
    BY <2>2, <2>3, <2>5 DEF DecoderInv
<1> QED
  BY <1>1, <1>2 DEF Verify, Blob

\* storyFromMsg and commentFromMsg keep the invariant.
LEMMA WriteRowStep ==
  ASSUME DecoderInv, WriteRow
  PROVE  DecoderInv'
<1>1. /\ pc = "row" /\ pc' = "done" /\ UNCHANGED <<sent, copied, script, payload, rest, msg>>
  BY DEF WriteRow
<1>2. TypeInv'
  BY <1>1 DEF DecoderInv, TypeInv, PCs
<1>3. DecodedInv'
  BY <1>1 DEF DecoderInv, DecodedInv
<1>4. msg.tag \in {Comment, Upvote, Downvote} =>
        VerifySchnorr(msg.xpk, msg.sig, SigHash(msg, Blob))'
  <2>1. msg.tag \in {Comment, Upvote, Downvote} =>
          VerifySchnorr(msg.xpk, msg.sig, SigHash(msg, Blob))
    BY <1>1 DEF DecoderInv, RowInv
  <2> QED
    BY <1>1, <2>1 DEF VerifySchnorr, Blob
<1>5. msg.tag \in {Story, Comment} => row'.raw = EncodeTLVs(msg.tlvs)
  <2>1. CASE msg.tag = Story
    <3>1. row' = StoryFromMsg
      BY <2>1, Tags DEF WriteRow
    <3> QED
      BY <3>1 DEF StoryFromMsg
  <2>2. CASE msg.tag = Comment
    <3>1. row' = CommentFromMsg
      BY <2>2, Tags DEF WriteRow
    <3>2. row'.raw = msg.blob
      BY <3>1 DEF CommentFromMsg
    <3>3. msg \in Decoded /\ rest = <<>> /\ msg.blob = EncodeTLVs(msg.tlvs) \o rest
      BY <1>1, <2>2 DEF DecoderInv, DecodedInv
    <3>4. EncodeTLVs(msg.tlvs) \in Seq(Byte)
      <4>1. msg \in DecodedComment
        BY <2>2, <3>3, ByTag
      <4> QED
        BY <4>1, SameMessage, EncodeTLVsBytes
    <3>5. EncodeTLVs(msg.tlvs) \o <<>> = EncodeTLVs(msg.tlvs)
      BY ONLY <3>4, CatEmpty
    <3> QED
      BY ONLY <3>2, <3>3, <3>5
  <2> QED
    BY <2>1, <2>2
<1>6. RowInv'
  BY <1>1, <1>4, <1>5 DEF RowInv
<1> QED
  BY <1>2, <1>3, <1>6 DEF DecoderInv

\* DecoderInv holds in every state: no slice is out of range; what is decoded and what is
\* left are the payload; what is indexed is signed; a row keeps the bytes of its TLVs.
THEOREM DecoderInvariance == Spec => []DecoderInv
<1>1. ASSUME DecoderInv, [Next]_vars
      PROVE  DecoderInv'
  <2>1. CASE Copy
    BY <1>1, <2>1, CopyStep
  <2>2. CASE OpReturnPayload
    BY <1>1, <2>2, OpReturnPayloadStep
  <2>3. CASE DecodeMessage
    BY <1>1, <2>3, DecodeMessageStep
  <2>4. CASE DecodeTopicCreation
    BY <1>1, <2>4, TopicStep
  <2>5. CASE DecodeStory
    BY <1>1, <2>5, StoryStep
  <2>6. CASE DecodeComment
    BY <1>1, <2>6, CommentStep
  <2>7. CASE DecodeVote
    BY <1>1, <2>7, VoteStep
  <2>8. CASE DecodeContinuation
    BY <1>1, <2>8, ContinuationStep
  <2>9. CASE DecodeTLVs
    BY <1>1, <2>9, TLVsStep
  <2>10. CASE Verify
    BY <1>1, <2>10, VerifyStep
  <2>11. CASE WriteRow
    BY <1>1, <2>11, WriteRowStep
  <2>12. CASE UNCHANGED vars
    BY <1>1, <2>12 DEF vars, DecoderInv, TypeInv, DecodedInv, RowInv, VerifySchnorr, Blob
  <2> QED
    BY <1>1, <2>1, <2>2, <2>3, <2>4, <2>5, <2>6, <2>7, <2>8, <2>9, <2>10, <2>11, <2>12
       DEF Next, Decode, Terminated
<1> QED
  BY <1>1, DecoderInit, PTL DEF Spec

-----------------------------------------------------------------------------
\* No script, of whatever length and origin, makes the decoder slice beyond the end of its
\* bytes: the length tests of parsePush, DecodeMessage and the decoders are enough.
THEOREM NeverPanics == Spec => []NoPanic
<1>1. DecoderInv => NoPanic
  BY DEF DecoderInv, TypeInv, NoPanic
<1> QED
  BY <1>1, DecoderInvariance, PTL

\* A payload is accepted only if it is the one encoding of its message: readCompactSize
\* rejects the over-long forms, and the decoders leave no byte unread.
THEOREM OnlyCanonical == Spec => []Canonical
<1>1. DecoderInv => Canonical
  BY DEF DecoderInv, DecodedInv, Canonical
<1> QED
  BY <1>1, DecoderInvariance, PTL

\* The raw_tlv column of a story or a comment is the TLV section of the payload.
THEOREM RawKept == Spec => []RawIsPublished
<1>1. ASSUME DecoderInv, pc = "done", msg.tag \in {Story, Comment}
      PROVE  Encode([msg EXCEPT !.tlvs = <<>>]) \o row.raw = payload
  <2>1. /\ msg \in Decoded /\ Encode(msg) \o rest = payload /\ rest = <<>>
        /\ row.raw = EncodeTLVs(msg.tlvs)
    BY <1>1 DEF DecoderInv, DecodedInv, RowInv
  <2>2. msg \in StoryMessage \cup DecodedComment
    BY <1>1, <2>1, ByTag
  <2>3. msg = [msg EXCEPT !.tlvs = msg.tlvs] /\ msg.tlvs \in Seq(TLV)
    BY <2>2, SameMessage
  <2>4. Bare(msg) \in Seq(Byte) /\ Encode(msg) = Bare(msg) \o EncodeTLVs(msg.tlvs)
    BY ONLY <2>2, <2>3, TLVSection, Zenon
  <2>5. Encode(msg) \in Seq(Byte)
    <3>1. EncodeTLVs(msg.tlvs) \in Seq(Byte)
      BY ONLY <2>3, EncodeTLVsBytes
    <3> QED
      BY ONLY <2>4, <3>1, Cat
  <2>6. Encode(msg) \o <<>> = Encode(msg)
    BY ONLY <2>5, CatEmpty
  <2> QED
    BY ONLY <2>1, <2>4, <2>6, Zenon DEF Bare
<1>2. DecoderInv => RawIsPublished
  BY <1>1 DEF RawIsPublished
<1> QED
  BY <1>2, DecoderInvariance, PTL

\* Which published messages have which tags.
LEMMA SentByTag ==
  ASSUME NEW m \in Messages
  PROVE  /\ m.tag = Story => m \in StoryMessage
         /\ m.tag = Comment => m \in CommentMessage
         /\ m.tag \in {Upvote, Downvote} => m \in VoteMessage
         /\ m.tag = TopicCreation => m \in TopicMessage
         /\ m.tag = Continuation => m \in ContinuationMessage
         /\ m.tag \in {TopicCreation, Story, Comment, Upvote, Downvote, Continuation}
<1>1. m \in TopicMessage \cup StoryMessage \cup CommentMessage \cup VoteMessage
             \cup ContinuationMessage
  BY MessagesAssumption
<1> QED
  BY ONLY <1>1, Tags
     DEF TopicMessage, StoryMessage, CommentMessage, VoteMessage, ContinuationMessage

\* The TLV section of a message is short enough for every length in it to have a form.
LEMMA SentTLVs ==
  ASSUME NEW m \in Messages, m.tag \in {Story, Comment}
  PROVE  /\ m.tlvs \in Seq(TLV) /\ EncodeTLVs(m.tlvs) \in Seq(Byte)
         /\ Len(EncodeTLVs(m.tlvs)) < Base * Base * Base * Base
<1>1. m \in StoryMessage \cup CommentMessage /\ Len(Encode(m)) < Base * Base
  BY SentByTag, MessagesAssumption
<1>2. m = [m EXCEPT !.tlvs = m.tlvs] /\ m.tlvs \in Seq(TLV)
  BY <1>1, SameMessage
<1> DEFINE e == EncodeTLVs(m.tlvs)
           c == Bare(m)
<1>3. c \in Seq(Byte) /\ Encode(m) = c \o e
  BY <1>1, <1>2, TLVSection, Zenon
<1>4. e \in Seq(Byte)
  BY <1>2, EncodeTLVsBytes
<1> HIDE DEF e, c
<1>5. Len(c \o e) = Len(c) + Len(e) /\ Len(c) \in Nat /\ Len(e) \in Nat
  BY ONLY <1>3, <1>4, Cat
<1>6. Len(e) < Base * Base
  <2>1. Base * Base \in Nat
    BY Bases
  <2> QED
    BY ONLY <1>1, <1>3, <1>5, <2>1
<1>7. Base * Base <= Base * Base * Base * Base
  <2> DEFINE B2 == Base * Base
  <2>1. B2 \in Nat /\ B2 >= 1 /\ Base \in Nat
    BY Bases
  <2>2. Base * Base * Base * Base = B2 * B2
    BY <2>1
  <2> HIDE DEF B2
  <2>3. B2 <= B2 * B2
    BY <2>1
  <2> QED
    BY <2>2, <2>3 DEF B2
<1>8. Base * Base * Base * Base \in Nat /\ Base * Base \in Nat
  BY Bases
<1> QED
  BY ONLY <1>2, <1>4, <1>5, <1>6, <1>7, <1>8 DEF e

\* A comment or a vote that is indexed is, in every field, the one its author signed: no
\* changed copy of it passes VerifyComment or VerifyVote as another message.
THEOREM OnlyAuthentic == Spec => []Authentic
<1>1. ASSUME DecoderInv, pc = "done", msg.tag \in {Comment, Upvote, Downvote}
      PROVE  \E m \in sent : \A f \in DOMAIN m : msg[f] = m[f]
  <2>1. /\ msg \in Decoded /\ rest = <<>> /\ sent \subseteq Messages
        /\ msg.tag = Comment => msg.blob = EncodeTLVs(msg.tlvs) \o rest
    BY <1>1 DEF DecoderInv, TypeInv, DecodedInv
  <2>2. VerifySchnorr(msg.xpk, msg.sig, SigHash(msg, Blob))
    BY <1>1 DEF DecoderInv, RowInv
  <2>3. PICK m \in sent :
          /\ m.tag \in {Comment, Upvote, Downvote}
          /\ m.xpk = msg.xpk /\ m.sig = msg.sig
          /\ SigHash(msg, Blob) = SigHash(m, IF m.tag = Comment THEN EncodeTLVs(m.tlvs) ELSE <<>>)
    BY <2>2 DEF VerifySchnorr
  <2>4. m \in Messages
    BY <2>1, <2>3
  <2>5. CASE msg.tag = Comment
    <3>1. m.tag = Comment /\ msg.ref \o msg.blob = m.ref \o EncodeTLVs(m.tlvs)
      <4>1. SigHash(msg, Blob) = <<"CoinNews/Comment", msg.ref \o msg.blob>>
        BY <2>5 DEF SigHash, CommentSigHash, TaggedHash, Blob
      <4>2. m.tag = Comment
        <5>1. SUFFICES ASSUME m.tag # Comment PROVE FALSE
          OBVIOUS
        <5>2. SigHash(m, <<>>) = <<"CoinNews/Vote", <<m.tag>> \o m.ref>>
          BY <5>1 DEF SigHash, VoteSigHash, TaggedHash
        <5> QED
          BY <2>3, <4>1, <5>1, <5>2
      <4>3. SigHash(m, EncodeTLVs(m.tlvs)) = <<"CoinNews/Comment", m.ref \o EncodeTLVs(m.tlvs)>>
        BY <4>2 DEF SigHash, CommentSigHash, TaggedHash
      <4> DEFINE a == msg.ref \o msg.blob
                 c == m.ref \o EncodeTLVs(m.tlvs)
      <4>4. <<"CoinNews/Comment", a>> = <<"CoinNews/Comment", c>>
        BY ONLY <2>3, <4>1, <4>2, <4>3
      <4> HIDE DEF a, c
      <4>5. a = c
        BY ONLY <4>4
      <4> QED
        BY ONLY <4>2, <4>5 DEF a, c
    <3>2. msg \in DecodedComment /\ m \in CommentMessage
      BY <2>1, <2>4, <2>5, <3>1, ByTag, SentByTag
    <3>3. msg.ref \in Seq(Byte) /\ m.ref \in Seq(Byte) /\ Len(msg.ref) = Len(m.ref)
          /\ msg.blob \in Seq(Byte) /\ msg.tlvs \in Seq(TLV)
      BY <3>2 DEF DecodedComment, CommentMessage, Bytes
    <3>4. /\ m.tlvs \in Seq(TLV) /\ EncodeTLVs(m.tlvs) \in Seq(Byte)
          /\ Len(EncodeTLVs(m.tlvs)) < Base * Base * Base * Base
      BY <2>4, <3>1, SentTLVs
    <3>5. msg.ref = m.ref /\ msg.blob = EncodeTLVs(m.tlvs)
      <4> DEFINE e == EncodeTLVs(m.tlvs)
      <4>1. e \in Seq(Byte) /\ msg.ref \o msg.blob = m.ref \o e
        BY <3>1, <3>4
      <4> HIDE DEF e
      <4>2. msg.ref = m.ref /\ msg.blob = e
        BY ONLY <3>3, <4>1, CatInjective
      <4> QED
        BY <4>2 DEF e
    <3>6. msg.blob = EncodeTLVs(msg.tlvs)
      <4>1. EncodeTLVs(msg.tlvs) \in Seq(Byte)
        BY ONLY <3>3, EncodeTLVsBytes
      <4>2. EncodeTLVs(msg.tlvs) \o <<>> = EncodeTLVs(msg.tlvs)
        BY ONLY <4>1, CatEmpty
      <4> QED
        BY ONLY <2>1, <2>5, <4>2
    <3>7. msg.tlvs = m.tlvs
      <4>1. EncodeTLVs(m.tlvs) = EncodeTLVs(msg.tlvs)
        BY ONLY <3>5, <3>6
      <4> QED
        BY ONLY <3>3, <3>4, <4>1, EncodeTLVsInjective
    <3>8. DOMAIN m = {"tag", "ref", "xpk", "sig", "tlvs"}
      BY <3>2 DEF CommentMessage
    <3> QED
      BY <2>3, <2>5, <3>1, <3>5, <3>7, <3>8
  <2>6. CASE msg.tag \in {Upvote, Downvote}
    <3>1. m.tag # Comment /\ <<msg.tag>> \o msg.ref = <<m.tag>> \o m.ref
      <4>1. SigHash(msg, Blob) = <<"CoinNews/Vote", <<msg.tag>> \o msg.ref>>
        BY <2>6, Tags DEF SigHash, VoteSigHash, TaggedHash
      <4>2. m.tag # Comment
        <5>1. SUFFICES ASSUME m.tag = Comment PROVE FALSE
          OBVIOUS
        <5>2. SigHash(m, EncodeTLVs(m.tlvs)) = <<"CoinNews/Comment", m.ref \o EncodeTLVs(m.tlvs)>>
          BY <5>1 DEF SigHash, CommentSigHash, TaggedHash
        <5> QED
          BY <2>3, <4>1, <5>1, <5>2
      <4>3. SigHash(m, <<>>) = <<"CoinNews/Vote", <<m.tag>> \o m.ref>>
        BY <4>2 DEF SigHash, VoteSigHash, TaggedHash
      <4> QED
        BY <2>3, <4>1, <4>2, <4>3
    <3>2. msg \in VoteMessage /\ m \in VoteMessage
      BY <2>1, <2>3, <2>4, <2>6, <3>1, ByTag, SentByTag
    <3>3. /\ msg.ref \in Seq(Byte) /\ m.ref \in Seq(Byte)
          /\ msg.tag \in Byte /\ m.tag \in Byte
      BY <3>2, Tags DEF VoteMessage, Bytes
    <3>4. msg.tag = m.tag /\ msg.ref = m.ref
      <4> DEFINE a == <<msg.tag>>
                 c == <<m.tag>>
      <4>1. /\ a \in Seq(Byte) /\ c \in Seq(Byte) /\ Len(a) = Len(c) /\ a[1] = msg.tag /\ c[1] = m.tag
            /\ a \o msg.ref = c \o m.ref
        BY <3>1, <3>3
      <4> HIDE DEF a, c
      <4>2. a = c /\ msg.ref = m.ref
        BY ONLY <3>3, <4>1, CatInjective
      <4> QED
        BY <4>1, <4>2
    <3>5. DOMAIN m = {"tag", "ref", "xpk", "sig"}
      BY <3>2 DEF VoteMessage
    <3> QED
      BY <2>3, <3>4, <3>5
  <2> QED
    BY <1>1, <2>5, <2>6
<1>2. DecoderInv => Authentic
  BY <1>1 DEF Authentic
<1> QED
  BY <1>2, DecoderInvariance, PTL

-----------------------------------------------------------------------------
\* No two messages have the same encoding, and the decoder reads each of them.

\* The bytes after the header.
IsBody(b, m) ==
  /\ m.tag = TopicCreation =>
       b = m.topic \o (<<m.days>> \o (PutCompactSize(Len(m.text)) \o m.text))
  /\ m.tag = Story =>
       b = m.topic \o (PutCompactSize(Len(m.text)) \o (m.text \o EncodeTLVs(m.tlvs)))
  /\ m.tag = Comment => b = m.ref \o (m.xpk \o (m.sig \o EncodeTLVs(m.tlvs)))
  /\ m.tag \in {Upvote, Downvote} => b = m.ref \o (m.xpk \o m.sig)
  /\ m.tag = Continuation => b = m.ref \o (<<m.seq>> \o m.text)

\* Three parts, nested to the right.
LEMMA RightThree ==
  ASSUME NEW a, NEW b, NEW c, a \in Seq(Byte), b \in Seq(Byte), c \in Seq(Byte)
  PROVE  (a \o b) \o c = a \o (b \o c) /\ a \o (b \o c) \in Seq(Byte)
<1> DEFINE u == b \o c
<1>1. u \in Seq(Byte)
  BY Cat
<1>2. (a \o b) \o c = a \o (b \o c)
  BY CatAssociative
<1> HIDE DEF u
<1>3. a \o u \in Seq(Byte)
  BY <1>1, Cat
<1> QED
  BY ONLY <1>2, <1>3 DEF u

\* Four parts, nested to the right.
LEMMA RightFour ==
  ASSUME NEW a, NEW b, NEW c, NEW d,
         a \in Seq(Byte), b \in Seq(Byte), c \in Seq(Byte), d \in Seq(Byte)
  PROVE  ((a \o b) \o c) \o d = a \o (b \o (c \o d)) /\ a \o (b \o (c \o d)) \in Seq(Byte)
<1> DEFINE u == a \o b
           v == c \o d
<1>1. a \in Seq(Byte) /\ b \in Seq(Byte)
  OBVIOUS
<1>2. c \in Seq(Byte) /\ d \in Seq(Byte)
  OBVIOUS
<1>3. u \in Seq(Byte)
  BY ONLY <1>1, Cat
<1>4. v \in Seq(Byte)
  BY ONLY <1>2, Cat
<1> HIDE DEF u, v
<1>5. (u \o c) \o d = u \o (c \o d)
  BY ONLY <1>2, <1>3, CatAssociative
<1>6. (a \o b) \o v = a \o (b \o v) /\ a \o (b \o v) \in Seq(Byte)
  BY ONLY <1>1, <1>4, RightThree
<1> QED
  BY ONLY <1>5, <1>6, Zenon DEF u, v

\* Every encoding is a header and a body.
LEMMA BodyIs ==
  ASSUME NEW m \in Decoded \cup CommentMessage
  PROVE  \E b \in Seq(Byte) : Encode(m) = Header(m.tag) \o b /\ IsBody(b, m)
<1> DEFINE p == PutCompactSize(Len(m.text))
           e == EncodeTLVs(m.tlvs)
<1>1. CASE m \in TopicMessage
  <2>1. /\ m.topic \in Seq(Byte) /\ m.text \in Seq(Byte) /\ Len(m.text) \in Nat
        /\ <<m.days>> \in Seq(Byte) /\ m.tag = TopicCreation
    BY <1>1 DEF TopicMessage, Bytes
  <2>2. p \in Seq(Byte)
    BY <2>1, PutBytes, Zenon
  <2> HIDE DEF p
  <2> DEFINE b == m.topic \o (<<m.days>> \o (p \o m.text))
  <2>3. ((m.topic \o <<m.days>>) \o p) \o m.text = b /\ b \in Seq(Byte)
    BY ONLY <2>1, <2>2, RightFour, Zenon
  <2>4. Encode(m) = Header(TopicCreation) \o (((m.topic \o <<m.days>>) \o p) \o m.text)
    BY ONLY <2>1, EncodeIs, Zenon DEF p
  <2>5. Encode(m) = Header(m.tag) \o b /\ IsBody(b, m)
    BY ONLY <2>1, <2>3, <2>4, Tags DEF IsBody, p
  <2> HIDE DEF b
  <2> QED
    BY ONLY <2>3, <2>5, Zenon
<1>2. CASE m \in StoryMessage
  <2>1. /\ m.topic \in Seq(Byte) /\ m.text \in Seq(Byte) /\ Len(m.text) \in Nat
        /\ m.tlvs \in Seq(TLV) /\ m.tag = Story
    BY <1>2 DEF StoryMessage, Bytes
  <2>2. p \in Seq(Byte) /\ e \in Seq(Byte)
    BY <2>1, PutBytes, EncodeTLVsBytes, Zenon
  <2> HIDE DEF p, e
  <2> DEFINE b == m.topic \o (p \o (m.text \o e))
  <2>3. ((m.topic \o p) \o m.text) \o e = b /\ b \in Seq(Byte)
    BY ONLY <2>1, <2>2, RightFour, Zenon
  <2>4. Encode(m) = Header(Story) \o (((m.topic \o p) \o m.text) \o e)
    BY ONLY <2>1, EncodeIs, Zenon DEF p, e
  <2>5. Encode(m) = Header(m.tag) \o b /\ IsBody(b, m)
    BY ONLY <2>1, <2>3, <2>4, Tags DEF IsBody, p, e
  <2> HIDE DEF b
  <2> QED
    BY ONLY <2>3, <2>5, Zenon
<1>3. CASE m \in CommentMessage \cup DecodedComment
  <2>1. /\ m.ref \in Seq(Byte) /\ m.xpk \in Seq(Byte) /\ m.sig \in Seq(Byte)
        /\ m.tlvs \in Seq(TLV) /\ m.tag = Comment
    BY <1>3 DEF CommentMessage, DecodedComment, Bytes
  <2>2. e \in Seq(Byte)
    BY <2>1, EncodeTLVsBytes, Zenon
  <2> HIDE DEF e
  <2> DEFINE b == m.ref \o (m.xpk \o (m.sig \o e))
  <2>3. ((m.ref \o m.xpk) \o m.sig) \o e = b /\ b \in Seq(Byte)
    BY ONLY <2>1, <2>2, RightFour, Zenon
  <2>4. Encode(m) = Header(Comment) \o (((m.ref \o m.xpk) \o m.sig) \o e)
    BY ONLY <2>1, EncodeIs, Zenon DEF e
  <2>5. Encode(m) = Header(m.tag) \o b /\ IsBody(b, m)
    BY ONLY <2>1, <2>3, <2>4, Tags DEF IsBody, e
  <2> HIDE DEF b
  <2> QED
    BY ONLY <2>3, <2>5, Zenon
<1>4. CASE m \in VoteMessage
  <2>1. /\ m.ref \in Seq(Byte) /\ m.xpk \in Seq(Byte) /\ m.sig \in Seq(Byte)
        /\ m.tag \in {Upvote, Downvote}
    BY <1>4 DEF VoteMessage, Bytes
  <2> DEFINE b == m.ref \o (m.xpk \o m.sig)
  <2>3. (m.ref \o m.xpk) \o m.sig = b /\ b \in Seq(Byte)
    BY ONLY <2>1, RightThree, Zenon
  <2>4. Encode(m) = Header(m.tag) \o ((m.ref \o m.xpk) \o m.sig)
    BY ONLY <2>1, EncodeIs, Zenon
  <2>5. Encode(m) = Header(m.tag) \o b /\ IsBody(b, m)
    BY ONLY <2>1, <2>3, <2>4, Tags DEF IsBody
  <2> HIDE DEF b
  <2> QED
    BY ONLY <2>3, <2>5, Zenon
<1>5. CASE m \in ContinuationMessage
  <2>1. /\ m.ref \in Seq(Byte) /\ <<m.seq>> \in Seq(Byte) /\ m.text \in Seq(Byte)
        /\ m.tag = Continuation
    BY <1>5 DEF ContinuationMessage, Bytes
  <2> DEFINE b == m.ref \o (<<m.seq>> \o m.text)
  <2>3. (m.ref \o <<m.seq>>) \o m.text = b /\ b \in Seq(Byte)
    BY ONLY <2>1, RightThree, Zenon
  <2>4. Encode(m) = Header(m.tag) \o ((m.ref \o <<m.seq>>) \o m.text)
    BY ONLY <2>1, EncodeIs, Zenon
  <2>5. Encode(m) = Header(m.tag) \o b /\ IsBody(b, m)
    BY ONLY <2>1, <2>3, <2>4, Tags DEF IsBody
  <2> HIDE DEF b
  <2> QED
    BY ONLY <2>3, <2>5, Zenon
<1> QED
  BY <1>1, <1>2, <1>3, <1>4, <1>5 DEF Decoded

\* What follows a header is the body of the message with that tag.
LEMMA SameBody ==
  ASSUME NEW m \in Decoded \cup CommentMessage, NEW t \in Byte, NEW b \in Seq(Byte),
         Encode(m) = Header(t) \o b
  PROVE  m.tag = t /\ IsBody(b, m)
<1>1. PICK c \in Seq(Byte) : Encode(m) = Header(m.tag) \o c /\ IsBody(c, m)
  BY BodyIs
<1>2. m.tag \in Byte
  BY Tags DEF Decoded, TopicMessage, StoryMessage, CommentMessage, DecodedComment, VoteMessage,
              ContinuationMessage
<1> DEFINE h == Header(m.tag)
           k == Header(t)
<1>3. h \in Seq(Byte) /\ k \in Seq(Byte) /\ Len(h) = Len(k) /\ k = Magic \o <<t>> /\ h = Magic \o <<m.tag>>
  BY <1>2, HeaderBytes
<1> HIDE DEF h, k
<1>4. h = k /\ c = b
  <2>1. h \o c = k \o b
    BY <1>1 DEF h, k
  <2> QED
    BY ONLY <1>1, <1>3, <2>1, b \in Seq(Byte), CatInjective
<1>5. m.tag = t
  <2> DEFINE u == <<t>>
             v == <<m.tag>>
  <2>1. u \in Seq(Byte) /\ v \in Seq(Byte) /\ u[1] = t /\ v[1] = m.tag /\ Magic \in Seq(Byte)
    BY <1>2, CodecAssumption
  <2>2. Magic \o u = Magic \o v
    BY ONLY <1>3, <1>4
  <2> HIDE DEF u, v
  <2>3. u = v
    BY ONLY <2>1, <2>2, CatInjective
  <2> QED
    BY ONLY <2>1, <2>3
<1> QED
  BY ONLY <1>1, <1>4, <1>5

\* A sequence in three and in four parts.
IsThree(w, a, b, c) == w = a \o (b \o c)
IsFour(w, a, b, c, d) == w = a \o (b \o (c \o d))

\* The length of four parts.
LEMMA LenFour ==
  ASSUME NEW w, NEW a, NEW b, NEW c, NEW d, IsFour(w, a, b, c, d),
         a \in Seq(Byte), b \in Seq(Byte), c \in Seq(Byte), d \in Seq(Byte)
  PROVE  /\ Len(w) = Len(a) + Len(b) + Len(c) + Len(d)
         /\ Len(a) \in Nat /\ Len(b) \in Nat /\ Len(c) \in Nat /\ Len(d) \in Nat
         /\ Len(c) <= Len(w) /\ Len(d) <= Len(w)
<1> DEFINE u == c \o d
           v == b \o u
<1>1. u \in Seq(Byte) /\ Len(u) = Len(c) + Len(d)
  BY ONLY c \in Seq(Byte), d \in Seq(Byte), Cat
<1> HIDE DEF u
<1>2. v \in Seq(Byte) /\ Len(v) = Len(b) + Len(u)
  BY ONLY <1>1, b \in Seq(Byte), Cat
<1> HIDE DEF v
<1>3. Len(a \o v) = Len(a) + Len(v)
  BY ONLY <1>2, a \in Seq(Byte), Cat
<1>4. Len(a) \in Nat /\ Len(b) \in Nat /\ Len(c) \in Nat /\ Len(d) \in Nat
  OBVIOUS
<1>5. Len(w) = Len(a) + Len(b) + Len(c) + Len(d)
  <2>1. w = a \o v
    BY DEF u, v, IsFour
  <2> QED
    BY ONLY <1>1, <1>2, <1>3, <1>4, <2>1
<1>6. Len(c) <= Len(w) /\ Len(d) <= Len(w)
  BY ONLY <1>4, <1>5
<1> QED
  BY ONLY <1>4, <1>5, <1>6

\* The length of three parts.
LEMMA LenThree ==
  ASSUME NEW w, NEW a, NEW b, NEW c, IsThree(w, a, b, c),
         a \in Seq(Byte), b \in Seq(Byte), c \in Seq(Byte)
  PROVE  /\ Len(w) = Len(a) + Len(b) + Len(c)
         /\ Len(a) \in Nat /\ Len(b) \in Nat /\ Len(c) \in Nat
<1> DEFINE u == b \o c
<1>1. u \in Seq(Byte) /\ Len(u) = Len(b) + Len(c)
  BY ONLY b \in Seq(Byte), c \in Seq(Byte), Cat
<1> HIDE DEF u
<1>2. Len(a \o u) = Len(a) + Len(u)
  BY ONLY <1>1, a \in Seq(Byte), Cat
<1>3. Len(a) \in Nat /\ Len(b) \in Nat /\ Len(c) \in Nat
  OBVIOUS
<1>4. Len(w) = Len(a) + Len(b) + Len(c)
  <2>1. w = a \o u
    BY DEF u, IsThree
  <2> QED
    BY ONLY <1>1, <1>2, <1>3, <2>1
<1> QED
  BY ONLY <1>3, <1>4

\* A field behind its length determines the field and what follows it.
LEMMA SizedInjective ==
  ASSUME NEW v, NEW r, NEW w, NEW q,
         v \in Seq(Byte), r \in Seq(Byte), w \in Seq(Byte), q \in Seq(Byte),
         Len(v) < Base * Base * Base * Base, Len(w) < Base * Base * Base * Base,
         PutCompactSize(Len(v)) \o (v \o r) = PutCompactSize(Len(w)) \o (w \o q)
  PROVE  v = w /\ r = q
<1> DEFINE n == Len(v)
           k == Len(w)
           vr == v \o r
           wq == w \o q
<1>1. n \in Nat /\ k \in Nat
  OBVIOUS
<1>2. vr \in Seq(Byte)
  BY ONLY v \in Seq(Byte), r \in Seq(Byte), Cat
<1>3. wq \in Seq(Byte)
  BY ONLY w \in Seq(Byte), q \in Seq(Byte), Cat
<1>4. n < Base * Base * Base * Base /\ k < Base * Base * Base * Base
  OBVIOUS
<1>5. PutCompactSize(n) \o vr = PutCompactSize(k) \o wq
  OBVIOUS
<1> HIDE DEF vr, wq, n, k
<1>6. ReadCompactSize(PutCompactSize(n) \o vr) = {[n |-> n, used |-> Len(PutCompactSize(n))]}
  BY ONLY <1>1, <1>2, <1>4, ReadsBack
<1>7. ReadCompactSize(PutCompactSize(k) \o wq) = {[n |-> k, used |-> Len(PutCompactSize(k))]}
  BY ONLY <1>1, <1>3, <1>4, ReadsBack
<1>8. n = k
  <2> DEFINE i == Len(PutCompactSize(n))
             j == Len(PutCompactSize(k))
  <2>1. [n |-> n, used |-> i] = [n |-> k, used |-> j]
    BY ONLY <1>5, <1>6, <1>7
  <2> HIDE DEF i, j
  <2>2. [n |-> n, used |-> i].n = [n |-> k, used |-> j].n
    BY ONLY <2>1
  <2> QED
    BY ONLY <2>2
<1> DEFINE p == PutCompactSize(n)
<1>9. p \in Seq(Byte)
  BY ONLY <1>1, PutBytes
<1>10. p \o vr = p \o wq
  BY ONLY <1>5, <1>8
<1> HIDE DEF p
<1>11. vr = wq
  BY ONLY <1>2, <1>3, <1>9, <1>10, CatInjective
<1>12. v \o r = w \o q /\ Len(v) = Len(w)
  BY ONLY <1>8, <1>11 DEF vr, wq, n, k
<1> QED
  BY ONLY <1>12, v \in Seq(Byte), r \in Seq(Byte), w \in Seq(Byte), q \in Seq(Byte), CatInjective

\* Three parts of known lengths are determined by the whole.
LEMMA InjectiveThree ==
  ASSUME NEW w, NEW a, NEW b, NEW c, NEW x, NEW y, NEW z,
         a \in Seq(Byte), b \in Seq(Byte), c \in Seq(Byte),
         x \in Seq(Byte), y \in Seq(Byte), z \in Seq(Byte),
         Len(a) = Len(x), Len(b) = Len(y), IsThree(w, a, b, c), IsThree(w, x, y, z)
  PROVE  a = x /\ b = y /\ c = z
<1> DEFINE u == b \o c
           v == y \o z
<1>1. u \in Seq(Byte)
  BY ONLY b \in Seq(Byte), c \in Seq(Byte), Cat
<1>2. v \in Seq(Byte)
  BY ONLY y \in Seq(Byte), z \in Seq(Byte), Cat
<1>3. a \o u = x \o v /\ Len(a) = Len(x)
  BY DEF IsThree
<1> HIDE DEF u, v
<1>4. a = x /\ u = v
  BY ONLY <1>1, <1>2, <1>3, a \in Seq(Byte), x \in Seq(Byte), CatInjective
<1>5. b \o c = y \o z /\ Len(b) = Len(y)
  BY <1>4 DEF u, v
<1>6. b = y /\ c = z
  BY ONLY <1>5, b \in Seq(Byte), c \in Seq(Byte), y \in Seq(Byte), z \in Seq(Byte), CatInjective
<1> QED
  BY ONLY <1>4, <1>6

\* The body of a published message, and its length.
LEMMA SentBody ==
  ASSUME NEW m \in Messages
  PROVE  /\ m \in Decoded \cup CommentMessage
         /\ m.tag \in Byte
         /\ \E b \in Seq(Byte) : /\ Encode(m) = Header(m.tag) \o b
                                 /\ IsBody(b, m)
                                 /\ Len(b) < Base * Base * Base * Base
<1>1. m \in Decoded \cup CommentMessage /\ Len(Encode(m)) < Base * Base
  BY MessagesAssumption DEF Decoded
<1>2. m.tag \in Byte
  BY SentByTag, Tags
<1>3. PICK b \in Seq(Byte) : Encode(m) = Header(m.tag) \o b /\ IsBody(b, m)
  BY <1>1, BodyIs
<1> DEFINE h == Header(m.tag)
<1>4. h \in Seq(Byte)
  BY <1>2, HeaderBytes
<1> HIDE DEF h
<1>5. Len(h \o b) = Len(h) + Len(b) /\ Len(h) \in Nat /\ Len(b) \in Nat
  BY <1>4, Cat
<1>6. Len(b) < Base * Base
  <2>1. Base * Base \in Nat
    BY Bases
  <2> QED
    BY ONLY <1>1, <1>3, <1>5, <2>1 DEF h
<1>7. Base * Base <= Base * Base * Base * Base
  <2> DEFINE B2 == Base * Base
  <2>1. B2 \in Nat /\ B2 >= 1 /\ Base \in Nat
    BY Bases
  <2>2. Base * Base * Base * Base = B2 * B2
    BY <2>1
  <2> HIDE DEF B2
  <2>3. B2 <= B2 * B2
    BY <2>1
  <2> QED
    BY <2>2, <2>3 DEF B2
<1>8. Base * Base * Base * Base \in Nat /\ Base * Base \in Nat
  BY Bases
<1>9. Len(b) < Base * Base * Base * Base
  BY ONLY <1>5, <1>6, <1>7, <1>8
<1> QED
  BY ONLY <1>1, <1>2, <1>3, <1>9

\* No two messages have the same encoding.
THEOREM EncodeInjective ==
  ASSUME NEW n \in Decoded, NEW m \in Messages, Encode(n) = Encode(m)
  PROVE  \A f \in DOMAIN m : n[f] = m[f]
<1> DEFINE big == Base * Base * Base * Base
<1>1. m \in Decoded \cup CommentMessage /\ m.tag \in Byte
  BY SentBody
<1>2. PICK b \in Seq(Byte) : Encode(m) = Header(m.tag) \o b /\ IsBody(b, m) /\ Len(b) < big
  BY SentBody
<1>3. n.tag = m.tag /\ IsBody(b, n)
  <2>1. n \in Decoded \cup CommentMessage /\ Encode(n) = Header(m.tag) \o b
    BY <1>2
  <2> QED
    BY ONLY <1>1, <2>1, b \in Seq(Byte), SameBody
<1>4. big \in Nat /\ Len(b) \in Nat /\ Len(b) < big
  BY <1>2, Bases
<1> HIDE DEF big
<1>5. CASE m.tag = TopicCreation
  <2>1. n \in TopicMessage /\ m \in TopicMessage
    BY <1>3, <1>5, ByTag, SentByTag
  <2> DEFINE pm == PutCompactSize(Len(m.text))
             pn == PutCompactSize(Len(n.text))
             dm == <<m.days>>
             dn == <<n.days>>
  <2>2. /\ m.topic \in Seq(Byte) /\ m.text \in Seq(Byte) /\ Len(m.text) \in Nat
        /\ n.topic \in Seq(Byte) /\ n.text \in Seq(Byte) /\ Len(n.text) \in Nat
        /\ Len(m.topic) = Len(n.topic)
        /\ dm \in Seq(Byte) /\ dn \in Seq(Byte) /\ Len(dm) = Len(dn)
        /\ dm[1] = m.days /\ dn[1] = n.days
    BY <2>1 DEF TopicMessage, Bytes
  <2>3. pm \in Seq(Byte) /\ pn \in Seq(Byte)
    BY ONLY <2>2, PutBytes
  <2>4. b = m.topic \o (dm \o (pm \o m.text)) /\ b = n.topic \o (dn \o (pn \o n.text))
    BY ONLY <1>2, <1>3, <1>5 DEF IsBody
  <2> HIDE DEF pm, pn, dm, dn
  <2>5. IsFour(b, m.topic, dm, pm, m.text) /\ IsFour(b, n.topic, dn, pn, n.text)
    BY ONLY <2>4 DEF IsFour
  <2>6. /\ Len(m.text) <= Len(b) /\ Len(m.text) \in Nat
        /\ Len(n.text) <= Len(b) /\ Len(n.text) \in Nat
    BY ONLY <2>2, <2>3, <2>5, LenFour
  <2>7. Len(m.text) < big /\ Len(n.text) < big
    BY ONLY <1>4, <2>6
  <2> DEFINE um == pm \o m.text
             un == pn \o n.text
  <2>8. um \in Seq(Byte) /\ un \in Seq(Byte)
    BY ONLY <2>2, <2>3, Cat
  <2>9. IsThree(b, m.topic, dm, um) /\ IsThree(b, n.topic, dn, un)
    BY ONLY <2>4 DEF IsThree
  <2> HIDE DEF um, un
  <2>10. m.topic = n.topic /\ dm = dn /\ um = un
    BY ONLY <2>2, <2>8, <2>9, InjectiveThree
  <2>11. PutCompactSize(Len(m.text)) \o (m.text \o <<>>)
           = PutCompactSize(Len(n.text)) \o (n.text \o <<>>)
    <3>1. m.text \o <<>> = m.text /\ n.text \o <<>> = n.text
      BY ONLY <2>2, CatEmpty
    <3> QED
      BY ONLY <2>10, <3>1, Zenon DEF um, un, pm, pn
  <2>12. m.text = n.text
    BY ONLY <2>2, <2>7, <2>11, SizedInjective, CatEmpty, ZenonT(60) DEF big
  <2>13. DOMAIN m = {"tag", "topic", "days", "text"}
    BY <2>1 DEF TopicMessage
  <2> QED
    BY ONLY <1>3, <2>2, <2>10, <2>12, <2>13
<1>6. CASE m.tag = Story
  <2>1. n \in StoryMessage /\ m \in StoryMessage
    BY <1>3, <1>6, ByTag, SentByTag
  <2> DEFINE pm == PutCompactSize(Len(m.text))
             pn == PutCompactSize(Len(n.text))
             em == EncodeTLVs(m.tlvs)
             en == EncodeTLVs(n.tlvs)
  <2>2. /\ m.topic \in Seq(Byte) /\ m.text \in Seq(Byte) /\ Len(m.text) \in Nat
        /\ n.topic \in Seq(Byte) /\ n.text \in Seq(Byte) /\ Len(n.text) \in Nat
        /\ Len(m.topic) = Len(n.topic)
        /\ m.tlvs \in Seq(TLV) /\ n.tlvs \in Seq(TLV)
    BY <2>1 DEF StoryMessage, Bytes
  <2>3. pm \in Seq(Byte) /\ pn \in Seq(Byte)
    BY ONLY <2>2, PutBytes
  <2>4. em \in Seq(Byte) /\ en \in Seq(Byte)
    BY ONLY <2>2, EncodeTLVsBytes
  <2>5. b = m.topic \o (pm \o (m.text \o em)) /\ b = n.topic \o (pn \o (n.text \o en))
    BY ONLY <1>2, <1>3, <1>6 DEF IsBody
  <2> HIDE DEF pm, pn, em, en
  <2>6. IsFour(b, m.topic, pm, m.text, em) /\ IsFour(b, n.topic, pn, n.text, en)
    BY ONLY <2>5 DEF IsFour
  <2>7. /\ Len(m.text) <= Len(b) /\ Len(m.text) \in Nat
        /\ Len(n.text) <= Len(b) /\ Len(n.text) \in Nat
        /\ Len(em) <= Len(b) /\ Len(em) \in Nat
    BY ONLY <2>2, <2>3, <2>4, <2>6, LenFour
  <2>8. Len(m.text) < big /\ Len(n.text) < big /\ Len(em) < big
    BY ONLY <1>4, <2>7
  <2> DEFINE um == pm \o (m.text \o em)
             un == pn \o (n.text \o en)
  <2>9. um \in Seq(Byte) /\ un \in Seq(Byte)
    BY ONLY <2>2, <2>3, <2>4, RightThree
  <2>10. m.topic \o um = n.topic \o un
    BY ONLY <2>5
  <2> HIDE DEF um, un
  <2>11. m.topic = n.topic /\ um = un
    BY ONLY <2>2, <2>9, <2>10, CatInjective
  <2>12. PutCompactSize(Len(m.text)) \o (m.text \o em) = PutCompactSize(Len(n.text)) \o (n.text \o en)
    BY ONLY <2>11 DEF um, un, pm, pn
  <2>13. m.text = n.text /\ em = en
    BY ONLY <2>2, <2>4, <2>8, <2>12, SizedInjective DEF big
  <2>14. m.tlvs = n.tlvs
    BY ONLY <2>2, <2>8, <2>13, EncodeTLVsInjective DEF big, em, en
  <2>15. DOMAIN m = {"tag", "topic", "text", "tlvs"}
    BY <2>1 DEF StoryMessage
  <2> QED
    BY ONLY <1>3, <2>11, <2>13, <2>14, <2>15
<1>7. CASE m.tag = Comment
  <2>1. n \in DecodedComment /\ m \in CommentMessage
    BY <1>3, <1>7, ByTag, SentByTag
  <2> DEFINE em == EncodeTLVs(m.tlvs)
             en == EncodeTLVs(n.tlvs)
  <2>2. /\ m.ref \in Seq(Byte) /\ m.xpk \in Seq(Byte) /\ m.sig \in Seq(Byte)
        /\ n.ref \in Seq(Byte) /\ n.xpk \in Seq(Byte) /\ n.sig \in Seq(Byte)
        /\ Len(m.ref) = Len(n.ref) /\ Len(m.xpk) = Len(n.xpk) /\ Len(m.sig) = Len(n.sig)
        /\ m.tlvs \in Seq(TLV) /\ n.tlvs \in Seq(TLV)
    BY <2>1 DEF CommentMessage, DecodedComment, Bytes
  <2>3. em \in Seq(Byte) /\ en \in Seq(Byte)
    BY ONLY <2>2, EncodeTLVsBytes
  <2>4. b = m.ref \o (m.xpk \o (m.sig \o em)) /\ b = n.ref \o (n.xpk \o (n.sig \o en))
    BY ONLY <1>2, <1>3, <1>7 DEF IsBody
  <2> HIDE DEF em, en
  <2> DEFINE um == m.sig \o em
             un == n.sig \o en
  <2>5. um \in Seq(Byte) /\ un \in Seq(Byte)
    BY ONLY <2>2, <2>3, Cat
  <2>6. IsThree(b, m.ref, m.xpk, um) /\ IsThree(b, n.ref, n.xpk, un)
    BY ONLY <2>4 DEF IsThree
  <2> HIDE DEF um, un
  <2>7. m.ref = n.ref /\ m.xpk = n.xpk /\ um = un
    <3> DEFINE a == m.ref
               c == m.xpk
               x == n.ref
               y == n.xpk
    <3>1. /\ a \in Seq(Byte) /\ c \in Seq(Byte) /\ x \in Seq(Byte) /\ y \in Seq(Byte)
          /\ Len(a) = Len(x) /\ Len(c) = Len(y)
      BY ONLY <2>2, Zenon
    <3>2. IsThree(b, a, c, um) /\ IsThree(b, x, y, un)
      BY ONLY <2>6, Zenon
    <3> HIDE DEF a, c, x, y
    <3>3. a = x /\ c = y /\ um = un
      BY ONLY <2>5, <3>1, <3>2, InjectiveThree
    <3> QED
      BY ONLY <3>3, Zenon DEF a, c, x, y
  <2>8. m.sig = n.sig /\ em = en
    <3>1. m.sig \o em = n.sig \o en
      BY ONLY <2>7 DEF um, un
    <3> QED
      BY ONLY <2>2, <2>3, <3>1, CatInjective
  <2>9. m.tlvs = n.tlvs
    <3>1. Len(em) < big
      BY <1>7, SentTLVs DEF big, em
    <3> QED
      BY ONLY <2>2, <2>8, <3>1, EncodeTLVsInjective DEF big, em, en
  <2>10. DOMAIN m = {"tag", "ref", "xpk", "sig", "tlvs"}
    BY <2>1 DEF CommentMessage
  <2> QED
    BY ONLY <1>3, <2>7, <2>8, <2>9, <2>10
<1>8. CASE m.tag \in {Upvote, Downvote}
  <2>1. n \in VoteMessage /\ m \in VoteMessage
    BY <1>3, <1>8, ByTag, SentByTag
  <2>2. /\ m.ref \in Seq(Byte) /\ m.xpk \in Seq(Byte) /\ m.sig \in Seq(Byte)
        /\ n.ref \in Seq(Byte) /\ n.xpk \in Seq(Byte) /\ n.sig \in Seq(Byte)
        /\ Len(m.ref) = Len(n.ref) /\ Len(m.xpk) = Len(n.xpk)
    BY <2>1 DEF VoteMessage, Bytes
  <2>3. IsThree(b, m.ref, m.xpk, m.sig) /\ IsThree(b, n.ref, n.xpk, n.sig)
    BY ONLY <1>2, <1>3, <1>8 DEF IsBody, IsThree
  <2>4. m.ref = n.ref /\ m.xpk = n.xpk /\ m.sig = n.sig
    <3> DEFINE a == m.ref
               c == m.xpk
               x == n.ref
               y == n.xpk
               u == m.sig
               v == n.sig
    <3>1. /\ a \in Seq(Byte) /\ c \in Seq(Byte) /\ x \in Seq(Byte) /\ y \in Seq(Byte)
          /\ u \in Seq(Byte) /\ v \in Seq(Byte)
          /\ Len(a) = Len(x) /\ Len(c) = Len(y)
      BY ONLY <2>2, Zenon
    <3>2. IsThree(b, a, c, u) /\ IsThree(b, x, y, v)
      BY ONLY <2>3, Zenon
    <3> HIDE DEF a, c, x, y, u, v
    <3>3. a = x /\ c = y /\ u = v
      BY ONLY <3>1, <3>2, InjectiveThree
    <3> QED
      BY ONLY <3>3, Zenon DEF a, c, x, y, u, v
  <2>5. DOMAIN m = {"tag", "ref", "xpk", "sig"}
    BY <2>1 DEF VoteMessage
  <2> QED
    BY ONLY <1>3, <2>4, <2>5
<1>9. CASE m.tag = Continuation
  <2>1. n \in ContinuationMessage /\ m \in ContinuationMessage
    BY <1>3, <1>9, ByTag, SentByTag
  <2> DEFINE sm == <<m.seq>>
             sn == <<n.seq>>
  <2>2. /\ m.ref \in Seq(Byte) /\ m.text \in Seq(Byte)
        /\ n.ref \in Seq(Byte) /\ n.text \in Seq(Byte)
        /\ Len(m.ref) = Len(n.ref)
        /\ sm \in Seq(Byte) /\ sn \in Seq(Byte) /\ Len(sm) = Len(sn)
        /\ sm[1] = m.seq /\ sn[1] = n.seq
    BY <2>1 DEF ContinuationMessage, Bytes
  <2>3. IsThree(b, m.ref, sm, m.text) /\ IsThree(b, n.ref, sn, n.text)
    BY ONLY <1>2, <1>3, <1>9 DEF IsBody, IsThree
  <2> HIDE DEF sm, sn
  <2>4. m.ref = n.ref /\ sm = sn /\ m.text = n.text
    BY ONLY <2>2, <2>3, InjectiveThree
  <2>5. DOMAIN m = {"tag", "ref", "seq", "text"}
    BY <2>1 DEF ContinuationMessage
  <2> QED
    BY ONLY <1>3, <2>2, <2>4, <2>5
<1> QED
  BY <1>5, <1>6, <1>7, <1>8, <1>9, SentByTag

\* The decoder at work on an unchanged message m.
Reads(m) ==
  /\ pc # "skipped"
  /\ pc = "script" => script = Push(Encode(m))
  /\ pc # "script" => payload = Encode(m)
  /\ pc = "tlvs" => /\ Len(rest) < Base * Base * Base * Base
                    /\ \E u \in Seq(TLV) : rest = EncodeTLVs(u)

RoundInv == ~copied => \A m \in sent : Reads(m)

\* b[n:] when the first n bytes are known.
LEMMA AfterIs ==
  ASSUME NEW b, NEW a, NEW r, NEW l, a \in Seq(Byte), r \in Seq(Byte), b = a \o r,
         Total(l) = Len(a)
  PROVE  After(b, l) = r /\ Len(b) = Len(a) + Len(r) /\ Len(a) \in Nat /\ Len(r) \in Nat
<1>1. SubSeq(a \o r, Len(a) + 1, Len(a \o r)) = r
  BY CutCat
<1>2. Len(a \o r) = Len(a) + Len(r) /\ Len(a) \in Nat /\ Len(r) \in Nat
  BY Cat
<1> QED
  BY <1>1, <1>2 DEF After

\* OpReturnPayload gives back the payload that the wallet pushed.
LEMMA ReadsScript ==
  ASSUME DecoderInv, NEW m \in Messages, Reads(m), OpReturnPayload
  PROVE  Reads(m)'
<1> DEFINE data == Encode(m)
           a == <<OpReturn>>
<1>1. data \in Seq(Byte) /\ Len(data) < Base * Base
  BY MessagesAssumption, EncodeBytes
<1>2. script = Push(data) /\ pc = "script"
  BY DEF OpReturnPayload, Reads
<1> HIDE DEF data
<1>3. PICK pre : IsPush(script, pre, data)
  BY <1>1, <1>2, PushIs
<1>4. /\ pre \in Seq(Byte) /\ script = (a \o pre) \o data
      /\ PushSize(pre \o data) = {[n |-> Len(data), used |-> Len(pre)]}
  BY ONLY <1>3 DEF IsPush
<1>5. OpReturn \in Byte /\ a \in Seq(Byte) /\ Len(a) = 1
  <2>1. OpReturn \in Byte
    BY OpcodesAssumption
  <2> QED
    BY <2>1
<1>6. /\ script # <<>> /\ script[1] = OpReturn /\ Tail(script) = pre \o data
      /\ Len(script) = 1 + Len(pre \o data)
  <2> DEFINE c == pre \o data
  <2>1. c \in Seq(Byte)
    BY ONLY <1>1, <1>4, Cat
  <2>2. script = a \o c
    BY ONLY <1>1, <1>4, <1>5, CatAssociative
  <2> HIDE DEF c
  <2>3. /\ <<OpReturn>> \o c # <<>> /\ Len(<<OpReturn>> \o c) = 1 + Len(c)
        /\ (<<OpReturn>> \o c)[1] = OpReturn /\ Tail(<<OpReturn>> \o c) = c
    BY ONLY <1>5, <2>1, TailOfCat
  <2> QED
    BY ONLY <2>2, <2>3 DEF c
<1>7. Len(pre \o data) = Len(pre) + Len(data) /\ Len(pre) \in Nat /\ Len(data) \in Nat
  BY ONLY <1>1, <1>4, Cat
<1> DEFINE u == Len(pre)
           n == Len(data)
           s == [n |-> n, used |-> u]
<1>8. PushSize(Tail(script)) = {s} /\ s.n = n /\ s.used = u
  <2>1. PushSize(Tail(script)) = {s}
    BY ONLY <1>4, <1>6
  <2> HIDE DEF n, u
  <2> QED
    BY ONLY <2>1
<1>9. /\ ~ (Len(script) - 1 - u < n)
      /\ 2 + u = (1 + u) + 1 /\ 1 + u + n = Len(script)
  <2> HIDE DEF n, u
  <2>1. Len(script) = 1 + (u + n) /\ u \in Nat /\ n \in Nat
    BY ONLY <1>6, <1>7 DEF n, u
  <2> QED
    BY ONLY <2>1
<1> HIDE DEF s
<1>10. payload' = SubSeq(script, 2 + u, 1 + u + n) /\ pc' = "payload"
  <2> HIDE DEF n, u
  <2>1. script # <<>> /\ script[1] = OpReturn
    BY ONLY <1>6
  <2> QED
    BY ONLY OpReturnPayload, <1>8, <1>9, <2>1 DEF OpReturnPayload
<1>11. SubSeq(script, (1 + u) + 1, Len(script)) = data
  <2> DEFINE w == a \o pre
  <2>1. w \in Seq(Byte) /\ Len(w) = 1 + u
    BY ONLY <1>4, <1>5, Cat
  <2>2. script = w \o data
    BY ONLY <1>4
  <2> HIDE DEF w
  <2>3. SubSeq(w \o data, Len(w) + 1, Len(w \o data)) = data
    BY ONLY <1>1, <2>1, CutCat
  <2> QED
    BY ONLY <2>1, <2>2, <2>3
<1>12. payload' = data
  BY ONLY <1>9, <1>10, <1>11
<1> QED
  BY ONLY <1>10, <1>12 DEF Reads, data

\* DecodeMessage accepts the header that the encoders wrote.
LEMMA ReadsHeader ==
  ASSUME DecoderInv, NEW m \in Messages, Reads(m), DecodeMessage
  PROVE  Reads(m)'
<1>1. payload = Encode(m) /\ pc = "payload"
  BY DEF DecodeMessage, Reads
<1>2. m.tag \in {TopicCreation, Story, Comment, Upvote, Downvote, Continuation} /\ m.tag \in Byte
  BY SentByTag, Tags
<1>3. PICK b \in Seq(Byte) : Encode(m) = Header(m.tag) \o b
  BY SentBody
<1> DEFINE h == Header(m.tag)
           d == <<m.tag>>
<1>4. h \in Seq(Byte) /\ Len(h) = 3 /\ h = Magic \o d
  BY <1>2, HeaderBytes
<1>5. d \in Seq(Byte) /\ Len(d) = 1 /\ d[1] = m.tag /\ Magic \in Seq(Byte) /\ Len(Magic) = 2
  BY <1>2, CodecAssumption
<1> HIDE DEF h, d
<1>6. payload = h \o b
  BY <1>1, <1>3 DEF h
<1>7. Len(payload) >= 3 /\ payload \in Seq(Byte) /\ \A i \in 1 .. 3 : payload[i] = h[i]
  <2>1. /\ h \o b \in Seq(Byte) /\ Len(h \o b) = Len(h) + Len(b) /\ Len(b) \in Nat
        /\ \A i \in 1 .. Len(h) : (h \o b)[i] = h[i]
    BY <1>4, Cat
  <2> QED
    BY ONLY <1>4, <1>6, <2>1
<1>8. payload[3] = m.tag
  <2>1. \A i \in 1 .. Len(d) : (Magic \o d)[Len(Magic) + i] = d[i]
    BY ONLY <1>5, Cat
  <2>2. 1 \in 1 .. Len(d)
    BY ONLY <1>5
  <2>3. (Magic \o d)[Len(Magic) + 1] = d[1]
    BY ONLY <2>1, <2>2, Zenon
  <2>4. Len(Magic) + 1 = 3 /\ 3 \in 1 .. 3
    BY ONLY <1>5
  <2>5. h[3] = m.tag
    BY ONLY <1>4, <1>5, <2>3, <2>4, Zenon
  <2> QED
    BY ONLY <1>7, <2>4, <2>5, Zenon
<1>9. SubSeq(payload, 1, 2) = Magic
  <2> DEFINE c == d \o b
  <2>1. c \in Seq(Byte)
    BY <1>5, Cat
  <2>2. payload = Magic \o c
    <3>1. (Magic \o d) \o b = Magic \o (d \o b)
      BY <1>5, CatAssociative
    <3> QED
      BY ONLY <1>4, <1>6, <3>1
  <2> HIDE DEF c
  <2>3. SubSeq(Magic \o c, 1, Len(Magic)) = Magic
    BY ONLY <1>5, <2>1, CutCat
  <2> QED
    BY ONLY <1>5, <2>2, <2>3
<1>10. Goto("body", payload, <<3>>, [tag |-> payload[3]])
  <2>1. ~ (Len(payload) < 3)
    BY <1>7
  <2> QED
    BY ONLY DecodeMessage, <1>2, <1>8, <1>9, <2>1 DEF DecodeMessage
<1>11. pc' \in {"body", "panic"} /\ payload' = payload
  BY ONLY <1>10 DEF Goto
<1> QED
  BY ONLY <1>1, <1>11 DEF Reads

\* The body of the message, when its decoder starts.
LEMMA AtBody ==
  ASSUME DecoderInv, NEW m \in Messages, Reads(m), pc = "body"
  PROVE  /\ rest \in Seq(Byte) /\ payload = Encode(m)
         /\ m.tag = msg.tag /\ IsBody(rest, m) /\ Len(rest) < Base * Base * Base * Base
<1>1. /\ rest \in Seq(Byte) /\ payload = Header(msg.tag) \o rest /\ payload = Encode(m)
      /\ msg.tag \in {TopicCreation, Story, Comment, Upvote, Downvote, Continuation}
  BY DEF DecoderInv, TypeInv, DecodedInv, Reads
<1>2. msg.tag \in Byte
  BY <1>1, Tags
<1>3. m \in Decoded \cup CommentMessage
  BY SentBody
<1>4. m.tag = msg.tag /\ IsBody(rest, m)
  BY ONLY <1>1, <1>2, <1>3, SameBody
<1>5. PICK b \in Seq(Byte) : Encode(m) = Header(m.tag) \o b /\ Len(b) < Base * Base * Base * Base
  BY SentBody
<1> DEFINE h == Header(m.tag)
<1>6. h \in Seq(Byte)
  BY <1>2, <1>4, HeaderBytes
<1>7. h \o b = h \o rest
  BY ONLY <1>1, <1>4, <1>5
<1> HIDE DEF h
<1>8. b = rest
  BY ONLY <1>1, <1>5, <1>6, <1>7, CatInjective
<1> QED
  BY ONLY <1>1, <1>4, <1>5, <1>8

\* A decoder that does not pass the output over keeps the payload.
LEMMA AfterBody ==
  ASSUME NEW m, Reads(m), NEW l, NEW b, NEW k, NEW n, Goto(l, b, k, n), pc # "script",
         l \notin {"script", "skipped"},
         l = "tlvs" /\ Fits(b, k) => /\ Len(After(b, k)) < Base * Base * Base * Base
                                     /\ \E u \in Seq(TLV) : After(b, k) = EncodeTLVs(u)
  PROVE  Reads(m)'
<1>1. payload' = payload /\ payload = Encode(m)
  BY DEF Goto, Reads
<1>2. CASE Fits(b, k)
  <2>1. pc' = l /\ rest' = After(b, k)
    BY <1>2 DEF Goto
  <2> QED
    BY <1>1, <1>2, <2>1 DEF Reads
<1>3. CASE ~ Fits(b, k)
  <2>1. pc' = "panic"
    BY <1>3 DEF Goto
  <2> QED
    BY <1>1, <2>1 DEF Reads
<1> QED
  BY <1>2, <1>3

\* A text with its length in front, then e, after the fixed fields a of a body.
LEMMA SizedBody ==
  ASSUME NEW w, NEW a, NEW v, NEW e, a \in Seq(Byte), v \in Seq(Byte), e \in Seq(Byte),
         IsFour(w, a, PutCompactSize(Len(v)), v, e), Len(w) < Base * Base * Base * Base,
         NEW k, Total(k) = Len(a)
  PROVE  /\ ReadCompactSize(After(w, k)) = {[n |-> Len(v), used |-> Len(PutCompactSize(Len(v)))]}
         /\ Len(w) = Len(a) + Len(PutCompactSize(Len(v))) + Len(v) + Len(e)
         /\ Len(a) \in Nat /\ Len(PutCompactSize(Len(v))) \in Nat /\ Len(v) \in Nat /\ Len(e) \in Nat
<1> DEFINE p == PutCompactSize(Len(v))
           ve == v \o e
           c == p \o ve
<1>1. Len(v) \in Nat
  OBVIOUS
<1>2. p \in Seq(Byte)
  BY ONLY <1>1, PutBytes
<1>3. ve \in Seq(Byte)
  BY ONLY v \in Seq(Byte), e \in Seq(Byte), Cat
<1>4. w = a \o c
  BY DEF IsFour
<1>5. Len(w) = Len(a) + Len(p) + Len(v) + Len(e) /\ Len(a) \in Nat /\ Len(p) \in Nat /\ Len(e) \in Nat
  <2>1. IsFour(w, a, p, v, e)
    OBVIOUS
  <2> HIDE DEF p
  <2> QED
    BY ONLY <1>2, <2>1, a \in Seq(Byte), v \in Seq(Byte), e \in Seq(Byte), LenFour
<1>6. Len(v) < Base * Base * Base * Base
  <2>1. Base * Base * Base * Base \in Nat
    BY Bases
  <2> HIDE DEF p
  <2> QED
    BY ONLY <1>1, <1>5, <2>1, Len(w) < Base * Base * Base * Base
<1> HIDE DEF ve
<1>7. ReadCompactSize(c) = {[n |-> Len(v), used |-> Len(p)]}
  BY ONLY <1>1, <1>3, <1>6, ReadsBack
<1>8. c \in Seq(Byte)
  <2> HIDE DEF p
  <2> QED
    BY ONLY <1>2, <1>3, Cat
<1> HIDE DEF c
<1>9. After(w, k) = c
  BY ONLY <1>4, <1>8, a \in Seq(Byte), Total(k) = Len(a), AfterIs, ZenonT(60)
<1> QED
  BY ONLY <1>1, <1>5, <1>7, <1>9

\* What follows the first three fields of a body.
LEMMA AfterThree ==
  ASSUME NEW w, NEW a, NEW b, NEW c, NEW e, IsFour(w, a, b, c, e),
         a \in Seq(Byte), b \in Seq(Byte), c \in Seq(Byte), e \in Seq(Byte),
         NEW k, Total(k) = Len(a) + Len(b) + Len(c)
  PROVE  After(w, k) = e
<1> DEFINE ab == a \o b
           ce == c \o e
           abc == ab \o c
<1>1. ab \in Seq(Byte) /\ Len(ab) = Len(a) + Len(b)
  BY ONLY a \in Seq(Byte), b \in Seq(Byte), Cat
<1>2. ce \in Seq(Byte)
  BY ONLY c \in Seq(Byte), e \in Seq(Byte), Cat
<1>3. w = a \o (b \o ce)
  BY DEF IsFour
<1>4. w = ab \o ce
  <2> HIDE DEF ce
  <2>1. (a \o b) \o ce = a \o (b \o ce)
    BY ONLY a \in Seq(Byte), b \in Seq(Byte), <1>2, CatAssociative
  <2> QED
    BY ONLY <1>3, <2>1
<1> HIDE DEF ab
<1>5. abc \in Seq(Byte) /\ Len(abc) = Len(ab) + Len(c)
  BY ONLY <1>1, c \in Seq(Byte), Cat
<1>6. w = abc \o e
  <2>1. (ab \o c) \o e = ab \o (c \o e)
    BY ONLY <1>1, c \in Seq(Byte), e \in Seq(Byte), CatAssociative
  <2> QED
    BY ONLY <1>4, <2>1
<1> HIDE DEF abc
<1>7. Total(k) = Len(abc)
  BY ONLY <1>1, <1>5, Total(k) = Len(a) + Len(b) + Len(c)
<1> QED
  BY ONLY <1>5, <1>6, <1>7, e \in Seq(Byte), AfterIs, ZenonT(60)

\* DecodeTopicCreation accepts what EncodeTopicCreation wrote.
LEMMA ReadsTopic ==
  ASSUME DecoderInv, NEW m \in Messages, Reads(m), DecodeTopicCreation
  PROVE  Reads(m)'
<1>1. pc = "body" /\ msg.tag = TopicCreation
  BY DEF DecodeTopicCreation
<1>2. /\ rest \in Seq(Byte) /\ m.tag = TopicCreation /\ IsBody(rest, m)
      /\ Len(rest) < Base * Base * Base * Base
  BY <1>1, AtBody
<1>3. m \in TopicMessage
  BY <1>2, SentByTag
<1> DEFINE t == m.topic
           d == <<m.days>>
           v == m.text
           p == PutCompactSize(Len(v))
           td == t \o d
           k == <<TopicLen, 1>>
<1>4. /\ t \in Seq(Byte) /\ Len(t) = TopicLen /\ d \in Seq(Byte) /\ Len(d) = 1
      /\ v \in Seq(Byte) /\ TopicLen \in Nat
  BY <1>3, CodecAssumption DEF TopicMessage, Bytes
<1>5. rest = t \o (d \o (p \o v))
  BY ONLY <1>2 DEF IsBody
<1>6. p \in Seq(Byte)
  <2>1. Len(v) \in Nat
    BY ONLY <1>4
  <2> QED
    BY ONLY <2>1, PutBytes
<1> HIDE DEF t, d, v, p
<1>7. td \in Seq(Byte) /\ Len(td) = TopicLen + 1
  <2>1. td \in Seq(Byte) /\ Len(td) = Len(t) + Len(d)
    BY ONLY <1>4, Cat
  <2> QED
    BY ONLY <1>4, <2>1
<1>8. IsFour(rest, td, p, v, <<>>)
  <2> DEFINE pv == p \o v
  <2>1. pv \in Seq(Byte)
    BY ONLY <1>4, <1>6, Cat
  <2> HIDE DEF pv
  <2>2. (t \o d) \o pv = t \o (d \o pv)
    BY ONLY <1>4, <2>1, CatAssociative
  <2>3. rest = td \o pv
    BY ONLY <1>5, <2>2 DEF pv
  <2>4. v \o <<>> = v
    BY ONLY <1>4, CatEmpty
  <2> QED
    BY ONLY <2>3, <2>4 DEF IsFour, pv
<1> HIDE DEF td
<1>9. Total(k) = Len(td)
  <2>1. Total(k) = TopicLen + 1
    BY ONLY <1>4 DEF Total, Start, Width
  <2> QED
    BY ONLY <1>7, <2>1
<1> HIDE DEF k
<1> DEFINE n == Len(v)
           u == Len(p)
           s == [n |-> n, used |-> u]
<1>10. /\ ReadCompactSize(After(rest, k)) = {s}
       /\ Len(rest) = Len(td) + u + n + Len(<<>>) /\ u \in Nat /\ n \in Nat
  <2> DEFINE e == <<>>
  <2>1. e \in Seq(Byte)
    OBVIOUS
  <2>2. IsFour(rest, td, PutCompactSize(Len(v)), v, e)
    BY ONLY <1>8 DEF p
  <2> HIDE DEF e
  <2>3. v \in Seq(Byte) /\ td \in Seq(Byte) /\ Len(rest) < Base * Base * Base * Base
    BY ONLY <1>2, <1>4, <1>7
  <2>4. /\ ReadCompactSize(After(rest, k))
             = {[n |-> Len(v), used |-> Len(PutCompactSize(Len(v)))]}
        /\ Len(rest) = Len(td) + Len(PutCompactSize(Len(v))) + Len(v) + Len(e)
        /\ Len(PutCompactSize(Len(v))) \in Nat /\ Len(v) \in Nat
    BY ONLY <1>9, <2>1, <2>2, <2>3, SizedBody
  <2> QED
    BY ONLY <2>4 DEF p, e
<1> HIDE DEF n, u
<1>11. s.n = n /\ s.used = u
  OBVIOUS
<1>12. Len(rest) = TopicLen + 1 + u + n
  <2>1. Len(<<>>) = 0
    OBVIOUS
  <2> QED
    BY ONLY <1>4, <1>7, <1>10, <2>1
<1> DEFINE l == <<TopicLen, 1, s.used, s.n>>
<1>13. Total(l) = Len(rest) /\ Len(rest) >= TopicLen + 1 /\ ~ (Len(rest) < TopicLen + 1)
  <2>1. Total(l) = TopicLen + 1 + u + n
    BY ONLY <1>4, <1>10, <1>11 DEF Total, Start, Width
  <2> QED
    BY ONLY <1>4, <1>10, <1>12, <2>1
<1> HIDE DEF s
<1>14. Goto("row", rest, l, [tag |-> TopicCreation, topic |-> Field(rest, l, 1),
                             days |-> rest[TopicLen + 1], text |-> Field(rest, l, 4)])
  <2>1. ReadCompactSize(After(rest, <<TopicLen, 1>>)) = {s}
    BY ONLY <1>10 DEF k
  <2> QED
    BY ONLY DecodeTopicCreation, <1>13, <2>1 DEF DecodeTopicCreation
<1> HIDE DEF l
<1> QED
  BY ONLY <1>1, <1>14, Reads(m), AfterBody

\* DecodeStory accepts what EncodeStory wrote, and leaves the tuples.
LEMMA ReadsStory ==
  ASSUME DecoderInv, NEW m \in Messages, Reads(m), DecodeStory
  PROVE  Reads(m)'
<1>1. pc = "body" /\ msg.tag = Story
  BY DEF DecodeStory
<1>2. /\ rest \in Seq(Byte) /\ m.tag = Story /\ IsBody(rest, m)
      /\ Len(rest) < Base * Base * Base * Base
  BY <1>1, AtBody
<1>3. m \in StoryMessage /\ Len(m.text) <= HeadlineMaxLen
  BY <1>2, SentByTag, MessagesAssumption
<1>4. /\ m.tlvs \in Seq(TLV) /\ EncodeTLVs(m.tlvs) \in Seq(Byte)
      /\ Len(EncodeTLVs(m.tlvs)) < Base * Base * Base * Base
  BY <1>2, SentTLVs
<1> DEFINE t == m.topic
           v == m.text
           p == PutCompactSize(Len(v))
           e == EncodeTLVs(m.tlvs)
           k == <<TopicLen>>
           n == Len(v)
           u == Len(p)
           s == [n |-> n, used |-> u]
<1>5. t \in Seq(Byte) /\ Len(t) = TopicLen /\ v \in Seq(Byte) /\ TopicLen \in Nat
  BY <1>3, CodecAssumption DEF StoryMessage, Bytes
<1>6. IsFour(rest, t, p, v, e)
  BY ONLY <1>2 DEF IsBody, IsFour
<1>7. p \in Seq(Byte)
  <2>1. Len(v) \in Nat
    BY ONLY <1>5
  <2> QED
    BY ONLY <2>1, PutBytes
<1>8. e \in Seq(Byte) /\ Len(e) < Base * Base * Base * Base /\ n <= HeadlineMaxLen
  BY ONLY <1>3, <1>4
<1> HIDE DEF t, v, e
<1>9. Total(k) = Len(t)
  <2>1. Total(k) = TopicLen
    BY ONLY <1>5 DEF Total, Start, Width
  <2> QED
    BY ONLY <1>5, <2>1
<1> HIDE DEF k
<1>10. /\ ReadCompactSize(After(rest, k)) = {s} /\ Len(rest) = Len(t) + u + n + Len(e)
       /\ u \in Nat /\ n \in Nat /\ Len(e) \in Nat
  BY ONLY <1>2, <1>5, <1>6, <1>8, <1>9, SizedBody
<1> HIDE DEF p
<1> HIDE DEF n, u
<1>11. s.n = n /\ s.used = u
  OBVIOUS
<1> DEFINE l == <<TopicLen, s.used, s.n>>
<1>12. Total(l) = TopicLen + u + n
  BY ONLY <1>5, <1>10, <1>11 DEF Total, Start, Width
<1>13. /\ ~ (Len(rest) < Total(l)) /\ Len(rest) >= TopicLen /\ ~ (Len(rest) < TopicLen)
       /\ ~ (s.n > HeadlineMaxLen)
  <2>1. HeadlineMaxLen \in Nat
    BY CodecAssumption
  <2>2. Len(rest) = TopicLen + u + n + Len(e)
    BY ONLY <1>5, <1>10
  <2> HIDE DEF s, l
  <2> QED
    BY ONLY <1>5, <1>8, <1>10, <1>11, <1>12, <2>1, <2>2
<1> HIDE DEF s
<1> HIDE DEF l
<1>14. After(rest, l) = e
  <2>1. Total(l) = Len(t) + Len(p) + Len(v)
    BY ONLY <1>5, <1>12 DEF u, n
  <2> QED
    BY ONLY <1>5, <1>6, <1>7, <1>8, <2>1, AfterThree
<1>15. Goto("tlvs", rest, l, [tag |-> Story, topic |-> Field(rest, l, 1),
                              text |-> Field(rest, l, 3), tlvs |-> <<>>])
  <2>1. ReadCompactSize(After(rest, <<TopicLen>>)) = {s}
    BY ONLY <1>10 DEF k
  <2> QED
    BY ONLY DecodeStory, <1>13, <2>1 DEF DecodeStory, l
<1>16. /\ Len(After(rest, l)) < Base * Base * Base * Base
       /\ \E w \in Seq(TLV) : After(rest, l) = EncodeTLVs(w)
  BY ONLY <1>4, <1>8, <1>14 DEF e
<1> QED
  BY ONLY <1>1, <1>15, <1>16, Reads(m), AfterBody

\* The three fields that a comment and a vote start with.
LEMMA SignedTotal ==
  ASSUME NEW m, m \in CommentMessage \cup VoteMessage
  PROVE  /\ m.ref \in Seq(Byte) /\ m.xpk \in Seq(Byte) /\ m.sig \in Seq(Byte)
         /\ Total(Signed) = Len(m.ref) + Len(m.xpk) + Len(m.sig)
<1>1. /\ m.ref \in Bytes(ItemIDLen) /\ m.xpk \in Bytes(XOnlyPubKeyLen)
      /\ m.sig \in Bytes(SchnorrSigLen)
  BY DEF CommentMessage, VoteMessage
<1>2. /\ m.ref \in Seq(Byte) /\ m.xpk \in Seq(Byte) /\ m.sig \in Seq(Byte)
      /\ Len(m.ref) = ItemIDLen /\ Len(m.xpk) = XOnlyPubKeyLen /\ Len(m.sig) = SchnorrSigLen
  BY ONLY <1>1 DEF Bytes
<1>3. Total(Signed) = ItemIDLen + XOnlyPubKeyLen + SchnorrSigLen
  BY CodecAssumption DEF Signed, Total, Start, Width
<1> QED
  BY ONLY <1>2, <1>3

\* DecodeComment accepts what EncodeComment wrote, and leaves the tuples.
LEMMA ReadsComment ==
  ASSUME DecoderInv, NEW m \in Messages, Reads(m), DecodeComment
  PROVE  Reads(m)'
<1>1. pc = "body" /\ msg.tag = Comment
  BY DEF DecodeComment
<1>2. rest \in Seq(Byte) /\ m.tag = Comment /\ IsBody(rest, m)
  BY <1>1, AtBody
<1>3. m \in CommentMessage
  BY <1>2, SentByTag
<1>4. /\ m.tlvs \in Seq(TLV) /\ EncodeTLVs(m.tlvs) \in Seq(Byte)
      /\ Len(EncodeTLVs(m.tlvs)) < Base * Base * Base * Base
  BY <1>2, SentTLVs
<1> DEFINE a == m.ref
           b == m.xpk
           c == m.sig
           e == EncodeTLVs(m.tlvs)
<1>5. /\ a \in Seq(Byte) /\ b \in Seq(Byte) /\ c \in Seq(Byte)
      /\ Total(Signed) = Len(a) + Len(b) + Len(c)
  BY ONLY <1>3, SignedTotal
<1>6. IsFour(rest, a, b, c, e)
  BY ONLY <1>2 DEF IsBody, IsFour
<1>7. e \in Seq(Byte) /\ Len(e) < Base * Base * Base * Base
  BY ONLY <1>4
<1> HIDE DEF a, b, c, e
<1>8. After(rest, Signed) = e
  BY ONLY <1>5, <1>6, <1>7, AfterThree
<1>9. ~ (Len(rest) < Total(Signed))
  <2>1. /\ Len(rest) = Len(a) + Len(b) + Len(c) + Len(e)
        /\ Len(a) \in Nat /\ Len(b) \in Nat /\ Len(c) \in Nat /\ Len(e) \in Nat
    BY ONLY <1>5, <1>6, <1>7, LenFour
  <2> QED
    BY ONLY <1>5, <2>1
<1>10. Goto("tlvs", rest, Signed,
            [tag |-> Comment, ref |-> Field(rest, Signed, 1), xpk |-> Field(rest, Signed, 2),
             sig |-> Field(rest, Signed, 3), blob |-> After(rest, Signed), tlvs |-> <<>>])
  BY ONLY DecodeComment, <1>9 DEF DecodeComment
<1>11. /\ Len(After(rest, Signed)) < Base * Base * Base * Base
       /\ \E w \in Seq(TLV) : After(rest, Signed) = EncodeTLVs(w)
  BY ONLY <1>4, <1>7, <1>8 DEF e
<1> QED
  BY ONLY <1>1, <1>10, <1>11, Reads(m), AfterBody

\* DecodeVote accepts what EncodeVote wrote.
LEMMA ReadsVote ==
  ASSUME DecoderInv, NEW m \in Messages, Reads(m), DecodeVote
  PROVE  Reads(m)'
<1>1. pc = "body" /\ msg.tag \in {Upvote, Downvote}
  BY DEF DecodeVote
<1>2. rest \in Seq(Byte) /\ m.tag \in {Upvote, Downvote} /\ IsBody(rest, m)
  BY <1>1, AtBody
<1>3. m \in VoteMessage
  BY <1>2, SentByTag
<1> DEFINE a == m.ref
           b == m.xpk
           c == m.sig
<1>4. /\ a \in Seq(Byte) /\ b \in Seq(Byte) /\ c \in Seq(Byte)
      /\ Total(Signed) = Len(a) + Len(b) + Len(c)
  BY ONLY <1>3, SignedTotal
<1>5. IsThree(rest, a, b, c)
  BY ONLY <1>2 DEF IsBody, IsThree
<1> HIDE DEF a, b, c
<1>6. Len(rest) = Total(Signed)
  <2>1. Len(rest) = Len(a) + Len(b) + Len(c)
    BY ONLY <1>4, <1>5, LenThree
  <2> QED
    BY ONLY <1>4, <2>1
<1>7. Goto("verify", rest, Signed,
           [tag |-> msg.tag, ref |-> Field(rest, Signed, 1), xpk |-> Field(rest, Signed, 2),
            sig |-> Field(rest, Signed, 3)])
  BY ONLY DecodeVote, <1>6 DEF DecodeVote
<1> QED
  BY ONLY <1>1, <1>7, Reads(m), AfterBody

\* DecodeContinuation accepts what EncodeContinuation wrote.
LEMMA ReadsContinuation ==
  ASSUME DecoderInv, NEW m \in Messages, Reads(m), DecodeContinuation
  PROVE  Reads(m)'
<1>1. pc = "body" /\ msg.tag = Continuation
  BY DEF DecodeContinuation
<1>2. rest \in Seq(Byte) /\ m.tag = Continuation /\ IsBody(rest, m)
  BY <1>1, AtBody
<1>3. m \in ContinuationMessage /\ Len(m.text) \in 1 .. ContinuationChunk
  BY <1>2, SentByTag, MessagesAssumption
<1> DEFINE a == m.ref
           b == <<m.seq>>
           c == m.text
           n == Len(rest) - ItemIDLen - 1
           l == <<ItemIDLen, 1, n>>
<1>4. /\ a \in Seq(Byte) /\ b \in Seq(Byte) /\ c \in Seq(Byte)
      /\ Len(a) = ItemIDLen /\ Len(b) = 1 /\ ItemIDLen \in Nat /\ ContinuationChunk \in Nat
      /\ Len(c) \in 1 .. ContinuationChunk
  BY <1>3, CodecAssumption DEF ContinuationMessage, Bytes
<1>5. IsThree(rest, a, b, c)
  BY ONLY <1>2 DEF IsBody, IsThree
<1> HIDE DEF a, b, c
<1>6. ~ (n < 1 \/ n > ContinuationChunk)
  <2>1. Len(rest) = Len(a) + Len(b) + Len(c)
    <3>1. a \in Seq(Byte) /\ b \in Seq(Byte) /\ c \in Seq(Byte)
      BY ONLY <1>4
    <3> QED
      BY ONLY <1>5, <3>1, LenThree
  <2>2. n = Len(c)
    BY ONLY <1>4, <2>1
  <2> HIDE DEF n
  <2> QED
    BY ONLY <1>4, <2>2
<1>7. Goto("row", rest, l, [tag |-> Continuation, ref |-> Field(rest, l, 1),
                            seq |-> rest[ItemIDLen + 1], text |-> Field(rest, l, 3)])
  BY ONLY DecodeContinuation, <1>6 DEF DecodeContinuation
<1> HIDE DEF l
<1> QED
  BY ONLY <1>1, <1>7, Reads(m), AfterBody
\* DecodeTLVs reads one tuple that EncodeTLVs wrote, or meets the end.
LEMMA ReadsTLVs ==
  ASSUME DecoderInv, NEW m \in Messages, Reads(m), DecodeTLVs
  PROVE  Reads(m)'
<1>1. pc = "tlvs" /\ rest \in Seq(Byte) /\ Len(rest) < Base * Base * Base * Base
  BY DEF DecodeTLVs, DecoderInv, TypeInv, Reads
<1>2. PICK w \in Seq(TLV) : rest = EncodeTLVs(w)
  BY <1>1 DEF Reads
<1>3. CASE rest = <<>>
  <2> DEFINE l == IF msg.tag = Comment THEN "verify" ELSE "row"
  <2>1. Goto(l, rest, <<>>, msg)
    BY ONLY DecodeTLVs, <1>3 DEF DecodeTLVs
  <2>2. l \notin {"script", "skipped", "tlvs"}
    OBVIOUS
  <2> HIDE DEF l
  <2> QED
    BY ONLY <1>1, <2>1, <2>2, Reads(m), AfterBody
<1>4. CASE rest # <<>>
  <2>1. w # <<>>
    BY <1>2, <1>4, EncodeTLVsEmpty
  <2> DEFINE t == w[1]
             q == Tail(w)
             f == EncodeTLV(t)
             e == EncodeTLVs(q)
             n == Len(t.value)
             u == Len(PutCompactSize(n))
             s == [n |-> n, used |-> u]
  <2>2. t \in TLV /\ q \in Seq(TLV) /\ rest = f \o e
    BY <1>2, <2>1, EncodeTLVsFirst
  <2>3. f \in Seq(Byte) /\ Len(f) = 1 + u + n /\ u \in Nat /\ n \in Nat
    <3>1. f \in Seq(Byte) /\ Len(f) = 1 + u + n /\ t.value \in Seq(Byte)
      BY ONLY <2>2, EncodeTLVBytes
    <3>2. n \in Nat
      BY ONLY <3>1
    <3>3. PutCompactSize(n) \in Seq(Byte)
      BY ONLY <3>2, PutBytes
    <3>4. u \in Nat
      BY ONLY <3>3
    <3> QED
      BY ONLY <3>1, <3>2, <3>4
  <2>4. e \in Seq(Byte)
    BY ONLY <2>2, EncodeTLVsBytes
  <2>5. Len(rest) = Len(f) + Len(e) /\ Len(e) \in Nat
    <3> HIDE DEF f, e
    <3> QED
      BY ONLY <2>2, <2>3, <2>4, Cat
  <2>6. n < Base * Base * Base * Base /\ Len(e) < Base * Base * Base * Base
    <3>1. Base * Base * Base * Base \in Nat
      BY Bases
    <3> HIDE DEF n, u, f, e
    <3> QED
      BY ONLY <1>1, <2>3, <2>5, <3>1
  <2>7. ReadCompactSize(Tail(rest)) = {s}
    <3> HIDE DEF e
    <3>1. ReadCompactSize(Tail(EncodeTLV(t) \o e)) = {s}
      BY ONLY <2>2, <2>4, <2>6, ReadTLV
    <3> QED
      BY ONLY <2>2, <3>1
  <2> HIDE DEF n, u, e, f
  <2>8. s.n = n /\ s.used = u
    OBVIOUS
  <2> DEFINE l == <<1, s.used, s.n>>
  <2>9. Total(l) = 1 + u + n
    BY ONLY <2>3, <2>8 DEF Total, Start, Width
  <2> HIDE DEF s
  <2>10. ~ (Len(rest) < Total(l)) /\ Total(l) = Len(f)
    <3> HIDE DEF l
    <3> QED
      BY ONLY <2>3, <2>5, <2>9
  <2>11. After(rest, l) = e
    <3> HIDE DEF l
    <3> QED
      BY ONLY <2>2, <2>3, <2>4, <2>10, AfterIs, ZenonT(60)
  <2> DEFINE k == [msg EXCEPT !.tlvs = Append(@, [tag |-> rest[1], value |-> Field(rest, l, 3)])]
  <2>12. Goto("tlvs", rest, l, k)
    BY ONLY DecodeTLVs, <1>4, <2>7, <2>10 DEF DecodeTLVs
  <2> HIDE DEF k, l
  <2>13. /\ Len(After(rest, l)) < Base * Base * Base * Base
         /\ \E x \in Seq(TLV) : After(rest, l) = EncodeTLVs(x)
    BY ONLY <2>2, <2>6, <2>11 DEF e
  <2> QED
    BY ONLY <1>1, <2>12, <2>13, Reads(m), AfterBody
<1> QED
  BY <1>3, <1>4

\* A message that is decoded to the end is the one published.
LEMMA AllRead ==
  ASSUME DecoderInv, NEW m \in Messages, Reads(m), pc \in {"verify", "row", "done"}
  PROVE  /\ \A f \in DOMAIN m : msg[f] = m[f]
         /\ msg \in Decoded /\ msg.tag = m.tag
         /\ msg.tag = Comment => msg.blob = EncodeTLVs(msg.tlvs)
<1>1. /\ msg \in Decoded /\ Encode(msg) \o rest = payload /\ rest = <<>> /\ payload = Encode(m)
      /\ msg.tag = Comment => msg.blob = EncodeTLVs(msg.tlvs) \o rest
      /\ payload \in Seq(Byte)
  BY DEF DecoderInv, TypeInv, DecodedInv, Reads
<1>2. Encode(msg) \in Seq(Byte)
  BY ONLY <1>1, EncodeBytes
<1>3. Encode(msg) = Encode(m)
  <2>1. Encode(msg) \o <<>> = Encode(msg)
    BY ONLY <1>2, CatEmpty
  <2> QED
    BY ONLY <1>1, <2>1
<1>4. \A f \in DOMAIN m : msg[f] = m[f]
  BY <1>1, <1>3, EncodeInjective
<1>5. msg.tag = m.tag
  <2>1. "tag" \in DOMAIN m
    BY MessagesAssumption
       DEF TopicMessage, StoryMessage, CommentMessage, VoteMessage, ContinuationMessage
  <2> QED
    BY <1>4, <2>1
<1>6. msg.tag = Comment => msg.blob = EncodeTLVs(msg.tlvs)
  <2>1. ASSUME msg.tag = Comment PROVE EncodeTLVs(msg.tlvs) \in Seq(Byte)
    <3>1. msg \in DecodedComment
      BY <1>1, <2>1, ByTag
    <3>2. msg.tlvs \in Seq(TLV)
      BY <3>1 DEF DecodedComment
    <3> QED
      BY <3>2, EncodeTLVsBytes
  <2> QED
    BY <1>1, <2>1, CatEmpty
<1> QED
  BY <1>1, <1>4, <1>5, <1>6

\* VerifyComment and VerifyVote accept what the author signed.
LEMMA ReadsVerify ==
  ASSUME DecoderInv, NEW m \in Messages, m \in sent, Reads(m), Verify
  PROVE  Reads(m)'
<1>1. pc = "verify" /\ msg.tag \in {Comment, Upvote, Downvote}
  BY DEF Verify, DecoderInv, DecodedInv
<1>2. /\ \A f \in DOMAIN m : msg[f] = m[f]
      /\ msg.tag = m.tag
      /\ msg.tag = Comment => msg.blob = EncodeTLVs(msg.tlvs)
  BY <1>1, AllRead
<1>3. m \in CommentMessage \cup VoteMessage /\ (m.tag = Comment => m \in CommentMessage)
  BY <1>1, <1>2, SentByTag
<1>4. {"ref", "xpk", "sig"} \subseteq DOMAIN m /\ (m.tag = Comment => "tlvs" \in DOMAIN m)
  BY ONLY <1>3 DEF CommentMessage, VoteMessage
<1>5. /\ msg.ref = m.ref /\ msg.xpk = m.xpk /\ msg.sig = m.sig
      /\ m.tag = Comment => msg.tlvs = m.tlvs
  BY ONLY <1>2, <1>4
<1> DEFINE blob == IF msg.tag = Comment THEN msg.blob ELSE <<>>
           sect == IF m.tag = Comment THEN EncodeTLVs(m.tlvs) ELSE <<>>
<1>6. blob = sect
  BY ONLY <1>2, <1>5
<1>7. SigHash(msg, blob) = SigHash(m, sect)
  BY ONLY <1>2, <1>5, <1>6 DEF SigHash
<1>8. VerifySchnorr(msg.xpk, msg.sig, SigHash(msg, blob))
  BY ONLY m \in sent, <1>1, <1>2, <1>5, <1>7 DEF VerifySchnorr
<1>9. Goto("row", rest, <<>>, msg)
  BY ONLY Verify, <1>8 DEF Verify
<1> QED
  BY ONLY <1>1, <1>9, Reads(m), AfterBody

\* The steps of the decoder, together.
LEMMA ReadsStep ==
  ASSUME DecoderInv, NEW m \in Messages, m \in sent, Reads(m), Decode
  PROVE  Reads(m)'
<1>1. CASE OpReturnPayload
  BY <1>1, ReadsScript
<1>2. CASE DecodeMessage
  BY <1>2, ReadsHeader
<1>3. CASE DecodeTopicCreation
  BY <1>3, ReadsTopic
<1>4. CASE DecodeStory
  BY <1>4, ReadsStory
<1>5. CASE DecodeComment
  BY <1>5, ReadsComment
<1>6. CASE DecodeVote
  BY <1>6, ReadsVote
<1>7. CASE DecodeContinuation
  BY <1>7, ReadsContinuation
<1>8. CASE DecodeTLVs
  BY <1>8, ReadsTLVs
<1>9. CASE Verify
  BY <1>9, ReadsVerify
<1>10. CASE WriteRow
  <2>1. pc' = "done" /\ payload' = payload /\ payload = Encode(m)
    BY <1>10 DEF WriteRow, Reads
  <2> QED
    BY ONLY <2>1 DEF Reads
<1> QED
  BY <1>1, <1>2, <1>3, <1>4, <1>5, <1>6, <1>7, <1>8, <1>9, <1>10 DEF Decode

\* Nothing in the decoder changes what was published, and only Copy makes a copy.
LEMMA SentStays ==
  ASSUME Next
  PROVE  sent' = sent /\ (copied' = copied \/ copied')
BY DEF Next, Copy, Decode, OpReturnPayload, DecodeMessage, DecodeTopicCreation, DecodeStory,
       DecodeComment, DecodeVote, DecodeContinuation, DecodeTLVs, Verify, WriteRow, Terminated,
       Goto, Skip, vars

\* encode.go and message.go agree: a message that the encoders wrote, within the limits of
\* the protocol, comes back with all of its fields, whatever its lengths.
THEOREM RoundTrips == Spec => []RoundTrip
<1>1. Init => RoundInv
  <2> SUFFICES ASSUME Init, NEW m \in sent PROVE Reads(m)
    BY DEF RoundInv
  <2>1. pc = "script" /\ script = Push(Encode(m))
    BY DEF Init
  <2> QED
    BY ONLY <2>1 DEF Reads
<1>2. DecoderInv /\ RoundInv /\ [Next]_vars => RoundInv'
  <2> SUFFICES ASSUME DecoderInv, RoundInv, [Next]_vars, ~ copied', NEW m \in sent'
               PROVE  Reads(m)'
    BY DEF RoundInv
  <2>1. CASE UNCHANGED vars
    BY <2>1 DEF RoundInv, Reads, vars
  <2>2. CASE Next
    <3>1. sent' = sent /\ ~ copied
      BY <2>2, SentStays
    <3>2. m \in sent /\ m \in Messages /\ Reads(m)
      BY <3>1 DEF RoundInv, DecoderInv, TypeInv
    <3>3. CASE Decode
      BY ONLY DecoderInv, <3>2, <3>3, ReadsStep
    <3>4. CASE Copy
      BY <3>4 DEF Copy
    <3>5. CASE Terminated
      BY <3>2, <3>5 DEF Terminated, Reads, vars
    <3> QED
      BY <2>2, <3>3, <3>4, <3>5 DEF Next
  <2> QED
    BY <2>1, <2>2
<1>3. DecoderInv /\ RoundInv => RoundTrip
  <2> SUFFICES ASSUME DecoderInv, RoundInv, pc \in Final, ~ copied, NEW m \in sent
               PROVE  pc = "done" /\ \A f \in DOMAIN m : msg[f] = m[f]
    BY DEF RoundTrip
  <2>1. m \in Messages /\ Reads(m)
    BY DEF RoundInv, DecoderInv, TypeInv
  <2>2. pc = "done"
    BY <2>1 DEF Reads, DecoderInv, TypeInv, Final
  <2> QED
    BY <2>1, <2>2, AllRead
<1> QED
  BY <1>1, <1>2, <1>3, DecoderInvariance, PTL DEF Spec
=============================================================================
