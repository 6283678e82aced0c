----------------------------- MODULE CodecProofs -----------------------------
(***************************************************************************)
(* Facts about package codec, for every Base: CompactSize and the TLVs can *)
(* be read back, and only what the encoders write is read.                 *)
(***************************************************************************)
EXTENDS Codec, WellFoundedInduction, TLAPS

-----------------------------------------------------------------------------
\* Induction over the natural numbers, for a set instead of a predicate.

Less == {p \in Nat \X Nat : p[1] < p[2]}

\* Induction over the naturals, stated for a set: with it the provers can do induction over data.
LEMMA SetInduction ==
  ASSUME NEW S, 0 \in S, \A n \in Nat : n \in S => n + 1 \in S
  PROVE  \A n \in Nat : n \in S
<1> DEFINE T == Nat \ S
<1> SUFFICES ASSUME T # {}
             PROVE  FALSE
  OBVIOUS
<1>1. IsWellFoundedOn(Less, Nat)
  BY NatLessThanWellFounded DEF OpToRel, Less
<1>2. PICK x \in T : \A y \in T : <<y, x>> \notin Less
  <2> HIDE DEF T
  <2>1. T \subseteq Nat
    BY DEF T
  <2> QED
    BY <1>1, <2>1, WFMin
<1>3. x \in Nat /\ x # 0 /\ x - 1 \in Nat /\ x - 1 < x
  OBVIOUS
<1>4. x - 1 \in S
  BY <1>2, <1>3 DEF Less
<1> QED
  BY <1>3, <1>4

-----------------------------------------------------------------------------
\* Sequences of bytes.

\* What a concatenation of bytes is.
LEMMA Cat ==
  ASSUME NEW s \in Seq(Byte), NEW t \in Seq(Byte)
  PROVE  /\ s \o t \in Seq(Byte)
         /\ Len(s \o t) = Len(s) + Len(t)
         /\ \A i \in 1 .. Len(s) : (s \o t)[i] = s[i]
         /\ \A i \in 1 .. Len(t) : (s \o t)[Len(s) + i] = t[i]
         /\ Len(s) \in Nat /\ Len(t) \in Nat
OBVIOUS

\* Two slices with the same bytes are the same.
LEMMA SameBytes ==
  ASSUME NEW s \in Seq(Byte), NEW t \in Seq(Byte), Len(s) = Len(t), \A i \in 1 .. Len(s) : s[i] = t[i]
  PROVE  s = t
OBVIOUS

\* Concatenation is associative.
LEMMA CatAssociative ==
  ASSUME NEW s \in Seq(Byte), NEW t \in Seq(Byte), NEW u \in Seq(Byte)
  PROVE  (s \o t) \o u = s \o (t \o u)
OBVIOUS

\* The empty slice.
LEMMA CatEmpty ==
  ASSUME NEW s \in Seq(Byte)
  PROVE  /\ s \o <<>> = s
         /\ <<>> \o s = s
         /\ <<>> \in Seq(Byte)
         /\ Len(s) = 0 <=> s = <<>>
OBVIOUS

\* b[:n] and b[n:]
LEMMA Cut ==
  ASSUME NEW b \in Seq(Byte), NEW n \in 0 .. Len(b)
  PROVE  /\ SubSeq(b, 1, n) \in Seq(Byte)
         /\ Len(SubSeq(b, 1, n)) = n
         /\ SubSeq(b, n + 1, Len(b)) \in Seq(Byte)
         /\ Len(SubSeq(b, n + 1, Len(b))) = Len(b) - n
         /\ SubSeq(b, 1, n) \o SubSeq(b, n + 1, Len(b)) = b
<1>1. Len(b) \in Nat /\ n \in Nat
  OBVIOUS
<1> DEFINE s == SubSeq(b, 1, n)
           t == SubSeq(b, n + 1, Len(b))
<1>2. s \in Seq(Byte) /\ Len(s) = n /\ \A i \in 1 .. n : s[i] = b[i]
  BY <1>1
<1>3. t \in Seq(Byte) /\ Len(t) = Len(b) - n /\ \A i \in 1 .. Len(b) - n : t[i] = b[n + i]
  BY <1>1
<1> HIDE DEF s, t
<1>4. s \o t \in Seq(Byte) /\ Len(s \o t) = Len(b)
  BY <1>1, <1>2, <1>3, Cat
<1>5. ASSUME NEW i \in 1 .. Len(b)
      PROVE  (s \o t)[i] = b[i]
  <2>1. CASE i <= n
    BY <1>1, <1>2, <1>3, <2>1, Cat
  <2>2. CASE i > n
    <3> DEFINE j == i - n
    <3>1. j \in 1 .. Len(t) /\ j \in 1 .. Len(b) - n /\ i = Len(s) + j /\ i = n + j
      BY <1>1, <1>2, <1>3, <2>2
    <3> HIDE DEF j
    <3>2. (s \o t)[Len(s) + j] = t[j]
      BY <1>2, <1>3, <3>1, Cat
    <3>3. t[j] = b[n + j]
      BY <1>3, <3>1
    <3> QED
      BY <3>1, <3>2, <3>3
  <2>3. i <= n \/ i > n
    BY <1>1
  <2> QED
    BY <2>1, <2>2, <2>3
<1>6. s \o t = b
  BY <1>4, <1>5, SameBytes
<1> QED
  BY <1>2, <1>3, <1>6 DEF s, t

\* The two parts of a concatenation, when the length of the first is known.
LEMMA CutCat ==
  ASSUME NEW s \in Seq(Byte), NEW t \in Seq(Byte)
  PROVE  /\ SubSeq(s \o t, 1, Len(s)) = s
         /\ SubSeq(s \o t, Len(s) + 1, Len(s \o t)) = t
OBVIOUS

\* Two concatenations that are equal, with first parts of one length, have equal parts.
LEMMA CatInjective ==
  ASSUME NEW s \in Seq(Byte), NEW t \in Seq(Byte), NEW u \in Seq(Byte), NEW v \in Seq(Byte),
         s \o t = u \o v, Len(s) = Len(u)
  PROVE  s = u /\ t = v
<1>1. Len(s \o t) = Len(u \o v)
  OBVIOUS
<1>2. s = SubSeq(s \o t, 1, Len(s)) /\ t = SubSeq(s \o t, Len(s) + 1, Len(s \o t))
  BY CutCat
<1>3. u = SubSeq(u \o v, 1, Len(u)) /\ v = SubSeq(u \o v, Len(u) + 1, Len(u \o v))
  BY CutCat
<1> QED
  BY <1>1, <1>2, <1>3

-----------------------------------------------------------------------------
\* Digits.

\* The powers of the base, and the markers of CompactSize, which are bytes.
LEMMA Bases ==
  /\ Base \in Nat /\ Base > 6
  /\ Base * Base \in Nat /\ Base * Base * Base \in Nat /\ Base * Base * Base * Base \in Nat
  /\ Base * Base > Base
  /\ Byte = 0 .. Base - 1
  /\ MaxSingle \in Byte /\ TwoDigits \in Byte /\ FourDigits \in Byte /\ NotAllowed \in Byte
  /\ MaxSingle < TwoDigits /\ TwoDigits < FourDigits /\ FourDigits < NotAllowed
BY CodecAssumption DEF Byte, MaxSingle, TwoDigits, FourDigits, NotAllowed

\* Quotient and remainder make up the number.
LEMMA DivMod ==
  ASSUME NEW n \in Nat, NEW k \in Nat, k > 0
  PROVE  n % k \in 0 .. k - 1 /\ n \div k \in Nat /\ n = (n % k) + k * (n \div k)
OBVIOUS

\* They are the only such pair.
LEMMA DivModUnique ==
  ASSUME NEW k \in Nat, k > 0, NEW r \in 0 .. k - 1, NEW q \in Nat
  PROVE  (r + k * q) % k = r /\ (r + k * q) \div k = q
OBVIOUS

\* Little-endian digits: dividing by Base again and again is dividing by its powers.
LEMMA DivDiv ==
  ASSUME NEW n \in Nat
  PROVE  /\ n \div (Base * Base) = (n \div Base) \div Base
         /\ n \div (Base * Base * Base) = ((n \div Base) \div Base) \div Base
<1> DEFINE B == Base
           q1 == n \div B
           q2 == q1 \div B
           q3 == q2 \div B
           r0 == n % B
           r1 == q1 % B
           r2 == q2 % B
<1>0. B \in Nat /\ B > 6
  BY Bases
<1>1. r0 \in 0 .. B - 1 /\ q1 \in Nat /\ n = r0 + B * q1
  BY <1>0, DivMod
<1>2. r1 \in 0 .. B - 1 /\ q2 \in Nat /\ q1 = r1 + B * q2
  BY <1>0, <1>1, DivMod
<1>3. r2 \in 0 .. B - 1 /\ q3 \in Nat /\ q2 = r2 + B * q3
  BY <1>0, <1>2, DivMod
<1> HIDE DEF B, q1, q2, q3, r0, r1, r2
<1>4. n = (r0 + B * r1) + (B * B) * q2
  BY <1>0, <1>1, <1>2
<1>5. r0 + B * r1 \in 0 .. B * B - 1 /\ B * B \in Nat /\ B * B > 0
  <2>1. r1 \in Nat /\ r1 <= B - 1 /\ r0 \in Nat /\ r0 <= B - 1
    BY <1>0, <1>1, <1>2
  <2>2. B * r1 \in Nat /\ B * r1 <= B * (B - 1) /\ B * (B - 1) = B * B - B
    BY <1>0, <2>1
  <2> QED
    BY <1>0, <2>1, <2>2
<1>6. n \div (B * B) = q2
  BY <1>2, <1>4, <1>5, DivModUnique
<1>7. n = (r0 + B * r1 + (B * B) * r2) + (B * B * B) * q3
  BY <1>0, <1>1, <1>2, <1>3, <1>4
<1>8. r0 + B * r1 + (B * B) * r2 \in 0 .. B * B * B - 1 /\ B * B * B \in Nat /\ B * B * B > 0
  <2>1. r2 \in Nat /\ r2 <= B - 1
    BY <1>0, <1>3
  <2>2. (B * B) * r2 \in Nat /\ (B * B) * r2 <= (B * B) * (B - 1) /\ (B * B) * (B - 1) = B * B * B - B * B
    BY <1>0, <1>5, <2>1
  <2> QED
    BY <1>0, <1>5, <2>1, <2>2
<1>9. n \div (B * B * B) = q3
  BY <1>3, <1>7, <1>8, DivModUnique
<1> QED
  BY <1>6, <1>9 DEF B, q1, q2, q3

\* A bound on the number is a bound on the quotient.
LEMMA Quotient ==
  ASSUME NEW n \in Nat, NEW k \in Nat, k > 0, NEW m \in Nat
  PROVE  n < k * m <=> n \div k < m
<1>1. n % k \in 0 .. k - 1 /\ n \div k \in Nat /\ n = (n % k) + k * (n \div k)
  BY DivMod
<1> DEFINE q == n \div k
           r == n % k
<1> HIDE DEF q, r
<1>2. r \in Nat /\ r < k /\ q \in Nat /\ n = r + k * q
  BY <1>1 DEF q, r
<1>3. q < m => k * q <= k * (m - 1) /\ k * (m - 1) = k * m - k
  BY <1>2
<1>4. ~(q < m) => k * q >= k * m
  BY <1>2
<1>5. k * q \in Nat /\ k * m \in Nat
  BY <1>2
<1>6. q < m => n < k * m
  BY <1>2, <1>3, <1>5
<1>7. ~(q < m) => ~(n < k * m)
  BY <1>2, <1>4, <1>5
<1> QED
  BY <1>6, <1>7 DEF q

-----------------------------------------------------------------------------
\* varint.go

\* putCompactSize writes bytes: one, three or five of them.
LEMMA PutBytes ==
  ASSUME NEW n \in Nat
  PROVE  /\ PutCompactSize(n) \in Seq(Byte)
         /\ Len(PutCompactSize(n)) \in {1, 3, 5}
<1>1. n % Base \in Byte /\ n \div Base \in Nat
  BY Bases, DivMod
<1>2. CASE n <= MaxSingle
  <2>0. n \notin MaxSingle + 1 .. Base * Base - 1
    BY <1>2, Bases
  <2>1. PutCompactSize(n) = <<n>>
    BY <1>2, <2>0 DEF PutCompactSize
  <2>2. n \in Byte
    BY <1>2, Bases
  <2> QED
    BY <2>1, <2>2
<1>3. CASE n \in MaxSingle + 1 .. Base * Base - 1
  <2>1. PutCompactSize(n) = <<TwoDigits, n % Base, n \div Base>>
    BY <1>3, Bases DEF PutCompactSize
  <2>2. n \div Base < Base
    BY <1>3, Bases, Quotient
  <2>3. n \div Base \in Byte
    BY <1>1, <2>2, Bases
  <2> QED
    BY <1>1, <2>1, <2>3, Bases
<1>4. CASE ~(n <= MaxSingle) /\ n \notin MaxSingle + 1 .. Base * Base - 1
  <2> DEFINE q1 == n \div Base
             q2 == n \div (Base * Base)
             q3 == n \div (Base * Base * Base)
  <2>1. PutCompactSize(n) = <<FourDigits, n % Base, q1 % Base, q2 % Base, q3 % Base>>
    BY <1>4 DEF PutCompactSize
  <2>2. Base > 0 /\ Base * Base > 0 /\ Base * Base * Base > 0
    BY Bases
  <2>3. q1 \in Nat /\ q2 \in Nat /\ q3 \in Nat
    BY <2>2, Bases, DivMod
  <2> HIDE DEF q1, q2, q3
  <2>4. q1 % Base \in Byte /\ q2 % Base \in Byte /\ q3 % Base \in Byte
    BY <2>2, <2>3, Bases, DivMod
  <2> QED
    BY <1>1, <2>1, <2>4, Bases
<1> QED
  BY <1>2, <1>3, <1>4

\* Four digits are those of a number below Base to the fourth.
LEMMA FourDigitsOf ==
  ASSUME NEW n \in Nat
  PROVE  LET d0 == n % Base
             d1 == (n \div Base) % Base
             d2 == (n \div (Base * Base)) % Base
             d3 == (n \div (Base * Base * Base)) % Base
         IN  n < Base * Base * Base * Base =>
               n = (d0 + Base * d1) + Base * Base * (d2 + Base * d3)
<1> DEFINE B == Base
           q1 == n \div B
           q2 == q1 \div B
           q3 == q2 \div B
<1>0. B \in Nat /\ B > 6 /\ B * B * B \in Nat /\ B * B * B > 0
  BY Bases
<1>1. n % B \in 0 .. B - 1 /\ q1 \in Nat /\ n = (n % B) + B * q1
  BY <1>0, DivMod
<1>2. q1 % B \in 0 .. B - 1 /\ q2 \in Nat /\ q1 = (q1 % B) + B * q2
  BY <1>0, <1>1, DivMod
<1>3. q2 % B \in 0 .. B - 1 /\ q3 \in Nat /\ q2 = (q2 % B) + B * q3
  BY <1>0, <1>2, DivMod
<1>4. n \div (B * B) = q2 /\ n \div (B * B * B) = q3
  BY DivDiv
<1> SUFFICES ASSUME n < B * B * B * B
             PROVE  n = ((n % B) + B * (q1 % B)) + B * B * ((q2 % B) + B * (q3 % B))
  BY <1>4
<1>5. q3 < B
  BY <1>0, <1>4, Quotient
<1> HIDE DEF q1, q2, q3, B
<1>6. q3 % B = q3
  BY <1>0, <1>3, <1>5, DivModUnique
<1>7. B * q1 = B * (q1 % B) + B * B * q2
  BY <1>0, <1>1, <1>2
<1>8. q2 = (q2 % B) + B * (q3 % B)
  BY <1>3, <1>6
<1>9. n = (n % B) + (B * (q1 % B) + B * B * q2)
  BY <1>1, <1>7
<1>10. n = ((n % B) + B * (q1 % B)) + B * B * q2
  BY <1>0, <1>1, <1>2, <1>9
<1> QED
  BY <1>8, <1>10

\* The slices b[:1], b[:3] and b[:5].
LEMMA FirstBytes ==
  ASSUME NEW b \in Seq(Byte)
  PROVE  /\ Len(b) >= 1 => SubSeq(b, 1, 1) = <<b[1]>>
         /\ Len(b) >= 3 => SubSeq(b, 1, 3) = <<b[1], b[2], b[3]>>
         /\ Len(b) >= 5 => SubSeq(b, 1, 5) = <<b[1], b[2], b[3], b[4], b[5]>>
<1>1. ASSUME Len(b) >= 1
      PROVE  SubSeq(b, 1, 1) = <<b[1]>>
  <2>1. SubSeq(b, 1, 1) \in Seq(Byte) /\ Len(SubSeq(b, 1, 1)) = 1
    BY <1>1, Cut
  <2>2. b[1] \in Byte /\ <<b[1]>> \in Seq(Byte) /\ Len(<<b[1]>>) = 1
    BY <1>1
  <2>3. \A i \in 1 .. 1 : SubSeq(b, 1, 1)[i] = <<b[1]>>[i]
    BY <1>1
  <2> QED
    BY <2>1, <2>2, <2>3, SameBytes
<1>2. ASSUME Len(b) >= 3
      PROVE  SubSeq(b, 1, 3) = <<b[1], b[2], b[3]>>
  <2>1. b[1] \in Byte /\ b[2] \in Byte /\ b[3] \in Byte
    BY <1>2
  <2>2. SubSeq(b, 1, 3) \in Seq(Byte) /\ Len(SubSeq(b, 1, 3)) = 3
    BY <1>2, Cut
  <2>3. <<b[1], b[2], b[3]>> \in Seq(Byte) /\ Len(<<b[1], b[2], b[3]>>) = 3
    BY <2>1
  <2>4. \A i \in 1 .. 3 : SubSeq(b, 1, 3)[i] = <<b[1], b[2], b[3]>>[i]
    BY <1>2
  <2> QED
    BY <2>2, <2>3, <2>4, SameBytes
<1>3. ASSUME Len(b) >= 5
      PROVE  SubSeq(b, 1, 5) = <<b[1], b[2], b[3], b[4], b[5]>>
  <2>1. b[1] \in Byte /\ b[2] \in Byte /\ b[3] \in Byte /\ b[4] \in Byte /\ b[5] \in Byte
    BY <1>3
  <2>2. SubSeq(b, 1, 5) \in Seq(Byte) /\ Len(SubSeq(b, 1, 5)) = 5
    BY <1>3, Cut
  <2>3. /\ <<b[1], b[2], b[3], b[4], b[5]>> \in Seq(Byte)
        /\ Len(<<b[1], b[2], b[3], b[4], b[5]>>) = 5
    BY <2>1
  <2>4. \A i \in 1 .. 5 : SubSeq(b, 1, 5)[i] = <<b[1], b[2], b[3], b[4], b[5]>>[i]
    BY <1>3
  <2> QED
    BY <2>2, <2>3, <2>4, SameBytes
<1> QED
  BY <1>1, <1>2, <1>3

\* The digits are read as they were written.
LEMMA ReadDigits ==
  ASSUME NEW d0 \in Byte, NEW d1 \in Byte, NEW d2 \in Byte, NEW d3 \in Byte, NEW m,
         m = (d0 + Base * d1) + Base * Base * (d2 + Base * d3)
  PROVE  /\ m \in Nat
         /\ m % Base = d0
         /\ (m \div Base) % Base = d1
         /\ (m \div (Base * Base)) % Base = d2
         /\ (m \div (Base * Base * Base)) % Base = d3
<1> DEFINE B == Base
           q3 == d3
           q2 == d2 + B * q3
           q1 == d1 + B * q2
           n == d0 + B * q1
<1>0. /\ B \in Nat /\ B > 6
      /\ d0 \in 0 .. B - 1 /\ d1 \in 0 .. B - 1 /\ d2 \in 0 .. B - 1 /\ d3 \in 0 .. B - 1
  BY Bases
<1>1. q3 \in Nat /\ q3 % B = d3 /\ q2 \in Nat
  <2>1. q3 = d3 + B * 0
    BY <1>0
  <2> QED
    BY <1>0, <2>1, DivModUnique
<1> HIDE DEF B, q3
<1>2. q2 % B = d2 /\ q2 \div B = q3 /\ q1 \in Nat
  BY <1>0, <1>1, DivModUnique
<1> HIDE DEF q2
<1>3. q1 % B = d1 /\ q1 \div B = q2 /\ n \in Nat
  BY <1>0, <1>1, DivModUnique
<1> HIDE DEF q1
<1>4. n % B = d0 /\ n \div B = q1
  BY <1>0, <1>2, DivModUnique
<1> HIDE DEF n
<1>5. n \div (B * B) = q2 /\ n \div (B * B * B) = q3
  BY <1>2, <1>3, <1>4, DivDiv DEF B
<1>6. n = (d0 + B * d1) + B * B * (d2 + B * d3)
  <2>1. n = d0 + B * q1 /\ q1 = d1 + B * q2 /\ q2 = d2 + B * d3
    BY DEF n, q1, q2, q3
  <2>2. B * q1 = B * d1 + B * B * q2
    BY <1>0, <1>1, <2>1
  <2>3. n = d0 + (B * d1 + B * B * q2)
    BY <2>1, <2>2
  <2>4. n = (d0 + B * d1) + B * B * q2
    BY <1>0, <1>1, <2>3
  <2> QED
    BY <2>1, <2>4
<1>7. n = m
  BY <1>6 DEF B
<1> QED
  BY <1>1, <1>2, <1>3, <1>4, <1>5, <1>7 DEF B

\* readCompactSize accepts nothing but what putCompactSize writes: it "rejects [...] any
\* non-canonical (over-long) encoding".
THEOREM ReadIsCanonical ==
  ASSUME NEW b \in Seq(Byte), NEW s \in ReadCompactSize(b)
  PROVE  /\ s.n \in Nat
         /\ s.used \in 1 .. Len(b)
         /\ ReadCompactSize(b) = {s}
         /\ PutCompactSize(s.n) = SubSeq(b, 1, s.used)
<1>0. Len(b) >= 1 /\ Len(b) \in Nat /\ b[1] \in Byte
  BY DEF ReadCompactSize
<1> FourDigits # NotAllowed /\ TwoDigits # NotAllowed /\ TwoDigits # FourDigits
  BY Bases
<1>1. CASE b[1] = FourDigits
  <2>1. /\ Len(b) >= 5 /\ ~(Four(b) <= Base * Base - 1)
        /\ ReadCompactSize(b) = {[n |-> Four(b), used |-> 5]}
    BY <1>0, <1>1 DEF ReadCompactSize, Size
  <2>2. b[2] \in Byte /\ b[3] \in Byte /\ b[4] \in Byte /\ b[5] \in Byte
    BY <2>1
  <2> DEFINE n == Four(b)
  <2>3. n = (b[2] + Base * b[3]) + Base * Base * (b[4] + Base * b[5])
    BY <2>1 DEF Four, Two, Digit
  <2> HIDE DEF n
  <2>4. /\ n \in Nat /\ n % Base = b[2] /\ (n \div Base) % Base = b[3]
        /\ (n \div (Base * Base)) % Base = b[4] /\ (n \div (Base * Base * Base)) % Base = b[5]
    <3> DEFINE d0 == b[2]
               d1 == b[3]
               d2 == b[4]
               d3 == b[5]
    <3>1. d0 \in Byte /\ d1 \in Byte /\ d2 \in Byte /\ d3 \in Byte
      BY <2>2
    <3>2. n = (d0 + Base * d1) + Base * Base * (d2 + Base * d3)
      BY <2>3
    <3> HIDE DEF d0, d1, d2, d3
    <3>3. /\ n \in Nat /\ n % Base = d0 /\ (n \div Base) % Base = d1
          /\ (n \div (Base * Base)) % Base = d2 /\ (n \div (Base * Base * Base)) % Base = d3
      BY ONLY <3>1, <3>2, ReadDigits
    <3> QED
      BY <3>3 DEF d0, d1, d2, d3
  <2>5. ~(n <= MaxSingle) /\ n \notin MaxSingle + 1 .. Base * Base - 1
    <3>1. MaxSingle \in Nat /\ MaxSingle < Base * Base /\ Base * Base \in Nat
      BY Bases
    <3>2. ~(n <= Base * Base - 1)
      BY <2>1 DEF n
    <3> QED
      BY <2>4, <3>1, <3>2
  <2>6. PutCompactSize(n) = <<FourDigits, b[2], b[3], b[4], b[5]>>
    BY <2>4, <2>5 DEF PutCompactSize
  <2>7. s = [n |-> n, used |-> 5]
    BY <2>1 DEF n
  <2> QED
    BY <1>0, <1>1, <2>1, <2>4, <2>6, <2>7, FirstBytes DEF n
<1>2. CASE b[1] = TwoDigits
  <2>1. /\ Len(b) >= 3 /\ ~(Two(b) <= MaxSingle)
        /\ ReadCompactSize(b) = {[n |-> Two(b), used |-> 3]}
    BY <1>0, <1>2 DEF ReadCompactSize, Size
  <2>2. b[2] \in Byte /\ b[3] \in Byte
    BY <2>1
  <2> DEFINE n == Two(b)
  <2>3. n = b[2] + Base * b[3]
    BY <2>1 DEF Two, Digit
  <2> HIDE DEF n
  <2>4. n \in Nat /\ n % Base = b[2] /\ n \div Base = b[3]
    <3>1. b[2] \in 0 .. Base - 1 /\ b[3] \in Nat /\ Base \in Nat /\ Base > 0
      BY <2>2, Bases
    <3>2. n \in Nat
      BY <2>3, <3>1
    <3> QED
      BY <2>3, <3>1, <3>2, DivModUnique
  <2>5. n < Base * Base
    <3>1. n \div Base < Base /\ Base \in Nat /\ Base > 0
      BY <2>2, <2>4, Bases
    <3> QED
      BY <2>4, <3>1, Quotient
  <2>6. ~(n <= MaxSingle) /\ n \in MaxSingle + 1 .. Base * Base - 1
    BY <2>1, <2>4, <2>5, Bases DEF n
  <2>7. PutCompactSize(n) = <<TwoDigits, b[2], b[3]>>
    BY <2>4, <2>6 DEF PutCompactSize
  <2>8. s = [n |-> n, used |-> 3]
    BY <2>1 DEF n
  <2> QED
    BY <1>0, <1>2, <2>1, <2>4, <2>7, <2>8, FirstBytes DEF n
<1>3. CASE b[1] # FourDigits /\ b[1] # TwoDigits
  <2>1. ReadCompactSize(b) = {[n |-> b[1], used |-> 1]} /\ b[1] # NotAllowed
    BY <1>0, <1>3 DEF ReadCompactSize, Size
  <2>2. b[1] \in Nat /\ b[1] <= MaxSingle
    BY <1>0, <1>3, <2>1, Bases DEF MaxSingle, TwoDigits, FourDigits, NotAllowed
  <2>3. b[1] \notin MaxSingle + 1 .. Base * Base - 1
    BY <2>2, Bases
  <2>4. PutCompactSize(b[1]) = <<b[1]>>
    BY <2>2, <2>3 DEF PutCompactSize
  <2>5. s = [n |-> b[1], used |-> 1]
    BY <2>1
  <2> QED
    BY <1>0, <2>1, <2>2, <2>4, <2>5, FirstBytes
<1> QED
  BY <1>1, <1>2, <1>3

\* readCompactSize reads back what putCompactSize wrote, whatever follows it.
THEOREM ReadsBack ==
  ASSUME NEW n \in Nat, n < Base * Base * Base * Base, NEW b \in Seq(Byte)
  PROVE  ReadCompactSize(PutCompactSize(n) \o b) = {[n |-> n, used |-> Len(PutCompactSize(n))]}
<1> DEFINE p == PutCompactSize(n)
           c == p \o b
<1>0. /\ c \in Seq(Byte) /\ Len(c) >= Len(p) /\ Len(p) \in Nat /\ p \in Seq(Byte)
      /\ \A i \in 1 .. Len(p) : c[i] = p[i]
  BY PutBytes, Cat
<1> FourDigits # NotAllowed /\ TwoDigits # NotAllowed /\ TwoDigits # FourDigits
  BY Bases
<1>1. CASE n <= MaxSingle
  <2>1. n \notin MaxSingle + 1 .. Base * Base - 1
    BY <1>1, Bases
  <2>2. p = <<n>>
    BY <1>1, <2>1 DEF PutCompactSize
  <2>3. n # NotAllowed /\ n # FourDigits /\ n # TwoDigits
    BY <1>1, Bases
  <2>4. c[1] = n /\ Len(c) >= 1 /\ Len(p) = 1
    BY <1>0, <2>2
  <2> HIDE DEF c, p
  <2>5. ReadCompactSize(c) = {[n |-> n, used |-> 1]}
    BY <1>0, <2>3, <2>4 DEF ReadCompactSize, Size
  <2> QED
    BY <2>4, <2>5 DEF c, p
<1>2. CASE n \in MaxSingle + 1 .. Base * Base - 1
  <2>1. ~(n <= MaxSingle)
    BY <1>2, Bases
  <2>2. p = <<TwoDigits, n % Base, n \div Base>>
    BY <1>2, <2>1 DEF PutCompactSize
  <2>3. c[1] = TwoDigits /\ c[2] = n % Base /\ c[3] = n \div Base /\ Len(c) >= 3 /\ Len(p) = 3
    BY <1>0, <2>2
  <2> HIDE DEF c, p
  <2>4. Two(c) = (n % Base) + Base * (n \div Base)
    BY <1>0, <2>3 DEF Two, Digit
  <2>5. Two(c) = n
    BY <2>4, Bases, DivMod
  <2>6. ReadCompactSize(c) = {[n |-> n, used |-> 3]}
    BY <1>0, <2>1, <2>3, <2>5 DEF ReadCompactSize, Size
  <2> QED
    BY <2>3, <2>6 DEF c, p
<1>3. CASE ~(n <= MaxSingle) /\ n \notin MaxSingle + 1 .. Base * Base - 1
  <2> DEFINE d0 == n % Base
             d1 == (n \div Base) % Base
             d2 == (n \div (Base * Base)) % Base
             d3 == (n \div (Base * Base * Base)) % Base
  <2>1. p = <<FourDigits, d0, d1, d2, d3>>
    BY <1>3 DEF PutCompactSize
  <2>2. n = (d0 + Base * d1) + Base * Base * (d2 + Base * d3)
    BY FourDigitsOf
  <2> HIDE DEF d0, d1, d2, d3
  <2>3. /\ c[1] = FourDigits /\ c[2] = d0 /\ c[3] = d1 /\ c[4] = d2 /\ c[5] = d3
        /\ Len(c) >= 5 /\ Len(p) = 5
    BY <1>0, <2>1
  <2> HIDE DEF c, p
  <2>4. Four(c) = (d0 + Base * d1) + Base * Base * (d2 + Base * d3)
    BY <1>0, <2>3 DEF Four, Two, Digit
  <2>5. Four(c) = n
    BY <2>2, <2>4
  <2>6. ~(n <= Base * Base - 1)
    <3>1. MaxSingle \in Nat /\ Base * Base \in Nat
      BY Bases
    <3> QED
      BY <1>3, <3>1
  <2>7. ReadCompactSize(c) = {[n |-> n, used |-> 5]}
    BY <1>0, <2>3, <2>5, <2>6 DEF ReadCompactSize, Size
  <2> QED
    BY <2>3, <2>7 DEF c, p
<1> QED
  BY <1>1, <1>2, <1>3

-----------------------------------------------------------------------------
\* FlattenSeq is defined by a recursive function: it exists, and it is the only one.

IsFlatten(f, q, n) == f = [i \in 1 .. n |-> IF i = 1 THEN q[i] ELSE f[i - 1] \o q[i]]

\* The function inside FlattenSeq exists, for every sequence.
LEMMA FlattenExists ==
  ASSUME NEW q
  PROVE  \A n \in Nat : \E f : IsFlatten(f, q, n)
<1> DEFINE S == {n \in Nat : \E f : IsFlatten(f, q, n)}
<1>1. 0 \in S
  <2> DEFINE e == [i \in 1 .. 0 |-> q[i]]
  <2>1. IsFlatten(e, q, 0)
    BY DEF IsFlatten
  <2> HIDE DEF e
  <2> QED
    BY <2>1
<1>2. ASSUME NEW n \in Nat, n \in S
      PROVE  n + 1 \in S
  <2>1. PICK f : IsFlatten(f, q, n)
    BY <1>2
  <2> DEFINE g == [i \in 1 .. n + 1 |->
                     IF i = 1 THEN q[i] ELSE IF i = n + 1 THEN f[n] \o q[i] ELSE f[i]]
  <2>2. ASSUME NEW i \in 1 .. n + 1
        PROVE  g[i] = IF i = 1 THEN q[i] ELSE g[i - 1] \o q[i]
    <3>1. CASE i = 1
      BY <3>1
    <3>2. CASE i # 1 /\ i = n + 1
      <4>1. i - 1 = n /\ n \in 1 .. n /\ n \in 1 .. n + 1 /\ n # n + 1
        BY <3>2
      <4>2. g[n] = f[n]
        <5>1. CASE n = 1
          BY <2>1, <4>1, <5>1 DEF IsFlatten
        <5>2. CASE n # 1
          BY <4>1, <5>2
        <5> QED BY <5>1, <5>2
      <4> QED
        BY <3>2, <4>1, <4>2
    <3>3. CASE i # 1 /\ i # n + 1
      <4>1. i \in 1 .. n /\ i - 1 \in 1 .. n /\ i - 1 \in 1 .. n + 1 /\ i - 1 # n + 1
        BY <3>3
      <4>2. f[i] = f[i - 1] \o q[i]
        BY <2>1, <3>3, <4>1 DEF IsFlatten
      <4>3. g[i - 1] = f[i - 1]
        <5>1. CASE i - 1 = 1
          BY <2>1, <4>1, <5>1 DEF IsFlatten
        <5>2. CASE i - 1 # 1
          BY <4>1, <5>2
        <5> QED BY <5>1, <5>2
      <4> QED
        BY <3>3, <4>2, <4>3
    <3> QED
      BY <3>1, <3>2, <3>3
  <2>3. g = [i \in 1 .. n + 1 |-> g[i]]
    OBVIOUS
  <2> HIDE DEF g
  <2>4. IsFlatten(g, q, n + 1)
    BY <2>2, <2>3 DEF IsFlatten
  <2> QED
    BY <2>4
<1>3. \A n \in Nat : n \in S
  <2> HIDE DEF S
  <2> QED
    BY <1>1, <1>2, SetInduction
<1> QED
  BY <1>3

\* It depends on the elements it has used only.
LEMMA FlattenUnique ==
  ASSUME NEW q, NEW q2, NEW n \in Nat, NEW n2 \in Nat, NEW f, NEW f2,
         IsFlatten(f, q, n), IsFlatten(f2, q2, n2), n <= n2, \A i \in 1 .. n : q[i] = q2[i]
  PROVE  \A i \in 1 .. n : f[i] = f2[i]
<1> DEFINE S == {k \in Nat : k \in 1 .. n => f[k] = f2[k]}
<1>1. 0 \in S
  OBVIOUS
<1>2. ASSUME NEW k \in Nat, k \in S
      PROVE  k + 1 \in S
  <2> SUFFICES ASSUME k + 1 \in 1 .. n
               PROVE  f[k + 1] = f2[k + 1]
    OBVIOUS
  <2>1. k + 1 \in 1 .. n2 /\ q[k + 1] = q2[k + 1]
    OBVIOUS
  <2>2. CASE k = 0
    BY <2>1, <2>2 DEF IsFlatten
  <2>3. CASE k # 0
    <3>1. k + 1 # 1 /\ k \in 1 .. n /\ (k + 1) - 1 = k
      BY <2>3
    <3>2. f[k + 1] = f[k] \o q[k + 1]
      BY <3>1, ZenonT(60) DEF IsFlatten
    <3>3. f2[k + 1] = f2[k] \o q2[k + 1]
      BY <2>1, <3>1 DEF IsFlatten
    <3>4. f[k] = f2[k]
      BY <1>2, <3>1
    <3> QED
      BY <2>1, <3>2, <3>3, <3>4
  <2> QED
    BY <2>2, <2>3
<1>3. \A k \in Nat : k \in S
  <2> HIDE DEF S
  <2> QED
    BY <1>1, <1>2, SetInduction
<1> QED
  BY <1>3

\* So FlattenSeq is its last value.
LEMMA FlattenIs ==
  ASSUME NEW q, Len(q) \in Nat, Len(q) # 0
  PROVE  \E f : IsFlatten(f, q, Len(q)) /\ FlattenSeq(q) = f[Len(q)]
<1> DEFINE g == CHOOSE f : IsFlatten(f, q, Len(q))
<1>1. FlattenSeq(q) = g[Len(q)]
  BY DEF FlattenSeq, IsFlatten
<1>2. IsFlatten(g, q, Len(q))
  BY FlattenExists, Zenon
<1> QED
  BY <1>1, <1>2

-----------------------------------------------------------------------------
\* tlv.go

\* The encoding of one tuple, and its length.
LEMMA EncodeTLVBytes ==
  ASSUME NEW t \in TLV
  PROVE  /\ EncodeTLV(t) \in Seq(Byte)
         /\ t.tag \in Byte /\ t.value \in Seq(Byte) /\ t = [tag |-> t.tag, value |-> t.value]
         /\ EncodeTLV(t) = <<t.tag>> \o (PutCompactSize(Len(t.value)) \o t.value)
         /\ Len(EncodeTLV(t)) = 1 + Len(PutCompactSize(Len(t.value))) + Len(t.value)
<1>1. t.tag \in Byte /\ t.value \in Seq(Byte) /\ t = [tag |-> t.tag, value |-> t.value]
  BY DEF TLV
<1>2. <<t.tag>> \in Seq(Byte) /\ Len(<<t.tag>>) = 1
  BY <1>1
<1>3. PutCompactSize(Len(t.value)) \in Seq(Byte)
  BY <1>1, PutBytes
<1> DEFINE a == <<t.tag>>
           p == PutCompactSize(Len(t.value))
           v == t.value
<1> HIDE DEF a, p, v
<1>4. a \in Seq(Byte) /\ p \in Seq(Byte) /\ v \in Seq(Byte) /\ Len(a) = 1
  BY <1>1, <1>2, <1>3 DEF a, p, v
<1>5. (a \o p) \o v = a \o (p \o v) /\ a \o p \in Seq(Byte) /\ (a \o p) \o v \in Seq(Byte)
  BY <1>4, CatAssociative, Cat, SMTT(60)
<1>6. Len((a \o p) \o v) = 1 + Len(p) + Len(v)
  <2>1. Len(a \o p) = Len(a) + Len(p) /\ Len(p) \in Nat /\ Len(v) \in Nat
    BY <1>4, Cat
  <2>2. Len((a \o p) \o v) = Len(a \o p) + Len(v)
    BY <1>4, <1>5
  <2> QED
    BY <1>4, <2>1, <2>2
<1> QED
  BY <1>1, <1>5, <1>6 DEF EncodeTLV, a, p, v

\* No tuple, no bytes.
LEMMA EncodeTLVsEmpty == EncodeTLVs(<<>>) = <<>>
<1> DEFINE q == [i \in DOMAIN <<>> |-> EncodeTLV(<<>>[i])]
<1>1. q = <<>>
  OBVIOUS
<1>2. FlattenSeq(<<>>) = <<>>
  BY DEF FlattenSeq
<1> QED
  BY <1>1, <1>2 DEF EncodeTLVs

\* One tuple more.
LEMMA EncodeTLVsAppend ==
  ASSUME NEW s \in Seq(TLV), NEW t \in TLV, EncodeTLVs(s) \in Seq(Byte)
  PROVE  EncodeTLVs(Append(s, t)) = EncodeTLVs(s) \o EncodeTLV(t)
<1> DEFINE n == Len(s)
           r == Append(s, t)
           q == [i \in DOMAIN s |-> EncodeTLV(s[i])]
           q2 == [i \in DOMAIN r |-> EncodeTLV(r[i])]
<1>1. /\ n \in Nat /\ r \in Seq(TLV) /\ Len(r) = n + 1
      /\ DOMAIN s = 1 .. n /\ DOMAIN r = 1 .. n + 1
      /\ r[n + 1] = t /\ \A i \in 1 .. n : r[i] = s[i]
  OBVIOUS
<1>2. q2[n + 1] = EncodeTLV(t) /\ \A i \in 1 .. n : q[i] = q2[i]
  BY <1>1
<1>3. Len(q) = n /\ Len(q2) = n + 1
  BY <1>1
<1>4. EncodeTLVs(s) = FlattenSeq(q) /\ EncodeTLVs(r) = FlattenSeq(q2)
  BY DEF EncodeTLVs
<1> HIDE DEF n, q, q2, r
<1>5. PICK f2 : IsFlatten(f2, q2, n + 1) /\ FlattenSeq(q2) = f2[n + 1]
  <2>1. Len(q2) \in Nat /\ Len(q2) # 0
    BY <1>1, <1>3
  <2> QED
    BY <1>3, <2>1, FlattenIs
<1>6. CASE n = 0
  <2>1. s = <<>>
    BY <1>6 DEF n
  <2>2. f2[n + 1] = q2[1]
    BY <1>5, <1>6 DEF IsFlatten
  <2>3. EncodeTLVs(r) = EncodeTLV(t)
    BY <1>2, <1>4, <1>5, <1>6, <2>2
  <2> QED
    BY <2>1, <2>3, EncodeTLVsEmpty, EncodeTLVBytes, CatEmpty DEF r
<1>7. CASE n # 0
  <2>1. PICK f : IsFlatten(f, q, n) /\ FlattenSeq(q) = f[n]
    <3>1. Len(q) \in Nat /\ Len(q) # 0
      BY <1>1, <1>3, <1>7
    <3> QED
      BY <1>3, <3>1, FlattenIs
  <2>2. f[n] = f2[n]
    <3> DEFINE m == n + 1
    <3>1. n \in 1 .. n /\ n <= m /\ m \in Nat /\ n \in Nat
      BY <1>1, <1>7
    <3>2. IsFlatten(f, q, n) /\ IsFlatten(f2, q2, m) /\ \A i \in 1 .. n : q[i] = q2[i]
      BY <1>2, <1>5, <2>1
    <3> HIDE DEF m
    <3>3. \A i \in 1 .. n : f[i] = f2[i]
      BY ONLY <3>1, <3>2, FlattenUnique
    <3> QED
      BY <3>1, <3>3
  <2>3. f2[n + 1] = f2[n] \o q2[n + 1]
    <3>1. n + 1 \in 1 .. n + 1 /\ n + 1 # 1 /\ (n + 1) - 1 = n
      BY <1>1, <1>7
    <3> QED
      BY <1>5, <3>1 DEF IsFlatten
  <2> QED
    BY <1>2, <1>4, <1>5, <2>1, <2>2, <2>3 DEF r
<1> QED
  BY <1>6, <1>7

\* A sequence of tuples that is not empty ends with one.
LEMMA LastTLV ==
  ASSUME NEW s \in Seq(TLV), NEW n \in Nat, Len(s) = n + 1
  PROVE  /\ SubSeq(s, 1, n) \in Seq(TLV) /\ Len(SubSeq(s, 1, n)) = n
         /\ s[n + 1] \in TLV
         /\ s = Append(SubSeq(s, 1, n), s[n + 1])
OBVIOUS

\* EncodeTLVs writes bytes.
LEMMA EncodeTLVsBytes ==
  ASSUME NEW s \in Seq(TLV)
  PROVE  EncodeTLVs(s) \in Seq(Byte)
<1> DEFINE S == {n \in Nat : \A r \in Seq(TLV) : Len(r) = n => EncodeTLVs(r) \in Seq(Byte)}
<1>1. 0 \in S
  <2>1. \A r \in Seq(TLV) : Len(r) = 0 => r = <<>>
    OBVIOUS
  <2> QED
    BY <2>1, EncodeTLVsEmpty
<1>2. ASSUME NEW n \in Nat, n \in S
      PROVE  n + 1 \in S
  <2> SUFFICES ASSUME NEW r \in Seq(TLV), Len(r) = n + 1
               PROVE  EncodeTLVs(r) \in Seq(Byte)
    OBVIOUS
  <2> DEFINE a == SubSeq(r, 1, n)
             t == r[n + 1]
  <2>1. a \in Seq(TLV) /\ Len(a) = n /\ t \in TLV /\ r = Append(a, t)
    BY LastTLV
  <2> HIDE DEF a, t
  <2>2. EncodeTLVs(a) \in Seq(Byte)
    BY <1>2, <2>1
  <2>3. EncodeTLVs(r) = EncodeTLVs(a) \o EncodeTLV(t)
    BY <2>1, <2>2, EncodeTLVsAppend
  <2> QED
    BY <2>1, <2>2, <2>3, EncodeTLVBytes, Cat
<1>3. \A n \in Nat : n \in S
  <2> HIDE DEF S
  <2> QED
    BY <1>1, <1>2, SetInduction
<1>4. Len(s) \in Nat
  OBVIOUS
<1> QED
  BY <1>3, <1>4

\* The tuples of two sequences, one after the other.
LEMMA EncodeTLVsCat ==
  ASSUME NEW a \in Seq(TLV), NEW b \in Seq(TLV)
  PROVE  EncodeTLVs(a \o b) = EncodeTLVs(a) \o EncodeTLVs(b)
<1> DEFINE S == {n \in Nat : \A r \in Seq(TLV) :
                   Len(r) = n => EncodeTLVs(a \o r) = EncodeTLVs(a) \o EncodeTLVs(r)}
<1>0. EncodeTLVs(a) \in Seq(Byte)
  BY EncodeTLVsBytes
<1>1. 0 \in S
  <2>1. \A r \in Seq(TLV) : Len(r) = 0 => r = <<>>
    OBVIOUS
  <2>2. a \o <<>> = a
    OBVIOUS
  <2>3. EncodeTLVs(a) \o <<>> = EncodeTLVs(a)
    BY <1>0, CatEmpty
  <2> QED
    BY <2>1, <2>2, <2>3, EncodeTLVsEmpty
<1>2. ASSUME NEW n \in Nat, n \in S
      PROVE  n + 1 \in S
  <2> SUFFICES ASSUME NEW r \in Seq(TLV), Len(r) = n + 1
               PROVE  EncodeTLVs(a \o r) = EncodeTLVs(a) \o EncodeTLVs(r)
    OBVIOUS
  <2> DEFINE c == SubSeq(r, 1, n)
             t == r[n + 1]
  <2>1. c \in Seq(TLV) /\ Len(c) = n /\ t \in TLV /\ r = Append(c, t)
    BY LastTLV
  <2> HIDE DEF c, t
  <2>2. EncodeTLVs(c) \in Seq(Byte) /\ EncodeTLV(t) \in Seq(Byte)
    BY <2>1, EncodeTLVsBytes, EncodeTLVBytes
  <2>3. EncodeTLVs(r) = EncodeTLVs(c) \o EncodeTLV(t)
    BY <2>1, <2>2, EncodeTLVsAppend
  <2>4. a \o c \in Seq(TLV) /\ a \o Append(c, t) = Append(a \o c, t)
    BY <2>1
  <2>5. EncodeTLVs(a \o c) \in Seq(Byte)
    BY <2>4, EncodeTLVsBytes
  <2>6. EncodeTLVs(a \o r) = EncodeTLVs(a \o c) \o EncodeTLV(t)
    BY <2>1, <2>4, <2>5, EncodeTLVsAppend
  <2>7. EncodeTLVs(a \o c) = EncodeTLVs(a) \o EncodeTLVs(c)
    BY <1>2, <2>1
  <2>8. (EncodeTLVs(a) \o EncodeTLVs(c)) \o EncodeTLV(t)
          = EncodeTLVs(a) \o (EncodeTLVs(c) \o EncodeTLV(t))
    BY <1>0, <2>2, CatAssociative
  <2> QED
    BY <2>3, <2>6, <2>7, <2>8
<1>3. \A n \in Nat : n \in S
  <2> HIDE DEF S
  <2> QED
    BY <1>1, <1>2, SetInduction
<1>4. Len(b) \in Nat
  OBVIOUS
<1> QED
  BY <1>3, <1>4

\* The first tuple and the others.
LEMMA EncodeTLVsFirst ==
  ASSUME NEW s \in Seq(TLV), s # <<>>
  PROVE  /\ s[1] \in TLV /\ Tail(s) \in Seq(TLV) /\ Len(Tail(s)) = Len(s) - 1
         /\ EncodeTLVs(s) = EncodeTLV(s[1]) \o EncodeTLVs(Tail(s))
<1>1. s[1] \in TLV /\ Tail(s) \in Seq(TLV) /\ Len(Tail(s)) = Len(s) - 1
  OBVIOUS
<1>2. <<s[1]>> \in Seq(TLV) /\ s = <<s[1]>> \o Tail(s)
  BY <1>1
<1>3. EncodeTLVs(<<s[1]>>) = EncodeTLV(s[1])
  <2>1. <<s[1]>> = Append(<<>>, s[1]) /\ <<>> \in Seq(TLV) /\ <<>> \in Seq(Byte)
    OBVIOUS
  <2> QED
    BY <1>1, <2>1, EncodeTLVsEmpty, EncodeTLVsAppend, EncodeTLVBytes, CatEmpty
<1>4. EncodeTLVs(<<s[1]>> \o Tail(s)) = EncodeTLVs(<<s[1]>>) \o EncodeTLVs(Tail(s))
  BY <1>1, <1>2, EncodeTLVsCat
<1> QED
  BY <1>1, <1>2, <1>3, <1>4

\* b[n:n+k] of a concatenation.
LEMMA MiddleOf ==
  ASSUME NEW s \in Seq(Byte), NEW v \in Seq(Byte), NEW b \in Seq(Byte)
  PROVE  SubSeq(s \o (v \o b), Len(s) + 1, Len(s) + Len(v)) = v
<1> DEFINE c == s \o (v \o b)
           n == Len(s)
           k == Len(v)
           m == SubSeq(c, n + 1, n + k)
<1>1. v \o b \in Seq(Byte) /\ Len(v \o b) = k + Len(b) /\ k \in Nat /\ n \in Nat /\ Len(b) \in Nat
  BY Cat
<1>2. c \in Seq(Byte) /\ Len(c) = n + Len(v \o b)
  BY <1>1, Cat
<1>3. \A i \in 1 .. Len(v \o b) : c[n + i] = (v \o b)[i]
  BY <1>1, Cat
<1>4. \A i \in 1 .. k : (v \o b)[i] = v[i]
  BY Cat
<1> HIDE DEF c
<1>5. m \in Seq(Byte) /\ Len(m) = k /\ \A i \in 1 .. k : m[i] = c[n + i]
  BY <1>1, <1>2
<1>6. ASSUME NEW i \in 1 .. k
      PROVE  m[i] = v[i]
  <2>1. i \in 1 .. Len(v \o b)
    BY <1>1
  <2> QED
    BY <1>3, <1>4, <1>5, <2>1
<1>7. m = v
  BY <1>5, <1>6, SameBytes
<1> QED
  BY <1>7 DEF c

\* A slice with one byte in front.
LEMMA TailOfCat ==
  ASSUME NEW x \in Byte, NEW s \in Seq(Byte)
  PROVE  /\ <<x>> \o s \in Seq(Byte) /\ <<x>> \o s # <<>> /\ Len(<<x>> \o s) = 1 + Len(s)
         /\ (<<x>> \o s)[1] = x
         /\ Tail(<<x>> \o s) = s
<1>1. <<x>> \in Seq(Byte) /\ Len(<<x>>) = 1
  OBVIOUS
<1>2. <<x>> \o s \in Seq(Byte) /\ Len(<<x>> \o s) = 1 + Len(s) /\ (<<x>> \o s)[1] = x
  BY <1>1, Cat
<1>3. <<x>> \o s # <<>>
  BY <1>2
<1> QED
  BY <1>1, <1>2, <1>3

\* The loop of DecodeTLVs, at a tuple that EncodeTLVs wrote.
LEMMA ReadTLV ==
  ASSUME NEW t \in TLV, Len(t.value) < Base * Base * Base * Base, NEW b \in Seq(Byte)
  PROVE  LET c == EncodeTLV(t) \o b
             n == Len(t.value)
             u == Len(PutCompactSize(n))
         IN  /\ c \in Seq(Byte) /\ c # <<>> /\ c[1] = t.tag
             /\ n \in Nat /\ u \in Nat
             /\ ReadCompactSize(Tail(c)) = {[n |-> n, used |-> u]}
             /\ Len(c) = 1 + u + n + Len(b)
             /\ SubSeq(c, 1 + u + 1, 1 + u + n) = t.value
             /\ SubSeq(c, 1 + u + n + 1, Len(c)) = b
<1> DEFINE e == EncodeTLV(t)
           c == e \o b
           v == t.value
           n == Len(t.value)
           p == PutCompactSize(n)
           a == <<t.tag>>
<1>1. /\ e \in Seq(Byte) /\ t.tag \in Byte /\ v \in Seq(Byte)
      /\ e = a \o (p \o v) /\ Len(e) = 1 + Len(p) + n
  BY EncodeTLVBytes
<1>2. p \in Seq(Byte) /\ Len(p) \in Nat /\ n \in Nat /\ a \in Seq(Byte) /\ Len(a) = 1
  <2>1. n \in Nat /\ a \in Seq(Byte) /\ Len(a) = 1
    BY <1>1
  <2>2. p \in Seq(Byte)
    BY <2>1, PutBytes
  <2> QED
    BY <2>1, <2>2
<1>3. ReadCompactSize(p \o (v \o b)) = {[n |-> n, used |-> Len(p)]}
  <2>1. v \o b \in Seq(Byte)
    BY <1>1, Cat
  <2> QED
    BY <1>2, <2>1, ReadsBack
<1> HIDE DEF e, p, v, n, a
<1>4. c = a \o (p \o (v \o b)) /\ c = (a \o p) \o (v \o b)
  <2>1. /\ p \o v \in Seq(Byte) /\ v \o b \in Seq(Byte) /\ p \o (v \o b) \in Seq(Byte)
    BY <1>1, <1>2, Cat
  <2>2. (a \o (p \o v)) \o b = a \o ((p \o v) \o b)
    BY <1>2, <2>1, CatAssociative, SMTT(60)
  <2>3. (p \o v) \o b = p \o (v \o b)
    BY <1>1, <1>2, CatAssociative, SMTT(60)
  <2>4. (a \o p) \o (v \o b) = a \o (p \o (v \o b))
    BY <1>2, <2>1, CatAssociative
  <2> QED
    BY <1>1, <2>2, <2>3, <2>4
<1>5. c \in Seq(Byte) /\ Len(c) = 1 + Len(p) + n + Len(b) /\ Len(b) \in Nat
  <2>1. c \in Seq(Byte) /\ Len(c) = Len(e) + Len(b) /\ Len(b) \in Nat
    BY <1>1, Cat
  <2> QED
    BY <1>1, <1>2, <2>1
<1>6. c # <<>> /\ c[1] = t.tag /\ Tail(c) = p \o (v \o b)
  <2>1. p \o (v \o b) \in Seq(Byte)
    BY <1>1, <1>2, Cat
  <2>2. c = <<t.tag>> \o (p \o (v \o b))
    BY <1>4 DEF a
  <2> QED
    BY <1>1, <2>1, <2>2, TailOfCat
<1>7. SubSeq(c, 1 + Len(p) + 1, 1 + Len(p) + n) = v
  <2>1. a \o p \in Seq(Byte) /\ Len(a \o p) = 1 + Len(p)
    <3>1. a \o p \in Seq(Byte) /\ Len(a \o p) = Len(a) + Len(p)
      BY <1>2, Cat
    <3> QED
      BY <1>2, <3>1
  <2>2. SubSeq((a \o p) \o (v \o b), Len(a \o p) + 1, Len(a \o p) + Len(v)) = v
    BY <1>1, <2>1, MiddleOf
  <2> QED
    BY <1>4, <2>1, <2>2 DEF n, v
<1>8. SubSeq(c, 1 + Len(p) + n + 1, Len(c)) = b
  <2>1. SubSeq(e \o b, Len(e) + 1, Len(e \o b)) = b
    BY <1>1, CutCat
  <2> QED
    BY <1>1, <2>1
<1> QED
  BY <1>2, <1>3, <1>5, <1>6, <1>7, <1>8 DEF e, p, v, n

\* No two sequences of tuples have the same encoding.
THEOREM EncodeTLVsInjective ==
  ASSUME NEW a \in Seq(TLV), NEW b \in Seq(TLV), EncodeTLVs(a) = EncodeTLVs(b),
         Len(EncodeTLVs(a)) < Base * Base * Base * Base
  PROVE  a = b
<1> DEFINE big == Base * Base * Base * Base
           S == {n \in Nat : \A x, y \in Seq(TLV) :
                   /\ Len(x) = n
                   /\ EncodeTLVs(x) = EncodeTLVs(y)
                   /\ Len(EncodeTLVs(x)) < big
                   => x = y}
<1>0. ASSUME NEW x \in Seq(TLV), x # <<>>, Len(EncodeTLVs(x)) < big
      PROVE  /\ EncodeTLVs(x) # <<>>
             /\ Len(x[1].value) < big
             /\ Len(EncodeTLVs(Tail(x))) < big
             /\ x[1] \in TLV /\ Tail(x) \in Seq(TLV) /\ EncodeTLVs(Tail(x)) \in Seq(Byte)
             /\ EncodeTLVs(x) = EncodeTLV(x[1]) \o EncodeTLVs(Tail(x))
             /\ x = <<x[1]>> \o Tail(x)
  <2>1. /\ x[1] \in TLV /\ Tail(x) \in Seq(TLV)
        /\ EncodeTLVs(x) = EncodeTLV(x[1]) \o EncodeTLVs(Tail(x))
    BY <1>0, EncodeTLVsFirst
  <2>2. EncodeTLVs(Tail(x)) \in Seq(Byte)
    BY <2>1, EncodeTLVsBytes
  <2> DEFINE e == EncodeTLV(x[1])
             f == EncodeTLVs(Tail(x))
             v == x[1].value
             p == PutCompactSize(Len(v))
  <2>3. e \in Seq(Byte) /\ v \in Seq(Byte) /\ Len(e) = 1 + Len(p) + Len(v)
    BY <2>1, EncodeTLVBytes
  <2>4. Len(v) \in Nat /\ Len(p) \in Nat
    <3>1. Len(v) \in Nat
      BY <2>3
    <3>2. p \in Seq(Byte)
      BY <3>1, PutBytes
    <3> QED
      BY <3>1, <3>2
  <2> HIDE DEF e, f, p, v
  <2>5. Len(e \o f) = Len(e) + Len(f) /\ Len(f) \in Nat
    BY <2>2, <2>3, Cat DEF f
  <2>6. big \in Nat
    BY Bases
  <2> HIDE DEF big
  <2>7. Len(e \o f) < big
    BY <1>0, <2>1 DEF e, f
  <2>8. Len(v) < big /\ Len(f) < big /\ Len(e \o f) # 0
    BY <2>3, <2>4, <2>5, <2>6, <2>7
  <2>9. e \o f # <<>>
    BY <2>8
  <2>10. x = <<x[1]>> \o Tail(x)
    BY <1>0
  <2> QED
    BY <2>1, <2>2, <2>8, <2>9, <2>10 DEF e, f, v
<1>1. 0 \in S
  <2> SUFFICES ASSUME NEW x \in Seq(TLV), NEW y \in Seq(TLV), Len(x) = 0,
                      EncodeTLVs(x) = EncodeTLVs(y), Len(EncodeTLVs(x)) < big
               PROVE  x = y
    OBVIOUS
  <2>1. x = <<>> /\ EncodeTLVs(x) = <<>>
    BY EncodeTLVsEmpty
  <2> QED
    BY <1>0, <2>1
<1>2. ASSUME NEW n \in Nat, n \in S
      PROVE  n + 1 \in S
  <2> SUFFICES ASSUME NEW x \in Seq(TLV), NEW y \in Seq(TLV), Len(x) = n + 1,
                      EncodeTLVs(x) = EncodeTLVs(y), Len(EncodeTLVs(x)) < big
               PROVE  x = y
    OBVIOUS
  <2>1. x # <<>>
    OBVIOUS
  <2>2. y # <<>>
    BY <1>0, <2>1, EncodeTLVsEmpty
  <2> DEFINE c == EncodeTLVs(x)
             t == x[1]
             r == Tail(x)
             t2 == y[1]
             r2 == Tail(y)
  <2>3. /\ t \in TLV /\ Len(t.value) < big /\ r \in Seq(TLV) /\ EncodeTLVs(r) \in Seq(Byte)
        /\ Len(EncodeTLVs(r)) < big
        /\ c = EncodeTLV(t) \o EncodeTLVs(r)
        /\ x = <<t>> \o r
    BY <1>0, <2>1
  <2>4. /\ t2 \in TLV /\ Len(t2.value) < big /\ r2 \in Seq(TLV) /\ EncodeTLVs(r2) \in Seq(Byte)
        /\ c = EncodeTLV(t2) \o EncodeTLVs(r2)
        /\ y = <<t2>> \o r2
    BY <1>0, <2>2
  <2>5. Len(r) = n
    BY <2>1
  <2> HIDE DEF c, t, r, t2, r2
  <2> DEFINE k == Len(t.value)
             k2 == Len(t2.value)
             u == Len(PutCompactSize(k))
             u2 == Len(PutCompactSize(k2))
  <2>6. /\ c[1] = t.tag
        /\ ReadCompactSize(Tail(c)) = {[n |-> k, used |-> u]}
        /\ SubSeq(c, 1 + u + 1, 1 + u + k) = t.value
        /\ SubSeq(c, 1 + u + k + 1, Len(c)) = EncodeTLVs(r)
    BY <2>3, ReadTLV
  <2>7. /\ c[1] = t2.tag
        /\ ReadCompactSize(Tail(c)) = {[n |-> k2, used |-> u2]}
        /\ SubSeq(c, 1 + u2 + 1, 1 + u2 + k2) = t2.value
        /\ SubSeq(c, 1 + u2 + k2 + 1, Len(c)) = EncodeTLVs(r2)
    BY <2>4, ReadTLV
  <2>8. k = k2 /\ u = u2
    <3> HIDE DEF k, k2, u, u2
    <3>1. [n |-> k, used |-> u] = [n |-> k2, used |-> u2]
      BY <2>6, <2>7
    <3> QED
      BY <3>1
  <2>9. t.tag = t2.tag /\ t.value = t2.value /\ EncodeTLVs(r) = EncodeTLVs(r2)
    BY <2>6, <2>7, <2>8
  <2>10. t = t2
    BY <2>3, <2>4, <2>9, EncodeTLVBytes
  <2>11. r = r2
    BY <1>2, <2>3, <2>4, <2>5, <2>9
  <2> QED
    BY <2>3, <2>4, <2>10, <2>11
<1>3. \A n \in Nat : n \in S
  <2> HIDE DEF S
  <2> QED
    BY <1>1, <1>2, SetInduction
<1>4. Len(a) \in Nat
  OBVIOUS
<1> QED
  BY <1>3, <1>4
=============================================================================
