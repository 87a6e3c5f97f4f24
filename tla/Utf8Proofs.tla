----------------------------- MODULE Utf8Proofs -----------------------------
(***************************************************************************)
(* For every text of runes of one to four bytes and every sequence of      *)
(* reversals and writes: the two loops of reverse_span stay within their   *)
(* span and leave the encoding of the reversed runes, and read_utf8 reads  *)
(* the runes back.                                                         *)
(***************************************************************************)
EXTENDS Utf8, NaturalLemmas

Byte == 0 .. 255
Width(r) == Len(Encode(r))

-----------------------------------------------------------------------------
(* Arithmetic of positions: a rune of w bytes begins at o.                 *)

\* A byte of a rune of w bytes at o.
LEMMA ByteOfRune ==
  ASSUME NEW o \in Nat \ {0}, NEW w \in 1 .. 4, NEW L \in Nat, o + w <= L, NEW j \in 1 .. w
  PROVE  o + j - 1 \in 1 .. L /\ o <= o + j - 1 /\ o + j - 1 < o + w
<1>1. j \in Int /\ 1 <= j /\ j <= w
  OBVIOUS
<1> QED BY <1>1

LEMMA PositionInRune ==
  ASSUME NEW o \in Nat, NEW w \in Nat, NEW p \in Int, o <= p, p < o + w
  PROVE  p - o + 1 \in 1 .. w /\ o + (p - o + 1) - 1 = p
OBVIOUS

\* Its j-th byte from the left in the span s .. e - 1, from the right.
LEMMA MirrorPosition ==
  ASSUME NEW s \in Int, NEW e \in Int, NEW o \in Int, NEW w \in Int, NEW j \in Int
  PROVE  s + e - 1 - (o + j - 1) = (s + e - (o + w)) + (w + 1 - j) - 1
OBVIOUS

\* The same for the rune itself, which ends at o + w - 1.
LEMMA RotatePosition ==
  ASSUME NEW o \in Int, NEW w \in Int, NEW p \in Int, p = o + w - 1
  PROVE  /\ p - (w - 1) - 1 = o - 1
         /\ \A x \in Int : /\ p - w < x /\ x <= p <=> o <= x /\ x < o + w
                           /\ (2 * p) - w + 1 - x = o + (o + w - 1) - x
OBVIOUS

\* A rune of two or three bytes is turned by one swap of its outer ones.
LEMMA OuterPositions ==
  ASSUME NEW p \in Int, NEW w \in {2, 3}, NEW x \in Int
  PROVE  LET q == p - (w - 1) IN
         /\ x = p => (2 * p) - w + 1 - x = q
         /\ x = q => (2 * p) - w + 1 - x = p
         /\ p - w < x /\ x < p /\ x # q => (2 * p) - w + 1 - x = x
<1>1. CASE w = 2 BY <1>1
<1>2. CASE w = 3 BY <1>2
<1> QED BY <1>1, <1>2

-----------------------------------------------------------------------------
(* Encodings.                                                              *)

LEMMA EncodeSpec ==
  ASSUME NEW r \in Rune
  PROVE  /\ Width(r) \in 1 .. 4 /\ Encode(r) \in [1 .. Width(r) -> Byte]
         /\ ct(Encode(r)[1]) = Width(r) - 1
         /\ Width(r) = 2 <=> r \in \h80 .. \h7FF
<1>1. CASE r < \h80
  BY <1>1, SMTT(60) DEF Rune, Byte, Width, Encode, ct
<1>2. CASE r >= \h80 /\ r < \h800
  BY <1>2, SMTT(60) DEF Rune, Byte, Width, Encode, ct
<1>3. CASE r >= \h800 /\ r < \h10000
  <2> DEFINE b0 == \hE0 + (r \div 4096)
             b1 == \h80 + ((r \div 64) % 64)
             b2 == \h80 + (r % 64)
  <2>b. r \in Int /\ ~(r < \h80) /\ ~(r < \h800)
    BY <1>3, SMT DEF Rune
  <2>1. Encode(r) = << b0, b1, b2 >>
    BY <1>3, <2>b, SMT DEF Encode
  <2>a. ~(r \in \h80 .. \h7FF)
    BY <2>b, SMTT(30)
  <2>2. b0 \in Byte /\ b1 \in Byte /\ b2 \in Byte /\ b0 \div 16 = 14
    BY <1>3, SMT DEF Byte, Rune
  <2> HIDE DEF b0, b1, b2
  <2>3. ct(b0) = 2
    BY <2>2, SMT DEF ct
  <2> QED BY <2>1, <2>2, <2>3, <2>a, SMT DEF Width
<1>4. CASE r >= \h10000
  <2> DEFINE b0 == \hF0 + (r \div 262144)
             b1 == \h80 + ((r \div 4096) % 64)
             b2 == \h80 + ((r \div 64) % 64)
             b3 == \h80 + (r % 64)
  <2>b. r \in Int /\ ~(r < \h80) /\ ~(r < \h800) /\ ~(r < \h10000)
    BY <1>4, SMT DEF Rune
  <2>1. Encode(r) = << b0, b1, b2, b3 >>
    BY <1>4, <2>b, SMT DEF Encode
  <2>a. ~(r \in \h80 .. \h7FF)
    BY <2>b, SMTT(30)
  <2>2. b0 \in Byte /\ b1 \in Byte /\ b2 \in Byte /\ b3 \in Byte /\ b0 \div 16 = 15
    BY <1>4, SMT DEF Byte, Rune
  <2> HIDE DEF b0, b1, b2, b3
  <2>3. ct(b0) = 3
    BY <2>2, SMT DEF ct
  <2> QED BY <2>1, <2>2, <2>3, <2>a, SMT DEF Width
<1> QED BY <1>1, <1>2, <1>3, <1>4, SMT DEF Rune

\* The recursive function is well defined.
LEMMA OffsetsSpec ==
  ASSUME NEW t \in Seq(Rune)
  PROVE  /\ Offset(t, 1) = 1
         /\ \A k \in 1 .. Len(t) : Offset(t, k + 1) = Offset(t, k) + Width(t[k])
<1> DEFINE Next(g, k) == IF k = 1 THEN 1 ELSE g[k - 1] + Len(Encode(t[k - 1]))
           Is(g, n) == g = [k \in 1 .. n + 1 |-> Next(g, k)]
           S == {n \in Nat : \E g : Is(g, n)}
<1>1. 0 \in S
  <2>1. Is([k \in 1 .. 0 + 1 |-> 1], 0)
    OBVIOUS
  <2> QED BY <2>1
<1>2. ASSUME NEW n \in Nat, n \in S PROVE n + 1 \in S
  <2>1. PICK g : Is(g, n)
    BY <1>2
  <2> DEFINE h == [k \in 1 .. (n + 1) + 1 |-> Next(g, k)]
  <2>2. \A k \in 1 .. n + 1 : h[k] = g[k]
    BY <2>1
  <2>3. \A k \in 1 .. (n + 1) + 1 : k # 1 => k - 1 \in 1 .. n + 1
    OBVIOUS
  <2> HIDE DEF h
  <2>4. \A k \in 1 .. (n + 1) + 1 : Next(h, k) = Next(g, k)
    BY <2>2, <2>3
  <2>5. h = [k \in 1 .. (n + 1) + 1 |-> Next(h, k)]
    BY <2>4 DEF h
  <2>6. n + 1 \in Nat
    OBVIOUS
  <2> HIDE DEF Next
  <2> QED BY <2>5, <2>6, Zenon
<1> HIDE DEF S
<1>3. \A n \in Nat : n \in S
  BY <1>1, <1>2, SetInduction
<1>4. Len(t) \in Nat
  OBVIOUS
<1>5. \E g : Is(g, Len(t))
  BY <1>3, <1>4 DEF S
<1>6. Is(Offsets(t), Len(t))
  BY <1>5, Zenon DEF Offsets
<1> QED BY <1>4, <1>6 DEF Offset, Width

LEMMA SeqFacts ==
  ASSUME NEW t \in Seq(Rune)
  PROVE  /\ Len(t) \in Nat /\ DOMAIN t = 1 .. Len(t)
         /\ \A k \in 1 .. Len(t) : t[k] \in Rune /\ Width(t[k]) \in 1 .. 4
<1>1. Len(t) \in Nat /\ DOMAIN t = 1 .. Len(t) /\ \A k \in 1 .. Len(t) : t[k] \in Rune
  OBVIOUS
<1> QED BY <1>1, EncodeSpec

\* Offsets grow by the width of the runes between.
LEMMA OffsetsGrow ==
  ASSUME NEW t \in Seq(Rune)
  PROVE  /\ \A k \in 1 .. Len(t) + 1 : Offset(t, k) \in Nat \ {0}
         /\ \A i, j \in 1 .. Len(t) + 1 : i < j => Offset(t, i) < Offset(t, j)
<1>0. /\ Len(t) \in Nat /\ Offset(t, 1) = 1
      /\ \A k \in 1 .. Len(t) : /\ Width(t[k]) \in 1 .. 4
                                /\ Offset(t, k + 1) = Offset(t, k) + Width(t[k])
  BY SeqFacts, OffsetsSpec
<1> DEFINE Good(k) == /\ Offset(t, k) \in Nat \ {0}
                      /\ \A i \in 1 .. k : /\ Offset(t, i) \in Nat
                                           /\ i < k => Offset(t, i) < Offset(t, k)
           S == {n \in Nat : n <= Len(t) => Good(n + 1)}
<1>1. 0 \in S
  BY <1>0
<1>2. ASSUME NEW n \in Nat, n \in S PROVE n + 1 \in S
  <2>1. SUFFICES ASSUME n + 1 <= Len(t) PROVE Good((n + 1) + 1)
    OBVIOUS
  <2>2. n + 1 \in 1 .. Len(t) /\ n <= Len(t)
    BY <1>0, <2>1
  <2>3. Good(n + 1)
    BY <1>2, <2>2
  <2>4. Offset(t, (n + 1) + 1) \in Nat /\ Offset(t, n + 1) < Offset(t, (n + 1) + 1)
    BY <1>0, <2>2, <2>3
  <2>5. ASSUME NEW i \in 1 .. (n + 1) + 1, i < (n + 1) + 1
        PROVE  Offset(t, i) < Offset(t, (n + 1) + 1)
    <3>1. CASE i = n + 1
      BY <2>4, <3>1
    <3>2. CASE i # n + 1
      <4>1. i \in 1 .. n + 1 /\ i < n + 1 /\ i <= Len(t)
        BY <1>0, <2>1, <2>5, <3>2
      <4>2. Offset(t, i) < Offset(t, n + 1) /\ Offset(t, i) \in Nat
        BY <2>3, <4>1
      <4> QED BY <2>3, <2>4, <4>2
    <3> QED BY <3>1, <3>2
  <2>6. Offset(t, (n + 1) + 1) # 0
    BY <2>3, <2>4
  <2>7. ASSUME NEW i \in 1 .. (n + 1) + 1 PROVE Offset(t, i) \in Nat
    <3>1. i \in 1 .. n + 1 \/ i = (n + 1) + 1
      OBVIOUS
    <3> QED BY <2>3, <2>4, <3>1
  <2> QED BY <2>4, <2>5, <2>6, <2>7
<1> HIDE DEF S
<1>3. \A n \in Nat : n \in S
  BY <1>1, <1>2, SetInduction
<1>4. ASSUME NEW k \in 1 .. Len(t) + 1 PROVE Good(k)
  <2>1. k - 1 \in Nat /\ k - 1 <= Len(t) /\ (k - 1) + 1 = k
    BY <1>0
  <2>2. k - 1 \in S => Good((k - 1) + 1)
    BY <2>1 DEF S
  <2> QED BY <1>3, <2>1, <2>2
<1>5. ASSUME NEW i \in 1 .. Len(t) + 1, NEW j \in 1 .. Len(t) + 1, i < j
      PROVE  i \in 1 .. j
  BY <1>0, <1>5
<1> QED BY <1>4, <1>5

\* A rune ends before the next one.
LEMMA OffsetsApart ==
  ASSUME NEW t \in Seq(Rune), NEW i \in 1 .. Len(t), NEW k \in 1 .. Len(t) + 1, i < k
  PROVE  Offset(t, i) + Width(t[i]) <= Offset(t, k)
<1>1. Len(t) \in Nat /\ Offset(t, i + 1) = Offset(t, i) + Width(t[i])
  BY OffsetsSpec, SeqFacts
<1>2. i + 1 \in 1 .. Len(t) + 1 /\ (i + 1 = k \/ i + 1 < k)
  BY <1>1
<1>3. Offset(t, i + 1) \in Nat /\ Offset(t, k) \in Nat
      /\ (i + 1 < k => Offset(t, i + 1) < Offset(t, k))
  BY <1>2, OffsetsGrow
<1> QED BY <1>1, <1>2, <1>3

\* Every byte but the last is one of exactly one rune.
LEMMA RuneAtSpec ==
  ASSUME NEW t \in Seq(Rune)
  PROVE  /\ \A p \in 1 .. Offset(t, Len(t) + 1) - 1 :
              /\ RuneAt(t, p) \in 1 .. Len(t)
              /\ Offset(t, RuneAt(t, p)) <= p /\ p < Offset(t, RuneAt(t, p) + 1)
         /\ \A k \in 1 .. Len(t), p \in Int :
              Offset(t, k) <= p /\ p < Offset(t, k + 1) => RuneAt(t, p) = k
<1> DEFINE n == Len(t)
           O(k) == Offset(t, k)
<1>0. /\ n \in Nat /\ \A k \in 1 .. n + 1 : O(k) \in Nat \ {0}
      /\ \A i, j \in 1 .. n + 1 : i < j => O(i) < O(j)
      /\ O(1) = 1
  BY OffsetsGrow, OffsetsSpec, SeqFacts
<1> HIDE DEF O, n
<1>1. ASSUME NEW p \in 1 .. O(n + 1) - 1
      PROVE  \E k \in 1 .. n : O(k) <= p /\ p < O(k + 1)
  <2> DEFINE S == {k \in 1 .. n + 1 : p < O(k)}
  <2>1. S \subseteq Nat /\ S # {}
    <3>1. n + 1 \in 1 .. n + 1 /\ p < O(n + 1)
      BY <1>0
    <3> QED BY <1>0, <3>1
  <2>2. PICK m \in S : \A k \in S : m <= k
    <3> HIDE DEF S
    <3> QED BY <2>1, LeastNat
  <2>3. m \in 1 .. n + 1 /\ p < O(m) /\ m # 1
    BY <1>0
  <2>4. m - 1 \in 1 .. n /\ m - 1 \in 1 .. n + 1 /\ ~(m <= m - 1) /\ (m - 1) + 1 = m
    BY <1>0, <2>3
  <2>5. ~(p < O(m - 1))
    BY <2>2, <2>4
  <2>6. O(m - 1) <= p
    BY <1>0, <2>4, <2>5
  <2> QED BY <2>3, <2>4, <2>6
<1>2. ASSUME NEW k \in 1 .. n, NEW j \in 1 .. n, NEW p \in Int,
             O(k) <= p, p < O(k + 1), O(j) <= p, p < O(j + 1)
      PROVE  j = k
  <2>0. /\ k \in 1 .. n + 1 /\ j \in 1 .. n + 1 /\ k + 1 \in 1 .. n + 1 /\ j + 1 \in 1 .. n + 1
        /\ k < j => k + 1 = j \/ k + 1 < j
        /\ j < k => j + 1 = k \/ j + 1 < k
    BY <1>0
  <2>1. CASE k < j
    BY <1>0, <1>2, <2>0, <2>1
  <2>2. CASE j < k
    BY <1>0, <1>2, <2>0, <2>2
  <2> QED BY <1>0, <2>1, <2>2
<1>3. ASSUME NEW p \in 1 .. O(n + 1) - 1
      PROVE  RuneAt(t, p) \in 1 .. n /\ O(RuneAt(t, p)) <= p /\ p < O(RuneAt(t, p) + 1)
  BY <1>1, Zenon DEF RuneAt, O, n
<1>4. ASSUME NEW k \in 1 .. n, NEW p \in Int, O(k) <= p, p < O(k + 1)
      PROVE  RuneAt(t, p) = k
  <2>1. RuneAt(t, p) \in 1 .. n /\ O(RuneAt(t, p)) <= p /\ p < O(RuneAt(t, p) + 1)
    BY <1>4, Zenon DEF RuneAt, O, n
  <2> QED BY <1>2, <1>4, <2>1
<1> QED BY <1>3, <1>4 DEF O, n

-----------------------------------------------------------------------------
(* A buffer, rune by rune.                                                 *)

\* The bytes of the k-th rune are there, or are there in reverse.
Straight(b, t, k) ==
  \A j \in 1 .. Width(t[k]) : b[Offset(t, k) + j - 1] = Encode(t[k])[j]
Flipped(b, t, k) ==
  \A j \in 1 .. Width(t[k]) : b[Offset(t, k) + j - 1] = Encode(t[k])[Width(t[k]) + 1 - j]

Buffer(b, t) ==
  b \in [1 .. Offset(t, Len(t) + 1) -> Byte] /\ b[Offset(t, Len(t) + 1)] = 0

\* What EncodeAll makes is the only such buffer.
LEMMA EncodeAllSpec ==
  ASSUME NEW t \in Seq(Rune)
  PROVE  Buffer(EncodeAll(t), t) /\ \A k \in 1 .. Len(t) : Straight(EncodeAll(t), t, k)
<1> DEFINE n == Len(t)
           O(k) == Offset(t, k)
           B == EncodeAll(t)
<1>0. /\ n \in Nat /\ \A k \in 1 .. n + 1 : O(k) \in Nat \ {0}
      /\ \A k \in 1 .. n : /\ O(k + 1) = O(k) + Width(t[k]) /\ Width(t[k]) \in 1 .. 4
                           /\ Encode(t[k]) \in [1 .. Width(t[k]) -> Byte]
      /\ \A i, j \in 1 .. n + 1 : i < j => O(i) < O(j)
  BY OffsetsGrow, OffsetsSpec, SeqFacts, EncodeSpec
<1>1. B = [p \in 1 .. O(n + 1) |->
             IF p = O(n + 1) THEN 0 ELSE Encode(t[RuneAt(t, p)])[p - O(RuneAt(t, p)) + 1]]
  BY DEF EncodeAll
<1>2. /\ \A p \in 1 .. O(n + 1) - 1 :
           /\ RuneAt(t, p) \in 1 .. n
           /\ O(RuneAt(t, p)) <= p /\ p < O(RuneAt(t, p) + 1)
      /\ \A k \in 1 .. n, p \in Int : O(k) <= p /\ p < O(k + 1) => RuneAt(t, p) = k
  BY RuneAtSpec
<1> HIDE DEF n, O, B
<1>3. ASSUME NEW p \in 1 .. O(n + 1), p # O(n + 1)
      PROVE  Encode(t[RuneAt(t, p)])[p - O(RuneAt(t, p)) + 1] \in Byte
  <2> DEFINE k == RuneAt(t, p)
  <2>0. n + 1 \in 1 .. n + 1
    BY <1>0
  <2>1. p \in 1 .. O(n + 1) - 1
    BY <1>0, <1>3, <2>0
  <2>2. k \in 1 .. n /\ O(k) <= p /\ p < O(k + 1)
    BY <1>2, <2>1
  <2> HIDE DEF k
  <2>3. k \in 1 .. n + 1
    BY <1>0, <2>2
  <2>a. O(k) \in Nat /\ O(k + 1) = O(k) + Width(t[k]) /\ Width(t[k]) \in 1 .. 4
    BY <1>0, <2>2, <2>3
  <2>4. p - O(k) + 1 \in 1 .. Width(t[k])
    BY <2>2, <2>a
  <2>5. Encode(t[k])[p - O(k) + 1] \in Byte
    BY <1>0, <2>2, <2>4
  <2> QED BY <2>5 DEF k
<1>4. 0 \in Byte
  BY DEF Byte
<1>5. B \in [1 .. O(n + 1) -> Byte]
  BY <1>1, <1>3, <1>4
<1>6. B[O(n + 1)] = 0
  <2>1. O(n + 1) \in 1 .. O(n + 1)
    BY <1>0
  <2> QED BY <1>1, <2>1
<1>7. ASSUME NEW k \in 1 .. n, NEW j \in 1 .. Width(t[k])
      PROVE  B[O(k) + j - 1] = Encode(t[k])[j]
  <2> DEFINE p == O(k) + j - 1
  <2>1. /\ k \in 1 .. n + 1 /\ k + 1 \in 1 .. n + 1 /\ n + 1 \in 1 .. n + 1
        /\ k + 1 = n + 1 \/ k + 1 < n + 1
    BY <1>0
  <2>2. O(k + 1) <= O(n + 1)
    BY <1>0, <2>1
  <2>a. /\ O(k) \in Nat \ {0} /\ O(k + 1) = O(k) + Width(t[k]) /\ Width(t[k]) \in 1 .. 4
        /\ O(n + 1) \in Nat
    BY <1>0, <2>1
  <2>3. p \in Int /\ O(k) <= p /\ p < O(k + 1) /\ 1 <= p /\ p - O(k) + 1 = j
    <3>1. /\ j \in Int /\ 1 <= j /\ j <= Width(t[k]) /\ Width(t[k]) \in Int
          /\ O(k) \in Int /\ 1 <= O(k)
      BY <2>a
    <3> QED BY <2>a, <3>1, SMTT(30)
  <2> HIDE DEF p
  <2>4. RuneAt(t, p) = k
    BY <1>2, <2>3
  <2>5. p \in 1 .. O(n + 1) /\ p # O(n + 1)
    <3>1. O(k + 1) \in Nat /\ O(n + 1) \in Nat
      BY <2>a
    <3> HIDE DEF O
    <3> QED BY <2>2, <2>3, <3>1
  <2>6. B[p] = Encode(t[k])[p - O(k) + 1]
    BY <1>1, <2>4, <2>5
  <2> QED BY <2>3, <2>6 DEF p
<1> QED BY <1>5, <1>6, <1>7 DEF n, O, B, Buffer, Straight

LEMMA EncodesOnly ==
  ASSUME NEW t \in Seq(Rune), NEW b, Buffer(b, t), \A k \in 1 .. Len(t) : Straight(b, t, k)
  PROVE  b = EncodeAll(t)
<1> DEFINE n == Len(t)
           O(k) == Offset(t, k)
           B == EncodeAll(t)
<1>0. /\ n \in Nat /\ \A k \in 1 .. n + 1 : O(k) \in Nat \ {0}
      /\ \A k \in 1 .. n : O(k + 1) = O(k) + Width(t[k]) /\ Width(t[k]) \in 1 .. 4
  BY OffsetsGrow, OffsetsSpec, SeqFacts
<1>1. \A p \in 1 .. O(n + 1) - 1 : /\ RuneAt(t, p) \in 1 .. n
                                   /\ O(RuneAt(t, p)) <= p /\ p < O(RuneAt(t, p) + 1)
  BY RuneAtSpec
<1>2. /\ b \in [1 .. O(n + 1) -> Byte] /\ b[O(n + 1)] = 0
      /\ B \in [1 .. O(n + 1) -> Byte] /\ B[O(n + 1)] = 0
      /\ \A k \in 1 .. n, j \in Int : j \in 1 .. Width(t[k]) =>
           b[O(k) + j - 1] = Encode(t[k])[j] /\ B[O(k) + j - 1] = Encode(t[k])[j]
  BY EncodeAllSpec DEF Buffer, Straight
<1> HIDE DEF n, O, B
<1>3. ASSUME NEW p \in 1 .. O(n + 1) PROVE b[p] = B[p]
  <2>1. CASE p = O(n + 1)
    BY <1>2, <2>1
  <2>2. CASE p # O(n + 1)
    <3>0. O(n + 1) \in Nat
      BY <1>0
    <3>1. p \in 1 .. O(n + 1) - 1
      BY <2>2, <3>0
    <3>2. PICK k \in 1 .. n : O(k) <= p /\ p < O(k + 1)
      BY <1>1, <3>1
    <3>3. k \in 1 .. n + 1
      BY <1>0
    <3>4. O(k) \in Nat /\ O(k + 1) = O(k) + Width(t[k]) /\ Width(t[k]) \in 1 .. 4
      BY <1>0, <3>3
    <3> DEFINE j == p - O(k) + 1
    <3>5. j \in Int /\ j \in 1 .. Width(t[k]) /\ O(k) + j - 1 = p
      <4>1. p \in Int /\ p < O(k) + Width(t[k]) /\ Width(t[k]) \in Nat
        BY <3>2, <3>4
      <4>2. j \in 1 .. Width(t[k]) /\ O(k) + j - 1 = p
        BY <3>2, <3>4, <4>1, PositionInRune
      <4> QED BY <4>2
    <3> HIDE DEF j
    <3>6. b[O(k) + j - 1] = B[O(k) + j - 1]
      BY <1>2, <3>5
    <3> QED BY <3>5, <3>6
  <2> QED BY <2>1, <2>2
<1>4. b = B
  <2> DEFINE D == 1 .. O(n + 1)
  <2>1. b \in [D -> Byte] /\ B \in [D -> Byte] /\ \A p \in D : b[p] = B[p]
    BY <1>2, <1>3
  <2> HIDE DEF D
  <2>2. b = [p \in D |-> b[p]] /\ B = [p \in D |-> B[p]]
    BY <2>1
  <2>3. [p \in D |-> b[p]] = [p \in D |-> B[p]]
    BY <2>1
  <2> QED BY <2>2, <2>3
<1> QED BY <1>4 DEF B

\* Texts that agree in the widths of their first runes agree in their offsets.
LEMMA SameOffsets ==
  ASSUME NEW t \in Seq(Rune), NEW u \in Seq(Rune), NEW m \in Nat,
         m <= Len(t), m <= Len(u),
         \A k \in 1 .. m : Width(t[k]) = Width(u[k])
  PROVE  \A k \in 1 .. m + 1 : Offset(u, k) = Offset(t, k)
<1>0. /\ Len(t) \in Nat /\ Len(u) \in Nat /\ Offset(t, 1) = 1 /\ Offset(u, 1) = 1
      /\ \A k \in 1 .. Len(t) : Offset(t, k + 1) = Offset(t, k) + Width(t[k])
      /\ \A k \in 1 .. Len(u) : Offset(u, k + 1) = Offset(u, k) + Width(u[k])
  BY OffsetsSpec, SeqFacts
<1> DEFINE S == {n \in Nat : n <= m => Offset(u, n + 1) = Offset(t, n + 1)}
<1>1. 0 \in S
  BY <1>0
<1>2. ASSUME NEW n \in Nat, n \in S PROVE n + 1 \in S
  <2>1. SUFFICES ASSUME n + 1 <= m PROVE Offset(u, (n + 1) + 1) = Offset(t, (n + 1) + 1)
    OBVIOUS
  <2>2. n + 1 \in 1 .. m /\ n + 1 \in 1 .. Len(t) /\ n + 1 \in 1 .. Len(u) /\ n <= m
    BY <1>0, <2>1
  <2> QED BY <1>0, <1>2, <2>2
<1> HIDE DEF S
<1>3. \A n \in Nat : n \in S
  BY <1>1, <1>2, SetInduction
<1>4. ASSUME NEW k \in 1 .. m + 1 PROVE Offset(u, k) = Offset(t, k)
  <2>1. k - 1 \in Nat /\ k - 1 <= m /\ (k - 1) + 1 = k
    OBVIOUS
  <2>2. k - 1 \in S => Offset(u, (k - 1) + 1) = Offset(t, (k - 1) + 1)
    BY <2>1 DEF S
  <2> QED BY <1>3, <2>1, <2>2
<1> QED BY <1>4

\* A reversal mirrors the offsets within the stretch, and keeps the others.
LEMMA ReversedSpec ==
  ASSUME NEW t \in Seq(Rune), NEW from \in 1 .. Len(t) + 1, NEW to \in 1 .. Len(t) + 1,
         from < to
  PROVE  LET u == reversed(t, from, to) IN
         /\ u \in Seq(Rune) /\ Len(u) = Len(t)
         /\ \A k \in 1 .. Len(t) :
              u[k] = IF from <= k /\ k < to THEN t[from + to - 1 - k] ELSE t[k]
         /\ \A k \in 1 .. Len(t) + 1 :
              Offset(u, k) = IF from <= k /\ k <= to
                               THEN Offset(t, from) + Offset(t, to) - Offset(t, from + to - k)
                               ELSE Offset(t, k)
         /\ reversed(u, from, to) = t
<1> DEFINE n == Len(t)
           u == reversed(t, from, to)
<1>0. /\ n \in Nat /\ DOMAIN t = 1 .. n /\ \A k \in 1 .. n : t[k] \in Rune
      /\ \A k \in 1 .. n + 1 : Offset(t, k) \in Nat
      /\ \A k \in 1 .. n : Offset(t, k + 1) = Offset(t, k) + Width(t[k]) /\ Width(t[k]) \in 1 .. 4
      /\ Offset(t, 1) = 1
  BY OffsetsGrow, OffsetsSpec, SeqFacts
<1>1. u = [k \in 1 .. n |-> IF from <= k /\ k < to THEN t[from + to - 1 - k] ELSE t[k]]
  BY <1>0 DEF reversed
<1>2. \A k \in 1 .. n : from <= k /\ k < to =>
        /\ from + to - 1 - k \in 1 .. n /\ from <= from + to - 1 - k /\ from + to - 1 - k < to
        /\ from + to - 1 - (from + to - 1 - k) = k
  BY <1>0
<1> HIDE DEF u
<1>3. u \in Seq(Rune) /\ Len(u) = n
  <2>1. \A k \in 1 .. n : u[k] \in Rune
    BY <1>0, <1>1, <1>2
  <2>2. u \in [1 .. n -> Rune]
    BY <1>1, <2>1
  <2> QED BY <1>0, <2>2
<1>4. \A k \in 1 .. n : u[k] = IF from <= k /\ k < to THEN t[from + to - 1 - k] ELSE t[k]
  BY <1>1
<1>5. reversed(u, from, to) = t
  <2> DEFINE v == reversed(u, from, to)
  <2>1. v = [k \in 1 .. n |-> IF from <= k /\ k < to THEN u[from + to - 1 - k] ELSE u[k]]
    BY <1>1 DEF reversed
  <2>2. \A k \in 1 .. n : v[k] = t[k]
    <3>1. TAKE k \in 1 .. n
    <3>2. CASE from <= k /\ k < to
      <4>1. v[k] = u[from + to - 1 - k]
        BY <2>1, <3>2
      <4>2. u[from + to - 1 - k] = t[from + to - 1 - (from + to - 1 - k)]
        BY <1>2, <1>4, <3>2
      <4> QED BY <1>2, <3>2, <4>1, <4>2
    <3>3. CASE ~(from <= k /\ k < to)
      BY <1>4, <2>1, <3>3
    <3> QED BY <3>2, <3>3
  <2> HIDE DEF v
  <2>3. v = [k \in 1 .. n |-> t[k]]
    BY <2>1, <2>2
  <2>4. t = [k \in 1 .. n |-> t[k]]
    BY <1>0
  <2> QED BY <2>3, <2>4 DEF v
<1>6. /\ Offset(u, 1) = 1 /\ \A k \in 1 .. n : Offset(u, k + 1) = Offset(u, k) + Width(u[k])
      /\ \A k \in 1 .. n + 1 : Offset(u, k) \in Nat
  BY <1>3, OffsetsSpec, OffsetsGrow
<1> DEFINE M(k) == IF from <= k /\ k <= to
                     THEN Offset(t, from) + Offset(t, to) - Offset(t, from + to - k)
                     ELSE Offset(t, k)
           S == {m \in Nat : m <= n => Offset(u, m + 1) = M(m + 1)}
<1>7. from + to - from = to /\ from + to - to = from
  BY <1>0
<1>8. 0 \in S
  <2>1. Offset(u, 1) = M(1)
    <3>1. CASE from = 1
      <4>1. from <= 1 /\ 1 <= to /\ from + to - 1 = to
        BY <1>0, <3>1
      <4>2. M(1) = Offset(t, from) + Offset(t, to) - Offset(t, to)
        BY <4>1
      <4> QED BY <1>0, <1>6, <3>1, <4>2
    <3>2. CASE from # 1
      <4>1. ~(from <= 1)
        BY <1>0, <3>2
      <4> QED BY <1>0, <1>6, <4>1
    <3> QED BY <3>1, <3>2
  <2> HIDE DEF M
  <2> QED BY <2>1
<1>9. ASSUME NEW m \in Nat, m \in S PROVE m + 1 \in S
  <2> DEFINE k == m + 1
  <2>1. SUFFICES ASSUME k <= n PROVE Offset(u, k + 1) = M(k + 1)
    OBVIOUS
  <2>2. k \in 1 .. n /\ k \in 1 .. n + 1 /\ m <= n /\ k + 1 \in 1 .. n + 1
    BY <1>0, <2>1
  <2>3. Offset(u, k) = M(k)
    BY <1>9, <2>2
  <2> HIDE DEF k
  <2>4. /\ Offset(u, k + 1) = Offset(u, k) + Width(u[k])
        /\ Offset(t, k + 1) = Offset(t, k) + Width(t[k]) /\ Width(t[k]) \in 1 .. 4
        /\ Offset(t, k) \in Nat /\ Offset(t, k + 1) \in Nat
        /\ Offset(t, from) \in Nat /\ Offset(t, to) \in Nat
    BY <1>0, <1>6, <2>2
  <2>5. CASE from <= k /\ k < to
    <3> DEFINE x == from + to - 1 - k
    <3>1. x \in 1 .. n /\ x \in 1 .. n + 1 /\ x + 1 \in 1 .. n + 1
          /\ x + 1 = from + to - k /\ x = from + to - (k + 1)
      BY <1>0, <1>2, <2>2, <2>5
    <3>2. u[k] = t[x]
      BY <1>4, <2>2, <2>5
    <3> HIDE DEF x
    <3>3. /\ Offset(t, x + 1) = Offset(t, x) + Width(t[x]) /\ Width(t[x]) \in 1 .. 4
          /\ Offset(t, x) \in Nat /\ Offset(t, x + 1) \in Nat
      BY <1>0, <3>1
    <3>4. k <= to /\ from <= k + 1 /\ k + 1 <= to
      BY <2>2, <2>5, <1>0
    <3>5. M(k) = Offset(t, from) + Offset(t, to) - Offset(t, x + 1)
      BY <2>5, <3>1, <3>4
    <3>6. M(k + 1) = Offset(t, from) + Offset(t, to) - Offset(t, x)
      BY <3>1, <3>4
    <3> HIDE DEF M
    <3>7. Offset(u, k + 1) = M(k) + Width(t[x])
      BY <2>3, <2>4, <3>2
    <3>8. \A f, g, a, w \in Int : (f + g - (a + w)) + w = f + g - a
      OBVIOUS
    <3>9. /\ Offset(t, from) \in Int /\ Offset(t, to) \in Int
          /\ Offset(t, x) \in Int /\ Width(t[x]) \in Int
      BY <2>4, <3>3
    <3>10. Offset(u, k + 1) = (Offset(t, from) + Offset(t, to) - (Offset(t, x) + Width(t[x]))) + Width(t[x])
      BY <3>3, <3>5, <3>7
    <3>11. Offset(u, k + 1) = Offset(t, from) + Offset(t, to) - Offset(t, x)
      BY <3>8, <3>9, <3>10
    <3> QED BY <3>6, <3>11
  <2>6. CASE k < from \/ k >= to
    <3>1. u[k] = t[k]
      BY <1>0, <1>4, <2>2, <2>6
    <3>2. M(k) = Offset(t, k)
      <4>1. CASE k = to
        <5>1. from <= k /\ k <= to /\ from + to - k = from
          BY <1>0, <4>1
        <5>2. M(k) = Offset(t, from) + Offset(t, k) - Offset(t, from)
          BY <4>1, <5>1
        <5> QED BY <2>4, <5>2
      <4>2. CASE k # to
        <5>1. ~(from <= k /\ k <= to)
          BY <1>0, <2>2, <2>6, <4>2
        <5> QED BY <5>1
      <4> QED BY <4>1, <4>2
    <3>3. M(k + 1) = Offset(t, k + 1)
      <4>1. CASE k + 1 = from
        <5>1. from <= k + 1 /\ k + 1 <= to /\ from + to - (k + 1) = to
          BY <1>0, <4>1
        <5>2. M(k + 1) = Offset(t, k + 1) + Offset(t, to) - Offset(t, to)
          BY <4>1, <5>1
        <5> QED BY <2>4, <5>2
      <4>2. CASE k + 1 # from
        <5>1. ~(from <= k + 1 /\ k + 1 <= to)
          BY <1>0, <2>2, <2>6, <4>2
        <5> QED BY <5>1
      <4> QED BY <4>1, <4>2
    <3> HIDE DEF M
    <3> QED BY <2>3, <2>4, <3>1, <3>2, <3>3
  <2> QED BY <1>0, <2>2, <2>5, <2>6
<1> HIDE DEF S, M
<1>10. \A m \in Nat : m \in S
  BY <1>8, <1>9, SetInduction
<1>11. ASSUME NEW k \in 1 .. n + 1 PROVE Offset(u, k) = M(k)
  <2>1. k - 1 \in Nat /\ k - 1 <= n /\ (k - 1) + 1 = k
    BY <1>0
  <2>2. k - 1 \in S => Offset(u, (k - 1) + 1) = M((k - 1) + 1)
    BY <2>1 DEF S
  <2> QED BY <1>10, <2>1, <2>2
<1> QED BY <1>3, <1>4, <1>5, <1>11 DEF u, M

-----------------------------------------------------------------------------
(* The operations on bytes.                                                *)

LEMMA SwapSpec ==
  ASSUME NEW D, NEW b \in [D -> Byte], NEW p \in D, NEW q \in D
  PROVE  /\ SWAP(b, p, q) \in [D -> Byte]
         /\ \A x \in D : SWAP(b, p, q)[x] = IF x = q THEN b[p] ELSE IF x = p THEN b[q] ELSE b[x]
BY DEF SWAP

\* The rune of w bytes that ends at p is reversed.
LEMMA RotatedSpec ==
  ASSUME NEW L \in Nat, NEW b \in [1 .. L -> Byte], NEW p \in 1 .. L, NEW w \in 1 .. 4,
         ct(b[p]) = w - 1, w <= p
  PROVE  /\ rotated(b, p) \in [1 .. L -> Byte]
         /\ \A x \in 1 .. L :
              rotated(b, p)[x] = IF p - w < x /\ x <= p THEN b[(2 * p) - w + 1 - x] ELSE b[x]
<1>1. CASE w = 1
  <2>1. rotated(b, p) = b
    BY <1>1 DEF rotated
  <2>2. \A x \in 1 .. L : p - w < x /\ x <= p => (2 * p) - w + 1 - x = x
    BY <1>1
  <2> QED BY <2>1, <2>2
<1>2. CASE w \in {2, 3}
  <2> DEFINE q == p - (w - 1)
             c == SWAP(b, q, p)
  <2>1. rotated(b, p) = c
    BY <1>2 DEF rotated
  <2>2. q \in 1 .. L
    BY <1>2
  <2>3. /\ c \in [1 .. L -> Byte]
        /\ \A x \in 1 .. L : c[x] = IF x = p THEN b[q] ELSE IF x = q THEN b[p] ELSE b[x]
    <3> DEFINE D == 1 .. L
    <3>1. b \in [D -> Byte] /\ p \in D /\ q \in D
      BY <2>2
    <3> HIDE DEF D, q
    <3>2. /\ c \in [D -> Byte]
          /\ \A x \in D : c[x] = IF x = p THEN b[q] ELSE IF x = q THEN b[p] ELSE b[x]
      BY <3>1, SwapSpec
    <3> HIDE DEF c
    <3> QED BY <3>2 DEF D
  <2>4. \A x \in 1 .. L : /\ x = p => (2 * p) - w + 1 - x = q
                          /\ x = q => (2 * p) - w + 1 - x = p
                          /\ p - w < x /\ x < p /\ x # q => (2 * p) - w + 1 - x = x
    <3>1. p \in Int /\ \A x \in 1 .. L : x \in Int
      OBVIOUS
    <3> QED BY <1>2, <3>1, OuterPositions
  <2>5. p - w < p /\ p - w < q /\ q <= p
    BY <1>2
  <2> HIDE DEF q, c
  <2>6. ASSUME NEW x \in 1 .. L
        PROVE  c[x] = IF p - w < x /\ x <= p THEN b[(2 * p) - w + 1 - x] ELSE b[x]
    <3>1. CASE x = p
      BY <2>3, <2>4, <2>5, <3>1
    <3>2. CASE x = q
      BY <2>3, <2>4, <2>5, <3>2
    <3>3. CASE x # p /\ x # q
      <4>1. c[x] = b[x]
        BY <2>3, <3>3
      <4>2. p - w < x /\ x <= p => p - w < x /\ x < p
        BY <3>3
      <4> QED BY <2>4, <3>3, <4>1, <4>2
    <3> QED BY <3>1, <3>2, <3>3
  <2> QED BY <2>1, <2>3, <2>6
<1>3. CASE w = 4
  <2> DEFINE c == SWAP(b, p - 3, p)
             d == SWAP(c, p - 2, p - 1)
  <2>1. rotated(b, p) = d
    BY <1>3 DEF rotated
  <2>2. p - 1 \in 1 .. L /\ p - 2 \in 1 .. L /\ p - 3 \in 1 .. L
    BY <1>3
  <2>3. /\ c \in [1 .. L -> Byte]
        /\ \A x \in 1 .. L : c[x] = IF x = p THEN b[p - 3] ELSE IF x = p - 3 THEN b[p] ELSE b[x]
    BY <2>2, SwapSpec
  <2> HIDE DEF c
  <2>4. /\ d \in [1 .. L -> Byte]
        /\ \A x \in 1 .. L : d[x] = IF x = p - 1 THEN c[p - 2]
                                    ELSE IF x = p - 2 THEN c[p - 1] ELSE c[x]
    <3> DEFINE D == 1 .. L
               x1 == p - 1
               x2 == p - 2
    <3>1. c \in [D -> Byte] /\ x1 \in D /\ x2 \in D
      BY <2>2, <2>3
    <3> HIDE DEF D, x1, x2
    <3>2. /\ SWAP(c, x2, x1) \in [D -> Byte]
          /\ \A x \in D : SWAP(c, x2, x1)[x] =
                            IF x = x1 THEN c[x2] ELSE IF x = x2 THEN c[x1] ELSE c[x]
      BY <3>1, SwapSpec
    <3> QED BY <3>2 DEF D, x1, x2
  <2> HIDE DEF d
  <2>5. c[p - 2] = b[p - 2] /\ c[p - 1] = b[p - 1]
    BY <2>2, <2>3
  <2>6. \A x \in 1 .. L : /\ p - w < x /\ x <= p <=> x \in {p, p - 1, p - 2, p - 3}
                          /\ x = p => (2 * p) - w + 1 - x = p - 3
                          /\ x = p - 1 => (2 * p) - w + 1 - x = p - 2
                          /\ x = p - 2 => (2 * p) - w + 1 - x = p - 1
                          /\ x = p - 3 => (2 * p) - w + 1 - x = p
    BY <1>3
  <2>7. p # p - 1 /\ p # p - 2 /\ p # p - 3 /\ p - 3 # p - 1 /\ p - 3 # p - 2 /\ p - 2 # p - 1
    OBVIOUS
  <2> QED BY <2>1, <2>3, <2>4, <2>5, <2>6, <2>7
<1> QED BY <1>1, <1>2, <1>3

\* Where the bytes of a rune are, it is read.
LEMMA ReadSpec ==
  ASSUME NEW r \in Rune, NEW b, NEW p \in Nat,
         \A j \in 1 .. Width(r) : b[p + j - 1] = Encode(r)[j]
  PROVE  read_utf8(b, p) = [codept |-> r % 65536, next |-> p + Width(r)]
<1>1. CASE r < 128
  <2>1. Encode(r) = << r >> /\ Width(r) = 1
    BY <1>1, SMT DEF Encode, Width
  <2>2. b[p] = r
    BY <2>1, SMT
  <2>3. ct(r) = 0 /\ r % 128 = r % 65536
    BY <1>1, SMT DEF Rune, ct
  <2> QED BY <2>1, <2>2, <2>3, SMT DEF read_utf8, read_masked
<1>2. CASE 128 <= r /\ r < 2048
  <2> DEFINE b0 == 192 + (r \div 64)
             b1 == 128 + (r % 64)
  <2>1. Encode(r) = << b0, b1 >> /\ Width(r) = 2
    BY <1>2, SMT DEF Encode, Width, Rune
  <2>2. b[p] = b0 /\ b[p + 1] = b1
    BY <2>1, SMT
  <2>3. ct(b0) = 1
    BY <1>2, SMT DEF Rune, ct
  <2>4. shift_in(b0 % 64, b1) = r % 65536
    BY <1>2, SMT DEF Rune, shift_in
  <2> HIDE DEF b0, b1
  <2> QED BY <2>1, <2>2, <2>3, <2>4, SMT DEF read_utf8, read_masked
<1>3. CASE 2048 <= r /\ r < 65536
  <2> DEFINE b0 == 224 + (r \div 4096)
             b1 == 128 + ((r \div 64) % 64)
             b2 == 128 + (r % 64)
  <2>1. Encode(r) = << b0, b1, b2 >> /\ Width(r) = 3
    BY <1>3, SMT DEF Encode, Width, Rune
  <2>2. b[p] = b0 /\ b[p + 1] = b1 /\ b[p + 2] = b2
    BY <2>1, SMT
  <2>3. ct(b0) = 2
    BY <1>3, SMT DEF Rune, ct
  <2>4. shift_in(b0 % 32, b1) = r \div 64
    BY <1>3, SMT DEF Rune, shift_in
  <2>5. shift_in(r \div 64, b2) = r % 65536
    BY <1>3, SMT DEF Rune, shift_in
  <2> HIDE DEF b0, b1, b2
  <2> QED BY <2>1, <2>2, <2>3, <2>4, <2>5, SMT DEF read_utf8, read_masked
<1>4. CASE 65536 <= r
  <2> DEFINE b0 == 240 + (r \div 262144)
             b1 == 128 + ((r \div 4096) % 64)
             b2 == 128 + ((r \div 64) % 64)
             b3 == 128 + (r % 64)
  <2>1. Encode(r) = << b0, b1, b2, b3 >> /\ Width(r) = 4
    BY <1>4, SMT DEF Encode, Width, Rune
  <2>2. b[p] = b0 /\ b[p + 1] = b1 /\ b[p + 2] = b2 /\ b[p + 3] = b3
    BY <2>1, SMT
  <2>3. ct(b0) = 3
    BY <1>4, SMT DEF Rune, ct
  <2>4. shift_in(b0 % 16, b1) = r \div 4096
    BY <1>4, SMT DEF Rune, shift_in
  <2>5. shift_in(r \div 4096, b2) = r \div 64
    BY <1>4, SMT DEF Rune, shift_in
  <2>6. shift_in(r \div 64, b3) = r % 65536
    BY <1>4, SMT DEF Rune, shift_in
  <2> HIDE DEF b0, b1, b2, b3
  <2> QED BY <2>1, <2>2, <2>3, <2>4, <2>5, <2>6, SMT DEF read_utf8, read_masked
<1> QED BY <1>1, <1>2, <1>3, <1>4, SMT DEF Rune

-----------------------------------------------------------------------------
(* The loops of reverse_span.                                              *)

\* The first loop: outside of what is left to swap, the bytes of the span are
\* those of the text before the reversal, from the other end.
Mirroring(from, to) ==
  LET B == EncodeAll(reversed(runes, from, to)) IN
  /\ end_iter = start + end - 1 - start_iter
  /\ start_iter <= end_iter + 1
  /\ bytes = [p \in DOMAIN B |->
                IF (start <= p /\ p < start_iter) \/ (end_iter < p /\ p < end)
                  THEN B[start + end - 1 - p] ELSE B[p]]

\* The second loop: the runes before the m-th are still to be turned.
Rotating(from, m) ==
  /\ end_iter = Offset(runes, m) - 1
  /\ Buffer(bytes, runes)
  /\ \A k \in 1 .. Len(runes) :
       IF from <= k /\ k < m THEN Flipped(bytes, runes, k) ELSE Straight(bytes, runes, k)

InSpan(from, to) ==
  /\ from < to /\ start = Offset(runes, from) /\ end = Offset(runes, to)
  /\ start_iter \in start .. end
  /\ span_pc = "bytewise" => Mirroring(from, to)
  /\ span_pc = "rotate" => \E m \in from .. to : Rotating(from, m)

Utf8Inv ==
  /\ runes \in Seq(Rune)
  /\ span_pc \in {"idle", "bytewise", "rotate"}
  /\ span_pc = "idle" => bytes = EncodeAll(runes)
  /\ span_pc # "idle" => \E from, to \in 1 .. Len(runes) + 1 : InSpan(from, to)

LEMMA Utf8Initially == Utf8Init => Utf8Inv
BY Utf8Assumption DEF Utf8Init, Utf8Inv

LEMMA WriteKeeps ==
  ASSUME Utf8Inv, NEW k \in DOMAIN runes, NEW codept \in NewCodepts, write_utf8(k, codept)
  PROVE  Utf8Inv'
<1> DEFINE n == Len(runes)
           O(i) == Offset(runes, i)
           u == [runes EXCEPT ![k] = codept]
           B == EncodeAll(runes)
           c == write_utf8_at(B, O(k), codept)
<1>1. /\ span_pc = "idle" /\ span_pc' = "idle" /\ Width(runes[k]) = 2
      /\ runes' = u /\ bytes' = c
  BY DEF write_utf8, Utf8Inv, Width
<1>2. codept \in Rune /\ codept \in 128 .. 2047
  BY Utf8Assumption, SMT DEF Rune
<1>3. /\ Width(codept) = 2
      /\ Encode(codept) = << 192 + (codept \div 64), 128 + (codept % 64) >>
      /\ Encode(codept)[1] \in Byte /\ Encode(codept)[2] \in Byte
  <2>1. Encode(codept) = << 192 + (codept \div 64), 128 + (codept % 64) >>
    BY <1>2, SMT DEF Encode
  <2>2. Width(codept) = 2
    BY <1>2, EncodeSpec
  <2>3. Encode(codept) \in [1 .. Width(codept) -> Byte]
    BY <1>2, EncodeSpec
  <2>4. Encode(codept)[1] \in Byte /\ Encode(codept)[2] \in Byte
    BY <2>2, <2>3
  <2> QED BY <2>1, <2>2, <2>4
<1>4. /\ runes \in Seq(Rune) /\ n \in Nat /\ k \in 1 .. n
      /\ \A i \in 1 .. n : O(i) \in Nat \ {0} /\ runes[i] \in Rune /\ Width(runes[i]) \in 1 .. 4
      /\ O(n + 1) \in Nat /\ O(k) + 2 <= O(n + 1)
  <2>1. runes \in Seq(Rune)
    BY DEF Utf8Inv
  <2>2. n \in Nat /\ k \in 1 .. n /\ \A i \in 1 .. n : runes[i] \in Rune /\ Width(runes[i]) \in 1 .. 4
    BY <2>1, SeqFacts
  <2>3. k < n + 1 /\ n + 1 \in 1 .. n + 1 /\ \A i \in 1 .. n : i \in 1 .. n + 1
    BY <2>2
  <2>4. \A i \in 1 .. n + 1 : O(i) \in Nat \ {0}
    BY <2>1, OffsetsGrow
  <2>5. O(k) + 2 <= O(n + 1)
    BY <1>1, <2>1, <2>2, <2>3, OffsetsApart
  <2> QED BY <2>1, <2>2, <2>3, <2>4, <2>5
<1>5. /\ u \in Seq(Rune) /\ Len(u) = n
      /\ \A i \in 1 .. n : u[i] = IF i = k THEN codept ELSE runes[i]
  BY <1>2, <1>4
<1> HIDE DEF u
<1>6. \A i \in 1 .. n + 1 : Offset(u, i) = O(i)
  <2>1. \A i \in 1 .. n : Width(runes[i]) = Width(u[i])
    BY <1>1, <1>3, <1>5
  <2>2. n <= Len(runes) /\ n <= Len(u) /\ n \in Nat
    BY <1>4, <1>5
  <2> HIDE DEF n, O
  <2> QED BY <1>4, <1>5, <2>1, <2>2, SameOffsets DEF O
<1>7. /\ B \in [1 .. O(n + 1) -> Byte] /\ B[O(n + 1)] = 0
      /\ \A i \in 1 .. n : \A j \in 1 .. Width(runes[i]) : B[O(i) + j - 1] = Encode(runes[i])[j]
  BY <1>4, EncodeAllSpec DEF Buffer, Straight
<1> HIDE DEF B
<1>8. /\ c = [B EXCEPT ![O(k)] = Encode(codept)[1], ![O(k) + 1] = Encode(codept)[2]]
      /\ O(k) \in 1 .. O(n + 1) /\ O(k) + 1 \in 1 .. O(n + 1)
      /\ O(k) # O(k) + 1 /\ O(k) # O(n + 1) /\ O(k) + 1 # O(n + 1) /\ O(n + 1) \in 1 .. O(n + 1)
  <2>1. c = [B EXCEPT ![O(k)] = Encode(codept)[1], ![O(k) + 1] = Encode(codept)[2]]
    BY <1>3 DEF write_utf8_at
  <2>2. O(k) \in Nat \ {0}
    BY <1>4
  <2> HIDE DEF c, O
  <2> QED BY <1>4, <2>1, <2>2
<1> HIDE DEF c, O, n
<1>9. /\ c \in [1 .. O(n + 1) -> Byte] /\ c[O(n + 1)] = 0
      /\ c[O(k)] = Encode(codept)[1] /\ c[O(k) + 1] = Encode(codept)[2]
      /\ \A p \in 1 .. O(n + 1) : p # O(k) /\ p # O(k) + 1 => c[p] = B[p]
  BY <1>3, <1>7, <1>8
<1>10. ASSUME NEW i \in 1 .. n, NEW j \in 1 .. Width(u[i])
       PROVE  c[O(i) + j - 1] = Encode(u[i])[j]
  <2>1. CASE i = k
    <3>1. u[i] = codept /\ j \in 1 .. 2 /\ O(k) \in Nat
      BY <1>3, <1>4, <1>5, <2>1
    <3>2. (j = 1 /\ O(k) + j - 1 = O(k)) \/ (j = 2 /\ O(k) + j - 1 = O(k) + 1)
      BY <3>1
    <3> QED BY <1>9, <2>1, <3>1, <3>2
  <2>2. CASE i # k
    <3>1. /\ u[i] = runes[i] /\ O(i) \in Nat \ {0} /\ O(k) \in Nat /\ Width(runes[i]) \in 1 .. 4
          /\ j \in 1 .. Width(runes[i])
      BY <1>4, <1>5, <2>2
    <3>2. /\ i \in 1 .. n + 1 /\ k \in 1 .. n + 1 /\ n + 1 \in 1 .. n + 1 /\ i < n + 1
          /\ i < k \/ k < i
      BY <1>4, <2>2
    <3>3. /\ O(i) + Width(runes[i]) <= O(n + 1)
          /\ i < k => O(i) + Width(runes[i]) <= O(k)
          /\ k < i => O(k) + 2 <= O(i)
      BY <1>1, <1>4, <3>2, OffsetsApart DEF O, n
    <3>4. /\ O(i) + j - 1 \in 1 .. O(n + 1)
          /\ O(i) + j - 1 # O(k) /\ O(i) + j - 1 # O(k) + 1
      <4>1. O(n + 1) \in Nat
        BY <1>4
      <4> QED BY <3>1, <3>2, <3>3, <4>1
    <3> QED BY <1>7, <1>9, <3>1, <3>4
  <2> QED BY <2>1, <2>2
<1>11. Buffer(c, u) /\ \A i \in 1 .. Len(u) : Straight(c, u, i)
  <2>1. n + 1 \in 1 .. n + 1 /\ \A i \in 1 .. n : i \in 1 .. n + 1
    BY <1>4
  <2>2. Offset(u, Len(u) + 1) = O(n + 1) /\ \A i \in 1 .. n : Offset(u, i) = O(i)
    BY <1>5, <1>6, <2>1
  <2> QED BY <1>5, <1>9, <1>10, <2>2 DEF Buffer, Straight
<1>12. c = EncodeAll(u)
  BY <1>5, <1>11, EncodesOnly
<1> QED BY <1>1, <1>5, <1>12 DEF Utf8Inv

LEMMA CallKeeps ==
  ASSUME Utf8Inv, NEW from \in 1 .. Len(runes) + 1, NEW to \in 1 .. Len(runes) + 1, from < to,
         reverse_span_call(from, to)
  PROVE  Utf8Inv'
<1> DEFINE u == reversed(runes, from, to)
           O(i) == Offset(runes, i)
<1>1. /\ span_pc = "idle" /\ span_pc' = "bytewise" /\ runes' = u /\ bytes' = bytes
      /\ start' = O(from) /\ end' = O(to) /\ start_iter' = O(from) /\ end_iter' = O(to) - 1
  BY DEF reverse_span_call
<1>2. runes \in Seq(Rune) /\ bytes = EncodeAll(runes) /\ Len(runes) \in Nat
  BY <1>1, SeqFacts DEF Utf8Inv
<1>3. O(from) \in Nat /\ O(to) \in Nat /\ O(from) < O(to)
  BY <1>2, OffsetsGrow
<1>4. /\ u \in Seq(Rune) /\ Len(u) = Len(runes) /\ reversed(u, from, to) = runes
      /\ Offset(u, from) = O(from) + O(to) - Offset(runes, from + to - from)
      /\ Offset(u, to) = O(from) + O(to) - Offset(runes, from + to - to)
  BY <1>2, ReversedSpec
<1>5. from + to - from = to /\ from + to - to = from
  BY <1>2
<1>6. Offset(u, from) = O(from) /\ Offset(u, to) = O(to)
  BY <1>3, <1>4, <1>5
<1> HIDE DEF u, O
<1>7. Mirroring(from, to)'
  <2> DEFINE D == DOMAIN bytes
  <2>1. end_iter' = start' + end' - 1 - start_iter' /\ start_iter' <= end_iter' + 1
    BY <1>1, <1>3
  <2>2. D = 1 .. Offset(runes, Len(runes) + 1) /\ bytes = [p \in D |-> bytes[p]]
    BY <1>2, EncodeAllSpec DEF Buffer
  <2>3. Offset(runes, Len(runes) + 1) \in Nat
    BY <1>2, OffsetsGrow
  <2>4. \A p \in D : ~((start' <= p /\ p < start_iter') \/ (end_iter' < p /\ p < end'))
    BY <1>1, <1>3, <2>2, <2>3
  <2>5. EncodeAll(reversed(runes', from, to)) = bytes
    BY <1>1, <1>2, <1>4
  <2> HIDE DEF D
  <2>6. bytes = [p \in D |-> IF (start' <= p /\ p < start_iter') \/ (end_iter' < p /\ p < end')
                               THEN bytes[start' + end' - 1 - p] ELSE bytes[p]]
    BY <2>2, <2>4
  <2> QED BY <1>1, <2>1, <2>5, <2>6 DEF Mirroring, D
<1>8. InSpan(from, to)'
  BY <1>1, <1>3, <1>6, <1>7 DEF InSpan
<1> QED BY <1>1, <1>4, <1>8 DEF Utf8Inv

\* What the first loop has to work with.
LEMMA SpanFacts ==
  ASSUME runes \in Seq(Rune), NEW from \in 1 .. Len(runes) + 1, NEW to \in 1 .. Len(runes) + 1,
         InSpan(from, to)
  PROVE  /\ start \in Nat \ {0} /\ end \in Nat /\ start < end /\ start_iter \in start .. end
         /\ Len(runes) \in Nat /\ Offset(runes, Len(runes) + 1) \in Nat
         /\ end <= Offset(runes, Len(runes) + 1)
<1>1. Len(runes) \in Nat
  BY SeqFacts
<1>2. /\ from < to /\ start = Offset(runes, from) /\ end = Offset(runes, to)
      /\ start_iter \in start .. end
  BY DEF InSpan
<1>3. Len(runes) + 1 \in 1 .. Len(runes) + 1 /\ (to = Len(runes) + 1 \/ to < Len(runes) + 1)
  BY <1>1
<1>4. /\ Offset(runes, from) \in Nat \ {0} /\ Offset(runes, to) \in Nat
      /\ Offset(runes, from) < Offset(runes, to)
      /\ Offset(runes, Len(runes) + 1) \in Nat
      /\ to < Len(runes) + 1 => Offset(runes, to) < Offset(runes, Len(runes) + 1)
  BY <1>2, <1>3, OffsetsGrow
<1> QED BY <1>1, <1>2, <1>3, <1>4

\* The text before the reversal, and its bytes.
LEMMA BeforeFacts ==
  ASSUME runes \in Seq(Rune), NEW from \in 1 .. Len(runes) + 1, NEW to \in 1 .. Len(runes) + 1,
         from < to
  PROVE  LET t == reversed(runes, from, to)
             B == EncodeAll(t)
         IN  /\ t \in Seq(Rune) /\ Len(t) = Len(runes)
             /\ Offset(t, Len(runes) + 1) = Offset(runes, Len(runes) + 1)
             /\ B \in [1 .. Offset(runes, Len(runes) + 1) -> Byte]
             /\ B[Offset(runes, Len(runes) + 1)] = 0
             /\ \A k \in 1 .. Len(runes) : Straight(B, t, k)
<1> DEFINE t == reversed(runes, from, to)
           n == Len(runes)
           O(k) == Offset(runes, k)
<1>1. n \in Nat /\ n + 1 \in 1 .. n + 1
  BY SeqFacts
<1>2. /\ t \in Seq(Rune) /\ Len(t) = n
      /\ Offset(t, n + 1) = IF from <= n + 1 /\ n + 1 <= to
                              THEN O(from) + O(to) - O(from + to - (n + 1)) ELSE O(n + 1)
  BY <1>1, ReversedSpec
<1>3. O(from) \in Nat /\ O(n + 1) \in Nat
  BY <1>1, OffsetsGrow
<1>4. Offset(t, n + 1) = O(n + 1)
  <2>1. CASE to = n + 1
    <3>1. from <= n + 1 /\ n + 1 <= to /\ from + to - (n + 1) = from
      BY <1>1, <2>1
    <3>2. Offset(t, n + 1) = O(from) + O(n + 1) - O(from)
      BY <1>2, <2>1, <3>1
    <3> HIDE DEF t, O
    <3> QED BY <1>3, <3>2
  <2>2. CASE to # n + 1
    <3>1. ~(n + 1 <= to)
      BY <1>1, <2>2
    <3> QED BY <1>2, <3>1
  <2> QED BY <2>1, <2>2
<1> HIDE DEF t
<1>5. Buffer(EncodeAll(t), t) /\ \A k \in 1 .. Len(t) : Straight(EncodeAll(t), t, k)
  BY <1>2, EncodeAllSpec
<1> QED BY <1>2, <1>4, <1>5 DEF Buffer, t

LEMMA SwapKeeps ==
  ASSUME Utf8Inv, SwapBytes
  PROVE  Utf8Inv'
<1>1. /\ span_pc = "bytewise" /\ span_pc' = "bytewise" /\ start_iter < end_iter
      /\ bytes' = SWAP(bytes, start_iter, end_iter)
      /\ start_iter' = start_iter + 1 /\ end_iter' = end_iter - 1
      /\ start' = start /\ end' = end /\ runes' = runes
  BY DEF SwapBytes
<1>2. runes \in Seq(Rune)
  BY DEF Utf8Inv
<1>3. PICK from \in 1 .. Len(runes) + 1, to \in 1 .. Len(runes) + 1 : InSpan(from, to)
  BY <1>1 DEF Utf8Inv
<1> DEFINE B == EncodeAll(reversed(runes, from, to))
           L == Offset(runes, Len(runes) + 1)
           Done(p, a, b) == (start <= p /\ p < a) \/ (b < p /\ p < end)
           F(a, b) == [p \in 1 .. L |-> IF Done(p, a, b) THEN B[start + end - 1 - p] ELSE B[p]]
<1>4. from < to /\ B \in [1 .. L -> Byte]
  <2>1. from < to
    BY <1>3 DEF InSpan
  <2> QED BY <1>2, <2>1, BeforeFacts
<1>5. /\ start \in Nat \ {0} /\ end \in Nat /\ start < end /\ start_iter \in start .. end
      /\ L \in Nat /\ end <= L
  BY <1>2, <1>3, SpanFacts
<1>6. end_iter = start + end - 1 - start_iter /\ bytes = F(start_iter, end_iter)
  BY <1>1, <1>3, <1>4 DEF InSpan, Mirroring
<1> HIDE DEF B, L
<1>7. /\ start_iter \in 1 .. L /\ end_iter \in 1 .. L /\ start_iter # end_iter
      /\ start <= start_iter /\ end_iter < end
      /\ start_iter + 1 \in start .. end
      /\ end_iter - 1 = start + end - 1 - (start_iter + 1)
      /\ start_iter + 1 <= (end_iter - 1) + 1
  BY <1>1, <1>5, <1>6
<1>8. \A p \in 1 .. L : Done(p, start_iter, end_iter) => start + end - 1 - p \in 1 .. L
  BY <1>5, <1>6, <1>7
<1>9. bytes \in [1 .. L -> Byte]
  BY <1>4, <1>6, <1>8
<1>10. /\ bytes' \in [1 .. L -> Byte]
       /\ \A p \in 1 .. L : bytes'[p] = IF p = end_iter THEN bytes[start_iter]
                                        ELSE IF p = start_iter THEN bytes[end_iter] ELSE bytes[p]
  <2> DEFINE D == 1 .. L
  <2>1. bytes \in [D -> Byte] /\ start_iter \in D /\ end_iter \in D
    BY <1>7, <1>9
  <2> HIDE DEF D
  <2>2. /\ bytes' \in [D -> Byte]
        /\ \A p \in D : bytes'[p] = IF p = end_iter THEN bytes[start_iter]
                                    ELSE IF p = start_iter THEN bytes[end_iter] ELSE bytes[p]
    BY <1>1, <2>1, SwapSpec
  <2> QED BY <2>2 DEF D
<1>11. bytes[start_iter] = B[start_iter] /\ bytes[end_iter] = B[end_iter]
  <2>1. ~Done(start_iter, start_iter, end_iter) /\ ~Done(end_iter, start_iter, end_iter)
    BY <1>1, <1>5, <1>7
  <2> HIDE DEF Done
  <2> QED BY <1>6, <1>7, <2>1
<1>12. ASSUME NEW p \in 1 .. L
       PROVE  bytes'[p] = IF Done(p, start_iter + 1, end_iter - 1)
                            THEN B[start + end - 1 - p] ELSE B[p]
  <2>1. CASE p = end_iter
    <3>1. Done(p, start_iter + 1, end_iter - 1) /\ start + end - 1 - p = start_iter
      BY <1>5, <1>6, <1>7, <2>1
    <3> HIDE DEF Done
    <3> QED BY <1>10, <1>11, <2>1, <3>1
  <2>2. CASE p = start_iter
    <3>1. Done(p, start_iter + 1, end_iter - 1) /\ start + end - 1 - p = end_iter
      BY <1>5, <1>6, <1>7, <2>2
    <3> HIDE DEF Done
    <3> QED BY <1>7, <1>10, <1>11, <2>2, <3>1
  <2>3. CASE p # end_iter /\ p # start_iter
    <3>1. Done(p, start_iter + 1, end_iter - 1) <=> Done(p, start_iter, end_iter)
      BY <1>5, <1>7, <2>3
    <3>2. bytes[p] = IF Done(p, start_iter, end_iter) THEN B[start + end - 1 - p] ELSE B[p]
      BY <1>6
    <3> HIDE DEF Done
    <3> QED BY <1>10, <2>3, <3>1, <3>2
  <2> QED BY <2>1, <2>2, <2>3
<1>13. bytes' = F(start_iter + 1, end_iter - 1)
  <2>1. bytes' = [p \in 1 .. L |-> bytes'[p]]
    BY <1>10
  <2> HIDE DEF Done
  <2> QED BY <1>12, <2>1
<1>14. DOMAIN B = 1 .. L
  BY <1>4
<1>15. Mirroring(from, to)'
  BY <1>1, <1>7, <1>13, <1>14 DEF Mirroring, B
<1>16. InSpan(from, to)'
  BY <1>1, <1>3, <1>7, <1>15 DEF InSpan
<1> QED BY <1>1, <1>2, <1>16 DEF Utf8Inv

LEMMA SecondLoopKeeps ==
  ASSUME Utf8Inv, SecondLoop
  PROVE  Utf8Inv'
<1>1. /\ span_pc = "bytewise" /\ span_pc' = "rotate" /\ start_iter >= end_iter
      /\ end_iter' = end - 1 /\ bytes' = bytes /\ start_iter' = start_iter
      /\ start' = start /\ end' = end /\ runes' = runes
  BY DEF SecondLoop
<1>2. runes \in Seq(Rune)
  BY DEF Utf8Inv
<1>3. PICK from \in 1 .. Len(runes) + 1, to \in 1 .. Len(runes) + 1 : InSpan(from, to)
  BY <1>1 DEF Utf8Inv
<1> DEFINE t == reversed(runes, from, to)
           B == EncodeAll(t)
           n == Len(runes)
           O(k) == Offset(runes, k)
           L == O(n + 1)
<1>4. from < to /\ start = O(from) /\ end = O(to)
  BY <1>3 DEF InSpan
<1>5. /\ B \in [1 .. L -> Byte] /\ B[L] = 0
      /\ \A k \in 1 .. n, j \in Int : j \in 1 .. Width(t[k]) =>
           B[Offset(t, k) + j - 1] = Encode(t[k])[j]
  BY <1>2, <1>4, BeforeFacts DEF Straight
<1>6. /\ \A k \in 1 .. n : t[k] = IF from <= k /\ k < to THEN runes[from + to - 1 - k] ELSE runes[k]
      /\ \A k \in 1 .. n + 1 :
           Offset(t, k) = IF from <= k /\ k <= to THEN O(from) + O(to) - O(from + to - k) ELSE O(k)
  BY <1>2, <1>4, ReversedSpec
<1>7. /\ start \in Nat \ {0} /\ end \in Nat /\ start < end /\ start_iter \in start .. end
      /\ n \in Nat /\ L \in Nat /\ end <= L
  BY <1>2, <1>3, SpanFacts
<1>8. /\ end_iter = start + end - 1 - start_iter /\ start_iter <= end_iter + 1
      /\ bytes = [p \in 1 .. L |-> IF (start <= p /\ p < start_iter) \/ (end_iter < p /\ p < end)
                                     THEN B[start + end - 1 - p] ELSE B[p]]
  BY <1>1, <1>3, <1>5 DEF InSpan, Mirroring
<1>9. /\ \A k \in 1 .. n + 1 : O(k) \in Nat \ {0}
      /\ \A k \in 1 .. n : /\ O(k + 1) = O(k) + Width(runes[k])
                           /\ Width(runes[k]) \in 1 .. 4
                           /\ \A m \in 1 .. n + 1 : k < m => O(k) + Width(runes[k]) <= O(m)
      /\ \A k, m \in 1 .. n + 1 : k < m => O(k) < O(m)
  BY <1>2, OffsetsGrow, OffsetsSpec, SeqFacts, OffsetsApart
<1>a. from \in 1 .. n + 1 /\ to \in 1 .. n + 1
  OBVIOUS
<1> HIDE DEF t, B, n, O, L
\* Every byte of the span has been moved, or is its own mirror image.
<1>10. \A p \in 1 .. L : bytes[p] = IF start <= p /\ p < end THEN B[start + end - 1 - p] ELSE B[p]
  <2>1. TAKE p \in 1 .. L
  <2>2. CASE (start <= p /\ p < start_iter) \/ (end_iter < p /\ p < end)
    <3>1. start <= p /\ p < end
      BY <1>7, <1>8, <2>2
    <3> QED BY <1>8, <2>2, <3>1
  <2>3. CASE ~((start <= p /\ p < start_iter) \/ (end_iter < p /\ p < end))
    <3>1. bytes[p] = B[p]
      BY <1>8, <2>3
    <3>2. start <= p /\ p < end => start + end - 1 - p = p
      BY <1>1, <1>7, <1>8, <2>3
    <3> QED BY <3>1, <3>2
  <2> QED BY <2>2, <2>3
<1>11. bytes \in [1 .. L -> Byte] /\ bytes[L] = 0
  <2>1. \A p \in 1 .. L : start <= p /\ p < end => start + end - 1 - p \in 1 .. L
    BY <1>7
  <2>2. \A p \in 1 .. L : bytes[p] \in Byte
    BY <1>5, <1>10, <2>1
  <2>3. DOMAIN bytes = 1 .. L /\ bytes = [p \in 1 .. L |-> bytes[p]]
    BY <1>8
  <2>4. L \in 1 .. L /\ ~(L < end)
    BY <1>7
  <2>5. bytes[L] = 0
    BY <1>5, <1>10, <2>4
  <2> QED BY <2>2, <2>3, <2>5
<1>12. ASSUME NEW k \in 1 .. n, from <= k, k < to PROVE Flipped(bytes, runes, k)
  <2> DEFINE x == from + to - 1 - k
             w == Width(runes[k])
  <2>1. /\ x \in 1 .. n /\ x \in 1 .. n + 1 /\ from <= x /\ x < to /\ x <= to
        /\ from + to - 1 - x = k /\ from + to - x = k + 1
        /\ k \in 1 .. n + 1 /\ (from = k \/ from < k)
    BY <1>4, <1>7, <1>12, <1>a
  <2>2. t[x] = runes[k] /\ Offset(t, x) = start + end - O(k + 1)
    BY <1>4, <1>6, <2>1
  <2>3. O(k) \in Nat \ {0} /\ O(k + 1) = O(k) + w /\ w \in 1 .. 4
        /\ O(k) + w <= end /\ start <= O(k)
    <3>1. O(k) \in Nat \ {0} /\ O(k + 1) = O(k) + w /\ w \in 1 .. 4
      BY <1>9, <2>1
    <3>2. O(k) + w <= end
      BY <1>4, <1>9, <1>12, <1>a
    <3>3. from < k => O(from) < O(k)
      BY <1>9, <1>a, <2>1
    <3> QED BY <1>4, <1>7, <2>1, <3>1, <3>2, <3>3
  <2> HIDE DEF x, w
  <2>4. ASSUME NEW j \in 1 .. w
        PROVE  bytes[O(k) + j - 1] = Encode(runes[k])[w + 1 - j]
    <3> DEFINE p == O(k) + j - 1
    <3>a. j \in Int /\ 1 <= j /\ j <= w /\ w \in Nat
      BY <2>3
    <3>b. w + 1 - j \in Int /\ w + 1 - j \in 1 .. w
      BY <3>a
    <3>c. p \in Int /\ O(k) <= p /\ p < O(k) + w
      BY <2>3, <3>a
    <3>d. start <= p /\ p < end /\ p \in 1 .. L
      <4> HIDE DEF p
      <4>1. O(k) + w \in Nat
        BY <2>3
      <4> QED BY <1>7, <2>3, <3>c, <4>1
    <3>1. /\ p \in 1 .. L /\ start <= p /\ p < end
          /\ w + 1 - j \in Int /\ w + 1 - j \in 1 .. w
      BY <3>b, <3>d
    <3>2. start + end - 1 - p = (start + end - (O(k) + w)) + (w + 1 - j) - 1
      <4>1. start \in Int /\ end \in Int /\ O(k) \in Int /\ w \in Int /\ j \in Int
        BY <1>7, <2>3
      <4> QED BY <4>1, MirrorPosition
    <3>3. start + end - 1 - p = Offset(t, x) + (w + 1 - j) - 1
      BY <2>2, <2>3, <3>2
    <3>4. B[Offset(t, x) + (w + 1 - j) - 1] = Encode(t[x])[w + 1 - j]
      BY <1>5, <2>1, <2>2, <3>1 DEF w
    <3> HIDE DEF p
    <3>5. bytes[p] = B[start + end - 1 - p]
      BY <1>10, <3>1
    <3> QED BY <2>2, <3>3, <3>4, <3>5 DEF p
  <2> QED BY <2>4 DEF Flipped, O, w
<1>13. ASSUME NEW k \in 1 .. n, ~(from <= k /\ k < to) PROVE Straight(bytes, runes, k)
  <2> DEFINE w == Width(runes[k])
  <2>1. k \in 1 .. n + 1 /\ (k < from \/ k = to \/ to < k) /\ k < n + 1 /\ n + 1 \in 1 .. n + 1
    BY <1>7, <1>13, <1>a
  <2>2. O(k) \in Nat \ {0} /\ O(k) + w <= L /\ w \in 1 .. 4
        /\ (O(k) + w <= start \/ end <= O(k))
    <3>1. O(k) \in Nat \ {0} /\ w \in 1 .. 4
      BY <1>9, <2>1
    <3>2. O(k) + w <= L
      BY <1>9, <2>1 DEF L
    <3>3. /\ k < from => O(k) + w <= O(from)
          /\ to < k => O(to) < O(k)
      BY <1>9, <1>a, <2>1
    <3> QED BY <1>4, <1>7, <2>1, <3>1, <3>2, <3>3
  <2> HIDE DEF w
  <2>3. t[k] = runes[k]
    BY <1>6, <1>13
  <2>4. Offset(t, k) = O(k)
    <3>1. CASE k = to
      <4>1. from <= k /\ k <= to /\ from + to - k = from
        BY <1>4, <1>7, <3>1
      <4>2. Offset(t, k) = start + O(k) - start
        BY <1>4, <1>6, <2>1, <3>1, <4>1
      <4> QED BY <1>7, <2>2, <4>2
    <3>2. CASE k # to
      <4>1. ~(from <= k /\ k <= to)
        BY <1>4, <1>7, <1>13, <3>2
      <4> QED BY <1>6, <2>1, <4>1
    <3> QED BY <3>1, <3>2
  <2>5. ASSUME NEW j \in 1 .. w PROVE bytes[O(k) + j - 1] = Encode(runes[k])[j]
    <3> DEFINE p == O(k) + j - 1
    <3>1. p \in 1 .. L /\ ~(start <= p /\ p < end) /\ j \in Int
      BY <1>7, <2>2
    <3>2. B[p] = Encode(runes[k])[j]
      BY <1>5, <2>3, <2>4, <3>1 DEF w
    <3> HIDE DEF p
    <3>3. bytes[p] = B[p]
      BY <1>10, <3>1
    <3> QED BY <3>2, <3>3 DEF p
  <2> QED BY <2>5 DEF Straight, O, w
<1>14. Buffer(bytes, runes) /\ \A k \in 1 .. Len(runes) :
         IF from <= k /\ k < to THEN Flipped(bytes, runes, k) ELSE Straight(bytes, runes, k)
  BY <1>11, <1>12, <1>13 DEF Buffer, L, O, n
<1>15. Rotating(from, to)'
  BY <1>1, <1>4, <1>14 DEF Rotating, Buffer, Flipped, Straight, O
<1>16. to \in from .. to
  BY <1>4
<1>17. InSpan(from, to)'
  BY <1>1, <1>4, <1>7, <1>15, <1>16 DEF InSpan, O
<1> QED BY <1>1, <1>2, <1>17 DEF Utf8Inv

LEMMA RotateKeeps ==
  ASSUME Utf8Inv, RotateRune
  PROVE  Utf8Inv'
<1>1. /\ span_pc = "rotate" /\ span_pc' = "rotate" /\ end_iter >= start
      /\ bytes' = rotated(bytes, end_iter) /\ end_iter' = end_iter - ct(bytes[end_iter]) - 1
      /\ start_iter' = start_iter /\ start' = start /\ end' = end /\ runes' = runes
  BY DEF RotateRune
<1>2. runes \in Seq(Rune)
  BY DEF Utf8Inv
<1>3. PICK from \in 1 .. Len(runes) + 1, to \in 1 .. Len(runes) + 1 : InSpan(from, to)
  BY <1>1 DEF Utf8Inv
<1>4. PICK m \in from .. to : Rotating(from, m)
  BY <1>1, <1>3 DEF InSpan
<1> DEFINE n == Len(runes)
           O(k) == Offset(runes, k)
           L == O(n + 1)
           k == m - 1
           w == Width(runes[k])
<1>5. from < to /\ start = O(from) /\ end = O(to)
  BY <1>3 DEF InSpan
<1>6. n \in Nat /\ start \in Nat \ {0} /\ L \in Nat /\ start_iter \in start .. end
  BY <1>2, <1>3, SpanFacts
<1>7. /\ end_iter = O(m) - 1 /\ bytes \in [1 .. L -> Byte] /\ bytes[L] = 0
      /\ \A i \in 1 .. n : from <= i /\ i < m =>
           \A j \in 1 .. Width(runes[i]) :
             bytes[O(i) + j - 1] = Encode(runes[i])[Width(runes[i]) + 1 - j]
      /\ \A i \in 1 .. n : ~(from <= i /\ i < m) =>
           \A j \in 1 .. Width(runes[i]) : bytes[O(i) + j - 1] = Encode(runes[i])[j]
  BY <1>4 DEF Rotating, Buffer, Flipped, Straight
<1>8. /\ \A i \in 1 .. n + 1 : O(i) \in Nat \ {0}
      /\ \A i \in 1 .. n : /\ O(i + 1) = O(i) + Width(runes[i])
                           /\ Width(runes[i]) \in 1 .. 4
                           /\ ct(Encode(runes[i])[1]) = Width(runes[i]) - 1
                           /\ \A x \in 1 .. n + 1 : i < x => O(i) + Width(runes[i]) <= O(x)
  BY <1>2, OffsetsGrow, OffsetsSpec, SeqFacts, OffsetsApart, EncodeSpec
<1>a. from \in 1 .. n + 1 /\ to \in 1 .. n + 1 /\ m \in from .. to
  BY <1>4
<1> HIDE DEF n, O, L
\* The rune before the m-th is the next to turn.
<1>9. m # from
  <2>1. O(from) \in Nat
    BY <1>5, <1>6
  <2> QED BY <1>1, <1>5, <1>7, <2>1
<1>10. k \in 1 .. n /\ from <= k /\ k < m /\ m = k + 1 /\ k \in from .. to /\ k < n + 1
  BY <1>6, <1>9, <1>a
<1> HIDE DEF k
<1>11. /\ O(k) \in Nat \ {0} /\ w \in 1 .. 4 /\ O(m) = O(k) + w /\ O(k) + w <= L
       /\ end_iter = O(k) + w - 1
  <2>1. O(k) \in Nat \ {0} /\ w \in 1 .. 4 /\ O(m) = O(k) + w
    BY <1>6, <1>8, <1>10
  <2>2. n + 1 \in 1 .. n + 1
    BY <1>6
  <2>3. O(k) + w <= L
    BY <1>8, <1>10, <2>2 DEF L
  <2> QED BY <1>7, <2>1, <2>3
<1>12. ct(bytes[end_iter]) = w - 1
  <2>1. w \in 1 .. w /\ w + 1 - w = 1
    BY <1>11
  <2>2. bytes[O(k) + w - 1] = Encode(runes[k])[w + 1 - w]
    BY <1>7, <1>10, <2>1
  <2>3. ct(Encode(runes[k])[1]) = w - 1
    BY <1>8, <1>10
  <2> QED BY <1>11, <2>1, <2>2, <2>3
<1>13. end_iter' = O(k) - 1
  <2> HIDE DEF w
  <2>1. end_iter' = (O(k) + w - 1) - (w - 1) - 1
    BY <1>1, <1>11, <1>12
  <2>2. O(k) \in Int /\ w \in Int
    BY <1>11
  <2>3. (O(k) + w - 1) - (w - 1) - 1 = O(k) - 1
    BY <2>2, RotatePosition
  <2> QED BY <2>1, <2>3
<1>14. /\ bytes' \in [1 .. L -> Byte]
       /\ \A x \in 1 .. L : bytes'[x] = IF O(k) <= x /\ x < O(k) + w
                                          THEN bytes[O(k) + (O(k) + w - 1) - x] ELSE bytes[x]
  <2> HIDE DEF w
  <2>1. end_iter \in 1 .. L /\ w <= end_iter
    <3>1. /\ O(k) \in Int /\ 1 <= O(k) /\ w \in Int /\ 1 <= w /\ L \in Int
          /\ O(k) + w <= L /\ end_iter = O(k) + w - 1
      BY <1>6, <1>11
    <3> QED BY <3>1, SMTT(30)
  <2>2. /\ rotated(bytes, end_iter) \in [1 .. L -> Byte]
        /\ \A x \in 1 .. L :
             rotated(bytes, end_iter)[x] =
               IF end_iter - w < x /\ x <= end_iter THEN bytes[(2 * end_iter) - w + 1 - x]
               ELSE bytes[x]
    <3> DEFINE q == end_iter
    <3>1. L \in Nat /\ bytes \in [1 .. L -> Byte] /\ q \in 1 .. L /\ w \in 1 .. 4
          /\ ct(bytes[q]) = w - 1 /\ w <= q
      BY <1>6, <1>7, <1>11, <1>12, <2>1 DEF w
    <3> HIDE DEF q
    <3>2. /\ rotated(bytes, q) \in [1 .. L -> Byte]
          /\ \A x \in 1 .. L :
               rotated(bytes, q)[x] =
                 IF q - w < x /\ x <= q THEN bytes[(2 * q) - w + 1 - x] ELSE bytes[x]
      BY <3>1, RotatedSpec
    <3> QED BY <3>2 DEF q
  <2>3. \A x \in 1 .. L : /\ end_iter - w < x /\ x <= end_iter <=> O(k) <= x /\ x < O(k) + w
                          /\ (2 * end_iter) - w + 1 - x = O(k) + (O(k) + w - 1) - x
    <3>1. O(k) \in Int /\ w \in Int /\ end_iter = O(k) + w - 1
      BY <1>11
    <3>2. \A x \in 1 .. L : x \in Int
      OBVIOUS
    <3>3. end_iter \in Int
      BY <3>1
    <3> DEFINE o == O(k)
               q == end_iter
    <3>4. o \in Int /\ q \in Int /\ q = o + w - 1
      BY <3>1, <3>3
    <3> HIDE DEF o, q
    <3>5. \A x \in Int : /\ q - w < x /\ x <= q <=> o <= x /\ x < o + w
                         /\ (2 * q) - w + 1 - x = o + (o + w - 1) - x
      BY <3>1, <3>4, RotatePosition
    <3> QED BY <3>2, <3>5, Zenon DEF o, q
  <2> QED BY <1>1, <2>2, <2>3
<1>15. bytes'[L] = 0
  <2> HIDE DEF w
  <2>1. L \in 1 .. L /\ ~(L < O(k) + w)
    BY <1>6, <1>11
  <2> QED BY <1>7, <1>14, <2>1
<1>16. ASSUME NEW j \in 1 .. w PROVE bytes'[O(k) + j - 1] = Encode(runes[k])[j]
  <2> DEFINE x == O(k) + j - 1
  <2>1. w + 1 - j \in 1 .. w /\ w + 1 - (w + 1 - j) = j
    <3> HIDE DEF w
    <3> QED BY <1>11
  <2>2. x \in 1 .. L /\ O(k) <= x /\ x < O(k) + w
    <3> HIDE DEF w
    <3> QED BY <1>6, <1>11, ByteOfRune
  <2>3. O(k) + (O(k) + w - 1) - x = O(k) + (w + 1 - j) - 1
    <3> HIDE DEF w
    <3> QED BY <1>11
  <2>4. bytes[O(k) + (w + 1 - j) - 1] = Encode(runes[k])[w + 1 - (w + 1 - j)]
    BY <1>7, <1>10, <2>1
  <2> HIDE DEF x, w
  <2>5. bytes'[x] = bytes[O(k) + (O(k) + w - 1) - x]
    BY <1>14, <2>2
  <2> QED BY <2>1, <2>3, <2>4, <2>5 DEF x
<1>17. ASSUME NEW i \in 1 .. n, i # k, NEW j \in 1 .. Width(runes[i])
       PROVE  bytes'[O(i) + j - 1] = bytes[O(i) + j - 1]
  <2> DEFINE x == O(i) + j - 1
             v == Width(runes[i])
  <2>1. /\ i \in 1 .. n + 1 /\ k \in 1 .. n + 1 /\ n + 1 \in 1 .. n + 1 /\ i < n + 1
        /\ i < k \/ k < i
    BY <1>6, <1>10, <1>17
  <2>2. /\ O(i) \in Nat \ {0} /\ v \in 1 .. 4 /\ O(i) + v <= L
        /\ O(i) + v <= O(k) \/ O(k) + w <= O(i)
    BY <1>8, <1>10, <2>1 DEF L
  <2>3. j \in 1 .. v
    OBVIOUS
  <2> HIDE DEF w, v
  <2>4. x \in 1 .. L /\ ~(O(k) <= x /\ x < O(k) + w)
    <3>1. x \in 1 .. L /\ O(i) <= x /\ x < O(i) + v
      BY <1>6, <2>2, <2>3, ByteOfRune
    <3>2. x \in Int /\ O(i) \in Int /\ O(k) \in Int /\ v \in Int /\ w \in Int
      BY <1>11, <2>2, <3>1
    <3> HIDE DEF x
    <3> QED BY <2>2, <3>1, <3>2
  <2> HIDE DEF x
  <2>5. bytes'[x] = bytes[x]
    BY <1>14, <2>4
  <2> QED BY <2>5 DEF x
<1>18. ASSUME NEW i \in 1 .. n
       PROVE  IF from <= i /\ i < k THEN Flipped(bytes', runes, i) ELSE Straight(bytes', runes, i)
  <2>1. CASE i = k
    <3>1. ~(i < k)
      BY <1>6, <1>10, <2>1
    <3>2. Straight(bytes', runes, i)
      BY <1>16, <2>1 DEF Straight, O
    <3> QED BY <3>1, <3>2
  <2>2. CASE i # k
    <3>1. from <= i /\ i < k <=> from <= i /\ i < m
      BY <1>6, <1>10, <1>a, <2>2
    <3>2. \A j \in 1 .. Width(runes[i]) : bytes'[O(i) + j - 1] = bytes[O(i) + j - 1]
      BY <1>17, <2>2
    <3>3. from <= i /\ i < m => Flipped(bytes', runes, i)
      BY <1>7, <3>2 DEF Flipped, O
    <3>4. ~(from <= i /\ i < m) => Straight(bytes', runes, i)
      BY <1>7, <3>2 DEF Straight, O
    <3> QED BY <3>1, <3>3, <3>4
  <2> QED BY <2>1, <2>2
<1>19. Buffer(bytes', runes)
  BY <1>14, <1>15 DEF Buffer, L, O, n
<1>20. Rotating(from, k)'
  <2>1. Rotating(from, k)' <=>
          /\ end_iter' = Offset(runes, k) - 1
          /\ Buffer(bytes', runes)
          /\ \A i \in 1 .. n :
               IF from <= i /\ i < k THEN Flipped(bytes', runes, i) ELSE Straight(bytes', runes, i)
    BY <1>1 DEF Rotating, Buffer, Flipped, Straight, n, k
  <2> QED BY <1>13, <1>18, <1>19, <2>1 DEF O
<1>21. InSpan(from, to)'
  BY <1>1, <1>5, <1>6, <1>10, <1>20 DEF InSpan, O
<1> QED BY <1>1, <1>2, <1>21 DEF Utf8Inv

LEMMA ReturnKeeps ==
  ASSUME Utf8Inv, reverse_span_return
  PROVE  Utf8Inv'
<1>1. /\ span_pc = "rotate" /\ span_pc' = "idle" /\ end_iter < start
      /\ bytes' = bytes /\ runes' = runes
  BY DEF reverse_span_return
<1>2. runes \in Seq(Rune)
  BY DEF Utf8Inv
<1>3. PICK from \in 1 .. Len(runes) + 1, to \in 1 .. Len(runes) + 1 : InSpan(from, to)
  BY <1>1 DEF Utf8Inv
<1>4. PICK m \in from .. to : Rotating(from, m)
  BY <1>1, <1>3 DEF InSpan
<1>5. start = Offset(runes, from) /\ end_iter = Offset(runes, m) - 1
  BY <1>3, <1>4 DEF InSpan, Rotating
<1>6. Len(runes) \in Nat /\ m \in 1 .. Len(runes) + 1 /\ (m = from \/ from < m)
  BY <1>2, <1>4, SeqFacts
<1>7. /\ Offset(runes, from) \in Nat /\ Offset(runes, m) \in Nat
      /\ from < m => Offset(runes, from) < Offset(runes, m)
  BY <1>2, <1>6, OffsetsGrow
<1>8. m = from
  BY <1>1, <1>5, <1>6, <1>7
<1>9. \A k \in 1 .. Len(runes) : ~(from <= k /\ k < m)
  BY <1>6, <1>8
<1>10. Buffer(bytes, runes) /\ \A k \in 1 .. Len(runes) : Straight(bytes, runes, k)
  BY <1>4, <1>9 DEF Rotating
<1>11. bytes = EncodeAll(runes)
  BY <1>2, <1>10, EncodesOnly
<1> QED BY <1>1, <1>2, <1>11 DEF Utf8Inv

LEMMA Utf8Steps == Utf8Inv /\ [Utf8Next]_utf8_vars => Utf8Inv'
<1> SUFFICES ASSUME Utf8Inv, [Utf8Next]_utf8_vars PROVE Utf8Inv'
  OBVIOUS
<1>1. ASSUME NEW k \in DOMAIN runes, NEW codept \in NewCodepts, write_utf8(k, codept)
      PROVE  Utf8Inv'
  BY <1>1, WriteKeeps
<1>2. ASSUME NEW from \in 1 .. Len(runes) + 1, NEW to \in 1 .. Len(runes) + 1,
             from < to, reverse_span_call(from, to)
      PROVE  Utf8Inv'
  BY <1>2, CallKeeps
<1>3. CASE SwapBytes
  BY <1>3, SwapKeeps
<1>4. CASE SecondLoop
  BY <1>4, SecondLoopKeeps
<1>5. CASE RotateRune
  BY <1>5, RotateKeeps
<1>6. CASE reverse_span_return
  BY <1>6, ReturnKeeps
<1>7. CASE UNCHANGED utf8_vars
  BY <1>7 DEF utf8_vars, Utf8Inv, InSpan, Mirroring, Rotating, Buffer, Straight, Flipped
<1> QED BY <1>1, <1>2, <1>3, <1>4, <1>5, <1>6, <1>7 DEF Utf8Next

LEMMA Utf8Invariant == Utf8Spec => []Utf8Inv
BY Utf8Initially, Utf8Steps, PTL DEF Utf8Spec

-----------------------------------------------------------------------------
\* Whatever runes of one to four bytes a text holds, and however long it is, the
\* bytes that write_utf8 and the two loops of reverse_span leave behind are the
\* encoding of the runes modules Rtl and TextShaper compute.
THEOREM BytesAlwaysEncode == Utf8Spec => []BytesEncodeRunes
<1>1. Utf8Inv => BytesEncodeRunes
  BY DEF Utf8Inv, BytesEncodeRunes
<1> QED BY <1>1, Utf8Invariant, PTL

\* The pointers of reverse_span never leave the span, not even while its bytes
\* are no valid UTF-8.
THEOREM SpanAlwaysKept == Utf8Spec => []SpanKept
<1>1. Utf8Inv => SpanKept
  <2> SUFFICES ASSUME Utf8Inv, span_pc # "idle"
               PROVE  /\ start <= start_iter /\ end_iter < end
                      /\ start - 1 <= end_iter /\ start_iter <= end
    BY DEF SpanKept
  <2>1. runes \in Seq(Rune)
    BY DEF Utf8Inv
  <2>2. PICK from \in 1 .. Len(runes) + 1, to \in 1 .. Len(runes) + 1 : InSpan(from, to)
    BY DEF Utf8Inv
  <2>3. start \in Nat \ {0} /\ end \in Nat /\ start < end /\ start_iter \in start .. end
    BY <2>1, <2>2, SpanFacts
  <2>4. CASE span_pc = "bytewise"
    <3>1. end_iter = start + end - 1 - start_iter
      BY <2>2, <2>4 DEF InSpan, Mirroring
    <3> QED BY <2>3, <3>1
  <2>5. CASE span_pc = "rotate"
    <3>1. PICK m \in from .. to : Rotating(from, m)
      BY <2>2, <2>5 DEF InSpan
    <3>2. /\ start = Offset(runes, from) /\ end = Offset(runes, to)
          /\ end_iter = Offset(runes, m) - 1
      BY <2>2, <3>1 DEF InSpan, Rotating
    <3>3. Len(runes) \in Nat /\ m \in 1 .. Len(runes) + 1
          /\ (m = from \/ from < m) /\ (m = to \/ m < to)
      BY <2>1, <3>1, SeqFacts
    <3>4. /\ Offset(runes, m) \in Nat
          /\ from < m => Offset(runes, from) < Offset(runes, m)
          /\ m < to => Offset(runes, m) < Offset(runes, to)
      BY <2>1, <3>3, OffsetsGrow
    <3> QED BY <2>3, <3>2, <3>3, <3>4
  <2> QED BY <2>4, <2>5 DEF Utf8Inv
<1> QED BY <1>1, Utf8Invariant, PTL

\* read_utf8 returns each rune of a text, cut down to the 16 bits of its result,
\* and steps to the next, up to the NUL byte.
THEOREM RunesAlwaysRead == Utf8Spec => []ReadsRunes
<1>1. Utf8Inv => ReadsRunes
  <2> SUFFICES ASSUME Utf8Inv, span_pc = "idle", NEW k \in DOMAIN runes
               PROVE  read_utf8(bytes, Offset(runes, k)) =
                        [codept |-> runes[k] % 65536, next |-> Offset(runes, k + 1)]
    BY DEF ReadsRunes
  <2>1. runes \in Seq(Rune) /\ bytes = EncodeAll(runes)
    BY DEF Utf8Inv
  <2>2. Len(runes) \in Nat /\ k \in 1 .. Len(runes) /\ runes[k] \in Rune
    BY <2>1, SeqFacts
  <2>3. k \in 1 .. Len(runes) + 1
    BY <2>2
  <2>4. /\ Offset(runes, k) \in Nat
        /\ Offset(runes, k + 1) = Offset(runes, k) + Width(runes[k])
    BY <2>1, <2>2, <2>3, OffsetsGrow, OffsetsSpec
  <2>5. \A j \in 1 .. Width(runes[k]) :
          bytes[Offset(runes, k) + j - 1] = Encode(runes[k])[j]
    BY <2>1, <2>2, EncodeAllSpec DEF Straight
  <2> QED BY <2>2, <2>4, <2>5, ReadSpec
<1> QED BY <1>1, Utf8Invariant, PTL

=============================================================================
