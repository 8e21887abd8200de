-------------------------- MODULE Sha1StreamProofs --------------------------
(* Proofs about Sha1Stream, for every block size, word size and text.      *)
EXTENDS Sha1Stream, SequenceTheorems, TLAPS

-----------------------------------------------------------------------------
(* Division.                                                               *)

LEMMA Division ==
    ASSUME NEW b \in Nat \ {0}, NEW x \in Nat
    PROVE  /\ x \div b \in Nat
           /\ x % b \in 0..(b - 1)
           /\ x = (x \div b) * b + (x % b)
BY SMT

LEMMA DivisionUnique ==
    ASSUME NEW b \in Nat \ {0}, NEW q \in Int, NEW p \in Int,
           NEW r \in 0..(b - 1), NEW s \in 0..(b - 1),
           q * b + r = p * b + s
    PROVE  q = p /\ r = s
<1>1. (q - p) * b = s - r
  BY SMT
<1>2. CASE q - p >= 1
  <2>1. (q - p) * b >= b
    BY <1>2, SMT
  <2> QED BY <2>1, <1>1, SMT
<1>3. CASE q - p <= -1
  <2>1. (q - p) * b <= -b
    BY <1>3, SMT
  <2> QED BY <2>1, <1>1, SMT
<1> QED BY <1>1, <1>2, <1>3, SMT

LEMMA Remainder ==
    ASSUME NEW b \in Nat \ {0}, NEW q \in Nat, NEW r \in 0..(b - 1),
           NEW x \in Nat, x = q * b + r
    PROVE  x % b = r /\ x \div b = q
<1>1. /\ x \div b \in Nat /\ x % b \in 0..(b - 1)
      /\ x = (x \div b) * b + (x % b)
  BY Division
<1> DEFINE d == x \div b
           m == x % b
<1>2. d \in Int /\ m \in 0..(b - 1) /\ d * b + m = q * b + r
  BY <1>1, SMT
<1> HIDE DEF d, m
<1>3. d = q /\ m = r
  BY <1>2, DivisionUnique
<1> QED BY <1>3 DEF d, m

(* Adding less than w to a number below w wraps at most once.              *)
LEMMA SumWraps ==
    ASSUME NEW w \in Nat \ {0}, NEW t \in 0..(w - 1), NEW n \in 0..(w - 1)
    PROVE  (t + n) % w = IF t + n < w THEN t + n ELSE t + n - w
<1>0. t + n \in Nat
  OBVIOUS
<1>1. CASE t + n < w
  <2>1. t + n = 0 * w + (t + n) /\ t + n \in 0..(w - 1)
    BY <1>1
  <2> QED BY <1>0, <1>1, <2>1, Remainder
<1>2. CASE t + n >= w
  <2>1. t + n = 1 * w + (t + n - w) /\ t + n - w \in 0..(w - 1)
    BY <1>2
  <2>2. (t + n) % w = t + n - w
    BY <1>0, <2>1, Remainder
  <2> QED BY <1>2, <2>2
<1> QED BY <1>0, <1>1, <1>2

-----------------------------------------------------------------------------
(* A context holds a sequence of bytes: whole blocks of it have been       *)
(* processed, the rest is in the buffer, and the count is exact.           *)
Holds(c, f) ==
    /\ \E q \in Nat : Len(c.hashed) = q * B
    /\ f = c.hashed \o SubSeq(c.buffer, 1, c.total0 % B)
    /\ c.total1 * Word + c.total0 = Len(f)

(* The count after n more bytes, and the carry (lines 223-227).            *)
LEMMA CountUpdate ==
    ASSUME NEW c \in Contexts, NEW n \in 1..(Word - 1)
    PROVE  /\ total0(c, n) \in 0..(Word - 1)
           /\ total1(c, n) \in Nat
           /\ total1(c, n) * Word + total0(c, n) = c.total1 * Word + c.total0 + n
           /\ total0(c, n) \in {c.total0 + n, c.total0 + n - Word}
<1>1. c.total0 \in 0..(Word - 1) /\ c.total1 \in Nat /\ Word \in Nat \ {0}
  BY BlockAssumption DEF Contexts
<1>2. total0(c, n) = IF c.total0 + n < Word THEN c.total0 + n ELSE c.total0 + n - Word
  <2>1. n \in 0..(Word - 1)
    BY <1>1
  <2> QED BY <1>1, <2>1, SumWraps DEF total0
<1>3. total1(c, n) = IF c.total0 + n < Word THEN c.total1 ELSE c.total1 + 1
  <2>1. total0(c, n) < n <=> ~(c.total0 + n < Word)
    BY <1>1, <1>2
  <2> QED BY <2>1 DEF total1
<1>4. (c.total1 + 1) * Word = c.total1 * Word + Word /\ c.total1 * Word \in Nat
  BY <1>1
<1> QED BY <1>1, <1>2, <1>3, <1>4

(* A word counts whole blocks, so that wrapping leaves the place in the    *)
(* block alone.                                                            *)
LEMMA PlaceWraps ==
    ASSUME NEW y \in Nat
    PROVE  y % B = (y + Word) % B
<1>1. B \in Nat \ {0} /\ Word \in Nat \ {0} /\ Word % B = 0
  BY BlockAssumption
<1>2. PICK k \in Nat : Word = k * B
  <2>1. /\ Word \in Nat
        /\ Word \div B \in Nat
        /\ Word = (Word \div B) * B + (Word % B)
    BY <1>1, Division
  <2>2. PICK k \in Nat : Word = k * B + (Word % B)
    BY <2>1
  <2> QED BY <1>1, <2>2
<1>3. PICK q \in Nat, r \in 0..(B - 1) : y = q * B + r /\ y % B = r
  BY <1>1, Division
<1>4. PICK x \in Nat, p \in Nat : x = y + Word /\ p = q + k
  BY <1>1, <1>2, <1>3
<1>5. x = p * B + r
  <2>1. p * B = q * B + k * B
    BY <1>1, <1>2, <1>3, <1>4
  <2> QED BY <1>1, <1>2, <1>3, <1>4, <2>1
<1>6. x % B = r
  <2>1. B \in Nat \ {0} /\ x \in Nat /\ p \in Nat /\ r \in 0..(B - 1)
    BY <1>1, <1>3, <1>4
  <2> QED BY <1>5, <2>1, Remainder
<1> QED BY <1>3, <1>4, <1>6

(* The place in the block after n more bytes.                              *)
LEMMA PlaceUpdate ==
    ASSUME NEW c \in Contexts, NEW n \in 1..(Word - 1)
    PROVE  total0(c, n) % B = (c.total0 + n) % B
<1>1. PICK y \in Nat : y = total0(c, n)
  BY CountUpdate, BlockAssumption
<1>2. y \in {c.total0 + n, c.total0 + n - Word} /\ c.total0 \in Nat /\ Word \in Nat
  BY CountUpdate, <1>1, BlockAssumption, SMTT(30) DEF Contexts
<1>3. y = c.total0 + n \/ y + Word = c.total0 + n
  BY <1>1, <1>2
<1>4. y % B = (y + Word) % B
  BY <1>1, PlaceWraps
<1> QED BY <1>1, <1>3, <1>4

-----------------------------------------------------------------------------
(* The numbers of one sha1_update, as its LET names them.                  *)
Left(c)     == c.total0 % B
First(c, n) == IF Fills(c, n) THEN B - Left(c) ELSE 0
Rest(c, n)  == (n - First(c, n)) % B
At(c, n)    == IF Fills(c, n) THEN 0 ELSE Left(c)

LEMMA LeftIsPlace ==
    ASSUME NEW c \in Contexts
    PROVE  /\ Left(c) \in 0..(B - 1)
           /\ \E a \in Nat : c.total0 = a * B + Left(c)
<1>1. c.total0 \in Nat /\ B \in Nat \ {0}
  BY BlockAssumption DEF Contexts
<1>2. /\ c.total0 % B \in 0..(B - 1)
      /\ c.total0 \div B \in Nat
      /\ c.total0 = (c.total0 \div B) * B + (c.total0 % B)
  BY <1>1, Division
<1> QED BY <1>2 DEF Left

(* A block that the input completes is taken first; without one, either    *)
(* the buffer was empty or all of the input goes there.                    *)
LEMMA RestIsKept ==
    ASSUME NEW c \in Contexts, NEW n \in Nat \ {0}
    PROVE  /\ First(c, n) \in 0..n
           /\ Rest(c, n) \in 0..(n - First(c, n))
           /\ At(c, n) \in 0..(B - 1)
           /\ At(c, n) + Rest(c, n) \in 0..(B - 1)
           /\ \E w \in Nat : n - First(c, n) - Rest(c, n) = w * B
           /\ ~Fills(c, n) /\ Left(c) # 0 => Rest(c, n) = n
<1>1. B \in Nat \ {0} /\ Left(c) \in 0..(B - 1)
  BY BlockAssumption, LeftIsPlace
<1>2. Fills(c, n) <=> Left(c) # 0 /\ n >= B - Left(c)
  BY DEF Fills, Left
<1>3. First(c, n) \in 0..n
  BY <1>1, <1>2 DEF First
<1>4. PICK m \in Nat : m = n - First(c, n)
  BY <1>3
<1>5. PICK w \in Nat, r \in 0..(B - 1) : m = w * B + r /\ r = m % B
  BY <1>1, Division
<1>6. Rest(c, n) = r
  BY <1>4, <1>5 DEF Rest
<1>7. w * B \in Nat
  BY <1>1
<1>8. r \in 0..m
  BY <1>1, <1>5, <1>7
<1>9. ASSUME ~Fills(c, n), Left(c) # 0
      PROVE  r = n /\ n < B - Left(c)
  <2>1. m = n /\ n < B - Left(c)
    BY <1>1, <1>2, <1>4, <1>9 DEF First
  <2>2. m \in 0..(B - 1) /\ m = 0 * B + m
    BY <1>1, <2>1
  <2>3. m % B = m
    BY <1>1, <2>2, Remainder, SMTT(30)
  <2> QED BY <1>5, <2>1, <2>3
<1>10. At(c, n) \in 0..(B - 1) /\ At(c, n) + r \in 0..(B - 1)
  BY <1>1, <1>5, <1>9 DEF At
<1>11. n - First(c, n) - Rest(c, n) = w * B
  BY <1>3, <1>4, <1>5, <1>6, <1>7
<1>12. Rest(c, n) \in 0..(n - First(c, n))
  BY <1>4, <1>6, <1>8
<1> QED BY <1>3, <1>5, <1>6, <1>9, <1>10, <1>11, <1>12

(* The place after n more bytes is where the rest ends in the buffer.      *)
LEMMA PlaceIsAfterRest ==
    ASSUME NEW c \in Contexts, NEW n \in Nat \ {0}
    PROVE  (c.total0 + n) % B = At(c, n) + Rest(c, n)
<1>1. B \in Nat \ {0} /\ Left(c) \in 0..(B - 1) /\ c.total0 \in Nat
  BY BlockAssumption, LeftIsPlace DEF Contexts
<1>2. PICK a \in Nat : c.total0 = a * B + Left(c)
  BY LeftIsPlace
<1>3. PICK w \in Nat : n - First(c, n) - Rest(c, n) = w * B
  BY RestIsKept
<1>4. PICK r \in 0..(B - 1) : r = At(c, n) + Rest(c, n)
  BY RestIsKept
<1>5. First(c, n) \in Nat /\ Rest(c, n) \in Nat /\ At(c, n) \in Nat
  BY RestIsKept, <1>1
<1>6. PICK e \in Nat : c.total0 + First(c, n) = e * B + At(c, n)
  <2>1. CASE Fills(c, n)
    <3>1. (a + 1) * B = a * B + B /\ a + 1 \in Nat
      BY <1>1
    <3>2. c.total0 + First(c, n) = (a + 1) * B + At(c, n)
      BY <1>1, <1>2, <2>1, <3>1 DEF First, At
    <3> QED BY <3>1, <3>2
  <2>2. CASE ~Fills(c, n)
    <3>1. c.total0 + First(c, n) = a * B + At(c, n)
      BY <1>1, <1>2, <2>2 DEF First, At
    <3> QED BY <3>1
  <2> QED BY <2>1, <2>2
<1>7. PICK x \in Nat, p \in Nat : x = c.total0 + n /\ p = e + w
  BY <1>1, <1>3, <1>6
<1>8. x = p * B + r
  <2>1. p * B = e * B + w * B /\ e * B \in Nat /\ w * B \in Nat
    BY <1>1, <1>3, <1>6, <1>7
  <2> QED BY <1>1, <1>3, <1>4, <1>5, <1>6, <1>7, <2>1
<1>9. x % B = r
  <2>1. B \in Nat \ {0} /\ x \in Nat /\ p \in Nat /\ r \in 0..(B - 1)
    BY <1>1, <1>4, <1>7, SMTT(30)
  <2> QED BY <1>8, <2>1, Remainder
<1> QED BY <1>4, <1>7, <1>9

-----------------------------------------------------------------------------
(* Three cuts of an input are the input.                                   *)
LEMMA CutInThree ==
    ASSUME NEW S, NEW s \in Seq(S), NEW i \in 0..Len(s), NEW j \in i..Len(s)
    PROVE  /\ SubSeq(s, 1, i) \in Seq(S)
           /\ SubSeq(s, i + 1, j) \in Seq(S)
           /\ SubSeq(s, j + 1, Len(s)) \in Seq(S)
           /\ Len(SubSeq(s, i + 1, j)) = j - i
           /\ s = SubSeq(s, 1, i) \o (SubSeq(s, i + 1, j) \o SubSeq(s, j + 1, Len(s)))
<1>1. Len(s) \in Nat /\ i \in Nat /\ j \in Nat /\ i <= j /\ j <= Len(s)
  BY LenProperties
<1>2. \A k \in 1..Len(s) : s[k] \in S
  BY ElementOfSeq
<1>3. SubSeq(s, 1, i) \in Seq(S)
  BY <1>1, <1>2, SubSeqProperties
<1>4. SubSeq(s, i + 1, j) \in Seq(S) /\ Len(SubSeq(s, i + 1, j)) = j - i
  <2>1. \A k \in (i + 1)..j : s[k] \in S
    BY <1>1, <1>2
  <2>2. i + 1 \in Int /\ j \in Int
    BY <1>1
  <2> QED BY <1>1, <2>1, <2>2, SubSeqProperties
<1>5. SubSeq(s, j + 1, Len(s)) \in Seq(S)
  <2>1. \A k \in (j + 1)..Len(s) : s[k] \in S
    BY <1>1, <1>2
  <2>2. j + 1 \in Int /\ Len(s) \in Int
    BY <1>1
  <2> QED BY <2>1, <2>2, SubSeqProperties
<1>6. SubSeq(s, i + 1, j) \o SubSeq(s, j + 1, Len(s)) = SubSeq(s, i + 1, Len(s))
  <2>1. PICK m \in 1..(Len(s) + 1) : m = i + 1
    BY <1>1
  <2>2. j \in (m - 1)..Len(s) /\ Len(s) \in j..Len(s)
    BY <1>1, <2>1
  <2>3. SubSeq(s, m, j) \o SubSeq(s, j + 1, Len(s)) = SubSeq(s, m, Len(s))
    BY <2>1, <2>2, ConcatAdjacentSubSeq
  <2> QED BY <2>1, <2>3
<1>7. SubSeq(s, 1, i) \o SubSeq(s, i + 1, Len(s)) = SubSeq(s, 1, Len(s))
  <2>1. 1 \in 1..(Len(s) + 1) /\ i \in (1 - 1)..Len(s) /\ Len(s) \in i..Len(s)
    BY <1>1
  <2> QED BY <2>1, ConcatAdjacentSubSeq
<1>8. SubSeq(s, 1, Len(s)) = s
  BY SubSeqFull
<1> QED BY <1>3, <1>4, <1>5, <1>6, <1>7, <1>8

(* A part of a sequence, byte by byte.                                     *)
LEMMA Part ==
    ASSUME NEW S, NEW s, NEW i \in Nat, NEW j \in Nat, i <= j,
           \A k \in 1..j : s[k] \in S
    PROVE  /\ SubSeq(s, i + 1, j) \in Seq(S)
           /\ Len(SubSeq(s, i + 1, j)) = j - i
           /\ \A k \in 1..(j - i) : SubSeq(s, i + 1, j)[k] = s[i + k]
<1>1. PICK m \in Int : m = i + 1
  OBVIOUS
<1>2. \A k \in m..j : s[k] \in S
  BY <1>1
<1>3. /\ SubSeq(s, m, j) \in Seq(S)
      /\ Len(SubSeq(s, m, j)) = IF m <= j THEN j - m + 1 ELSE 0
      /\ \A k \in 1..(j - m + 1) : SubSeq(s, m, j)[k] = s[m + k - 1]
  BY <1>1, <1>2, SubSeqProperties
<1>4. Len(SubSeq(s, m, j)) = j - i
  BY <1>1, <1>3
<1>5. ASSUME NEW k \in 1..(j - i)
      PROVE  SubSeq(s, m, j)[k] = s[i + k]
  <2>1. k \in 1..(j - m + 1) /\ m + k - 1 = i + k
    BY <1>1
  <2> QED BY <1>3, <2>1
<1> QED BY <1>1, <1>3, <1>4, <1>5

LEMMA Prefix ==
    ASSUME NEW S, NEW s, NEW j \in Nat, \A k \in 1..j : s[k] \in S
    PROVE  /\ SubSeq(s, 1, j) \in Seq(S)
           /\ Len(SubSeq(s, 1, j)) = j
           /\ \A k \in 1..j : SubSeq(s, 1, j)[k] = s[k]
<1>1. /\ SubSeq(s, 0 + 1, j) \in Seq(S)
      /\ Len(SubSeq(s, 0 + 1, j)) = j - 0
      /\ \A k \in 1..(j - 0) : SubSeq(s, 0 + 1, j)[k] = s[0 + k]
  BY Part
<1> QED BY <1>1

LEMMA WholeBuffer ==
    ASSUME NEW b \in [1..B -> Bytes]
    PROVE  /\ b \in Seq(Bytes) /\ Len(b) = B
           /\ SubSeq(b, 1, B) = b
<1>1. B \in Nat
  BY BlockAssumption
<1>2. b \in Seq(Bytes) /\ Len(b) = B
  BY <1>1
<1> QED BY <1>2, SubSeqFull

(* Concatenation under a name, which the provers leave alone.              *)
Cat(s, t) == s \o t

LEMMA CatAssociates ==
    ASSUME NEW S, NEW u \in Seq(S), NEW v \in Seq(S), NEW w \in Seq(S)
    PROVE  Cat(u, v) \in Seq(S) /\ Cat(Cat(u, v), w) = Cat(u, Cat(v, w))
<1>1. Cat(u, v) \in Seq(S)
  BY ConcatProperties DEF Cat
<1>2. Cat(Cat(u, v), w) = Cat(u, Cat(v, w))
  BY ConcatAssociative, SMTT(30) DEF Cat
<1> QED BY <1>1, <1>2

LEMMA CatRegroup ==
    ASSUME NEW S, NEW h \in Seq(S), NEW t \in Seq(S), NEW x \in Seq(S),
           NEW y \in Seq(S), NEW z \in Seq(S)
    PROVE  Cat(Cat(h, t), Cat(x, Cat(y, z))) = Cat(Cat(Cat(h, Cat(t, x)), y), z)
<1>1. /\ Cat(h, t) \in Seq(S) /\ Cat(y, z) \in Seq(S)
      /\ Cat(Cat(h, t), x) = Cat(h, Cat(t, x))
  BY CatAssociates
<1>2. Cat(Cat(h, t), x) \in Seq(S)
  BY <1>1, CatAssociates
<1>3. Cat(Cat(Cat(h, t), x), Cat(y, z)) = Cat(Cat(h, t), Cat(x, Cat(y, z)))
  BY <1>1, CatAssociates
<1>4. Cat(Cat(Cat(Cat(h, t), x), y), z) = Cat(Cat(Cat(h, t), x), Cat(y, z))
  BY <1>2, CatAssociates
<1> QED BY <1>1, <1>3, <1>4

LEMMA CatEmpty ==
    ASSUME NEW S, NEW u \in Seq(S)
    PROVE  Cat(u, << >>) = u /\ Cat(<< >>, u) = u
BY ConcatEmptySeq DEF Cat

LEMMA CatSwap ==
    ASSUME NEW S, NEW h \in Seq(S), NEW t \in Seq(S), NEW y \in Seq(S), NEW z \in Seq(S),
           t = << >> \/ y = << >>
    PROVE  Cat(Cat(h, t), Cat(<< >>, Cat(y, z))) = Cat(Cat(h, y), Cat(t, z))
<1>1. Cat(y, z) \in Seq(S) /\ Cat(h, t) \in Seq(S) /\ Cat(h, y) \in Seq(S)
  BY CatAssociates
<1>2. Cat(<< >>, Cat(y, z)) = Cat(y, z)
  BY <1>1, CatEmpty
<1>3. CASE t = << >>
  <2>1. Cat(h, t) = h /\ Cat(t, z) = z
    BY <1>3, CatEmpty
  <2>2. Cat(h, Cat(y, z)) = Cat(Cat(h, y), z)
    BY CatAssociates
  <2> QED BY <1>2, <2>1, <2>2
<1>4. CASE y = << >>
  <2>1. Cat(h, y) = h /\ Cat(y, z) = z
    BY <1>4, CatEmpty
  <2>2. Cat(h, Cat(t, z)) = Cat(Cat(h, t), z)
    BY CatAssociates
  <2> QED BY <1>2, <2>1, <2>2
<1> QED BY <1>3, <1>4

(* What a buffer holds when one text was put behind another.               *)
LEMMA Joined ==
    ASSUME NEW b \in [1..B -> Bytes], NEW k \in 0..B,
           NEW s \in Seq(Bytes), NEW t \in Seq(Bytes), k = Len(s) + Len(t),
           \A i \in 1..Len(s) : b[i] = s[i],
           \A i \in 1..Len(t) : b[Len(s) + i] = t[i]
    PROVE  SubSeq(b, 1, k) = s \o t
<1>1. Len(s) \in Nat /\ Len(t) \in Nat /\ k \in Nat /\ B \in Nat
  BY LenProperties, BlockAssumption
<1>2. /\ SubSeq(b, 1, k) \in Seq(Bytes) /\ Len(SubSeq(b, 1, k)) = k
      /\ \A i \in 1..k : SubSeq(b, 1, k)[i] = b[i]
  <2>1. \A i \in 1..k : i \in 1..B
    BY <1>1
  <2>2. \A i \in 1..k : b[i] \in Bytes
    BY <2>1
  <2> QED BY <1>1, <2>2, Prefix
<1>3. /\ s \o t \in Seq(Bytes) /\ Len(s \o t) = k
      /\ \A i \in 1..k : (s \o t)[i] = IF i <= Len(s) THEN s[i] ELSE t[i - Len(s)]
  BY ConcatProperties
<1>4. ASSUME NEW i \in 1..k PROVE b[i] = (s \o t)[i]
  <2>1. CASE i <= Len(s)
    BY <1>1, <1>3, <2>1
  <2>2. CASE i > Len(s)
    <3>1. PICK j \in 1..Len(t) : i = Len(s) + j /\ j = i - Len(s)
      <4>1. i - Len(s) \in 1..Len(t) /\ i = Len(s) + (i - Len(s))
        <5>1. PICK l \in Nat, m \in Nat : l = Len(s) /\ m = Len(t)
          BY <1>1
        <5>2. i \in 1..(l + m) /\ i > l
          BY <2>2, <5>1
        <5>3. i - l \in 1..m /\ i = l + (i - l)
          BY <5>2
        <5> QED BY <5>1, <5>3
      <4> QED BY <4>1
    <3>2. (s \o t)[i] = t[j]
      BY <1>1, <1>3, <2>2, <3>1
    <3> QED BY <3>1, <3>2
  <2> QED BY <1>1, <2>1, <2>2
<1> QED BY <1>2, <1>3, <1>4, SeqEqual

(* sha1_update loses no byte and moves none (lines 212-246).               *)
LEMMA UpdateHolds ==
    ASSUME NEW c \in Contexts, NEW f \in Seq(Bytes), Holds(c, f),
           NEW input \in Seq(Bytes), Len(input) < Word
    PROVE  /\ sha1_update(c, input) \in Contexts
           /\ Holds(sha1_update(c, input), f \o input)
<1>0. \A i \in 0..Len(input) : \A j \in i..Len(input) :
          /\ SubSeq(input, i + 1, j) \in Seq(Bytes)
          /\ Len(SubSeq(input, i + 1, j)) = j - i
          /\ input = SubSeq(input, 1, i) \o
               (SubSeq(input, i + 1, j) \o SubSeq(input, j + 1, Len(input)))
  <2>1. \A s \in Seq(Bytes) : \A i \in 0..Len(s) : \A j \in i..Len(s) :
          /\ SubSeq(s, i + 1, j) \in Seq(Bytes)
          /\ Len(SubSeq(s, i + 1, j)) = j - i
    BY CutInThree
  <2>2. \A s \in Seq(Bytes) : \A i \in 0..Len(s) : \A j \in i..Len(s) :
          s = SubSeq(s, 1, i) \o (SubSeq(s, i + 1, j) \o SubSeq(s, j + 1, Len(s)))
    BY CutInThree, ZenonT(90)
  <2> QED BY <2>1, <2>2
<1> DEFINE n      == Len(input)
           left   == Left(c)
           fills  == Fills(c, n)
           first  == First(c, n)
           rest   == Rest(c, n)
           at     == At(c, n)
           topped == [i \in 1..B |-> IF fills /\ i > left THEN input[i - left] ELSE c.buffer[i]]
           before == IF fills THEN c.hashed \o topped ELSE c.hashed
           buffer == [i \in 1..B |-> IF at < i /\ i <= at + rest
                                     THEN input[n - rest + i - at] ELSE topped[i]]
           T == SubSeq(c.buffer, 1, left)
           X == SubSeq(input, 1, first)
           Y == SubSeq(input, first + 1, n - rest)
           Z == SubSeq(input, n - rest + 1, n)
<1>1. n \in Nat /\ \A i \in 1..n : input[i] \in Bytes
  BY LenProperties, ElementOfSeq
<1>2. CASE n = 0
  <2>1. input = << >> /\ sha1_update(c, input) = c
    BY <1>2, EmptySeq DEF sha1_update
  <2> QED BY <2>1, ConcatEmptySeq
<1>3. CASE n # 0
  <2>1. /\ B \in Nat \ {0}
        /\ left \in 0..(B - 1)
        /\ fills <=> left # 0 /\ n >= B - left
        /\ first = IF fills THEN B - left ELSE 0
        /\ at = IF fills THEN 0 ELSE left
        /\ c.hashed \in Seq(Bytes)
        /\ c.buffer \in [1..B -> Bytes]
    BY BlockAssumption, LeftIsPlace DEF Fills, Left, First, At, Contexts
  <2>2. /\ first \in 0..n
        /\ rest \in 0..(n - first)
        /\ at \in 0..(B - 1)
        /\ at + rest \in 0..(B - 1)
        /\ ~fills /\ left # 0 => rest = n
        /\ \E w \in Nat : n - first - rest = w * B
    BY <1>1, <1>3, RestIsKept
  <2>3. /\ n \in 1..(Word - 1)
        /\ sha1_update(c, input) =
             [total0 |-> total0(c, n), total1 |-> total1(c, n), buffer |-> buffer,
              hashed |-> before \o Y]
    <3>1. n \in 1..(Word - 1)
      BY <1>1, <1>3, BlockAssumption
    <3>2. sha1_update(c, input) =
             [total0 |-> total0(c, n), total1 |-> total1(c, n), buffer |-> buffer,
              hashed |-> before \o Y]
      BY <1>3 DEF sha1_update, sha1_process, Left, First, Rest, At
    <3> QED BY <3>1, <3>2
  <2>4. /\ total0(c, n) \in 0..(Word - 1)
        /\ total1(c, n) \in Nat
        /\ total1(c, n) * Word + total0(c, n) = c.total1 * Word + c.total0 + n
        /\ total0(c, n) % B = at + rest
    BY <1>1, <1>3, <2>3, CountUpdate, PlaceUpdate, PlaceIsAfterRest, ZenonT(90)
  <2>5. /\ T \in Seq(Bytes) /\ Len(T) = left
        /\ f = c.hashed \o T
        /\ \A i \in 1..left : T[i] = c.buffer[i]
    <3>1. left \in Nat /\ \A i \in 1..left : c.buffer[i] \in Bytes
      <4>1. B \in Nat \ {0} /\ left \in 0..(B - 1) /\ c.buffer \in [1..B -> Bytes]
        BY <2>1
      <4> HIDE DEF left
      <4>2. left \in Nat /\ \A i \in 1..left : i \in 1..B
        BY <4>1
      <4> QED BY <4>1, <4>2
    <3>2. f = c.hashed \o T
      BY DEF Holds, Left
    <3> HIDE DEF left
    <3> QED BY <3>1, <3>2, Prefix
  <2>6. /\ X \in Seq(Bytes) /\ Y \in Seq(Bytes) /\ Z \in Seq(Bytes)
        /\ Len(X) = first /\ Len(Y) = n - first - rest /\ Len(Z) = rest
        /\ \A i \in 1..first : X[i] = input[i]
        /\ \A i \in 1..rest : Z[i] = input[n - rest + i]
        /\ input = X \o (Y \o Z)
    <3>0. n = Len(input)
      OBVIOUS
    <3> HIDE DEF n, first, rest
    <3>1. PICK j \in Nat : j = n - rest /\ first <= j /\ j <= n
      <4>1. n \in Nat /\ first \in 0..n /\ rest \in 0..(n - first)
        BY <1>1, <2>2
      <4> QED BY <4>1
    <3>2. first \in Nat /\ rest \in Nat /\ first <= n
      BY <1>1, <2>2
    <3>3. /\ X \in Seq(Bytes) /\ Len(X) = first
          /\ \A i \in 1..first : X[i] = input[i]
      <4>1. \A i \in 1..first : input[i] \in Bytes
        BY <1>1, <3>2
      <4> QED BY <3>2, <4>1, Prefix
    <3>4. /\ SubSeq(input, j + 1, n) \in Seq(Bytes)
          /\ Len(SubSeq(input, j + 1, n)) = n - j
          /\ \A i \in 1..(n - j) : SubSeq(input, j + 1, n)[i] = input[j + i]
      BY <1>1, <3>1, Part
    <3>5. Z = SubSeq(input, j + 1, n) /\ n - j = rest
      BY <1>1, <3>1, <3>2
    <3>6. /\ Y \in Seq(Bytes) /\ Len(Y) = j - first
          /\ input = X \o (Y \o SubSeq(input, j + 1, n))
      <4>1. first \in 0..n /\ j \in first..n
        BY <1>1, <3>1, <3>2
      <4>2. Y = SubSeq(input, first + 1, j)
        BY <3>1
      <4>3. first \in 0..Len(input) /\ j \in first..Len(input)
        BY <3>0, <4>1
      <4>4. /\ SubSeq(input, first + 1, j) \in Seq(Bytes)
            /\ Len(SubSeq(input, first + 1, j)) = j - first
            /\ input = SubSeq(input, 1, first) \o
                  (SubSeq(input, first + 1, j) \o SubSeq(input, j + 1, Len(input)))
        BY <1>0, <4>3
      <4> QED BY <3>0, <4>2, <4>4
    <3>7. j - first = n - first - rest
      BY <1>1, <3>1, <3>2
    <3> QED BY <3>1, <3>3, <3>4, <3>5, <3>6, <3>7
  <2>7. /\ topped \in [1..B -> Bytes]
        /\ buffer \in [1..B -> Bytes]
    <3>1. \A i \in 1..B : fills /\ i > left => input[i - left] \in Bytes
      <4> HIDE DEF n, fills, left, first, at
      <4>1. \A i \in 1..B : fills /\ i > left => i - left \in 1..n
        BY <1>1, <2>1
      <4> QED BY <1>1, <4>1
    <3>2. topped \in [1..B -> Bytes]
      BY <2>1, <3>1
    <3>3. \A i \in 1..B : at < i /\ i <= at + rest => input[n - rest + i - at] \in Bytes
      <4> HIDE DEF n, left, fills, first, rest, at
      <4>1. /\ n \in Nat /\ rest \in Nat /\ at \in Nat /\ rest <= n
        BY <1>1, <2>2
      <4>2. \A i \in 1..B : at < i /\ i <= at + rest => n - rest + i - at \in 1..n
        BY <4>1
      <4> QED BY <1>1, <4>2
    <3> HIDE DEF topped
    <3> QED BY <3>2, <3>3
  <2>8. /\ \A i \in 1..B :
               topped[i] = IF fills /\ i > left THEN input[i - left] ELSE c.buffer[i]
        /\ \A i \in 1..B :
               buffer[i] = IF at < i /\ i <= at + rest THEN input[n - rest + i - at]
                           ELSE topped[i]
        /\ before = IF fills THEN c.hashed \o topped ELSE c.hashed
        /\ n = Len(input)
    OBVIOUS
  <2> HIDE DEF n, left, fills, first, rest, at, topped, before, buffer, T, X, Y, Z
  <2>9. /\ n \in Nat /\ left \in Nat /\ first \in Nat /\ rest \in Nat /\ at \in Nat
        /\ B \in Nat \ {0} /\ left < B /\ at + rest < B /\ first + rest <= n
        /\ at = IF fills THEN 0 ELSE left
        /\ first = IF fills THEN B - left ELSE 0
    BY <1>1, <2>1, <2>2
  <2>10. ASSUME fills PROVE topped = T \o X
    <3>1. \A i \in 1..left : topped[i] = T[i]
      <4>1. \A i \in 1..left : i \in 1..B /\ ~(i > left)
        BY <2>9
      <4> QED BY <2>5, <2>8, <4>1
    <3>2. \A i \in 1..first : topped[left + i] = X[i]
      <4>1. ASSUME NEW i \in 1..first PROVE topped[left + i] = X[i]
        <5>1. PICK m \in 1..B : m = left + i /\ m > left /\ m - left = i
          BY <2>9, <2>10
        <5>2. topped[m] = input[m - left]
          BY <2>8, <2>10, <5>1
        <5>3. X[i] = input[i]
          BY <2>6
        <5> QED BY <5>1, <5>2, <5>3
      <4> QED BY <4>1
    <3>3. B = left + first /\ B \in 0..B
      BY <2>9, <2>10
    <3>4. SubSeq(topped, 1, B) = T \o X
      <4>1. B \in 0..B /\ B = Len(T) + Len(X)
        BY <2>5, <2>6, <3>3
      <4>2. /\ \A i \in 1..Len(T) : topped[i] = T[i]
            /\ \A i \in 1..Len(X) : topped[Len(T) + i] = X[i]
        BY <2>5, <2>6, <3>1, <3>2
      <4>3. topped \in [1..B -> Bytes] /\ T \in Seq(Bytes) /\ X \in Seq(Bytes)
        BY <2>5, <2>6, <2>7
      <4>4. PICK k \in 0..B : k = B
        BY <4>1
      <4>5. k = Len(T) + Len(X)
        BY <4>1, <4>4
      <4>6. SubSeq(topped, 1, k) = T \o X
        BY <4>2, <4>3, <4>5, Joined, ZenonT(90)
      <4> QED BY <4>4, <4>6
    <3>5. SubSeq(topped, 1, B) = topped
      BY <2>7, <2>9, WholeBuffer
    <3> QED BY <3>4, <3>5
  <2>11. SubSeq(buffer, 1, at + rest) = (IF fills THEN << >> ELSE T) \o Z
    <3>1. PICK K \in Seq(Bytes) : K = IF fills THEN << >> ELSE T
      BY <2>5, EmptySeq
    <3>2. Len(K) = at
      BY <2>5, <2>9, <3>1, EmptySeq
    <3>3. \A i \in 1..at : buffer[i] = K[i]
      <4>1. ASSUME NEW i \in 1..at PROVE buffer[i] = K[i]
        <5>1. ~fills /\ at = left /\ K = T
          BY <2>9, <3>1
        <5>2. i \in 1..B /\ ~(at < i) /\ ~(i > left) /\ i \in 1..left
          BY <2>9, <5>1
        <5>3. buffer[i] = topped[i] /\ topped[i] = c.buffer[i]
          BY <2>8, <5>2
        <5> QED BY <2>5, <5>1, <5>2, <5>3
      <4> QED BY <4>1
    <3>4. \A i \in 1..rest : buffer[at + i] = Z[i]
      <4>1. \A i \in 1..rest : /\ at + i \in 1..B /\ at < at + i /\ at + i <= at + rest
                               /\ n - rest + (at + i) - at = n - rest + i
        BY <2>9
      <4>2. \A i \in 1..rest : buffer[at + i] = input[n - rest + (at + i) - at]
        BY <2>8, <4>1
      <4> QED BY <2>6, <4>1, <4>2, ZenonT(90)
    <3>5. /\ at + rest \in 0..B /\ at + rest = Len(K) + Len(Z)
          /\ \A i \in 1..Len(K) : buffer[i] = K[i]
          /\ \A i \in 1..Len(Z) : buffer[Len(K) + i] = Z[i]
      BY <2>6, <2>9, <3>2, <3>3, <3>4
    <3>6. SubSeq(buffer, 1, at + rest) = K \o Z
      BY <2>6, <2>7, <3>5, Joined, ZenonT(90)
    <3> QED BY <3>1, <3>6
  <2>12. /\ before \in Seq(Bytes)
         /\ f \o input = (before \o Y) \o SubSeq(buffer, 1, at + rest)
    <3> DEFINE kept == SubSeq(buffer, 1, at + rest)
    <3>1. /\ c.hashed \in Seq(Bytes) /\ T \in Seq(Bytes) /\ X \in Seq(Bytes)
          /\ Y \in Seq(Bytes) /\ Z \in Seq(Bytes)
      BY <2>1, <2>5, <2>6
    <3>2. /\ Cat(f, input) = Cat(Cat(c.hashed, T), Cat(X, Cat(Y, Z)))
          /\ fills => topped = Cat(T, X)
          /\ kept = Cat(IF fills THEN << >> ELSE T, Z)
          /\ before = IF fills THEN Cat(c.hashed, topped) ELSE c.hashed
      BY <2>5, <2>6, <2>8, <2>10, <2>11 DEF Cat
    <3> HIDE DEF kept
    <3>3. CASE fills
      <4>1. before = Cat(c.hashed, Cat(T, X)) /\ kept = Z
        BY <3>1, <3>2, <3>3, CatEmpty
      <4>2. before \in Seq(Bytes)
        BY <3>1, <4>1, CatAssociates
      <4>3. Cat(Cat(c.hashed, T), Cat(X, Cat(Y, Z))) = Cat(Cat(Cat(c.hashed, Cat(T, X)), Y), Z)
        <5>1. PICK h \in Seq(Bytes), t \in Seq(Bytes), x \in Seq(Bytes), y \in Seq(Bytes),
                   z \in Seq(Bytes) : h = c.hashed /\ t = T /\ x = X /\ y = Y /\ z = Z
          BY <3>1
        <5>2. Cat(Cat(h, t), Cat(x, Cat(y, z))) = Cat(Cat(Cat(h, Cat(t, x)), y), z)
          BY CatRegroup
        <5> QED BY <5>1, <5>2
      <4>4. Cat(f, input) = Cat(Cat(before, Y), kept)
        BY <3>2, <4>1, <4>3, Zenon
      <4> QED BY <4>2, <4>4 DEF kept, Cat
    <3>4. CASE ~fills
      <4>1. before = c.hashed /\ kept = Cat(T, Z)
        BY <3>2, <3>4
      <4>2. X = << >>
        BY <2>6, <2>9, <3>4, EmptySeq
      <4>3. T = << >> \/ Y = << >>
        <5>1. Len(T) = 0 \/ Len(Y) = 0
          BY <2>2, <2>5, <2>6, <2>9, <3>4
        <5> QED BY <3>1, <5>1, EmptySeq
      <4>4. Cat(Cat(c.hashed, T), Cat(<< >>, Cat(Y, Z))) = Cat(Cat(c.hashed, Y), Cat(T, Z))
        <5>1. PICK h \in Seq(Bytes), t \in Seq(Bytes), y \in Seq(Bytes), z \in Seq(Bytes) :
                   h = c.hashed /\ t = T /\ y = Y /\ z = Z
          BY <3>1
        <5>2. t = << >> \/ y = << >>
          BY <4>3, <5>1
        <5>3. Cat(Cat(h, t), Cat(<< >>, Cat(y, z))) = Cat(Cat(h, y), Cat(t, z))
          BY <5>2, CatSwap
        <5> QED BY <5>1, <5>3
      <4>5. Cat(f, input) = Cat(Cat(before, Y), kept)
        BY <3>2, <4>1, <4>2, <4>4, Zenon
      <4> QED BY <3>1, <4>1, <4>5 DEF kept, Cat
    <3> QED BY <3>3, <3>4
  <2>13. \E q \in Nat : Len(before \o Y) = q * B
    <3>1. PICK q \in Nat : Len(c.hashed) = q * B
      BY DEF Holds
    <3>2. PICK w \in Nat : Len(Y) = w * B
      <4>1. PICK w \in Nat : n - first - rest = w * B
        BY <2>2
      <4> QED BY <2>6, <4>1
    <3>3. Len(before \o Y) = Len(before) + Len(Y)
      BY <2>6, <2>12, ConcatProperties
    <3>4. PICK r \in Nat : Len(before) = r * B
      <4>1. CASE fills
        <5>1. topped \in Seq(Bytes) /\ Len(topped) = B
          BY <2>7, WholeBuffer
        <5>2. Len(before) = Len(c.hashed) + B
          BY <2>1, <2>8, <4>1, <5>1, ConcatProperties, ZenonT(90)
        <5>3. (q + 1) * B = q * B + B /\ q + 1 \in Nat
          BY <2>9, <3>1
        <5> QED BY <3>1, <5>2, <5>3
      <4>2. CASE ~fills
        BY <2>8, <3>1, <4>2
      <4> QED BY <4>1, <4>2
    <3>5. r + w \in Nat /\ (r + w) * B = r * B + w * B
      BY <2>9, <3>2, <3>4
    <3> QED BY <3>2, <3>3, <3>4, <3>5
  <2> DEFINE u == sha1_update(c, input)
  <2>14. /\ u.total0 = total0(c, n) /\ u.total1 = total1(c, n) /\ u.buffer = buffer
         /\ u.hashed = before \o Y
    BY <2>3
  <2>15. u \in Contexts
    <3>1. before \o Y \in Seq(Bytes)
      BY <2>6, <2>12, ConcatProperties
    <3> QED BY <2>3, <2>4, <2>7, <3>1 DEF Contexts
  <2>16. Len(f \o input) = Len(f) + n
    BY <2>8, ConcatProperties
  <2>17. u.total1 * Word + u.total0 = Len(f \o input)
    <3>1. c.total1 * Word + c.total0 = Len(f)
      BY DEF Holds
    <3> QED BY <2>4, <2>14, <2>16, <3>1
  <2> HIDE DEF u
  <2>18. Holds(u, f \o input)
    BY <2>4, <2>12, <2>13, <2>14, <2>17 DEF Holds
  <2> QED BY <2>15, <2>18 DEF u
<1> QED BY <1>1, <1>2, <1>3

-----------------------------------------------------------------------------
(* sha1_finish.                                                            *)

(* The length field holds the bits of the whole text, modulo both words    *)
(* (lines 264-269).                                                        *)
LEMMA FieldValue ==
    ASSUME NEW c \in Contexts, NEW l \in Nat, c.total1 * Word + c.total0 = l
    PROVE  msglen(c) = (8 * l) % (Word * Word) /\ msglen(c) \in Nat
<1>1. PICK W \in Nat, t0 \in Nat, t1 \in Nat :
         W = Word /\ t0 = c.total0 /\ t1 = c.total1 /\ W # 0 /\ t0 < W
  <2>1. Word \in Nat \ {0}
    BY BlockAssumption
  <2>2. c.total0 \in 0..(Word - 1) /\ c.total1 \in Nat
    BY DEF Contexts
  <2> QED BY <2>1, <2>2
<1>2. PICK J \in Nat \ {0} : W = 8 * J /\ W \div 8 = J
  <2>1. W % 8 = 0 /\ W \div 8 \in Nat /\ W = (W \div 8) * 8 + (W % 8)
    BY <1>1, BlockAssumption
  <2>2. PICK J \in Nat : J = W \div 8
    BY <2>1
  <2> QED BY <1>1, <2>1, <2>2
<1>3. PICK a \in Nat, b \in 0..(J - 1) : t0 = a * J + b /\ t0 \div J = a
  <2>1. /\ t0 \div J \in Nat
        /\ t0 % J \in 0..(J - 1)
        /\ t0 = (t0 \div J) * J + (t0 % J)
    BY <1>2, Division
  <2> QED BY <2>1
<1>4. PICK h \in Nat : h = a + t1 * 8
  OBVIOUS
<1>5. t0 * 8 = a * W + 8 * b /\ 8 * b \in 0..(W - 1)
  <2>1. t0 * 8 = a * (8 * J) + 8 * b
    BY <1>2, <1>3
  <2> QED BY <1>2, <2>1
<1>6. (t0 * 8) % W = 8 * b
  <2>1. PICK x \in Nat, r \in 0..(W - 1) : x = t0 * 8 /\ r = 8 * b
    BY <1>1, <1>5
  <2>2. W \in Nat \ {0} /\ a \in Nat /\ x = a * W + r
    BY <1>1, <1>3, <1>5, <2>1
  <2>3. x % W = r
    BY <2>2, Remainder
  <2> QED BY <2>1, <2>3
<1>7. 8 * l = h * W + 8 * b
  <2>1. l = t1 * W + t0
    BY <1>1
  <2>2. h * W = a * W + (t1 * 8) * W
    BY <1>4
  <2> QED BY <1>5, <2>1, <2>2
<1>8. PICK k \in Nat, m \in 0..(W - 1) : h = k * W + m /\ m = h % W
  BY <1>1, <1>4, Division, ZenonT(90)
<1>9. PICK v \in Nat : v = m * W + 8 * b
  BY <1>5
<1>10. msglen(c) = v
  BY <1>1, <1>2, <1>3, <1>4, <1>6, <1>8, <1>9 DEF msglen
<1>11. PICK Q \in Nat \ {0} : Q = W * W
  BY <1>1
<1>12. v \in 0..(Q - 1)
  <2>1. m * W <= (W - 1) * W
    BY <1>1
  <2>2. (W - 1) * W = Q - W
    BY <1>11
  <2> QED BY <1>5, <1>9, <2>1, <2>2
<1>13. 8 * l = k * Q + v
  <2>1. h * W = (k * W) * W + m * W
    BY <1>8
  <2>2. (k * W) * W = k * Q
    BY <1>11
  <2> QED BY <1>7, <1>9, <2>1, <2>2
<1>14. (8 * l) % Q = v
  <2>1. PICK x \in Nat : x = 8 * l
    OBVIOUS
  <2>2. Q \in Nat \ {0} /\ x \in Nat /\ k \in Nat /\ v \in 0..(Q - 1) /\ x = k * Q + v
    BY <1>12, <1>13, <2>1
  <2>3. x % Q = v
    BY <2>2, Remainder
  <2> QED BY <2>1, <2>3
<1> QED BY <1>1, <1>10, <1>11, <1>14

(* The padding ends where the length field fills the last block            *)
(* (lines 271-272).                                                        *)
LEMMA PadFits ==
    ASSUME NEW c \in Contexts
    PROVE  /\ padn(c) \in 1..B
           /\ \E k \in {1, 2} : Left(c) + padn(c) + LenBytes = k * B
<1>1. B \in Nat \ {0} /\ LenBytes \in 1..(B - 1) /\ Left(c) \in 0..(B - 1)
  BY BlockAssumption, LeftIsPlace
<1>2. padn(c) = IF Left(c) < B - LenBytes THEN B - LenBytes - Left(c)
                ELSE 2 * B - LenBytes - Left(c)
  BY DEF padn, Left
<1>3. Left(c) + padn(c) + LenBytes = 1 * B \/ Left(c) + padn(c) + LenBytes = 2 * B
  BY <1>1, <1>2
<1> QED BY <1>1, <1>2, <1>3

LEMMA PadEndsBlock ==
    ASSUME NEW c \in Contexts, NEW l \in Nat, NEW p \in Nat, l = p * B + Left(c)
    PROVE  /\ \E q \in Nat : l + padn(c) + LenBytes = q * B
           /\ (l + padn(c) + LenBytes) % B = 0
<1>1. B \in Nat \ {0} /\ LenBytes \in Nat /\ Left(c) \in Nat /\ padn(c) \in Nat
  BY BlockAssumption, LeftIsPlace, PadFits
<1>2. PICK m \in {1, 2} : Left(c) + padn(c) + LenBytes = m * B
  BY PadFits
<1>3. PICK q \in Nat : q = p + m
  BY <1>2
<1>4. q * B = p * B + m * B /\ p * B \in Nat /\ m * B \in Nat
  BY <1>1, <1>2, <1>3
<1>5. PICK x \in Nat : x = l + padn(c) + LenBytes
  BY <1>1
<1>6. x = q * B
  <2>1. PICK y \in Nat, z \in Nat : y = p * B /\ z = m * B /\ q * B = y + z
    BY <1>4
  <2>2. PICK i \in Nat, j \in Nat, k \in Nat : i = Left(c) /\ j = padn(c) /\ k = LenBytes
    BY <1>1
  <2>3. l = y + i /\ i + j + k = z /\ x = l + j + k
    BY <1>2, <1>5, <2>1, <2>2
  <2>4. x = y + z
    BY <2>3
  <2> QED BY <2>1, <2>4
<1>7. PICK r \in 0..(B - 1) : r = 0
  BY <1>1
<1>8. x = q * B + r
  BY <1>1, <1>4, <1>6, <1>7
<1>9. x % B = r
  <2>1. B \in Nat \ {0} /\ x \in Nat /\ q \in Nat /\ r \in 0..(B - 1)
    BY <1>1, <1>3, <1>5, <1>7
  <2> QED BY <1>8, <2>1, Remainder, ZenonT(90)
<1> QED BY <1>5, <1>6, <1>7, <1>9

Zeros(z) == [i \in 1..z |-> Zero]

LEMMA PaddingIsOneZeros ==
    ASSUME NEW k \in 1..B
    PROVE  /\ << One >> \in Seq(Bytes) /\ Zeros(k - 1) \in Seq(Bytes)
           /\ SubSeq(sha1_padding, 1, k) \in Seq(Bytes)
           /\ Len(SubSeq(sha1_padding, 1, k)) = k
           /\ SubSeq(sha1_padding, 1, k) = << One >> \o Zeros(k - 1)
<1>1. B \in Nat \ {0}
  BY BlockAssumption
<1>2. One \in Bytes /\ Zero \in Bytes
  BY DEF One, Zero, ByteOf, Bytes
<1> HIDE DEF Bytes
<1>3. sha1_padding \in [1..B -> Bytes] /\ \A i \in 1..B : sha1_padding[i] = IF i = 1 THEN One ELSE Zero
  BY <1>2 DEF sha1_padding
<1>4. PICK z \in Nat : z = k - 1
  BY <1>1
<1>5. /\ << One >> \in Seq(Bytes) /\ Len(<< One >>) = 1 /\ << One >>[1] = One
      /\ Zeros(z) \in Seq(Bytes) /\ Len(Zeros(z)) = z
      /\ \A i \in 1..z : Zeros(z)[i] = Zero
  BY <1>2, <1>4 DEF Zeros
<1>6. k \in 0..B /\ k = Len(<< One >>) + Len(Zeros(z))
  BY <1>1, <1>4, <1>5
<1>7. \A i \in 1..Len(<< One >>) : sha1_padding[i] = << One >>[i]
  BY <1>1, <1>3, <1>5
<1>8. \A i \in 1..Len(Zeros(z)) : sha1_padding[Len(<< One >>) + i] = Zeros(z)[i]
  <2>1. ASSUME NEW i \in 1..z PROVE sha1_padding[1 + i] = Zero
    <3>1. PICK m \in 1..B : m = 1 + i /\ m # 1
      BY <1>1, <1>4
    <3> QED BY <1>3, <3>1
  <2> QED BY <1>5, <2>1
<1>9. SubSeq(sha1_padding, 1, k) = << One >> \o Zeros(z)
  BY <1>3, <1>5, <1>6, <1>7, <1>8, Joined
<1>10. /\ SubSeq(sha1_padding, 1, k) \in Seq(Bytes)
       /\ Len(SubSeq(sha1_padding, 1, k)) = k
  <2>1. k \in Nat /\ \A i \in 1..k : sha1_padding[i] \in Bytes
    <3>1. k \in Nat /\ \A i \in 1..k : i \in 1..B
      BY <1>1
    <3> QED BY <1>3, <3>1
  <2> QED BY <2>1, Prefix
<1> QED BY <1>4, <1>5, <1>9, <1>10

LEMMA FieldIsBytes ==
    ASSUME NEW v \in Nat
    PROVE  Field(v) \in Seq(Bytes) /\ Len(Field(v)) = LenBytes
<1>1. LenBytes \in Nat
  BY BlockAssumption
<1>2. \A i \in 1..LenBytes : [of |-> "length", at |-> i, value |-> v] \in Bytes
  BY <1>1 DEF Bytes
<1> HIDE DEF Bytes
<1> QED BY <1>1, <1>2 DEF Field

(* sha1_finish pads the text that was fed (lines 258-282).                 *)
LEMMA FinishPads ==
    ASSUME NEW c \in Contexts, NEW f \in Seq(Bytes), Holds(c, f)
    PROVE  /\ sha1_finish(c) \in Contexts
           /\ \E q \in Nat : Len(sha1_finish(c).hashed) = q * B
           /\ IsPadded(sha1_finish(c).hashed, f)
<1>1. B \in Nat \ {0} /\ LenBytes \in 1..(B - 1) /\ Word \in Nat /\ B < Word
  BY BlockAssumption
<1>2. PICK l \in Nat : l = Len(f)
  BY LenProperties
<1>3. PICK v \in Nat : v = msglen(c) /\ v = (8 * l) % (Word * Word)
  <2>1. c.total1 * Word + c.total0 = l
    BY <1>2 DEF Holds
  <2> QED BY <1>2, <2>1, FieldValue
<1>4. PICK k \in 1..B : k = padn(c)
  BY PadFits
<1>5. PICK pad \in Seq(Bytes) : pad = SubSeq(sha1_padding, 1, k) /\ Len(pad) = k
  BY PaddingIsOneZeros
<1>6. PICK field \in Seq(Bytes) : field = Field(v) /\ Len(field) = LenBytes
  BY FieldIsBytes
<1>7. PICK d : d = sha1_update(c, pad)
  OBVIOUS
<1>8. d \in Contexts /\ Holds(d, f \o pad)
  <2>1. Len(pad) < Word
    BY <1>1, <1>4, <1>5
  <2> QED BY <1>7, <2>1, UpdateHolds
<1>9. PICK g \in Seq(Bytes) : g = f \o pad /\ Len(g) = l + k
  <2>1. f \o pad \in Seq(Bytes) /\ Len(f \o pad) = Len(f) + Len(pad)
    BY ConcatProperties
  <2> QED BY <1>2, <1>5, <2>1
<1>10. PICK e : e = sha1_update(d, field)
  OBVIOUS
<1>11. e \in Contexts /\ Holds(e, g \o field)
  <2>1. Len(field) < Word
    BY <1>1, <1>6
  <2> QED BY <1>8, <1>9, <1>10, <2>1, UpdateHolds
<1>12. e = sha1_finish(c)
  BY <1>3, <1>4, <1>5, <1>6, <1>7, <1>10 DEF sha1_finish
<1>13. PICK q \in Nat : l + k + LenBytes = q * B /\ (l + k + LenBytes) % B = 0
  <2>1. PICK p \in Nat : Len(c.hashed) = p * B
    BY DEF Holds
  <2>2. /\ c.hashed \in Seq(Bytes)
        /\ \A i \in 1..Left(c) : c.buffer[i] \in Bytes
        /\ Left(c) \in Nat
    <3>1. c.buffer \in [1..B -> Bytes] /\ c.hashed \in Seq(Bytes) /\ Left(c) \in 0..(B - 1)
      BY LeftIsPlace DEF Contexts
    <3>2. Left(c) \in Nat /\ \A i \in 1..Left(c) : i \in 1..B
      BY <1>1, <3>1
    <3> QED BY <3>1, <3>2
  <2>3. PICK T \in Seq(Bytes) : T = SubSeq(c.buffer, 1, Left(c)) /\ Len(T) = Left(c)
    BY <2>2, Prefix, ZenonT(90)
  <2>4. f = c.hashed \o T
    BY <2>3 DEF Holds, Left
  <2>5. l = p * B + Left(c)
    <3>1. Len(c.hashed \o T) = Len(c.hashed) + Len(T)
      BY <2>2, ConcatProperties
    <3> QED BY <1>2, <2>1, <2>3, <2>4, <3>1
  <2> QED BY <1>4, <2>5, PadEndsBlock
<1>14. e.hashed = g \o field /\ \E p \in Nat : Len(e.hashed) = p * B
  <2>1. PICK p \in Nat : Len(e.hashed) = p * B
    BY <1>11 DEF Holds
  <2>2. PICK r \in 0..(B - 1) : r = e.total0 % B
    BY <1>11, LeftIsPlace DEF Left
  <2>3. /\ e.hashed \in Seq(Bytes)
        /\ \A i \in 1..r : e.buffer[i] \in Bytes
        /\ r \in Nat
    <3>1. e.buffer \in [1..B -> Bytes] /\ e.hashed \in Seq(Bytes)
      BY <1>11 DEF Contexts
    <3>2. r \in Nat /\ \A i \in 1..r : i \in 1..B
      BY <1>1
    <3> QED BY <3>1, <3>2
  <2>4. PICK T \in Seq(Bytes) : T = SubSeq(e.buffer, 1, r) /\ Len(T) = r
    BY <2>3, Prefix, ZenonT(90)
  <2>5. g \o field = e.hashed \o T
    BY <1>11, <2>2, <2>4 DEF Holds
  <2>6. q * B = p * B + r
    <3>1. Len(g \o field) = Len(g) + Len(field)
      BY ConcatProperties
    <3>2. Len(e.hashed \o T) = Len(e.hashed) + Len(T)
      BY <2>3, ConcatProperties
    <3>3. Len(g \o field) = l + k + LenBytes
      BY <1>6, <1>9, <3>1
    <3> QED BY <1>13, <2>1, <2>4, <2>5, <3>2, <3>3
  <2>7. r = 0
    <3>1. 0 \in 0..(B - 1) /\ q * B + 0 = p * B + r /\ p \in Int /\ q \in Int
      BY <1>1, <2>6
    <3> QED BY <1>1, <3>1, DivisionUnique
  <2>8. T = << >>
    BY <2>4, <2>7, EmptySeq
  <2>9. e.hashed \o T = e.hashed
    BY <2>3, <2>8, ConcatEmptySeq
  <2> QED BY <2>1, <2>5, <2>9
<1>15. g \o field = f \o << One >> \o Zeros(k - 1) \o Field(v)
  <2>1. PICK o \in Seq(Bytes), z \in Seq(Bytes) :
           o = << One >> /\ z = Zeros(k - 1) /\ pad = o \o z
    BY <1>5, PaddingIsOneZeros
  <2>2. (f \o o) \o z = f \o (o \o z)
    <3>1. Cat(Cat(f, o), z) = Cat(f, Cat(o, z))
      BY CatAssociates
    <3> QED BY <3>1 DEF Cat
  <2> QED BY <1>6, <1>9, <2>1, <2>2
<1>16. PICK z \in 0..(B - 1) : z = k - 1
  BY <1>1
<1>17. (Len(f) + 1 + z + LenBytes) % B = 0
  <2>1. 1 + z = k /\ Len(f) + 1 + z = l + k
    BY <1>1, <1>2, <1>16
  <2> QED BY <1>13, <2>1
<1>18. IsPadded(e.hashed, f)
  BY <1>2, <1>3, <1>14, <1>15, <1>16, <1>17 DEF IsPadded, Zeros
<1> QED BY <1>11, <1>12, <1>14, <1>18

-----------------------------------------------------------------------------
(* The invariant.  NothingLost is not inductive alone: that the processed  *)
(* part is whole blocks and that the count is exact keep the place in the  *)
(* buffer right.                                                           *)
IInv ==
    /\ ctx \in Contexts
    /\ \E q \in Nat : Len(ctx.hashed) = q * B
    /\ text \in Texts
    /\ fed \in Seq(Bytes)
    /\ stage \in {"fresh", "open", "done"}
    /\ stage = "open" => Holds(ctx, fed)
    /\ stage = "done" => IsPadded(ctx.hashed, fed)

LEMMA InitIInv == Init => IInv
<1> SUFFICES ASSUME Init PROVE IInv
  OBVIOUS
<1>1. B \in Nat \ {0} /\ Word \in Nat \ {0}
  BY BlockAssumption
<1>2. Stale \in Bytes
  BY DEF Stale, ByteOf, Bytes
<1>3. << >> \in Seq(Bytes) /\ Len(<< >>) = 0 * B
  BY <1>1, EmptySeq
<1>4. ctx \in Contexts
  BY <1>1, <1>2, <1>3 DEF Init, Contexts
<1>5. Len(ctx.hashed) = 0 * B
  BY <1>3 DEF Init
<1> QED BY <1>3, <1>4, <1>5 DEF Init, IInv

LEMMA StartsIInv ==
    ASSUME IInv, NEW t \in Texts, Starts(t)
    PROVE  IInv'
<1>1. B \in Nat \ {0} /\ Word \in Nat \ {0}
  BY BlockAssumption
<1>2. << >> \in Seq(Bytes) /\ Len(<< >>) = 0 /\ 0 * B = 0 /\ 0 * Word = 0
  BY <1>1, EmptySeq
<1>3. PICK c : c = ctx'
  OBVIOUS
<1>4. /\ c \in Contexts
      /\ c.total0 = 0 /\ c.total1 = 0 /\ c.hashed = << >>
  <2>1. PICK b \in [1..B -> Bytes] : b = ctx.buffer
    BY DEF IInv, Contexts
  <2>2. c = [ctx EXCEPT !.total0 = 0, !.total1 = 0, !.hashed = << >>]
    BY <1>3 DEF Starts, sha1_starts
  <2>3. c = [total0 |-> 0, total1 |-> 0, buffer |-> b, hashed |-> << >>]
    BY <2>1, <2>2 DEF IInv, Contexts
  <2>4. 0 \in 0..(Word - 1) /\ 0 \in Nat
    BY <1>1
  <2> QED BY <1>2, <2>1, <2>3, <2>4 DEF Contexts
<1>5. 0 % B = 0
  BY <1>1
<1>6. SubSeq(c.buffer, 1, 0) = << >>
  BY SubSeqEmpty
<1>7. << >> \o << >> = << >>
  BY <1>2, ConcatEmptySeq
<1>8. Holds(c, << >>)
  <2>1. << >> = c.hashed \o SubSeq(c.buffer, 1, c.total0 % B)
    BY <1>4, <1>5, <1>6, <1>7
  <2>2. Len(c.hashed) = 0 * B
    BY <1>2, <1>4
  <2>3. c.total1 * Word + c.total0 = Len(<< >>)
    BY <1>2, <1>4
  <2> QED BY <2>1, <2>2, <2>3 DEF Holds
<1>9. fed' = << >> /\ text' = t /\ stage' = "open"
  BY DEF Starts
<1>10. \E q \in Nat : Len(c.hashed) = q * B
  BY <1>8 DEF Holds
<1> QED BY <1>2, <1>3, <1>4, <1>8, <1>9, <1>10 DEF IInv

LEMMA UpdateIInv ==
    ASSUME IInv, NEW n \in 0..MaxChunk, Update(n)
    PROVE  IInv'
<1>1. n \in Nat /\ n < Word
  BY BlockAssumption, BoundsAssumption
<1>2. PICK l \in Nat : l = Len(fed)
  BY LenProperties DEF IInv
<1>3. PICK input : input = [i \in 1..n |-> ByteOf(text, l + i)]
  OBVIOUS
<1>4. input \in Seq(Bytes) /\ Len(input) = n
  <2>1. \A i \in 1..n : ByteOf(text, l + i) \in Bytes
    BY <1>1, <1>2 DEF IInv, ByteOf, Bytes
  <2> HIDE DEF Bytes
  <2> QED BY <1>1, <1>3, <2>1
<1>5. PICK c \in Contexts, f \in Seq(Bytes) : c = ctx /\ f = fed /\ Holds(c, f)
  BY DEF IInv, Update
<1>6. /\ sha1_update(c, input) \in Contexts
      /\ Holds(sha1_update(c, input), f \o input)
  <2>1. PICK i \in Seq(Bytes) : i = input /\ Len(i) < Word
    BY <1>1, <1>4
  <2>2. Holds(c, f)
    BY <1>5
  <2>3. sha1_update(c, i) \in Contexts /\ Holds(sha1_update(c, i), f \o i)
    BY <2>1, <2>2, UpdateHolds
  <2> QED BY <2>1, <2>3
<1>7. f \o input \in Seq(Bytes)
  BY <1>4, ConcatProperties
<1>8. /\ ctx' = sha1_update(c, input) /\ fed' = f \o input
      /\ text' = text /\ stage' = "open"
  BY <1>2, <1>3, <1>5 DEF Update
<1>9. \E q \in Nat : Len(ctx'.hashed) = q * B
  BY <1>6, <1>8 DEF Holds
<1>10. Holds(ctx', fed')
  BY <1>6, <1>8
<1> QED BY <1>6, <1>7, <1>8, <1>9, <1>10 DEF IInv, Holds

LEMMA FinishIInv ==
    ASSUME IInv, Finish
    PROVE  IInv'
<1>1. PICK c \in Contexts, f \in Seq(Bytes) : c = ctx /\ f = fed /\ Holds(c, f)
  BY DEF IInv, Finish
<1>2. /\ sha1_finish(c) \in Contexts
      /\ \E q \in Nat : Len(sha1_finish(c).hashed) = q * B
      /\ IsPadded(sha1_finish(c).hashed, f)
  BY <1>1, FinishPads
<1>3. /\ ctx' = sha1_finish(c) /\ fed' = f /\ text' = text /\ stage' = "done"
  BY <1>1 DEF Finish
<1>4. IsPadded(ctx'.hashed, fed')
  BY <1>2, <1>3
<1> QED BY <1>1, <1>2, <1>3, <1>4 DEF IInv, IsPadded

LEMMA StepIInv == IInv /\ [Next]_vars => IInv'
<1> SUFFICES ASSUME IInv, [Next]_vars PROVE IInv'
  OBVIOUS
<1>1. ASSUME NEW t \in Texts, Starts(t) PROVE IInv'
  BY <1>1, StartsIInv
<1>2. ASSUME NEW n \in 0..MaxChunk, Update(n) PROVE IInv'
  BY <1>2, UpdateIInv
<1>3. CASE Finish
  BY <1>3, FinishIInv
<1>4. CASE UNCHANGED vars
  BY <1>4 DEF IInv, vars, Holds, IsPadded
<1> QED BY <1>1, <1>2, <1>3, <1>4 DEF Next

(* In every reachable state the context holds the text so far, or the      *)
(* digest of the padded text.                                              *)
THEOREM InvariantHolds == Spec => []IInv
<1>1. Init => IInv
  BY InitIInv
<1>2. IInv /\ [Next]_vars => IInv'
  BY StepIInv
<1> QED BY <1>1, <1>2, PTL DEF Spec

(* The context keeps its shape, and sha1_process runs on whole blocks.     *)
THEOREM TypeCorrect == Spec => []TypeOK
<1>1. IInv => TypeOK
  <2> SUFFICES ASSUME IInv PROVE TypeOK
    OBVIOUS
  <2>1. Len(ctx.hashed) % B = 0
    <3>1. PICK q \in Nat : Len(ctx.hashed) = q * B
      BY DEF IInv
    <3>2. PICK x \in Nat : x = Len(ctx.hashed)
      BY LenProperties DEF IInv, Contexts
    <3>3. PICK r \in 0..(B - 1) : r = 0
      BY BlockAssumption
    <3>4. x = q * B + r
      <4>1. q * B + 0 = q * B
        BY BlockAssumption
      <4> QED BY <3>1, <3>2, <3>3, <4>1
    <3>5. x % B = r
      <4>1. B \in Nat \ {0} /\ x \in Nat /\ q \in Nat /\ r \in 0..(B - 1)
        BY BlockAssumption, <3>1, <3>2, <3>3
      <4> QED BY <3>4, <4>1, Remainder
    <3> QED BY <3>2, <3>3, <3>5
  <2> QED BY <2>1 DEF IInv, TypeOK
<1> QED BY <1>1, InvariantHolds, PTL

(* No byte of a text is lost, doubled, stale or out of place, for every    *)
(* block size and every way to cut the text into calls.                    *)
THEOREM NothingIsLost == Spec => []NothingLost
<1>1. IInv => NothingLost
  BY DEF IInv, NothingLost, Holds
<1> QED BY <1>1, InvariantHolds, PTL

(* The count in two words is exact, whenever the low word wraps.           *)
THEOREM CountIsExact == Spec => []CountExact
<1>1. IInv => CountExact
  BY DEF IInv, CountExact, Holds
<1> QED BY <1>1, InvariantHolds, PTL

(* The digest is that of the padded text, for a text of every length.      *)
THEOREM DigestIsOfPaddedText == Spec => []DigestIsPadded
<1>1. IInv => DigestIsPadded
  BY DEF IInv, DigestIsPadded
<1> QED BY <1>1, InvariantHolds, PTL

LEMMA TextIsFed == IInv => TextHeld = fed /\ fed \in Seq(Bytes)
  BY DEF IInv, Holds, TextHeld

LEMMA SaysMore ==
    ASSUME IInv, NEW n \in 0..MaxChunk, Update(n)
    PROVE  Len(fed) <= Len(fed') /\ SubSeq(fed', 1, Len(fed)) = fed
<1>1. n \in Nat
  BY BoundsAssumption, BlockAssumption
<1>2. PICK l \in Nat : l = Len(fed)
  BY LenProperties DEF IInv
<1>3. PICK input : input = [i \in 1..n |-> ByteOf(text, l + i)]
  OBVIOUS
<1>4. input \in Seq(Bytes)
  <2>1. \A i \in 1..n : ByteOf(text, l + i) \in Bytes
    BY <1>1, <1>2 DEF IInv, ByteOf, Bytes
  <2> HIDE DEF Bytes
  <2> QED BY <1>1, <1>3, <2>1
<1>5. fed' = fed \o input /\ fed \in Seq(Bytes)
  BY <1>2, <1>3 DEF Update, IInv
<1> QED BY <1>4, <1>5

(* The context implements the abstract digest, for every block size, every *)
(* way to cut a text into calls and every use after an earlier one: what a *)
(* caller of sha1_starts, sha1_update and sha1_finish may rely on.         *)
THEOREM RefinesDigest == Spec => ImplementsDigest
<1>1. Init => Abstract!Init
  BY DEF Init, Abstract!Init, TextHeld, DigestHeld
<1>2. IInv /\ IInv' /\ [Next]_vars => [Abstract!Next]_(Abstract!digestVars)
  <2> SUFFICES ASSUME IInv, IInv', [Next]_vars
               PROVE  [Abstract!Next]_(Abstract!digestVars)
    OBVIOUS
  <2>1. TextHeld = fed /\ fed \in Seq(Bytes) /\ TextHeld' = fed'
    BY TextIsFed DEF IInv, Holds, TextHeld
  <2>2. ASSUME NEW t \in Texts, Starts(t) PROVE Abstract!Start
    BY <2>1, <2>2 DEF Starts, Abstract!Start, DigestHeld
  <2>3. ASSUME NEW n \in 0..MaxChunk, Update(n) PROVE Abstract!Says
    BY <2>1, <2>3, SaysMore DEF Update, Abstract!Says, DigestHeld
  <2>4. ASSUME Finish PROVE Abstract!Finish
    <3>1. stage = "open" /\ stage' = "done" /\ fed' = fed
      BY <2>4 DEF Finish
    <3>2. IsPadded(ctx'.hashed, fed)
      BY <3>1 DEF IInv, IsPadded
    <3> QED BY <2>1, <3>1, <3>2 DEF Abstract!Finish, DigestHeld
  <2>5. CASE UNCHANGED vars
    BY <2>5 DEF vars, Abstract!digestVars, TextHeld, DigestHeld
  <2> QED BY <2>2, <2>3, <2>4, <2>5 DEF Next, Abstract!Next
<1> QED BY <1>1, <1>2, InvariantHolds, PTL DEF Spec, ImplementsDigest, Abstract!Spec
=============================================================================
