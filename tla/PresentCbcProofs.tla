-------------------------- MODULE PresentCbcProofs --------------------------
(***************************************************************************)
(* What holds of the cipher and its chain for every key, every text, and   *)
(* every pair of S-boxes and bit permutation that undo each other.         *)
(***************************************************************************)
EXTENDS PresentCbc, SequenceTheorems, WellFoundedInduction, TLAPS

USE DEF Bit, Nibble, Digits, Word

-----------------------------------------------------------------------------
(* Operators of PresentCipher.                                             *)

LEMMA XorBitTwice ==
    \A a, b \in Bit : /\ XorBit(a, b) \in Bit
                      /\ XorBit(XorBit(a, b), b) = a
                      /\ XorBit(a, XorBit(a, b)) = b
  BY DEF XorBit

LEMMA XorWordType == \A v, w \in Word : XorWord(v, w) \in Word
  BY XorBitTwice DEF XorWord

LEMMA XorWordTwice ==
    \A v, w \in Word : /\ XorWord(XorWord(v, w), w) = v
                       /\ XorWord(v, XorWord(v, w)) = w
  <1> SUFFICES ASSUME NEW v \in Word, NEW w \in Word
               PROVE  /\ XorWord(XorWord(v, w), w) = v
                      /\ XorWord(v, XorWord(v, w)) = w
    OBVIOUS
  <1>1. /\ XorWord(XorWord(v, w), w) = [p \in 0..63 |-> v[p]]
        /\ XorWord(v, XorWord(v, w)) = [p \in 0..63 |-> w[p]]
    BY XorBitTwice DEF XorWord
  <1> QED BY <1>1

LEMMA Places ==
    /\ \A p \in 0..63 : /\ p \div 4 \in 0..15 /\ p % 4 \in 0..3
                        /\ p = 4 * (p \div 4) + (p % 4)
    /\ \A n \in 0..15, q \in 0..3 :
           4 * n + q \in 0..63 /\ (4 * n + q) \div 4 = n /\ (4 * n + q) % 4 = q
  <1>1. \A p \in 0..63 : /\ p \div 4 \in 0..15 /\ p % 4 \in 0..3
                         /\ p = 4 * (p \div 4) + (p % 4)
    BY SMTT(30)
  <1>2. ASSUME NEW n \in 0..15, NEW q \in 0..3
        PROVE  4 * n + q \in 0..63 /\ (4 * n + q) \div 4 = n /\ (4 * n + q) % 4 = q
    <2>1. PICK m \in 0..63 : m = 4 * n + q OBVIOUS
    <2>2. m \div 4 = n BY <2>1
    <2>3. m % 4 = q BY <2>1
    <2> QED BY <2>1, <2>2, <2>3
  <1> QED BY <1>1, <1>2

LEMMA DigitOfType == \A w \in Word : \A n \in 0..15 : DigitOf(w, n) \in Nibble
  BY DEF DigitOf

LEMMA BitOfType == \A d \in Nibble : \A q \in 0..3 : BitOf(d, q) \in Bit
  <1> TAKE d \in Nibble
  <1>1. BitOf(d, 0) \in Bit BY DEF BitOf
  <1>2. BitOf(d, 1) \in Bit BY DEF BitOf
  <1>3. BitOf(d, 2) \in Bit BY DEF BitOf
  <1>4. BitOf(d, 3) \in Bit BY DEF BitOf
  <1>5. \A q \in 0..3 : q = 0 \/ q = 1 \/ q = 2 \/ q = 3 OBVIOUS
  <1> QED BY <1>1, <1>2, <1>3, <1>4, <1>5

(* The four bits of a digit make the digit, and it is made of them.        *)
LEMMA FourBits ==
    /\ \A d \in Nibble :
           8 * BitOf(d, 0) + 4 * BitOf(d, 1) + 2 * BitOf(d, 2) + BitOf(d, 3) = d
    /\ \A a, b, c, e \in Bit :
           /\ BitOf(8 * a + 4 * b + 2 * c + e, 0) = a
           /\ BitOf(8 * a + 4 * b + 2 * c + e, 1) = b
           /\ BitOf(8 * a + 4 * b + 2 * c + e, 2) = c
           /\ BitOf(8 * a + 4 * b + 2 * c + e, 3) = e
  BY DEF BitOf

LEMMA FromBytesType == \A d \in Digits : fromBytesToLong(d) \in Word
  BY Places, BitOfType DEF fromBytesToLong

LEMMA ToBytesType == \A w \in Word : fromLongToBytes(w) \in Digits
  BY DigitOfType DEF fromLongToBytes

LEMMA DigitsBack == \A d \in Digits : \A n \in 0..15 : DigitOf(fromBytesToLong(d), n) = d[n]
  <1> TAKE d \in Digits
  <1> TAKE n \in 0..15
  <1> DEFINE w == fromBytesToLong(d)
  <1>1. /\ w[4 * n] = BitOf(d[n], 0)
        /\ w[4 * n + 1] = BitOf(d[n], 1)
        /\ w[4 * n + 2] = BitOf(d[n], 2)
        /\ w[4 * n + 3] = BitOf(d[n], 3)
    <2>1. \A q \in 0..3 : w[4 * n + q] = BitOf(d[n], q)
      BY Places DEF fromBytesToLong
    <2> QED BY <2>1
  <1>2. d[n] \in Nibble OBVIOUS
  <1> QED BY <1>1, <1>2, FourBits DEF DigitOf

LEMMA WordBack == \A w \in Word : fromBytesToLong(fromLongToBytes(w)) = w
  <1> TAKE w \in Word
  <1>1. ASSUME NEW p \in 0..63 PROVE BitOf(DigitOf(w, p \div 4), p % 4) = w[p]
    <2>1. PICK n \in 0..15, q \in 0..3 : p = 4 * n + q /\ p \div 4 = n /\ p % 4 = q
      BY Places
    <2>2. PICK a, b, c, e \in Bit :
             /\ w[4 * n] = a /\ w[4 * n + 1] = b /\ w[4 * n + 2] = c /\ w[4 * n + 3] = e
             /\ DigitOf(w, n) = 8 * a + 4 * b + 2 * c + e
      <3>1. /\ w[4 * n] \in Bit /\ w[4 * n + 1] \in Bit
            /\ w[4 * n + 2] \in Bit /\ w[4 * n + 3] \in Bit
        OBVIOUS
      <3> QED BY <3>1 DEF DigitOf
    <2>3. /\ BitOf(DigitOf(w, n), 0) = w[4 * n]
          /\ BitOf(DigitOf(w, n), 1) = w[4 * n + 1]
          /\ BitOf(DigitOf(w, n), 2) = w[4 * n + 2]
          /\ BitOf(DigitOf(w, n), 3) = w[4 * n + 3]
      BY <2>2, FourBits
    <2>4. q = 0 \/ q = 1 \/ q = 2 \/ q = 3 OBVIOUS
    <2> QED BY <2>1, <2>3, <2>4
  <1>2. fromBytesToLong(fromLongToBytes(w)) = [p \in 0..63 |-> BitOf(DigitOf(w, p \div 4), p % 4)]
    BY Places DEF fromBytesToLong, fromLongToBytes
  <1>3. w = [p \in 0..63 |-> w[p]] OBVIOUS
  <1> QED BY <1>1, <1>2, <1>3

(* The S-box on all digits, and back.                                      *)
LEMMA SboxBack == \A w \in Word : Sbox(w) \in Word /\ inverseSbox(Sbox(w)) = w
  <1> TAKE w \in Word
  <1> DEFINE d == [n \in 0..15 |-> S[DigitOf(w, n)]]
  <1>1. d \in Digits BY DigitOfType, TablesAssumption
  <1>2. Sbox(w) = fromBytesToLong(d) BY DEF Sbox
  <1>3. \A n \in 0..15 : DigitOf(Sbox(w), n) = S[DigitOf(w, n)]
    BY <1>1, <1>2, DigitsBack
  <1>4. \A n \in 0..15 : invS[DigitOf(Sbox(w), n)] = DigitOf(w, n)
    <2>1. \A n \in 0..15 : invS[S[DigitOf(w, n)]] = DigitOf(w, n)
      BY DigitOfType, TablesAssumption
    <2> QED BY <1>3, <2>1
  <1>5. [n \in 0..15 |-> invS[DigitOf(Sbox(w), n)]] = fromLongToBytes(w)
    BY <1>4 DEF fromLongToBytes
  <1>6. inverseSbox(Sbox(w)) = fromBytesToLong(fromLongToBytes(w))
    BY <1>5 DEF inverseSbox
  <1> QED BY <1>1, <1>2, <1>6, WordBack, FromBytesType

LEMMA InverseSboxType == \A w \in Word : inverseSbox(w) \in Word
  BY DigitOfType, FromBytesType, TablesAssumption DEF inverseSbox

(* permute moves every bit, and inversepermute finds it.                   *)
LEMMA PermuteBack == \A w \in Word : permute(w) \in Word /\ inversepermute(permute(w)) = w
  <1> TAKE w \in Word
  <1>1. permute(w) \in Word BY DEF permute
  <1>2. ASSUME NEW p \in 0..63 PROVE permute(w)[P[p]] = w[p]
    <2>1. P[p] \in 0..63 BY TablesAssumption
    <2>2. \A m \in 0..63 : P[m] = P[p] => m = p BY TablesAssumption
    <2>3. permute(w)[P[p]] = IF w[p] = 1 THEN 1 ELSE 0
      BY <2>1, <2>2 DEF permute
    <2>4. w[p] \in Bit OBVIOUS
    <2> QED BY <2>3, <2>4
  <1>3. inversepermute(permute(w)) = [p \in 0..63 |-> w[p]]
    BY <1>2 DEF inversepermute
  <1> QED BY <1>1, <1>3

LEMMA InversePermuteType == \A w \in Word : inversepermute(w) \in Word
  BY TablesAssumption DEF inversepermute

(* A round of decrypt takes back what a round of present_encrypt did.      *)
LEMMA RoundBack ==
    ASSUME NEW w \in Word, NEW k \in Word, NEW k2 \in Word
    PROVE  /\ EncryptsOnce(w, k) \in Word
           /\ DecryptsOnce(XorWord(EncryptsOnce(w, k), k2), k2) = XorWord(w, k)
  <1>1. XorWord(w, k) \in Word BY XorWordType
  <1>2. Sbox(XorWord(w, k)) \in Word BY <1>1, SboxBack
  <1>3. EncryptsOnce(w, k) \in Word BY <1>2, PermuteBack DEF EncryptsOnce
  <1>4. XorWord(XorWord(EncryptsOnce(w, k), k2), k2) = EncryptsOnce(w, k)
    BY <1>3, XorWordTwice
  <1>5. inversepermute(EncryptsOnce(w, k)) = Sbox(XorWord(w, k))
    BY <1>2, PermuteBack DEF EncryptsOnce
  <1> QED BY <1>1, <1>3, <1>4, <1>5, SboxBack DEF DecryptsOnce

LEMMA DecryptsOnceType == \A w, k \in Word : DecryptsOnce(w, k) \in Word
  BY XorWordType, InversePermuteType, InverseSboxType DEF DecryptsOnce

(* The digits of a text, and the key schedule.                             *)

LEMMA BlockType ==
    ASSUME NEW t \in Texts, NEW b \in Nat \ {0}
    PROVE  Block(t, b) \in Word
  <1>1. t \in Seq(1..127) BY TextsAssumption
  <1>2. ASSUME NEW n \in Nat PROVE HexDigit(t, n) \in Nibble
    <2>1. CASE n >= 2 * Len(t)
      BY <1>1, <2>1 DEF HexDigit
    <2>2. CASE ~(n >= 2 * Len(t))
      <3>1. n \div 2 + 1 \in 1..Len(t) BY <1>1, <2>2
      <3>2. PICK c \in 1..127 : c = t[n \div 2 + 1]
        <4>1. PICK m \in 1..Len(t) : m = n \div 2 + 1 BY <3>1
        <4>2. t[m] \in 1..127 BY <1>1, ElementOfSeq
        <4> QED BY <4>1, <4>2
      <3>3. c \div 16 \in Nibble /\ c % 16 \in Nibble OBVIOUS
      <3> QED BY <2>2, <3>2, <3>3 DEF HexDigit
    <2> QED BY <2>1, <2>2
  <1>3. \A n \in 0..15 : 16 * (b - 1) + n \in Nat OBVIOUS
  <1>4. [n \in 0..15 |-> HexDigit(t, 16 * (b - 1) + n)] \in Digits
    BY <1>2, <1>3
  <1> QED BY <1>4, FromBytesType DEF Block, fromHexStringToLong

LEMMA IVType == IV \in Word
  <1>1. [n \in 0..15 |-> IF n % 2 = 0 THEN 3 ELSE ((n \div 2) % 4) + 1] \in Digits
    OBVIOUS
  <1> QED BY <1>1, FromBytesType DEF IV, fromHexStringToLong

LEMMA NextRegisterType ==
    ASSUME NEW r \in Register, NEW n \in 1..31
    PROVE  NextRegister(r, n) \in Register
  <1> DEFINE s == Shifted(r)
             t == TopDigit(s.high, S[DigitOf(s.high, 0)])
  <1>1. s \in Register /\ DOMAIN s = {"high", "low"}
    BY DEF Shifted, Register
  <1>2. S[DigitOf(s.high, 0)] \in Nibble
    <2>1. s.high \in Word BY <1>1 DEF Register
    <2>2. DigitOf(s.high, 0) \in Nibble BY <2>1, DigitOfType
    <2> QED BY <2>2, TablesAssumption
  <1>3. t \in Word
    <2>1. s.high \in Word BY <1>1 DEF Register
    <2> QED BY <1>2, <2>1, BitOfType DEF TopDigit
  <1>4. [s EXCEPT !.high = t] \in Register BY <1>1, <1>3 DEF Register
  <1>5. \A q \in Register : Counted(q, n) \in Register
    <2>1. ASSUME NEW q \in Register PROVE Counted(q, n) \in Register
      <3>1. q.high \in Word /\ q.low \in [0..15 -> Bit] BY DEF Register
      <3>2. n \div 2 \in Nibble /\ n % 2 \in Bit OBVIOUS
      <3>3. \A p \in 60..63 : BitOf(n \div 2, p - 60) \in Bit
        BY <3>2, BitOfType
      <3>4. [p \in 0..63 |-> IF p >= 60 THEN XorBit(q.high[p], BitOf(n \div 2, p - 60))
                             ELSE q.high[p]] \in Word
        BY <3>1, <3>3, XorBitTwice
      <3>5. [p \in 0..15 |-> IF p = 0 THEN XorBit(q.low[0], n % 2) ELSE q.low[p]]
                \in [0..15 -> Bit]
        BY <3>1, <3>2, XorBitTwice
      <3> QED BY <3>4, <3>5 DEF Counted, Register
    <2> QED BY <2>1
  <1>6. NextRegister(r, n) = Counted([s EXCEPT !.high = t], n)
    BY DEF NextRegister
  <1> QED BY <1>4, <1>5, <1>6

LEMMA OneTurn ==
    ASSUME NEW r \in Register, NEW j \in 1..31
    PROVE  Whole(NextRegister(r, j)) = NextWhole(Whole(r), j)
  <1> DEFINE s == Shifted(r)
             d == S[DigitOf(s.high, 0)]
             n == NextRegister(r, j)
             t == Turned(Whole(r))
  <1>1. /\ \A p \in 0..63 : s.high[p] = t[p]
        /\ \A p \in 0..15 : s.low[p] = t[p + 64]
    <2>1. ASSUME NEW p \in 0..63 PROVE s.high[p] = t[p]
      <3>1. CASE p < 3
        <4>1. (p + 61) % 80 = p + 61 BY <3>1
        <4> QED BY <3>1, <4>1 DEF Shifted, Turned, Whole
      <3>2. CASE p >= 3 /\ p < 19
        <4>1. (p + 61) % 80 = p + 61 BY <3>2
        <4>2. t[p] = Whole(r)[p + 61] BY <4>1 DEF Turned
        <4>3. Whole(r)[p + 61] = r.low[p - 3]
          <5>1. p + 61 \in 0..79 /\ ~(p + 61 < 64) /\ p + 61 - 64 = p - 3 BY <3>2
          <5> QED BY <5>1 DEF Whole
        <4> QED BY <3>2, <4>2, <4>3 DEF Shifted
      <3>3. CASE p >= 19
        <4>1. (p + 61) % 80 = p - 19 BY <3>3
        <4>2. t[p] = Whole(r)[p - 19] BY <4>1 DEF Turned
        <4>3. Whole(r)[p - 19] = r.high[p - 19]
          <5>1. p - 19 \in 0..79 /\ p - 19 < 64 BY <3>3
          <5> QED BY <5>1 DEF Whole
        <4> QED BY <3>3, <4>2, <4>3 DEF Shifted
      <3> QED BY <3>1, <3>2, <3>3
    <2>2. ASSUME NEW p \in 0..15 PROVE s.low[p] = t[p + 64]
      <3>1. (p + 64 + 61) % 80 = p + 45 OBVIOUS
      <3>2. t[p + 64] = Whole(r)[p + 45] BY <3>1 DEF Turned
      <3>3. Whole(r)[p + 45] = r.high[p + 45] BY DEF Whole
      <3> QED BY <3>2, <3>3 DEF Shifted
    <2> QED BY <2>1, <2>2
  <1>2. DigitOf(s.high, 0) = DigitOf(t, 0)
    BY <1>1 DEF DigitOf
  <1>3. n = Counted([s EXCEPT !.high = TopDigit(s.high, d)], j)
    BY DEF NextRegister
  <1>4. DOMAIN s = {"high", "low"} BY DEF Shifted
  <1>5. /\ \A p \in 0..63 : n.high[p] =
             IF p >= 60 THEN XorBit(s.high[p], BitOf(j \div 2, p - 60))
             ELSE IF p < 4 THEN BitOf(d, p) ELSE s.high[p]
        /\ \A p \in 0..15 : n.low[p] = IF p = 0 THEN XorBit(s.low[0], j % 2) ELSE s.low[p]
    <2>1. \A p \in 0..63 : TopDigit(s.high, d)[p] = IF p < 4 THEN BitOf(d, p) ELSE s.high[p]
      BY DEF TopDigit
    <2> DEFINE q == [s EXCEPT !.high = TopDigit(s.high, d)]
    <2>2. q.high = TopDigit(s.high, d) /\ q.low = s.low BY <1>4
    <2>3. n = Counted(q, j) BY <1>3
    <2> HIDE DEF q, n, d, s
    <2>4. /\ \A p \in 0..63 : n.high[p] =
               IF p >= 60 THEN XorBit(q.high[p], BitOf(j \div 2, p - 60)) ELSE q.high[p]
          /\ \A p \in 0..15 : n.low[p] = IF p = 0 THEN XorBit(q.low[0], j % 2) ELSE q.low[p]
      BY <2>3 DEF Counted
    <2>5. ASSUME NEW p \in 0..63
          PROVE  n.high[p] = IF p >= 60 THEN XorBit(s.high[p], BitOf(j \div 2, p - 60))
                             ELSE IF p < 4 THEN BitOf(d, p) ELSE s.high[p]
      <3>1. CASE p >= 60
        <4>1. ~(p < 4) BY <3>1
        <4> QED BY <2>1, <2>2, <2>4, <3>1, <4>1
      <3>2. CASE ~(p >= 60) BY <2>1, <2>2, <2>4, <3>2
      <3> QED BY <3>1, <3>2
    <2> QED BY <2>2, <2>4, <2>5
  <1>6. /\ BitOf(j \div 2, 0) = j \div 16
        /\ BitOf(j \div 2, 1) = (j \div 8) % 2
        /\ BitOf(j \div 2, 2) = (j \div 4) % 2
        /\ BitOf(j \div 2, 3) = (j \div 2) % 2
    BY SMTT(60) DEF BitOf
  <1>7. /\ t \in [0..79 -> Bit]
        /\ d \in Nibble
    <2>1. Whole(r) \in [0..79 -> Bit] BY DEF Whole, Register
    <2>2. t \in [0..79 -> Bit] BY <2>1 DEF Turned
    <2>3. s.high \in Word BY DEF Shifted, Register
    <2>4. DigitOf(s.high, 0) \in Nibble BY <2>3, DigitOfType
    <2> QED BY <2>2, <2>4, TablesAssumption
  <1> HIDE DEF n, d, s, t
  <1>8. ASSUME NEW p \in 0..79
        PROVE  (IF p < 64 THEN n.high[p] ELSE n.low[p - 64]) =
                    XorBit(IF p < 4 THEN BitOf(d, p) ELSE t[p], CounterBit(j, p))
    <2>1. CASE p < 4
      <3>1. n.high[p] = BitOf(d, p) BY <1>5, <2>1
      <3>2. CounterBit(j, p) = 0 BY <2>1 DEF CounterBit
      <3>3. BitOf(d, p) \in Bit BY <1>7, <2>1, BitOfType
      <3> QED BY <2>1, <3>1, <3>2, <3>3 DEF XorBit
    <2>2. CASE p >= 4 /\ p < 60
      <3>1. n.high[p] = t[p] BY <1>1, <1>5, <2>2
      <3>2. CounterBit(j, p) = 0 BY <2>2 DEF CounterBit
      <3>3. t[p] \in Bit BY <1>7
      <3> QED BY <2>2, <3>1, <3>2, <3>3 DEF XorBit
    <2>3. CASE p >= 60 /\ p < 64
      <3>1. n.high[p] = XorBit(t[p], BitOf(j \div 2, p - 60)) BY <1>1, <1>5, <2>3
      <3>2. BitOf(j \div 2, p - 60) = CounterBit(j, p)
        <4>1. p = 60 \/ p = 61 \/ p = 62 \/ p = 63 BY <2>3
        <4>2. CASE p = 60 BY <1>6, <4>2 DEF CounterBit
        <4>3. CASE p = 61 BY <1>6, <4>3 DEF CounterBit
        <4>4. CASE p = 62 BY <1>6, <4>4 DEF CounterBit
        <4>5. CASE p = 63 BY <1>6, <4>5 DEF CounterBit
        <4> QED BY <4>1, <4>2, <4>3, <4>4, <4>5
      <3> QED BY <2>3, <3>1, <3>2
    <2>4. CASE p = 64
      <3>1. n.low[0] = XorBit(s.low[0], j % 2) BY <1>5
      <3>2. s.low[0] = t[64] BY <1>1
      <3>3. CounterBit(j, p) = j % 2 BY <2>4 DEF CounterBit
      <3> QED BY <2>4, <3>1, <3>2, <3>3
    <2>5. CASE p > 64
      <3>1. p - 64 \in 0..15 /\ p - 64 # 0 /\ p - 64 + 64 = p BY <2>5
      <3>2. n.low[p - 64] = t[p] BY <1>1, <1>5, <3>1
      <3>3. CounterBit(j, p) = 0 BY <2>5 DEF CounterBit
      <3>4. t[p] \in Bit BY <1>7
      <3> QED BY <2>5, <3>2, <3>3, <3>4 DEF XorBit
    <2> QED BY <2>1, <2>2, <2>3, <2>4, <2>5
  <1>9. Whole(n) = [p \in 0..79 |-> IF p < 64 THEN n.high[p] ELSE n.low[p - 64]]
    BY DEF Whole
  <1>10. NextWhole(Whole(r), j) =
           [p \in 0..79 |-> XorBit(IF p < 4 THEN BitOf(S[DigitOf(t, 0)], p) ELSE t[p],
                                   CounterBit(j, p))]
    BY DEF NextWhole, t
  <1>11. d = S[DigitOf(t, 0)] BY <1>2 DEF d
  <1> QED BY <1>8, <1>9, <1>10, <1>11 DEF n

HIDE DEF Bit, Nibble, Digits, Word

-----------------------------------------------------------------------------
(* Types along a run.  KeysReady is part of the invariant because a block  *)
(* is enciphered only with subkeys that exist.                             *)

KeysReady == pc # "keys" => Len(registers) >= 32

Stage ==
    /\ Len(trail) = IF pc = "encrypt" THEN Len(cipher) + 1 ELSE Len(cipher)
    /\ pc = "keys" => cipher = << >> /\ plain = << >>
    /\ pc = "encrypt" => Len(cipher) < blockCount(text)
    /\ pc \in {"unchain", "decrypt", "done"} => Len(cipher) = blockCount(text)
    /\ pc = "decrypt" => Len(plain) < Len(cipher)
    /\ pc \in {"keys", "chain", "encrypt"} => plain = << >>
    /\ Len(plain) <= Len(cipher)

LEMMA ChainedType ==
    ASSUME NEW w \in Word, NEW blocks \in Seq(Word)
    PROVE  Chained(w, blocks) \in Word
  <1>1. CASE blocks = << >> BY <1>1, IVType, XorWordType DEF Chained
  <1>2. CASE blocks # << >>
    <2>1. blocks[Len(blocks)] \in Word BY <1>2
    <2> QED BY <1>2, <2>1, XorWordType DEF Chained
  <1> QED BY <1>1, <1>2

LEMMA SubkeyType ==
    ASSUME registers \in Seq(Register), Len(registers) >= 32, NEW j \in 0..31
    PROVE  Subkey(j) \in Word
  <1>1. registers[j + 1] \in Register OBVIOUS
  <1> QED BY <1>1 DEF Subkey, Register

LEMMA blockCountType == \A t \in Texts : blockCount(t) \in Nat
  BY TextsAssumption DEF blockCount

Types == TypeOK /\ KeysReady /\ Stage

LEMMA InitTypes == Init => Types
  <1> SUFFICES ASSUME Init PROVE Types OBVIOUS
  <1>1. blockCount(text) \in Nat BY blockCountType DEF Init
  <1>2. TypeOK
    <2>1. PICK k \in Keys : registers = << k >> BY DEF Init
    <2>2. k \in Register BY KeysAssumption
    <2>3. registers \in Seq(Register) /\ Len(registers) \in 1..32 BY <2>1, <2>2
    <2>4. << >> \in Seq(Word) /\ << >> \in Seq(Seq(Word)) OBVIOUS
    <2>5. trail \in Seq(Seq(Word)) /\ cipher \in Seq(Word) /\ plain \in Seq(Word)
      BY <2>4, Zenon DEF Init
    <2>6. text \in Texts /\ pc = "keys" /\ state \in Word /\ i \in 0..31
      BY IVType DEF Init
    <2>7. before \in BOOLEAN /\ behind \in {<< >>, << 48 >>} BY DEF Init
    <2> QED BY <2>3, <2>5, <2>6, <2>7 DEF TypeOK
  <1>3. KeysReady /\ Stage BY <1>1 DEF Init, KeysReady, Stage
  <1> QED BY <1>2, <1>3 DEF Types

LEMMA NextTypes == Types /\ [Next]_vars => Types'
  <1> SUFFICES ASSUME Types, [Next]_vars PROVE Types' OBVIOUS
  <1> USE DEF Types
  <1>0. blockCount(text) \in Nat /\ text \in Texts BY blockCountType DEF TypeOK
  <1>1. ASSUME generateSubkeys PROVE Types'
    <2>1. CASE Len(registers) < 32
      <3>0. PICK n \in 1..31 : n = Len(registers)
        <4>1. Len(registers) \in 1..32 BY DEF TypeOK
        <4>2. PICK m \in 1..32 : m = Len(registers) BY <4>1, Zenon
        <4>3. m < 32 BY <2>1, <4>2, Zenon
        <4>4. m \in 1..31 BY <4>3
        <4> QED BY <4>2, <4>4, Zenon
      <3> DEFINE r == NextRegister(registers[n], n)
      <3>1. r \in Register
        <4>1. registers[n] \in Register BY <3>0, ElementOfSeq DEF TypeOK
        <4> QED BY <4>1, NextRegisterType
      <3>2. registers' = Append(registers, r) /\ pc' = "keys"
        BY <1>1, <2>1, <3>0 DEF generateSubkeys
      <3> HIDE DEF r
      <3>3. registers' \in Seq(Register) /\ Len(registers') \in 1..32
        <4>1. /\ registers' \in Seq(Register) /\ Len(registers') = Len(registers) + 1
          BY <3>1, <3>2, AppendProperties DEF TypeOK
        <4>2. Len(registers') = n + 1 BY <3>0, <4>1
        <4>3. n + 1 \in 1..32 OBVIOUS
        <4> QED BY <4>1, <4>2, <4>3
      <3> QED BY <1>1, <3>2, <3>3 DEF generateSubkeys, TypeOK, KeysReady, Stage
    <2>2. CASE ~(Len(registers) < 32)
      <3>1. Len(registers) >= 32 BY <2>2 DEF TypeOK
      <3>2. Len(cipher) = 0 /\ Len(trail) = 0 BY <1>1 DEF Stage, generateSubkeys
      <3> QED BY <1>1, <2>2, <3>1, <3>2, <1>0 DEF generateSubkeys, TypeOK, KeysReady, Stage
    <2> QED BY <2>1, <2>2
  <1>2. ASSUME EncryptsBlock PROVE Types'
    <2>1. Len(cipher) + 1 \in Nat \ {0} BY DEF TypeOK
    <2>2. Block(text, Len(cipher) + 1) \in Word BY <1>0, <2>1, BlockType
    <2>3. state' \in Word BY <1>2, <2>2, ChainedType DEF EncryptsBlock, TypeOK
    <2>4. << state' >> \in Seq(Word) BY <2>3
    <2>5. trail' \in Seq(Seq(Word)) /\ Len(trail') = Len(trail) + 1
      BY <1>2, <2>4 DEF EncryptsBlock, TypeOK
    <2> QED BY <1>2, <2>3, <2>5 DEF EncryptsBlock, TypeOK, KeysReady, Stage
  <1>3. ASSUME EncryptRound PROVE Types'
    <2>1. i \in 0..30 /\ Len(registers) >= 32
      BY <1>3 DEF EncryptRound, KeysReady, TypeOK
    <2>2. Subkey(i) \in Word BY <2>1, SubkeyType DEF TypeOK
    <2>3. state' \in Word BY <1>3, <2>2, RoundBack DEF EncryptRound, TypeOK
    <2>4. trail' \in Seq(Seq(Word)) /\ Len(trail') = Len(trail)
      <3>1. Len(trail) \in 1..Len(trail) BY <1>3 DEF EncryptRound, Stage, TypeOK
      <3>2. Append(trail[Len(trail)], state') \in Seq(Word)
        BY <2>3, <3>1 DEF TypeOK
      <3> QED BY <1>3, <3>1, <3>2 DEF EncryptRound, TypeOK
    <2> QED BY <1>3, <2>1, <2>3, <2>4 DEF EncryptRound, TypeOK, KeysReady, Stage
  <1>4. ASSUME EncryptEnds PROVE Types'
    <2>1. Subkey(31) \in Word
      BY <1>4, SubkeyType DEF EncryptEnds, KeysReady, TypeOK
    <2>2. XorWord(state, Subkey(31)) \in Word BY <2>1, XorWordType DEF TypeOK
    <2>3. cipher' \in Seq(Word) /\ Len(cipher') = Len(cipher) + 1
      BY <1>4, <2>2 DEF EncryptEnds, TypeOK
    <2>4. Len(plain) = 0 /\ Len(cipher) < blockCount(text)
      BY <1>4 DEF EncryptEnds, Stage
    <2> QED BY <1>4, <2>3, <2>4, <1>0 DEF EncryptEnds, TypeOK, KeysReady, Stage
  <1>5. ASSUME Deciphers PROVE Types'
    BY <1>5 DEF Deciphers, TypeOK, KeysReady, Stage
  <1>6. ASSUME DecryptsBlock PROVE Types'
    <2>1. cipher[Len(plain) + 1] \in Word BY <1>6 DEF DecryptsBlock, TypeOK
    <2> QED BY <1>6, <2>1 DEF DecryptsBlock, TypeOK, KeysReady, Stage
  <1>7. ASSUME DecryptRound PROVE Types'
    <2>1. i \in 0..30 /\ Len(registers) >= 32
      BY <1>7 DEF DecryptRound, KeysReady, TypeOK
    <2>2. Subkey(31 - i) \in Word
      <3>1. 31 - i \in 0..31 BY <2>1
      <3> QED BY <2>1, <3>1, SubkeyType DEF TypeOK
    <2>3. state' \in Word BY <1>7, <2>2, DecryptsOnceType DEF DecryptRound, TypeOK
    <2> QED BY <1>7, <2>1, <2>3 DEF DecryptRound, TypeOK, KeysReady, Stage
  <1>8. ASSUME DecryptEnds PROVE Types'
    <2>1. Subkey(0) \in Word
      BY <1>8, SubkeyType DEF DecryptEnds, KeysReady, TypeOK
    <2>2. XorWord(state, Subkey(0)) \in Word BY <2>1, XorWordType DEF TypeOK
    <2>3. SubSeq(cipher, 1, Len(plain)) \in Seq(Word)
      <3>1. \A m \in 1..Len(plain) : cipher[m] \in Word
        BY DEF Stage, TypeOK
      <3>2. Len(plain) \in Nat BY DEF TypeOK
      <3> QED BY <3>1, <3>2 DEF TypeOK, Stage
    <2>4. Chained(XorWord(state, Subkey(0)), SubSeq(cipher, 1, Len(plain))) \in Word
      BY <2>2, <2>3, ChainedType
    <2>5. plain' \in Seq(Word) /\ Len(plain') = Len(plain) + 1
      BY <1>8, <2>4 DEF DecryptEnds, TypeOK
    <2>6. Len(plain) \in Nat /\ Len(cipher) \in Nat /\ Len(plain) < Len(cipher)
      BY <1>8 DEF DecryptEnds, TypeOK, Stage
    <2> QED BY <1>8, <2>5, <2>6 DEF DecryptEnds, TypeOK, KeysReady, Stage
  <1>9. ASSUME Strip PROVE Types'
    BY <1>9 DEF Strip, TypeOK, KeysReady, Stage
  <1>10. ASSUME UNCHANGED vars PROVE Types'
    BY <1>10 DEF vars, TypeOK, KeysReady, Stage
  <1> QED
    BY <1>1, <1>2, <1>3, <1>4, <1>5, <1>6, <1>7, <1>8, <1>9, <1>10 DEF Next, Done

(* All variables keep their types; no subkey is used that is not made.     *)
THEOREM AlwaysTypes == Spec => []Types
  BY InitTypes, NextTypes, PTL DEF Spec

(* presentCBCencr and presentCBCdecr keep all their variables in range:    *)
(* at most 32 turns of generateSubkeys, rounds up to 31, words of 64 bits. *)
THEOREM AlwaysTypeOK == Spec => []TypeOK
  BY AlwaysTypes, PTL DEF Types

-----------------------------------------------------------------------------
(* The key schedule along a run.                                           *)

(* The registers that a run has made so far, from the key to the last.     *)
KeySchedule ==
    /\ registers[1] \in Keys
    /\ \A j \in 1..(Len(registers) - 1) :
           Whole(registers[j + 1]) = NextWhole(Whole(registers[j]), j)

(* Whatever the key, the two variables of generateSubkeys, shifted and     *)
(* masked apart (lines 135-142), go through the key schedule of the cipher:*)
(* the key first, and each register from the one before by one turn.       *)
THEOREM AlwaysKeySchedule == Spec => []KeySchedule
  <1>1. Init => KeySchedule
    <2> SUFFICES ASSUME Init PROVE KeySchedule OBVIOUS
    <2>1. PICK k \in Keys : registers = << k >> BY DEF Init
    <2>2. registers[1] = k /\ 1..(Len(registers) - 1) = {} BY <2>1
    <2> QED BY <2>2 DEF KeySchedule
  <1>2. Types /\ KeySchedule /\ [Next]_vars => KeySchedule'
    <2> SUFFICES ASSUME Types, KeySchedule, [Next]_vars PROVE KeySchedule'
      OBVIOUS
    <2>1. CASE registers' = registers
      BY <2>1 DEF KeySchedule
    <2>2. CASE generateSubkeys /\ Len(registers) < 32
      <3>0. PICK n \in 1..31 : n = Len(registers)
        <4>1. Len(registers) \in 1..32 BY DEF Types, TypeOK
        <4>2. PICK m \in 1..32 : m = Len(registers) BY <4>1, Zenon
        <4>3. m < 32 BY <2>2, <4>2, Zenon
        <4>4. m \in 1..31 BY <4>3
        <4> QED BY <4>2, <4>4, Zenon
      <3> DEFINE r == NextRegister(registers[n], n)
      <3>1. registers[n] \in Register BY <3>0, ElementOfSeq DEF Types, TypeOK
      <3>2. r \in Register /\ Whole(r) = NextWhole(Whole(registers[n]), n)
        BY <3>1, OneTurn, NextRegisterType
      <3>3. registers' = Append(registers, r) BY <2>2, <3>0 DEF generateSubkeys
      <3> HIDE DEF r
      <3>4. /\ Len(registers') - 1 = n /\ registers'[n + 1] = r
            /\ \A m \in 1..n : registers'[m] = registers[m]
        <4>1. /\ Len(registers') = Len(registers) + 1
              /\ registers'[Len(registers) + 1] = r
              /\ \A m \in 1..Len(registers) : registers'[m] = registers[m]
          BY <3>2, <3>3, AppendProperties DEF Types, TypeOK
        <4> QED BY <3>0, <4>1
      <3>5. ASSUME NEW j \in 1..n
            PROVE  Whole(registers'[j + 1]) = NextWhole(Whole(registers'[j]), j)
        <4>1. CASE j = n BY <3>2, <3>4, <4>1
        <4>2. CASE j # n
          <5>1. j \in 1..(Len(registers) - 1) /\ j + 1 \in 1..n BY <3>0, <4>2
          <5>2. Whole(registers[j + 1]) = NextWhole(Whole(registers[j]), j)
            BY <5>1 DEF KeySchedule
          <5> QED BY <3>4, <5>1, <5>2
        <4> QED BY <4>1, <4>2
      <3>6. registers'[1] \in Keys
        <4>1. 1 \in 1..n OBVIOUS
        <4> QED BY <3>4, <4>1 DEF KeySchedule
      <3> QED BY <3>4, <3>5, <3>6 DEF KeySchedule
    <2> QED
      BY <2>1, <2>2 DEF Next, vars, Done, generateSubkeys, EncryptsBlock, EncryptRound,
         EncryptEnds, Deciphers, DecryptsBlock, DecryptRound, DecryptEnds, Strip
  <1> QED BY <1>1, <1>2, AlwaysTypes, PTL DEF Spec

(* The last turn of the schedule is the one the run checks.                *)
THEOREM AlwaysOneRegister == Spec => []OneRegister
  <1>1. Types /\ KeySchedule => OneRegister
    <2> SUFFICES ASSUME Types, KeySchedule, Len(registers) - 1 > 0
                 PROVE  Whole(registers[(Len(registers) - 1) + 1]) =
                            NextWhole(Whole(registers[Len(registers) - 1]), Len(registers) - 1)
      BY DEF OneRegister
    <2>1. PICK n \in 1..32 : n = Len(registers) BY Zenon DEF Types, TypeOK
    <2>2. n - 1 \in 1..(n - 1) BY <2>1
    <2> QED BY <2>1, <2>2 DEF KeySchedule
  <1> QED BY <1>1, AlwaysTypes, AlwaysKeySchedule, PTL

-----------------------------------------------------------------------------
(* What trail records.  Together with the types this is the inductive      *)
(* invariant: Retraced speaks of the decryption only, and needs to know    *)
(* how the blocks that it meets came about.                                *)

Before(b) == IF b = 1 THEN IV ELSE cipher[b - 1]

Ran(b, n) ==
    /\ Len(trail[b]) = n
    /\ trail[b][1] = XorWord(Before(b), Block(text, b))
    /\ \A j \in 1..(n - 1) : trail[b][j + 1] = EncryptsOnce(trail[b][j], Subkey(j - 1))

Enciphered ==
    \A b \in 1..Len(cipher) : Ran(b, 32) /\ cipher[b] = XorWord(trail[b][32], Subkey(31))

Enciphering ==
    pc = "encrypt" => Ran(Len(trail), i + 1) /\ trail[Len(trail)][i + 1] = state

CbcInv == Types /\ Enciphered /\ Enciphering /\ Retraced

LEMMA ChainedIsBefore ==
    ASSUME Types, NEW b \in 1..(Len(cipher) + 1), NEW w
    PROVE  Chained(w, SubSeq(cipher, 1, b - 1)) = XorWord(Before(b), w)
  <1>1. cipher \in Seq(Word) BY DEF Types, TypeOK
  <1>2. CASE b = 1
    <2>1. SubSeq(cipher, 1, b - 1) = << >> BY <1>1, <1>2
    <2> QED BY <1>2, <2>1 DEF Chained, Before
  <1>3. CASE b # 1
    <2>1. PICK m \in 1..Len(cipher) : m = b - 1 BY <1>1, <1>3
    <2>2. /\ Len(SubSeq(cipher, 1, m)) = m
          /\ SubSeq(cipher, 1, m)[m] = cipher[m]
          /\ SubSeq(cipher, 1, m) # << >>
      BY <1>1, <2>1
    <2> QED BY <1>3, <2>1, <2>2 DEF Chained, Before
  <1> QED BY <1>2, <1>3

LEMMA EncipheredKept ==
    ASSUME Types, Enciphered, UNCHANGED << text, registers, trail, cipher >>
    PROVE  Enciphered'
  BY DEF Enciphered, Ran, Before, Subkey

(* A trail grows at its end.                                               *)
LEMMA AppendGrows ==
    ASSUME NEW T, NEW t \in Seq(T), NEW e, NEW n \in Nat, Len(t) = n
    PROVE  /\ Len(Append(t, e)) = n + 1 /\ Append(t, e)[n + 1] = e
           /\ \A m \in 1..n : Append(t, e)[m] = t[m]
OBVIOUS

(* A trail that is still growing is not that of an enciphered block.       *)
LEMMA EncipheredGrows ==
    ASSUME Enciphered, UNCHANGED << text, registers, cipher >>,
           \A m \in 1..Len(cipher) : trail'[m] = trail[m]
    PROVE  Enciphered'
  <1>1. ASSUME NEW m \in 1..Len(cipher) PROVE Ran(m, 32)'
    <2>1. Ran(m, 32) BY DEF Enciphered
    <2>2. trail'[m] = trail[m] OBVIOUS
    <2> QED BY <2>1, <2>2 DEF Ran, Before, Subkey
  <1>2. ASSUME NEW m \in 1..Len(cipher)
        PROVE  cipher'[m] = XorWord(trail'[m][32], Subkey(31)')
    <2>1. cipher[m] = XorWord(trail[m][32], Subkey(31)) BY DEF Enciphered
    <2>2. trail'[m] = trail[m] OBVIOUS
    <2> QED BY <2>1, <2>2 DEF Subkey
  <1> QED BY <1>1, <1>2 DEF Enciphered

LEMMA RetracedNext == CbcInv /\ [Next]_vars => CbcInv'
  <1> SUFFICES ASSUME CbcInv, [Next]_vars PROVE CbcInv'
    OBVIOUS
  <1>0. Types /\ Types' BY NextTypes DEF CbcInv
  <1> DEFINE Inv3 == Enciphered /\ Enciphering /\ Retraced
  <1> SUFFICES Inv3'
    BY <1>0 DEF CbcInv
  <1>1. ASSUME generateSubkeys PROVE Inv3'
    <2>1. Len(cipher) = 0 /\ Len(plain) = 0 /\ pc' # "encrypt" /\ pc' # "decrypt"
      BY <1>0, <1>1 DEF generateSubkeys, Types, Stage
    <2>2. Len(cipher') = 0 /\ Len(plain') = 0 BY <1>1, <2>1 DEF generateSubkeys
    <2>3. Enciphered' BY <2>2 DEF Enciphered
    <2>4. Retraced' BY <2>1, <2>2 DEF Retraced
    <2> QED BY <2>1, <2>3, <2>4 DEF Enciphering
  <1>2. ASSUME EncryptsBlock PROVE Inv3'
    <2>0. PICK b \in Nat : b = Len(cipher) + 1 BY <1>0 DEF Types, TypeOK
    <2>1. /\ trail' = Append(trail, << state' >>) /\ Len(trail) = Len(cipher)
          /\ UNCHANGED << text, registers, cipher, plain >> /\ pc' = "encrypt" /\ i' = 0
          /\ trail \in Seq(Seq(Word)) /\ cipher \in Seq(Word)
      BY <1>0, <1>2 DEF EncryptsBlock, Types, TypeOK, Stage
    <2>2. Len(trail') = b /\ trail'[b] = << state' >> /\ \A m \in 1..Len(cipher) : trail'[m] = trail[m]
      BY <2>0, <2>1
    <2>3. Enciphered'
      BY <2>1, <2>2, EncipheredGrows DEF CbcInv
    <2>4. state' = XorWord(Before(b), Block(text, b))
      <3>1. SubSeq(cipher, 1, b - 1) = cipher BY <2>0, <2>1
      <3>2. b \in 1..(Len(cipher) + 1) BY <2>0, <2>1
      <3> QED BY <1>0, <1>2, <2>0, <3>1, <3>2, ChainedIsBefore DEF EncryptsBlock
    <2>5. Ran(b, 1)'
      <3>1. Len(trail'[b]) = 1 /\ trail'[b][1] = state' BY <2>2
      <3>2. Before(b)' = Before(b) /\ Block(text, b)' = Block(text, b)
        BY <2>1 DEF Before
      <3>3. 1..(1 - 1) = {} OBVIOUS
      <3> QED BY <2>4, <3>1, <3>2, <3>3 DEF Ran
    <2>6. Enciphering'
      <3>1. i' + 1 = 1 /\ trail'[b][1] = state' BY <2>1, <2>2
      <3> QED BY <2>2, <2>5, <3>1 DEF Enciphering
    <2>7. Retraced'
      BY <2>1 DEF CbcInv, Retraced
    <2> QED BY <2>3, <2>6, <2>7
  <1>3. ASSUME EncryptRound PROVE Inv3'
    <2>0. PICK b \in Nat, n \in 0..30 : b = Len(trail) /\ n = i
      BY <1>0, <1>3 DEF EncryptRound, Types, TypeOK
    <2>1. /\ b = Len(cipher) + 1
          /\ state' = EncryptsOnce(state, Subkey(n)) /\ i' = n + 1
          /\ trail' = [trail EXCEPT ![b] = Append(@, state')]
          /\ UNCHANGED << text, registers, cipher, plain, pc >> /\ pc = "encrypt"
          /\ trail \in Seq(Seq(Word)) /\ cipher \in Seq(Word)
      BY <1>0, <1>3, <2>0 DEF EncryptRound, Types, TypeOK, Stage
    <2>2. /\ Len(trail') = b /\ trail'[b] = Append(trail[b], state')
          /\ \A m \in 1..Len(cipher) : trail'[m] = trail[m]
          /\ trail[b] \in Seq(Word)
      <3>1. b \in 1..Len(trail) BY <2>0, <2>1
      <3>2. trail[b] \in Seq(Word) BY <2>1, <3>1, ElementOfSeq
      <3>3. /\ Len(trail') = Len(trail) /\ trail'[b] = Append(trail[b], state')
            /\ \A m \in 1..Len(trail) : m # b => trail'[m] = trail[m]
        BY <2>1, <3>1, ExceptSeq
      <3>4. \A m \in 1..Len(cipher) : m \in 1..Len(trail) /\ m # b
        BY <2>0, <2>1
      <3> QED BY <2>0, <3>2, <3>3, <3>4
    <2>3. Enciphered'
      BY <2>1, <2>2, EncipheredGrows DEF CbcInv
    <2>4. Ran(b, n + 1) /\ trail[b][n + 1] = state
      BY <2>0, <2>1 DEF CbcInv, Enciphering
    <2>5. PICK t \in Seq(Word) : t = trail[b] BY <2>2
    <2>6. Len(t) = n + 1 BY <2>4, <2>5 DEF Ran
    <2>7. /\ Len(Append(t, state')) = n + 2 /\ Append(t, state')[n + 2] = state'
          /\ \A m \in 1..(n + 1) : Append(t, state')[m] = t[m]
      <3>1. PICK k \in Nat : k = n + 1 OBVIOUS
      <3>2. Len(t) = k BY <2>6, <3>1
      <3>3. /\ Len(Append(t, state')) = k + 1 /\ Append(t, state')[k + 1] = state'
            /\ \A m \in 1..k : Append(t, state')[m] = t[m]
        BY ONLY <3>2, AppendGrows
      <3>4. k + 1 = n + 2 BY <3>1
      <3> QED BY ONLY <3>1, <3>3, <3>4
    <2>8. ASSUME NEW j \in 1..(n + 1)
          PROVE  trail'[b][j + 1] = EncryptsOnce(trail'[b][j], Subkey(j - 1))
      <3>1. CASE j = n + 1
        <4>1. j - 1 = n /\ j + 1 = n + 2 BY <3>1
        <4>2. trail'[b][j + 1] = state' /\ trail'[b][j] = state
          BY <2>2, <2>4, <2>5, <2>7, <3>1, <4>1
        <4> QED BY <2>1, <4>1, <4>2
      <3>2. CASE j # n + 1
        <4>1. j \in 1..((n + 1) - 1) /\ j + 1 \in 1..(n + 1) BY <3>2
        <4>2. trail[b][j + 1] = EncryptsOnce(trail[b][j], Subkey(j - 1))
          BY <2>4, <4>1 DEF Ran
        <4> QED BY <2>2, <2>5, <2>7, <4>1, <4>2
      <3> QED BY <3>1, <3>2
    <2>9. Ran(b, n + 2)'
      <3>1. trail'[b][1] = trail[b][1] BY <2>2, <2>5, <2>7
      <3>2. trail'[b][1] = XorWord(Before(b), Block(text, b))' BY <2>1, <2>4, <3>1 DEF Ran, Before
      <3>3. Len(trail'[b]) = n + 2 BY <2>2, <2>5, <2>7
      <3>4. (n + 2) - 1 = n + 1 OBVIOUS
      <3>5. \A j \in 1..(n + 1) : trail'[b][j + 1] = EncryptsOnce(trail'[b][j], Subkey(j - 1)')
        BY <2>1, <2>8 DEF Subkey
      <3> QED BY <3>2, <3>3, <3>4, <3>5 DEF Ran
    <2>10. Enciphering'
      <3>1. i' + 1 = n + 2 /\ trail'[b][n + 2] = state' BY <2>1, <2>2, <2>5, <2>7
      <3> QED BY <2>2, <2>9, <3>1 DEF Enciphering
    <2>11. Retraced'
      BY <2>1 DEF CbcInv, Retraced
    <2> QED BY <2>3, <2>10, <2>11
  <1>4. ASSUME EncryptEnds PROVE Inv3'
    <2>0. PICK b \in Nat : b = Len(trail) BY <1>0 DEF Types, TypeOK
    <2>1. /\ b = Len(cipher) + 1 /\ cipher' = Append(cipher, XorWord(state, Subkey(31)))
          /\ pc = "encrypt" /\ i = 31 /\ pc' = "chain"
          /\ UNCHANGED << text, registers, trail, plain >> /\ cipher \in Seq(Word)
          /\ Len(plain) = 0
      BY <1>0, <1>4, <2>0 DEF EncryptEnds, Types, TypeOK, Stage
    <2>2. /\ Len(cipher') = b /\ cipher'[b] = XorWord(state, Subkey(31))
          /\ \A m \in 1..Len(cipher) : cipher'[m] = cipher[m]
      BY <2>1
    <2>3. Ran(b, 32) /\ trail[b][32] = state
      <3>1. i + 1 = 32 BY <2>1
      <3> QED BY <2>0, <2>1, <3>1 DEF CbcInv, Enciphering
    <2>4. \A m \in 1..b : Before(m)' = Before(m)
      <3>1. ASSUME NEW m \in 1..b PROVE Before(m)' = Before(m)
        <4>1. CASE m = 1 BY <4>1 DEF Before
        <4>2. CASE m # 1
          <5>1. m - 1 \in 1..Len(cipher) BY <2>1, <4>2
          <5> QED BY <2>2, <4>2, <5>1 DEF Before
        <4> QED BY <4>1, <4>2
      <3> QED BY <3>1
    <2>5. \A m \in 1..b : Ran(m, 32) => Ran(m, 32)'
      BY <2>1, <2>4 DEF Ran, Subkey
    <2>6. ASSUME NEW m \in 1..Len(cipher')
          PROVE  (Ran(m, 32) /\ cipher[m] = XorWord(trail[m][32], Subkey(31)))'
      <3>1. Subkey(31)' = Subkey(31) BY <2>1 DEF Subkey
      <3>2. CASE m = b BY <2>1, <2>2, <2>3, <2>5, <3>1, <3>2
      <3>3. CASE m # b
        <4>1. m \in 1..Len(cipher) /\ m \in 1..b BY <2>1, <2>2, <3>3
        <4>2. Ran(m, 32) /\ cipher[m] = XorWord(trail[m][32], Subkey(31))
          BY <4>1 DEF CbcInv, Enciphered
        <4> QED BY <2>1, <2>2, <2>5, <3>1, <4>1, <4>2
      <3> QED BY <3>2, <3>3
    <2>7. Enciphered' BY <2>6 DEF Enciphered
    <2>8. Retraced' BY <2>1 DEF Retraced
    <2> QED BY <2>1, <2>7, <2>8 DEF Enciphering
  <1>5. ASSUME Deciphers PROVE Inv3'
    <2>1. Enciphered' BY <1>0, <1>5, EncipheredKept DEF Deciphers, CbcInv
    <2>2. pc' = "unchain" /\ UNCHANGED << text, plain >> BY <1>5 DEF Deciphers
    <2> QED BY <2>1, <2>2 DEF CbcInv, Enciphering, Retraced
  <1>6. ASSUME DecryptsBlock PROVE Inv3'
    <2>0. PICK b \in Nat : b = Len(plain) + 1 BY <1>0 DEF Types, TypeOK
    <2>1. Enciphered' BY <1>0, <1>6, EncipheredKept DEF DecryptsBlock, CbcInv
    <2>2. /\ b \in 1..Len(cipher) /\ state' = cipher[b] /\ i' = 0 /\ pc' = "decrypt"
          /\ UNCHANGED << text, registers, trail, plain >>
      BY <1>0, <1>6, <2>0 DEF DecryptsBlock, Types, TypeOK
    <2>3. cipher[b] = XorWord(trail[b][32], Subkey(31))
      BY <2>2 DEF CbcInv, Enciphered
    <2>4. 32 - i' = 32 /\ 31 - i' = 31 /\ Subkey(31)' = Subkey(31)
      BY <2>2 DEF Subkey
    <2>5. Retraced'
      <3>1. state' = XorWord(trail'[b][32], Subkey(31)') BY <2>2, <2>3, <2>4
      <3> QED BY <2>0, <2>2, <2>4, <3>1 DEF CbcInv, Retraced, Subkey
    <2> QED BY <2>1, <2>2, <2>5 DEF Enciphering
  <1>7. ASSUME DecryptRound PROVE Inv3'
    <2>0. PICK b \in Nat, n \in 0..30 : b = Len(plain) + 1 /\ n = i
      BY <1>0, <1>7 DEF DecryptRound, Types, TypeOK
    <2>1. Enciphered' BY <1>0, <1>7, EncipheredKept DEF DecryptRound, CbcInv
    <2>2. /\ b \in 1..Len(cipher) /\ state' = DecryptsOnce(state, Subkey(31 - n))
          /\ i' = n + 1 /\ pc = "decrypt" /\ pc' = "decrypt"
          /\ UNCHANGED << text, registers, trail, plain >>
      BY <1>0, <1>7, <2>0 DEF DecryptRound, Types, TypeOK, Stage
    <2>3. state = XorWord(trail[b][32 - n], Subkey(31 - n))
      BY <2>0, <2>2 DEF CbcInv, Retraced
    <2>4. PICK w \in Word : w = trail[b][31 - n]
      <3>1. Ran(b, 32) BY <2>2 DEF CbcInv, Enciphered
      <3>2. b \in 1..Len(trail) BY <1>0, <2>2 DEF Types, TypeOK, Stage
      <3>3. 31 - n \in 1..Len(trail[b]) BY <3>1 DEF Ran
      <3>4. trail \in Seq(Seq(Word)) BY <1>0 DEF Types, TypeOK
      <3>5. trail[b] \in Seq(Word) BY ONLY <3>2, <3>4, ElementOfSeq
      <3>6. trail[b][31 - n] \in Word BY ONLY <3>3, <3>5, ElementOfSeq
      <3> QED BY <3>6
    <2>5. trail[b][32 - n] = EncryptsOnce(w, Subkey(30 - n))
      <3>1. Ran(b, 32) BY <2>2 DEF CbcInv, Enciphered
      <3>2. 31 - n \in 1..(32 - 1) /\ (31 - n) + 1 = 32 - n /\ (31 - n) - 1 = 30 - n OBVIOUS
      <3> QED BY <2>4, <3>1, <3>2 DEF Ran
    <2>6. Subkey(30 - n) \in Word /\ Subkey(31 - n) \in Word
      <3>1. 30 - n \in 0..31 /\ 31 - n \in 0..31 OBVIOUS
      <3> QED BY <1>0, <2>2, <3>1, SubkeyType DEF Types, TypeOK, KeysReady
    <2>7. state' = XorWord(w, Subkey(30 - n))
      BY <2>2, <2>3, <2>4, <2>5, <2>6, RoundBack
    <2>8. Retraced'
      <3>1. 32 - i' = 31 - n /\ 31 - i' = 30 - n BY <2>2
      <3>2. Subkey(30 - n)' = Subkey(30 - n) BY <2>2 DEF Subkey
      <3>3. state' = XorWord(trail'[Len(plain') + 1][32 - i'], Subkey(30 - n)')
        BY <2>0, <2>2, <2>4, <2>7, <3>1, <3>2
      <3> QED BY <2>2, <3>1, <3>3 DEF CbcInv, Retraced, Subkey
    <2> QED BY <2>1, <2>2, <2>8 DEF Enciphering
  <1>8. ASSUME DecryptEnds PROVE Inv3'
    <2>0. PICK b \in Nat : b = Len(plain) + 1 BY <1>0 DEF Types, TypeOK
    <2>1. Enciphered' BY <1>0, <1>8, EncipheredKept DEF DecryptEnds, CbcInv
    <2>2. /\ b \in 1..Len(cipher) /\ i = 31 /\ pc = "decrypt" /\ pc' = "unchain"
          /\ b - 1 = Len(plain) /\ plain \in Seq(Word)
          /\ plain' = Append(plain, Chained(XorWord(state, Subkey(0)), SubSeq(cipher, 1, b - 1)))
          /\ text' = text
      BY <1>0, <1>8, <2>0 DEF DecryptEnds, Types, TypeOK, Stage
    <2>3. state = XorWord(trail[b][1], Subkey(0))
      <3>1. 32 - i = 1 /\ 31 - i = 0 BY <2>2
      <3> QED BY <2>0, <2>2, <3>1 DEF CbcInv, Retraced
    <2>4. trail[b][1] = XorWord(Before(b), Block(text, b))
      BY <2>2 DEF CbcInv, Enciphered, Ran
    <2>5. Before(b) \in Word /\ Block(text, b) \in Word /\ Subkey(0) \in Word
      <3>1. Before(b) \in Word
        <4>1. CASE b = 1 BY <4>1, IVType DEF Before
        <4>2. CASE b # 1
          <5>1. b - 1 \in 1..Len(cipher) BY <2>2, <4>2
          <5> QED BY <1>0, <4>2, <5>1 DEF Before, Types, TypeOK
        <4> QED BY <4>1, <4>2
      <3>2. b \in Nat \ {0} BY <2>2
      <3>3. Subkey(0) \in Word
        BY <1>0, <2>2, SubkeyType DEF Types, TypeOK, KeysReady
      <3> QED BY <1>0, <3>1, <3>2, <3>3, BlockType DEF Types, TypeOK
    <2>6. XorWord(state, Subkey(0)) = XorWord(Before(b), Block(text, b))
      BY <2>3, <2>4, <2>5, XorWordType, XorWordTwice
    <2>7. b \in 1..(Len(cipher) + 1) BY <1>0, <2>2 DEF Types, TypeOK
    <2>8. Chained(XorWord(state, Subkey(0)), SubSeq(cipher, 1, b - 1)) = Block(text, b)
      BY <1>0, <2>5, <2>6, <2>7, ChainedIsBefore, XorWordTwice
    <2>9. Retraced'
      <3>1. plain' = Append(plain, Block(text, b)) BY <2>2, <2>8
      <3>2. /\ \A m \in 1..Len(plain) : plain[m] = Block(text, m)
        BY DEF CbcInv, Retraced
      <3>3. Len(plain') = b /\ plain'[b] = Block(text, b)
            /\ \A m \in 1..(b - 1) : plain'[m] = plain[m]
        BY <2>0, <2>2, <3>1
      <3>4. \A m \in 1..b : m = b \/ m \in 1..(b - 1) OBVIOUS
      <3> QED BY <2>2, <3>2, <3>3, <3>4 DEF Retraced
    <2> QED BY <2>1, <2>2, <2>9 DEF Enciphering
  <1>9. ASSUME Strip PROVE Inv3'
    <2>1. Enciphered' BY <1>0, <1>9, EncipheredKept DEF Strip, CbcInv
    <2>2. pc' = "done" /\ UNCHANGED << text, plain >> BY <1>9 DEF Strip
    <2> QED BY <2>1, <2>2 DEF CbcInv, Enciphering, Retraced
  <1>10. ASSUME UNCHANGED vars PROVE Inv3'
    <2>1. Enciphered' BY <1>0, <1>10, EncipheredKept DEF vars, CbcInv
    <2>2. Enciphering' BY <1>10 DEF vars, CbcInv, Enciphering, Ran, Before, Subkey
    <2>3. Retraced' BY <1>10 DEF vars, CbcInv, Retraced, Subkey
    <2> QED BY <2>1, <2>2, <2>3
  <1> QED
    BY <1>1, <1>2, <1>3, <1>4, <1>5, <1>6, <1>7, <1>8, <1>9, <1>10 DEF CbcInv, Next, Done

LEMMA CbcInvInit == Init => CbcInv
  <1> SUFFICES ASSUME Init PROVE CbcInv OBVIOUS
  <1>1. Len(cipher) = 0 /\ Len(plain) = 0 /\ pc = "keys" BY DEF Init
  <1> QED BY <1>1, InitTypes DEF CbcInv, Enciphered, Enciphering, Retraced

(* presentCBCencr is PRESENT in CBC mode: each block of the cipher text is *)
(* the block of the text, chained to the cipher block before, after 31     *)
(* rounds with the subkeys of the schedule in order and the last subkey on *)
(* top (lines 148-166 and 329-340).                                        *)
THEOREM AlwaysEnciphered == Spec => []Enciphered
  <1>1. CbcInv => Enciphered BY DEF CbcInv
  <1> QED BY <1>1, CbcInvInit, RetracedNext, PTL DEF Spec

(* presentCBCdecr goes back through the states of presentCBCencr, so that  *)
(* for every key and text its blocks are the filled blocks of the text.    *)
THEOREM AlwaysRetraced == Spec => []Retraced
  <1>1. CbcInv => Retraced BY DEF CbcInv
  <1> QED BY <1>1, CbcInvInit, RetracedNext, PTL DEF Spec

-----------------------------------------------------------------------------
(* The way back from digits to text.  A set of numbers has a least one:    *)
(* textFromHexString ends at the first place where it can.                 *)

NatBelow == {p \in Nat \X Nat : p[1] < p[2]}

LEMMA LeastNat ==
    ASSUME NEW T \in SUBSET Nat, T # {}
    PROVE  \E n \in T : \A m \in T : n <= m
  <1>1. IsWellFoundedOn(NatBelow, Nat)
    BY NatLessThanWellFounded, Zenon DEF OpToRel, NatBelow
  <1>2. PICK n \in T : \A m \in T : ~(<< m, n >> \in NatBelow)
    BY ONLY <1>1, T \in SUBSET Nat, T # {}, WFMin
  <1>3. ASSUME NEW m \in T PROVE n <= m
    <2>1. n \in Nat /\ m \in Nat OBVIOUS
    <2>2. m < n => << m, n >> \in NatBelow BY <2>1 DEF NatBelow
    <2> QED BY <1>2, <2>1, <2>2
  <1> QED BY <1>3

(* The two digits of a character, and those of the filling.                *)
LEMMA CharDigits ==
    ASSUME NEW t \in Texts, NEW m \in Nat
    PROVE  /\ Len(t) \in Nat /\ Len(t) >= 1
           /\ m < Len(t) => /\ t[m + 1] \in 1..127
                            /\ HexDigit(t, 2 * m) = t[m + 1] \div 16
                            /\ HexDigit(t, 2 * m + 1) = t[m + 1] % 16
           /\ m >= Len(t) => HexDigit(t, 2 * m) = 0 /\ HexDigit(t, 2 * m + 1) = 0
  <1>1. t \in Seq(1..127) /\ t # << >> BY TextsAssumption
  <1>2. PICK L \in Nat : L = Len(t) /\ L >= 1 BY <1>1
  <1>3. (2 * m) % 2 = 0 /\ (2 * m) \div 2 = m /\ (2 * m + 1) % 2 = 1 /\ (2 * m + 1) \div 2 = m
    OBVIOUS
  <1>4. ASSUME m < L
        PROVE  /\ t[m + 1] \in 1..127
               /\ HexDigit(t, 2 * m) = t[m + 1] \div 16
               /\ HexDigit(t, 2 * m + 1) = t[m + 1] % 16
    <2>1. m + 1 \in 1..Len(t) BY <1>2, <1>4
    <2>2. t[m + 1] \in 1..127 BY ONLY <1>1, <2>1, ElementOfSeq
    <2>3. ~(2 * m >= 2 * L) /\ ~(2 * m + 1 >= 2 * L) BY <1>4
    <2> QED BY <1>2, <1>3, <2>2, <2>3 DEF HexDigit
  <1>5. ASSUME m >= L PROVE HexDigit(t, 2 * m) = 0 /\ HexDigit(t, 2 * m + 1) = 0
    <2>1. 2 * m >= 2 * L /\ 2 * m + 1 >= 2 * L BY <1>5
    <2> QED BY <1>2, <2>1 DEF HexDigit
  <1> QED BY <1>2, <1>4, <1>5

LEMMA HexDigitType == ASSUME NEW t \in Texts, NEW n \in Nat PROVE HexDigit(t, n) \in Nibble
  <1>1. PICK m \in Nat : n = 2 * m \/ n = 2 * m + 1
    <2>1. n \div 2 \in Nat /\ (n = 2 * (n \div 2) \/ n = 2 * (n \div 2) + 1) OBVIOUS
    <2> QED BY <2>1
  <1>2. CASE m < Len(t)
    <2>1. PICK c \in 1..127 : c = t[m + 1] BY <1>2, CharDigits
    <2>2. c \div 16 \in 0..15 /\ c % 16 \in 0..15 OBVIOUS
    <2> QED BY <1>1, <1>2, <2>1, <2>2, CharDigits DEF Nibble
  <1>3. CASE ~(m < Len(t))
    <2>1. m >= Len(t) BY <1>3, CharDigits
    <2>2. HexDigit(t, n) = 0 BY <1>1, <2>1, CharDigits
    <2> QED BY <2>2 DEF Nibble
  <1> QED BY <1>2, <1>3

(* The blocks of a text, and how many there are.                           *)
BlocksOf(t, blocks) ==
    Len(blocks) = blockCount(t) /\ \A b \in 1..Len(blocks) : blocks[b] = Block(t, b)

LEMMA BlocksHold ==
    ASSUME NEW t \in Texts
    PROVE  /\ blockCount(t) \in Nat \ {0}
           /\ Len(t) <= 8 * blockCount(t)
           /\ Len(t) = 8 * blockCount(t) <=> Len(t) % 8 = 0
           /\ 8 * blockCount(t) < Len(t) + 8
  <1>1. PICK L \in Nat : L = Len(t) /\ L >= 1 BY CharDigits, 0 \in Nat
  <1>2. PICK k \in Nat : k = (2 * L + 15) \div 16 OBVIOUS
  <1>3. 16 * k <= 2 * L + 15 /\ 2 * L + 15 < 16 * k + 16 BY <1>2
  <1>4. L <= 8 * k /\ 8 * k < L + 8 /\ k # 0 BY <1>1, <1>3
  <1>5. L = 8 * k <=> L % 8 = 0
    <2>1. PICK q, r \in Nat : L = 8 * q + r /\ r < 8 /\ r = L % 8
      <3>1. L = 8 * (L \div 8) + (L % 8) /\ L \div 8 \in Nat /\ L % 8 \in Nat /\ L % 8 < 8 OBVIOUS
      <3> QED BY <3>1
    <2> QED BY <1>4, <2>1
  <1> QED BY <1>1, <1>2, <1>4, <1>5 DEF blockCount

LEMMA PlainDigit ==
    ASSUME NEW t \in Texts, NEW blocks, BlocksOf(t, blocks), NEW n \in Nat, n < 16 * Len(blocks)
    PROVE  Digit(blocks, n) = HexDigit(t, n)
  <1>1. PICK k \in Nat : k = Len(blocks) BY BlocksHold DEF BlocksOf
  <1>2. PICK q \in Nat, r \in 0..15 : n = 16 * q + r /\ n \div 16 = q /\ n % 16 = r
    <2>1. n = 16 * (n \div 16) + (n % 16) /\ n \div 16 \in Nat /\ n % 16 \in 0..15 OBVIOUS
    <2> QED BY <2>1
  <1>3. q + 1 \in 1..k /\ 16 * ((q + 1) - 1) + r = n BY <1>1, <1>2
  <1>4. blocks[q + 1] = Block(t, q + 1) BY <1>1, <1>3 DEF BlocksOf
  <1> DEFINE d == [x \in 0..15 |-> HexDigit(t, 16 * ((q + 1) - 1) + x)]
  <1>5. d \in Digits
    <2>1. \A x \in 0..15 : 16 * ((q + 1) - 1) + x \in Nat OBVIOUS
    <2> QED BY <2>1, HexDigitType DEF Digits
  <1>6. Block(t, q + 1) = fromBytesToLong(d) BY DEF Block, fromHexStringToLong
  <1>7. d[r] = HexDigit(t, n) BY <1>3
  <1> HIDE DEF d
  <1>8. Digit(blocks, n) = d[r]
    BY <1>2, <1>4, <1>5, <1>6, DigitsBack DEF Digit
  <1> QED BY <1>7, <1>8

(* Which of the digits are stripped, in terms of the text: those of the    *)
(* filling, and a digit 0 in front of one that begins the next character.  *)
Gap(t, m) ==
    /\ HexDigit(t, 2 * m) = 0
    /\ IF m % 8 = 0 THEN m = 0 /\ before ELSE HexDigit(t, 2 * m - 1) = 0

LEMMA StrippedAre ==
    ASSUME NEW t \in Texts, NEW blocks, BlocksOf(t, blocks),
           NEW m \in Nat, m < 8 * Len(blocks)
    PROVE  /\ Stripped(blocks, 2 * m) <=> Gap(t, m) \/ m >= Len(t)
           /\ m < Len(t) =>
                  (Stripped(blocks, 2 * m + 1) <=> m + 1 < 8 * Len(blocks) /\ Gap(t, m + 1))
  <1>1. PICK k \in Nat : k = Len(blocks) BY BlocksHold DEF BlocksOf
  <1>2. \A n \in Nat : n < 16 * k => Digit(blocks, n) = HexDigit(t, n)
    BY <1>1, PlainDigit
  <1>3. ASSUME NEW x \in Nat, x < 8 * k PROVE Filling(blocks, 2 * x) <=> Gap(t, x)
    <2>1. 2 * x < 16 * k /\ 2 * x \in Nat BY <1>3
    <2>2. (2 * x) % 16 = 0 <=> x % 8 = 0 OBVIOUS
    <2>3. 2 * x = 0 <=> x = 0 OBVIOUS
    <2>4. x % 8 # 0 => 2 * x - 1 \in Nat /\ 2 * x - 1 < 16 * k BY <1>3
    <2>5. x % 8 # 0 => Digit(blocks, 2 * x - 1) = HexDigit(t, 2 * x - 1) BY <1>2, <2>4
    <2>6. Digit(blocks, 2 * x) = HexDigit(t, 2 * x) BY <1>2, <2>1
    <2> QED BY <2>2, <2>3, <2>5, <2>6 DEF Filling, Gap
  <1>4. Filling(blocks, 2 * m + 1) <=> m >= Len(t)
    <2>1. 2 * m + 1 < 16 * k /\ 2 * m + 1 \in Nat /\ 2 * m < 16 * k BY <1>1
    <2>2. (2 * m + 1) % 16 # 0 /\ (2 * m + 1) - 1 = 2 * m OBVIOUS
    <2>3. Filling(blocks, 2 * m + 1) <=> HexDigit(t, 2 * m + 1) = 0 /\ HexDigit(t, 2 * m) = 0
      BY <1>2, <2>1, <2>2 DEF Filling
    <2>4. CASE m >= Len(t) BY <2>3, <2>4, CharDigits
    <2>5. CASE ~(m >= Len(t))
      <3>1. m < Len(t) BY <2>5, CharDigits
      <3>2. PICK c \in 1..127 : c = t[m + 1] BY <3>1, CharDigits
      <3>3. c \div 16 # 0 \/ c % 16 # 0 OBVIOUS
      <3> QED BY <2>3, <2>5, <3>1, <3>2, <3>3, CharDigits
    <2> QED BY <2>4, <2>5
  <1>5. Stripped(blocks, 2 * m) <=> Gap(t, m) \/ m >= Len(t)
    <2>1. 2 * m + 1 < 16 * k BY <1>1
    <2> QED BY <1>1, <1>3, <1>4, <2>1 DEF Stripped
  <1>6. ASSUME m < Len(t)
        PROVE  Stripped(blocks, 2 * m + 1) <=> m + 1 < 8 * Len(blocks) /\ Gap(t, m + 1)
    <2>1. ~(m >= Len(t)) BY <1>6, CharDigits
    <2>2. (2 * m + 1) + 1 = 2 * (m + 1) OBVIOUS
    <2>3. (2 * m + 1) + 1 < 16 * k <=> m + 1 < 8 * k OBVIOUS
    <2>4. m + 1 < 8 * k => (Filling(blocks, 2 * (m + 1)) <=> Gap(t, m + 1)) BY <1>3
    <2> QED BY <1>1, <1>4, <2>1, <2>2, <2>3, <2>4 DEF Stripped
  <1> QED BY <1>5, <1>6

(* Where a text has a gap: before its first character only by what lies in *)
(* front, before another within a block, and behind the last.              *)
LEMMA GapsAre ==
    ASSUME NEW t \in Texts, NEW m \in Nat, m <= Len(t)
    PROVE  /\ m = 0 => (Gap(t, m) <=> t[1] < 16 /\ before)
           /\ m # 0 /\ m % 8 = 0 => ~Gap(t, m)
           /\ m % 8 # 0 =>
                  (Gap(t, m) <=> t[m] % 16 = 0 /\ (m = Len(t) \/ t[m + 1] < 16))
  <1>1. PICK L \in Nat : L = Len(t) /\ L >= 1 BY CharDigits
  <1>2. ASSUME NEW x \in Nat, x < L
        PROVE  HexDigit(t, 2 * x) = 0 <=> t[x + 1] < 16
    <2>1. PICK c \in 1..127 : c = t[x + 1] BY <1>1, <1>2, CharDigits
    <2>2. c \div 16 = 0 <=> c < 16 OBVIOUS
    <2> QED BY <1>1, <1>2, <2>1, <2>2, CharDigits
  <1>3. m = 0 => (Gap(t, m) <=> t[1] < 16 /\ before)
    <2>1. HexDigit(t, 2 * 0) = 0 <=> t[0 + 1] < 16 BY <1>1, <1>2
    <2>2. 0 % 8 = 0 /\ 0 + 1 = 1 OBVIOUS
    <2> QED BY <2>1, <2>2 DEF Gap
  <1>4. m # 0 /\ m % 8 = 0 => ~Gap(t, m) BY DEF Gap
  <1>5. ASSUME m % 8 # 0
        PROVE  Gap(t, m) <=> t[m] % 16 = 0 /\ (m = Len(t) \/ t[m + 1] < 16)
    <2>1. m # 0 BY <1>5
    <2>2. PICK x \in Nat : x + 1 = m
      <3>1. m - 1 \in Nat /\ (m - 1) + 1 = m BY <2>1
      <3> QED BY <3>1
    <2>3. x < L BY <1>1, <2>2
    <2>4. 2 * m - 1 = 2 * x + 1 BY <2>2
    <2>5. HexDigit(t, 2 * m - 1) = t[m] % 16 BY <1>1, <2>2, <2>3, <2>4, CharDigits
    <2>6. CASE m = L
      <3>1. HexDigit(t, 2 * m) = 0 BY <1>1, <2>6, CharDigits
      <3> QED BY <1>1, <1>5, <2>5, <2>6, <3>1 DEF Gap
    <2>7. CASE m # L
      <3>1. m < L BY <1>1, <2>7
      <3>2. HexDigit(t, 2 * m) = 0 <=> t[m + 1] < 16 BY <1>2, <3>1
      <3> QED BY <1>1, <1>5, <2>5, <2>7, <3>2 DEF Gap
    <2> QED BY <2>6, <2>7
  <1> QED BY <1>3, <1>4, <1>5

(* What textFromHexString makes of the digits that are left: it ends at    *)
(* the first gap, and the character in front of it is its first digit.     *)
Back(t, e, n8) == [n \in 1..e |-> IF n < n8 /\ Gap(t, n) THEN t[n] \div 16 ELSE t[n]]

LEMMA ReadIs ==
    ASSUME NEW t \in Texts, NEW blocks, BlocksOf(t, blocks)
    PROVE  \E e \in 0..Len(t) :
               /\ e = Len(t) \/ Gap(t, e)
               /\ \A m \in 0..(e - 1) : ~Gap(t, m)
               /\ textFromHexString(blocks) =
                      IF e = 8 * Len(blocks) THEN Back(t, e, 8 * Len(blocks)) \o behind
                      ELSE Back(t, e, 8 * Len(blocks))
  <1>1. PICK n8 \in Nat : n8 = 8 * Len(blocks) BY BlocksHold DEF BlocksOf
  <1>2. PICK L \in Nat : L = Len(t) /\ L >= 1 /\ L <= n8
    <2>1. Len(t) \in Nat /\ Len(t) >= 1 BY CharDigits, 0 \in Nat
    <2>2. Len(t) <= 8 * Len(blocks) BY BlocksHold DEF BlocksOf
    <2> QED BY <1>1, <2>1, <2>2
  <1>3. ASSUME NEW m \in Nat, m <= n8
        PROVE  Ends(blocks, m) <=> m = n8 \/ Gap(t, m) \/ m >= L
    <2>1. CASE m = n8 BY <1>1, <2>1 DEF Ends
    <2>2. CASE m # n8
      <3>1. m < 8 * Len(blocks) BY <1>1, <1>3, <2>2
      <3>2. Stripped(blocks, 2 * m) <=> Gap(t, m) \/ m >= L
        BY <1>2, <3>1, StrippedAre
      <3> QED BY <1>1, <2>2, <3>2 DEF Ends
    <2> QED BY <2>1, <2>2
  <1> DEFINE T == {m \in Nat : m <= n8 /\ Ends(blocks, m)}
  <1>4. L \in T BY <1>2, <1>3
  <1>5. PICK e \in T : \A m \in T : e <= m
    <2>1. T \in SUBSET Nat /\ T # {} BY <1>4
    <2> HIDE DEF T
    <2> QED BY <2>1, LeastNat
  <1>6. e \in Nat /\ e <= L /\ e <= n8 /\ Ends(blocks, e)
        /\ \A m \in 0..(e - 1) : ~Ends(blocks, m)
    <2>1. e \in Nat /\ e <= n8 /\ Ends(blocks, e) /\ e <= L BY <1>4, <1>5
    <2>2. ASSUME NEW m \in 0..(e - 1) PROVE ~Ends(blocks, m)
      <3>1. m \in Nat /\ m <= n8 /\ ~(e <= m) BY <2>1
      <3> QED BY <1>5, <3>1
    <2> QED BY <2>1, <2>2
  <1> HIDE DEF T
  <1> DEFINE end == CHOOSE n \in 0..(8 * Len(blocks)) :
                        Ends(blocks, n) /\ \A m \in 0..(n - 1) : ~Ends(blocks, m)
  <1>7. end = e
    <2>1. e \in 0..(8 * Len(blocks)) BY <1>1, <1>6
    <2>2. /\ end \in 0..(8 * Len(blocks)) /\ Ends(blocks, end)
          /\ \A m \in 0..(end - 1) : ~Ends(blocks, m)
      BY <1>6, <2>1
    <2> HIDE DEF end
    <2>3. end \in Nat BY <1>1, <2>2
    <2>4. ~(e < end)
      <3>1. e < end => e \in 0..(end - 1) BY <1>6, <2>3
      <3> QED BY <1>6, <2>2, <3>1
    <2>5. ~(end < e)
      <3>1. end < e => end \in 0..(e - 1) BY <1>6, <2>3
      <3> QED BY <1>6, <2>2, <3>1
    <2> QED BY <1>6, <2>3, <2>4, <2>5
  <1> DEFINE read == [n \in 1..end |->
                   IF Stripped(blocks, 2 * n - 1) THEN Digit(blocks, 2 * n - 2)
                   ELSE 16 * Digit(blocks, 2 * n - 2) + Digit(blocks, 2 * n - 1)]
  <1>8. textFromHexString(blocks) = IF end = 8 * Len(blocks) THEN read \o behind ELSE read
    BY DEF textFromHexString
  <1>9. read = Back(t, e, 8 * Len(blocks))
    <2>1. ASSUME NEW n \in 1..e
          PROVE  (IF Stripped(blocks, 2 * n - 1) THEN Digit(blocks, 2 * n - 2)
                  ELSE 16 * Digit(blocks, 2 * n - 2) + Digit(blocks, 2 * n - 1))
                   = IF n < n8 /\ Gap(t, n) THEN t[n] \div 16 ELSE t[n]
      <3>1. PICK m \in Nat : m + 1 = n
        <4>1. n - 1 \in Nat /\ (n - 1) + 1 = n BY <1>6
        <4> QED BY <4>1
      <3>2. 2 * n - 1 = 2 * m + 1 /\ 2 * n - 2 = 2 * m BY <3>1
      <3>3. m < L /\ m < n8 /\ 2 * m < 2 * n8 /\ 2 * m + 1 < 2 * n8 BY <1>2, <1>6, <3>1
      <3>4. Stripped(blocks, 2 * m + 1) <=> n < n8 /\ Gap(t, n)
        BY <1>1, <1>2, <3>1, <3>3, StrippedAre
      <3>5. Digit(blocks, 2 * m) = HexDigit(t, 2 * m)
            /\ Digit(blocks, 2 * m + 1) = HexDigit(t, 2 * m + 1)
        <4>1. 2 * n8 = 16 * Len(blocks)
          <5>1. Len(blocks) \in Nat BY BlocksHold DEF BlocksOf
          <5> QED BY <1>1, <5>1
        <4>2. 2 * m \in Nat /\ 2 * m + 1 \in Nat OBVIOUS
        <4> QED BY <3>3, <4>1, <4>2, PlainDigit
      <3>6. PICK c \in 1..127 : c = t[n] BY <1>2, <3>1, <3>3, CharDigits
      <3>7. HexDigit(t, 2 * m) = c \div 16 /\ HexDigit(t, 2 * m + 1) = c % 16
        BY <1>2, <3>1, <3>3, <3>6, CharDigits
      <3>8. 16 * (c \div 16) + (c % 16) = c OBVIOUS
      <3> QED BY <3>2, <3>4, <3>5, <3>6, <3>7, <3>8
    <2>2. read = [n \in 1..e |->
                   IF Stripped(blocks, 2 * n - 1) THEN Digit(blocks, 2 * n - 2)
                   ELSE 16 * Digit(blocks, 2 * n - 2) + Digit(blocks, 2 * n - 1)]
      BY <1>7
    <2> HIDE DEF read, end
    <2> QED BY <1>1, <2>1, <2>2 DEF Back
  <1> HIDE DEF read, end
  <1>10. \A m \in 0..(e - 1) : ~Gap(t, m)
    <2>1. \A m \in 0..(e - 1) : m \in Nat /\ m <= n8 BY <1>6
    <2> QED BY <1>3, <1>6, <2>1
  <1>11. e = L \/ Gap(t, e) BY <1>2, <1>3, <1>6
  <1>12. e \in 0..Len(t) BY <1>2, <1>6
  <1> QED BY <1>2, <1>7, <1>8, <1>9, <1>10, <1>11, <1>12

(* Which texts come back is a matter of where their gaps are.              *)
LEMMA GapsDecide ==
    ASSUME NEW t \in Texts, NEW blocks, BlocksOf(t, blocks), behind \in {<< >>, << 48 >>}
    PROVE  textFromHexString(blocks) = t <=>
               /\ \A m \in 0..(Len(t) - 1) : ~Gap(t, m)
               /\ Len(t) % 8 # 0 => ~Gap(t, Len(t))
               /\ Len(t) % 8 = 0 => behind = << >>
  <1>1. PICK n8 \in Nat : n8 = 8 * Len(blocks) BY BlocksHold DEF BlocksOf
  <1>2. PICK L \in Nat : L = Len(t) /\ L >= 1 /\ L <= n8 /\ (L = n8 <=> L % 8 = 0)
    <2>1. Len(t) \in Nat /\ Len(t) >= 1 BY CharDigits, 0 \in Nat
    <2>2. Len(t) <= 8 * Len(blocks) /\ (Len(t) = 8 * Len(blocks) <=> Len(t) % 8 = 0)
      BY BlocksHold DEF BlocksOf
    <2> QED BY <1>1, <2>1, <2>2
  <1>3. PICK e \in 0..L :
               /\ e = L \/ Gap(t, e)
               /\ \A m \in 0..(e - 1) : ~Gap(t, m)
               /\ textFromHexString(blocks) =
                      IF e = n8 THEN Back(t, e, n8) \o behind ELSE Back(t, e, n8)
    BY <1>1, <1>2, ReadIs
  <1>4. PICK r : r = Back(t, e, n8) OBVIOUS
  <1>5. r \in Seq(Int) /\ Len(r) = e
    <2>1. \A n \in 1..e : t[n] \in 1..127
      <3>1. ASSUME NEW n \in 1..e PROVE t[n] \in 1..127
        <4>1. n - 1 \in Nat /\ n - 1 < L /\ (n - 1) + 1 = n BY <1>2, <1>3
        <4> QED BY <1>2, <4>1, CharDigits
      <3> QED BY <3>1
    <2>2. \A n \in 1..e : (IF n < n8 /\ Gap(t, n) THEN t[n] \div 16 ELSE t[n]) \in Int
      <3>1. ASSUME NEW n \in 1..e
            PROVE  (IF n < n8 /\ Gap(t, n) THEN t[n] \div 16 ELSE t[n]) \in Int
        <4>1. PICK c \in 1..127 : c = t[n] BY <2>1
        <4>2. c \div 16 \in Int OBVIOUS
        <4> QED BY <4>1, <4>2
      <3> QED BY <3>1
    <2>3. r \in [1..e -> Int] BY <1>4, <2>2 DEF Back
    <2>4. e \in Nat BY <1>2
    <2> QED BY <2>3, <2>4
  <1>6. t \in Seq(1..127) BY TextsAssumption
  <1>7. CASE e < L
    <2>1. ~(e = n8) BY <1>2, <1>7
    <2>2. textFromHexString(blocks) # t BY <1>2, <1>3, <1>4, <1>5, <1>7, <2>1
    <2>3. Gap(t, e) /\ e \in 0..(L - 1) BY <1>2, <1>3, <1>7
    <2> QED BY <1>2, <2>2, <2>3
  <1>8. CASE e = L /\ L # n8
    <2>1. textFromHexString(blocks) = r BY <1>3, <1>4, <1>8
    <2>2. Len(t) % 8 # 0 BY <1>2, <1>8
    <2>3. PICK c \in 1..127 : c = t[L]
      <3>1. L - 1 \in Nat /\ L - 1 < L /\ (L - 1) + 1 = L BY <1>2
      <3> QED BY <1>2, <3>1, CharDigits
    <2>4. r[L] = IF Gap(t, L) THEN c \div 16 ELSE c
      <3>1. L \in 1..e /\ L < n8 BY <1>2, <1>8
      <3> QED BY <1>4, <2>3, <3>1 DEF Back
    <2>5. CASE Gap(t, L)
      <3>1. c \div 16 # c OBVIOUS
      <3>2. r # t BY <2>3, <2>4, <2>5, <3>1
      <3> QED BY <1>2, <2>1, <2>2, <2>5, <3>2
    <2>6. CASE ~Gap(t, L)
      <3>1. ASSUME NEW n \in 1..L PROVE r[n] = t[n]
        <4>1. ~Gap(t, n)
          <5>1. n = L \/ n \in 0..(e - 1) BY <1>2, <1>8
          <5> QED BY <1>3, <2>6, <5>1
        <4> QED BY <1>4, <1>8, <4>1 DEF Back
      <3>2. r = t
        <4>1. r = [n \in 1..L |-> r[n]] BY <1>4, <1>8 DEF Back
        <4>2. t = [n \in 1..L |-> t[n]] BY <1>2, <1>6
        <4> QED BY <3>1, <4>1, <4>2
      <3> QED BY <1>2, <1>3, <1>8, <2>1, <2>2, <2>6, <3>2
    <2> QED BY <2>5, <2>6
  <1>9. CASE e = L /\ L = n8
    <2>1. textFromHexString(blocks) = r \o behind BY <1>3, <1>4, <1>9
    <2>2. Len(t) % 8 = 0 BY <1>2, <1>9
    <2>3. r = t
      <3>1. ASSUME NEW n \in 1..L PROVE r[n] = t[n]
        <4>1. ~(n < n8 /\ Gap(t, n))
          <5>1. n < n8 => n \in 0..(e - 1) BY <1>2, <1>9
          <5> QED BY <1>3, <5>1
        <4> QED BY <1>4, <1>9, <4>1 DEF Back
      <3>2. r = [n \in 1..L |-> r[n]] BY <1>4, <1>9 DEF Back
      <3>3. t = [n \in 1..L |-> t[n]] BY <1>2, <1>6
      <3> QED BY <3>1, <3>2, <3>3
    <2>4. t \o behind = t <=> behind = << >>
      <3>1. CASE behind = << >> BY <1>6, <3>1
      <3>2. CASE behind = << 48 >>
        <4>1. Len(t \o << 48 >>) = Len(t) + 1 BY <1>6
        <4>2. << 48 >> # << >> OBVIOUS
        <4> QED BY <1>2, <3>2, <4>1, <4>2
      <3> QED BY <3>1, <3>2
    <2> QED BY <1>2, <1>3, <1>9, <2>1, <2>2, <2>3, <2>4
  <1> QED BY <1>2, <1>3, <1>7, <1>8, <1>9

LEMMA GapsAreLooks ==
    ASSUME NEW t \in Texts
    PROVE  (/\ \A m \in 0..(Len(t) - 1) : ~Gap(t, m)
            /\ Len(t) % 8 # 0 => ~Gap(t, Len(t)))
           <=> (~LooksFilled(t) /\ (t[1] < 16 => ~before))
  <1>1. PICK L \in Nat : L = Len(t) /\ L >= 1 BY CharDigits, 0 \in Nat
  <1>2. \A m \in 1..L : m \in Nat /\ m <= L /\ m # 0 BY <1>1
  <1>3. LooksFilled(t) <=> \E m \in 1..L : m % 8 # 0 /\ Gap(t, m)
    <2>1. t \in Seq(1..127) BY TextsAssumption
    <2>2. DOMAIN t = 1..L BY <1>1, <2>1
    <2>3. \A m \in 1..L : m % 8 # 0 =>
              (Gap(t, m) <=> t[m] % 16 = 0 /\ (m = L \/ t[m + 1] < 16))
      BY <1>1, <1>2, GapsAre
    <2> QED BY <1>1, <2>2, <2>3 DEF LooksFilled
  <1>4. \A m \in 1..L : m % 8 = 0 => ~Gap(t, m)
    BY <1>1, <1>2, GapsAre
  <1>5. Gap(t, 0) <=> t[1] < 16 /\ before
    <2>1. 0 \in Nat /\ 0 <= Len(t) BY <1>1
    <2> QED BY <2>1, GapsAre
  <1>6. (\A m \in 0..(L - 1) : ~Gap(t, m)) /\ (L % 8 # 0 => ~Gap(t, L))
        <=> ~Gap(t, 0) /\ \A m \in 1..L : ~(m % 8 # 0 /\ Gap(t, m))
    <2>1. \A m \in 0..(L - 1) : m = 0 \/ m \in 1..L BY <1>1
    <2>2. \A m \in 1..L : m = L \/ m \in 0..(L - 1) BY <1>1
    <2>3. 0 \in 0..(L - 1) /\ L \in 1..L BY <1>1
    <2> QED BY <1>4, <2>1, <2>2, <2>3
  <1> QED BY <1>1, <1>3, <1>5, <1>6

(* The last step reads the blocks of the text, and nothing follows it.     *)
LEMMA StripsTheText ==
    ASSUME CbcInv, Strip
    PROVE  /\ text \in Texts /\ BlocksOf(text, plain) /\ behind \in {<< >>, << 48 >>}
           /\ result' = textFromHexString(plain) /\ pc' = "done"
           /\ UNCHANGED << text, before, behind >>
  <1>1. Types /\ Retraced BY DEF CbcInv
  <1>2. text \in Texts /\ behind \in {<< >>, << 48 >>} BY <1>1 DEF Types, TypeOK
  <1>3. Len(plain) = blockCount(text) BY <1>1 DEF Strip, Types, Stage
  <1> QED BY <1>1, <1>2, <1>3 DEF Strip, BlocksOf, Retraced

LEMMA OnlyStripEnds ==
    ASSUME [Next]_vars, pc' = "done"
    PROVE  Strip \/ (pc = "done" /\ UNCHANGED << text, before, behind, result >>)
  BY DEF Next, vars, Done, generateSubkeys, EncryptsBlock, EncryptRound,
     EncryptEnds, Deciphers, DecryptsBlock, DecryptRound, DecryptEnds

(* Of all texts and keys, and whatever lies in memory, exactly those texts *)
(* come back that Survives names: no other is altered, and each of these is*)
(* (lines 413-430 of present_cbc.h).                                       *)
THEOREM AlwaysSurvives == Spec => []Survives
  <1>1. Init => Survives BY DEF Init, Survives
  <1>2. CbcInv /\ Survives /\ [Next]_vars => Survives'
    <2> SUFFICES ASSUME CbcInv, Survives, [Next]_vars, pc' = "done" PROVE Survives'
      BY DEF Survives
    <2>1. CASE Strip
      <3>1. /\ text \in Texts /\ BlocksOf(text, plain) /\ behind \in {<< >>, << 48 >>}
            /\ result' = textFromHexString(plain)
            /\ UNCHANGED << text, before, behind >>
        BY <2>1, StripsTheText
      <3>2. textFromHexString(plain) = text <=>
                 /\ \A m \in 0..(Len(text) - 1) : ~Gap(text, m)
                 /\ Len(text) % 8 # 0 => ~Gap(text, Len(text))
                 /\ Len(text) % 8 = 0 => behind = << >>
        BY ONLY <3>1, GapsDecide
      <3>3. (/\ \A m \in 0..(Len(text) - 1) : ~Gap(text, m)
             /\ Len(text) % 8 # 0 => ~Gap(text, Len(text)))
            <=> (~LooksFilled(text) /\ (text[1] < 16 => ~before))
        BY ONLY <3>1, GapsAreLooks
      <3>4. result' = text <=> /\ ~LooksFilled(text)
                               /\ text[1] < 16 => ~before
                               /\ Len(text) % 8 = 0 => behind = << >>
        BY ONLY <3>1, <3>2, <3>3
      <3> QED BY <3>1, <3>4 DEF Survives, LooksFilled
    <2>2. CASE pc = "done" /\ UNCHANGED << text, before, behind, result >>
      BY <2>2 DEF Survives, LooksFilled
    <2> QED BY <2>1, <2>2, OnlyStripEnds
  <1> QED BY <1>1, <1>2, CbcInvInit, RetracedNext, PTL DEF Spec

(* For printable texts, such as the stanzas of the client, it comes down to*)
(* the last character: within a block it must not end in the digit 0, as   *)
(* '>' does not, and on the end of one it takes a NUL in memory.           *)
Printable(t) == \A n \in DOMAIN t : t[n] >= 16

PrintableSurvives ==
    pc = "done" /\ Printable(text) =>
        (result = text <=> IF Len(text) % 8 = 0 THEN behind = << >>
                           ELSE text[Len(text)] % 16 # 0)

(* So it is of every printable text and every key, whatever lies in memory *)
(* (lines 413-430).                                                        *)
THEOREM PrintableComesBack == Spec => []PrintableSurvives
  <1>1. TypeOK /\ Survives => PrintableSurvives
    <2> SUFFICES ASSUME TypeOK, Survives, pc = "done", Printable(text)
                 PROVE  result = text <=> IF Len(text) % 8 = 0 THEN behind = << >>
                                          ELSE text[Len(text)] % 16 # 0
      BY DEF PrintableSurvives
    <2>1. PICK t \in Texts : t = text BY DEF TypeOK
    <2>2. PICK L \in Nat : L = Len(t) /\ L >= 1 BY CharDigits, 0 \in Nat
    <2>3. t \in Seq(1..127) /\ DOMAIN t = 1..L BY <2>2, TextsAssumption
    <2>4. \A n \in 1..L : t[n] \in 1..127 /\ t[n] >= 16
      <3>1. \A n \in 1..L : t[n] \in 1..127 BY <2>2, <2>3, ElementOfSeq
      <3> QED BY <2>1, <2>3, <3>1 DEF Printable
    <2>5. ~(t[1] < 16)
      <3>1. 1 \in 1..L BY <2>2
      <3> QED BY <2>4, <3>1
    <2>6. \A n \in 1..L : n # L => ~(t[n + 1] < 16)
      <3>1. \A n \in 1..L : n # L => n + 1 \in 1..L BY <2>2
      <3> QED BY <2>4, <3>1
    <2>7. LooksFilled(t) <=> t[L] % 16 = 0 /\ L % 8 # 0
      <3>1. L \in 1..L BY <2>2
      <3> QED BY <2>2, <2>3, <2>6, <3>1 DEF LooksFilled
    <2> QED BY <2>1, <2>2, <2>5, <2>7 DEF Survives
  <1> QED BY <1>1, AlwaysTypeOK, AlwaysSurvives, PTL

(* What comes back of any text begins as the text: it may end early, the   *)
(* last character that is read may have lost the digit 0 it ended in, and  *)
(* behind a whole text may stand what was in memory; nothing else changes. *)
BeginsAsText ==
    pc = "done" =>
        \/ result = text \o behind
        \/ \E e \in 0..Len(text) :
               /\ Len(result) = e
               /\ \A n \in 1..e : \/ result[n] = text[n]
                                  \/ n = e /\ text[n] = 16 * result[n]

LEMMA BackBegins ==
    ASSUME NEW t \in Texts, NEW e \in 0..Len(t), NEW n8,
           \A m \in 0..(e - 1) : ~Gap(t, m)
    PROVE  /\ Len(Back(t, e, n8)) = e
           /\ \A n \in 1..e : \/ Back(t, e, n8)[n] = t[n]
                              \/ n = e /\ t[n] = 16 * Back(t, e, n8)[n]
  <1>1. PICK L \in Nat : L = Len(t) /\ L >= 1 BY CharDigits, 0 \in Nat
  <1>2. e \in Nat /\ e <= L BY <1>1
  <1>3. PICK r : r = Back(t, e, n8) OBVIOUS
  <1>4. r \in [1..e -> {r[n] : n \in 1..e}] BY <1>3 DEF Back
  <1>5. Len(r) = e BY <1>2, <1>4
  <1>6. ASSUME NEW n \in 1..e PROVE r[n] = t[n] \/ (n = e /\ t[n] = 16 * r[n])
    <2>1. PICK c \in 1..127 : c = t[n]
      <3>1. n - 1 \in Nat /\ n - 1 < L /\ (n - 1) + 1 = n BY <1>2
      <3> QED BY <1>1, <3>1, CharDigits
    <2>2. CASE Gap(t, n)
      <3>1. n = e
        <4>1. n = e \/ n \in 0..(e - 1) BY <1>2
        <4> QED BY <2>2, <4>1
      <3>2. n \in Nat /\ n <= Len(t) /\ n # 0 BY <1>1, <1>2
      <3>3. c % 16 = 0 BY <2>1, <2>2, <3>2, GapsAre
      <3>4. 16 * (c \div 16) = c BY <3>3
      <3>5. r[n] = IF n < n8 /\ Gap(t, n) THEN c \div 16 ELSE c BY <1>3, <2>1 DEF Back
      <3> QED BY <2>1, <3>1, <3>4, <3>5
    <2>3. CASE ~Gap(t, n) BY <1>3, <2>3 DEF Back
    <2> QED BY <2>2, <2>3
  <1> QED BY <1>3, <1>5, <1>6

(* Whatever is read of a text that does not come back is the text cut      *)
(* short, with at most its last character changed (authModule.h:436-455).  *)
THEOREM ComesBackCut == Spec => []BeginsAsText
  <1>1. Init => BeginsAsText BY DEF Init, BeginsAsText
  <1>2. CbcInv /\ BeginsAsText /\ [Next]_vars => BeginsAsText'
    <2> SUFFICES ASSUME CbcInv, BeginsAsText, [Next]_vars, pc' = "done" PROVE BeginsAsText'
      BY DEF BeginsAsText
    <2>1. CASE Strip
      <3>1. /\ text \in Texts /\ BlocksOf(text, plain)
            /\ result' = textFromHexString(plain)
            /\ UNCHANGED << text, before, behind >>
        BY <2>1, StripsTheText
      <3>2. PICK e \in 0..Len(text) :
                /\ e = Len(text) \/ Gap(text, e)
                /\ \A m \in 0..(e - 1) : ~Gap(text, m)
                /\ result' = IF e = 8 * Len(plain) THEN Back(text, e, 8 * Len(plain)) \o behind
                             ELSE Back(text, e, 8 * Len(plain))
        BY <3>1, ReadIs
      <3>3. PICK r : r = Back(text, e, 8 * Len(plain)) OBVIOUS
      <3>4. /\ Len(r) = e
            /\ \A n \in 1..e : r[n] = text[n] \/ (n = e /\ text[n] = 16 * r[n])
        BY <3>1, <3>2, <3>3, BackBegins
      <3>5. CASE e = 8 * Len(plain)
        <4>1. PICK L \in Nat : L = Len(text) /\ L >= 1 /\ L <= 8 * Len(plain)
          <5>1. Len(text) \in Nat /\ Len(text) >= 1 BY <3>1, CharDigits, 0 \in Nat
          <5>2. Len(text) <= 8 * Len(plain) BY <3>1, BlocksHold DEF BlocksOf
          <5> QED BY <5>1, <5>2
        <4>2. e = L
          <5>1. Len(plain) \in Nat BY <3>1, BlocksHold DEF BlocksOf
          <5> QED BY <3>5, <4>1, <5>1
        <4>3. \A n \in 1..L : r[n] = text[n]
          <5>1. \A n \in 1..L : ~(n < 8 * Len(plain) /\ Gap(text, n))
            <6>1. \A n \in 1..L : n < L => n \in 0..(e - 1) BY <4>1, <4>2
            <6> QED BY <3>2, <3>5, <4>1, <4>2, <6>1
          <5> QED BY <3>3, <4>2, <5>1 DEF Back
        <4>4. r = text
          <5>1. r = [n \in 1..L |-> r[n]] BY <3>3, <4>2 DEF Back
          <5>2. text \in Seq(1..127) BY <3>1, TextsAssumption
          <5>3. text = [n \in 1..L |-> text[n]] BY <4>1, <5>2
          <5> QED BY <4>3, <5>1, <5>3
        <4> QED BY <3>1, <3>2, <3>3, <3>5, <4>4 DEF BeginsAsText
      <3>6. CASE e # 8 * Len(plain)
        <4>1. result' = r BY <3>2, <3>3, <3>6
        <4> QED BY <3>1, <3>4, <4>1 DEF BeginsAsText
      <3> QED BY <3>5, <3>6
    <2>2. CASE pc = "done" /\ UNCHANGED << text, before, behind, result >>
      BY <2>2 DEF BeginsAsText
    <2> QED BY <2>1, <2>2, OnlyStripEnds
  <1> QED BY <1>1, <1>2, CbcInvInit, RetracedNext, PTL DEF Spec
=============================================================================
