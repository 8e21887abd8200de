----------------------------- MODULE ScramProofs -----------------------------
(***************************************************************************)
(* What holds of base64, of the derived key and of the proof for every     *)
(* hash, block length, password, challenge and iteration count.            *)
(***************************************************************************)
EXTENDS Scram, SequenceTheorems, FiniteSetTheorems, TLAPS

-----------------------------------------------------------------------------
(* Base64.  The lengths of both forms, by the rest modulo three.           *)

LEMMA Lengths64 ==
    ASSUME NEW n \in Nat
    PROVE  LET m == 4 * ((n + 2) \div 3)
               pads == (3 - (n % 3)) % 3
           IN  /\ m \in Nat /\ pads \in 0..2 /\ pads <= m
               /\ 3 * (m \div 4) - pads = n
               /\ n > 0 => m >= 4
               /\ \A pos \in 0..(8 * n - 1) : (pos \div 6) + 1 \in 1..(m - pads)
  <1>1. PICK k \in Nat, r \in 0..2 : n = 3 * k + r
    <2>1. n \div 3 \in Nat /\ n % 3 \in 0..2 /\ n = 3 * (n \div 3) + (n % 3)
      OBVIOUS
    <2> QED BY <2>1
  <1>2. n % 3 = r BY <1>1
  <1>3. CASE r = 0
    <2>1. (n + 2) \div 3 = k /\ (3 - (n % 3)) % 3 = 0 BY <1>1, <1>2, <1>3
    <2>2. (4 * k) \div 4 = k OBVIOUS
    <2>3. ASSUME NEW pos \in 0..(8 * n - 1) PROVE (pos \div 6) + 1 \in 1..(4 * k)
      BY <1>1, <1>3
    <2> QED BY <1>1, <1>3, <2>1, <2>2, <2>3
  <1>4. CASE r = 1
    <2>1. (n + 2) \div 3 = k + 1 /\ (3 - (n % 3)) % 3 = 2 BY <1>1, <1>2, <1>4
    <2>2. (4 * (k + 1)) \div 4 = k + 1 OBVIOUS
    <2>3. ASSUME NEW pos \in 0..(8 * n - 1) PROVE (pos \div 6) + 1 \in 1..(4 * (k + 1) - 2)
      BY <1>1, <1>4
    <2> QED BY <1>1, <1>4, <2>1, <2>2, <2>3
  <1>5. CASE r = 2
    <2>1. (n + 2) \div 3 = k + 1 /\ (3 - (n % 3)) % 3 = 1 BY <1>1, <1>2, <1>5
    <2>2. (4 * (k + 1)) \div 4 = k + 1 OBVIOUS
    <2>3. ASSUME NEW pos \in 0..(8 * n - 1) PROVE (pos \div 6) + 1 \in 1..(4 * (k + 1) - 1)
      BY <1>1, <1>5
    <2> QED BY <1>1, <1>5, <2>1, <2>2, <2>3
  <1> QED BY <1>3, <1>4, <1>5

(* The six bits of character j, where no '=' stands.                       *)
SixBits(d, n, j) ==
    {q \in 0..5 : /\ 6 * (j - 1) + 5 - q < 8 * n
                  /\ 7 - ((6 * (j - 1) + 5 - q) % 8) \in
                        d[((6 * (j - 1) + 5 - q) \div 8) + 1]}

LEMMA EncodedIs ==
    ASSUME NEW d \in Seq(Octet), NEW n \in Nat, n = Len(d),
           NEW m \in Nat, m = 4 * ((n + 2) \div 3),
           NEW pads \in 0..2, pads = (3 - (n % 3)) % 3
    PROVE  /\ Len(encodeBase64(d)) = m
           /\ \A j \in 1..m : j > m - pads => encodeBase64(d)[j] = Pad
           /\ \A j \in 1..m : j <= m - pads =>
                 encodeBase64(d)[j] = SixBits(d, n, j) /\ SixBits(d, n, j) # Pad
  <1>1. encodeBase64(d) = [j \in 1..m |-> IF j > m - pads THEN Pad
          ELSE SixBits(d, n, j)]
    BY Zenon DEF encodeBase64, SixBits
  <1>2. Len(encodeBase64(d)) = m BY <1>1
  <1>3. \A j \in 1..m : j <= m - pads => ~(j > m - pads) OBVIOUS
  <1>4. \A j \in 1..m : SixBits(d, n, j) # Pad
    <2>1. \A j \in 1..m : 6 \notin SixBits(d, n, j) BY DEF SixBits
    <2> QED BY <2>1 DEF Pad
  <1> QED BY <1>1, <1>2, <1>3, <1>4

LEMMA EncodedPads ==
    ASSUME NEW d \in Seq(Octet), NEW n \in Nat, n = Len(d), n > 0
    PROVE  Pads(encodeBase64(d)) = (3 - (n % 3)) % 3
  <1>1. PICK m \in Nat, pads \in 0..2 : /\ m = 4 * ((n + 2) \div 3)
                                        /\ pads = (3 - (n % 3)) % 3 /\ m >= 4
    BY Lengths64
  <1>2. PICK e : e = encodeBase64(d) OBVIOUS
  <1>3. /\ Len(e) = m
        /\ \A j \in 1..m : j > m - pads => e[j] = Pad
        /\ \A j \in 1..m : j <= m - pads => e[j] # Pad
    <2>1. /\ Len(e) = m
          /\ \A j \in 1..m : j > m - pads => e[j] = Pad
          /\ \A j \in 1..m : j <= m - pads => e[j] = SixBits(d, n, j) /\ SixBits(d, n, j) # Pad
      <3>1. m = 4 * ((n + 2) \div 3) /\ pads = (3 - (n % 3)) % 3 BY <1>1
      <3>2. Len(e) = m BY <1>2, <3>1, EncodedIs
      <3>3. \A j \in 1..m : j > m - pads => e[j] = Pad BY <1>2, <3>1, EncodedIs
      <3>4. \A j \in 1..m : j <= m - pads => e[j] = SixBits(d, n, j) /\ SixBits(d, n, j) # Pad
        BY <1>2, <3>1, EncodedIs
      <3> QED BY <3>2, <3>3, <3>4
    <2> QED BY <2>1
  <1>4. m \in 1..m /\ m - 1 \in 1..m BY <1>1
  <1>5. CASE pads = 0 BY <1>1, <1>2, <1>3, <1>4, <1>5 DEF Pads
  <1>6. CASE pads = 1 BY <1>1, <1>2, <1>3, <1>4, <1>6 DEF Pads
  <1>7. CASE pads = 2 BY <1>1, <1>2, <1>3, <1>4, <1>7 DEF Pads
  <1> QED BY <1>5, <1>6, <1>7

(* decodeBase64 gives back what encodeBase64 was given, whatever the bytes *)
(* and their number: the padding counts what the last group lacks.         *)
THEOREM Base64Back == \A d \in Seq(Octet) : d # << >> => decodeBase64(encodeBase64(d)) = d
  <1> SUFFICES ASSUME NEW d \in Seq(Octet), d # << >>
               PROVE  decodeBase64(encodeBase64(d)) = d
    OBVIOUS
  <1>1. PICK n \in Nat : n = Len(d) /\ n > 0 BY EmptySeq
  <1>2. PICK m \in Nat, pads \in 0..2 : /\ m = 4 * ((n + 2) \div 3)
                                        /\ pads = (3 - (n % 3)) % 3
    BY Lengths64
  <1>3. /\ 3 * (m \div 4) - pads = n
        /\ \A pos \in 0..(8 * n - 1) : (pos \div 6) + 1 \in 1..(m - pads)
    BY <1>2, Lengths64
  <1>4. PICK e : e = encodeBase64(d) OBVIOUS
  <1>5. Len(e) = m /\ Pads(e) = pads BY <1>1, <1>2, <1>4, EncodedIs, EncodedPads
  <1> DEFINE Bit(pos) == LET c == e[(pos \div 6) + 1] IN c # Pad /\ 5 - (pos % 6) \in c
  <1>6. decodeBase64(e) = [i \in 1..n |-> {p \in 0..7 : Bit(8 * (i - 1) + 7 - p)}]
    BY <1>3, <1>5 DEF decodeBase64
  <1>7. ASSUME NEW i \in 1..n, NEW p \in 0..7
        PROVE  Bit(8 * (i - 1) + 7 - p) <=> p \in d[i]
    <2>1. PICK pos \in Nat : pos = 8 * (i - 1) + 7 - p OBVIOUS
    <2>2. pos \in 0..(8 * n - 1) /\ 7 - (pos % 8) = p /\ (pos \div 8) + 1 = i
      <3>1. pos = 8 * (i - 1) + (7 - p) /\ 7 - p \in 0..7 BY <2>1
      <3>2. pos \div 8 = i - 1 BY <3>1
      <3>3. pos % 8 = 7 - p BY <3>1
      <3> QED BY <3>1, <3>2, <3>3
    <2>3. PICK j \in 1..(m - pads), q \in 0..5 :
             j = (pos \div 6) + 1 /\ q = 5 - (pos % 6)
      <3>1. (pos \div 6) + 1 \in 1..(m - pads) BY <1>3, <2>2
      <3>2. 5 - (pos % 6) \in 0..5 BY <2>1
      <3> QED BY <3>1, <3>2
    <2>4. 6 * (j - 1) + 5 - q = pos
      <3>1. pos = 6 * (pos \div 6) + (pos % 6) OBVIOUS
      <3>2. j - 1 = pos \div 6 /\ 5 - q = pos % 6 BY <2>3
      <3> QED BY <3>1, <3>2
    <2>5. e[j] = SixBits(d, n, j) /\ e[j] # Pad
      <3>1. j \in 1..m /\ j <= m - pads OBVIOUS
      <3> QED BY <1>1, <1>2, <1>4, <3>1, EncodedIs
    <2>6. q \in e[j] <=> p \in d[i]
      <3>1. q \in e[j] <=> /\ 6 * (j - 1) + 5 - q < 8 * n
                           /\ 7 - ((6 * (j - 1) + 5 - q) % 8) \in
                                     d[((6 * (j - 1) + 5 - q) \div 8) + 1]
        BY <2>5 DEF SixBits
      <3>2. pos < 8 * n BY <2>2
      <3> QED BY <2>2, <2>4, <3>1, <3>2
    <2> QED BY <2>1, <2>3, <2>5, <2>6
  <1>8. \A i \in 1..n : d[i] = {p \in 0..7 : p \in d[i]}
    <2>1. \A i \in 1..n : d[i] \in Octet BY <1>1, ElementOfSeq
    <2> QED BY <2>1 DEF Octet
  <1> HIDE DEF Bit
  <1>9. \A i \in 1..n : {p \in 0..7 : Bit(8 * (i - 1) + 7 - p)} = d[i]
    BY <1>7, <1>8
  <1>10. d = [i \in 1..n |-> d[i]] BY <1>1
  <1> QED BY <1>4, <1>6, <1>9, <1>10

-----------------------------------------------------------------------------
(* Digests and C strings.                                                  *)

Digest == [1..D -> Byte]

LEMMA DIsPositive == D \in Nat \ {0} /\ B \in Nat /\ D <= B
  BY HmacAssumption

LEMMA SequencesAre == \A n \in Nat : \A T : [1..n -> T] \subseteq Seq(T)
  OBVIOUS

LEMMA Sha1Type == \A m : sha1(m) \in Digest
  BY DEF sha1, Digest, Byte

LEMMA HmacType == \A key, m : sha1_hmac(key, m) \in Digest
  BY Sha1Type DEF sha1_hmac, sha1_hmac_finish

LEMMA DigestIsSeq == \A d \in Digest : d \in Seq(Byte) /\ Len(d) = D /\ DOMAIN d = 1..D
  BY DIsPositive DEF Digest

(* The context's pads are those of the key, filled up with zero bytes: the *)
(* keyed hash of the code is that of RFC 2104, for keys of any length.     *)
THEOREM HmacIsRfc2104 ==
    \A key \in Seq(Byte) : \A m : HMAC(key, m) = sha1_hmac(key, m)
  <1> TAKE key \in Seq(Byte)
  <1> TAKE m
  <1>1. PICK k \in Seq(Byte) : k = (IF Len(key) > B THEN sha1(key) ELSE key) /\ Len(k) <= B
    <2>1. sha1(key) \in Seq(Byte) /\ Len(sha1(key)) <= B
      BY Sha1Type, DigestIsSeq, DIsPositive
    <2> QED BY <2>1, DIsPositive
  <1> DEFINE K == k \o [n \in 1..(B - Len(k)) |-> NUL]
             Under(pad) == [n \in 1..B |-> xorByte(K[n], pad)]
             Padded(pad) == [n \in 1..B |-> IF n <= Len(k) THEN xorByte(pad, k[n]) ELSE pad]
  <1>2. HMAC(key, m) = sha1(Under(Opad) \o sha1(Under(Ipad) \o m))
    BY <1>1, Zenon DEF HMAC
  <1>3. sha1_hmac_starts(key) = [opad |-> Padded(Opad), hashed |-> Padded(Ipad)]
    BY <1>1, Zenon DEF sha1_hmac_starts
  <1>4. ASSUME NEW pad \in Byte PROVE Under(pad) = Padded(pad)
    <2>1. PICK z : z = [n \in 1..(B - Len(k)) |-> NUL] OBVIOUS
    <2>2. PICK l \in Nat : l = Len(k) /\ B - l \in Nat BY <1>1, DIsPositive
    <2>3. z \in Seq(Byte) /\ Len(z) = B - l
      <3>1. z \in [1..(B - l) -> Byte] BY <2>1, <2>2 DEF NUL, Byte
      <3> QED BY <2>2, <3>1
    <2>4. /\ \A n \in 1..l : (k \o z)[n] = k[n]
          /\ \A n \in (l + 1)..B : (k \o z)[n] = NUL
      <3>1. \A n \in 1..l : (k \o z)[n] = k[n] BY <1>1, <2>2, <2>3, ConcatProperties
      <3>2. ASSUME NEW n \in (l + 1)..B PROVE (k \o z)[n] = NUL
        <4>1. n - l \in 1..(B - l) /\ n \in 1..B /\ n > l BY <2>2, DIsPositive
        <4>2. (k \o z)[n] = z[n - l] BY <1>1, <2>2, <2>3, <4>1, DIsPositive
        <4> QED BY <2>1, <2>2, <4>1, <4>2
      <3> QED BY <3>1, <3>2
    <2>5. ASSUME NEW n \in 1..B
          PROVE  xorByte(K[n], pad) = IF n <= Len(k) THEN xorByte(pad, k[n]) ELSE pad
      <3>1. CASE n <= l
        <4>1. n \in 1..l BY <2>2, <3>1, DIsPositive
        <4>2. K[n] = k[n] BY <2>1, <2>4, <4>1, Zenon
        <4>3. xorByte(k[n], pad) = xorByte(pad, k[n]) BY DEF xorByte
        <4> QED BY <2>2, <3>1, <4>2, <4>3, Zenon
      <3>2. CASE ~(n <= l)
        <4>1. n \in (l + 1)..B BY <2>2, <3>2, DIsPositive
        <4>2. K[n] = NUL BY <2>1, <2>4, <4>1, Zenon
        <4>3. xorByte(NUL, pad) = pad BY DEF xorByte, NUL
        <4> QED BY <2>2, <3>2, <4>2, <4>3, Zenon
      <3> QED BY <3>1, <3>2
    <2> HIDE DEF K
    <2> QED BY <2>5
  <1>5. Under(Opad) = Padded(Opad) /\ Under(Ipad) = Padded(Ipad)
    BY <1>4, HmacAssumption
  <1> HIDE DEF Under, Padded
  <1>6. PICK o, h : o = Padded(Opad) /\ h = Padded(Ipad) OBVIOUS
  <1>7. PICK r : r = [opad |-> o, hashed |-> h] OBVIOUS
  <1>8. PICK y : y = h \o m OBVIOUS
  <1>9. sha1_hmac_update(r, m) = [opad |-> o, hashed |-> y]
    <2>1. r.hashed = h BY <1>7
    <2>2. sha1_hmac_update(r, m) = [r EXCEPT !.hashed = y]
      BY <1>8, <2>1, Zenon DEF sha1_hmac_update
    <2>3. [r EXCEPT !.hashed = y] = [opad |-> o, hashed |-> y] BY <1>7
    <2> QED BY <2>2, <2>3, Zenon
  <1>10. sha1_hmac_finish([opad |-> o, hashed |-> y]) = sha1(o \o sha1(y))
    <2>1. PICK q : q = [opad |-> o, hashed |-> y] OBVIOUS
    <2>2. q.opad = o /\ q.hashed = y BY <2>1
    <2> QED BY <2>1, <2>2, Zenon DEF sha1_hmac_finish
  <1>11. sha1_hmac(key, m) = sha1_hmac_finish(sha1_hmac_update(r, m))
    BY <1>3, <1>6, <1>7, Zenon DEF sha1_hmac
  <1> QED BY <1>2, <1>5, <1>6, <1>8, <1>9, <1>10, <1>11, Zenon

LEMMA XorByteType == \A a, b \in Byte : xorByte(a, b) \in Byte
  BY DEF xorByte, Byte

LEMMA XorByteTwice ==
    \A a, b \in Byte : /\ xorByte(xorByte(a, b), b) = a
                       /\ xorByte(a, b) = NUL <=> a = b
                       /\ xorByte(NUL, b) = b
  BY Zenon DEF xorByte, NUL

LEMMA strlenType ==
    ASSUME NEW d \in Seq(Byte)
    PROVE  /\ strlen(d) \in 0..Len(d)
           /\ HasNul(d) => strlen(d) < Len(d)
  <1> DEFINE T == {n \in DOMAIN d : \A m \in 1..n : d[m] # NUL}
  <1>1. PICK N \in Nat : N = Len(d) /\ DOMAIN d = 1..N OBVIOUS
  <1>2. IsFiniteSet(1..N) /\ Cardinality(1..N) = N BY FS_Interval
  <1>3. T \in SUBSET (1..N) BY <1>1
  <1>4. /\ IsFiniteSet(T) /\ Cardinality(T) <= N
        /\ Cardinality(T) = N => T = 1..N
    BY <1>2, <1>3, FS_Subset
  <1>5. Cardinality(T) \in Nat BY <1>4, FS_CardinalityType
  <1>6. HasNul(d) => T # 1..N
    <2> SUFFICES ASSUME HasNul(d) PROVE T # 1..N OBVIOUS
    <2>1. PICK n \in 1..N : d[n] = NUL BY <1>1 DEF HasNul
    <2>2. n \in 1..n OBVIOUS
    <2>3. n \notin T BY <2>1, <2>2
    <2> QED BY <2>3
  <1>7. strlen(d) = Cardinality(T) BY DEF strlen
  <1> HIDE DEF T
  <1> QED BY <1>1, <1>4, <1>5, <1>6, <1>7

LEMMA BehindType == \A b : Behind(b) \in Seq(Byte)
  BY ScramAssumption DEF Behind

LEMMA CStrType ==
    ASSUME NEW d \in Seq(Byte), NEW b
    PROVE  CStr(d, b) \in Seq(Byte)
  <1>1. CASE HasNul(d)
    <2>1. PICK n \in 0..Len(d) : n = strlen(d) BY strlenType
    <2>2. SubSeq(d, 1, n) \in Seq(Byte)
      <3>1. \A m \in 1..n : d[m] \in Byte
        <4>1. \A m \in 1..n : m \in 1..Len(d) BY <2>1
        <4> QED BY <4>1, ElementOfSeq
      <3> QED BY <3>1, <2>1
    <2> QED BY <1>1, <2>1, <2>2 DEF CStr
  <1>2. CASE ~HasNul(d)
    <2>1. PICK t \in Seq(Byte) : t = Behind(b) BY BehindType
    <2>2. d \o t \in Seq(Byte) BY ConcatProperties
    <2> QED BY <1>2, <2>1, <2>2 DEF CStr
  <1> QED BY <1>1, <1>2

(* A clean buffer is read as what it holds; one with NUL in it is cut.     *)
LEMMA CStrClean ==
    ASSUME NEW d \in Seq(Byte), NEW b, ~HasNul(d), b \notin dirty
    PROVE  CStr(d, b) = d
  <1>1. Behind(b) = << >> BY DEF Behind
  <1>2. d \o << >> = d BY ConcatEmptySeq
  <1> QED BY <1>1, <1>2 DEF CStr

LEMMA CStrCut ==
    ASSUME NEW d \in Seq(Byte), NEW b, HasNul(d)
    PROVE  Len(CStr(d, b)) < Len(d)
  <1>1. PICK n \in 0..Len(d) : n = strlen(d) /\ n < Len(d) BY strlenType
  <1>2. PICK N \in Nat : N = Len(d) OBVIOUS
  <1>3. Len(SubSeq(d, 1, n)) = n
    BY <1>1, <1>2
  <1> QED BY <1>1, <1>3 DEF CStr

LEMMA CStrDirty ==
    ASSUME NEW d \in Seq(Byte), NEW b, ~HasNul(d), b \in dirty
    PROVE  Len(CStr(d, b)) = Len(d) + 1
  <1>1. Behind(b) = << JUNK >> /\ << JUNK >> \in Seq(Byte) /\ Len(<< JUNK >>) = 1
    BY ScramAssumption DEF Behind
  <1>2. Len(d \o << JUNK >>) = Len(d) + 1 BY <1>1, ConcatProperties
  <1> QED BY <1>1, <1>2 DEF CStr

-----------------------------------------------------------------------------
(* The exclusive or of a chain.                                            *)

LEMMA OddOne == ASSUME NEW x \in Digest, NEW n \in 1..D PROVE Odd(<< x >>, n) = x[n]
  <1>1. x[n] \subseteq 0..7 BY DEF Digest, Byte
  <1>2. ASSUME NEW p \in 0..7
        PROVE  Cardinality({j \in DOMAIN << x >> : p \in << x >>[j][n]}) % 2 = 1 <=> p \in x[n]
    <2> DEFINE T == {j \in DOMAIN << x >> : p \in << x >>[j][n]}
    <2>1. DOMAIN << x >> = {1} /\ << x >>[1] = x OBVIOUS
    <2>2. CASE p \in x[n]
      <3>1. T = {1} BY <2>1, <2>2
      <3>2. Cardinality({1}) = 1 BY FS_Singleton
      <3>3. Cardinality(T) = 1 BY <3>1, <3>2, Zenon
      <3> QED BY <2>2, <3>3
    <2>3. CASE p \notin x[n]
      <3>1. T = {} BY <2>1, <2>3
      <3>2. Cardinality(T) = 0 BY <3>1, FS_EmptySet
      <3> QED BY <2>3, <3>2
    <2> QED BY <2>2, <2>3
  <1> QED BY <1>1, <1>2 DEF Odd

LEMMA OddAppend ==
    ASSUME NEW u \in Seq(Digest), NEW x \in Digest, NEW n \in 1..D
    PROVE  Odd(Append(u, x), n) = xorByte(Odd(u, n), x[n])
  <1>1. x[n] \subseteq 0..7 BY DEF Digest, Byte
  <1>2. PICK L \in Nat : L = Len(u) /\ DOMAIN u = 1..L OBVIOUS
  <1>3. PICK v : v = Append(u, x) OBVIOUS
  <1>4. /\ DOMAIN v = 1..(L + 1) /\ v[L + 1] = x
        /\ \A j \in 1..L : v[j] = u[j]
    BY <1>2, <1>3, AppendProperties
  <1>5. ASSUME NEW p \in 0..7
        PROVE  p \in Odd(v, n) <=> p \in xorByte(Odd(u, n), x[n])
    <2> DEFINE T == {j \in DOMAIN u : p \in u[j][n]}
               V == {j \in DOMAIN v : p \in v[j][n]}
    <2>1. IsFiniteSet(T) /\ Cardinality(T) \in Nat
      <3>1. IsFiniteSet(1..L) BY FS_Interval
      <3>2. T \in SUBSET (1..L) BY <1>2
      <3> QED BY <3>1, <3>2, FS_Subset, FS_CardinalityType
    <2>2. p \in Odd(v, n) <=> Cardinality(V) % 2 = 1 BY DEF Odd
    <2>3. p \in Odd(u, n) <=> Cardinality(T) % 2 = 1 BY DEF Odd
    <2>4. CASE p \in x[n]
      <3>1. V = T \cup {L + 1}
        <4>1. \A j : j \in 1..(L + 1) <=> j \in 1..L \/ j = L + 1 BY <1>2
        <4> QED BY <1>2, <1>4, <2>4, <4>1
      <3>2. L + 1 \notin T BY <1>2
      <3>3. Cardinality(V) = Cardinality(T) + 1
        BY <2>1, <3>1, <3>2, FS_AddElement
      <3> HIDE DEF T, V
      <3>4. Cardinality(V) % 2 = 1 <=> ~(Cardinality(T) % 2 = 1) BY <2>1, <3>3
      <3> QED BY <2>2, <2>3, <2>4, <3>4 DEF xorByte
    <2>5. CASE p \notin x[n]
      <3>1. V = T
        <4>1. \A j : j \in 1..(L + 1) <=> j \in 1..L \/ j = L + 1 BY <1>2
        <4> QED BY <1>2, <1>4, <2>5, <4>1
      <3> HIDE DEF T, V
      <3> QED BY <2>2, <2>3, <2>5, <3>1 DEF xorByte
    <2> QED BY <2>4, <2>5
  <1>6. Odd(v, n) \subseteq 0..7 /\ Odd(u, n) \subseteq 0..7 BY DEF Odd
  <1>7. xorByte(Odd(u, n), x[n]) \subseteq 0..7 BY <1>1, <1>6 DEF xorByte
  <1> HIDE DEF Byte
  <1>8. Odd(v, n) = xorByte(Odd(u, n), x[n]) BY <1>5, <1>6, <1>7
  <1> QED BY <1>3, <1>8

LEMMA BlocksInOrder ==
    \A a, b \in Nat, n \in 1..D : a < b => D * a + n <= D * b
  <1> SUFFICES ASSUME NEW a \in Nat, NEW b \in Nat, NEW n \in 1..D, a < b
               PROVE  D * a + n <= D * b
    OBVIOUS
  <1>1. PICK e \in Nat : b = a + 1 + e
    <2>1. b - a - 1 \in Nat /\ b = a + 1 + (b - a - 1) OBVIOUS
    <2> QED BY <2>1
  <1>2. D * b = D * a + D + D * e /\ D * e \in Nat /\ D * a \in Nat BY <1>1, DIsPositive
  <1> QED BY <1>2, DIsPositive

-----------------------------------------------------------------------------
(* Self_PKCS5_PBKDF2_HMAC.  DerivedKey says nothing of work while a block  *)
(* is being made; the invariant adds that work is the exclusive or of what *)
(* us has of this block, and md1 its last element.                         *)

ArgsOK ==
    /\ password \in Seq(Byte) /\ length \in Nat
    /\ challenge \in Challenges

LoopOK ==
    /\ salt \in Seq(Byte)
    /\ counter \in Nat \ {0}
    /\ us \in Seq(Seq(Digest)) /\ \A k \in DOMAIN us : us[k] # << >>
    /\ output \in Seq(Byte)
    /\ Len(us) = IF pc = "iterate" THEN counter ELSE counter - 1
    /\ pc = "challenge" => counter = 1

BlockOK ==
    pc = "iterate" =>
        /\ Len(output) = D * (counter - 1) /\ Len(output) < length
        /\ ic = Len(us[counter]) /\ md1 = us[counter][ic]
        /\ work \in Digest /\ \A n \in 1..D : work[n] = Odd(us[counter], n)
        /\ ic = 1 \/ ic <= challenge.iterations

(* DerivedKey, by what the code calls where DerivedKey says HMAC.          *)
Derived ==
    /\ Len(output) = minOf(length, D * (counter - 1))
    /\ \A k \in DOMAIN us :
           /\ us[k][1] = sha1_hmac(password, salt \o INT(k))
           /\ \A j \in 1..(Len(us[k]) - 1) : us[k][j + 1] = sha1_hmac(password, us[k][j])
           /\ k < counter => Len(us[k]) = IF challenge.iterations = 0 THEN 1
                                          ELSE challenge.iterations
    /\ \A k \in DOMAIN us, n \in 1..D :
           D * (k - 1) + n <= Len(output) => output[D * (k - 1) + n] = Odd(us[k], n)

KeyInv == ArgsOK /\ LoopOK /\ BlockOK /\ Derived

LEMMA ChallengeType ==
    ASSUME ArgsOK
    PROVE  /\ challenge.text \in Seq(Octet) /\ challenge.salt \in Seq(Octet)
           /\ challenge.text # << >> /\ challenge.salt # << >>
           /\ challenge.text \in Seq(Byte) /\ challenge.salt \in Seq(Byte)
           /\ challenge.iterations \in Nat
  BY ScramAssumption DEF ArgsOK, Octet, Byte

LEMMA INTType == \A k \in Nat : INT(k) \in Seq(Byte)
  <1> TAKE k \in Nat
  <1>1. INT(k) \in [1..4 -> Byte] BY DEF INT, Bits, Byte
  <1> QED BY <1>1, SequencesAre

(* The three calls of the loop make the keyed hash of the joined text.     *)
LEMMA FirstIsHmac ==
    ASSUME NEW key \in Seq(Byte), NEW m \in Seq(Byte), NEW t \in Seq(Byte)
    PROVE  sha1_hmac_finish(sha1_hmac_update(sha1_hmac_update(sha1_hmac_starts(key), m), t))
               = sha1_hmac(key, m \o t)
  <1>1. PICK op, h : h \in Seq(Byte) /\ sha1_hmac_starts(key) = [opad |-> op, hashed |-> h]
    <2>1. PICK k \in Seq(Byte) : k = IF Len(key) > B THEN sha1(key) ELSE key
      BY Sha1Type, DigestIsSeq
    <2>2. PICK op, h : /\ sha1_hmac_starts(key) = [opad |-> op, hashed |-> h]
                       /\ h = [n \in 1..B |-> IF n <= Len(k) THEN xorByte(Ipad, k[n]) ELSE Ipad]
      BY <2>1 DEF sha1_hmac_starts
    <2>3. \A n \in 1..B : n <= Len(k) => k[n] \in Byte
      <3>1. \A n \in 1..B : n <= Len(k) => n \in 1..Len(k) BY <2>1
      <3> QED BY <2>1, <3>1, ElementOfSeq
    <2>4. h \in [1..B -> Byte]
      BY <2>2, <2>3, XorByteType, HmacAssumption
    <2>5. h \in Seq(Byte) BY <2>4, DIsPositive, SequencesAre
    <2> QED BY <2>2, <2>5
  <1>2. \A g, x : sha1_hmac_update([opad |-> op, hashed |-> g], x)
                      = [opad |-> op, hashed |-> g \o x]
    <2> TAKE g, x
    <2>1. PICK r : r = [opad |-> op, hashed |-> g] OBVIOUS
    <2>2. PICK y : y = g \o x OBVIOUS
    <2>3. r.hashed = g BY <2>1
    <2>4. sha1_hmac_update(r, x) = [r EXCEPT !.hashed = y]
      BY <2>2, <2>3, Zenon DEF sha1_hmac_update
    <2>5. [r EXCEPT !.hashed = y] = [opad |-> op, hashed |-> y] BY <2>1
    <2> QED BY <2>1, <2>2, <2>4, <2>5, Zenon
  <1>3. (h \o m) \o t = h \o (m \o t) BY <1>1, ConcatAssociative
  <1>4. sha1_hmac_update(sha1_hmac_starts(key), m \o t)
            = [opad |-> op, hashed |-> h \o (m \o t)]
    BY <1>1, <1>2, Zenon
  <1>5. sha1_hmac_update(sha1_hmac_starts(key), m) = [opad |-> op, hashed |-> h \o m]
    BY <1>1, <1>2, Zenon
  <1>6. sha1_hmac_update(sha1_hmac_update(sha1_hmac_starts(key), m), t)
            = [opad |-> op, hashed |-> (h \o m) \o t]
    BY <1>2, <1>5, Zenon
  <1>7. sha1_hmac_update(sha1_hmac_update(sha1_hmac_starts(key), m), t)
            = sha1_hmac_update(sha1_hmac_starts(key), m \o t)
    BY <1>3, <1>4, <1>6, Zenon
  <1> QED BY <1>7, Zenon DEF sha1_hmac

LEMMA KeyInvInit == Init => KeyInv
  <1> SUFFICES ASSUME Init PROVE KeyInv OBVIOUS
  <1>1. ArgsOK BY ScramAssumption DEF Init, ArgsOK
  <1>2. << >> \in Seq(Byte) /\ << >> \in Seq(Seq(Digest)) /\ Len(<< >>) = 0 /\ DOMAIN << >> = {}
    OBVIOUS
  <1>3. us = << >> /\ output = << >> /\ salt = << >> /\ counter = 1 /\ pc = "challenge"
    BY DEF Init
  <1>4. LoopOK
    <2>1. us \in Seq(Seq(Digest)) /\ output \in Seq(Byte) /\ salt \in Seq(Byte)
      BY <1>2, <1>3, Zenon
    <2>2. Len(us) = 0 /\ DOMAIN us = {} BY <1>2, <1>3, Zenon
    <2>3. Len(us) = counter - 1 BY <1>3, <2>2
    <2> QED BY <1>3, <2>1, <2>2, <2>3 DEF LoopOK
  <1>5. Derived
    <2>1. DOMAIN us = {} /\ Len(output) = 0 BY <1>2, <1>3, Zenon
    <2>2. minOf(length, D * (counter - 1)) = 0
      <3>1. D * (counter - 1) = 0 BY <1>3, DIsPositive
      <3> QED BY <1>1, <3>1 DEF minOf, ArgsOK
    <2> QED BY <2>1, <2>2 DEF Derived
  <1> QED BY <1>1, <1>3, <1>4, <1>5 DEF KeyInv, BlockOK

LEMMA FirstRoundKeeps == KeyInv /\ FirstRound => KeyInv'
  <1> SUFFICES ASSUME KeyInv, FirstRound PROVE KeyInv' OBVIOUS
  <1> USE DEF KeyInv
  <1>0. PICK c \in Nat \ {0} : c = counter BY DEF LoopOK
  <1>1. PICK x \in Digest : x = md1' /\ x = sha1_hmac(password, salt \o INT(c))
    BY <1>0, FirstIsHmac, INTType, HmacType DEF FirstRound, ArgsOK, LoopOK
  <1>2. /\ us' = Append(us, << x >>) /\ work' = x /\ ic' = 1 /\ pc' = "iterate" /\ counter' = c
        /\ UNCHANGED << args, salt, output >> /\ pc = "block" /\ Len(output) < length
    BY <1>0, <1>1 DEF FirstRound
  <1>3. PICK L \in Nat : L = Len(us) /\ DOMAIN us = 1..L /\ L = c - 1
    BY <1>0, <1>2 DEF LoopOK
  <1>4. /\ us' \in Seq(Seq(Digest)) /\ DOMAIN us' = 1..c /\ us'[c] = << x >>
        /\ \A k \in 1..(c - 1) : us'[k] = us[k]
        /\ Len(us') = c
    <2>1. << x >> \in Seq(Digest) OBVIOUS
    <2>2. /\ Append(us, << x >>) \in Seq(Seq(Digest))
          /\ Len(Append(us, << x >>)) = L + 1
          /\ Append(us, << x >>)[L + 1] = << x >>
          /\ \A k \in 1..L : Append(us, << x >>)[k] = us[k]
      BY <1>3, <2>1, AppendProperties DEF LoopOK
    <2> QED BY <1>2, <1>3, <2>2
  <1>5. Len(output) = D * (c - 1)
    BY <1>0, <1>2 DEF Derived, minOf
  <1>6. ArgsOK' BY <1>2 DEF ArgsOK, args
  <1>7. LoopOK'
    <2>1. \A k \in DOMAIN us' : us'[k] # << >>
      <3>1. \A k \in 1..c : k = c \/ k \in 1..(c - 1) OBVIOUS
      <3>2. << x >> # << >> OBVIOUS
      <3> QED BY <1>3, <1>4, <3>1, <3>2 DEF LoopOK
    <2> QED BY <1>2, <1>4, <2>1 DEF LoopOK
  <1>8. BlockOK'
    <2>1. Len(us'[c]) = 1 /\ us'[c][1] = x BY <1>4
    <2>2. \A n \in 1..D : work'[n] = Odd(us'[c], n) BY <1>2, <1>4, OddOne
    <2>3. Len(output') = D * (counter' - 1) /\ Len(output') < length'
      BY <1>2, <1>5 DEF args
    <2> QED BY <1>1, <1>2, <2>1, <2>2, <2>3 DEF BlockOK
  <1>9. Derived'
    <2>1. Len(output') = minOf(length, D * (counter - 1))'
      BY <1>0, <1>2 DEF Derived, args, minOf
    <2>2. ASSUME NEW k \in 1..c
          PROVE  /\ us'[k][1] = sha1_hmac(password', salt' \o INT(k))
                 /\ \A j \in 1..(Len(us'[k]) - 1) : us'[k][j + 1] = sha1_hmac(password', us'[k][j])
                 /\ k < counter' => Len(us'[k]) = IF challenge'.iterations = 0 THEN 1
                                                  ELSE challenge'.iterations
      <3>1. CASE k = c
        <4>1. us'[k] = << x >> BY <1>4, <3>1
        <4>2. << x >>[1] = x /\ 1..(Len(<< x >>) - 1) = {} OBVIOUS
        <4>3. password' = password /\ salt' = salt BY <1>2 DEF args
        <4>4. us'[k][1] = sha1_hmac(password', salt' \o INT(k))
          BY <1>1, <3>1, <4>1, <4>2, <4>3, Zenon
        <4>5. \A j \in 1..(Len(us'[k]) - 1) : us'[k][j + 1] = sha1_hmac(password', us'[k][j])
          BY <4>1, <4>2
        <4>6. ~(k < counter') BY <1>2, <3>1
        <4> QED BY <4>4, <4>5, <4>6
      <3>2. CASE k # c
        <4>1. k \in 1..(c - 1) /\ k \in DOMAIN us BY <1>3, <3>2
        <4> QED BY <1>0, <1>2, <1>4, <4>1 DEF Derived, args
      <3> QED BY <3>1, <3>2
    <2>3. ASSUME NEW k \in 1..c, NEW n \in 1..D, D * (k - 1) + n <= Len(output')
          PROVE  output'[D * (k - 1) + n] = Odd(us'[k], n)
      <3>1. CASE k = c
        <4>1. D * (c - 1) \in Nat BY DIsPositive
        <4>2. D * (c - 1) + n <= D * (c - 1) BY <1>2, <1>5, <2>3, <3>1
        <4> QED BY <4>1, <4>2
      <3>2. CASE k # c
        <4>1. k \in 1..(c - 1) /\ k \in DOMAIN us BY <1>3, <3>2
        <4> QED BY <1>2, <1>4, <2>3, <4>1 DEF Derived
      <3> QED BY <3>1, <3>2
    <2> QED BY <1>4, <2>1, <2>2, <2>3 DEF Derived
  <1> QED BY <1>6, <1>7, <1>8, <1>9

LEMMA IterateKeeps == KeyInv /\ Iterate => KeyInv'
  <1> SUFFICES ASSUME KeyInv, Iterate PROVE KeyInv' OBVIOUS
  <1> USE DEF KeyInv
  <1>0. PICK c \in Nat \ {0} : /\ c = counter /\ pc = "iterate"
                               /\ us \in Seq(Seq(Digest)) /\ Len(us) = c
    BY DEF LoopOK, Iterate
  <1>1. DOMAIN us = 1..c /\ c \in 1..c BY <1>0
  <1>2. PICK u \in Seq(Digest) : u = us[c] /\ u # << >>
    BY <1>0, <1>1, ElementOfSeq DEF LoopOK
  <1>3. PICK l \in Nat \ {0} : /\ l = Len(u) /\ ic = l /\ md1 = u[l] /\ DOMAIN u = 1..l
                               /\ l \in 1..l
    <2>1. Len(u) \in Nat \ {0} BY <1>2, EmptySeq
    <2> QED BY <1>0, <1>2, <2>1 DEF BlockOK
  <1>4. PICK x \in Digest : x = md1' /\ x = sha1_hmac(password, u[l])
    BY <1>3, HmacType DEF Iterate
  <1>5. PICK v \in Seq(Digest) : v = Append(u, x) BY AppendProperties
  <1>6. /\ Len(v) = l + 1 /\ v[l + 1] = x /\ \A j \in 1..l : v[j] = u[j]
        /\ v # << >> /\ DOMAIN v = 1..(l + 1)
    BY <1>3, <1>5, AppendProperties
  <1>7. /\ us' = [us EXCEPT ![c] = v] /\ work' = XorAll(work, x) /\ ic' = l + 1
        /\ pc' = "iterate" /\ counter' = c /\ UNCHANGED << args, salt, output >>
        /\ l < challenge.iterations
    BY <1>0, <1>2, <1>3, <1>4, <1>5 DEF Iterate
  <1>8. /\ us' \in Seq(Seq(Digest)) /\ Len(us') = c /\ DOMAIN us' = 1..c /\ us'[c] = v
        /\ \A k \in 1..(c - 1) : us'[k] = us[k]
    BY <1>0, <1>1, <1>7, ExceptSeq
  <1>9. ArgsOK' BY <1>7 DEF ArgsOK, args
  <1>10. LoopOK'
    <2>1. \A k \in 1..c : us'[k] # << >>
      <3>1. \A k \in 1..c : k = c \/ k \in 1..(c - 1) OBVIOUS
      <3> QED BY <1>1, <1>6, <1>8, <3>1 DEF LoopOK
    <2> QED BY <1>0, <1>7, <1>8, <2>1 DEF LoopOK
  <1>11. BlockOK'
    <2>1. work \in Digest /\ \A n \in 1..D : work[n] = Odd(u, n)
      BY <1>0, <1>2 DEF BlockOK
    <2>2. work' = [n \in 1..D |-> xorByte(work[n], x[n])]
      BY <1>7, <2>1 DEF XorAll, Digest
    <2>3. \A n \in 1..D : work'[n] = Odd(v, n) BY <1>5, <2>1, <2>2, OddAppend
    <2>4. work' \in Digest
      <3>1. \A n \in 1..D : xorByte(work[n], x[n]) \in Byte BY <2>1, XorByteType DEF Digest
      <3> QED BY <2>2, <3>1 DEF Digest
    <2>5. Len(output') = D * (counter' - 1) /\ Len(output') < length'
      BY <1>0, <1>7 DEF BlockOK, args
    <2>6. ic' = Len(us'[counter']) /\ md1' = us'[counter'][ic']
      BY <1>4, <1>6, <1>7, <1>8
    <2>7. ic' <= challenge'.iterations
      <3>1. challenge.iterations \in Nat BY ChallengeType
      <3> QED BY <1>7, <3>1 DEF args
    <2>8. \A n \in 1..D : work'[n] = Odd(us'[counter'], n) BY <1>7, <1>8, <2>3
    <2> QED BY <2>4, <2>5, <2>6, <2>7, <2>8, Zenon DEF BlockOK
  <1>12. Derived'
    <2>1. Len(output') = minOf(length, D * (counter - 1))'
      BY <1>0, <1>7 DEF Derived, args, minOf
    <2>2. ASSUME NEW k \in 1..c
          PROVE  /\ us'[k][1] = sha1_hmac(password', salt' \o INT(k))
                 /\ \A j \in 1..(Len(us'[k]) - 1) : us'[k][j + 1] = sha1_hmac(password', us'[k][j])
                 /\ k < counter' => Len(us'[k]) = IF challenge'.iterations = 0 THEN 1
                                                  ELSE challenge'.iterations
      <3>1. CASE k = c
        <4>1. us'[k] = v BY <1>8, <3>1
        <4>2. u[1] = sha1_hmac(password, salt \o INT(c))
          BY <1>1, <1>2 DEF Derived
        <4>3. \A j \in 1..(l - 1) : u[j + 1] = sha1_hmac(password, u[j])
          BY <1>1, <1>2, <1>3 DEF Derived
        <4>4. password' = password /\ salt' = salt BY <1>7 DEF args
        <4>5. v[1] = u[1] BY <1>3, <1>6
        <4>6. us'[k][1] = sha1_hmac(password', salt' \o INT(k))
          BY <3>1, <4>1, <4>2, <4>4, <4>5, Zenon
        <4>7. ASSUME NEW j \in 1..l PROVE v[j + 1] = sha1_hmac(password, v[j])
          <5>1. CASE j = l BY <1>3, <1>4, <1>6, <5>1
          <5>2. CASE j # l
            <6>1. j \in 1..(l - 1) /\ j + 1 \in 1..l BY <5>2
            <6> QED BY <1>6, <4>3, <6>1
          <5> QED BY <5>1, <5>2
        <4>8. 1..(Len(us'[k]) - 1) = 1..l BY <1>6, <4>1
        <4>9. \A j \in 1..(Len(us'[k]) - 1) : us'[k][j + 1] = sha1_hmac(password', us'[k][j])
          BY <4>1, <4>4, <4>7, <4>8, Zenon
        <4>10. ~(k < counter') BY <1>7, <3>1
        <4> QED BY <4>6, <4>9, <4>10
      <3>2. CASE k # c
        <4>1. k \in 1..(c - 1) /\ k \in DOMAIN us BY <1>1, <3>2
        <4>2. /\ us'[k] = us[k] /\ password' = password /\ salt' = salt /\ counter' = counter
              /\ challenge' = challenge
          BY <1>0, <1>7, <1>8, <4>1 DEF args
        <4>3. /\ us[k][1] = sha1_hmac(password, salt \o INT(k))
              /\ \A j \in 1..(Len(us[k]) - 1) : us[k][j + 1] = sha1_hmac(password, us[k][j])
              /\ k < counter => Len(us[k]) = IF challenge.iterations = 0 THEN 1
                                             ELSE challenge.iterations
          BY <4>1 DEF Derived
        <4> QED BY <4>2, <4>3, Zenon
      <3> QED BY <3>1, <3>2
    <2>3. ASSUME NEW k \in 1..c, NEW n \in 1..D, D * (k - 1) + n <= Len(output')
          PROVE  output'[D * (k - 1) + n] = Odd(us'[k], n)
      <3>1. CASE k = c
        <4>1. Len(output') = D * (c - 1) BY <1>0, <1>7 DEF BlockOK
        <4> QED BY <2>3, <3>1, <4>1, DIsPositive
      <3>2. CASE k # c
        <4>1. k \in 1..(c - 1) /\ k \in DOMAIN us BY <1>1, <3>2
        <4>2. output' = output /\ us'[k] = us[k] BY <1>7, <1>8, <4>1
        <4>3. D * (k - 1) + n <= Len(output) BY <2>3, <4>2
        <4> QED BY <4>1, <4>2, <4>3 DEF Derived
      <3> QED BY <3>1, <3>2
    <2> QED BY <1>8, <2>1, <2>2, <2>3 DEF Derived
  <1> QED BY <1>9, <1>10, <1>11, <1>12

LEMMA WritesBlockKeeps == KeyInv /\ WritesBlock => KeyInv'
  <1> SUFFICES ASSUME KeyInv, WritesBlock PROVE KeyInv' OBVIOUS
  <1> USE DEF KeyInv
  <1>0. PICK c \in Nat \ {0} : /\ c = counter /\ us \in Seq(Seq(Digest)) /\ Len(us) = c
                               /\ pc = "iterate" /\ output \in Seq(Byte)
    BY DEF LoopOK, WritesBlock
  <1>1. DOMAIN us = 1..c /\ c \in 1..c BY <1>0
  <1>2. PICK o \in Nat, e \in Nat : /\ o = Len(output) /\ o = D * (c - 1) /\ e = length /\ o < e
    BY <1>0 DEF BlockOK, ArgsOK
  <1>3. PICK q \in 1..D : q = minOf(e - o, D)
    <2>1. e - o \in Nat \ {0} BY <1>2
    <2> QED BY <2>1, DIsPositive DEF minOf
  <1>4. PICK s \in Seq(Byte) : s = SubSeq(work, 1, q) /\ Len(s) = q
                               /\ \A n \in 1..q : s[n] = work[n]
    <2>1. work \in Seq(Byte) /\ q \in 0..Len(work)
      <3>1. work \in Digest BY <1>0 DEF BlockOK
      <3> QED BY <3>1, DigestIsSeq, DIsPositive
    <2>2. \A n \in 1..q : work[n] \in Byte
      <3>1. \A n \in 1..q : n \in 1..Len(work) BY <2>1
      <3> QED BY <2>1, <3>1, ElementOfSeq
    <2>3. SubSeq(work, 1, q) = [n \in 1..q |-> work[n]] BY <2>1
    <2>4. [n \in 1..q |-> work[n]] \in Seq(Byte) BY <2>2
    <2>5. PICK s \in Seq(Byte) : s = [n \in 1..q |-> work[n]] BY <2>4
    <2>6. Len(s) = q BY <2>5
    <2>7. \A n \in 1..q : s[n] = work[n] BY <2>5
    <2> QED BY <2>3, <2>5, <2>6, <2>7
  <1>5. PICK new \in Seq(Byte) : /\ new = output \o s /\ Len(new) = o + q
                                 /\ \A n \in 1..o : new[n] = output[n]
                                 /\ \A n \in 1..q : new[o + n] = work[n]
    <2>1. PICK new \in Seq(Byte) : new = output \o s BY <1>0, ConcatProperties
    <2>2. /\ Len(new) = o + q
          /\ \A n \in 1..(o + q) : new[n] = IF n <= o THEN output[n] ELSE s[n - o]
      <3>1. /\ Len(new) = Len(output) + Len(s)
            /\ \A n \in 1..(Len(output) + Len(s)) :
                  new[n] = IF n <= Len(output) THEN output[n] ELSE s[n - Len(output)]
        <4>1. output \in Seq(Byte) /\ s \in Seq(Byte) BY <1>0
        <4>2. /\ Len(output \o s) = Len(output) + Len(s)
              /\ \A n \in 1..(Len(output) + Len(s)) : (output \o s)[n] =
                    IF n <= Len(output) THEN output[n] ELSE s[n - Len(output)]
          BY ONLY <4>1, ConcatProperties, Zenon
        <4> QED BY ONLY <2>1, <4>2
      <3> QED BY <1>2, <1>4, <3>1
    <2>3. \A n \in 1..o : new[n] = output[n] BY <1>2, <2>1, <2>2
    <2>4. \A n \in 1..q : new[o + n] = work[n]
      <3> TAKE n \in 1..q
      <3>1. o + n \in 1..(o + q) /\ ~(o + n <= o) /\ (o + n) - o = n BY <1>2
      <3> QED BY <1>4, <2>1, <2>2, <3>1
    <2> QED BY <2>1, <2>2, <2>3, <2>4
  <1>6. /\ output' = new /\ counter' = c + 1 /\ pc' = "block"
        /\ UNCHANGED << args, salt, us >>
        /\ ic >= challenge.iterations
    BY <1>0, <1>2, <1>3, <1>4, <1>5 DEF WritesBlock
  <1>7. o + q = minOf(e, D * c)
    <2>1. PICK b \in Nat : b = D * c /\ b = o + D BY <1>2, DIsPositive
    <2>2. D \in Nat /\ q = IF e - o < D THEN e - o ELSE D BY <1>3, DIsPositive DEF minOf
    <2>3. o + q = IF e < b THEN e ELSE b BY <1>2, <2>1, <2>2
    <2> QED BY <2>1, <2>3 DEF minOf
  <1>8. ArgsOK' BY <1>6 DEF ArgsOK, args
  <1>9. LoopOK' BY <1>0, <1>5, <1>6 DEF LoopOK
  <1>10. BlockOK' BY <1>6 DEF BlockOK
  <1>11. Derived'
    <2>1. Len(output') = minOf(length', D * (counter' - 1))
      <3>1. length' = e BY <1>2, <1>6 DEF args
      <3>2. counter' - 1 = c BY <1>6
      <3> QED BY <1>5, <1>6, <1>7, <3>1, <3>2
    <2>2. PICK it \in Nat : it = challenge.iterations /\ it = challenge'.iterations
      BY <1>6, ChallengeType DEF args
    <2>3. Len(us[c]) = IF it = 0 THEN 1 ELSE it
      <3>1. PICK u \in Seq(Digest) : u = us[c] /\ u # << >>
        BY <1>0, <1>1, ElementOfSeq DEF LoopOK
      <3>2. PICK l \in Nat \ {0} : l = Len(us[c]) BY <3>1, EmptySeq
      <3>3. ic = l /\ (ic = 1 \/ ic <= it) BY <1>0, <2>2, <3>2 DEF BlockOK
      <3>4. l = IF it = 0 THEN 1 ELSE it BY <1>6, <2>2, <3>3
      <3> QED BY <3>2, <3>4, Zenon
    <2>4. ASSUME NEW k \in 1..c
          PROVE  /\ us'[k][1] = sha1_hmac(password', salt' \o INT(k))
                 /\ \A j \in 1..(Len(us'[k]) - 1) : us'[k][j + 1] = sha1_hmac(password', us'[k][j])
                 /\ k < counter' => Len(us'[k]) = IF challenge'.iterations = 0 THEN 1
                                                  ELSE challenge'.iterations
      <3>1. us' = us /\ password' = password /\ salt' = salt BY <1>6 DEF args
      <3>2. Len(us[k]) = IF it = 0 THEN 1 ELSE it
        <4>1. CASE k = c BY <2>3, <4>1
        <4>2. CASE k # c
          <5>1. k < counter BY <1>0, <4>2
          <5> QED BY <1>1, <2>2, <5>1 DEF Derived
        <4> QED BY <4>1, <4>2
      <3>3. /\ us[k][1] = sha1_hmac(password, salt \o INT(k))
            /\ \A j \in 1..(Len(us[k]) - 1) : us[k][j + 1] = sha1_hmac(password, us[k][j])
        BY <1>1 DEF Derived
      <3> QED BY <2>2, <3>1, <3>2, <3>3, Zenon
    <2>5. ASSUME NEW k \in 1..c, NEW n \in 1..D, D * (k - 1) + n <= Len(output')
          PROVE  output'[D * (k - 1) + n] = Odd(us'[k], n)
      <3>1. us' = us BY <1>6
      <3>2. CASE k = c
        <4>1. o + n <= o + q BY <1>2, <1>5, <1>6, <2>5, <3>2
        <4>2. n \in 1..q BY <1>2, <4>1
        <4>3. output'[o + n] = work[n] BY <1>5, <1>6, <4>2
        <4>4. work[n] = Odd(us[c], n) BY <1>0 DEF BlockOK
        <4> QED BY <1>2, <3>1, <3>2, <4>3, <4>4
      <3>3. CASE k # c
        <4>1. PICK m \in Nat : m = D * (k - 1) + n /\ m >= 1
          <5>1. k - 1 \in Nat BY DIsPositive
          <5>2. D * (k - 1) \in Nat BY <5>1, DIsPositive
          <5> QED BY <5>2
        <4>2. m <= o
          <5>1. k - 1 \in Nat /\ c - 1 \in Nat /\ k - 1 < c - 1 BY <3>3
          <5> QED BY <1>2, <4>1, <5>1, BlocksInOrder
        <4>3. output'[m] = output[m] BY <1>5, <1>6, <4>1, <4>2
        <4>4. output[D * (k - 1) + n] = Odd(us[k], n)
          BY <1>1, <1>2, <4>1, <4>2 DEF Derived
        <4> QED BY <3>1, <4>1, <4>3, <4>4
      <3> QED BY <3>2, <3>3
    <2> QED BY <1>1, <1>6, <2>1, <2>4, <2>5 DEF Derived
  <1> QED BY <1>8, <1>9, <1>10, <1>11

LEMMA ReadsChallengeKeeps == KeyInv /\ ReadsChallenge => KeyInv'
  <1> SUFFICES ASSUME KeyInv, ReadsChallenge PROVE KeyInv' OBVIOUS
  <1> USE DEF KeyInv
  <1>1. pc = "challenge" /\ pc' = "block" /\ UNCHANGED << args, loop >>
    BY DEF ReadsChallenge
  <1>2. salt' \in Seq(Byte)
    <2>1. decodeBase64(encodeBase64(challenge.salt)) \in Seq(Byte)
      BY ChallengeType, Base64Back
    <2> QED BY <2>1, CStrType DEF ReadsChallenge
  <1>3. counter = 1 /\ Len(us) = 0 /\ DOMAIN us = {}
    <2>1. us \in Seq(Seq(Digest)) /\ counter = 1 /\ Len(us) = counter - 1
      BY <1>1 DEF LoopOK
    <2> QED BY <2>1
  <1>4. ArgsOK' BY <1>1 DEF ArgsOK, args
  <1>5. LoopOK' BY <1>1, <1>2, <1>3 DEF LoopOK, loop
  <1>6. BlockOK' BY <1>1 DEF BlockOK
  <1>7. Derived' BY <1>1, <1>3 DEF Derived, minOf, loop, args
  <1> QED BY <1>4, <1>5, <1>6, <1>7

LEMMA OthersKeep == KeyInv /\ (MakesKeys \/ Signs \/ Proves \/ UNCHANGED vars) => KeyInv'
  <1> SUFFICES ASSUME KeyInv, MakesKeys \/ Signs \/ Proves \/ UNCHANGED vars PROVE KeyInv'
    OBVIOUS
  <1> USE DEF KeyInv
  <1>1. /\ UNCHANGED << args, loop, salt >>
        /\ pc' = pc \/ (pc \in {"block", "sign", "prove"} /\ pc' \in {"sign", "prove", "done"})
    BY DEF MakesKeys, Signs, Proves, vars
  <1>2. ArgsOK' BY <1>1 DEF ArgsOK, args
  <1>3. LoopOK' BY <1>1 DEF LoopOK, loop
  <1>4. BlockOK' BY <1>1 DEF BlockOK, loop, args
  <1>5. Derived' BY <1>1 DEF Derived, minOf, loop, args
  <1> QED BY <1>2, <1>3, <1>4, <1>5

LEMMA KeyInvNext == KeyInv /\ [Next]_vars => KeyInv'
  BY FirstRoundKeeps, IterateKeeps, WritesBlockKeeps, ReadsChallengeKeeps, OthersKeep
  DEF Next, Done

(* The derived key is that of PBKDF2, whatever the hash, the password, the *)
(* salt, the iterations and the length.                                    *)
THEOREM AlwaysDerivedKey == Spec => []DerivedKey
  <1>1. KeyInv => DerivedKey
    <2> SUFFICES ASSUME KeyInv PROVE DerivedKey OBVIOUS
    <2>1. \A m : HMAC(password, m) = sha1_hmac(password, m)
      BY HmacIsRfc2104 DEF KeyInv, ArgsOK
    <2> QED BY <2>1, Zenon DEF KeyInv, Derived, DerivedKey
  <1> QED BY <1>1, KeyInvInit, KeyInvNext, PTL DEF Spec

-----------------------------------------------------------------------------
(* The proof.  What each step of SCRAM_responce_create has stored stays    *)
(* what it computed from the arguments and from the derived key.           *)

SaltRead ==
    pc # "challenge" => salt = CStr(decodeBase64(encodeBase64(challenge.salt)), "salt")
KeysMade ==
    pc \in {"sign", "prove", "done"} =>
        /\ clientKey = sha1_hmac(CStr(output, "saltedPassword"), ClientKeyText)
        /\ storedKey = sha1(CStr(clientKey, "clientKey"))
Signed ==
    pc \in {"prove", "done"} =>
        clientSignature = sha1_hmac(CStr(storedKey, "storedKey"), authMessage)
Proved == pc = "done" => \E clientProof \in Copied : response = encodeBase64(clientProof)

ProofInv == KeyInv /\ SaltRead /\ KeysMade /\ Signed /\ Proved

LEMMA ProofInvInit == Init => ProofInv
  BY KeyInvInit DEF Init, ProofInv, SaltRead, KeysMade, Signed, Proved

LEMMA ProofInvNext == ProofInv /\ [Next]_vars => ProofInv'
  <1> SUFFICES ASSUME ProofInv, [Next]_vars PROVE ProofInv' OBVIOUS
  <1>0. KeyInv' BY KeyInvNext DEF ProofInv
  <1> USE DEF ProofInv
  <1>1. UNCHANGED args
    BY DEF Next, vars, ReadsChallenge, FirstRound, Iterate, WritesBlock, MakesKeys, Signs,
           Proves, Done
  <1>2. SaltRead'
    <2>1. CASE ReadsChallenge
      BY <1>1, <2>1, Zenon DEF ReadsChallenge, SaltRead, CStr, Behind, args
    <2>2. CASE ~ReadsChallenge
      <3>1. salt' = salt /\ (pc' # "challenge" => pc # "challenge")
        BY <2>2 DEF Next, vars, FirstRound, Iterate, WritesBlock, MakesKeys, Signs, Proves, Done
      <3> QED BY <1>1, <3>1, Zenon DEF SaltRead, CStr, Behind, args
    <2> QED BY <2>1, <2>2
  <1>3. KeysMade'
    <2>1. CASE MakesKeys
      <3>1. /\ clientKey' = sha1_hmac(CStr(output, "saltedPassword"), ClientKeyText)
            /\ storedKey' = sha1(CStr(clientKey', "clientKey")) /\ output' = output
        BY <2>1, Zenon DEF MakesKeys, loop
      <3> QED BY <1>1, <3>1, Zenon DEF KeysMade, CStr, Behind, args
    <2>2. CASE ~MakesKeys
      <3>1. pc' \in {"sign", "prove", "done"} =>
              UNCHANGED << clientKey, storedKey, output >> /\ pc \in {"sign", "prove", "done"}
        BY <2>2 DEF Next, vars, ReadsChallenge, FirstRound, Iterate, WritesBlock, Signs, Proves,
                    Done, keys, loop
      <3> QED BY <1>1, <3>1, Zenon DEF KeysMade, CStr, Behind, args
    <2> QED BY <2>1, <2>2
  <1>4. authMessage' = authMessage
    BY <1>1, Zenon DEF authMessage, CStr, Behind, args
  <1>5. Signed'
    <2>1. CASE Signs
      <3>1. /\ clientSignature' = sha1_hmac(CStr(storedKey, "storedKey"), authMessage)
            /\ storedKey' = storedKey
        BY <2>1, Zenon DEF Signs
      <3> QED BY <1>1, <1>4, <3>1, Zenon DEF Signed, CStr, Behind, args
    <2>2. CASE ~Signs
      <3>1. pc' \in {"prove", "done"} =>
              UNCHANGED << clientSignature, storedKey >> /\ pc \in {"prove", "done"}
        BY <2>2 DEF Next, vars, ReadsChallenge, FirstRound, Iterate, WritesBlock, MakesKeys,
                    Proves, Done, keys
      <3> QED BY <1>1, <1>4, <3>1, Zenon DEF Signed, CStr, Behind, args
    <2> QED BY <2>1, <2>2
  <1>6. Proved'
    <2>1. CASE Proves
      <3>1. /\ \E clientProof \in Copied : response' = encodeBase64(clientProof)
            /\ UNCHANGED << clientKey, clientSignature >>
        BY <2>1, Zenon DEF Proves
      <3>2. Copied' = Copied
        BY <1>1, <3>1, Zenon DEF Copied, textFromHexString, xor, ByteAt, CStr, Behind, args
      <3> QED BY <3>1, <3>2, Zenon DEF Proved
    <2>2. CASE ~Proves
      <3>1. pc' = "done" =>
              UNCHANGED << clientKey, clientSignature, response >> /\ pc = "done"
        BY <2>2 DEF Next, vars, ReadsChallenge, FirstRound, Iterate, WritesBlock, MakesKeys,
                    Signs, Done, keys
      <3>2. pc' = "done" => Copied' = Copied
        BY <1>1, <3>1, Zenon DEF Copied, textFromHexString, xor, ByteAt, CStr, Behind, args
      <3> QED BY <3>1, <3>2, Zenon DEF Proved
    <2> QED BY <2>1, <2>2
  <1> QED BY <1>0, <1>2, <1>3, <1>5, <1>6

(* Nothing at all has no padding and decodes to nothing.                   *)
LEMMA Base64Both ==
    ASSUME NEW d \in Seq(Octet)
    PROVE  decodeBase64(encodeBase64(d)) = d
  <1>1. CASE d = << >>
    <2>1. Len(d) = 0 BY <1>1
    <2>2. encodeBase64(d) = << >>
      <3>1. 4 * ((0 + 2) \div 3) = 0 OBVIOUS
      <3>2. PICK f : f = encodeBase64(d) /\ DOMAIN f = 1..0 /\ f = [j \in 1..0 |-> f[j]]
        BY <2>1, <3>1 DEF encodeBase64
      <3> QED BY <3>2
    <2>3. PICK e : e = << >> /\ Len(e) = 0 OBVIOUS
    <2>4. Pads(e) = 0 BY <2>3 DEF Pads
    <2>5. 3 * (Len(e) \div 4) - Pads(e) = 0 BY <2>3, <2>4
    <2>6. PICK f : f = decodeBase64(e) /\ DOMAIN f = 1..0 /\ f = [j \in 1..0 |-> f[j]]
      BY <2>5 DEF decodeBase64
    <2>7. f = << >> BY <2>6
    <2> QED BY <1>1, <2>2, <2>3, <2>6, <2>7
  <1>2. CASE d # << >> BY <1>2, Base64Back
  <1> QED BY <1>1, <1>2

(* A C string ends before each NUL of its buffer.                          *)
LEMMA strlenBefore ==
    ASSUME NEW d \in Seq(Byte), NEW n \in DOMAIN d, d[n] = NUL
    PROVE  strlen(d) < n
  <1> DEFINE T == {k \in DOMAIN d : \A m \in 1..k : d[m] # NUL}
  <1>1. PICK N \in Nat : N = Len(d) /\ DOMAIN d = 1..N OBVIOUS
  <1>2. T \in SUBSET (1..(n - 1))
    <2> SUFFICES ASSUME NEW k \in T PROVE k \in 1..(n - 1) OBVIOUS
    <2>1. k \in 1..N /\ \A m \in 1..k : d[m] # NUL BY <1>1
    <2>2. n \notin 1..k BY <2>1
    <2> QED BY <1>1, <2>1, <2>2
  <1>3. n - 1 \in Nat BY <1>1
  <1>4. IsFiniteSet(1..(n - 1)) /\ Cardinality(1..(n - 1)) = n - 1 BY <1>3, FS_Interval
  <1>5. Cardinality(T) <= n - 1 /\ IsFiniteSet(T) BY <1>2, <1>4, FS_Subset
  <1>6. Cardinality(T) \in Nat BY <1>5, FS_CardinalityType
  <1>7. strlen(d) = Cardinality(T) BY DEF strlen
  <1> HIDE DEF T
  <1> QED BY <1>1, <1>5, <1>6, <1>7

LEMMA strlenFrom ==
    ASSUME NEW d \in Seq(Byte), NEW n \in Nat, n <= Len(d), \A m \in 1..n : d[m] # NUL
    PROVE  strlen(d) >= n
  <1> DEFINE T == {k \in DOMAIN d : \A m \in 1..k : d[m] # NUL}
  <1>1. PICK N \in Nat : N = Len(d) /\ DOMAIN d = 1..N OBVIOUS
  <1>2. 1..n \in SUBSET T
    <2> SUFFICES ASSUME NEW k \in 1..n PROVE k \in T OBVIOUS
    <2>1. k \in 1..N BY <1>1
    <2>2. \A m \in 1..k : m \in 1..n OBVIOUS
    <2> QED BY <1>1, <2>1, <2>2
  <1>3. IsFiniteSet(1..N) BY <1>1, FS_Interval
  <1>4. T \in SUBSET (1..N) BY <1>1
  <1>5. IsFiniteSet(T) BY <1>3, <1>4, FS_Subset
  <1>6. Cardinality(1..n) = n BY FS_Interval
  <1>7. Cardinality(1..n) <= Cardinality(T) BY <1>2, <1>5, FS_Subset
  <1>8. Cardinality(T) \in Nat BY <1>5, FS_CardinalityType
  <1>9. strlen(d) = Cardinality(T) BY DEF strlen
  <1> HIDE DEF T
  <1> QED BY <1>6, <1>7, <1>8, <1>9

(* How much strcpy copies of a text with one more byte behind it: all, if  *)
(* that byte is NUL, and one more, if it is not; unless the text is cut.   *)
LEMMA LenOfMore ==
    ASSUME NEW d \in Seq(Byte), NEW c \in Byte,
           NEW e \in Seq(Byte), e = Append(d, c)
    PROVE  /\ strlen(e) \in 0..(Len(d) + 1)
           /\ HasNul(d) => strlen(e) < Len(d)
           /\ ~HasNul(d) /\ c = NUL => strlen(e) = Len(d)
           /\ ~HasNul(d) /\ c # NUL => strlen(e) = Len(d) + 1
  <1>1. PICK N \in Nat : N = Len(d) /\ DOMAIN d = 1..N OBVIOUS
  <1>2. /\ e \in Seq(Byte) /\ Len(e) = N + 1 /\ DOMAIN e = 1..(N + 1)
        /\ \A m \in 1..N : e[m] = d[m]
        /\ e[N + 1] = c
    BY <1>1, AppendProperties
  <1>3. PICK l \in 0..(N + 1) : l = strlen(e) BY <1>2, strlenType
  <1>5. HasNul(d) => l < N
    <2> SUFFICES ASSUME HasNul(d) PROVE l < N OBVIOUS
    <2>1. PICK n \in 1..N : d[n] = NUL BY <1>1 DEF HasNul
    <2>2. n \in DOMAIN e /\ e[n] = NUL BY <1>2, <2>1
    <2>3. strlen(e) < n BY ONLY <1>2, <2>2, strlenBefore
    <2> QED BY <1>3, <2>1, <2>3
  <1>6. ~HasNul(d) => l >= N
    <2> SUFFICES ASSUME ~HasNul(d) PROVE l >= N OBVIOUS
    <2>1. \A m \in 1..N : e[m] # NUL BY <1>1, <1>2 DEF HasNul
    <2>2. N \in Nat /\ N <= Len(e) BY <1>2
    <2>3. strlen(e) >= N BY ONLY <1>2, <2>1, <2>2, strlenFrom
    <2> QED BY <1>3, <2>3
  <1>7. c = NUL => l <= N
    <2> SUFFICES ASSUME c = NUL PROVE l <= N OBVIOUS
    <2>1. N + 1 \in DOMAIN e /\ e[N + 1] = NUL BY <1>2
    <2>2. strlen(e) < N + 1 BY ONLY <1>2, <2>1, strlenBefore
    <2> QED BY <1>3, <2>2
  <1>8. ~HasNul(d) /\ c # NUL => l = N + 1
    <2> SUFFICES ASSUME ~HasNul(d), c # NUL PROVE l = N + 1 OBVIOUS
    <2>1. \A m \in 1..(N + 1) : e[m] # NUL
      <3> SUFFICES ASSUME NEW m \in 1..(N + 1) PROVE e[m] # NUL OBVIOUS
      <3>1. CASE m \in 1..N BY <1>1, <1>2, <3>1 DEF HasNul
      <3>2. CASE m = N + 1 BY <1>2, <3>2
      <3>3. N \in Nat OBVIOUS
      <3> QED BY ONLY <3>1, <3>2, <3>3, m \in 1..(N + 1)
    <2>2. N + 1 \in Nat /\ N + 1 <= Len(e) BY <1>2
    <2>3. strlen(e) >= N + 1 BY ONLY <1>2, <2>1, <2>2, strlenFrom
    <2> QED BY <1>3, <2>3
  <1> QED BY <1>1, <1>3, <1>5, <1>6, <1>7, <1>8

LEMMA DigitType == strtol16(stray) \in Byte
  BY DEF strtol16, Bits, Byte

(* What the server makes of a proof that is the exclusive or of the key K  *)
(* and the signature S, made in buffers as they are: case by case.         *)
LEMMA RecoveredIs ==
    ASSUME NEW K \in Digest, NEW S \in Digest, NEW c \in Byte, c = strtol16(stray),
           clientKey = K, clientSignature = S, ServerSignature = S,
           \E clientProof \in Copied : response = encodeBase64(clientProof),
           dirty \subseteq {"clientSignature"}, HasNul(S) => c = NUL
    PROVE  Recovered = K <=>
               /\ "clientSignature" \notin dirty /\ c = NUL
               /\ \A n \in 1..D : S[n] \notin {NUL, K[n]}
  <1>1. PICK x : x = xor OBVIOUS
  <1>2. PICK l \in Nat : l = Len(CStr(S, "clientSignature"))
    BY CStrType, DigestIsSeq
  <1>3. /\ K \in Seq(Byte) /\ Len(K) = D /\ DOMAIN K = 1..D
        /\ S \in Seq(Byte) /\ Len(S) = D /\ DOMAIN S = 1..D
        /\ D \in Nat \ {0} /\ "clientKey" \notin dirty
        /\ \A n \in 1..D : K[n] \in Byte /\ S[n] \in Byte
    BY DigestIsSeq, DIsPositive DEF Digest
  <1>4. x = [n \in 1..l |-> xorByte(ByteAt(K, "clientKey", n), ByteAt(S, "clientSignature", n))]
    BY <1>1, <1>2, Zenon DEF xor
  <1>5. /\ \A n \in 1..D : n \in 1..l => x[n] = xorByte(K[n], S[n])
        /\ \A n \in 1..l : n \notin 1..D =>
              x[n] = xorByte(NUL, IF "clientSignature" \in dirty THEN JUNK ELSE NUL)
    BY <1>3, <1>4 DEF ByteAt
  <1>6. x \in Seq(Byte) /\ Len(x) = l /\ DOMAIN x = 1..l
    <2>1. \A n \in 1..l : /\ ByteAt(K, "clientKey", n) \in Byte
                          /\ ByteAt(S, "clientSignature", n) \in Byte
      BY <1>3, ScramAssumption DEF ByteAt, NUL, Byte
    <2>2. x \in [1..l -> Byte] BY <1>4, <2>1, XorByteType
    <2>3. x \in Seq(Byte) BY <1>2, <2>2, SequencesAre
    <2>4. DOMAIN x = 1..l BY <1>4
    <2> QED BY <1>2, <2>3, <2>4
  <1>7. PICK y : /\ response = encodeBase64(y)
                 /\ y = SubSeq(Append(x, c), 1, strlen(Append(x, c)))
    <2>1. "txtoutput" \notin dirty OBVIOUS
    <2> QED BY <1>1, <2>1, Zenon DEF Copied, textFromHexString
  <1>8. /\ y \in Seq(Byte)
        /\ HasNul(x) => Len(y) < l
        /\ ~HasNul(x) /\ c = NUL => y = x
        /\ ~HasNul(x) /\ c # NUL => Len(y) = l + 1
    <2>1. PICK e : e = Append(x, c) OBVIOUS
    <2>2. x \in Seq(Byte) /\ c \in Byte /\ Len(x) = l /\ DOMAIN x = 1..l BY <1>6
    <2>3. /\ e \in Seq(Byte) /\ Len(e) = l + 1
          /\ \A m \in 1..l : e[m] = x[m]
      BY <2>1, <2>2, AppendProperties
    <2>4. PICK k \in 0..(l + 1) :
            /\ k = strlen(e)
            /\ HasNul(x) => k < l
            /\ ~HasNul(x) /\ c = NUL => k = l
            /\ ~HasNul(x) /\ c # NUL => k = l + 1
      BY <2>1, <2>2, <2>3, LenOfMore
    <2>5. y = SubSeq(e, 1, k) BY <1>7, <2>1, <2>4
    <2>6. y \in Seq(Byte) /\ Len(y) = k /\ \A m \in 1..k : y[m] = e[m]
      <3>1. \A m \in 1..k : m \in 1..Len(e) BY <2>3, <2>4
      <3>2. \A m \in 1..k : e[m] \in Byte BY <2>3, <3>1, ElementOfSeq
      <3> QED BY <2>3, <2>4, <2>5, <3>1, <3>2
    <2>7. ~HasNul(x) /\ c = NUL => y = x
      <3>1. k = l => Len(y) = l /\ \A m \in 1..l : y[m] = x[m] BY <2>3, <2>6
      <3> QED BY <2>2, <2>4, <2>6, <3>1
    <2> QED BY <2>4, <2>6, <2>7
  <1>9. Recovered = IF Len(y) = D THEN XorAll(y, S) ELSE << >>
    <2>1. y \in Seq(Octet) BY <1>8 DEF Byte, Octet
    <2>2. decodeBase64(response) = y BY <1>7, <2>1, Base64Both
    <2> QED BY <2>2 DEF Recovered
  <1>10. ~(Len(y) = D) => ~(Recovered = K)
    <2>1. K # << >> BY <1>3
    <2> QED BY <1>9, <2>1
  <1>11. \A n \in 1..D : n \in 1..l => (x[n] = NUL <=> S[n] = K[n])
    BY <1>3, <1>5, XorByteTwice
  <1>12. CASE HasNul(S)
    <2>1. PICK n \in 1..D : S[n] = NUL BY <1>3, <1>12 DEF HasNul
    <2>2. l < D BY <1>2, <1>3, <1>12, CStrCut
    <2>3. Len(y) <= l BY <1>6, <1>8, <1>12
    <2>4. ~(Len(y) = D) BY <1>3, <1>8, <2>2, <2>3
    <2> QED BY <1>10, <2>1, <2>4
  <1>13. CASE ~HasNul(S) /\ "clientSignature" \in dirty
    <2>1. l = D + 1 BY <1>2, <1>3, <1>13, CStrDirty
    <2>2. ~(Len(y) = D)
      <3>1. CASE HasNul(x)
        <4>1. PICK n \in 1..l : x[n] = NUL BY <1>6, <3>1 DEF HasNul
        <4>2. n \in 1..D
          <5>1. ASSUME n \notin 1..D PROVE FALSE
            <6>1. x[n] = xorByte(NUL, JUNK) BY <1>5, <1>13, <5>1
            <6>2. JUNK \in Byte /\ NUL \in Byte /\ JUNK # NUL
              BY ScramAssumption DEF NUL, Byte
            <6> QED BY <4>1, <6>1, <6>2, XorByteTwice
          <5> QED BY <5>1
        <4>3. Len(y) < n
          <5> PICK e : e = Append(x, c) OBVIOUS
          <5>1. e \in Seq(Byte) /\ n \in DOMAIN e /\ e[n] = x[n]
            <6>1. x \in Seq(Byte) /\ c \in Byte /\ Len(x) = l BY <1>6
            <6>2. /\ e \in Seq(Byte) /\ Len(e) = Len(x) + 1
                  /\ \A m \in 1..Len(x) : e[m] = x[m]
              BY <6>1, AppendProperties
            <6> QED BY <6>1, <6>2
          <5>2. PICK k \in 0..Len(e) : k = strlen(e) /\ k < n
            BY <4>1, <5>1, strlenType, strlenBefore
          <5>3. Len(SubSeq(e, 1, k)) = k BY <5>1, <5>2
          <5> QED BY <1>7, <5>1, <5>2, <5>3
        <4> QED BY <1>3, <4>2, <4>3
      <3>2. CASE ~HasNul(x) /\ c # NUL BY <1>3, <1>8, <2>1, <3>2
      <3>3. CASE ~HasNul(x) /\ c = NUL BY <1>3, <1>6, <1>8, <2>1, <3>3
      <3> QED BY <3>1, <3>2, <3>3
    <2> QED BY <1>10, <1>13, <2>2
  <1>14. CASE ~HasNul(S) /\ "clientSignature" \notin dirty
    <2>1. l = D BY <1>2, <1>3, <1>14, CStrClean
    <2>2. CASE HasNul(x)
      <3>1. PICK n \in 1..D : x[n] = NUL BY <1>6, <2>1, <2>2 DEF HasNul
      <3>2. S[n] = K[n] BY <1>11, <2>1, <3>1
      <3>3. ~(Len(y) = D) BY <1>3, <1>8, <2>1, <2>2
      <3> QED BY <1>10, <3>2, <3>3
    <2>3. CASE ~HasNul(x) /\ c # NUL
      <3>1. ~(Len(y) = D) BY <1>3, <1>8, <2>1, <2>3
      <3> QED BY <1>10, <2>3, <3>1
    <2>4. CASE ~HasNul(x) /\ c = NUL
      <3>1. y = x /\ Len(y) = D BY <1>6, <1>8, <2>1, <2>4
      <3>2. Recovered = XorAll(y, S) BY <1>9, <3>1, Zenon
      <3>3. XorAll(y, S) = [n \in 1..D |-> xorByte(x[n], S[n])]
        BY <1>6, <2>1, <3>1 DEF XorAll
      <3>4. \A n \in 1..D : xorByte(x[n], S[n]) = K[n]
        BY <1>3, <1>5, <2>1, XorByteTwice
      <3>5. K = [n \in 1..D |-> K[n]] BY DEF Digest
      <3>6. Recovered = K BY <3>2, <3>3, <3>4, <3>5
      <3>7. ASSUME NEW n \in 1..D PROVE S[n] # NUL /\ S[n] # K[n]
        <4>1. S[n] # NUL BY <1>3, <1>14 DEF HasNul
        <4>2. x[n] # NUL BY <1>6, <2>1, <2>4 DEF HasNul
        <4> QED BY <1>11, <2>1, <4>1, <4>2
      <3> QED BY <1>14, <2>4, <3>6, <3>7
    <2> QED BY <2>2, <2>3, <2>4
  <1> QED BY <1>12, <1>13, <1>14

(* Cut or gone on, the salt is another one.                                *)
LEMMA SaltIs ==
    ASSUME ProofInv, pc = "done"
    PROVE  salt = challenge.salt <=> ~HasNul(challenge.salt) /\ "salt" \notin dirty
  <1>1. challenge.salt \in Seq(Byte)
        /\ decodeBase64(encodeBase64(challenge.salt)) = challenge.salt
    <2>1. ArgsOK BY DEF ProofInv, KeyInv
    <2> QED BY <2>1, ChallengeType, Base64Back
  <1>2. PICK t \in Seq(Byte) : t = challenge.salt BY <1>1
  <1>3. salt = CStr(t, "salt") BY <1>1, <1>2 DEF ProofInv, SaltRead
  <1>4. HasNul(t) => salt # t BY <1>2, <1>3, CStrCut
  <1>5. ~HasNul(t) /\ "salt" \in dirty => salt # t
    <2> SUFFICES ASSUME ~HasNul(t), "salt" \in dirty PROVE salt # t OBVIOUS
    <2>1. PICK N \in Nat : N = Len(t) OBVIOUS
    <2>2. Len(CStr(t, "salt")) = N + 1 BY <1>2, <2>1, CStrDirty
    <2> QED BY <1>3, <2>1, <2>2
  <1>6. ~HasNul(t) /\ "salt" \notin dirty => salt = t BY <1>2, <1>3, CStrClean
  <1> QED BY <1>2, <1>4, <1>5, <1>6

LEMMA ProofInvVerifies == ProofInv => ProofVerifies
  <1> SUFFICES ASSUME ProofInv, pc = "done", HashedRight,
                      HasNul(ServerSignature) => strtol16(stray) = NUL
               PROVE  Recovered = ServerClientKey <=>
                          /\ "clientSignature" \notin dirty /\ strtol16(stray) = NUL
                          /\ \A n \in 1..D : ServerSignature[n] \notin {NUL, ServerClientKey[n]}
    BY SaltIs, Zenon DEF ProofVerifies
  <1>0. /\ output \in Seq(Byte)
        /\ ServerClientKey = sha1_hmac(output, ClientKeyText)
        /\ \A d \in Digest : \A m : HMAC(sha1(d), m) = sha1_hmac(sha1(d), m)
    <2>1. output \in Seq(Byte) BY DEF ProofInv, KeyInv, LoopOK
    <2> QED BY <2>1, HmacIsRfc2104, Sha1Type, DigestIsSeq DEF ServerClientKey
  <1>1. PICK K \in Digest : K = ServerClientKey BY <1>0, HmacType
  <1>2. PICK S \in Digest :
            /\ S = ServerSignature
            /\ S = sha1_hmac(sha1(K), clientInit \o << Comma >> \o challenge.text \o
                                      << Comma >> \o clientFinalBare)
    BY <1>0, <1>1, HmacType, Zenon DEF ServerSignature
  <1>3. /\ dirty \subseteq {"clientSignature"}
        /\ ~HasNul(challenge.text) /\ ~HasNul(challenge.salt) /\ ~HasNul(clientInit)
        /\ ~HasNul(output) /\ ~HasNul(K) /\ ~HasNul(sha1(K))
    BY <1>1 DEF HashedRight
  <1>4. /\ "salt" \notin dirty /\ "text" \notin dirty /\ "saltedPassword" \notin dirty
        /\ "clientKey" \notin dirty /\ "storedKey" \notin dirty /\ "clientInit" \notin dirty
    BY <1>3
  <1>5. /\ output \in Seq(Byte) /\ K \in Seq(Byte) /\ sha1(K) \in Seq(Byte)
        /\ clientInit \in Seq(Byte)
    BY Sha1Type, DigestIsSeq, ScramAssumption DEF ProofInv, KeyInv, LoopOK
  <1>6. ArgsOK BY DEF ProofInv, KeyInv
  <1>8. clientKey = K
    <2>1. CStr(output, "saltedPassword") = output BY <1>3, <1>4, <1>5, CStrClean
    <2> QED BY <1>0, <1>1, <2>1 DEF ProofInv, KeysMade
  <1>9. storedKey = sha1(K)
    <2>1. CStr(K, "clientKey") = K BY <1>3, <1>4, <1>5, CStrClean
    <2> QED BY <1>8, <2>1 DEF ProofInv, KeysMade
  <1>10. clientSignature = S
    <2>1. CStr(sha1(K), "storedKey") = sha1(K) BY <1>3, <1>4, <1>5, CStrClean
    <2>2. CStr(clientInit, "clientInit") = clientInit BY <1>3, <1>4, <1>5, CStrClean
    <2>3. decodeBase64(encodeBase64(challenge.text)) = challenge.text
      BY <1>6, ChallengeType, Base64Back
    <2>4. CStr(challenge.text, "text") = challenge.text
      BY <1>3, <1>4, <1>6, ChallengeType, CStrClean
    <2>5. clientSignature = sha1_hmac(CStr(storedKey, "storedKey"), authMessage)
      BY DEF ProofInv, Signed
    <2>6. authMessage = clientInit \o << Comma >> \o challenge.text \o << Comma >> \o clientFinalBare
      BY <2>2, <2>3, <2>4, Zenon DEF authMessage
    <2> QED BY <1>2, <1>9, <2>1, <2>5, <2>6, Zenon
  <1>11. \E clientProof \in Copied : response = encodeBase64(clientProof)
    BY DEF ProofInv, Proved
  <1>12. PICK c \in Byte : c = strtol16(stray) BY DigitType
  <1>13. Recovered = K <=> /\ "clientSignature" \notin dirty /\ c = NUL
                           /\ \A n \in 1..D : S[n] \notin {NUL, K[n]}
    BY <1>2, <1>3, <1>8, <1>10, <1>11, <1>12, RecoveredIs
  <1> QED BY <1>1, <1>2, <1>12, <1>13

(* Exactly which proofs of a right password are refused, whatever the      *)
(* hash, after what was hashed right: those cut at a NUL, and those that   *)
(* took in a byte from behind, which a stray character has to make first.  *)
(* And with which salt the key was derived.                                *)
THEOREM AlwaysProofVerifies == Spec => []ProofVerifies
  BY ProofInvInit, ProofInvNext, ProofInvVerifies, PTL DEF Spec
=============================================================================
