---------------------------- MODULE PresentCipher ----------------------------
(***************************************************************************)
(* The PRESENT cipher of present_cbc.h on one block.  A uint64_t is a      *)
(* function from the places of its bits to 0 and 1, the most significant   *)
(* bit at place 0 as in the table P; a block as sixteen hexadecimal digits *)
(* is a function from 0..15 to 0..15.  Shifts and masks are then places.   *)
(* The variable "result" of fromHexStringToLong is never initialised; its  *)
(* sixteen shifts by four push out all that it held.                       *)
(***************************************************************************)
EXTENDS Integers

CONSTANTS
    S,    \* the S-box
    invS, \* and its inverse, a table of its own
    P     \* where permute puts each bit

Bit      == {0, 1}
Nibble   == 0..15
Digits   == [0..15 -> Nibble]
Word     == [0..63 -> Bit]
Register == [high : Word, low : [0..15 -> Bit]]

(* The two tables of S-boxes agree, and no two bits go to one place.       *)
ASSUME TablesAssumption ==
    /\ S \in [Nibble -> Nibble] /\ invS \in [Nibble -> Nibble]
    /\ \A x \in Nibble : invS[S[x]] = x
    /\ P \in [0..63 -> 0..63]
    /\ \A i, j \in 0..63 : P[i] = P[j] => i = j

-----------------------------------------------------------------------------
XorBit(a, b) == (a + b) % 2
XorWord(v, w) == [p \in 0..63 |-> XorBit(v[p], w[p])]

(* Digit n of a word, and bit p of a digit, its highest at p = 0.          *)
DigitOf(w, n) == 8 * w[4 * n] + 4 * w[4 * n + 1] + 2 * w[4 * n + 2] + w[4 * n + 3]
BitOf(d, p) ==
    CASE p = 0 -> d \div 8
      [] p = 1 -> (d \div 4) % 2
      [] p = 2 -> (d \div 2) % 2
      [] p = 3 -> d % 2

fromLongToBytes(w) == [n \in 0..15 |-> DigitOf(w, n)]
fromBytesToLong(d) == [p \in 0..63 |-> BitOf(d[p \div 4], p % 4)]
fromHexStringToLong(d) == fromBytesToLong(d)

Sbox(w) == fromBytesToLong([n \in 0..15 |-> S[DigitOf(w, n)]])
inverseSbox(w) == fromBytesToLong([n \in 0..15 |-> invS[DigitOf(w, n)]])

(* Mutant of permute: the bits are taken from where P would put them.      *)
permuteBack(w) == [p \in 0..63 |-> w[P[p]]]

(* permute or-s every bit into its place; inversepermute fetches it there. *)
permute(w) == [p \in 0..63 |-> IF \E i \in 0..63 : P[i] = p /\ w[i] = 1 THEN 1 ELSE 0]
inversepermute(w) == [p \in 0..63 |-> w[P[p]]]

(* One turn of the loop of present_encrypt, and of decrypt.                *)
EncryptsOnce(w, k) == permute(Sbox(XorWord(w, k)))
DecryptsOnce(w, k) == inverseSbox(inversepermute(XorWord(w, k)))

-----------------------------------------------------------------------------
(* generateSubkeys holds the 80 bits of the key in two variables.  The     *)
(* round counter i goes in with its lowest bit at the top of keyLow and    *)
(* the other four at the end of keyHigh.                                   *)
Shifted(r) ==
    [high |-> [p \in 0..63 |-> IF p < 3 THEN r.high[p + 61]
                               ELSE IF p < 19 THEN r.low[p - 3] ELSE r.high[p - 19]],
     low  |-> [p \in 0..15 |-> r.high[p + 45]]]

TopDigit(w, d) == [p \in 0..63 |-> IF p < 4 THEN BitOf(d, p) ELSE w[p]]

(* Mutant of Counted: the lowest bit of the counter is lost.               *)
CountedInHigh(r, i) ==
    [r EXCEPT !.high = [p \in 0..63 |->
         IF p >= 60 THEN XorBit(r.high[p], BitOf(i \div 2, p - 60)) ELSE r.high[p]]]

Counted(r, i) ==
    [high |-> [p \in 0..63 |->
         IF p >= 60 THEN XorBit(r.high[p], BitOf(i \div 2, p - 60)) ELSE r.high[p]],
     low  |-> [p \in 0..15 |-> IF p = 0 THEN XorBit(r.low[0], i % 2) ELSE r.low[p]]]

NextRegister(r, i) ==
    LET s == Shifted(r)
    IN  Counted([s EXCEPT !.high = TopDigit(@, S[DigitOf(@, 0)])], i)
=============================================================================
