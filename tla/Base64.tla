------------------------------- MODULE Base64 -------------------------------
(***************************************************************************)
(* encodeBase64 and decodeBase64 of authModule.h.  A byte is the set of    *)
(* its bits, a character of base46_map the set of the bits of its number,  *)
(* and '=' is Pad.  Both functions regroup one stream of bits, by eight or *)
(* by six, highest bit first.                                              *)
(***************************************************************************)
EXTENDS Integers, Sequences

Octet  == SUBSET (0..7)
Sextet == SUBSET (0..5)
Pad    == {6}

(* Mutant of encodeBase64: mod_table as { 0, 1, 2 }.                       *)
encodeBase64PadsByRest(data) ==
    LET n == Len(data)
        m == 4 * ((n + 2) \div 3)
        Bit(pos) == pos < 8 * n /\ 7 - (pos % 8) \in data[(pos \div 8) + 1]
    IN  [j \in 1..m |-> IF j > m - (n % 3) THEN Pad
                        ELSE {q \in 0..5 : Bit(6 * (j - 1) + 5 - q)}]

encodeBase64(data) ==
    LET n == Len(data)
        m == 4 * ((n + 2) \div 3)
        Bit(pos) == pos < 8 * n /\ 7 - (pos % 8) \in data[(pos \div 8) + 1]
    IN  [j \in 1..m |-> IF j > m - ((3 - (n % 3)) % 3) THEN Pad
                        ELSE {q \in 0..5 : Bit(6 * (j - 1) + 5 - q)}]

(* The last two characters are looked at, and count one byte each.         *)
Pads(data) ==
    LET n == Len(data)
    IN  (IF n > 0 /\ data[n] = Pad THEN 1 ELSE 0) +
        (IF n > 1 /\ data[n - 1] = Pad THEN 1 ELSE 0)

(* Of a text whose length is a multiple of four: else the code has NULL.   *)
decodeBase64(data) ==
    LET Bit(pos) == LET c == data[(pos \div 6) + 1] IN c # Pad /\ 5 - (pos % 6) \in c
    IN  [i \in 1..(3 * (Len(data) \div 4) - Pads(data)) |->
            {p \in 0..7 : Bit(8 * (i - 1) + 7 - p)}]
=============================================================================
