----------------------------- MODULE PresentCbc -----------------------------
(***************************************************************************)
(* presentCBCencr and presentCBCdecr of present_cbc.h, as encrypt_lua and  *)
(* decrypt_lua of libnativefunc.c call them: a text becomes hexadecimal    *)
(* digits, the last block is filled with the digit '0', the blocks are     *)
(* chained, and the way back strips what looks like filling.  The chain is *)
(* run down to the rounds of the cipher.  Texts are C strings of ASCII     *)
(* characters: of a negative char, string2hexString prints eight digits.   *)
(* Upper and lower case of digits are one digit here, as they are to       *)
(* hexval.  The arrays that the functions return from their own frames are *)
(* taken to be whole until the caller has copied them.                     *)
(***************************************************************************)
EXTENDS PresentCipher, Sequences

CONSTANTS
    Texts, \* the texts that are enciphered
    Keys   \* the keys, as two variables of generateSubkeys

ASSUME TextsAssumption == \A t \in Texts : t \in Seq(1..127) /\ t # << >>
ASSUME KeysAssumption == Keys \subseteq Register

VARIABLES
    text,      \* the argument of presentCBCencr
    pc,        \* the loop that runs: "keys", "encrypt" or "decrypt" of one
               \* block, "chain" and "unchain" between two, or "done"
    registers, \* keyHigh and keyLow after each turn of generateSubkeys
    state,     \* "state" of present_encrypt or decrypt
    i,         \* rounds done
    trail,     \* for each block, "state" at each round of its encryption
    cipher,    \* hexCtextBlocks
    plain,     \* hexPtextBlocks of presentCBCdecr
    before,    \* TRUE if the byte in front of hexPtextBlocks is a '0'
    behind,    \* the characters that stand behind a resultHexText without NUL
    result     \* what decrypt_lua pushes

vars == << text, pc, registers, state, i, trail, cipher, plain, before, behind, result >>

-----------------------------------------------------------------------------
(* string2hexString, with the last block filled.                           *)
HexDigit(t, n) ==
    IF n >= 2 * Len(t) THEN 0
    ELSE IF n % 2 = 0 THEN t[n \div 2 + 1] \div 16 ELSE t[n \div 2 + 1] % 16
blockCount(t) == (2 * Len(t) + 15) \div 16
Block(t, b) == fromHexStringToLong([n \in 0..15 |-> HexDigit(t, 16 * (b - 1) + n)])

(* "12341234"                                                              *)
IV == fromHexStringToLong([n \in 0..15 |-> IF n % 2 = 0 THEN 3 ELSE ((n \div 2) % 4) + 1])

Subkey(j) == registers[j + 1].high
Chained(w, blocks) == XorWord(IF blocks = << >> THEN IV ELSE blocks[Len(blocks)], w)

Init ==
    /\ text \in Texts
    /\ pc = "keys"
    /\ \E k \in Keys : registers = << k >>
    /\ state = IV
    /\ i = 0
    /\ trail = << >>
    /\ cipher = << >>
    /\ plain = << >>
    /\ before = FALSE
    /\ behind = << >>
    /\ result = << >>

(* Mutant of generateSubkeys: one turn too many.                           *)
generateSubkeysTo32 ==
    /\ pc = "keys"
    /\ IF Len(registers) <= 32
       THEN /\ registers' = Append(registers,
                 NextRegister(registers[Len(registers)], Len(registers)))
            /\ UNCHANGED pc
       ELSE pc' = "chain" /\ UNCHANGED registers
    /\ UNCHANGED << text, state, i, trail, cipher, plain, before, behind, result >>

(* The subkeys depend on the key only: both functions have these.          *)
generateSubkeys ==
    /\ pc = "keys"
    /\ IF Len(registers) < 32
       THEN /\ registers' = Append(registers,
                 NextRegister(registers[Len(registers)], Len(registers)))
            /\ UNCHANGED pc
       ELSE pc' = "chain" /\ UNCHANGED registers
    /\ UNCHANGED << text, state, i, trail, cipher, plain, before, behind, result >>

EncryptsBlock ==
    /\ pc = "chain" /\ Len(cipher) < blockCount(text)
    /\ state' = Chained(Block(text, Len(cipher) + 1), cipher)
    /\ i' = 0
    /\ trail' = Append(trail, << state' >>)
    /\ pc' = "encrypt"
    /\ UNCHANGED << text, registers, cipher, plain, before, behind, result >>

EncryptRound ==
    /\ pc = "encrypt" /\ i < 31
    /\ state' = EncryptsOnce(state, Subkey(i))
    /\ i' = i + 1
    /\ trail' = [trail EXCEPT ![Len(trail)] = Append(@, state')]
    /\ UNCHANGED << text, pc, registers, cipher, plain, before, behind, result >>

EncryptEnds ==
    /\ pc = "encrypt" /\ i = 31
    /\ cipher' = Append(cipher, XorWord(state, Subkey(31)))
    /\ pc' = "chain"
    /\ UNCHANGED << text, registers, state, i, trail, plain, before, behind, result >>

(* The caller has the cipher text, and gives it to the other function,     *)
(* whose arrays lie anywhere on the stack.                                 *)
Deciphers ==
    /\ pc = "chain" /\ Len(cipher) = blockCount(text)
    /\ pc' = "unchain"
    /\ before' \in BOOLEAN
    /\ behind' \in {<< >>, << 48 >>}
    /\ UNCHANGED << text, registers, state, i, trail, cipher, plain, result >>

DecryptsBlock ==
    /\ pc = "unchain" /\ Len(plain) < Len(cipher)
    /\ state' = cipher[Len(plain) + 1]
    /\ i' = 0
    /\ pc' = "decrypt"
    /\ UNCHANGED << text, registers, trail, cipher, plain, before, behind, result >>

DecryptRound ==
    /\ pc = "decrypt" /\ i < 31
    /\ state' = DecryptsOnce(state, Subkey(31 - i))
    /\ i' = i + 1
    /\ UNCHANGED << text, pc, registers, trail, cipher, plain, before, behind, result >>

DecryptEnds ==
    /\ pc = "decrypt" /\ i = 31
    /\ plain' = Append(plain, Chained(XorWord(state, Subkey(0)),
                                      SubSeq(cipher, 1, Len(plain))))
    /\ pc' = "unchain"
    /\ UNCHANGED << text, registers, state, i, trail, cipher, before, behind, result >>

-----------------------------------------------------------------------------
(* The digits of all blocks.                                               *)
Digit(blocks, n) == DigitOf(blocks[n \div 16 + 1], n % 16)

(* A '0' behind a '0' is taken for filling.  In front of a block stands    *)
(* the NUL of the one before, in front of the first whatever is there.     *)
Filling(blocks, n) ==
    /\ Digit(blocks, n) = 0
    /\ IF n % 16 = 0 THEN n = 0 /\ before ELSE Digit(blocks, n - 1) = 0

(* Mutant of Stripped: the digit in front is kept.                         *)
StripsOne(blocks, n) == Filling(blocks, n)

(* Both digits become NUL in resultHexText.                                *)
Stripped(blocks, n) ==
    Filling(blocks, n) \/ (n + 1 < 16 * Len(blocks) /\ Filling(blocks, n + 1))

(* textFromHexString reads two digits at a time up to a NUL in the first   *)
(* of them; a digit in front of a NUL is the number by itself.  Without a  *)
(* NUL it reads on into what is behind.                                    *)
Ends(blocks, n) == n = 8 * Len(blocks) \/ Stripped(blocks, 2 * n)

textFromHexString(blocks) ==
    LET end == CHOOSE n \in 0..(8 * Len(blocks)) :
                   Ends(blocks, n) /\ \A m \in 0..(n - 1) : ~Ends(blocks, m)
        read == [n \in 1..end |->
                   IF Stripped(blocks, 2 * n - 1) THEN Digit(blocks, 2 * n - 2)
                   ELSE 16 * Digit(blocks, 2 * n - 2) + Digit(blocks, 2 * n - 1)]
    IN  IF end = 8 * Len(blocks) THEN read \o behind ELSE read

Strip ==
    /\ pc = "unchain" /\ Len(plain) = Len(cipher)
    /\ result' = textFromHexString(plain)
    /\ pc' = "done"
    /\ UNCHANGED << text, registers, state, i, trail, cipher, plain, before, behind >>

Done == pc = "done" /\ UNCHANGED vars

Next ==
    \/ generateSubkeys \/ EncryptsBlock \/ EncryptRound \/ EncryptEnds
    \/ Deciphers \/ DecryptsBlock \/ DecryptRound \/ DecryptEnds \/ Strip \/ Done

Spec == Init /\ [][Next]_vars

-----------------------------------------------------------------------------
TypeOK ==
    /\ text \in Texts
    /\ pc \in {"keys", "chain", "encrypt", "unchain", "decrypt", "done"}
    /\ registers \in Seq(Register) /\ Len(registers) \in 1..32
    /\ state \in Word
    /\ i \in 0..31
    /\ trail \in Seq(Seq(Word))
    /\ cipher \in Seq(Word) /\ plain \in Seq(Word)
    /\ before \in BOOLEAN
    /\ behind \in {<< >>, << 48 >>}

(* The two variables of generateSubkeys are one register of 80 bits that   *)
(* is turned left by 61, whose top digit goes through the S-box, and into  *)
(* whose bits 19 to 15 the round counter is added: the key schedule of the *)
(* cipher, however the code splits it (lines 133-144).                     *)
Whole(r) == [p \in 0..79 |-> IF p < 64 THEN r.high[p] ELSE r.low[p - 64]]
Turned(w) == [p \in 0..79 |-> w[(p + 61) % 80]]
CounterBit(j, p) == CASE p = 60 -> j \div 16
                      [] p = 61 -> (j \div 8) % 2
                      [] p = 62 -> (j \div 4) % 2
                      [] p = 63 -> (j \div 2) % 2
                      [] p = 64 -> j % 2
                      [] OTHER  -> 0
NextWhole(w, j) ==
    LET t == Turned(w)
    IN  [p \in 0..79 |-> XorBit(IF p < 4 THEN BitOf(S[DigitOf(t, 0)], p) ELSE t[p],
                                CounterBit(j, p))]
OneRegister ==
    LET j == Len(registers) - 1
    IN  j > 0 => Whole(registers[j + 1]) = NextWhole(Whole(registers[j]), j)

(* Enciphering and deciphering go through the same states in opposite      *)
(* directions, so that whatever the key and the text the blocks that come  *)
(* out are the filled blocks of the text: rounds, subkeys from the last to *)
(* the first, and the chain (lines 148-191, 329-340, 393-411).             *)
Retraced ==
    /\ pc = "decrypt" =>
           state = XorWord(trail[Len(plain) + 1][32 - i], Subkey(31 - i))
    /\ \A b \in 1..Len(plain) : plain[b] = Block(text, b)

(* Which texts come back as they were: those in which no character that    *)
(* ends in the digit 0 is followed, within its block of eight, by the      *)
(* filling or by a control character below 16.  Beyond that it takes luck  *)
(* with memory: in front of a text that begins with such a character, and  *)
(* behind one that fills its blocks exactly (lines 413-430).               *)
LooksFilled(t) ==
    \E k \in DOMAIN t : /\ t[k] % 16 = 0 /\ k % 8 # 0
                        /\ k = Len(t) \/ t[k + 1] < 16
Survives ==
    pc = "done" =>
        (result = text <=> /\ ~LooksFilled(text)
                           /\ text[1] < 16 => ~before
                           /\ Len(text) % 8 = 0 => behind = << >>)
=============================================================================
