----------------------------- MODULE Sha1Stream -----------------------------
(***************************************************************************)
(* The SHA-1 of authModule.h as a stream: sha1_starts, any number of       *)
(* sha1_update calls and sha1_finish, on a context that is used again and  *)
(* again without being cleared.  A byte is known by the text it belongs to *)
(* and its place there, so that a lost, doubled, stale or misplaced byte   *)
(* is seen.  What the rounds of sha1_process compute is left out: the five *)
(* state words stand for the sequence of bytes they were computed from.    *)
(***************************************************************************)
EXTENDS Integers, Sequences

CONSTANTS
    B,        \* bytes in a block (64)
    LenBytes, \* bytes of the length field (8)
    Word,     \* total[0] counts modulo Word (2^32)
    Texts,    \* the texts that are digested
    MaxFed,   \* bound on the bytes of one text
    MaxChunk  \* bound on the bytes of one call

ASSUME BlockAssumption ==
    /\ B \in Nat \ {0}
    /\ LenBytes \in 1..(B - 1)
    /\ Word \in Nat \ {0}
    /\ Word % B = 0 /\ Word % 8 = 0
    /\ B < Word
ASSUME BoundsAssumption == MaxFed \in Nat /\ MaxChunk \in 0..(Word - 1)

VARIABLES
    ctx,   \* the sha1_context
    text,  \* the text whose bytes are being fed
    fed,   \* the bytes given to sha1_update since sha1_starts
    stage  \* "fresh": nothing started, "open", or "done": finished

vars == << ctx, text, fed, stage >>

-----------------------------------------------------------------------------
(* Bytes.                                                                  *)
ByteOf(t, i) == [of |-> t, at |-> i, value |-> 0]
Stale == ByteOf("memory", 0)            \* what the memory held
Zero == ByteOf("padding", 0)
One == ByteOf("padding", 1)             \* 0x80
Field(v) == [i \in 1..LenBytes |-> [of |-> "length", at |-> i, value |-> v]]

sha1_padding == [i \in 1..B |-> IF i = 1 THEN One ELSE Zero]

(* The state words after a sequence of blocks.                             *)
sha1_process(hashed, data) == hashed \o data

sha1_starts(c) == [c EXCEPT !.total0 = 0, !.total1 = 0, !.hashed = << >>]

(* Mutant of total0: the mask is forgotten.                                *)
total0Unmasked(c, n) == c.total0 + n

(* The count in two words.                                                 *)
total0(c, n) == (c.total0 + n) % Word
total1(c, n) == IF total0(c, n) < n THEN c.total1 + 1 ELSE c.total1

(* The input completes the partial block in the buffer.                    *)
Fills(c, n) == c.total0 % B # 0 /\ n >= B - (c.total0 % B)

(* The partial block is completed first, then whole blocks are taken from  *)
(* the input, and what is left of it is kept in the buffer.                *)
sha1_update(c, input) ==
    LET n      == Len(input)
        left   == c.total0 % B
        fills  == Fills(c, n)
        first  == IF fills THEN B - left ELSE 0
        rest   == (n - first) % B
        at     == IF fills THEN 0 ELSE left
        topped == [i \in 1..B |-> IF fills /\ i > left THEN input[i - left] ELSE c.buffer[i]]
        before == IF fills THEN sha1_process(c.hashed, topped) ELSE c.hashed
    IN  IF n = 0 THEN c
        ELSE [total0 |-> total0(c, n),
              total1 |-> total1(c, n),
              buffer |-> [i \in 1..B |-> IF at < i /\ i <= at + rest
                                         THEN input[n - rest + i - at] ELSE topped[i]],
              hashed |-> sha1_process(before, SubSeq(input, first + 1, n - rest))]

(* The bit count of both totals, in two words of the length field.         *)
msglen(c) ==
    LET high == c.total0 \div (Word \div 8) + c.total1 * 8
        low  == c.total0 * 8
    IN  (high % Word) * Word + (low % Word)

(* Mutant of padn: a full block is not left for the length.                *)
padnShort(c) ==
    LET last == c.total0 % B
    IN  IF last <= B - LenBytes THEN B - LenBytes - last ELSE 2 * B - LenBytes - last

padn(c) ==
    LET last == c.total0 % B
    IN  IF last < B - LenBytes THEN B - LenBytes - last ELSE 2 * B - LenBytes - last

sha1_finish(c) ==
    sha1_update(sha1_update(c, SubSeq(sha1_padding, 1, padn(c))), Field(msglen(c)))

-----------------------------------------------------------------------------
Init ==
    /\ ctx = [total0 |-> 0, total1 |-> 0, buffer |-> [i \in 1..B |-> Stale],
              hashed |-> << >>]
    /\ text \in Texts
    /\ fed = << >>
    /\ stage = "fresh"

Starts(t) ==
    /\ ctx' = sha1_starts(ctx)
    /\ text' = t
    /\ fed' = << >>
    /\ stage' = "open"

Update(n) ==
    /\ stage = "open"
    /\ Len(fed) + n <= MaxFed
    /\ LET input == [i \in 1..n |-> ByteOf(text, Len(fed) + i)]
       IN  ctx' = sha1_update(ctx, input) /\ fed' = fed \o input
    /\ UNCHANGED << text, stage >>

Finish ==
    /\ stage = "open"
    /\ ctx' = sha1_finish(ctx)
    /\ stage' = "done"
    /\ UNCHANGED << text, fed >>

Next ==
    \/ \E t \in Texts : Starts(t)
    \/ \E n \in 0..MaxChunk : Update(n)
    \/ Finish

Spec == Init /\ [][Next]_vars

-----------------------------------------------------------------------------
(* What a digest must be computed from (FIPS 180): the text, 0x80, as few  *)
(* zeros as fill up a block with the length field, and the length in bits. *)
IsPadded(h, m) ==
    \E z \in 0..(B - 1) :
        /\ (Len(m) + 1 + z + LenBytes) % B = 0
        /\ h = m \o << One >> \o [i \in 1..z |-> Zero]
                 \o Field((8 * Len(m)) % (Word * Word))

(* While a text is fed, the blocks processed and the part of the buffer in *)
(* use are the text so far, byte by byte, however it was cut into calls    *)
(* and whatever an earlier use left in the buffer (lines 212-246).         *)
NothingLost ==
    stage = "open" => fed = ctx.hashed \o SubSeq(ctx.buffer, 1, ctx.total0 % B)

(* The two words of the count carry exactly (lines 223-227).               *)
CountExact == stage = "open" => ctx.total1 * Word + ctx.total0 = Len(fed)

(* A digest is that of the padded text: the 56-byte boundary, a block more *)
(* when the length does not fit, the bits of both words (lines 258-282).   *)
DigestIsPadded == stage = "done" => IsPadded(ctx.hashed, fed)

(* The context implements a digest: the text it stands for is what the     *)
(* state words were computed from with the used part of the buffer.  A     *)
(* call adds its bytes to the end of that text and changes none of it,     *)
(* wherever blocks end, and finishing digests exactly that text            *)
(* (lines 212-282).                                                        *)
TextHeld ==
    IF stage = "open" THEN ctx.hashed \o SubSeq(ctx.buffer, 1, ctx.total0 % B) ELSE fed
DigestHeld == IF stage = "done" THEN ctx.hashed ELSE << >>

Abstract == INSTANCE Digest WITH IsDigest <- IsPadded, said <- TextHeld,
                                 digest <- DigestHeld, stage <- stage

ImplementsDigest == Abstract!Spec

Bytes == [of : Texts \cup {"memory", "padding", "length"}, at : Nat, value : Nat]
Contexts == [total0 : 0..(Word - 1), total1 : Nat, buffer : [1..B -> Bytes],
             hashed : Seq(Bytes)]

(* The shape of the context; sha1_process runs on whole blocks.            *)
TypeOK ==
    /\ ctx \in Contexts
    /\ Len(ctx.hashed) % B = 0
    /\ text \in Texts
    /\ fed \in Seq(Bytes)
    /\ stage \in {"fresh", "open", "done"}
=============================================================================
