-------------------------------- MODULE Hmac --------------------------------
(***************************************************************************)
(* The keyed hash of authModule.h.  A byte is the set of its bits that are *)
(* set, so that C's ^ is the symmetric difference and NUL the empty set.   *)
(* What sha1 computes of a message is left to the constant Sha; that it    *)
(* depends on nothing but the message is what module Sha1Stream shows.     *)
(***************************************************************************)
EXTENDS Integers, Sequences

CONSTANTS
    B,           \* the bytes of a block of SHA-1: 64
    D,           \* the bytes of its digest: 20
    Sha(_, _, _), \* whether byte n of the digest of a message has bit p
    Ipad, Opad   \* 0x36 and 0x5C

Byte == SUBSET (0..7)
NUL == {}

ASSUME HmacAssumption ==
    /\ B \in Nat /\ D \in 1..B
    /\ Ipad \in Byte /\ Opad \in Byte

xorByte(a, b) == (a \ b) \cup (b \ a)

sha1(m) == [n \in 1..D |-> {p \in 0..7 : Sha(m, n, p)}]

(* Mutant of sha1_hmac_starts: a key of exactly a block is hashed, too.    *)
startsHashingBlock(key) ==
    LET k == IF Len(key) >= B THEN sha1(key) ELSE key
        Padded(pad) == [n \in 1..B |-> IF n <= Len(k) THEN xorByte(pad, k[n]) ELSE pad]
    IN  [opad |-> Padded(Opad), hashed |-> Padded(Ipad)]

(* The context: what is hashed so far, and the outer pad for later.        *)
sha1_hmac_starts(key) ==
    LET k == IF Len(key) > B THEN sha1(key) ELSE key
        Padded(pad) == [n \in 1..B |-> IF n <= Len(k) THEN xorByte(pad, k[n]) ELSE pad]
    IN  [opad |-> Padded(Opad), hashed |-> Padded(Ipad)]
sha1_hmac_update(ctx, m) == [ctx EXCEPT !.hashed = @ \o m]
sha1_hmac_finish(ctx) == sha1(ctx.opad \o sha1(ctx.hashed))

sha1_hmac(key, m) == sha1_hmac_finish(sha1_hmac_update(sha1_hmac_starts(key), m))

-----------------------------------------------------------------------------
(* The keyed hash of RFC 2104, whatever computes it: the key, or the hash  *)
(* of one that is longer than a block, is filled up with zero bytes.       *)
HMAC(key, m) ==
    LET k == IF Len(key) > B THEN sha1(key) ELSE key
        K == k \o [n \in 1..(B - Len(k)) |-> NUL]
        Under(pad) == [n \in 1..B |-> xorByte(K[n], pad)]
    IN  sha1(Under(Opad) \o sha1(Under(Ipad) \o m))
=============================================================================
