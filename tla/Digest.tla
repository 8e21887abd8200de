------------------------------- MODULE Digest -------------------------------
(***************************************************************************)
(* What a user of SHA-1 may rely on, whatever becomes of blocks, counts    *)
(* and buffers: a text is said piece by piece, and the digest is a digest  *)
(* of all that was said since the start and of nothing else.  HMAC and     *)
(* PBKDF2 rely on no more than this.                                       *)
(***************************************************************************)
EXTENDS Naturals, Sequences

CONSTANT IsDigest(_, _)  \* IsDigest(d, t): d is the digest of the text t

VARIABLES
    said,   \* the text since the last start
    digest, \* << >> until it is finished
    stage   \* "fresh", "open" or "done"

digestVars == << said, digest, stage >>

Init == said = << >> /\ digest = << >> /\ stage = "fresh"

Start == said' = << >> /\ digest' = << >> /\ stage' = "open"

Says ==
    /\ stage = "open"
    /\ Len(said) <= Len(said') /\ SubSeq(said', 1, Len(said)) = said
    /\ UNCHANGED << digest, stage >>

Finish ==
    /\ stage = "open" /\ stage' = "done"
    /\ IsDigest(digest', said)
    /\ UNCHANGED said

Next == Start \/ Says \/ Finish

Spec == Init /\ [][Next]_digestVars
=============================================================================
