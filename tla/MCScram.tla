------------------------------- MODULE MCScram -------------------------------
(* A hash of two bytes with three bits each, so that a byte in eight is    *)
(* NUL, and inputs of which some run clean through every step.             *)
EXTENDS Scram

Number(b) == (IF 0 \in b THEN 1 ELSE 0) + (IF 1 \in b THEN 2 ELSE 0) +
             (IF 2 \in b THEN 4 ELSE 0) + (IF 3 \in b THEN 8 ELSE 0) +
             (IF 4 \in b THEN 16 ELSE 0) + (IF 5 \in b THEN 32 ELSE 0) +
             (IF 6 \in b THEN 64 ELSE 0) + (IF 7 \in b THEN 128 ELSE 0)
Mixed(m) == LET f[k \in 0..Len(m)] ==
                  IF k = 0 THEN 7 ELSE (f[k - 1] * 31 + Number(m[k]) + k) % 1021
            IN  f[Len(m)]
MCSha(m, n, p) == p < 3 /\ (((Mixed(m) * (11 * n + 3 * p + 1)) % 1021) \div 16) % 2 = 1

MCIpad == {1, 2, 4, 5}
MCOpad == {2, 3, 4, 6}
MCJUNK == {5, 6}

MCPasswords == {<< {0} >>, << {0}, {1}, {4, 7} >>, << {5}, {0, 1}, {6}, {2} >>}
MCChallenges ==
    {[text |-> t, salt |-> s, iterations |-> c] :
        t \in {<< {1} >>, << {0}, {4}, {7} >>, << {2}, {2} >>, << {6}, {5}, {0}, {3} >>},
        s \in {<< {5} >>, << {0}, {6} >>, << {3}, {3}, {1} >>, << {3}, {}, {1} >>}, c \in 0..3}
MCDirt == {{}} \cup {{b} : b \in Buffers}
(* No character, one that is no digit, "0" and "7".                       *)
MCStrays == {NUL, {5, 6}, {4, 5}, {0, 1, 2, 4, 5}}
MCClientKeyText == << {0, 1, 6} >>
MCclientInit == << {1, 2, 3, 5, 6}, {0} >>
MCclientFinalBare == << {0, 1, 5, 6}, {4, 5} >>
=============================================================================
