---------------------------- MODULE MCPresentCbc ----------------------------
(* The tables of present_cbc.h, the key of xmppclient.c, and texts of one  *)
(* and two blocks that end, or go over the end of a block, in every way.   *)
EXTENDS PresentCbc

Table(seq) == [x \in 0..(Len(seq) - 1) |-> seq[x + 1]]

MCS == Table(<< 12, 5, 6, 11, 9, 0, 10, 13, 3, 14, 15, 8, 4, 7, 1, 2 >>)
MCInvS == Table(<< 5, 14, 15, 8, 12, 1, 2, 13, 11, 4, 6, 3, 0, 7, 9, 10 >>)
MCP == [p \in 0..63 |-> 16 * (p % 4) + (p \div 4)]

RegisterOf(bytes) ==
    LET bits == [p \in 0..79 |->
                   BitOf(IF (p \div 4) % 2 = 0 THEN bytes[p \div 8 + 1] \div 16
                         ELSE bytes[p \div 8 + 1] % 16, p % 4)]
    IN  [high |-> [p \in 0..63 |-> bits[p]], low |-> [p \in 0..15 |-> bits[p + 64]]]

MCKeys == {RegisterOf(<< 97, 98, 99, 100, 101, 102, 103, 104, 105, 106 >>)}

(* 'A', 'p' and newline, alone and at the end of a first block.            *)
Chars == {65, 112, 10}
MCTexts == UNION {[1..n -> Chars] : n \in 1..2} \cup
           {<< 60, 97, 98, 112, 47, 62 >> \o t : t \in UNION {[1..n -> Chars] : n \in 1..3}}
=============================================================================
