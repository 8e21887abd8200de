--------------------------- MODULE MCPollServer ---------------------------
(* A small poll_set; the clients are interchangeable.                      *)
EXTENDS PollServer, TLC

ClientSymmetry == Permutations(Clients)
=============================================================================
