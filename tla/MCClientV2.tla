---------------------------- MODULE MCClientV2 ----------------------------
(* The account and the mechanism of client-v2.py, on the docker-v2 server. *)
EXTENDS ClientV2

MCMechanisms == {"PLAIN", "SCRAM", "DIGEST"}
MCOneStep    == {"PLAIN"}
MCInsecure   == {"PLAIN"}
MCDisabled   == {"DIGEST"}
MCLayers     == {"pls", "tls"}
=============================================================================
