--------------------------- MODULE MCC2sSession ---------------------------
(* MCSaslAuth's backend, under mod_pls and mod_tls.                        *)
EXTENDS C2sSession

MCMechanisms == {"PLAIN", "SCRAM", "DIGEST"}
MCOneStep    == {"PLAIN"}
MCInsecure   == {"PLAIN"}
MCDisabled   == {"DIGEST"}
MCLayers     == {"pls", "tls"}
=============================================================================
