-------------------------- MODULE MCPresentStream --------------------------
(* MCSaslAuth's backend, under mod_present.                                *)
EXTENDS PresentStream

MCMechanisms == {"PLAIN", "SCRAM", "DIGEST"}
MCOneStep    == {"PLAIN"}
MCInsecure   == {"PLAIN"}
MCDisabled   == {"DIGEST"}
=============================================================================
