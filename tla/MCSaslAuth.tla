---------------------------- MODULE MCSaslAuth ----------------------------
(* A backend with PLAIN, SCRAM-SHA-1 and DIGEST-MD5, the default policy    *)
(* sets of mod_saslauth.lua, and one account that cannot be authenticated. *)
EXTENDS SaslAuth

MCMechanisms == {"PLAIN", "SCRAM", "DIGEST", "EXTERNAL"}
MCSupported  == {"PLAIN", "SCRAM", "DIGEST"}
MCOneStep    == {"PLAIN"}
MCInsecure   == {"PLAIN"}
MCDisabled   == {"DIGEST"}
=============================================================================
