--------------------------- MODULE MCXmppClient ---------------------------
(* The account and the mechanism of xmppclient.c, under mod_present.       *)
EXTENDS XmppClient

MCMechanisms == {"PLAIN", "SCRAM", "DIGEST"}
MCOneStep    == {"PLAIN"}
MCInsecure   == {"PLAIN"}
MCDisabled   == {"DIGEST"}
=============================================================================
