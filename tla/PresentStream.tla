--------------------------- MODULE PresentStream ---------------------------
(***************************************************************************)
(* One client session with mod_saslauth and mod_present loaded, as         *)
(* present_integration/readme.txt sets the server up.  <startpresent/>     *)
(* puts a deciphering filter on the bytes that come in, and on those only; *)
(* the stream goes on where it is.                                         *)
(***************************************************************************)
EXTENDS SaslAuth

CONSTANTS
    Methods,    \* what a client may ask for in <method/>
    MaxFilters  \* bound on the filters on one connection

ASSUME FiltersAssumption == MaxFilters \in Nat

VARIABLES
    filters,    \* deciphering filters on "bytes/in"
    encryption  \* session.encryption

presentVars == << filters, encryption >>
streamVars == << vars, presentVars >>

StreamInit ==
    /\ Init
    /\ secure = "nil"       \* no TLS port, and no other module for layers
    /\ filters = 0
    /\ encryption = FALSE

-----------------------------------------------------------------------------
(* Mutants of Encrypt: a filter is taken away, the stream is reset, or any *)
(* session may ask.                                                        *)
EncryptRemoves(method) ==
    /\ stream = "open"
    /\ type = "c2s" /\ method = "present"
    /\ filters' = filters - 1
    /\ encryption' = TRUE
    /\ UNCHANGED vars

EncryptResets(method) ==
    /\ stream = "open"
    /\ type = "c2s" /\ method = "present"
    /\ filters < MaxFilters
    /\ filters' = filters + 1
    /\ encryption' = TRUE
    /\ stream' = "reset"
    /\ UNCHANGED << type, secure, username, bound, handler, served, offer,
                    bindOffer, stanza, heard >>

EncryptsAnyone(method) ==
    /\ stream = "open"
    /\ method = "present"
    /\ filters < MaxFilters
    /\ filters' = filters + 1
    /\ encryption' = TRUE
    /\ UNCHANGED vars

(* <proceed/> is sent and the filter installed; no reset_stream.           *)
Encrypt(method) ==
    /\ stream = "open"
    /\ type = "c2s" /\ method = "present"
    /\ filters < MaxFilters
    /\ filters' = filters + 1
    /\ encryption' = TRUE
    /\ UNCHANGED vars

(* Another method: the hook returns true and nothing is answered.          *)
Ignore(method) ==
    /\ stream = "open"
    /\ type = "c2s" /\ method # "present"
    /\ UNCHANGED streamVars

(* Before a resource is bound the hook returns nothing, and Prosody closes *)
(* a stream on an element nobody handles.                                  *)
Unhandled ==
    /\ stream = "open"
    /\ type # "c2s"
    /\ close
    /\ UNCHANGED presentVars

startpresent(method) == Encrypt(method) \/ Ignore(method) \/ Unhandled

(* The hooks of mod_saslauth.                                              *)
StreamSasl ==
    /\ \/ stream_features
       \/ \E m \in Mechanisms, t \in Texts : auth(m, t)
       \/ \E t \in Texts : response(t)
       \/ abort
       \/ bind
       \/ close
    /\ UNCHANGED presentVars

StreamNext == StreamSasl \/ \E method \in Methods : startpresent(method)

StreamSpec == StreamInit /\ [][StreamNext]_streamVars

-----------------------------------------------------------------------------
(* The shape of what mod_present adds to the session table.                *)
PresentTypeOK == filters \in 0..MaxFilters /\ encryption \in BOOLEAN

(* A filter stands only on a connection that somebody authenticated on and *)
(* bound a resource to, and it stays: no SASL element a bound session can  *)
(* still send, and no restart, takes the session back to where its         *)
(* elements would be read in clear again (lines 103-121).                  *)
FilteredIsBound ==
    filters > 0 => /\ encryption
                   /\ type = "c2s" /\ bound /\ username # None
                   /\ stream # "reset"

(* mod_present's server is still the one SaslAuth describes.               *)
StreamIsSasl == Spec
=============================================================================
