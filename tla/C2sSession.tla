----------------------------- MODULE C2sSession -----------------------------
(***************************************************************************)
(* One client session of the docker-v2 server with mod_saslauth, mod_pls   *)
(* and mod_tls loaded together, as docker-v2/prosody.cfg.lua loads them.   *)
(* Both mod_pls (<startpls/>) and mod_tls (<starttls/>) answer by putting  *)
(* a pair of PRESENT filters on the session's bytes; they share the cached *)
(* session.ssl_ctx and the flag session.secure, which mod_saslauth reads.  *)
(***************************************************************************)
EXTENDS SaslAuth

CONSTANTS
    Layers,     \* the modules that start a layer: mod_pls and mod_tls
    MaxLayers   \* bound on the layers started on one connection

ASSUME LayersAssumption == MaxLayers \in Nat

VARIABLES
    starttls,   \* session.conn.starttls exists: not already TLS
    contexts,   \* modules whose ssl_ctx_c2s was created by module.load
    sslCtx,     \* session.ssl_ctx is set
    bytesIn,    \* deciphering filters on "bytes/in"
    bytesOut,   \* enciphering filters on "bytes/out"
    layerOffer, \* layers the <features/> of the current stream advertise
    refused     \* the module that answered <failure/> and closed, or None

layerVars == << starttls, contexts, sslCtx, bytesIn, bytesOut, layerOffer, refused >>
sessionVars == << vars, layerVars >>

LayerInit ==
    /\ starttls = (secure = "nil")
    /\ contexts \in SUBSET Layers
    /\ sslCtx = FALSE
    /\ bytesIn = 0
    /\ bytesOut = 0
    /\ layerOffer = {}
    /\ refused = None

SessionInit == Init /\ LayerInit

-----------------------------------------------------------------------------
(* can_do_pls and can_do_tls: the cached context wins, else the type says  *)
(* which context to use; only an unauthenticated session gets a new one.   *)
can_do(l) == starttls /\ (sslCtx \/ (type = "c2s_unauthed" /\ l \in contexts))
Caches(l) == sslCtx' = (can_do(l) \/ sslCtx)

(* Mutant of LayerFeatures: session.ssl_ctx is not cached.                 *)
LayerFeaturesUncached(first) ==
    /\ layerOffer' = IF can_do(first) THEN Layers ELSE {l \in Layers : can_do(l)}
    /\ UNCHANGED << sslCtx, starttls, contexts, bytesIn, bytesOut, refused >>

(* The stream-features hooks of both modules, the one named first running  *)
(* first: a context it caches is the second one's too.                     *)
LayerFeatures(first) ==
    /\ layerOffer' = IF can_do(first) THEN Layers ELSE {l \in Layers : can_do(l)}
    /\ sslCtx' = (sslCtx \/ \E l \in Layers : can_do(l))
    /\ UNCHANGED << starttls, contexts, bytesIn, bytesOut, refused >>

Features ==
    /\ stream_features
    /\ \E first \in Layers : LayerFeatures(first)

(* Mutants of Proceed: the filters are removed instead of added, are not   *)
(* added, or the stream is not reset.                                      *)
ProceedRemovesFilters(l) ==
    /\ can_do(l)
    /\ bytesIn < MaxLayers /\ bytesOut < MaxLayers
    /\ security_layer
    /\ bytesIn' = bytesIn - 1
    /\ bytesOut' = bytesOut - 1
    /\ Caches(l)
    /\ UNCHANGED << starttls, contexts, layerOffer, refused >>

ProceedWithoutFilters(l) ==
    /\ can_do(l)
    /\ security_layer
    /\ Caches(l)
    /\ UNCHANGED << starttls, contexts, layerOffer, refused, bytesIn, bytesOut >>

ProceedWithoutReset(l) ==
    /\ can_do(l)
    /\ bytesIn < MaxLayers /\ bytesOut < MaxLayers
    /\ stream = "open"
    /\ secure' = "false"
    /\ stanza' = Plain("layer")
    /\ UNCHANGED << type, stream, username, bound, handler, served, offer, bindOffer, heard >>
    /\ bytesIn' = bytesIn + 1
    /\ bytesOut' = bytesOut + 1
    /\ Caches(l)
    /\ UNCHANGED << starttls, contexts, layerOffer, refused >>

(* <startpls/> and <starttls/>: proceed is sent before the filters exist.  *)
Proceed(l) ==
    /\ can_do(l)
    /\ bytesIn < MaxLayers /\ bytesOut < MaxLayers
    /\ security_layer
    /\ bytesIn' = bytesIn + 1
    /\ bytesOut' = bytesOut + 1
    /\ Caches(l)
    /\ UNCHANGED << starttls, contexts, layerOffer, refused >>

Refuse(l) ==
    /\ ~can_do(l)
    /\ stream = "open"
    /\ close
    /\ refused' = l
    /\ UNCHANGED << starttls, contexts, sslCtx, bytesIn, bytesOut, layerOffer >>

start_layer(l) == Proceed(l) \/ Refuse(l)

(* config-reloaded runs module.load again.                                 *)
config_reloaded ==
    /\ contexts' \in SUBSET Layers
    /\ UNCHANGED << vars, starttls, sslCtx, bytesIn, bytesOut, layerOffer, refused >>

(* The hooks of mod_saslauth that leave the layers alone.                  *)
SaslHooks ==
    /\ \/ \E m \in Mechanisms, t \in Texts : auth(m, t)
       \/ \E t \in Texts : response(t)
       \/ abort
       \/ bind
       \/ close
    /\ UNCHANGED layerVars

SessionNext ==
    \/ Features
    \/ \E l \in Layers : start_layer(l)
    \/ config_reloaded
    \/ SaslHooks

SessionSpec == SessionInit /\ [][SessionNext]_sessionVars

-----------------------------------------------------------------------------
(* The shape of what the layer modules add to the session table.           *)
LayerTypeOK ==
    /\ starttls \in BOOLEAN
    /\ contexts \in SUBSET Layers
    /\ sslCtx \in BOOLEAN
    /\ bytesIn \in 0..MaxLayers
    /\ bytesOut \in 0..MaxLayers
    /\ layerOffer \in SUBSET Layers
    /\ refused \in Layers \cup {None}

(* While the stream is open, the flag mod_saslauth trusts says the truth   *)
(* about the bytes: the session counts as secure exactly when it came in   *)
(* over TLS or both directions of its bytes pass a PRESENT filter.  Three  *)
(* modules write the flag or the filters (mod_pls.lua:170-176 and the same *)
(* hook of mod_tls) and a fourth reads it.                                 *)
SecureMeansEnciphered ==
    stream = "open" =>
        /\ bytesIn = bytesOut
        /\ Secured <=> ~starttls \/ bytesIn > 0

LoginNeedsCipher ==
    /\ username' # username
    /\ SecureAuthOnly \/ UsedMechanism(stanza') \in Insecure
    => ~starttls \/ bytesIn > 0

(* Nobody logs in over bytes that are not enciphered where the policy asks *)
(* for encryption: for any mechanism under secure_auth_only, else for one  *)
(* of insecure_mechanisms.  Layers begun, exchanges aborted and streams    *)
(* restarted in any order make no difference.                              *)
LoginUnderCipher == [][LoginNeedsCipher]_sessionVars

RefusesOnlyUnadvertised == refused' # refused => refused' \notin layerOffer

(* A layer that the current <features/> advertise can be started: a        *)
(* reload that takes the context away, or authentication, which changes    *)
(* the type can_do_pls looks at, does not turn the offer into a <failure/> *)
(* and a closed session; the cached session.ssl_ctx sees to it.            *)
AdvertisedIsAvailable == [][RefusesOnlyUnadvertised]_sessionVars

(* With the layers in the picture the session is still the one SaslAuth    *)
(* describes.                                                              *)
ImplementsSaslAuth == Spec
=============================================================================
