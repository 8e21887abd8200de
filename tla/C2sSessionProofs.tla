-------------------------- MODULE C2sSessionProofs --------------------------
(* Proofs about C2sSession: it implements SaslAuth, and the flag the SASL  *)
(* hooks trust tells the truth about the bytes, for any set of layers and  *)
(* any number of them.                                                     *)
EXTENDS C2sSession, SaslAuthProofs

(* What secure = "nil", "false" and "true" mean for the filters.  Between  *)
(* <proceed/> and the next stream header the flag is "false" while the     *)
(* filters are already there, so the equivalence of SecureMeansEnciphered  *)
(* holds only in an open stream, and this is the form of it that is        *)
(* inductive.                                                              *)
LayerShape ==
    /\ bytesIn \in Nat /\ bytesIn = bytesOut
    /\ starttls  => (secure = "nil" <=> bytesIn = 0)
    /\ ~starttls => secure = "true" /\ bytesIn = 0
    /\ stream = "open" => secure # "false"
    /\ secure \in {"nil", "false", "true"}
    /\ layerOffer # {} /\ stream = "open" => starttls /\ sslCtx

(* A session with layers starts as a session.                              *)
LEMMA SessionInitIsInit == SessionInit => Init
BY DEF SessionInit

(* Every step of it is a step of SaslAuth, or leaves SaslAuth's variables. *)
LEMMA SessionNextIsNext == [SessionNext]_sessionVars => [Next]_vars
<1> SUFFICES ASSUME [SessionNext]_sessionVars PROVE [Next]_vars
  OBVIOUS
<1>1. CASE Features
  BY <1>1 DEF Features, Next
<1>2. CASE \E l \in Layers : start_layer(l)
  BY <1>2 DEF start_layer, Proceed, Refuse, Next
<1>3. CASE config_reloaded
  BY <1>3 DEF config_reloaded
<1>4. CASE SaslHooks
  BY <1>4 DEF SaslHooks, Next
<1>5. CASE UNCHANGED sessionVars
  BY <1>5 DEF sessionVars
<1> QED BY <1>1, <1>2, <1>3, <1>4, <1>5 DEF SessionNext

(* The session with its layers implements the SASL session, so every       *)
(* property proved of SaslAuth is one of the server as deployed.           *)
THEOREM Implementation == SessionSpec => ImplementsSaslAuth
BY SessionInitIsInit, SessionNextIsNext, PTL DEF SessionSpec, Spec, ImplementsSaslAuth

(* A hook of mod_saslauth leaves the flag alone and never opens a stream.  *)
LEMMA HooksKeepSecure ==
    ASSUME SaslHooks
    PROVE  secure' = secure /\ (stream' = "open" => stream = "open")
BY DEF SaslHooks, auth, response, sasl_process_cdata, handle_status, abort, bind,
       close, Accept, Fail, KeepSession

(* The initial session satisfies the invariant of the layers.              *)
LEMMA InitLayerShape == SessionInit => LayerShape
<1> SUFFICES ASSUME SessionInit PROVE LayerShape
  OBVIOUS
<1>1. secure \in {"nil", "true"} /\ stream = "reset"
  BY DEF SessionInit, Init
<1>2. bytesIn = 0 /\ bytesOut = 0 /\ layerOffer = {}
  BY DEF SessionInit, LayerInit
<1>3. starttls <=> secure = "nil"
  BY DEF SessionInit, LayerInit
<1> QED BY <1>1, <1>2, <1>3 DEF LayerShape

(* Every step keeps it.                                                    *)
LEMMA NextLayerShape == LayerShape /\ [SessionNext]_sessionVars => LayerShape'
<1> SUFFICES ASSUME LayerShape, [SessionNext]_sessionVars PROVE LayerShape'
  OBVIOUS
<1>1. CASE Features
  <2>1. PICK first \in Layers : LayerFeatures(first)
    BY <1>1 DEF Features
  <2>2. /\ stream' = "open"
        /\ secure' = IF secure = "false" THEN "true" ELSE secure
    BY <1>1 DEF Features, stream_features, OffersNothing, OffersMechanisms,
                OffersBind, OpenStream
  <2>3. layerOffer' # {} => starttls' /\ sslCtx'
    BY <2>1 DEF LayerFeatures, can_do
  <2>4. UNCHANGED << starttls, bytesIn, bytesOut >>
    BY <2>1 DEF LayerFeatures
  <2> QED BY <2>2, <2>3, <2>4 DEF LayerShape
<1>2. ASSUME NEW l \in Layers, start_layer(l) PROVE LayerShape'
  <2>1. CASE Proceed(l)
    BY <2>1 DEF Proceed, security_layer, can_do, Caches, LayerShape
  <2>2. CASE Refuse(l)
    BY <2>2 DEF Refuse, close, LayerShape
  <2> QED BY <1>2, <2>1, <2>2 DEF start_layer
<1>3. CASE config_reloaded
  BY <1>3 DEF config_reloaded, vars, LayerShape
<1>4. CASE SaslHooks
  BY <1>4, HooksKeepSecure DEF SaslHooks, layerVars, LayerShape
<1>5. CASE UNCHANGED sessionVars
  BY <1>5 DEF sessionVars, vars, layerVars, LayerShape
<1> QED BY <1>1, <1>2, <1>3, <1>4, <1>5 DEF SessionNext

LEMMA LayerInvariance == SessionSpec => []LayerShape
BY InitLayerShape, NextLayerShape, PTL DEF SessionSpec

-----------------------------------------------------------------------------
(* The cached context, the contexts, the filters, the offer and the        *)
(* refusal keep their shape: no order of starts and reloads stacks more    *)
(* filters than were started.                                              *)
THEOREM LayersTyped == SessionSpec => []LayerTypeOK
<1>1. SessionInit => LayerTypeOK
  <2> SUFFICES ASSUME SessionInit PROVE LayerTypeOK
    OBVIOUS
  <2>1. starttls \in BOOLEAN /\ sslCtx \in BOOLEAN
    BY Zenon DEF SessionInit, LayerInit
  <2>2. bytesIn \in 0..MaxLayers /\ bytesOut \in 0..MaxLayers
    BY LayersAssumption DEF SessionInit, LayerInit
  <2>3. contexts \in SUBSET Layers /\ layerOffer \in SUBSET Layers
        /\ refused \in Layers \cup {None}
    BY DEF SessionInit, LayerInit
  <2> QED BY <2>1, <2>2, <2>3 DEF LayerTypeOK
<1>2. LayerTypeOK /\ [SessionNext]_sessionVars => LayerTypeOK'
  <2> SUFFICES ASSUME LayerTypeOK, [SessionNext]_sessionVars PROVE LayerTypeOK'
    OBVIOUS
  <2>1. ASSUME NEW first \in Layers, LayerFeatures(first) PROVE LayerTypeOK'
    <3>1. sslCtx' \in BOOLEAN /\ starttls' \in BOOLEAN
      BY <2>1, Zenon DEF LayerFeatures, LayerTypeOK
    <3>2. layerOffer' \in SUBSET Layers
      BY <2>1 DEF LayerFeatures
    <3> QED BY <2>1, <3>1, <3>2 DEF LayerFeatures, LayerTypeOK
  <2>2. ASSUME NEW l \in Layers, Proceed(l) PROVE LayerTypeOK'
    <3>1. sslCtx' \in BOOLEAN /\ starttls' \in BOOLEAN
      BY <2>2, Zenon DEF Proceed, Caches, LayerTypeOK
    <3>2. bytesIn' \in 0..MaxLayers /\ bytesOut' \in 0..MaxLayers
      BY <2>2, LayersAssumption DEF Proceed, LayerTypeOK
    <3> QED BY <2>2, <3>1, <3>2 DEF Proceed, LayerTypeOK
  <2>3. ASSUME NEW l \in Layers, Refuse(l) PROVE LayerTypeOK'
    BY <2>3, Zenon DEF Refuse, LayerTypeOK
  <2>4. CASE config_reloaded
    BY <2>4, Zenon DEF config_reloaded, LayerTypeOK
  <2>5. CASE UNCHANGED layerVars
    BY <2>5, Zenon DEF layerVars, LayerTypeOK
  <2> QED
    BY <2>1, <2>2, <2>3, <2>4, <2>5
       DEF SessionNext, Features, start_layer, SaslHooks, sessionVars
<1> QED BY <1>1, <1>2, PTL DEF SessionSpec

(* session.secure, in an open stream, is the truth (mod_pls.lua:170-176,   *)
(* the same hook of mod_tls.lua, and mod_saslauth.lua:204 which trusts it).*)
THEOREM SecureIsTrue == SessionSpec => []SecureMeansEnciphered
<1>1. LayerShape => SecureMeansEnciphered
  BY DEF LayerShape, SecureMeansEnciphered, Secured
<1> QED BY <1>1, LayerInvariance, PTL

(* Nobody logs in over clear bytes against the policy, which two hooks of  *)
(* mod_saslauth state and the layer modules carry out.                     *)
THEOREM NoClearLogin == SessionSpec => LoginUnderCipher
<1>1. IInv /\ LayerShape /\ [SessionNext]_sessionVars => LoginNeedsCipher
  <2> SUFFICES ASSUME IInv, LayerShape, [SessionNext]_sessionVars,
                      username' # username,
                      SecureAuthOnly \/ UsedMechanism(stanza') \in Insecure
               PROVE  ~starttls \/ bytesIn > 0
    BY DEF LoginNeedsCipher
  <2>1. Next
    BY SessionNextIsNext DEF vars
  <2>2. PICK h \in Handlers, t \in Texts :
             /\ ~EncryptionRequired(h.selected)
             /\ \/ h = Select(stanza'.mechanism) /\ stanza' = Auth(stanza'.mechanism, t)
                \/ h = handler /\ stanza' = Response(t)
    BY <2>1, NamedBySuccess
  <2>3. UsedMechanism(stanza') = h.selected
    BY <2>2 DEF UsedMechanism, Auth, Response, Select
  <2> QED BY <2>2, <2>3 DEF EncryptionRequired, Secured, LayerShape
<1> QED
  BY <1>1, Implementation, Invariance, LayerInvariance, PTL
     DEF SessionSpec, LoginUnderCipher, ImplementsSaslAuth

(* What <features/> advertise can be started, whatever is reloaded and     *)
(* whoever authenticates in between (mod_pls.lua:140-144 and 205-210).     *)
THEOREM AdvertisedWorks == SessionSpec => AdvertisedIsAvailable
<1>1. LayerShape /\ [SessionNext]_sessionVars => RefusesOnlyUnadvertised
  <2> SUFFICES ASSUME LayerShape, [SessionNext]_sessionVars, refused' # refused
               PROVE  refused' \notin layerOffer
    BY DEF RefusesOnlyUnadvertised
  <2>1. PICK l \in Layers : Refuse(l)
    BY DEF SessionNext, sessionVars, layerVars, Features, LayerFeatures, start_layer,
           Proceed, config_reloaded, SaslHooks
  <2> QED BY <2>1 DEF Refuse, can_do, LayerShape
<1> QED BY <1>1, LayerInvariance, PTL DEF SessionSpec, AdvertisedIsAvailable
=============================================================================
