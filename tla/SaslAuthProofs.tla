--------------------------- MODULE SaslAuthProofs ---------------------------
(* Proofs about SaslAuth, for every set of mechanisms, users and policies. *)
EXTENDS SaslAuth, TLAPS

(***************************************************************************)
(* The inductive invariant.  Beside the properties themselves it says why  *)
(* they survive a step: a handler without a selected mechanism has issued  *)
(* no challenge; a name, a type and the absence of a handler go together;  *)
(* under SecureAuthOnly a connection that was never secured has selected   *)
(* nothing, which is what makes it safe for the features hook to leave the *)
(* handler of the previous stream in place (lines 245-247); and an open    *)
(* stream of an authenticated session has offered bind and nothing else.   *)
(***************************************************************************)
HandlerShape ==
    /\ handler.selected = None => handler.challenge = 0
    /\ SecureAuthOnly /\ secure = "nil" => handler.selected = None
    /\ stream = "open" => secure # "false"

AuthedShape ==
    /\ username = None <=> type = "c2s_unauthed"
    /\ username # None => handler = NoHandler
    /\ username # None /\ stream = "open" => bindOffer /\ offer = {}

IInv ==
    /\ TypeOK
    /\ HandlerShape
    /\ AuthedShape
    /\ ExchangeAgreed
    /\ OfferIsHonest
    /\ SelectedIsPermitted

(* What handler:process can conclude, and from which texts.                *)
LEMMA OutcomeCases ==
    ASSUME NEW h \in Handlers, NEW t \in Texts
    PROVE  /\ Outcome(h, t) \in {"failure", "success", "challenge"}
           /\ Outcome(h, t) = "challenge" => t.user \in Users
           /\ Outcome(h, t) = "success" => t.user \in Users
<1>1. Outcome(h, t) \in {"failure", "success", "challenge"}
  BY DEF Outcome
<1>2. t.form \in {"first", "plain"} => t.user \in Users
  BY DEF Texts, BadTexts, FirstTexts, ProofTexts
<1>3. t.form = "proof" => t.user \in Users
  BY DEF Texts, BadTexts, FirstTexts, ProofTexts
<1>4. Outcome(h, t) = "challenge" => t.form = "first"
  BY DEF Outcome
<1>5. Outcome(h, t) = "success" => t.form \in {"plain", "proof"}
  BY DEF Outcome
<1> QED BY <1>1, <1>2, <1>3, <1>4, <1>5

(* The handlers the hooks build are handlers.                              *)
LEMMA HandlerValues ==
    /\ NoHandler \in Handlers /\ NoHandler.selected = None /\ NoHandler.challenge = 0
    /\ FreshHandler \in Handlers /\ FreshHandler.selected = None
    /\ FreshHandler.challenge = 0
    /\ \A m \in Mechanisms : /\ Select(m) \in Handlers
                             /\ Select(m).selected = m
                             /\ Select(m).challenge = 0
<1>1. 0 \in 0..MaxChallenges
  BY BoundsAssumption
<1>2. NoHandler \in Handlers /\ NoHandler.selected = None /\ NoHandler.challenge = 0
  BY <1>1 DEF NoHandler, Handlers
<1>3. /\ FreshHandler \in Handlers /\ FreshHandler.selected = None
      /\ FreshHandler.challenge = 0
  BY <1>1 DEF FreshHandler, Handlers
<1>4. ASSUME NEW m \in Mechanisms
      PROVE  Select(m) \in Handlers /\ Select(m).selected = m /\ Select(m).challenge = 0
  BY <1>1 DEF Select, Handlers
<1> QED BY <1>2, <1>3, <1>4

(* A stream begins without a reply.                                        *)
LEMMA NoReplyValue ==
    NoReply \in Replies /\ NoReply.status = "none" /\ NoReply.challenge = 0
<1>1. 0 \in 0..MaxChallenges
  BY BoundsAssumption
<1> QED BY <1>1 DEF NoReply, build_reply, Replies

(* The initial session satisfies the invariant.                            *)
LEMMA InitIInv == Init => IInv
<1> SUFFICES ASSUME Init PROVE IInv
  OBVIOUS
<1>1. TypeOK
  <2>1. bound \in BOOLEAN /\ bindOffer \in BOOLEAN
    BY Zenon DEF Init
  <2>2. served \in 0..MaxChallenges
    BY BoundsAssumption DEF Init
  <2>3. handler \in Handlers /\ heard \in Replies
    BY HandlerValues, NoReplyValue DEF Init
  <2>4. type = "c2s_unauthed" /\ secure \in {"nil", "true"} /\ stream = "reset"
    BY DEF Init
  <2>5. username \in Users \cup {None} /\ offer \in SUBSET Mechanisms
    BY DEF Init
  <2> QED BY <2>1, <2>2, <2>3, <2>4, <2>5 DEF TypeOK
<1>2. HandlerShape /\ AuthedShape
  BY HandlerValues DEF Init, HandlerShape, AuthedShape
<1>3. ExchangeAgreed /\ OfferIsHonest /\ SelectedIsPermitted
  BY DEF Init, ExchangeAgreed, OfferIsHonest, SelectedIsPermitted
<1> QED BY <1>1, <1>2, <1>3 DEF IInv

(* A failure reply that leaves no mechanism selected keeps the invariant.  *)
LEMMA FailKeeps ==
    ASSUME IInv, NEW h \in Handlers, h.selected = None, h.challenge = 0,
           username # None => h = NoHandler, Fail(h)
    PROVE  IInv'
BY BoundsAssumption
   DEF Fail, KeepSession, Reply, build_reply, IInv, TypeOK, HandlerShape,
       AuthedShape, ExchangeAgreed, OfferIsHonest, SelectedIsPermitted,
       Secured, EncryptionRequired, Replies

(* So does a step of an exchange whose mechanism the policy permits.       *)
LEMMA ProcessKeeps ==
    ASSUME IInv, NEW h \in Handlers, NEW t \in Texts, stream = "open",
           type = "c2s_unauthed", h.selected \in Supported \ Disabled,
           ~EncryptionRequired(h.selected), sasl_process_cdata(h, t)
    PROVE  IInv'
<1>1. username = None /\ h.selected # None
  BY MechanismsAssumption DEF IInv, AuthedShape
<1>2. CASE Fail(NoHandler) \/ Fail(FreshHandler)
  BY <1>1, <1>2, FailKeeps, HandlerValues
<1>3. CASE Outcome(h, t) = "success" /\ Accept(t.user)
  <2>1. t.user \in Users /\ t.user # None
    BY <1>3, OutcomeCases, UsersAssumption
  <2> QED
    BY <1>3, <2>1, HandlerValues, BoundsAssumption
       DEF Accept, Reply, build_reply, IInv, TypeOK, HandlerShape, AuthedShape,
           ExchangeAgreed, OfferIsHonest, SelectedIsPermitted, Replies
<1>4. CASE /\ Outcome(h, t) = "challenge"
           /\ served < MaxChallenges
           /\ served' = served + 1
           /\ handler' = [h EXCEPT !.challenge = served + 1, !.user = t.user]
           /\ Reply(build_reply("challenge", served + 1))
           /\ KeepSession
  <2>1. served + 1 \in 0..MaxChallenges
    BY <1>4, BoundsAssumption DEF IInv, TypeOK
  <2>2. /\ handler' \in Handlers
        /\ handler'.selected = h.selected
        /\ handler'.challenge = served + 1
    BY <1>4, <2>1, OutcomeCases DEF Handlers
  <2>3. heard' = build_reply("challenge", served + 1) /\ heard' \in Replies
    BY <1>4, <2>1 DEF Reply, build_reply, Replies
  <2>4. ~(SecureAuthOnly /\ secure = "nil")
    BY DEF EncryptionRequired, Secured
  <2> QED
    BY <1>1, <1>4, <2>1, <2>2, <2>3, <2>4
       DEF KeepSession, build_reply, IInv, TypeOK, HandlerShape, AuthedShape,
           ExchangeAgreed, OfferIsHonest, SelectedIsPermitted, Secured,
           EncryptionRequired
<1> QED
  BY <1>2, <1>3, <1>4 DEF sasl_process_cdata, handle_status

(* Every hook, and every step of the modules around them, keeps it.        *)
LEMMA NextIInv == IInv /\ [Next]_vars => IInv'
<1> SUFFICES ASSUME IInv, [Next]_vars PROVE IInv'
  OBVIOUS
<1>1. CASE stream_features
  <2>1. TypeOK'
    BY <1>1, HandlerValues, NoReplyValue, MechanismsAssumption
       DEF stream_features, OffersNothing, OffersMechanisms, OffersBind,
           OpenStream, IInv, TypeOK, Offered
  <2>2. handler'.selected = None /\ handler'.challenge = 0
    BY <1>1, HandlerValues
       DEF stream_features, OffersNothing, OffersMechanisms, OffersBind,
           OpenStream, IInv, TypeOK, HandlerShape, AuthedShape, Secured
  <2>3. OfferIsHonest'
    BY <1>1, MechanismsAssumption
       DEF stream_features, OffersNothing, OffersMechanisms, OffersBind,
           OpenStream, OfferIsHonest, Offered, EncryptionRequired, Secured
  <2> QED
    BY <1>1, <2>1, <2>2, <2>3
       DEF stream_features, OffersNothing, OffersMechanisms, OffersBind,
           OpenStream, IInv, TypeOK, HandlerShape, AuthedShape,
           ExchangeAgreed, SelectedIsPermitted, NoReply, build_reply
<1>2. ASSUME NEW m \in Mechanisms, NEW t \in Texts, auth(m, t) PROVE IInv'
  <2>1. stream = "open" /\ type = "c2s_unauthed" /\ username = None
    BY <1>2 DEF auth, IInv, AuthedShape
  <2>2. CASE Fail(FreshHandler)
    BY <2>1, <2>2, FailKeeps, HandlerValues
  <2>3. CASE /\ ~EncryptionRequired(m) /\ m \notin Disabled /\ m \in Supported
             /\ sasl_process_cdata(Select(m), t)
    BY <2>1, <2>3, ProcessKeeps, HandlerValues
  <2> QED BY <1>2, <2>2, <2>3 DEF auth
<1>3. ASSUME NEW t \in Texts, response(t) PROVE IInv'
  <2>1. stream = "open"
    BY <1>3 DEF response
  <2>2. CASE handler.selected = None /\ Fail(handler)
    BY <2>2, FailKeeps DEF IInv, TypeOK, HandlerShape, AuthedShape
  <2>3. CASE handler.selected # None /\ sasl_process_cdata(handler, t)
    BY <2>1, <2>3, ProcessKeeps, HandlerValues
       DEF IInv, TypeOK, AuthedShape, SelectedIsPermitted
  <2> QED BY <1>3, <2>2, <2>3 DEF response
<1>4. CASE abort
  BY <1>4, FailKeeps, HandlerValues DEF abort
<1>5. CASE bind
  BY <1>5
     DEF bind, IInv, TypeOK, HandlerShape, AuthedShape, ExchangeAgreed,
         OfferIsHonest, SelectedIsPermitted, EncryptionRequired, Secured
<1>6. CASE security_layer \/ close
  BY <1>6
     DEF security_layer, close, IInv, TypeOK, HandlerShape, AuthedShape,
         ExchangeAgreed, OfferIsHonest, SelectedIsPermitted
<1>7. CASE UNCHANGED vars
  BY <1>7
     DEF vars, IInv, TypeOK, HandlerShape, AuthedShape, ExchangeAgreed,
         OfferIsHonest, SelectedIsPermitted, EncryptionRequired, Secured
<1> QED
  BY <1>1, <1>2, <1>3, <1>4, <1>5, <1>6, <1>7 DEF Next

LEMMA Invariance == Spec => []IInv
BY InitIInv, NextIInv, PTL DEF Spec

-----------------------------------------------------------------------------
(* The session table always has its shape.                                 *)
THEOREM TypeCorrect == Spec => []TypeOK
BY Invariance, PTL DEF IInv

(* Handler and client always agree on the exchange under way: neither a    *)
(* failure, nor an abort, nor a second <auth/>, nor a security layer in    *)
(* the middle of an exchange leaves one half done (lines 46-83, 189-231).  *)
THEOREM ExchangeAgreement == Spec => []ExchangeAgreed
BY Invariance, PTL DEF IInv

(* <features/> and <auth/> apply the same policy, although they state it   *)
(* separately (lines 204-214 and 245-275).                                 *)
THEOREM HonestOffer == Spec => []OfferIsHonest
BY Invariance, PTL DEF IInv

(* No exchange runs with a mechanism the policy bars, in any order of the  *)
(* hooks (lines 197-216).                                                  *)
THEOREM PermittedSelection == Spec => []SelectedIsPermitted
BY Invariance, PTL DEF IInv

(* An authenticated session has no handler (lines 54 and 220).             *)
THEOREM QuietWhenAuthed == Spec => []AuthedIsQuiet
<1>1. IInv => AuthedIsQuiet
  BY DEF IInv, AuthedShape, AuthedIsQuiet
<1> QED BY <1>1, Invariance, PTL

(* Only an exchange that succeeds gives a session a name.                  *)
LEMMA NamedBySuccess ==
    ASSUME IInv, Next, username' # username
    PROVE  \E h \in Handlers, t \in Texts :
             /\ stream = "open" /\ username = None
             /\ Outcome(h, t) = "success" /\ username' = t.user
             /\ h.selected \in Supported /\ ~EncryptionRequired(h.selected)
             /\ \/ h = Select(stanza'.mechanism) /\ stanza' = Auth(stanza'.mechanism, t)
                \/ h = handler /\ stanza' = Response(t)
<1>1. ~(stream_features \/ abort \/ bind \/ security_layer \/ close)
  BY DEF stream_features, OffersNothing, OffersMechanisms, OffersBind, OpenStream,
         abort, Fail, KeepSession, bind, security_layer, close
<1>2. ASSUME NEW h, NEW t, sasl_process_cdata(h, t)
      PROVE  Outcome(h, t) = "success" /\ username' = t.user
  BY <1>2 DEF sasl_process_cdata, handle_status, Accept, Fail, KeepSession
<1>3. CASE \E m \in Mechanisms, t \in Texts : auth(m, t)
  <2>1. PICK m \in Mechanisms, t \in Texts : auth(m, t)
    BY <1>3
  <2>2. /\ ~EncryptionRequired(m) /\ m \in Supported
        /\ sasl_process_cdata(Select(m), t)
    BY <2>1 DEF auth, Fail, KeepSession
  <2>3. stanza' = Auth(m, t) /\ stanza'.mechanism = m
    BY <2>1 DEF auth, Auth
  <2>4. stream = "open" /\ username = None
    BY <2>1 DEF auth, IInv, AuthedShape
  <2>5. Select(m) \in Handlers /\ Select(m).selected = m
    BY HandlerValues
  <2> QED BY <1>2, <2>2, <2>3, <2>4, <2>5
<1>4. CASE \E t \in Texts : response(t)
  <2>1. PICK t \in Texts : response(t)
    BY <1>4
  <2>2. handler.selected # None /\ sasl_process_cdata(handler, t)
    BY <2>1 DEF response, Fail, KeepSession
  <2>3. stream = "open" /\ stanza' = Response(t)
    BY <2>1 DEF response
  <2>4. username = None
    BY <2>2, HandlerValues DEF IInv, AuthedShape
  <2>5. /\ handler \in Handlers
        /\ handler.selected \in Supported
        /\ ~EncryptionRequired(handler.selected)
    BY <2>2, <2>3 DEF IInv, TypeOK, SelectedIsPermitted
  <2> QED BY <1>2, <2>2, <2>3, <2>4, <2>5
<1> QED BY <1>1, <1>3, <1>4 DEF Next

(* Whoever is authenticated has just proved it: by the answer to the       *)
(* challenge the client was sent last, or by a password over a link the    *)
(* policy allows it on (lines 46-83 and 189-225).                          *)
THEOREM ProofOfIdentity == Spec => AuthenticatedByProof
<1>1. IInv /\ [Next]_vars => NamedByProof
  <2> SUFFICES ASSUME IInv, [Next]_vars, username' # username
               PROVE  /\ stream = "open"
                      /\ username' = stanza'.text.user
                      /\ \/ /\ stanza'.text.form = "proof"
                            /\ heard = build_reply("challenge", stanza'.text.challenge)
                         \/ /\ stanza'.text.form = "plain"
                            /\ Secured \/ UsedMechanism(stanza') \notin Insecure
    BY DEF NamedByProof
  <2>1. Next
    BY DEF vars
  <2>2. PICK h \in Handlers, t \in Texts :
             /\ stream = "open" /\ username = None
             /\ Outcome(h, t) = "success" /\ username' = t.user
             /\ h.selected \in Supported /\ ~EncryptionRequired(h.selected)
             /\ \/ h = Select(stanza'.mechanism) /\ stanza' = Auth(stanza'.mechanism, t)
                \/ h = handler /\ stanza' = Response(t)
    BY <2>1, NamedBySuccess
  <2>3. stanza'.text = t
    BY <2>2 DEF Auth, Response
  <2>4. CASE t.form = "plain"
    <3>1. UsedMechanism(stanza') = h.selected
      BY <2>2, HandlerValues, MechanismsAssumption
         DEF UsedMechanism, Auth, Response, Select, FreshHandler, NoHandler
    <3> QED BY <2>2, <2>3, <2>4, <3>1 DEF EncryptionRequired
  <2>5. CASE t.form # "plain"
    <3>1. /\ h.challenge # 0
          /\ t = [form |-> "proof", user |-> h.user, challenge |-> h.challenge]
      BY <2>2, <2>5 DEF Outcome
    <3>2. h = handler
      BY <2>2, <3>1 DEF Select, FreshHandler, NoHandler
    <3>3. heard = [status |-> "challenge", challenge |-> h.challenge]
      BY <2>2, <3>1, <3>2 DEF IInv, TypeOK, ExchangeAgreed, Replies
    <3> QED BY <2>2, <2>3, <3>1, <3>3 DEF build_reply
  <2> QED BY <2>4, <2>5
<1> QED BY <1>1, Invariance, PTL DEF Spec, AuthenticatedByProof

(* No later step changes who an authenticated session is.                  *)
THEOREM FixedIdentity == Spec => IdentityFixed
<1>1. IInv /\ [Next]_vars => KeepsIdentity
  <2> SUFFICES ASSUME IInv, [Next]_vars, username # None
               PROVE  username' = username /\ type' # "c2s_unauthed"
    BY DEF KeepsIdentity
  <2>1. username' = username
    BY NamedBySuccess DEF vars
  <2>2. IInv'
    BY NextIInv
  <2> QED BY <2>1, <2>2 DEF IInv, AuthedShape
<1> QED BY <1>1, Invariance, PTL DEF Spec, IdentityFixed

(* A resource is bound only after the stream was opened again and offered  *)
(* bind (lines 55, 283-285 and 303-315).                                   *)
THEOREM BindAfterRestart == Spec => BoundAfterRestart
<1>1. IInv /\ [Next]_vars => BindsWhenOffered
  <2> SUFFICES ASSUME IInv, [Next]_vars, bound' # bound
               PROVE  bindOffer /\ offer = {} /\ username # None
    BY DEF BindsWhenOffered
  <2>1. bind
    BY DEF Next, vars, stream_features, OffersNothing, OffersMechanisms, OffersBind,
           OpenStream, auth, response, sasl_process_cdata, handle_status, abort,
           Fail, Accept, KeepSession, security_layer, close
  <2> QED BY <2>1 DEF bind, IInv, AuthedShape
<1> QED BY <1>1, Invariance, PTL DEF Spec, BoundAfterRestart
=============================================================================
