------------------------------ MODULE SaslAuth ------------------------------
(***************************************************************************)
(* The client-to-server half of docker-v2/mod_saslauth.lua: the hooks that *)
(* offer SASL mechanisms, run an exchange and bind a resource, for one     *)
(* session of the server.  The session table of the program                *)
(* (session.type, .secure, .username, .sasl_handler) is kept in variables  *)
(* of the same names.  What Prosody itself does around the hooks (opening  *)
(* a stream, the SASL profiles behind handler:process, the session         *)
(* manager) is external and modelled from how the hooks use it.            *)
(***************************************************************************)
EXTENDS Naturals

CONSTANTS
    Mechanisms,      \* SASL mechanism names a client may ask for
    Supported,       \* those the authentication backend implements
    OneStep,         \* those decided by the first message (PLAIN, LOGIN)
    Insecure,        \* insecure_mechanisms
    Disabled,        \* disabled_mechanisms
    SecureAuthOnly,  \* secure_auth_only
    Users,           \* account names that have a password
    BadNames,        \* accounts whose name sm_make_authenticated refuses
    None,            \* Lua's nil where a name is expected
    MaxChallenges    \* bound on the challenges issued to the session

ASSUME MechanismsAssumption ==
    /\ Supported \subseteq Mechanisms
    /\ OneStep \subseteq Mechanisms
    /\ None \notin Mechanisms
ASSUME UsersAssumption == None \notin Users
ASSUME BoundsAssumption == /\ SecureAuthOnly \in BOOLEAN
                           /\ MaxChallenges \in Nat

VARIABLES
    type,      \* session.type
    secure,    \* session.secure: "nil", "false" or "true"
    stream,    \* "reset": a stream header is awaited, "open", or "closed"
    username,  \* session.username
    bound,     \* session.full_jid is set
    handler,   \* session.sasl_handler
    served,    \* challenges issued so far: each carries a nonce of its own
    offer,     \* mechanisms of the <features/> of the current stream
    bindOffer, \* those <features/> held <bind/>
    stanza,    \* the last stanza a hook handled
    heard      \* the last SASL reply of the current stream

vars == << type, secure, stream, username, bound, handler, served, offer,
           bindOffer, stanza, heard >>

-----------------------------------------------------------------------------
(* What travels in the text of <auth/> and <response/>: nothing, text that *)
(* is not base64, a message the mechanism rejects (bad syntax or a wrong   *)
(* password), or a good message.  A proof is good for one user and one     *)
(* challenge only.                                                         *)

BadTexts == [form : {"none", "undecodable", "rejected"}]
FirstTexts == [form : {"first", "plain"}, user : Users]
ProofTexts == [form : {"proof"}, user : Users, challenge : 1..MaxChallenges]
Texts == BadTexts \cup FirstTexts \cup ProofTexts

Auth(m, t)   == [name |-> "auth", mechanism |-> m, text |-> t]
Response(t)  == [name |-> "response", text |-> t]
Plain(n)     == [name |-> n]

(* <failure/>, <success/> and <challenge/>; a challenge carries its number. *)
build_reply(status, c) == [status |-> status, challenge |-> c]
NoReply == build_reply("none", 0)

(* A handler that usermanager_get_sasl_handler or clean_clone returns has  *)
(* no mechanism selected; nil is NoHandler.                                *)
NoHandler    == [live |-> FALSE, selected |-> None, challenge |-> 0, user |-> None]
FreshHandler == [live |-> TRUE, selected |-> None, challenge |-> 0, user |-> None]
Select(m)    == [live |-> TRUE, selected |-> m, challenge |-> 0, user |-> None]
Handlers     == [live : BOOLEAN, selected : Mechanisms \cup {None},
                 challenge : 0..MaxChallenges, user : Users \cup {None}]

Secured == secure = "true"

(* The two policies of the hooks: what is put in <features/> and what      *)
(* <auth/> lets through.  The code states them separately.                 *)
Offered == {m \in Supported : m \notin Disabled /\ (Secured \/ m \notin Insecure)}
EncryptionRequired(m) == ~Secured /\ (SecureAuthOnly \/ m \in Insecure)

(* handler:process(text) *)
Outcome(h, t) ==
    CASE h.selected \in OneStep /\ t.form = "plain"           -> "success"
      [] h.selected \notin OneStep /\ h.challenge = 0
                                   /\ t.form = "first"        -> "challenge"
      [] h.selected \notin OneStep /\ h.challenge # 0
         /\ t.form = "proof"
         /\ t = [form |-> "proof", user |-> h.user,
                 challenge |-> h.challenge]                   -> "success"
      [] OTHER                                                -> "failure"

-----------------------------------------------------------------------------
Init ==
    /\ type = "c2s_unauthed"
    /\ secure \in {"nil", "true"}   \* "true": a port that speaks TLS at once
    /\ stream = "reset"
    /\ username = None
    /\ bound = FALSE
    /\ handler = NoHandler
    /\ served = 0
    /\ offer = {}
    /\ bindOffer = FALSE
    /\ stanza = Plain("none")
    /\ heard = NoReply

Reply(r) == heard' = r
KeepSession == UNCHANGED << type, secure, stream, username, bound, offer, bindOffer >>

(* Mutants of Accept: the stream is not reset, or make_authenticated is    *)
(* given another field of the handler.                                     *)
AcceptWithoutReset(user) ==
    /\ username' = user
    /\ type' = "c2s_unbound"
    /\ handler' = NoHandler
    /\ Reply(build_reply("success", 0))
    /\ UNCHANGED << stream, secure, bound, offer, bindOffer, served >>

AcceptNamesMechanism(user) ==
    /\ username' = handler.selected
    /\ type' = "c2s_unbound"
    /\ handler' = NoHandler
    /\ stream' = "reset"
    /\ Reply(build_reply("success", 0))
    /\ UNCHANGED << secure, bound, offer, bindOffer, served >>

(* make_authenticated, clearing the handler and reset_stream               *)
Accept(user) ==
    /\ username' = user
    /\ type' = "c2s_unbound"
    /\ handler' = NoHandler
    /\ stream' = "reset"
    /\ Reply(build_reply("success", 0))
    /\ UNCHANGED << secure, bound, offer, bindOffer, served >>

(* Mutant of Fail: the handler is not replaced.                            *)
FailKeepsHandler(h) ==
    /\ Reply(build_reply("failure", 0))
    /\ KeepSession
    /\ UNCHANGED << handler, served >>

Fail(h) ==
    /\ handler' = h
    /\ Reply(build_reply("failure", 0))
    /\ KeepSession
    /\ UNCHANGED served

handle_status(h, t) ==
    \/ /\ Outcome(h, t) = "failure"
       /\ Fail(FreshHandler)
    \/ /\ Outcome(h, t) = "success"
       /\ t.user \notin BadNames
       /\ Accept(t.user)
    \/ /\ Outcome(h, t) = "success"
       /\ t.user \in BadNames
       /\ Fail(FreshHandler)
    \/ /\ Outcome(h, t) = "challenge"
       /\ served < MaxChallenges
       /\ served' = served + 1
       /\ handler' = [h EXCEPT !.challenge = served + 1, !.user = t.user]
       /\ Reply(build_reply("challenge", served + 1))
       /\ KeepSession

sasl_process_cdata(h, t) ==
    \/ /\ t.form = "undecodable"
       /\ Fail(NoHandler)
    \/ /\ t.form # "undecodable"
       /\ handle_status(h, t)

-----------------------------------------------------------------------------
(* mod_c2s: a stream header arrives, and the stream-features hook answers. *)
(* A session whose secure flag is false (not nil) was told to start a      *)
(* security layer, and the header is the first thing under it.             *)
OpenStream ==
    /\ stream = "reset"
    /\ stream' = "open"
    /\ secure' = IF secure = "false" THEN "true" ELSE secure
    /\ stanza' = Plain("header")
    /\ heard' = NoReply
    /\ UNCHANGED << type, username, bound, served >>

(* Mutant of OffersNothing: secure_auth_only is not looked at.             *)
OffersAnyway ==
    /\ OpenStream
    /\ username = None
    /\ SecureAuthOnly /\ ~Secured'
    /\ handler' = FreshHandler
    /\ offer' = Offered'
    /\ bindOffer' = FALSE

OffersNothing ==
    /\ OpenStream
    /\ username = None
    /\ SecureAuthOnly /\ ~Secured'
    /\ offer' = {}
    /\ bindOffer' = FALSE
    /\ UNCHANGED handler

OffersMechanisms ==
    /\ OpenStream
    /\ username = None
    /\ ~(SecureAuthOnly /\ ~Secured')
    /\ handler' = FreshHandler
    /\ offer' = Offered'
    /\ bindOffer' = FALSE

OffersBind ==
    /\ OpenStream
    /\ username # None
    /\ offer' = {}
    /\ bindOffer' = TRUE
    /\ UNCHANGED handler

stream_features == OffersNothing \/ OffersMechanisms \/ OffersBind

(* Mutants of auth: the type of the session, or disabled_mechanisms, is    *)
(* not looked at.                                                          *)
AuthOfAnyType(m, t) ==
    /\ stream = "open"
    /\ stanza' = Auth(m, t)
    /\ \/ /\ EncryptionRequired(m) \/ m \in Disabled \/ m \notin Supported
          /\ Fail(FreshHandler)
       \/ /\ ~EncryptionRequired(m) /\ m \notin Disabled /\ m \in Supported
          /\ sasl_process_cdata(Select(m), t)

AuthIgnoresDisabled(m, t) ==
    /\ stream = "open"
    /\ type = "c2s_unauthed"
    /\ stanza' = Auth(m, t)
    /\ \/ /\ EncryptionRequired(m) \/ m \notin Supported
          /\ Fail(FreshHandler)
       \/ /\ ~EncryptionRequired(m) /\ m \in Supported
          /\ sasl_process_cdata(Select(m), t)

(* <auth/>: a selected handler is dropped before anything is checked.      *)
auth(m, t) ==
    /\ stream = "open"
    /\ type = "c2s_unauthed"
    /\ stanza' = Auth(m, t)
    /\ \/ /\ EncryptionRequired(m) \/ m \in Disabled \/ m \notin Supported
          /\ Fail(FreshHandler)
       \/ /\ ~EncryptionRequired(m) /\ m \notin Disabled /\ m \in Supported
          /\ sasl_process_cdata(Select(m), t)

(* <response/>: the hook looks at the handler only, never at the type.     *)
response(t) ==
    /\ stream = "open"
    /\ stanza' = Response(t)
    /\ \/ /\ handler.selected = None
          /\ Fail(handler)
       \/ /\ handler.selected # None
          /\ sasl_process_cdata(handler, t)

abort ==
    /\ stream = "open"
    /\ stanza' = Plain("abort")
    /\ Fail(NoHandler)

(* The bind hook; sm_bind_resource wants a username, binds once, and may   *)
(* refuse for reasons of its own (a resource another session holds).       *)
bind ==
    /\ stream = "open"
    /\ stanza' = Plain("bind")
    /\ \/ /\ username # None /\ ~bound
          /\ bound' = TRUE
          /\ type' = "c2s"
       \/ UNCHANGED << bound, type >>
    /\ UNCHANGED << secure, stream, username, handler, served, offer, bindOffer, heard >>

(* Another module starts a security layer: it resets the stream and sets   *)
(* secure to false until the client opens the stream again under the layer.*)
security_layer ==
    /\ stream = "open"
    /\ stream' = "reset"
    /\ secure' = "false"
    /\ stanza' = Plain("layer")
    /\ UNCHANGED << type, username, bound, handler, served, offer, bindOffer, heard >>

(* Another module, or the client, closes the session.                      *)
close ==
    /\ stream # "closed"
    /\ stream' = "closed"
    /\ stanza' = Plain("close")
    /\ UNCHANGED << type, secure, username, bound, handler, served, offer,
                    bindOffer, heard >>

Next ==
    \/ stream_features
    \/ \E m \in Mechanisms, t \in Texts : auth(m, t)
    \/ \E t \in Texts : response(t)
    \/ abort
    \/ bind
    \/ security_layer
    \/ close

Spec == Init /\ [][Next]_vars

-----------------------------------------------------------------------------
Replies == [status : {"none", "failure", "success", "challenge"},
            challenge : 0..MaxChallenges]

(* The shape of the session table.                                         *)
TypeOK ==
    /\ type \in {"c2s_unauthed", "c2s_unbound", "c2s"}
    /\ secure \in {"nil", "false", "true"}
    /\ stream \in {"reset", "open", "closed"}
    /\ username \in Users \cup {None}
    /\ bound \in BOOLEAN
    /\ handler \in Handlers
    /\ served \in 0..MaxChallenges
    /\ offer \in SUBSET Mechanisms
    /\ bindOffer \in BOOLEAN
    /\ heard \in Replies

(* Server and client agree on the exchange under way.  In an open stream   *)
(* the handler waits for the answer to a challenge exactly when the last   *)
(* reply the client was sent is that challenge: after a failure, an abort, *)
(* a refused <auth/> or a new stream no exchange is left half done in the  *)
(* handler (lines 49, 59, 72, 197-199, 228 and 250 all have a part in it). *)
ExchangeAgreed ==
    stream = "open" =>
        handler.challenge = (IF heard.status = "challenge" THEN heard.challenge ELSE 0)

(* What <features/> offered is what <auth/> lets through, no more and no   *)
(* less, as long as the stream they were sent in is open: the two tests    *)
(* are written in two hooks and read session.secure at two moments.        *)
OfferIsHonest ==
    stream = "open" /\ username = None =>
        offer = {m \in Supported : ~EncryptionRequired(m) /\ m \notin Disabled}

(* An exchange that is under way keeps to the policy: a mechanism the      *)
(* configuration disables, or bars from a connection that is not secure,   *)
(* is never selected, whatever happened to the connection since.           *)
SelectedIsPermitted ==
    stream = "open" /\ handler.selected # None =>
        /\ handler.selected \in Supported \ Disabled
        /\ ~EncryptionRequired(handler.selected)

(* An authenticated session has no handler left, so that <response/>,      *)
(* which does not look at session.type, cannot run SASL a second time.     *)
AuthedIsQuiet ==
    username # None => handler = NoHandler /\ type # "c2s_unauthed"

UsedMechanism(s) ==
    IF s.name = "auth" THEN s.mechanism ELSE handler.selected

NamedByProof ==
    username' # username =>
        /\ stream = "open"
        /\ username' = stanza'.text.user
        /\ \/ /\ stanza'.text.form = "proof"
              /\ heard = build_reply("challenge", stanza'.text.challenge)
           \/ /\ stanza'.text.form = "plain"
              /\ Secured \/ UsedMechanism(stanza') \notin Insecure

(* A session takes a name only from the stanza just handled, which either  *)
(* proves the password of that name against the challenge the client was   *)
(* sent last, or carries it over a link the configuration allows it on.    *)
(* An answer to an earlier, aborted or failed exchange never works.        *)
AuthenticatedByProof == [][NamedByProof]_vars

KeepsIdentity ==
    username # None => username' = username /\ type' # "c2s_unauthed"

(* Once authenticated, a session keeps its name and its type never goes    *)
(* back: no sequence of SASL elements changes who the session is.          *)
IdentityFixed == [][KeepsIdentity]_vars

BindsWhenOffered == bound' # bound => bindOffer /\ offer = {} /\ username # None

(* A resource is bound only in a stream the client opened after it was     *)
(* authenticated, whose features offered bind.                             *)
BoundAfterRestart == [][BindsWhenOffered]_vars
=============================================================================
