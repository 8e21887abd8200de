---------------------------- MODULE ClientV2Proofs ----------------------------
(* Proofs about ClientV2: its server is the one C2sSession describes, what *)
(* the script prints is true on every network, and where a recv returns    *)
(* whole answers both ends count the same layers; for any accounts,        *)
(* mechanisms, layers and policy.                                          *)
EXTENDS ClientV2, C2sSessionProofs, SequenceTheorems

(* The texts of the script are texts a session may be sent.                *)
LEMMA ScriptTexts ==
    /\ [form |-> "first", user |-> user] \in Texts
    /\ [form |-> "proof", user |-> user, challenge |-> 1] \in Texts
<1>1. user \in Users /\ 1 \in 1..MaxChallenges
  BY ClientAssumption, BoundsAssumption
<1> QED BY <1>1 DEF Texts, FirstTexts, ProofTexts

(* What a handler of the server does to the session is a step of it.       *)
LEMMA HandlesStep ==
    ASSUME ServerHandles
    PROVE  [SessionNext]_sessionVars
<1>1. ASSUME NEW e, Answer(e) PROVE SessionNext
  <2>1. CASE Features
    BY <2>1 DEF SessionNext
  <2>2. CASE start_layer(pls)
    BY <2>2, ClientAssumption DEF SessionNext
  <2>3. CASE auth(scram, [form |-> "first", user |-> user]) /\ UNCHANGED layerVars
    BY <2>3, ScriptTexts, ClientAssumption DEF SessionNext, SaslHooks
  <2>4. CASE /\ response([form |-> "proof", user |-> user, challenge |-> 1])
             /\ UNCHANGED layerVars
    BY <2>4, ScriptTexts DEF SessionNext, SaslHooks
  <2> QED BY <1>1, <2>1, <2>2, <2>3, <2>4 DEF Answer
<1>2. CASE close /\ UNCHANGED layerVars
  BY <1>2 DEF SessionNext, SaslHooks
<1> QED BY <1>1, <1>2 DEF ServerHandles

(* So is whatever moves.                                                   *)
LEMMA SessionStep == [ClientNext]_allVars => [SessionNext]_sessionVars
BY HandlesStep DEF ClientNext, Client, Server, ServerReads, Finished, allVars

(* The server of the script is the one C2sSession describes: what is       *)
(* proved of it and, through Implementation, of SaslAuth holds here.       *)
THEOREM ServerIsSession == ClientSpec => SessionSpec
<1>1. ClientInit => SessionInit
  BY DEF ClientInit
<1> QED BY <1>1, SessionStep, PTL DEF ClientSpec, SessionSpec

-----------------------------------------------------------------------------
(* What is printed                                                         *)

Said == {"stream", "features", "proceed", "failure", "challenge", "success"}
Sends == [elem : Said \cup {"garbage"}, layers : Nat]

(* The sends s are under no more layers than there are filters, and every  *)
(* <success/> among them names the user.                                   *)
TrulyTold(s, name, filters) ==
    \A i \in 1..Len(s) :
        /\ s[i].layers <= filters
        /\ s[i].elem = "success" => name = user

(* What the server has said stays true: the name of a session changes only *)
(* to the user's, and filters are never taken out.                         *)
SharedInv ==
    /\ toClient \in Seq(Sends)
    /\ TrulyTold(toClient, username, bytesIn)
    /\ SuccessIsShared

(* What is left of a sequence behind its first n elements.                 *)
LEMMA RestOfSeq ==
    ASSUME NEW S, NEW s \in Seq(S), NEW n \in 0..Len(s)
    PROVE  /\ SubSeq(s, n + 1, Len(s)) \in Seq(S)
           /\ Len(SubSeq(s, n + 1, Len(s))) = Len(s) - n
           /\ \A i \in 1..(Len(s) - n) : SubSeq(s, n + 1, Len(s))[i] = s[i + n]
<1>1. Len(s) \in Nat /\ n \in Nat /\ n <= Len(s)
  OBVIOUS
<1>2. \A i \in (n + 1)..Len(s) : s[i] \in S
  BY <1>1
<1> DEFINE rest == SubSeq(s, n + 1, Len(s))
<1>3. /\ rest \in Seq(S)
      /\ Len(rest) = IF n + 1 <= Len(s) THEN Len(s) - (n + 1) + 1 ELSE 0
      /\ \A i \in 1..(Len(s) - (n + 1) + 1) : rest[i] = s[n + 1 + i - 1]
  BY <1>1, <1>2, SubSeqProperties
<1> HIDE DEF rest
<1>4. Len(rest) = Len(s) - n
  BY <1>1, <1>3
<1>5. ASSUME NEW i \in 1..(Len(s) - n) PROVE rest[i] = s[i + n]
  <2>1. n + 1 + i - 1 = i + n /\ i \in 1..(Len(s) - (n + 1) + 1)
    BY <1>1
  <2> QED BY <1>3, <2>1
<1> QED BY <1>3, <1>4, <1>5 DEF rest

(* The hooks take filters away from nobody, and names from nobody but to   *)
(* give the user's.                                                        *)
LEMMA ExchangeOutcome ==
    ASSUME NEW t, t.user = user,
           response(t) \/ (t.form = "first" /\ auth(scram, t))
    PROVE  /\ username' \in {username, user}
           /\ heard'.status \in Said
           /\ heard'.status = "success" => username' = user
<1>1. ASSUME NEW h, Fail(h)
      PROVE  username' = username /\ heard'.status = "failure"
  BY <1>1 DEF Fail, KeepSession, Reply, build_reply
<1>2. ASSUME NEW h, sasl_process_cdata(h, t)
      PROVE  /\ username' \in {username, user}
             /\ heard'.status \in {"failure", "challenge", "success"}
             /\ heard'.status = "success" => username' = user
  <2>1. CASE Accept(t.user)
    BY <2>1 DEF Accept, Reply, build_reply
  <2>2. CASE KeepSession /\ Reply(build_reply("challenge", served + 1))
    BY <2>2 DEF KeepSession, Reply, build_reply
  <2> QED BY <1>1, <1>2, <2>1, <2>2 DEF sasl_process_cdata, handle_status
<1>3. (\E h : Fail(h)) \/ (\E h : sasl_process_cdata(h, t))
  BY DEF response, auth
<1> QED BY <1>1, <1>2, <1>3 DEF Said

(* An answer: something, unless an array is lost, and nothing untrue.      *)
Tells ==
    \E sends \in Seq(Sends) :
        /\ toClient' = toClient \o sends
        /\ arrays = "kept" => sends # << >>
        /\ TrulyTold(sends, username', bytesIn')

(* The sends of one answer.                                                *)
LEMMA SendsTold ==
    ASSUME NEW elems \in Seq(Said), elems # << >>, ServerSends(elems),
           bytesOut \in Nat, bytesIn' \in Nat, bytesIn' >= bytesOut,
           \A i \in 1..Len(elems) : elems[i] = "success" => username' = user
    PROVE  Tells
<1>1. PICK k \in 0..Len(elems), lost \in SUBSET (1..Len(elems)), l \in 0..1 :
        /\ k < Len(elems) \/ lost # {} => arrays = "reused" /\ bytesOut > 0
        /\ toClient' = toClient \o [i \in 1..k |->
               IF i \in lost THEN Sent("garbage", l) ELSE Sent(elems[i], bytesOut)]
  BY DEF ServerSends
<1> DEFINE Piece(i) == IF i \in lost THEN Sent("garbage", l) ELSE Sent(elems[i], bytesOut)
           sends == [i \in 1..k |-> Piece(i)]
<1>2. Len(elems) \in Nat /\ k \in Nat /\ k <= Len(elems) /\ l \in Nat
  BY <1>1
<1>3. ASSUME NEW i \in 1..k
      PROVE  /\ Piece(i) \in Sends
             /\ Piece(i).layers <= bytesIn'
             /\ Piece(i).elem = "success" => username' = user
  <2>1. elems[i] \in Said /\ i \in 1..Len(elems)
    BY <1>2, <1>3, ElementOfSeq
  <2>2. CASE i \in lost
    <3>1. Piece(i) = Sent("garbage", l) /\ bytesOut > 0
      BY <1>1, <2>2
    <3> QED BY <1>1, <1>2, <3>1 DEF Sent, Sends
  <2>3. CASE i \notin lost
    <3>1. Piece(i) = Sent(elems[i], bytesOut)
      BY <2>3
    <3> QED BY <2>1, <3>1 DEF Sent, Sends
  <2> QED BY <2>2, <2>3
<1>4. toClient' = toClient \o sends
  BY <1>1
<1> HIDE DEF Piece
<1>5. sends \in Seq(Sends) /\ Len(sends) = k /\ \A i \in 1..k : sends[i] = Piece(i)
  BY <1>2, <1>3
<1> HIDE DEF sends
<1>6. ASSUME arrays = "kept" PROVE sends # << >>
  <2>1. k = Len(elems)
    BY <1>1, <1>2, <1>6
  <2>2. k # 0
    BY <2>1
  <2> QED BY <1>5, <2>2
<1>7. TrulyTold(sends, username', bytesIn')
  BY <1>3, <1>5 DEF TrulyTold
<1> QED BY <1>4, <1>5, <1>6, <1>7 DEF Tells

(* What a handler sends: each element under the layers there are, and      *)
(* nothing only when the session is closed or what it got is unreadable.   *)
LEMMA HandlesTell ==
    ASSUME LayerShape, SharedInv, ServerHandles
    PROVE  /\ username' \in {username, user}
           /\ bytesIn' \in Nat /\ bytesIn' >= bytesIn
           /\ printed' = printed
           /\ \/ Tells
              \/ toClient' = toClient /\ (stream' = "closed" \/ ~Head(inbox).clear)
<1>1. printed' = printed
  BY DEF ServerHandles
<1>2. ASSUME NEW e \in Said, ServerSends(<< e >>), e = "success" => username' = user,
             bytesIn' \in Nat, bytesIn' >= bytesIn
      PROVE  Tells
  <2>1. << e >> \in Seq(Said) /\ << e >> # << >>
        /\ Len(<< e >>) = 1 /\ << e >>[1] = e
    OBVIOUS
  <2>2. \A i \in 1..Len(<< e >>) : << e >>[i] = "success" => username' = user
    BY <1>2, <2>1
  <2>3. bytesOut \in Nat /\ bytesIn' >= bytesOut
    BY <1>2 DEF LayerShape
  <2> QED BY <1>2, <2>1, <2>2, <2>3, SendsTold
<1>3. CASE Features /\ ServerSends(<< "stream", "features" >>)
  <2>1. username' = username /\ bytesIn' = bytesIn
    BY <1>3 DEF Features, stream_features, OffersNothing, OffersMechanisms,
                OffersBind, OpenStream, LayerFeatures
  <2> DEFINE elems == << "stream", "features" >>
  <2>2. elems \in Seq(Said) /\ elems # << >>
        /\ \A i \in 1..Len(elems) : elems[i] # "success"
    BY DEF Said
  <2>3. ServerSends(elems)
    BY <1>3
  <2>4. bytesOut \in Nat /\ bytesIn' \in Nat /\ bytesIn' >= bytesOut
    BY <2>1 DEF LayerShape
  <2> HIDE DEF elems
  <2>5. Tells
    BY <2>2, <2>3, <2>4, SendsTold
  <2> QED BY <1>1, <2>1, <2>5 DEF LayerShape
<1>4. CASE /\ start_layer(pls)
           /\ ServerSends(<< IF refused' = None THEN "proceed" ELSE "failure" >>)
  <2>1. username' = username
    BY <1>4 DEF start_layer, Proceed, Refuse, security_layer, close
  <2>2. bytesIn' = bytesIn \/ bytesIn' = bytesIn + 1
    BY <1>4 DEF start_layer, Proceed, Refuse
  <2>3. PICK e \in {"proceed", "failure"} :
             e = IF refused' = None THEN "proceed" ELSE "failure"
    OBVIOUS
  <2>4. ServerSends(<< e >>)
    BY <1>4, <2>3
  <2>5. e \in Said /\ e # "success"
    BY DEF Said
  <2>6. bytesIn' \in Nat /\ bytesIn' >= bytesIn
    BY <2>2 DEF LayerShape
  <2>7. Tells
    BY <1>2, <2>4, <2>5, <2>6
  <2> QED BY <1>1, <2>1, <2>6, <2>7
<1>5. ASSUME NEW t, t.user = user,
             response(t) \/ (t.form = "first" /\ auth(scram, t)),
             UNCHANGED layerVars, ServerSends(<< heard'.status >>)
      PROVE  /\ username' \in {username, user}
             /\ bytesIn' = bytesIn
             /\ Tells
  <2>1. /\ username' \in {username, user}
        /\ heard'.status \in Said
        /\ heard'.status = "success" => username' = user
    BY <1>5, ExchangeOutcome
  <2>2. PICK e \in Said : e = heard'.status
    BY <2>1
  <2>3. bytesIn' = bytesIn
    BY <1>5 DEF layerVars
  <2>4. bytesIn' \in Nat /\ bytesIn' >= bytesIn
    BY <2>3 DEF LayerShape
  <2> QED BY <1>2, <1>5, <2>1, <2>2, <2>3, <2>4
<1>6. CASE Answer("header") \/ Answer("startpls") \/ Answer("auth") \/ Answer("response")
  <2>3. CASE Answer("header")
    BY <1>3, <2>3 DEF Answer
  <2>4. CASE Answer("startpls")
    BY <1>4, <2>4 DEF Answer
  <2>5. CASE Answer("auth")
    <3>1. PICK t : t = [form |-> "first", user |-> user]
      OBVIOUS
    <3>2. auth(scram, t) /\ UNCHANGED layerVars /\ ServerSends(<< heard'.status >>)
      BY <2>5, <3>1 DEF Answer
    <3>3. t.user = user /\ t.form = "first"
      BY <3>1
    <3>4. /\ username' \in {username, user} /\ bytesIn' = bytesIn
          /\ Tells
      BY <1>5, <3>2, <3>3
    <3> QED BY <1>1, <3>4 DEF LayerShape
  <2>6. CASE Answer("response")
    <3>1. PICK t : t = [form |-> "proof", user |-> user, challenge |-> 1]
      OBVIOUS
    <3>2. response(t) /\ UNCHANGED layerVars /\ ServerSends(<< heard'.status >>)
      BY <2>6, <3>1 DEF Answer
    <3>3. t.user = user 
      BY <3>1
    <3>4. /\ username' \in {username, user} /\ bytesIn' = bytesIn
          /\ Tells
      BY <1>5, <3>2, <3>3
    <3> QED BY <1>1, <3>4 DEF LayerShape
  <2> QED BY <1>6, <2>3, <2>4, <2>5, <2>6
<1>7. CASE /\ \/ close
              \/ (stream = "closed" \/ ~Head(inbox).clear) /\ UNCHANGED sessionVars
           /\ UNCHANGED layerVars /\ toClient' = toClient
  <2>1. /\ username' = username /\ bytesIn' = bytesIn
        /\ stream' = "closed" \/ ~Head(inbox).clear
    BY <1>7 DEF close, sessionVars, vars, layerVars
  <2> QED BY <1>1, <1>7, <2>1 DEF LayerShape
<1>8. ASSUME NEW e, Answer(e)
      PROVE  Answer("header") \/ Answer("startpls") \/ Answer("auth") \/ Answer("response")
  BY <1>8 DEF Answer
<1> QED BY <1>6, <1>7, <1>8 DEF ServerHandles, sessionVars

(* A part of what was said, or more of the same, is still true.            *)
LEMMA RestTold ==
    ASSUME NEW s \in Seq(Sends), NEW name, NEW f, TrulyTold(s, name, f),
           NEW n \in 1..Len(s)
    PROVE  /\ SubSeq(s, n + 1, Len(s)) \in Seq(Sends)
           /\ TrulyTold(SubSeq(s, n + 1, Len(s)), name, f)
<1> DEFINE rest == SubSeq(s, n + 1, Len(s))
<1>1. /\ rest \in Seq(Sends)
      /\ Len(rest) = Len(s) - n
      /\ \A i \in 1..(Len(s) - n) : rest[i] = s[i + n]
  BY RestOfSeq
<1> HIDE DEF rest
<1>2. \A i \in 1..Len(rest) : i + n \in 1..Len(s) /\ rest[i] = s[i + n]
  BY <1>1
<1>3. TrulyTold(rest, name, f)
  BY <1>2 DEF TrulyTold
<1> QED BY <1>1, <1>3 DEF rest

LEMMA MoreTold ==
    ASSUME NEW s \in Seq(Sends), NEW name, NEW f \in Nat, TrulyTold(s, name, f),
           NEW t \in Seq(Sends), NEW last \in {name, user}, NEW g \in Nat, g >= f,
           TrulyTold(t, last, g)
    PROVE  s \o t \in Seq(Sends) /\ TrulyTold(s \o t, last, g)
<1>1. TrulyTold(s, last, g)
  <2>1. ASSUME NEW i \in 1..Len(s) PROVE s[i].layers <= g
    <3>1. s[i] \in Sends /\ s[i].layers <= f
      BY <2>1, ElementOfSeq DEF TrulyTold
    <3>2. s[i].layers \in Nat
      BY <3>1 DEF Sends
    <3> QED BY <3>1, <3>2
  <2> QED BY <2>1 DEF TrulyTold
<1> DEFINE both == s \o t
<1>2. /\ both \in Seq(Sends)
      /\ Len(both) = Len(s) + Len(t)
      /\ \A i \in 1..(Len(s) + Len(t)) :
           both[i] = IF i <= Len(s) THEN s[i] ELSE t[i - Len(s)]
  BY ConcatProperties
<1> HIDE DEF both
<1>3. PICK j \in Nat, k \in Nat : j = Len(s) /\ k = Len(t)
  OBVIOUS
<1>4. ASSUME NEW i \in 1..(j + k)
      PROVE  (\E m \in 1..j : both[i] = s[m]) \/ (\E m \in 1..k : both[i] = t[m])
  <2>1. CASE i <= j
    BY <1>2, <1>3, <2>1
  <2>2. CASE ~(i <= j)
    <3>1. i - j \in 1..k
      BY <2>2
    <3> QED BY <1>2, <1>3, <2>2, <3>1
  <2> QED BY <2>1, <2>2
<1>5. Len(both) = j + k
  BY <1>2, <1>3
<1>6. TrulyTold(both, last, g)
  BY <1>1, <1>3, <1>4, <1>5 DEF TrulyTold
<1> QED BY <1>2, <1>6 DEF both

(* Whoever moves, what the server has said and the script has printed      *)
(* stays true.                                                             *)
LEMMA NextShared ==
    ASSUME LayerShape, SharedInv, [ClientNext]_allVars
    PROVE  SharedInv'
<1>0. toClient \in Seq(Sends) /\ TrulyTold(toClient, username, bytesIn)
  BY DEF SharedInv
<1>1. CASE ServerHandles
  <2>1. /\ username' \in {username, user}
        /\ bytesIn' \in Nat /\ bytesIn' >= bytesIn /\ bytesIn \in Nat
        /\ printed' = printed
    BY <1>1, HandlesTell DEF LayerShape
  <2>2. SuccessIsShared'
    BY <2>1 DEF SuccessIsShared, SharedInv
  <2>3. CASE toClient' = toClient
    <3>1. TrulyTold(toClient, username', bytesIn')
      <4>1. ASSUME NEW i \in 1..Len(toClient)
            PROVE  toClient[i].layers <= bytesIn'
        <5>1. toClient[i] \in Sends /\ toClient[i].layers <= bytesIn
          BY <1>0, <4>1, ElementOfSeq DEF TrulyTold
        <5>2. toClient[i].layers \in Nat
          BY <5>1 DEF Sends
        <5> QED BY <2>1, <5>1, <5>2
      <4> QED BY <1>0, <2>1, <4>1 DEF TrulyTold
    <3> QED BY <1>0, <2>2, <2>3, <3>1 DEF SharedInv, TrulyTold
  <2>4. ASSUME NEW sends \in Seq(Sends), toClient' = toClient \o sends,
               TrulyTold(sends, username', bytesIn')
        PROVE  SharedInv'
    <3>1. toClient' \in Seq(Sends) /\ TrulyTold(toClient', username', bytesIn')
      BY <1>0, <2>1, <2>4, MoreTold
    <3> QED BY <2>2, <3>1 DEF SharedInv, TrulyTold
  <2> QED BY <1>1, <2>3, <2>4, HandlesTell DEF Tells
<1>2. CASE Client
  <2>1. UNCHANGED sessionVars
    BY <1>2 DEF Client
  <2>2. username' = username /\ bytesIn' = bytesIn
    BY <2>1 DEF sessionVars, vars, layerVars
  <2>3. ASSUME NEW n \in 1..Len(toClient), Recv(n)
        PROVE  toClient' \in Seq(Sends) /\ TrulyTold(toClient', username', bytesIn')
    BY <1>0, <2>2, <2>3, RestTold DEF Recv
  <2>4. CASE PrintVerdict
    <3>1. PICK n \in 1..Len(toClient) :
               /\ Recv(n) /\ Deciphers(n)
               /\ printed' = IF n = 1 THEN toClient[1].elem ELSE "garbage"
      BY <2>4 DEF PrintVerdict
    <3>2. ASSUME printed' = "success" PROVE username' = user /\ bytesIn' > 0
      <4>1. n = 1 /\ Deciphers(n) /\ toClient[1].elem = "success"
        BY <3>1, <3>2
      <4>2. 1 \in 1..Len(toClient) /\ toClient[1].layers = 1
        BY <4>1 DEF Deciphers
      <4>3. bytesIn \in Nat /\ 1 <= bytesIn
        BY <1>0, <4>2 DEF TrulyTold, LayerShape
      <4> QED BY <1>0, <2>2, <4>1, <4>2, <4>3 DEF TrulyTold
    <3>3. toClient' \in Seq(Sends) /\ TrulyTold(toClient', username', bytesIn')
      BY <2>3, <3>1
    <3> QED BY <3>2, <3>3 DEF SharedInv, SuccessIsShared, TrulyTold
  <2>5. CASE /\ printed' = printed
             /\ \/ toClient' = toClient
                \/ \E n \in 1..Len(toClient) : Recv(n)
    <3>1. SuccessIsShared'
      BY <2>2, <2>5 DEF SharedInv, SuccessIsShared
    <3>2. toClient' \in Seq(Sends) /\ TrulyTold(toClient', username', bytesIn')
      BY <1>0, <2>2, <2>3, <2>5
    <3> QED BY <3>1, <3>2 DEF SharedInv, TrulyTold
  <2> QED
    BY <1>2, <2>4, <2>5
       DEF Client, Hello, RequestLayer, ReopenStream, BeginScram, AnswerChallenge,
           Raise, EndOfFile
<1>3. CASE UNCHANGED << sessionVars, printed, toClient >>
  <2>1. username' = username /\ bytesIn' = bytesIn /\ printed' = printed
        /\ toClient' = toClient
    BY <1>3 DEF sessionVars, vars, layerVars
  <2> QED BY <1>0, <2>1 DEF SharedInv, SuccessIsShared, TrulyTold
<1> QED
  BY <1>1, <1>2, <1>3
     DEF ClientNext, Server, ServerReads, Finished, allVars, clientVars

(* The success a user reads is one the server stands by: the session is    *)
(* that user's and was authenticated under the layer, on every network     *)
(* (client-v2.py:118-121, mod_saslauth.lua:48-56, mod_pls.lua:170-176).    *)
THEOREM PrintedIsTrue == ClientSpec => []SuccessIsShared
<1>1. ClientInit => SharedInv
  BY DEF ClientInit, SharedInv, SuccessIsShared, TrulyTold
<1>2. SharedInv => SuccessIsShared
  BY DEF SharedInv
<1> QED
  BY <1>1, <1>2, NextShared, ServerIsSession, LayerInvariance, PTL DEF ClientSpec

-----------------------------------------------------------------------------
(* Layers                                                                  *)

Quiet == toServer = << >> /\ inbox = << >>

(* An element on its way that the server's filters, as they are, decipher. *)
Pending(e) ==
    \/ toServer = << Sent(e, bytesIn) >> /\ inbox = << >>
    \/ toServer = << >> /\ inbox = << [elem |-> e, clear |-> TRUE] >>

(* The session before its first header and after its first features.       *)
Fresh == stream = "reset" /\ bytesIn = 0 /\ starttls /\ pls \in contexts
         /\ type = "c2s_unauthed"
Announced == stream = "open" /\ bytesIn = 0 /\ starttls /\ sslCtx

(* Where both are, by what the script waits for: it sends only when the    *)
(* server is at rest, so nothing is under way while filters are put in.    *)
InTurn ==
    \/ pc = "hello" /\ Fresh /\ Quiet
    \/ pc = "offer" /\ ((Fresh /\ Pending("header")) \/ (Announced /\ Quiet))
    \/ pc = "proceed" /\ ((Announced /\ Pending("startpls")) \/ (bytesIn = 1 /\ Quiet))
    \/ /\ pc \notin {"hello", "offer", "proceed"}
       /\ bytesIn = 1
       /\ Quiet \/ \E e \in {"header", "auth", "response"} : Pending(e)

TurnInv == Smooth => InTurn

(* One element sent into silence is pending.                               *)
LEMMA SendsPending ==
    ASSUME Quiet, NEW e, ClientSends(e, bytesIn), UNCHANGED << sessionVars, inbox >>
    PROVE  Pending(e)'
<1>1. bytesIn' = bytesIn
  BY DEF sessionVars, layerVars
<1>2. toServer' = << Sent(e, bytesIn) >>
  <2>1. PICK m : m = Sent(e, bytesIn)
    OBVIOUS
  <2>2. toServer' = Append(<< >>, m)
    BY <2>1 DEF ClientSends, Quiet
  <2>3. Append(<< >>, m) = << m >>
    OBVIOUS
  <2> QED BY <2>1, <2>2, <2>3
<1>3. inbox' = << >>
  BY DEF Quiet
<1>4. Sent(e, bytesIn)' = Sent(e, bytesIn)
  BY <1>1 DEF Sent
<1> QED BY <1>1, <1>2, <1>3, <1>4 DEF Pending, Sent

(* The server reads it through the filters it was enciphered for.          *)
LEMMA ReadsPending ==
    ASSUME arrays = "kept", NEW e, Pending(e), ServerReads
    PROVE  Pending(e)'
<1>1. PICK n \in 1..Len(toServer) :
         /\ inbox' = inbox \o [i \in 1..n |->
                [elem |-> toServer[i].elem,
                 clear |-> toServer[i].layers = bytesIn /\ TRUE]]
         /\ toServer' = SubSeq(toServer, n + 1, Len(toServer))
  BY DEF ServerReads
<1>2. toServer = << Sent(e, bytesIn) >> /\ inbox = << >>
  BY <1>1 DEF Pending
<1>3. n = 1 /\ toServer' = << >> /\ toServer[1] = Sent(e, bytesIn)
  BY <1>1, <1>2
<1>4. inbox' = << [elem |-> e, clear |-> TRUE] >>
  <2> DEFINE Piece(i) == [elem |-> toServer[i].elem,
                          clear |-> toServer[i].layers = bytesIn /\ TRUE]
  <2>1. inbox' = << >> \o [i \in 1..1 |-> Piece(i)]
    BY <1>1, <1>2, <1>3
  <2>2. toServer[1].elem = e /\ toServer[1].layers = bytesIn
    BY <1>3 DEF Sent
  <2>3. Piece(1) = [elem |-> e, clear |-> TRUE]
    BY <2>2, Zenon
  <2> HIDE DEF Piece
  <2>4. [i \in 1..1 |-> Piece(i)] = << Piece(1) >>
    OBVIOUS
  <2>5. << >> \o << Piece(1) >> = << Piece(1) >>
    OBVIOUS
  <2> QED BY <2>1, <2>4, <2>5, <2>3
<1> QED BY <1>3, <1>4 DEF Pending

(* It handles it in clear.                                                 *)
LEMMA HandlesPending ==
    ASSUME NEW e, Pending(e), ServerHandles
    PROVE  /\ Quiet'
           /\ \/ stream # "closed" /\ Answer(e) /\ ~(e = "header" <=> stream = "open")
              \/ UNCHANGED layerVars /\ (e = "header" <=> stream = "open")
              \/ UNCHANGED layerVars /\ stream = "closed"
<1>1. toServer = << >> /\ inbox = << [elem |-> e, clear |-> TRUE] >>
  BY DEF Pending, ServerHandles
<1>2. PICK m : m = [elem |-> e, clear |-> TRUE]
  OBVIOUS
<1>3. Head(inbox) = m /\ Tail(inbox) = << >>
  BY <1>1, <1>2
<1>4. m.elem = e /\ m.clear
  BY <1>2
<1>5. inbox' = << >> /\ toServer' = << >>
  BY <1>1, <1>3 DEF ServerHandles
<1>6. Misplaced(m) <=> (e = "header" <=> stream = "open")
  BY <1>4 DEF Misplaced
<1>7. \/ stream # "closed" /\ ~Misplaced(m) /\ Answer(m.elem)
      \/ Misplaced(m) /\ UNCHANGED layerVars
      \/ stream = "closed" /\ UNCHANGED layerVars
  BY <1>3, <1>4 DEF ServerHandles, sessionVars
<1> QED BY <1>4, <1>5, <1>6, <1>7 DEF Quiet

(* A recv on a whole network leaves silence behind.                        *)
LEMMA RecvQuiet ==
    ASSUME whole, NEW n, Recv(n)
    PROVE  Quiet
BY DEF Recv, Quiet

LEMMA ClientTurns ==
    ASSUME whole, InTurn, Client
    PROVE  InTurn'
<1>1. UNCHANGED << sessionVars, inbox >>
  BY DEF Client
<1>2. /\ bytesIn' = bytesIn /\ stream' = stream /\ starttls' = starttls
      /\ sslCtx' = sslCtx /\ contexts' = contexts /\ type' = type
  BY <1>1 DEF sessionVars, vars, layerVars
<1>3. (Fresh => Fresh') /\ (Announced => Announced')
  BY <1>2 DEF Fresh, Announced
<1>4. CASE Hello
  <2>1. Quiet /\ Fresh
    BY <1>4 DEF Hello, InTurn
  <2>2. Pending("header")'
    BY <1>1, <1>4, <2>1, SendsPending DEF Hello, Fresh
  <2> QED BY <1>3, <1>4, <2>1, <2>2 DEF Hello, InTurn
<1>5. CASE RequestLayer
  <2>1. Quiet
    BY <1>5, RecvQuiet DEF RequestLayer
  <2>2. Announced
    BY <1>5, <2>1 DEF RequestLayer, InTurn, Pending, Quiet
  <2>3. Pending("startpls")'
    BY <1>1, <1>5, <2>1, <2>2, SendsPending DEF RequestLayer, Announced
  <2> QED BY <1>3, <1>5, <2>2, <2>3 DEF RequestLayer, InTurn
<1>6. CASE ReopenStream
  <2>1. Quiet
    BY <1>6, RecvQuiet DEF ReopenStream
  <2>2. bytesIn = 1
    BY <1>6, <2>1 DEF ReopenStream, InTurn, Pending, Quiet
  <2>3. Pending("header")'
    BY <1>1, <1>6, <2>1, <2>2, SendsPending DEF ReopenStream
  <2> QED BY <1>2, <1>6, <2>2, <2>3 DEF ReopenStream, InTurn
<1>7. CASE BeginScram
  <2>1. Quiet
    BY <1>7, RecvQuiet DEF BeginScram
  <2>2. bytesIn = 1
    BY <1>7 DEF BeginScram, InTurn
  <2>3. Pending("auth")'
    BY <1>1, <1>7, <2>1, <2>2, SendsPending DEF BeginScram
  <2> QED BY <1>2, <1>7, <2>2, <2>3 DEF BeginScram, InTurn
<1>8. CASE AnswerChallenge
  <2>1. Quiet
    BY <1>8, RecvQuiet DEF AnswerChallenge
  <2>2. bytesIn = 1
    BY <1>8 DEF AnswerChallenge, InTurn
  <2>3. Pending("response")'
    BY <1>1, <1>8, <2>1, <2>2, SendsPending DEF AnswerChallenge
  <2> QED BY <1>2, <1>8, <2>2, <2>3 DEF AnswerChallenge, InTurn
<1>9. CASE PrintVerdict \/ Raise
  <2>1. Quiet /\ bytesIn = 1 /\ toServer' = toServer
    BY <1>9, RecvQuiet DEF PrintVerdict, Raise, InTurn
  <2>2. Quiet' /\ pc' \in {"done", "raised"}
    BY <1>1, <1>9, <2>1 DEF PrintVerdict, Raise, Quiet
  <2> QED BY <1>2, <2>1, <2>2 DEF InTurn
<1>10. CASE EndOfFile
  <2>1. toServer' = toServer /\ inbox' = inbox /\ pc' \in {"done", "raised"}
    BY <1>1, <1>10 DEF EndOfFile
  <2>2. bytesIn = 1 /\ (Quiet \/ \E e \in {"header", "auth", "response"} : Pending(e))
    BY <1>10 DEF EndOfFile, InTurn, Fresh, Announced
  <2>3. (Quiet => Quiet') /\ \A e : Pending(e) => Pending(e)'
    BY <1>2, <2>1 DEF Quiet, Pending, Sent
  <2> QED BY <1>2, <2>1, <2>2, <2>3 DEF InTurn
<1> QED
  BY <1>4, <1>5, <1>6, <1>7, <1>8, <1>9, <1>10 DEF Client

LEMMA ServerTurns ==
    ASSUME arrays = "kept", LayerShape, InTurn, Server
    PROVE  InTurn'
<1>1. pc' = pc
  BY DEF Server, ServerReads, ServerHandles
<1>2. ~Quiet
  BY DEF Quiet, Server, ServerReads, ServerHandles
<1>3. CASE ServerReads
  <2>1. /\ bytesIn' = bytesIn /\ stream' = stream /\ starttls' = starttls
        /\ sslCtx' = sslCtx /\ contexts' = contexts /\ type' = type
    BY <1>3 DEF ServerReads, sessionVars, vars, layerVars
  <2>2. (Fresh => Fresh') /\ (Announced => Announced')
    BY <2>1 DEF Fresh, Announced
  <2>3. \A e : Pending(e) => Pending(e)'
    BY <1>3, ReadsPending
  <2> QED BY <1>1, <1>2, <2>1, <2>2, <2>3 DEF InTurn
<1>4. CASE ServerHandles /\ pc = "offer"
  <2>1. Fresh /\ Pending("header")
    BY <1>2, <1>4 DEF InTurn
  <2>2. Quiet' /\ Answer("header")
    BY <1>4, <2>1, HandlesPending DEF Fresh
  <2>3. Features
    BY <2>2 DEF Answer
  <2>4. stream' = "open"
    BY <2>3 DEF Features, stream_features, OffersNothing, OffersMechanisms,
                OffersBind, OpenStream
  <2>5. can_do(pls)
    BY <2>1 DEF can_do, Fresh
  <2>6. sslCtx' /\ starttls' /\ bytesIn' = 0
    BY <2>1, <2>3, <2>5, ClientAssumption DEF Features, LayerFeatures, Fresh
  <2> QED BY <1>1, <1>4, <2>2, <2>4, <2>6 DEF InTurn, Announced
<1>5. CASE ServerHandles /\ pc = "proceed"
  <2>1. Announced /\ Pending("startpls")
    BY <1>2, <1>5 DEF InTurn
  <2>2. Quiet' /\ Answer("startpls")
    BY <1>5, <2>1, HandlesPending DEF Announced
  <2>3. start_layer(pls)
    BY <2>2 DEF Answer
  <2>4. Proceed(pls)
    BY <2>1, <2>3 DEF start_layer, Refuse, can_do, Announced
  <2>5. bytesIn' = 1
    BY <2>1, <2>4 DEF Proceed, Announced
  <2> QED BY <1>1, <1>5, <2>2, <2>5 DEF InTurn
<1>6. CASE ServerHandles /\ pc \notin {"offer", "proceed"}
  <2>1. bytesIn = 1 /\ pc \notin {"hello", "offer", "proceed"}
    BY <1>2, <1>6 DEF InTurn
  <2>2. PICK e \in {"header", "auth", "response"} : Pending(e)
    BY <1>2, <1>6 DEF InTurn
  <2>3. Quiet' /\ (Answer(e) \/ UNCHANGED layerVars)
    BY <1>6, <2>2, HandlesPending
  <2>4. bytesIn' = bytesIn
    BY <2>3 DEF Answer, Features, LayerFeatures, layerVars
  <2> QED BY <1>1, <2>1, <2>3, <2>4 DEF InTurn
<1> QED BY <1>3, <1>4, <1>5, <1>6 DEF Server

LEMMA TurnInvariance == ClientSpec => []TurnInv
<1>1. ClientInit => TurnInv
  BY DEF ClientInit, SessionInit, Init, LayerInit, TurnInv, InTurn, Fresh, Quiet
<1>2. TurnInv /\ LayerShape /\ [ClientNext]_allVars => TurnInv'
  <2> SUFFICES ASSUME TurnInv, LayerShape, [ClientNext]_allVars, Smooth'
               PROVE  InTurn'
    BY DEF TurnInv
  <2>1. whole /\ arrays = "kept" /\ InTurn
    BY DEF ClientNext, Client, Server, ServerReads, ServerHandles, Finished,
           allVars, clientVars, Smooth, TurnInv
  <2>2. CASE UNCHANGED allVars
    BY <2>1, <2>2
       DEF allVars, clientVars, sessionVars, vars, layerVars, InTurn, Fresh,
           Announced, Pending, Quiet, Sent
  <2> QED BY <2>1, <2>2, ClientTurns, ServerTurns DEF ClientNext, Finished
<1> QED
  BY <1>1, <1>2, ServerIsSession, LayerInvariance, PTL DEF ClientSpec

(* Where answers come whole and texts come back, every element is read     *)
(* through as many filters as it was enciphered for (mod_pls.lua:170-173,  *)
(* client-v2.py:88-95).                                                    *)
THEOREM StaysInStep == ClientSpec => []LayersInStep
<1>1. TurnInv => LayersInStep
  <2> SUFFICES ASSUME TurnInv, Smooth, NEW i \in DOMAIN inbox PROVE inbox[i].clear
    BY DEF LayersInStep
  <2>1. inbox = << >> \/ \E e : inbox = << [elem |-> e, clear |-> TRUE] >>
    BY DEF TurnInv, InTurn, Quiet, Pending
  <2>2. PICK e : inbox = << [elem |-> e, clear |-> TRUE] >>
    BY <2>1
  <2>3. PICK m : m = [elem |-> e, clear |-> TRUE]
    OBVIOUS
  <2>4. inbox = << m >> /\ m.clear
    BY <2>2, <2>3
  <2>5. inbox[i] = m
    BY <2>4
  <2> QED BY <2>4, <2>5
<1> QED BY <1>1, TurnInvariance, PTL


-----------------------------------------------------------------------------
(* The script's end.  That it comes, ScriptEnds, needs fairness and is for *)
(* TLC; what it rests on is proved: a recv never waits for nothing, and no *)
(* step leaves as much to do as there was.                                 *)

Places == {"hello", "offer", "proceed", "features", "challenge", "verdict",
           "done", "raised"}
Asked == [elem : {"header", "startpls", "auth", "response"}, layers : Nat]
Read == [elem : {"header", "startpls", "auth", "response"}, clear : BOOLEAN]

(* Something of the script's that the server can read, or will be able to. *)
Heard ==
    \/ \E i \in 1..Len(inbox) : inbox[i].clear
    \/ \E i \in 1..Len(toServer) : toServer[i].layers = bytesIn

(* While the script is in a recv, something of its own that the server     *)
(* hears or an answer is under way, or the connection is closed; unless an *)
(* array of the server's was lost.                                         *)
AnswerDue ==
    arrays = "kept" /\ pc \notin {"hello", "done", "raised"} =>
        toClient # << >> \/ stream = "closed" \/ Heard

ScriptTypes ==
    /\ pc \in Places
    /\ toServer \in Seq(Asked)
    /\ inbox \in Seq(Read)

Requests(s) == {i \in 1..Len(s) : s[i].elem = "startpls"}

(* The layer is asked for once, and in clear: until then there is no       *)
(* filter, and in the end one.                                             *)
AsksOnce ==
    /\ bytesIn \in Nat /\ bytesIn <= 1
    /\ \A i \in Requests(toServer) : toServer[i].layers = 0
    /\ \A i \in Requests(inbox) : inbox[i].clear
    /\ \A i, j \in Requests(toServer) : i = j
    /\ \A i, j \in Requests(inbox) : i = j
    /\ Requests(toServer) = {} \/ Requests(inbox) = {}
    /\ bytesIn = 1 \/ pc \in {"hello", "offer"} =>
          Requests(toServer) = {} /\ Requests(inbox) = {}
    /\ pc \in {"hello", "offer"} => bytesIn = 0
    /\ pc = "proceed" /\ bytesIn = 0 /\ stream # "closed" =>
          Requests(toServer) # {} \/ Requests(inbox) # {}

ScriptInv == ScriptTypes /\ AsksOnce /\ AnswerDue

(* The calls the script has still to make, and the steps that are left in  *)
(* all: a call puts one send under way at most, which is read and parsed.  *)
CallsLeft ==
    CASE pc = "hello"     -> 6
      [] pc = "offer"     -> 5
      [] pc = "proceed"   -> 4
      [] pc = "features"  -> 3
      [] pc = "challenge" -> 2
      [] pc = "verdict"   -> 1
      [] OTHER            -> 0
Work == 3 * CallsLeft + 2 * Len(toServer) + Len(inbox)

(* A call of the script: what it waits for comes later in the list, and it *)
(* sends one element if it goes on.                                        *)
LEMMA CallsGoDown ==
    ASSUME ScriptTypes, Client
    PROVE  /\ pc' \in Places /\ CallsLeft' \in Nat /\ CallsLeft' < CallsLeft
           /\ inbox' = inbox
           /\ \/ toServer' = toServer /\ pc' \in {"done", "raised"}
              \/ \E m \in Asked : toServer' = Append(toServer, m)
<1>1. ASSUME NEW e \in {"header", "startpls", "auth", "response"}, NEW n \in Nat,
             ClientSends(e, n)
      PROVE  \E m \in Asked : toServer' = Append(toServer, m)
  BY <1>1 DEF ClientSends, Sent, Asked
<1>2. inbox' = inbox
  BY DEF Client
<1>3. CASE Hello
  BY <1>1, <1>2, <1>3 DEF Hello, CallsLeft, Places
<1>4. CASE RequestLayer
  BY <1>1, <1>2, <1>4 DEF RequestLayer, CallsLeft, Places
<1>5. CASE ReopenStream
  BY <1>1, <1>2, <1>5 DEF ReopenStream, CallsLeft, Places
<1>6. CASE BeginScram
  BY <1>1, <1>2, <1>6 DEF BeginScram, CallsLeft, Places
<1>7. CASE AnswerChallenge
  BY <1>1, <1>2, <1>7 DEF AnswerChallenge, CallsLeft, Places
<1>8. CASE PrintVerdict
  BY <1>2, <1>8 DEF PrintVerdict, CallsLeft, Places
<1>9. CASE Raise
  BY <1>2, <1>9 DEF Raise, CallsLeft, Places
<1>10. CASE EndOfFile
  BY <1>2, <1>10 DEF EndOfFile, CallsLeft, Places, ScriptTypes
<1> QED
  BY <1>3, <1>4, <1>5, <1>6, <1>7, <1>8, <1>9, <1>10 DEF Client

(* What an Append does.                                                    *)
LEMMA AppendAt ==
    ASSUME NEW S, NEW s \in Seq(S), NEW m \in S
    PROVE  /\ Append(s, m) \in Seq(S)
           /\ Len(Append(s, m)) = Len(s) + 1
           /\ \A i \in 1..Len(s) : Append(s, m)[i] = s[i]
           /\ Append(s, m)[Len(s) + 1] = m
BY AppendProperties

(* A call of the script that goes on asks for what the server can hear, or *)
(* for what it will hear once the layer stands.                            *)
LEMMA CallsAskOnce ==
    ASSUME LayerShape, SharedInv, ScriptInv, Client
    PROVE  AsksOnce' /\ AnswerDue'
<1>1. /\ toServer \in Seq(Asked) /\ inbox' = inbox
      /\ bytesIn' = bytesIn /\ stream' = stream
  BY DEF Client, ScriptInv, ScriptTypes, sessionVars, vars, layerVars
<1>2. PICK k \in Nat : k = Len(toServer)
  BY <1>1
<1>3. bytesIn \in Nat /\ bytesIn <= 1
  BY DEF ScriptInv, AsksOnce
<1>4. ASSUME NEW e \in {"header", "startpls", "auth", "response"}, NEW n \in Nat,
             ClientSends(e, n)
      PROVE  /\ Len(toServer') = k + 1
             /\ \A i \in 1..k : toServer'[i] = toServer[i]
             /\ toServer'[k + 1].elem = e /\ toServer'[k + 1].layers = n
             /\ e # "startpls" => Requests(toServer') = Requests(toServer)
  <2>0. PICK m : m = Sent(e, n)
    OBVIOUS
  <2>1. m \in Asked /\ m = Sent(e, n) /\ m.elem = e /\ m.layers = n
    BY <1>4, <2>0 DEF Asked, Sent
  <2>2. toServer' = Append(toServer, m)
    BY <1>4, <2>1 DEF ClientSends
  <2>3. /\ Len(toServer') = k + 1
        /\ \A i \in 1..k : toServer'[i] = toServer[i]
        /\ toServer'[k + 1] = m
    BY <1>1, <1>2, <2>1, <2>2, AppendAt
  <2>4. ASSUME e # "startpls" PROVE Requests(toServer') = Requests(toServer)
    BY <1>2, <2>1, <2>3, <2>4 DEF Requests
  <2> QED BY <2>1, <2>3, <2>4
<1>5. ASSUME NEW e \in {"header", "startpls", "auth", "response"},
             ClientSends(e, bytesIn)
      PROVE  Heard'
  <2>1. Len(toServer') = k + 1 /\ toServer'[k + 1].layers = bytesIn
    BY <1>3, <1>4, <1>5
  <2>2. k + 1 \in 1..Len(toServer')
    BY <2>1
  <2> QED BY <1>1, <2>1, <2>2 DEF Heard
<1>6. ASSUME NEW n \in 1..Len(toClient), toClient[1].layers = 1
      PROVE  bytesIn = 1
  <2>1. 1 \in 1..Len(toClient)
    BY <1>6 DEF SharedInv
  <2>2. toClient[1].layers <= bytesIn
    BY <2>1 DEF SharedInv, TrulyTold
  <2> QED BY <1>3, <1>6, <2>2
<1>7. CASE Hello
  <2>1. bytesIn = 0 /\ ClientSends("header", 0) /\ pc' = "offer" /\ pc = "hello"
    BY <1>7 DEF Hello, ScriptInv, AsksOnce
  <2>2. Heard' /\ Requests(toServer') = {} /\ Requests(inbox') = {}
    BY <1>1, <1>4, <1>5, <2>1 DEF ScriptInv, AsksOnce
  <2>3. AnswerDue'
    BY <2>2 DEF AnswerDue
  <2>4. AsksOnce'
    BY <1>1, <2>1, <2>2 DEF AsksOnce, Requests
  <2> QED BY <2>3, <2>4
<1>8. CASE RequestLayer
  <2>1. bytesIn = 0 /\ ClientSends("startpls", 0) /\ pc' = "proceed" /\ pc = "offer"
    BY <1>8 DEF RequestLayer, ScriptInv, AsksOnce
  <2>2. Requests(toServer) = {} /\ Requests(inbox') = {}
    BY <1>1, <2>1 DEF ScriptInv, AsksOnce
  <2>3. Heard' /\ AnswerDue'
    BY <1>5, <2>1 DEF AnswerDue
  <2>4. /\ Len(toServer') = k + 1
        /\ \A i \in 1..k : toServer'[i] = toServer[i]
        /\ toServer'[k + 1].elem = "startpls" /\ toServer'[k + 1].layers = 0
    BY <1>4, <2>1
  <2>5. Requests(toServer') = {k + 1}
    BY <1>2, <2>2, <2>4 DEF Requests
  <2>6. AsksOnce'
    BY <1>1, <2>1, <2>2, <2>4, <2>5 DEF AsksOnce, Requests
  <2> QED BY <2>3, <2>6
<1>9. ASSUME NEW e \in {"header", "auth", "response"}, ClientSends(e, 1),
             pc' \in {"features", "challenge", "verdict"},
             bytesIn = 1 \/ (pc = "proceed" /\ pc' = "features")
      PROVE  AsksOnce' /\ AnswerDue'
  <2>1. /\ Len(toServer') = k + 1
        /\ \A i \in 1..k : toServer'[i] = toServer[i]
        /\ Requests(toServer') = Requests(toServer)
    BY <1>4, <1>9
  <2>2. Requests(inbox') = Requests(inbox)
    BY <1>1
  <2>3. \A i \in Requests(toServer') : i \in 1..k /\ toServer'[i] = toServer[i]
    BY <1>2, <2>1 DEF Requests
  <2>4. AsksOnce'
    BY <1>1, <1>9, <2>1, <2>2, <2>3 DEF ScriptInv, AsksOnce, Requests
  <2>5. CASE bytesIn = 1
    BY <1>5, <1>9, <2>4, <2>5 DEF AnswerDue
  <2>6. CASE bytesIn = 0 /\ pc = "proceed"
    <3>1. stream = "closed" \/ Requests(toServer) # {} \/ Requests(inbox) # {}
      BY <2>6 DEF ScriptInv, AsksOnce
    <3>2. ASSUME NEW i \in Requests(toServer) PROVE Heard'
      <4>1. i \in 1..k /\ toServer[i].layers = 0 /\ toServer'[i] = toServer[i]
        BY <1>2, <2>1, <3>2 DEF ScriptInv, AsksOnce, Requests
      <4>2. i \in 1..Len(toServer') /\ toServer'[i].layers = bytesIn'
        BY <1>1, <2>1, <2>6, <4>1
      <4> QED BY <4>2 DEF Heard
    <3>3. ASSUME NEW i \in Requests(inbox) PROVE Heard'
      BY <1>1, <3>3 DEF ScriptInv, AsksOnce, Requests, Heard
    <3> QED BY <1>1, <2>4, <3>1, <3>2, <3>3 DEF AnswerDue
  <2> QED BY <1>3, <1>9, <2>5, <2>6
<1>10. CASE ReopenStream
  BY <1>9, <1>10 DEF ReopenStream
<1>11. CASE BeginScram
  <2>1. PICK n \in 1..Len(toClient) : Deciphers(n)
    BY <1>11 DEF BeginScram
  <2>2. toClient[1].layers = 1
    BY <2>1 DEF Deciphers, SharedInv
  <2> QED BY <1>6, <1>9, <1>11, <2>1, <2>2 DEF BeginScram
<1>12. CASE AnswerChallenge
  <2>1. PICK n \in 1..Len(toClient) : Readable(n, "challenge")
    BY <1>12 DEF AnswerChallenge
  <2>0. PICK m : m = Sent("challenge", 1)
    OBVIOUS
  <2>2. m.layers = 1
    BY <2>0 DEF Sent
  <2>3. n = 1 /\ SubSeq(toClient, 1, 1) = << m >> /\ 1 \in 1..Len(toClient)
    BY <2>0, <2>1 DEF Readable, Got
  <2>4. SubSeq(toClient, 1, 1)[1] = toClient[1]
    BY <2>3 DEF SharedInv
  <2>5. << m >>[1] = m
    OBVIOUS
  <2>6. toClient[1] = m
    BY <2>3, <2>4, <2>5
  <2> QED BY <1>6, <1>9, <1>12, <2>2, <2>3, <2>6 DEF AnswerChallenge
<1>13. CASE PrintVerdict \/ Raise \/ EndOfFile
  <2>1. toServer' = toServer /\ pc' \in {"done", "raised"}
    BY <1>13 DEF PrintVerdict, Raise, EndOfFile
  <2>2. AsksOnce'
    BY <1>1, <2>1 DEF ScriptInv, AsksOnce, Requests
  <2> QED BY <2>1, <2>2 DEF AnswerDue
<1> QED
  BY <1>7, <1>8, <1>10, <1>11, <1>12, <1>13 DEF Client

(* What the server reads it has still to parse: the first sends, as they   *)
(* come through its filters.                                               *)
LEMMA ReadsGoOn ==
    ASSUME ScriptTypes, ServerReads
    PROVE  \E n \in Nat \ {0} :
             /\ toServer' \in Seq(Asked) /\ Len(toServer) = Len(toServer') + n
             /\ inbox' \in Seq(Read) /\ Len(inbox') = Len(inbox) + n
             /\ \A i \in 1..Len(toServer') : toServer'[i] = toServer[i + n]
             /\ \A i \in 1..Len(inbox) : inbox'[i] = inbox[i]
             /\ \A i \in 1..n :
                   /\ inbox'[i + Len(inbox)].elem = toServer[i].elem
                   /\ arrays = "kept" \/ bytesIn = 0 =>
                        inbox'[i + Len(inbox)].clear = (toServer[i].layers = bytesIn)
<1>1. toServer \in Seq(Asked) /\ inbox \in Seq(Read)
  BY DEF ScriptTypes
<1>2. PICK n \in 1..Len(toServer), lost \in BOOLEAN :
         /\ lost => arrays = "reused" /\ bytesIn > 0
         /\ inbox' = inbox \o [i \in 1..n |->
                [elem |-> toServer[i].elem,
                 clear |-> toServer[i].layers = bytesIn /\ ~lost]]
         /\ toServer' = SubSeq(toServer, n + 1, Len(toServer))
  BY DEF ServerReads
<1>3. n \in Nat \ {0} /\ n \in 0..Len(toServer)
  BY <1>1
<1>4. /\ toServer' \in Seq(Asked) /\ Len(toServer') = Len(toServer) - n
      /\ \A i \in 1..(Len(toServer) - n) : toServer'[i] = toServer[i + n]
  BY <1>1, <1>2, <1>3, RestOfSeq
<1> DEFINE Piece(i) == [elem |-> toServer[i].elem,
                        clear |-> toServer[i].layers = bytesIn /\ ~lost]
           read == [i \in 1..n |-> Piece(i)]
<1>5. ASSUME NEW i \in 1..n
      PROVE  /\ Piece(i) \in Read
             /\ Piece(i).elem = toServer[i].elem
             /\ ~lost => Piece(i).clear = (toServer[i].layers = bytesIn)
  <2>1. toServer[i] \in Asked
    BY <1>1, <1>3, <1>5, ElementOfSeq
  <2>2. (toServer[i].layers = bytesIn /\ ~lost) \in BOOLEAN
    OBVIOUS
  <2>3. Piece(i) \in Read
    BY <2>1, <2>2 DEF Asked, Read
  <2>4. ~lost => Piece(i).clear = (toServer[i].layers = bytesIn)
    BY Zenon
  <2> QED BY <2>3, <2>4
<1>6. inbox' = inbox \o read
  BY <1>2
<1> HIDE DEF Piece
<1>7. read \in Seq(Read) /\ Len(read) = n /\ \A i \in 1..n : read[i] = Piece(i)
  BY <1>3, <1>5
<1> HIDE DEF read
<1>8. PICK l \in Nat : l = Len(inbox)
  BY <1>1
<1>9. /\ inbox' \in Seq(Read) /\ Len(inbox') = l + n
      /\ \A i \in 1..(l + n) : inbox'[i] = IF i <= l THEN inbox[i] ELSE read[i - l]
  BY <1>1, <1>6, <1>7, <1>8, ConcatProperties
<1>10. \A i \in 1..l : inbox'[i] = inbox[i]
  BY <1>3, <1>9
<1>11. ASSUME NEW i \in 1..n
       PROVE  inbox'[i + l] = Piece(i)
  <2>1. i + l \in 1..(l + n) /\ ~(i + l <= l) /\ (i + l) - l = i
    BY <1>3
  <2> QED BY <1>7, <1>9, <2>1
<1>12. arrays = "kept" \/ bytesIn = 0 => ~lost
  BY <1>2
<1>13. Len(toServer) = Len(toServer') + n /\ Len(toServer) - n = Len(toServer')
  BY <1>1, <1>3, <1>4
<1> QED BY <1>3, <1>4, <1>5, <1>8, <1>9, <1>10, <1>11, <1>12, <1>13

(* What it hears of the script, and the one request for the layer, are     *)
(* still there when it has read.                                           *)
LEMMA ReadsKeepDue ==
    ASSUME ScriptInv, ServerReads
    PROVE  AsksOnce' /\ AnswerDue'
<1>1. PICK n \in Nat \ {0} :
             /\ toServer' \in Seq(Asked) /\ Len(toServer) = Len(toServer') + n
             /\ inbox' \in Seq(Read) /\ Len(inbox') = Len(inbox) + n
             /\ \A i \in 1..Len(toServer') : toServer'[i] = toServer[i + n]
             /\ \A i \in 1..Len(inbox) : inbox'[i] = inbox[i]
             /\ \A i \in 1..n :
                   /\ inbox'[i + Len(inbox)].elem = toServer[i].elem
                   /\ arrays = "kept" \/ bytesIn = 0 =>
                        inbox'[i + Len(inbox)].clear = (toServer[i].layers = bytesIn)
  BY ReadsGoOn DEF ScriptInv
<1>2. /\ bytesIn' = bytesIn /\ stream' = stream /\ pc' = pc /\ arrays' = arrays
      /\ toClient' = toClient
  BY DEF ServerReads, sessionVars, vars, layerVars
<1>3. PICK k \in Nat, l \in Nat : k = Len(toServer') /\ l = Len(inbox)
  BY <1>1 DEF ScriptInv, ScriptTypes
<1>4. Len(toServer) = k + n /\ Len(inbox') = l + n
  BY <1>1, <1>3
<1>5. \A i \in 1..k : i + n \in 1..(k + n) /\ toServer'[i] = toServer[i + n]
  BY <1>1, <1>3
<1>6. ASSUME NEW i \in 1..(l + n)
      PROVE  \/ i \in 1..l /\ inbox'[i] = inbox[i]
             \/ i - l \in 1..n /\ inbox'[i].elem = toServer[i - l].elem
                /\ (arrays = "kept" \/ bytesIn = 0 =>
                      inbox'[i].clear = (toServer[i - l].layers = bytesIn))
  <2>1. CASE i <= l
    BY <1>1, <1>3, <2>1
  <2>2. CASE ~(i <= l)
    <3>1. i - l \in 1..n /\ (i - l) + l = i
      BY <2>2
    <3>2. \A j \in 1..n :
             /\ inbox'[j + l].elem = toServer[j].elem
             /\ arrays = "kept" \/ bytesIn = 0 =>
                   inbox'[j + l].clear = (toServer[j].layers = bytesIn)
      BY <1>1, <1>3
    <3> QED BY <3>1, <3>2
  <2> QED BY <2>1, <2>2
<1>7. \A i \in Requests(toServer') : i \in 1..k /\ i + n \in Requests(toServer)
                                     /\ toServer'[i] = toServer[i + n]
  BY <1>3, <1>4, <1>5 DEF Requests
<1>8. \A i \in Requests(inbox') :
        \/ i \in Requests(inbox) /\ inbox'[i] = inbox[i]
        \/ i \in 1..(l + n) /\ i - l \in 1..n /\ i - l \in Requests(toServer)
  BY <1>3, <1>4, <1>6 DEF Requests
<1>9. \A i \in Requests(inbox) : i \in Requests(inbox')
  BY <1>1, <1>3, <1>4 DEF Requests
<1>10. ASSUME NEW i \in Requests(toServer)
       PROVE  \/ i - n \in Requests(toServer')
              \/ i + l \in Requests(inbox')
  <2>1. i \in 1..(k + n) /\ toServer[i].elem = "startpls"
    BY <1>4, <1>10 DEF Requests
  <2>2. CASE i <= n
    <3>1. i \in 1..n /\ i + l \in 1..(l + n)
      BY <2>1, <2>2
    <3>2. inbox'[i + l].elem = "startpls"
      BY <1>1, <1>3, <2>1, <3>1
    <3> QED BY <1>4, <3>1, <3>2 DEF Requests
  <2>3. CASE ~(i <= n)
    <3>1. i - n \in 1..k /\ (i - n) + n = i
      BY <2>1, <2>3
    <3>2. toServer'[i - n] = toServer[i]
      BY <1>5, <3>1
    <3> QED BY <1>3, <2>1, <3>1, <3>2 DEF Requests
  <2> QED BY <2>2, <2>3
<1>11. AsksOnce
  BY DEF ScriptInv
<1>12. AsksOnce'
  <2>1. \A i \in Requests(toServer') : toServer'[i].layers = 0
    BY <1>7, <1>11 DEF AsksOnce
  <2>2. ASSUME NEW i \in Requests(inbox') PROVE inbox'[i].clear
    <3>1. CASE i \in Requests(inbox) /\ inbox'[i] = inbox[i]
      BY <1>11, <3>1 DEF AsksOnce
    <3>2. CASE i \in 1..(l + n) /\ i - l \in 1..n /\ i - l \in Requests(toServer)
      <4>1. bytesIn = 0 /\ toServer[i - l].layers = 0
        BY <1>11, <3>2 DEF AsksOnce
      <4>2. ~(i \in 1..l)
        BY <3>2
      <4> QED BY <1>6, <3>2, <4>1, <4>2
    <3> QED BY <1>8, <3>1, <3>2
  <2>3. \A i, j \in Requests(toServer') : i = j
    <3> SUFFICES ASSUME NEW i \in Requests(toServer'), NEW j \in Requests(toServer')
                 PROVE  i = j
      OBVIOUS
    <3>1. i + n = j + n /\ i \in 1..k /\ j \in 1..k
      BY <1>7, <1>11 DEF AsksOnce
    <3> QED BY <3>1
  <2>4. \A i, j \in Requests(inbox') : i = j
    <3> SUFFICES ASSUME NEW i \in Requests(inbox'), NEW j \in Requests(inbox')
                 PROVE  i = j
      OBVIOUS
    <3>1. CASE i \in Requests(inbox) /\ j \in Requests(inbox)
      BY <1>11, <3>1 DEF AsksOnce
    <3>2. CASE /\ i \in 1..(l + n) /\ i - l \in Requests(toServer)
               /\ j \in 1..(l + n) /\ j - l \in Requests(toServer)
      <4>1. i - l = j - l
        BY <1>11, <3>2 DEF AsksOnce
      <4> QED BY <3>2, <4>1
    <3>3. ~(Requests(inbox) # {} /\ Requests(toServer) # {})
      BY <1>11 DEF AsksOnce
    <3> QED BY <1>8, <3>1, <3>2, <3>3
  <2>5. Requests(toServer') = {} \/ Requests(inbox') = {}
    <3> SUFFICES ASSUME NEW i \in Requests(toServer'), NEW j \in Requests(inbox')
                 PROVE  FALSE
      OBVIOUS
    <3>1. i + n \in Requests(toServer) /\ i \in 1..k
      BY <1>7
    <3>2. j \notin Requests(inbox)
      BY <1>11, <3>1 DEF AsksOnce
    <3>3. j - l \in 1..n /\ j - l \in Requests(toServer)
      BY <1>8, <3>2
    <3>4. i + n = j - l
      BY <1>11, <3>1, <3>3 DEF AsksOnce
    <3> QED BY <3>1, <3>3, <3>4
  <2>6. Requests(toServer) = {} /\ Requests(inbox) = {} =>
            Requests(toServer') = {} /\ Requests(inbox') = {}
    BY <1>7, <1>8
  <2>7. Requests(toServer) # {} \/ Requests(inbox) # {} =>
            Requests(toServer') # {} \/ Requests(inbox') # {}
    BY <1>9, <1>10
  <2> HIDE DEF Requests
  <2> QED BY <1>2, <1>11, <2>1, <2>2, <2>3, <2>4, <2>5, <2>6, <2>7 DEF AsksOnce
<1>13. arrays = "kept" /\ Heard => Heard'
  <2> SUFFICES ASSUME arrays = "kept", Heard PROVE Heard'
    OBVIOUS
  <2>1. CASE \E i \in 1..l : inbox[i].clear
    <3>1. PICK i \in 1..l : inbox[i].clear
      BY <2>1
    <3>2. i \in 1..(l + n) /\ inbox'[i] = inbox[i]
      BY <1>1, <1>3
    <3> QED BY <1>4, <3>1, <3>2 DEF Heard
  <2>2. ASSUME NEW i \in 1..(k + n), toServer[i].layers = bytesIn PROVE Heard'
    <3>1. CASE i <= n
      <4>1. i \in 1..n /\ i + l \in 1..(l + n)
        BY <2>2, <3>1
      <4>2. inbox'[i + l].clear = (toServer[i].layers = bytesIn)
        BY <1>1, <1>3, <4>1
      <4>3. inbox'[i + l].clear
        BY <2>2, <4>2
      <4> QED BY <1>4, <4>1, <4>3 DEF Heard
    <3>2. CASE ~(i <= n)
      <4>1. i - n \in 1..k /\ (i - n) + n = i
        BY <2>2, <3>2
      <4>2. toServer'[i - n].layers = bytesIn'
        BY <1>2, <1>5, <2>2, <4>1
      <4> QED BY <1>3, <4>1, <4>2 DEF Heard
    <3> QED BY <3>1, <3>2
  <2> QED BY <1>3, <1>4, <2>1, <2>2 DEF Heard
<1>14. AnswerDue'
  BY <1>2, <1>13 DEF ScriptInv, AnswerDue
<1> QED BY <1>12, <1>14

(* What the server does to its filters and its stream: only a request for  *)
(* the layer that it can read adds a filter, or closes the session.        *)
LEMMA HandlesLayers ==
    ASSUME LayerShape, ServerHandles
    PROVE  /\ stream = "closed" => stream' = "closed"
           /\ \/ bytesIn' = bytesIn
              \/ bytesIn' = bytesIn + 1 /\ Head(inbox).elem = "startpls"
           /\ ~Head(inbox).clear => bytesIn' = bytesIn
           /\ Head(inbox).elem = "startpls" /\ Head(inbox).clear =>
                 bytesIn' = bytesIn + 1 \/ stream' = "closed"
<1>1. ASSUME NEW e, Answer(e)
      PROVE  /\ bytesIn' = bytesIn \/ (bytesIn' = bytesIn + 1 /\ e = "startpls")
             /\ e = "startpls" => bytesIn' = bytesIn + 1 \/ stream' = "closed"
  <2>1. CASE e = "startpls"
    <3>1. start_layer(pls)
      BY <1>1, <2>1 DEF Answer
    <3> QED BY <2>1, <3>1 DEF start_layer, Proceed, Refuse, close, LayerShape
  <2>2. CASE e # "startpls"
    BY <1>1, <2>2 DEF Answer, Features, LayerFeatures, layerVars
  <2> QED BY <2>1, <2>2
<1>2. CASE /\ stream # "closed" /\ Head(inbox).clear
           /\ Answer(Head(inbox).elem)
  BY <1>1, <1>2
<1>3. CASE close /\ UNCHANGED layerVars
  BY <1>3 DEF close, layerVars
<1>4. CASE (stream = "closed" \/ ~Head(inbox).clear) /\ UNCHANGED sessionVars
  BY <1>4 DEF sessionVars, vars, layerVars
<1> QED BY <1>2, <1>3, <1>4 DEF ServerHandles

(* What it parses is done with; and it answers, or the session is closed,  *)
(* or the script still has something under way that the server hears.      *)
LEMMA HandlesGoOn ==
    ASSUME LayerShape, SharedInv, ScriptInv, ServerHandles
    PROVE  /\ toServer' = toServer /\ pc' = pc
           /\ inbox' \in Seq(Read) /\ Len(inbox) = Len(inbox') + 1
           /\ AsksOnce' /\ AnswerDue'
<1>1. /\ toServer' = toServer /\ pc' = pc /\ arrays' = arrays
      /\ inbox # << >> /\ inbox' = Tail(inbox)
  BY DEF ServerHandles
<1>2. inbox \in Seq(Read)
  BY DEF ScriptInv, ScriptTypes
<1>3. /\ inbox' \in Seq(Read) /\ Len(inbox) = Len(inbox') + 1
      /\ Head(inbox) = inbox[1]
      /\ \A i \in 1..Len(inbox') : inbox'[i] = inbox[i + 1]
  BY <1>1, <1>2
<1>4. PICK l \in Nat : l = Len(inbox')
  BY <1>3
<1>5. /\ stream = "closed" => stream' = "closed"
      /\ \/ bytesIn' = bytesIn
         \/ bytesIn' = bytesIn + 1 /\ inbox[1].elem = "startpls"
      /\ ~inbox[1].clear => bytesIn' = bytesIn
      /\ inbox[1].elem = "startpls" /\ inbox[1].clear =>
            bytesIn' = bytesIn + 1 \/ stream' = "closed"
  BY <1>3, HandlesLayers
<1>6. Len(inbox) = l + 1 /\ \A i \in 1..l : i + 1 \in 1..(l + 1) /\ inbox'[i] = inbox[i + 1]
  BY <1>3, <1>4
<1>7. AsksOnce
  BY DEF ScriptInv
<1>8. \A i \in Requests(inbox') : i + 1 \in Requests(inbox) /\ i \in 1..l
                                  /\ inbox'[i] = inbox[i + 1]
  BY <1>4, <1>6 DEF Requests
<1>9. ASSUME NEW i \in Requests(inbox), i # 1 PROVE i - 1 \in Requests(inbox')
  <2>1. i \in 1..(l + 1) /\ inbox[i].elem = "startpls"
    BY <1>6, <1>9 DEF Requests
  <2>2. i - 1 \in 1..l /\ (i - 1) + 1 = i
    BY <1>9, <2>1
  <2> QED BY <1>4, <1>6, <2>1, <2>2 DEF Requests
<1>10. Requests(toServer') = Requests(toServer)
  BY <1>1
<1>11. inbox[1].elem = "startpls" <=> 1 \in Requests(inbox)
  BY <1>6 DEF Requests
<1>12. AsksOnce'
  <2>1. ASSUME inbox[1].elem = "startpls"
        PROVE  /\ Requests(inbox') = {} /\ Requests(toServer') = {}
               /\ bytesIn = 0 /\ bytesIn' \in Nat /\ bytesIn' <= 1
               /\ pc \notin {"hello", "offer"}
               /\ bytesIn' = 1 \/ stream' = "closed"
    <3>1. 1 \in Requests(inbox)
      BY <1>11, <2>1
    <3>2. Requests(toServer) = {} /\ bytesIn = 0 /\ pc \notin {"hello", "offer"}
          /\ inbox[1].clear
      BY <1>7, <3>1 DEF AsksOnce
    <3>3. ASSUME NEW i \in Requests(inbox') PROVE FALSE
      <4>1. i + 1 = 1 /\ i \in 1..l
        BY <1>7, <1>8, <3>1 DEF AsksOnce
      <4> QED BY <4>1
    <3> QED BY <1>5, <1>10, <2>1, <3>2, <3>3
  <2>2. ASSUME inbox[1].elem # "startpls"
        PROVE  /\ bytesIn' = bytesIn
               /\ Requests(inbox') = {} <=> Requests(inbox) = {}
    <3>1. 1 \notin Requests(inbox)
      BY <1>11, <2>2
    <3> QED BY <1>5, <1>8, <1>9, <2>2, <3>1
  <2>3. \A i \in Requests(inbox') : inbox'[i].clear
    BY <1>7, <1>8 DEF AsksOnce
  <2>4. \A i, j \in Requests(inbox') : i = j
    <3> SUFFICES ASSUME NEW i \in Requests(inbox'), NEW j \in Requests(inbox')
                 PROVE  i = j
      OBVIOUS
    <3>1. i + 1 = j + 1 /\ i \in 1..l /\ j \in 1..l
      BY <1>7, <1>8 DEF AsksOnce
    <3> QED BY <3>1
  <2>5. /\ \A i \in Requests(toServer') : toServer'[i].layers = 0
        /\ \A i, j \in Requests(toServer') : i = j
    BY <1>1, <1>7, <1>10 DEF AsksOnce
  <2> HIDE DEF Requests
  <2>6. CASE inbox[1].elem = "startpls"
    BY <1>1, <2>1, <2>3, <2>4, <2>5, <2>6 DEF AsksOnce
  <2>7. CASE inbox[1].elem # "startpls"
    BY <1>1, <1>5, <1>7, <1>10, <2>2, <2>3, <2>4, <2>5, <2>7 DEF AsksOnce
  <2> QED BY <2>6, <2>7
<1>13. ASSUME arrays = "kept", Tells PROVE toClient' # << >>
  <2>1. PICK sends \in Seq(Sends) : toClient' = toClient \o sends /\ sends # << >>
    BY <1>13 DEF Tells
  <2>2. toClient \in Seq(Sends)
    BY DEF SharedInv
  <2>3. Len(toClient \o sends) = Len(toClient) + Len(sends)
    BY ONLY <2>1, <2>2, ConcatProperties
  <2>4. Len(sends) \in Nat /\ Len(sends) # 0 /\ Len(toClient) \in Nat
    BY <2>1, <2>2
  <2>5. Len(<< >>) = 0
    OBVIOUS
  <2> QED BY <2>1, <2>3, <2>4, <2>5
<1>14. ASSUME toClient' = toClient, ~inbox[1].clear, Heard PROVE Heard'
  <2>1. bytesIn' = bytesIn
    BY <1>5, <1>14
  <2>2. ASSUME NEW i \in 1..(l + 1), inbox[i].clear PROVE Heard'
    <3>1. i - 1 \in 1..l /\ (i - 1) + 1 = i
      BY <1>14, <2>2
    <3>2. inbox'[i - 1].clear
      BY <1>6, <2>2, <3>1
    <3> QED BY <1>4, <3>1, <3>2 DEF Heard
  <2>3. ASSUME NEW i \in 1..Len(toServer), toServer[i].layers = bytesIn PROVE Heard'
    BY <1>1, <2>1, <2>3 DEF Heard
  <2> QED BY <1>6, <1>14, <2>2, <2>3 DEF Heard
<1>15. \/ Tells
       \/ toClient' = toClient /\ (stream' = "closed" \/ ~inbox[1].clear)
  BY <1>3, HandlesTell
<1>16. AnswerDue'
  BY <1>1, <1>5, <1>13, <1>14, <1>15 DEF ScriptInv, AnswerDue
<1> QED BY <1>1, <1>3, <1>12, <1>16

LEMMA StaysScriptInv == ScriptInv /\ UNCHANGED allVars => ScriptInv'
<1> SUFFICES ASSUME ScriptInv, UNCHANGED allVars PROVE ScriptInv'
  OBVIOUS
<1>1. /\ pc' = pc /\ toServer' = toServer /\ inbox' = inbox /\ arrays' = arrays
      /\ toClient' = toClient /\ stream' = stream /\ bytesIn' = bytesIn
  BY DEF allVars, clientVars, sessionVars, vars, layerVars
<1>2. Heard' <=> Heard
  BY <1>1 DEF Heard
<1>3. AsksOnce'
  BY <1>1 DEF ScriptInv, AsksOnce
<1>4. AnswerDue'
  BY <1>1, <1>2 DEF ScriptInv, AnswerDue
<1> QED BY <1>1, <1>3, <1>4 DEF ScriptInv, ScriptTypes

(* Every step keeps the invariant, and leaves less to do.                  *)
LEMMA ScriptStep ==
    ASSUME LayerShape, SharedInv, ScriptInv, ClientNext
    PROVE  ScriptInv' /\ (Work' < Work \/ UNCHANGED allVars)
<1>0. /\ toServer \in Seq(Asked) /\ inbox \in Seq(Read)
      /\ Len(toServer) \in Nat /\ Len(inbox) \in Nat /\ ScriptTypes
  BY DEF ScriptInv, ScriptTypes
<1>c. CallsLeft \in Nat
  BY DEF CallsLeft
<1>1. CASE Client
  <2>1. /\ pc' \in Places /\ CallsLeft' \in Nat /\ CallsLeft' < CallsLeft
        /\ inbox' = inbox /\ AsksOnce' /\ AnswerDue'
    BY <1>0, <1>1, CallsGoDown, CallsAskOnce
  <2>2. CASE toServer' = toServer /\ pc' \in {"done", "raised"}
    <3>1. ScriptInv'
      BY <1>0, <2>1, <2>2 DEF ScriptInv, ScriptTypes
    <3>2. Work' < Work
      BY <1>0, <1>c, <2>1, <2>2 DEF Work
    <3> QED BY <3>1, <3>2
  <2>3. ASSUME NEW m \in Asked, toServer' = Append(toServer, m)
        PROVE  ScriptInv' /\ Work' < Work
    <3>1. /\ toServer' \in Seq(Asked) /\ toServer' # << >>
          /\ Len(toServer') = Len(toServer) + 1
      BY <1>0, <2>3, AppendProperties
    <3>2. ScriptInv'
      BY <1>0, <2>1, <3>1 DEF ScriptInv, ScriptTypes
    <3>3. Work' < Work
      BY <1>0, <1>c, <2>1, <3>1 DEF Work
    <3> QED BY <3>2, <3>3
  <2> QED BY <1>0, <1>1, <2>2, <2>3, CallsGoDown
<1>2. CASE ServerReads
  <2>1. PICK n \in Nat \ {0} :
           /\ toServer' \in Seq(Asked) /\ Len(toServer) = Len(toServer') + n
           /\ inbox' \in Seq(Read) /\ Len(inbox') = Len(inbox) + n
    BY <1>0, <1>2, ReadsGoOn
  <2>2. pc' = pc
    BY <1>2 DEF ServerReads
  <2>4. AsksOnce' /\ AnswerDue'
    BY <1>2, ReadsKeepDue
  <2>5. ScriptInv'
    BY <1>0, <2>1, <2>2, <2>4 DEF ScriptInv, ScriptTypes
  <2>6. CallsLeft' = CallsLeft
    BY <2>2 DEF CallsLeft
  <2>7. Len(toServer') \in Nat
    BY <2>1
  <2>8. Work' < Work
    BY <1>0, <1>c, <2>1, <2>6, <2>7 DEF Work
  <2> QED BY <2>5, <2>8
<1>3. CASE ServerHandles
  <2>1. /\ toServer' = toServer /\ pc' = pc
        /\ inbox' \in Seq(Read) /\ Len(inbox) = Len(inbox') + 1
        /\ AsksOnce' /\ AnswerDue'
    BY <1>3, HandlesGoOn
  <2>2. ScriptInv'
    BY <1>0, <2>1 DEF ScriptInv, ScriptTypes
  <2>3. CallsLeft' = CallsLeft
    BY <2>1 DEF CallsLeft
  <2>4. Len(inbox') \in Nat
    BY <2>1
  <2>5. Work' < Work
    BY <1>0, <1>c, <2>1, <2>3, <2>4 DEF Work
  <2> QED BY <2>2, <2>5
<1>4. CASE Finished
  <2>1. UNCHANGED allVars
    BY <1>4 DEF Finished
  <2>2. ScriptInv'
    BY <2>1, StaysScriptInv
  <2> QED BY <2>1, <2>2
<1> QED BY <1>1, <1>2, <1>3, <1>4 DEF ClientNext, Server

LEMMA ScriptInvariance == ClientSpec => [](LayerShape /\ SharedInv /\ ScriptInv)
<1>1. ClientInit => SharedInv
  BY DEF ClientInit, SharedInv, SuccessIsShared, TrulyTold
<1>2. ClientInit => ScriptInv
  <2> SUFFICES ASSUME ClientInit PROVE ScriptInv
    OBVIOUS
  <2>1. /\ toServer = << >> /\ inbox = << >> /\ pc = "hello" /\ bytesIn = 0
        /\ Len(toServer) = 0 /\ Len(inbox) = 0
    BY DEF ClientInit, SessionInit, LayerInit
  <2>2. Requests(toServer) = {} /\ Requests(inbox) = {}
    BY <2>1 DEF Requests
  <2>3. AsksOnce
    BY <2>1, <2>2 DEF AsksOnce
  <2> QED BY <2>1, <2>3 DEF ScriptInv, ScriptTypes, AnswerDue, Places
<1>3. LayerShape /\ SharedInv /\ ScriptInv /\ [ClientNext]_allVars => ScriptInv'
  <2> QED BY StaysScriptInv, ScriptStep
<1> QED
  BY <1>1, <1>2, <1>3, NextShared, ServerIsSession, LayerInvariance, PTL
     DEF ClientSpec

(* No recv of the script waits for an answer that nobody owes it, unless an*)
(* array of the server's ciphers was lost: wherever the network cuts the   *)
(* answers, and though the server may pass over an enciphered header that  *)
(* it reads before the layer stands (client-v2.py:86-121).                 *)
THEOREM NoIdleRecv == ClientSpec => []AnswerDue
BY ScriptInvariance, PTL DEF ScriptInv

(* The script and the server can take eighteen steps between them, since   *)
(* each step leaves less to do than there was, on every network: with      *)
(* NoIdleRecv, all of ScriptEnds but that a step that stays possible is    *)
(* taken.                                                                  *)
THEOREM WorkRunsOut == ClientSpec => [](Work \in 0..18) /\ [][Work' < Work]_allVars
<1>1. ClientInit => Work \in 0..18
  <2> SUFFICES ASSUME ClientInit PROVE Work \in 0..18
    OBVIOUS
  <2>1. CallsLeft = 6 /\ Len(toServer) = 0 /\ Len(inbox) = 0
    BY DEF ClientInit, CallsLeft
  <2> QED BY <2>1 DEF Work
<1>2. ScriptInv => Work \in Nat
  <2> SUFFICES ASSUME ScriptInv PROVE Work \in Nat
    OBVIOUS
  <2>1. CallsLeft \in Nat /\ Len(toServer) \in Nat /\ Len(inbox) \in Nat
    BY DEF CallsLeft, ScriptInv, ScriptTypes
  <2> QED BY <2>1 DEF Work
<1>3. LayerShape /\ SharedInv /\ ScriptInv /\ [ClientNext]_allVars => [Work' < Work]_allVars
  BY ScriptStep
<1>4. ScriptInv' => (Work \in Nat)'
  BY <1>2, PTL
<1>5. /\ LayerShape /\ SharedInv /\ ScriptInv /\ ScriptInv'
      /\ Work \in 0..18 /\ [ClientNext]_allVars
      => (Work \in 0..18)'
  <2> SUFFICES ASSUME LayerShape, SharedInv, ScriptInv, ScriptInv',
                      Work \in 0..18, [ClientNext]_allVars
               PROVE  Work' \in 0..18
    OBVIOUS
  <2>1. Work' \in Nat
    BY <1>4
  <2>2. UNCHANGED allVars => Work' = Work
    BY DEF allVars, clientVars, Work, CallsLeft
  <2>3. PICK w \in 0..18, v \in Nat : w = Work /\ v = Work'
    BY <2>1
  <2>4. v < w \/ v = w
    BY <1>3, <2>2, <2>3
  <2> QED BY <2>3, <2>4
<1> QED
  BY <1>1, <1>3, <1>5, ScriptInvariance, PTL DEF ClientSpec


-----------------------------------------------------------------------------
(* What the script comes to when all goes well: a network that keeps       *)
(* answers whole, ciphers that give texts back and a nonce without '=' and *)
(* ','.                                                                    *)

Unnamed == username = None /\ type = "c2s_unauthed" /\ served = 0

(* The handler of a session that waits for the answer to its only challenge.*)
Waiting == [live |-> TRUE, selected |-> scram, challenge |-> 1, user |-> user]

(* Where the script is, what the server has done for it so far and what    *)
(* answer it has sent, until the success is printed.                       *)
OnTrack ==
    /\ pc # "raised"
    /\ pc = "done" => printed = "success"
    /\ pc # "done" => stream # "closed" /\ (toClient = << >> \/ Quiet)
    /\ pc \in {"hello", "offer", "proceed", "features"} => Unnamed
    /\ pc = "hello" => toClient = << >>
    /\ pc = "proceed" /\ bytesIn = 1 => stream = "reset"
    /\ pc = "features" =>
         \/ Pending("header") /\ stream = "reset"
         \/ Quiet /\ stream = "open" /\ Deciphers(Len(toClient))
    /\ pc = "challenge" =>
         /\ stream = "open"
         /\ \/ Pending("auth") /\ Unnamed
            \/ Quiet /\ toClient = << Sent("challenge", 1) >> /\ handler = Waiting
    /\ pc = "verdict" =>
         \/ Pending("response") /\ stream = "open" /\ handler = Waiting
         \/ Quiet /\ toClient = << Sent("success", 1) >>

TrackInv == Smooth /\ nonce = "clean" => OnTrack

(* A recv on a whole network takes all there is.                           *)
LEMMA RecvAll ==
    ASSUME whole, toClient \in Seq(Sends), NEW n, Recv(n)
    PROVE  Quiet /\ n = Len(toClient) /\ toClient' = << >>
<1>1. n \in 1..Len(toClient) /\ n = Len(toClient) /\ Quiet
  BY DEF Recv, Quiet
<1>2. n \in 0..Len(toClient) /\ Len(toClient) \in Nat
  BY <1>1
<1>3. Len(toClient') = Len(toClient) - n /\ toClient' \in Seq(Sends)
  BY <1>2, RestOfSeq DEF Recv
<1>4. Len(toClient') = 0
  BY <1>1, <1>2, <1>3
<1> QED BY <1>1, <1>3, <1>4

LEMMA ClientOnTrack ==
    ASSUME whole, nonce = "clean", toClient \in Seq(Sends), LayerShape, InTurn,
           OnTrack, Client
    PROVE  OnTrack'
<1>1. UNCHANGED << sessionVars, inbox >>
  BY DEF Client
<1>2. /\ bytesIn' = bytesIn /\ stream' = stream /\ username' = username
      /\ type' = type /\ served' = served /\ handler' = handler
  BY <1>1 DEF sessionVars, vars, layerVars
<1>3. Unnamed => Unnamed'
  BY <1>2 DEF Unnamed
<1>4. ASSUME NEW n, Recv(n)
      PROVE  Quiet /\ n = Len(toClient) /\ toClient' = << >> /\ toClient # << >>
  <2>1. Quiet /\ n = Len(toClient) /\ toClient' = << >> /\ n # 0
    BY <1>4, RecvAll DEF Recv
  <2> QED BY <2>1
<1>5. CASE Hello
  BY <1>2, <1>3, <1>5 DEF Hello, OnTrack
<1>6. CASE RequestLayer
  <2>1. Quiet /\ toClient' = << >>
    BY <1>4, <1>6 DEF RequestLayer
  <2>2. bytesIn = 0
    BY <1>6, <2>1 DEF RequestLayer, InTurn, Pending, Quiet, Announced
  <2> QED BY <1>2, <1>3, <1>6, <2>1, <2>2 DEF RequestLayer, OnTrack
<1>7. CASE ReopenStream
  <2>1. Quiet /\ toClient' = << >>
    BY <1>4, <1>7 DEF ReopenStream
  <2>2. bytesIn = 1
    BY <1>7, <2>1 DEF ReopenStream, InTurn, Pending, Quiet
  <2>3. Pending("header")'
    BY <1>1, <1>7, <2>1, <2>2, SendsPending DEF ReopenStream
  <2> QED BY <1>2, <1>3, <1>7, <2>1, <2>2, <2>3 DEF ReopenStream, OnTrack
<1>8. CASE BeginScram
  <2>1. Quiet /\ toClient' = << >>
    BY <1>4, <1>8 DEF BeginScram
  <2>2. bytesIn = 1
    BY <1>8 DEF BeginScram, InTurn
  <2>3. Pending("auth")'
    BY <1>1, <1>8, <2>1, <2>2, SendsPending DEF BeginScram
  <2>4. stream = "open"
    BY <1>8, <2>1 DEF BeginScram, OnTrack, Pending, Quiet
  <2> QED BY <1>2, <1>3, <1>8, <2>1, <2>3, <2>4 DEF BeginScram, OnTrack
<1>9. CASE AnswerChallenge
  <2>1. Quiet /\ toClient' = << >>
    BY <1>4, <1>9 DEF AnswerChallenge
  <2>2. bytesIn = 1
    BY <1>9 DEF AnswerChallenge, InTurn
  <2>3. Pending("response")'
    BY <1>1, <1>9, <2>1, <2>2, SendsPending DEF AnswerChallenge
  <2>4. stream = "open" /\ handler = Waiting
    BY <1>9, <2>1 DEF AnswerChallenge, OnTrack, Pending, Quiet
  <2>5. handler' = Waiting' /\ stream' = "open"
    BY <1>2, <2>4 DEF Waiting
  <2> QED BY <1>9, <2>1, <2>3, <2>5 DEF AnswerChallenge, OnTrack
<1>10. CASE PrintVerdict
  <2>1. PICK n \in 1..Len(toClient) :
             /\ Recv(n)
             /\ printed' = IF n = 1 THEN toClient[1].elem ELSE "garbage"
    BY <1>10 DEF PrintVerdict
  <2>2. Quiet /\ n = Len(toClient)
    BY <1>4, <2>1
  <2>3. toClient = << Sent("success", 1) >>
    BY <1>10, <2>2 DEF PrintVerdict, OnTrack, Pending, Quiet
  <2>4. PICK m : m = Sent("success", 1)
    OBVIOUS
  <2>5. n = 1 /\ toClient[1] = m
    BY <2>2, <2>3, <2>4
  <2>6. m.elem = "success" /\ m.layers = 1
    BY <2>4 DEF Sent
  <2>8. printed' = "success"
    BY <2>1, <2>5, <2>6
  <2> QED BY <1>10, <2>8 DEF PrintVerdict, OnTrack
<1>11. CASE Raise
  <2>1. PICK n \in 1..Len(toClient) :
               /\ Recv(n)
               /\ \/ ~Deciphers(n)
                  \/ pc = "challenge" /\ (~Readable(n, "challenge") \/ nonce # "clean")
                  \/ pc = "verdict" /\ (n > 1 \/ toClient[1].elem = "garbage")
    BY <1>11 DEF Raise
  <2>2. Quiet /\ n = Len(toClient)
    BY <1>4, <2>1
  <2>3. pc \in {"features", "challenge", "verdict"}
    BY <1>11 DEF Raise
  <2>4. ASSUME NEW e, toClient = << Sent(e, 1) >>
        PROVE  /\ n = 1 /\ Deciphers(n) /\ Readable(n, e)
               /\ toClient[1].elem = e
    <3>1. PICK m : m = Sent(e, 1)
      OBVIOUS
    <3>2. toClient = << m >> /\ m.layers = 1 /\ m.elem = e
      BY <2>4, <3>1 DEF Sent
    <3>3. n = 1 /\ toClient[1] = m
      BY <2>2, <3>2
    <3>4. Got(n) = toClient
      BY <2>2, SubSeqFull DEF Got
    <3>5. Readable(n, e)
      BY <3>1, <3>2, <3>3, <3>4 DEF Readable
    <3> QED BY <3>2, <3>3, <3>5 DEF Deciphers
  <2>5. CASE pc = "features"
    <3>1. Deciphers(n)
      BY <2>2, <2>5 DEF OnTrack, Pending, Quiet
    <3> QED BY <2>1, <2>5, <3>1
  <2>6. CASE pc = "challenge"
    <3>1. toClient = << Sent("challenge", 1) >>
      BY <2>2, <2>6 DEF OnTrack, Pending, Quiet
    <3>2. Deciphers(n) /\ Readable(n, "challenge")
      BY <2>4, <3>1
    <3> QED BY <2>1, <2>6, <3>2
  <2>7. CASE pc = "verdict"
    <3>1. toClient = << Sent("success", 1) >>
      BY <2>2, <2>7 DEF OnTrack, Pending, Quiet
    <3>2. Deciphers(n) /\ n = 1 /\ toClient[1].elem = "success"
      BY <2>4, <3>1
    <3> QED BY <2>1, <2>7, <3>2
  <2> QED BY <2>3, <2>5, <2>6, <2>7
<1>12. CASE EndOfFile
  BY <1>12 DEF EndOfFile, OnTrack
<1> QED
  BY <1>5, <1>6, <1>7, <1>8, <1>9, <1>10, <1>11, <1>12 DEF Client


(* The server's answers, with the filters there are by then.               *)
LEMMA OneAnswer ==
    ASSUME arrays = "kept", toClient = << >>, bytesOut = 1, NEW a, ServerSends(<< a >>)
    PROVE  toClient' = << Sent(a, 1) >>
<1>1. Len(<< a >>) = 1 /\ << a >>[1] = a
  OBVIOUS
<1>2. toClient' = toClient \o [i \in 1..1 |-> Sent(<< a >>[i], bytesOut)]
  <2>1. PICK k \in 0..1, lost \in SUBSET (1..1), l \in 0..1 :
          /\ k < 1 \/ lost # {} => arrays = "reused" /\ bytesOut > 0
          /\ toClient' = toClient \o [i \in 1..k |->
                IF i \in lost THEN Sent("garbage", l) ELSE Sent(<< a >>[i], bytesOut)]
    BY <1>1 DEF ServerSends
  <2>2. k = 1 /\ lost = {}
    BY <2>1
  <2>3. [i \in 1..k |-> IF i \in lost THEN Sent("garbage", l) ELSE Sent(<< a >>[i], bytesOut)]
        = [i \in 1..1 |-> Sent(<< a >>[i], bytesOut)]
    BY <2>2
  <2> QED BY <2>1, <2>3
<1> DEFINE Piece(i) == Sent(<< a >>[i], 1)
<1>3. toClient' = << >> \o [i \in 1..1 |-> Piece(i)]
  BY <1>2
<1>4. Piece(1) = Sent(a, 1)
  BY <1>1
<1> HIDE DEF Piece
<1>5. [i \in 1..1 |-> Piece(i)] = << Piece(1) >>
  OBVIOUS
<1>6. << >> \o << Piece(1) >> = << Piece(1) >>
  OBVIOUS
<1> QED BY <1>3, <1>4, <1>5, <1>6

LEMMA FeaturesAnswer ==
    ASSUME arrays = "kept", toClient = << >>, bytesOut = 1,
           ServerSends(<< "stream", "features" >>)
    PROVE  Deciphers(Len(toClient))'
<1> DEFINE elems == << "stream", "features" >>
<1>1. elems \in Seq(Said) /\ ServerSends(elems)
  BY DEF Said
<1> HIDE DEF elems
<1>2. PICK k \in 0..Len(elems), lost \in SUBSET (1..Len(elems)), l \in 0..1 :
        /\ k < Len(elems) \/ lost # {} => arrays = "reused" /\ bytesOut > 0
        /\ toClient' = toClient \o [i \in 1..k |->
               IF i \in lost THEN Sent("garbage", l) ELSE Sent(elems[i], bytesOut)]
  BY <1>1 DEF ServerSends
<1>3. lost = {} /\ k \in Nat /\ k <= Len(elems)
  BY <1>1, <1>2
<1> DEFINE Piece(i) == IF i \in lost THEN Sent("garbage", l) ELSE Sent(elems[i], bytesOut)
           sends == [i \in 1..k |-> Piece(i)]
<1>4. ASSUME NEW i \in 1..k
      PROVE  Piece(i) \in Sends /\ Piece(i).layers = 1
  <2>1. i \in 1..Len(elems) /\ elems[i] \in Said
    BY <1>1, <1>3, <1>4, ElementOfSeq
  <2>2. Piece(i) = Sent(elems[i], 1)
    BY <1>3
  <2> HIDE DEF Piece
  <2> QED BY <2>1, <2>2 DEF Sent, Sends
<1>5. toClient' = << >> \o sends
  BY <1>2
<1> HIDE DEF Piece
<1>6. sends \in Seq(Sends) /\ Len(sends) = k /\ \A i \in 1..k : sends[i] = Piece(i)
  BY ONLY <1>3, <1>4
<1> HIDE DEF sends
<1>7. toClient' = sends
  BY <1>5, <1>6
<1>8. \A i \in 1..k : sends[i].layers = 1
  BY <1>4, <1>6
<1> QED BY <1>6, <1>7, <1>8 DEF Deciphers

LEMMA ServerOnTrack ==
    ASSUME arrays = "kept", LayerShape, ScriptInv, InTurn, OnTrack, Server,
           scram \in Supported \ Disabled, scram \notin OneStep, user \notin BadNames
    PROVE  OnTrack'
<1>1. pc' = pc /\ printed' = printed
  BY DEF Server, ServerReads, ServerHandles
<1>2. ~Quiet
  <2>1. ServerReads => Len(toServer) # 0
    BY DEF ServerReads
  <2>2. ServerHandles => inbox # << >>
    BY DEF ServerHandles
  <2> QED BY <2>1, <2>2 DEF Quiet, Server
<1>3. pc # "done" => toClient = << >>
  BY <1>2 DEF OnTrack
<1>4. CASE ServerReads
  <2>1. UNCHANGED << sessionVars, toClient >>
    BY <1>4 DEF ServerReads
  <2>2. /\ bytesIn' = bytesIn /\ stream' = stream /\ username' = username
        /\ type' = type /\ served' = served /\ handler' = handler
    BY <2>1 DEF sessionVars, vars, layerVars
  <2>3. \A e : Pending(e) => Pending(e)'
    BY <1>4, ReadsPending
  <2>4. (Unnamed => Unnamed') /\ (handler = Waiting => handler' = Waiting')
    BY <2>2 DEF Unnamed, Waiting
  <2> QED BY <1>1, <1>2, <1>3, <2>1, <2>2, <2>3, <2>4 DEF OnTrack
<1>5. CASE ServerHandles /\ pc = "hello"
  BY <1>2, <1>5 DEF InTurn
<1>6. CASE ServerHandles /\ pc = "offer"
  <2>1. Fresh /\ Pending("header")
    BY <1>2, <1>6 DEF InTurn
  <2>2. Quiet' /\ Answer("header")
    BY <1>6, <2>1, HandlesPending DEF Fresh
  <2>3. /\ stream' = "open" /\ username' = username /\ type' = type
        /\ served' = served
    BY <2>2 DEF Answer, Features, stream_features, OffersNothing, OffersMechanisms,
                OffersBind, OpenStream
  <2>4. Unnamed'
    BY <1>6, <2>3 DEF OnTrack, Unnamed
  <2> QED BY <1>1, <1>6, <2>2, <2>3, <2>4 DEF OnTrack
<1>7. CASE ServerHandles /\ pc = "proceed"
  <2>1. Announced /\ Pending("startpls")
    BY <1>2, <1>7 DEF InTurn
  <2>2. Quiet' /\ Answer("startpls")
    BY <1>7, <2>1, HandlesPending DEF Announced
  <2>3. start_layer(pls)
    BY <2>2 DEF Answer
  <2>4. Proceed(pls)
    BY <2>1, <2>3 DEF start_layer, Refuse, can_do, Announced
  <2>5. stream' = "reset" /\ username' = username /\ type' = type /\ served' = served
    BY <2>4 DEF Proceed, security_layer
  <2>6. Unnamed'
    BY <1>7, <2>5 DEF OnTrack, Unnamed
  <2> QED BY <1>1, <1>7, <2>2, <2>5, <2>6 DEF OnTrack
<1>8. CASE ServerHandles /\ pc = "features"
  <2>1. Pending("header") /\ stream = "reset" /\ Unnamed
    BY <1>2, <1>8 DEF OnTrack
  <2>2. Quiet' /\ Answer("header")
    BY <1>8, <2>1, HandlesPending
  <2>3. /\ stream' = "open" /\ username' = username /\ type' = type
        /\ served' = served
    BY <2>2 DEF Answer, Features, stream_features, OffersNothing, OffersMechanisms,
                OffersBind, OpenStream
  <2>4. Unnamed'
    BY <2>1, <2>3 DEF Unnamed
  <2>5. bytesOut = 1
    BY <1>8 DEF InTurn, LayerShape
  <2>6. Deciphers(Len(toClient))'
    BY <1>3, <1>8, <2>2, <2>5, FeaturesAnswer DEF Answer
  <2> QED BY <1>1, <1>8, <2>2, <2>3, <2>4, <2>6 DEF OnTrack
<1>9. CASE ServerHandles /\ pc = "challenge"
  <2>1. Pending("auth") /\ stream = "open" /\ Unnamed
    BY <1>2, <1>9 DEF OnTrack
  <2>2. Quiet' /\ Answer("auth")
    BY <1>9, <2>1, HandlesPending
  <2>3. PICK t : t = [form |-> "first", user |-> user]
    OBVIOUS
  <2>4. auth(scram, t) /\ ServerSends(<< heard'.status >>)
    BY <2>2, <2>3 DEF Answer
  <2>5. bytesIn = 1 /\ bytesOut = 1
    BY <1>9 DEF InTurn, LayerShape
  <2>6. ~EncryptionRequired(scram)
    BY <2>1, <2>5 DEF EncryptionRequired, Secured, LayerShape
  <2>7. sasl_process_cdata(Select(scram), t)
    BY <2>4, <2>6 DEF auth
  <2>8. Outcome(Select(scram), t) = "challenge"
    <3>1. Select(scram).selected = scram /\ Select(scram).challenge = 0
      BY DEF Select
    <3>2. t.form = "first"
      BY <2>3
    <3> QED BY <3>1, <3>2 DEF Outcome
  <2>9. /\ handler' = [Select(scram) EXCEPT !.challenge = served + 1, !.user = t.user]
        /\ Reply(build_reply("challenge", served + 1))
        /\ KeepSession
    BY <2>3, <2>7, <2>8 DEF sasl_process_cdata, handle_status
  <2>10. handler' = Waiting'
    <3>1. t.user = user /\ served + 1 = 1
      BY <2>1, <2>3 DEF Unnamed
    <3> QED BY <2>9, <3>1 DEF Select, Waiting
  <2>11. heard'.status = "challenge" /\ stream' = "open"
    BY <2>1, <2>9 DEF Reply, build_reply, KeepSession
  <2>12. toClient' = << Sent("challenge", 1) >>
    BY <1>3, <1>9, <2>4, <2>5, <2>11, OneAnswer
  <2>13. Quiet' /\ stream' = "open" /\ toClient' = << Sent("challenge", 1)' >>
    BY <2>2, <2>11, <2>12 DEF Sent
  <2> QED BY <1>1, <1>9, <2>10, <2>13 DEF OnTrack
<1>10. CASE ServerHandles /\ pc = "verdict"
  <2>1. Pending("response") /\ stream = "open" /\ handler = Waiting
    BY <1>2, <1>10 DEF OnTrack
  <2>2. Quiet' /\ Answer("response")
    BY <1>10, <2>1, HandlesPending
  <2>3. PICK t : t = [form |-> "proof", user |-> user, challenge |-> 1]
    OBVIOUS
  <2>4. response(t) /\ ServerSends(<< heard'.status >>)
    BY <2>2, <2>3 DEF Answer
  <2>5. PICK h : h = handler
    OBVIOUS
  <2>6. h.selected = scram /\ h.challenge = 1 /\ h.user = user
    BY <2>1, <2>5 DEF Waiting
  <2>7. scram # None
    BY MechanismsAssumption, ClientAssumption
  <2>8. sasl_process_cdata(h, t)
    BY <2>4, <2>5, <2>6, <2>7 DEF response
  <2>9. Outcome(h, t) = "success" /\ t.user = user /\ t.form = "proof"
    BY <2>3, <2>6 DEF Outcome
  <2>10. Accept(user)
    BY <2>8, <2>9 DEF sasl_process_cdata, handle_status
  <2>11. heard'.status = "success" /\ stream' = "reset"
    BY <2>10 DEF Accept, Reply, build_reply
  <2>12. bytesOut = 1
    BY <1>10 DEF InTurn, LayerShape
  <2>13. toClient' = << Sent("success", 1) >>
    BY <1>3, <1>10, <2>4, <2>11, <2>12, OneAnswer
  <2>14. toClient' = << Sent("success", 1)' >>
    BY <2>13 DEF Sent
  <2> QED BY <1>1, <1>10, <2>2, <2>11, <2>14 DEF OnTrack
<1>11. CASE ServerHandles /\ pc = "done"
  BY <1>1, <1>11 DEF OnTrack
<1>12. pc # "raised" /\ pc \in Places
  BY DEF OnTrack, ScriptInv, ScriptTypes
<1> QED
  BY <1>4, <1>5, <1>6, <1>7, <1>8, <1>9, <1>10, <1>11, <1>12 DEF Server, Places

LEMMA TrackInvariance ==
    ASSUME scram \in Supported \ Disabled, scram \notin OneStep, user \notin BadNames
    PROVE  ClientSpec => []TrackInv
<1> DEFINE Inv == LayerShape /\ SharedInv /\ ScriptInv /\ TurnInv
<1>1. ClientInit => TrackInv
  BY DEF ClientInit, SessionInit, Init, TrackInv, OnTrack, Unnamed
<1>2. Inv /\ TrackInv /\ [ClientNext]_allVars => TrackInv'
  <2> SUFFICES ASSUME Inv, TrackInv, [ClientNext]_allVars, Smooth', nonce' = "clean"
               PROVE  OnTrack'
    BY DEF TrackInv
  <2>1. whole /\ arrays = "kept" /\ nonce = "clean"
    BY DEF ClientNext, Client, Server, ServerReads, ServerHandles, Finished,
           allVars, clientVars, Smooth
  <2>2. OnTrack /\ InTurn /\ toClient \in Seq(Sends)
    BY <2>1 DEF TrackInv, TurnInv, SharedInv, Smooth
  <2>3. CASE UNCHANGED allVars
    BY <2>2, <2>3
       DEF allVars, clientVars, sessionVars, vars, layerVars, OnTrack, Unnamed,
           Waiting, Pending, Quiet, Deciphers, Sent
  <2> QED
    BY <2>1, <2>2, <2>3, ClientOnTrack, ServerOnTrack DEF ClientNext, Finished
<1> HIDE DEF Inv
<1>3. ClientSpec => []Inv
  BY ScriptInvariance, TurnInvariance, PTL DEF Inv
<1> QED BY <1>1, <1>2, <1>3, PTL DEF ClientSpec

(* Then, and where the server's policy and accounts allow the login, the   *)
(* script ends with a success printed or not at all; with NoIdleRecv and   *)
(* WorkRunsOut that is PrintsSuccess but for fairness (client-v2.py:86-121)*)
THEOREM EndsWithSuccess ==
    ASSUME scram \in Supported \ Disabled, scram \notin OneStep, user \notin BadNames
    PROVE  ClientSpec =>
             [](Smooth /\ nonce = "clean" /\ pc \in {"done", "raised"} =>
                    printed = "success")
<1>1. TrackInv => (Smooth /\ nonce = "clean" /\ pc \in {"done", "raised"} =>
                       printed = "success")
  BY DEF TrackInv, OnTrack
<1> QED BY <1>1, TrackInvariance, PTL


(* Who may the server think the script is?  All that C2sSession promises   *)
(* of a session, and SaslAuth through it, holds while the script runs: it  *)
(* is named by proof only, keeps its name, and is not named over clear     *)
(* bytes where the policy forbids it.                                      *)
THEOREM ScriptLogin ==
    ClientSpec => AuthenticatedByProof /\ IdentityFixed /\ LoginUnderCipher
<1>1. ClientSpec => SessionSpec /\ Spec
  BY ServerIsSession, Implementation, PTL DEF ImplementsSaslAuth
<1> QED BY <1>1, ProofOfIdentity, FixedIdentity, NoClearLogin, PTL
=============================================================================
