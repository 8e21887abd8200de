-------------------------- MODULE XmppClientProofs --------------------------
(* Proofs about PresentStream and XmppClient: the filter stands only on    *)
(* bound sessions, and client and server stay in step on every network,    *)
(* for any accounts, mechanisms and policy.                                *)
EXTENDS XmppClient, SaslAuthProofs, SequenceTheorems

-----------------------------------------------------------------------------
(* PresentStream                                                           *)

(* mod_present adds only steps that leave SaslAuth's session alone, or     *)
(* close it.                                                               *)
LEMMA StreamStep == [StreamNext]_streamVars => [Next]_vars
<1> SUFFICES ASSUME [StreamNext]_streamVars PROVE [Next]_vars
  OBVIOUS
<1>1. CASE StreamSasl
  BY <1>1 DEF StreamSasl, Next
<1>2. ASSUME NEW method \in Methods, startpresent(method) PROVE [Next]_vars
  BY <1>2 DEF startpresent, Encrypt, Ignore, Unhandled, streamVars, Next
<1>3. CASE UNCHANGED streamVars
  BY <1>3 DEF streamVars
<1> QED BY <1>1, <1>2, <1>3 DEF StreamNext

(* A server that runs mod_present is still the one SaslAuth describes, so  *)
(* its theorems hold of it (mod_present.lua:97-128).                       *)
THEOREM PresentImplementsSasl == StreamSpec => StreamIsSasl
<1>1. StreamInit => Init
  BY DEF StreamInit
<1> QED BY <1>1, StreamStep, PTL DEF StreamSpec, StreamIsSasl, Spec

BoundType == type = "c2s" => bound

PInv == IInv /\ BoundType /\ PresentTypeOK /\ FilteredIsBound

(* An exchange ends the moment it names the session.                       *)
LEMMA ExchangeUnnamed ==
    ASSUME IInv, NEW t, response(t) \/ \E m : auth(m, t), ~KeepSession
    PROVE  username = None
<1>1. CASE response(t)
  <2>1. handler.selected # None
    BY <1>1 DEF response, Fail
  <2> QED BY <2>1, HandlerValues DEF IInv, AuthedShape
<1>2. CASE \E m : auth(m, t)
  BY <1>2 DEF auth, IInv, AuthedShape
<1> QED BY <1>1, <1>2

(* A session that is bound keeps its type, its resource and its stream.    *)
LEMMA BoundStays ==
    ASSUME IInv, BoundType, type = "c2s", [StreamNext]_streamVars
    PROVE  /\ type' = "c2s" /\ bound' /\ username' # None
           /\ stream' = stream \/ stream' # "reset"
<1>1. bound /\ username # None
  BY DEF BoundType, IInv, AuthedShape
<1>2. ASSUME NEW t, response(t) \/ \E m : auth(m, t) PROVE KeepSession
  BY <1>1, <1>2, ExchangeUnnamed
<1>3. CASE stream_features
  BY <1>1, <1>3
     DEF stream_features, OffersNothing, OffersMechanisms, OffersBind, OpenStream
<1>4. CASE KeepSession
  BY <1>1, <1>4 DEF KeepSession
<1>5. CASE abort \/ bind \/ close
  BY <1>1, <1>5 DEF abort, Fail, KeepSession, bind, close
<1>6. CASE \E method \in Methods : startpresent(method)
  BY <1>1, <1>6 DEF startpresent, Encrypt, Ignore, Unhandled, close, vars, streamVars
<1>7. CASE UNCHANGED streamVars
  BY <1>1, <1>7 DEF streamVars, vars
<1> QED BY <1>2, <1>3, <1>4, <1>5, <1>6, <1>7 DEF StreamNext, StreamSasl

(* Only bind gives a session the type "c2s".                               *)
LEMMA BoundTypeKept ==
    ASSUME IInv, BoundType, [StreamNext]_streamVars
    PROVE  BoundType'
<1>1. CASE type = "c2s"
  BY <1>1, BoundStays DEF BoundType
<1>2. CASE type # "c2s" /\ type' = "c2s"
  <2>1. bind
    BY <1>2
       DEF StreamNext, StreamSasl, startpresent, Encrypt, Ignore, Unhandled,
           stream_features, OffersNothing, OffersMechanisms, OffersBind,
           OpenStream, auth, response, sasl_process_cdata, handle_status, Accept,
           Fail, KeepSession, abort, close, vars, streamVars
  <2> QED BY <1>2, <2>1 DEF bind, BoundType
<1> QED BY <1>1, <1>2 DEF BoundType

(* A bound session has no exchange to win, so only bind, which does not    *)
(* undo itself, and close are left to it besides the filter.               *)
LEMMA StreamInvariance == StreamSpec => []PInv
<1>1. StreamInit => PInv
  <2> SUFFICES ASSUME StreamInit PROVE PInv
    OBVIOUS
  <2>1. IInv /\ BoundType
    BY InitIInv DEF StreamInit, Init, BoundType
  <2>2. filters \in 0..MaxFilters /\ ~(filters > 0)
    BY FiltersAssumption DEF StreamInit
  <2>3. encryption \in BOOLEAN
    BY Zenon DEF StreamInit
  <2> QED
    BY <2>1, <2>2, <2>3 DEF PInv, PresentTypeOK, FilteredIsBound
<1>2. PInv /\ [StreamNext]_streamVars => PInv'
  <2> SUFFICES ASSUME PInv, [StreamNext]_streamVars PROVE PInv'
    OBVIOUS
  <2>1. IInv' /\ BoundType'
    BY StreamStep, NextIInv, BoundTypeKept DEF PInv
  <2>2. CASE \E method \in Methods : Encrypt(method)
    <3>1. PresentTypeOK'
      BY <2>2, FiltersAssumption DEF Encrypt, PInv, PresentTypeOK
    <3>2. encryption' /\ type = "c2s" /\ stream = "open" /\ UNCHANGED vars
      BY <2>2 DEF Encrypt
    <3>3. bound /\ username # None
      BY <3>2 DEF PInv, IInv, AuthedShape, BoundType
    <3> QED
      BY <2>1, <3>1, <3>2, <3>3 DEF PInv, FilteredIsBound, vars
  <2>3. CASE UNCHANGED presentVars
    <3>1. filters' = filters /\ encryption' = encryption
      BY <2>3 DEF presentVars
    <3>2. PresentTypeOK'
      BY <3>1, Zenon DEF PInv, PresentTypeOK
    <3>3. ASSUME filters > 0
          PROVE  encryption /\ type' = "c2s" /\ bound' /\ username' # None
                 /\ stream' # "reset"
      BY <3>3, BoundStays DEF PInv, FilteredIsBound
    <3>4. FilteredIsBound'
      BY <3>1, <3>3 DEF FilteredIsBound
    <3> QED BY <2>1, <3>2, <3>4 DEF PInv
  <2> QED
    BY <2>2, <2>3
       DEF StreamNext, StreamSasl, startpresent, Ignore, Unhandled, streamVars
<1> QED BY <1>1, <1>2, PTL DEF StreamSpec

(* The counts of mod_present keep their shape.                             *)
THEOREM PresentTyped == StreamSpec => []PresentTypeOK
BY StreamInvariance, PTL DEF PInv

(* A filter stands only on a bound session, whose stream nothing restarts  *)
(* any more (mod_present.lua:103-121 with mod_saslauth.lua:189-231).       *)
THEOREM FilterIsBound == StreamSpec => []FilteredIsBound
BY StreamInvariance, PTL DEF PInv

-----------------------------------------------------------------------------
(* XmppClient                                                              *)

(* What holds of the session while an element is under way.                *)
Serving(e) ==
    /\ e \in Elements
    /\ stream # "closed"
    /\ filters = Layers(e)
    /\ e \in {"bind", "startpresent", "query"} => username = user
    /\ e \in {"startpresent", "query"} => type = "c2s"
    /\ e = "response" => heard.challenge \in 1..MaxChallenges

(* What holds of it from an answer on until the next element.              *)
Told(a) ==
    /\ a \in Answers
    /\ stream # "closed"
    /\ a \in {"mechanisms", "challenge", "success", "bind", "jid"} => filters = 0
    /\ a = "challenge" => heard.challenge \in 1..MaxChallenges
    /\ a \in {"bind", "jid", "proceed"} => username = user
    /\ a \in {"jid", "proceed"} => type = "c2s"
    /\ a = "proceed" => filters = 1

IsTrigger(a) == \E k \in DOMAIN Triggers : a = Triggers[k]

Starting ==
    /\ pc = "start" /\ asked = "nothing" /\ filters = 0 /\ stream # "closed"
    /\ toServer = << >> /\ inbox = << >> /\ toClient = << >>

Travelling ==
    /\ pc = "recv" /\ Serving(asked)
    /\ toServer = << Sent(asked, Layers(asked)) >> /\ inbox = << >> /\ toClient = << >>

Arrived ==
    /\ pc = "recv" /\ Serving(asked)
    /\ toServer = << >> /\ toClient = << >>
    /\ \E c \in BOOLEAN : /\ inbox = << [elem |-> asked, clear |-> c] >>
                          /\ CipherKept \/ asked # "query" => c

(* Only the last element of an answer makes the client react, so a recv    *)
(* that makes it react takes all there is.                                 *)
Replied ==
    /\ pc \in {"recv", "end"}
    /\ asked \in Elements
    /\ toServer = << >> /\ inbox = << >>
    /\ toClient \in Seq([elem : Answers, layers : {0}])
    /\ \A i \in 1..Len(toClient) : Told(toClient[i].elem)
    /\ \A i \in 1..Len(toClient) : IsTrigger(toClient[i].elem) => i = Len(toClient)

Session ==
    /\ username \in {None, user}
    /\ type = "c2s" => username = user
    /\ AskedInTurn

ClientInv == IInv /\ Session /\ (Starting \/ Travelling \/ Arrived \/ Replied)

(* The six strings and the six elements they lead to.                      *)
LEMMA TriggerValues ==
    /\ DOMAIN Triggers = 1..6
    /\ Elements = {"auth", "response", "header", "bind", "startpresent", "query"}
    /\ {"mechanisms", "challenge", "success", "bind", "jid", "proceed", "stream",
        "features", "failure", "error", "reply"} \subseteq Answers
    /\ \A a : IsTrigger(a) <=> a \in {"mechanisms", "challenge", "success",
                                     "bind", "jid", "proceed"}
BY DEF Triggers, Reactions, Elements, Answers, IsTrigger

(* What a send of the server puts under way.                               *)
LEMMA SendsArrive ==
    ASSUME NEW elems \in Seq(Answers), toClient = << >>, ServerSends(elems)
    PROVE  /\ toClient' \in Seq([elem : Answers, layers : {0}])
           /\ Len(toClient') = Len(elems)
           /\ \A i \in 1..Len(elems) : toClient'[i].elem = elems[i]
<1> DEFINE sends == [i \in 1..Len(elems) |-> Sent(elems[i], 0)]
<1>1. sends \in Seq([elem : Answers, layers : {0}]) /\ Len(sends) = Len(elems)
  BY DEF Sent
<1>2. toClient' = << >> \o sends
  BY DEF ServerSends
<1>3. toClient' = sends
  BY <1>1, <1>2
<1> QED BY <1>1, <1>3 DEF Sent

(* The server's answer to the one element it was sent.                     *)
LEMMA AnswerReplies ==
    ASSUME Arrived, inbox' = << >>, UNCHANGED << pc, asked, toServer >>,
           NEW elems \in Seq(Answers), ServerSends(elems),
           \A i \in 1..Len(elems) : Told(elems[i])',
           \A i \in 1..Len(elems) : IsTrigger(elems[i]) => i = Len(elems)
    PROVE  Replied'
<1>1. toClient = << >> /\ asked \in Elements /\ toServer' = << >> /\ pc' = "recv"
  BY DEF Arrived, Serving
<1>2. /\ toClient' \in Seq([elem : Answers, layers : {0}])
      /\ Len(toClient') = Len(elems)
      /\ \A i \in 1..Len(elems) : toClient'[i].elem = elems[i]
  BY <1>1, SendsArrive
<1> QED BY <1>1, <1>2 DEF Replied
LEMMA OneReply ==
    ASSUME Arrived, inbox' = << >>, UNCHANGED << pc, asked, toServer >>,
           NEW a \in Answers, ServerSends(<< a >>), Told(a)'
    PROVE  Replied'
<1>1. << a >> \in Seq(Answers) /\ Len(<< a >>) = 1
  OBVIOUS
<1>2. ASSUME NEW i \in 1..1 PROVE Told(<< a >>[i])'
  <2>1. i = 1 /\ << a >>[1] = a
    OBVIOUS
  <2>2. << a >>[i] = a
    BY <2>1
  <2> QED BY <2>2
<1>3. \A i \in 1..Len(<< a >>) : Told(<< a >>[i])'
  BY <1>1, <1>2
<1>4. \A i \in 1..Len(<< a >>) : IsTrigger(<< a >>[i]) => i = Len(<< a >>)
  BY <1>1
<1> QED BY <1>1, <1>3, <1>4, AnswerReplies

(* The client connects and sends its header.                               *)
LEMMA ConnectTravels ==
    ASSUME Starting, Connect, UNCHANGED << streamVars, inbox >>
    PROVE  Travelling'
<1>1. /\ asked' = "header" /\ pc' = "recv" /\ Layers("header") = 0
      /\ filters' = 0 /\ inbox' = << >> /\ toClient' = << >> /\ stream' # "closed"
  BY DEF Starting, Connect, TCP_SendTo, Layers, streamVars, vars, presentVars
<1>2. toServer' = << Sent("header", Layers("header")) >>
  BY DEF Starting, Connect, TCP_SendTo, IsEmpty
<1>3. Serving("header")'
  BY <1>1, TriggerValues DEF Serving
<1> QED BY <1>1, <1>2, <1>3 DEF Travelling

(* A string found is the last thing the server said, so nothing is left;   *)
(* of a query that is empty nothing is sent.                               *)
LEMMA ReactTravels ==
    ASSUME Replied, React, UNCHANGED << streamVars, luck, inbox >>
    PROVE  /\ Serving(asked)' /\ pc' = "recv"
           /\ Travelling' \/ (Replied' /\ Spoilt' /\ toClient' = << >>)
<1>1. PICK n \in 0..Len(toClient), k \in DOMAIN Triggers :
           Recv(n) /\ Finds(n, k) /\ TCP_SendTo(Reactions[k])
  BY DEF React
<1>2. PICK i \in 1..n : toClient[i].elem = Triggers[k]
  BY <1>1 DEF Finds, Holds
<1>3. Len(toClient) \in Nat /\ i \in 1..Len(toClient) /\ i = Len(toClient)
  BY <1>2 DEF Replied, IsTrigger
<1>4. n = Len(toClient)
  BY <1>2, <1>3
<1>5. toClient' = << >>
  BY <1>1, <1>4 DEF Recv, Replied
<1>6. Told(Triggers[k])
  BY <1>2, <1>3 DEF Replied
<1>7. Serving(Reactions[k])
  BY <1>6, TriggerValues DEF Told, Serving, Triggers, Reactions, Layers
<1>8. pc' = "recv" /\ asked' = Reactions[k] /\ inbox' = << >> /\ toServer = << >>
  BY <1>1 DEF TCP_SendTo, Recv, React, Replied
<1>9. Serving(Reactions[k])'
  BY <1>7 DEF Serving, streamVars, vars, presentVars
<1>10. Serving(asked)'
  BY <1>8, <1>9 DEF Serving
<1>11. CASE ~IsEmpty(Reactions[k])
  <2>1. toServer' = << Sent(Reactions[k], Layers(Reactions[k])) >>
    BY <1>1, <1>8, <1>11 DEF TCP_SendTo
  <2> QED BY <1>5, <1>8, <1>10, <2>1 DEF Travelling
<1>12. CASE IsEmpty(Reactions[k])
  <2>1. toServer' = << >> /\ asked' = "query" /\ memory' = "empty"
    BY <1>1, <1>8, <1>12 DEF TCP_SendTo, IsEmpty, luck
  <2>2. Spoilt'
    BY <1>10, <2>1 DEF Serving, Spoilt, CipherKept
  <2>3. toClient' \in Seq([elem : Answers, layers : {0}]) /\ Len(toClient') = 0
    BY <1>5
  <2>4. Replied'
    BY <1>8, <1>10, <2>1, <2>3 DEF Replied, Serving
  <2> QED BY <1>5, <1>8, <1>10, <2>2, <2>4
<1> QED BY <1>11, <1>12

(* What is left of a sequence behind its first n elements.                 *)
LEMMA RestOfSeq ==
    ASSUME NEW S, NEW s \in Seq(S), NEW n \in 0..Len(s)
    PROVE  /\ SubSeq(s, n + 1, Len(s)) \in Seq(S)
           /\ Len(SubSeq(s, n + 1, Len(s))) = Len(s) - n
           /\ \A i \in 1..(Len(s) - n) : SubSeq(s, n + 1, Len(s))[i] = s[i + n]
<1>1. Len(s) \in Nat /\ n \in Nat /\ n <= Len(s)
  OBVIOUS
<1>2. \A i \in (n + 1)..Len(s) : s[i] \in S
  BY <1>1
<1> DEFINE rest == SubSeq(s, n + 1, Len(s))
<1>3. /\ rest \in Seq(S)
      /\ Len(rest) = IF n + 1 <= Len(s) THEN Len(s) - (n + 1) + 1 ELSE 0
      /\ \A i \in 1..(Len(s) - (n + 1) + 1) : rest[i] = s[n + 1 + i - 1]
  BY <1>1, <1>2, SubSeqProperties
<1> HIDE DEF rest
<1>4. Len(rest) = Len(s) - n
  BY <1>1, <1>3
<1>5. ASSUME NEW i \in 1..(Len(s) - n) PROVE rest[i] = s[i + n]
  <2>1. n + 1 + i - 1 = i + n /\ i \in 1..(Len(s) - (n + 1) + 1)
    BY <1>1
  <2> QED BY <1>3, <2>1
<1> QED BY <1>3, <1>4, <1>5 DEF rest

(* An answer the client does not react to may be cut anywhere.             *)
LEMMA EndReplies ==
    ASSUME Replied, TheEnd, UNCHANGED << streamVars, inbox >>
    PROVE  Replied'
<1>1. PICK n \in 0..Len(toClient) : Recv(n)
  BY DEF TheEnd
<1>2. toClient' = SubSeq(toClient, n + 1, Len(toClient))
  BY <1>1 DEF Recv
<1>3. Len(toClient) \in Nat
  BY DEF Replied
<1>4. /\ toClient' \in Seq([elem : Answers, layers : {0}])
      /\ Len(toClient') = Len(toClient) - n
      /\ \A i \in 1..Len(toClient') : toClient'[i] = toClient[i + n]
  <2>1. toClient \in Seq([elem : Answers, layers : {0}])
    BY DEF Replied
  <2> QED BY <1>2, <2>1, RestOfSeq
<1>5. \A i \in 1..Len(toClient') : i + n \in 1..Len(toClient)
  BY <1>3, <1>4
<1>6. \A i \in 1..Len(toClient') : Told(toClient[i + n].elem)
  BY <1>5 DEF Replied
<1>7. \A i \in 1..Len(toClient') : Told(toClient[i].elem)'
  BY <1>4, <1>6 DEF Told, streamVars, vars, presentVars
<1>8. \A i \in 1..Len(toClient') :
          IsTrigger(toClient'[i].elem) => i = Len(toClient')
  BY <1>3, <1>4, <1>5 DEF Replied
<1> QED BY <1>4, <1>7, <1>8 DEF Replied, TheEnd

(* With one element under way the server reads a whole chain.              *)
LEMMA ReadsArrive ==
    ASSUME Travelling, ServerReads
    PROVE  Arrived'
<1>1. PICK n \in 1..Len(toServer) :
         /\ inbox' = inbox \o [i \in 1..n |->
                [elem |-> toServer[i].elem,
                 clear |-> /\ toServer[i].layers = filters
                           /\ filters = 0 \/ (n = 1 /\ CipherKept)]]
         /\ toServer' = SubSeq(toServer, n + 1, Len(toServer))
  BY DEF ServerReads
<1>2. n = 1 /\ toServer' = << >> /\ toServer[1] = Sent(asked, Layers(asked))
  BY <1>1 DEF Travelling
<1>3. toServer[1].elem = asked /\ toServer[1].layers = filters
  BY <1>2 DEF Travelling, Serving, Sent
<1> DEFINE c == filters = 0 \/ CipherKept
<1>4. inbox' = << [elem |-> asked, clear |-> c] >>
  <2> DEFINE Piece(i) == [elem |-> toServer[i].elem,
                          clear |-> /\ toServer[i].layers = filters
                                    /\ filters = 0 \/ (1 = 1 /\ CipherKept)]
  <2>1. inbox' = << >> \o [i \in 1..1 |-> Piece(i)]
    BY <1>1, <1>2 DEF Travelling
  <2>2. Piece(1) = [elem |-> asked, clear |-> c]
    BY <1>3
  <2> HIDE DEF Piece, c
  <2>3. [i \in 1..1 |-> Piece(i)] = << Piece(1) >>
    OBVIOUS
  <2>4. << >> \o << Piece(1) >> = << Piece(1) >>
    OBVIOUS
  <2> QED BY <2>1, <2>2, <2>3, <2>4
<1>5. c \in BOOLEAN /\ (CipherKept' \/ asked' # "query" => c)
  BY DEF ServerReads, CipherKept, luck, Travelling, Serving, Layers
<1>6. Serving(asked)'
  BY DEF ServerReads, Travelling, Serving, streamVars, vars, presentVars
<1>7. pc' = "recv" /\ asked' = asked /\ toClient' = << >>
  BY DEF ServerReads, Travelling
<1> QED BY <1>2, <1>4, <1>5, <1>6, <1>7 DEF Arrived
(* What an exchange on the user's behalf leaves behind.                    *)
LEMMA ExchangeEnds ==
    ASSUME IInv, NEW h, NEW t, sasl_process_cdata(h, t),
           t.form \in {"first", "undecodable", "rejected"} \/ (t.form = "proof" /\ t.user = user)
    PROVE  /\ \/ username' = username /\ type' = type
              \/ username' = user /\ type' = "c2s_unbound"
           /\ heard'.status \in {"failure", "success", "challenge"}
           /\ heard'.status = "challenge" => heard'.challenge \in 1..MaxChallenges
           /\ stream' \in {stream, "reset"}
<1>1. ASSUME NEW g, Fail(g)
      PROVE  /\ username' = username /\ type' = type /\ stream' = stream
             /\ heard'.status = "failure"
  BY <1>1 DEF Fail, KeepSession, Reply, build_reply
<1>2. CASE Outcome(h, t) = "success" /\ Accept(t.user)
  <2>1. t.form = "proof"
    BY <1>2 DEF Outcome
  <2> QED BY <1>2, <2>1 DEF Accept, Reply, build_reply
<1>3. CASE served < MaxChallenges /\ Reply(build_reply("challenge", served + 1)) /\ KeepSession
  <2>1. served + 1 \in 1..MaxChallenges
    BY <1>3, BoundsAssumption DEF IInv, TypeOK
  <2> QED BY <1>3, <2>1 DEF Reply, build_reply, KeepSession
<1> QED BY <1>1, <1>2, <1>3 DEF sasl_process_cdata, handle_status

(* The server's answer to a step of the exchange.                          *)
LEMMA ExchangeReplies ==
    ASSUME IInv, Session, Arrived, NEW t,
           asked \in {"auth", "response"},
           response(t) \/ auth(scram, t), UNCHANGED presentVars,
           t.form \in {"first", "undecodable", "rejected"} \/ (t.form = "proof" /\ t.user = user),
           ServerSends(<< heard'.status >>),
           inbox' = << >>, UNCHANGED << pc, asked, toServer >>
    PROVE  Replied' /\ Session'
<1>1. /\ \/ username' = username /\ type' = type
         \/ username' = user /\ type' = "c2s_unbound"
      /\ heard'.status \in {"failure", "success", "challenge"}
      /\ heard'.status = "challenge" => heard'.challenge \in 1..MaxChallenges
      /\ stream' \in {stream, "reset"}
  <2>1. ASSUME NEW g, Fail(g)
        PROVE  /\ username' = username /\ type' = type /\ stream' = stream
               /\ heard'.status = "failure"
    BY <2>1 DEF Fail, KeepSession, Reply, build_reply
  <2>2. (\E g : Fail(g)) \/ \E h : sasl_process_cdata(h, t)
    BY DEF response, auth
  <2>3. ASSUME NEW h, sasl_process_cdata(h, t)
        PROVE  /\ \/ username' = username /\ type' = type
                  \/ username' = user /\ type' = "c2s_unbound"
               /\ heard'.status \in {"failure", "success", "challenge"}
               /\ heard'.status = "challenge" => heard'.challenge \in 1..MaxChallenges
               /\ stream' \in {stream, "reset"}
    BY <2>3, ExchangeEnds
  <2> QED BY <2>1, <2>2, <2>3
<1>2. PICK a \in {"failure", "success", "challenge"} : a = heard'.status
  BY <1>1
<1>3. filters' = 0 /\ stream # "closed"
  BY DEF Arrived, Serving, Layers, presentVars
<1>4. Told(a)'
  BY <1>1, <1>2, <1>3, TriggerValues DEF Told
<1>5. Replied'
  BY <1>2, <1>4, TriggerValues, OneReply
<1> QED BY <1>1, <1>5 DEF Session, AskedInTurn

(* The server's answers to the other elements.                             *)
LEMMA HeaderReplies ==
    ASSUME IInv, Session, Arrived, asked = "header",
           stream_features, UNCHANGED presentVars,
           ServerSends(<< "stream", FeaturesElem >>),
           inbox' = << >>, UNCHANGED << pc, asked, toServer >>
    PROVE  Replied' /\ Session'
<1>1. username' = username /\ type' = type /\ stream' = "open"
  BY DEF stream_features, OffersNothing, OffersMechanisms, OffersBind, OpenStream
<1>2. PICK a \in {"mechanisms", "bind", "features"} : a = FeaturesElem
  BY DEF FeaturesElem
<1>3. filters' = 0
  BY DEF Arrived, Serving, Layers, presentVars
<1>4. a = "bind" => username' = user
  <2>1. a = "bind" => bindOffer'
    BY <1>2 DEF FeaturesElem
  <2>2. bindOffer' => username # None
    BY DEF stream_features, OffersNothing, OffersMechanisms, OffersBind
  <2> QED BY <1>1, <2>1, <2>2 DEF Session
<1>5. Told(a)' /\ Told("stream")'
  BY <1>1, <1>3, <1>4, TriggerValues DEF Told
<1>6. /\ << "stream", a >> \in Seq(Answers) /\ Len(<< "stream", a >>) = 2
      /\ << "stream", a >>[1] = "stream" /\ << "stream", a >>[2] = a
  BY TriggerValues
<1>7. ~IsTrigger("stream")
  BY TriggerValues
<1>8. ServerSends(<< "stream", a >>)
  BY <1>2
<1>9. /\ \A i \in 1..2 : Told(<< "stream", a >>[i])'
      /\ \A i \in 1..2 : IsTrigger(<< "stream", a >>[i]) => i = 2
  BY <1>5, <1>6, <1>7
<1>10. Replied'
  BY <1>6, <1>8, <1>9, AnswerReplies
<1> QED BY <1>1, <1>10 DEF Session, AskedInTurn

LEMMA BindReplies ==
    ASSUME Session, Arrived, asked = "bind", bind, UNCHANGED presentVars,
           ServerSends(<< IF bound' # bound THEN "jid" ELSE "error" >>),
           inbox' = << >>, UNCHANGED << pc, asked, toServer >>
    PROVE  Replied' /\ Session'
<1>1. username' = username /\ username = user /\ filters' = 0 /\ stream' = "open"
  BY DEF bind, Arrived, Serving, Layers, presentVars
<1>2. bound' # bound => type' = "c2s"
  BY DEF bind
<1>3. PICK a \in {"jid", "error"} : a = IF bound' # bound THEN "jid" ELSE "error"
  OBVIOUS
<1>4. Told(a)'
  BY <1>1, <1>2, <1>3, TriggerValues DEF Told
<1>5. Replied'
  BY <1>3, <1>4, TriggerValues, OneReply
<1> QED BY <1>1, <1>5 DEF Session, AskedInTurn

LEMMA PresentReplies ==
    ASSUME Session, Arrived, asked = "startpresent", startpresent("present"),
           ServerSends(IF filters' # filters THEN << "proceed" >> ELSE << >>),
           inbox' = << >>, UNCHANGED << pc, asked, toServer >>
    PROVE  Replied' /\ Session'
<1>1. type = "c2s" /\ username = user /\ filters = 0
  BY DEF Arrived, Serving, Layers
<1>2. UNCHANGED vars /\ filters' = 1
  BY <1>1 DEF startpresent, Encrypt, Ignore, Unhandled
<1>3. type' = "c2s" /\ username' = user /\ stream' # "closed"
  BY <1>1, <1>2 DEF vars, Arrived, Serving
<1>4. Told("proceed")'
  BY <1>2, <1>3, TriggerValues DEF Told
<1>5. ServerSends(<< "proceed" >>)
  BY <1>1, <1>2
<1>6. Replied'
  BY <1>4, <1>5, TriggerValues, OneReply
<1> QED BY <1>3, <1>6 DEF Session, AskedInTurn

LEMMA QueryReplies ==
    ASSUME Session, Arrived, asked = "query", UNCHANGED streamVars,
           ServerSends(<< "reply" >>),
           inbox' = << >>, UNCHANGED << pc, asked, toServer >>
    PROVE  Replied' /\ Session'
<1>1. Told("reply")'
  BY TriggerValues DEF Told, Arrived, Serving, streamVars, vars
<1>2. Replied'
  BY <1>1, TriggerValues, OneReply
<1> QED BY <1>2 DEF Session, AskedInTurn, streamVars, vars, presentVars
(* What the client has under way when its answer comes.                    *)
LEMMA TextsOfClient ==
    /\ AuthTexts \subseteq Texts
    /\ \A t \in AuthTexts :
           \/ t.form \in {"undecodable", "rejected"}
           \/ t.form = "first" /\ t.user = user
    /\ heard.challenge \in 1..MaxChallenges => ResponseTexts \subseteq Texts
    /\ \A t \in ResponseTexts :
           t.form = "rejected" \/ (t.form = "proof" /\ t.user = user)
BY UserAssumption
   DEF Texts, BadTexts, FirstTexts, ProofTexts, AuthTexts, ResponseTexts, Proof

LEMMA AnswerKeeps ==
    ASSUME IInv, Session, Arrived, Answer(asked), inbox' = << >>,
           UNCHANGED << pc, asked, toServer >>
    PROVE  Replied' /\ Session' /\ [StreamNext]_streamVars
<1>1. CASE /\ asked = "header"
           /\ stream_features
           /\ ServerSends(<< "stream", FeaturesElem >>)
           /\ UNCHANGED presentVars
  BY <1>1, HeaderReplies DEF StreamNext, StreamSasl
<1>2. CASE /\ asked = "auth"
           /\ \E t \in AuthTexts : auth(scram, t)
           /\ ServerSends(<< heard'.status >>)
           /\ UNCHANGED presentVars
  <2>1. PICK t \in AuthTexts : auth(scram, t)
    BY <1>2
  <2>2. t \in Texts /\ t.form \in {"first", "undecodable", "rejected"} /\ auth(scram, t)
    BY <2>1, TextsOfClient
  <2>3. Replied' /\ Session'
    BY <1>2, <2>2, ExchangeReplies
  <2>4. StreamNext
    BY <1>2, <2>2, UserAssumption DEF StreamNext, StreamSasl
  <2> QED BY <2>3, <2>4
<1>3. CASE /\ asked = "response"
           /\ \E t \in ResponseTexts : response(t)
           /\ ServerSends(<< heard'.status >>)
           /\ UNCHANGED presentVars
  <2>1. heard.challenge \in 1..MaxChallenges
    BY <1>3 DEF Arrived, Serving
  <2>2. PICK t \in ResponseTexts : response(t)
    BY <1>3
  <2>3. /\ t \in Texts /\ response(t)
        /\ t.form = "rejected" \/ (t.form = "proof" /\ t.user = user)
    BY <2>1, <2>2, TextsOfClient
  <2>4. Replied' /\ Session'
    BY <1>3, <2>3, ExchangeReplies
  <2>5. StreamNext
    BY <1>3, <2>3 DEF StreamNext, StreamSasl
  <2> QED BY <2>4, <2>5
<1>4. CASE /\ asked = "bind"
           /\ bind
           /\ ServerSends(<< IF bound' # bound THEN "jid" ELSE "error" >>)
           /\ UNCHANGED presentVars
  BY <1>4, BindReplies DEF StreamNext, StreamSasl
<1>5. CASE /\ asked = "startpresent"
           /\ startpresent("present")
           /\ ServerSends(IF filters' # filters THEN << "proceed" >> ELSE << >>)
  BY <1>5, PresentReplies, UserAssumption DEF StreamNext
<1>6. CASE /\ asked = "query"
           /\ ServerSends(<< "reply" >>)
           /\ UNCHANGED streamVars
  BY <1>6, QueryReplies
<1> QED BY <1>1, <1>2, <1>3, <1>4, <1>5, <1>6 DEF Answer

(* A handler takes the one element the server has read.                    *)
LEMMA HandlesKeep ==
    ASSUME IInv, Session, Arrived, ServerHandles
    PROVE  Replied' /\ Session' /\ [StreamNext]_streamVars
<1>1. PICK c \in BOOLEAN : inbox = << [elem |-> asked, clear |-> c] >>
  BY DEF Arrived
<1>2. Head(inbox).elem = asked /\ inbox' = << >>
  BY <1>1 DEF ServerHandles
<1>3. UNCHANGED << pc, asked, toServer >>
  BY DEF ServerHandles
<1>4. CASE Answer(Head(inbox).elem)
  BY <1>2, <1>3, <1>4, AnswerKeeps
<1>5. CASE close /\ UNCHANGED << presentVars, toClient >>
  <2>1. toClient' = << >> /\ toServer' = << >> /\ pc' = "recv" /\ asked' \in Elements
    BY <1>3, <1>5 DEF Arrived, Serving
  <2>2. Replied'
    BY <1>2, <2>1 DEF Replied
  <2>3. Session'
    BY <1>3, <1>5 DEF close, Session, AskedInTurn, presentVars
  <2> QED BY <1>5, <2>2, <2>3 DEF StreamNext, StreamSasl
<1>6. CASE UNCHANGED << streamVars, toClient >>
  <2>1. toClient' = << >> /\ toServer' = << >> /\ pc' = "recv" /\ asked' \in Elements
    BY <1>3, <1>6 DEF Arrived, Serving
  <2>2. Replied'
    BY <1>2, <2>1 DEF Replied
  <2>3. Session'
    BY <1>3, <1>6 DEF Session, AskedInTurn, streamVars, vars, presentVars
  <2> QED BY <1>6, <2>2, <2>3
<1> QED BY <1>4, <1>5, <1>6 DEF ServerHandles

(* Whatever moves, one element is under way or one answer is, and the      *)
(* session takes a step of PresentStream.                                  *)
LEMMA ClientStep ==
    ASSUME ClientInv, [ClientNext]_allVars
    PROVE  ClientInv' /\ [StreamNext]_streamVars
<1>1. [StreamNext]_streamVars => IInv'
  BY StreamStep, NextIInv DEF ClientInv
<1>2. ASSUME Client PROVE ClientInv' /\ [StreamNext]_streamVars
  <2>1. UNCHANGED << streamVars, luck, inbox >>
    BY <1>2 DEF Client
  <2>2. /\ Travelling' \/ Replied'
        /\ Serving(asked)' \/ asked' = asked
    <3>1. CASE Connect
      <4>1. Travelling'
        BY <2>1, <3>1, ConnectTravels
           DEF Connect, ClientInv, Travelling, Arrived, Replied, Starting
      <4> QED BY <4>1 DEF Travelling
    <3>2. CASE React
      <4>1. Len(toClient) # 0 /\ pc = "recv"
        BY <3>2 DEF React, Recv, Finds, Holds
      <4>2. Replied
        BY <4>1 DEF ClientInv, Starting, Travelling, Arrived
      <4> QED BY <2>1, <3>2, <4>2, ReactTravels
    <3>3. CASE TheEnd
      <4>1. Replied => Replied' /\ asked' = asked
        BY <2>1, <3>3, EndReplies DEF TheEnd
      <4>2. PICK n \in 0..Len(toClient) : Recv(n)
        BY <3>3 DEF TheEnd
      <4>3. toClient = << >> => stream = "closed" /\ pc = "recv"
        BY <4>2 DEF Recv
      <4>4. Replied
        BY <4>2, <4>3 DEF Recv, ClientInv, Starting, Travelling, Arrived, Serving
      <4> QED BY <4>1, <4>4
    <3> QED BY <1>2, <3>1, <3>2, <3>3 DEF Client
  <2>3. Session'
    <3>1. username' = username /\ type' = type /\ filters' = filters
      BY <2>1 DEF streamVars, vars, presentVars
    <3>2. AskedInTurn'
      BY <2>2, <3>1
         DEF Serving, Layers, ClientInv, Session, AskedInTurn
    <3> QED BY <3>1, <3>2 DEF ClientInv, Session
  <2> QED BY <1>1, <2>1, <2>2, <2>3 DEF ClientInv
<1>3. ASSUME ServerReads PROVE ClientInv' /\ [StreamNext]_streamVars
  <2>1. Len(toServer) # 0
    BY <1>3 DEF ServerReads
  <2>2. Travelling
    BY <2>1 DEF ClientInv, Starting, Arrived, Replied
  <2>3. UNCHANGED streamVars /\ asked' = asked
    BY <1>3 DEF ServerReads
  <2>4. Session'
    BY <2>3 DEF ClientInv, Session, AskedInTurn, streamVars, vars, presentVars
  <2> QED BY <1>1, <1>3, <2>2, <2>3, <2>4, ReadsArrive DEF ClientInv
<1>4. ASSUME ServerHandles PROVE ClientInv' /\ [StreamNext]_streamVars
  <2>1. Arrived
    BY <1>4 DEF ServerHandles, ClientInv, Starting, Travelling, Replied
  <2> QED BY <1>1, <1>4, <2>1, HandlesKeep DEF ClientInv
<1>5. ASSUME UNCHANGED allVars PROVE ClientInv' /\ [StreamNext]_streamVars
  <2>1. UNCHANGED streamVars /\ UNCHANGED clientVars
    BY <1>5 DEF allVars
  <2>2. Session'
    BY <2>1
       DEF ClientInv, Session, AskedInTurn, streamVars, vars, presentVars, clientVars
  <2>3. Starting' \/ Travelling' \/ Arrived' \/ Replied'
    BY <2>1
       DEF ClientInv, Starting, Travelling, Arrived, Replied, Serving, Told,
           CipherKept, streamVars, vars, presentVars, clientVars, luck
  <2> QED BY <1>1, <2>1, <2>2, <2>3 DEF ClientInv
<1> QED BY <1>2, <1>3, <1>4, <1>5 DEF ClientNext, Server, Finished

LEMMA ClientStart == ClientInit => ClientInv
<1> SUFFICES ASSUME ClientInit PROVE ClientInv
  OBVIOUS
<1>1. IInv
  BY InitIInv DEF ClientInit, StreamInit
<1>2. Starting
  BY DEF ClientInit, StreamInit, Init, Starting
<1>3. Session
  BY DEF ClientInit, StreamInit, Init, Session, AskedInTurn
<1> QED BY <1>1, <1>2, <1>3 DEF ClientInv

LEMMA ClientInvariance == ClientSpec => []ClientInv
BY ClientStart, ClientStep, PTL DEF ClientSpec

(* The server that serves this client is the one PresentStream describes,  *)
(* and through PresentImplementsSasl the one SaslAuth does.                *)
THEOREM ServerImplementsStream == ClientSpec => ServerIsStream
<1>1. ClientInit => StreamInit
  BY DEF ClientInit
<1>2. ClientInv /\ [ClientNext]_allVars => [StreamNext]_streamVars
  BY ClientStep
<1> QED
  BY <1>1, <1>2, ClientInvariance, PTL DEF ClientSpec, ServerIsStream, StreamSpec

(* How much is under way at each turn.                                     *)
LEMMA TurnLengths ==
    /\ Starting \/ Replied => Len(toServer) = 0 /\ Len(inbox) = 0
    /\ Travelling => Len(toServer) = 1 /\ Len(inbox) = 0
    /\ Arrived => Len(toServer) = 0 /\ Len(inbox) = 1
<1>1. Arrived => Len(toServer) = 0 /\ Len(inbox) = 1
  <2> SUFFICES ASSUME Arrived PROVE Len(toServer) = 0 /\ Len(inbox) = 1
    OBVIOUS
  <2>1. PICK c : inbox = << [elem |-> asked, clear |-> c] >>
    BY DEF Arrived
  <2> QED BY <2>1 DEF Arrived
<1>2. Travelling => Len(toServer) = 1 /\ Len(inbox) = 0
  BY DEF Travelling
<1>3. Starting \/ Replied => Len(toServer) = 0 /\ Len(inbox) = 0
  BY DEF Starting, Replied
<1> QED BY <1>1, <1>2, <1>3

(* Client and server take turns on every network, for whatever part of an  *)
(* answer a recv returns (xmppclient.c:120-159, 212-227).                  *)
THEOREM TakesTurns == ClientSpec => []OneAtATime
<1>1. ClientInv => OneAtATime
  <2> SUFFICES ASSUME ClientInv PROVE Len(toServer) + Len(inbox) <= 1
    BY DEF OneAtATime
  <2>1. Starting \/ Travelling \/ Arrived \/ Replied
    BY DEF ClientInv
  <2>2. \/ Len(toServer) = 0 /\ Len(inbox) = 0
        \/ Len(toServer) = 1 /\ Len(inbox) = 0
        \/ Len(toServer) = 0 /\ Len(inbox) = 1
    BY <2>1, TurnLengths, Zenon
  <2> DEFINE sent == Len(toServer)
             read == Len(inbox)
  <2>3. (sent = 0 /\ read = 0) \/ (sent = 1 /\ read = 0) \/ (sent = 0 /\ read = 1)
    BY <2>2, Zenon
  <2> HIDE DEF sent, read
  <2>4. sent + read <= 1
    BY <2>3
  <2> QED BY <2>4, Zenon DEF sent, read
<1> QED BY <1>1, ClientInvariance, PTL

(* Nothing the client sends is deciphered once too often or too seldom.    *)
THEOREM StaysInStep == ClientSpec => []FilterInStep
<1>1. ClientInv => FilterInStep
  BY DEF ClientInv, FilterInStep, Starting, Travelling, Arrived, Replied
<1> QED BY <1>1, ClientInvariance, PTL

(* Every element is sent to a session that is ready for it.                *)
THEOREM AsksInTurn == ClientSpec => []AskedInTurn
<1>1. ClientInv => AskedInTurn
  BY DEF ClientInv, Session
<1> QED BY <1>1, ClientInvariance, PTL


-----------------------------------------------------------------------------
(* The client's end.  That it comes, ClientEnds, needs fairness and is for *)
(* TLC; what it rests on is proved: a recv waits for nothing only behind an*)
(* element that memory spoilt, and no step leaves as much to do as there   *)
(* was.                                                                    *)

(* While the client is in recv, its element or an answer is under way, or  *)
(* the connection is closed, or what it sent last was spoilt.              *)
AnswerDue ==
    pc = "recv" =>
        \/ toServer # << >> \/ inbox # << >> \/ toClient # << >>
        \/ stream = "closed" \/ Spoilt

(* Which element a string on its way is the answer to.  The header is sent *)
(* twice, and a session without a name is not told to bind, nor one with a *)
(* name to log in: so the client goes round once.                          *)
AnswersAsked(a) ==
    /\ a = "mechanisms" => asked = "header" /\ username = None
    /\ a = "challenge"  => asked = "auth"
    /\ a = "success"    => asked \in {"auth", "response"} /\ username # None
    /\ a = "bind"       => asked = "header" /\ username # None
    /\ a = "jid"        => asked = "bind"
    /\ a = "proceed"    => asked = "startpresent"

Owed == \A i \in 1..Len(toClient) : AnswersAsked(toClient[i].elem)

(* The sends the client can still make, its exit counted as one, and the   *)
(* steps that are left in all: each send is read and parsed.               *)
AsksLeft ==
    IF pc = "end" THEN 0
    ELSE IF pc = "start" THEN 8
    ELSE CASE asked = "header" /\ username = None -> 7
           [] asked = "auth"                      -> 6
           [] asked = "response"                  -> 5
           [] asked = "header" /\ username # None -> 4
           [] asked = "bind"                      -> 3
           [] asked = "startpresent"              -> 2
           [] OTHER                               -> 1
Work == 3 * AsksLeft + 2 * Len(toServer) + Len(inbox)

(* An element on its way, or in the parser, is waited for.                 *)
LEMMA TurnsDue == Starting \/ Travelling \/ Arrived => AnswerDue /\ Owed
<1>1. Arrived => inbox # << >>
  BY DEF Arrived
<1>2. Travelling => toServer # << >>
  BY DEF Travelling
<1>3. Starting => pc # "recv"
  BY DEF Starting
<1>4. Starting \/ Travelling \/ Arrived => Len(toClient) = 0
  BY DEF Starting, Travelling, Arrived
<1> QED BY <1>1, <1>2, <1>3, <1>4 DEF AnswerDue, Owed

(* What the server says is the answer to what it was asked.                *)
LEMMA SaysOwed ==
    ASSUME Arrived, NEW elems \in Seq(Answers), elems # << >>, ServerSends(elems),
           \A i \in 1..Len(elems) : AnswersAsked(elems[i])'
    PROVE  AnswerDue' /\ Owed'
<1>1. toClient = << >>
  BY DEF Arrived
<1>2. /\ toClient' \in Seq([elem : Answers, layers : {0}])
      /\ Len(toClient') = Len(elems)
      /\ \A i \in 1..Len(elems) : toClient'[i].elem = elems[i]
  BY <1>1, SendsArrive
<1>3. Len(elems) # 0 /\ Len(<< >>) = 0
  OBVIOUS
<1>4. toClient' # << >>
  BY <1>2, <1>3
<1> QED BY <1>2, <1>4 DEF AnswerDue, Owed, AnswersAsked

LEMMA SaysOneOwed ==
    ASSUME Arrived, NEW a \in Answers, ServerSends(<< a >>), AnswersAsked(a)'
    PROVE  AnswerDue' /\ Owed'
<1>1. << a >> \in Seq(Answers) /\ Len(<< a >>) = 1 /\ << a >> # << >> /\ << a >>[1] = a
  OBVIOUS
<1>2. \A i \in 1..Len(<< a >>) : << a >>[i] = a
  BY <1>1
<1>3. \A i \in 1..Len(<< a >>) : AnswersAsked(<< a >>[i])'
  BY <1>2 DEF AnswersAsked
<1> QED BY <1>1, <1>3, SaysOwed

(* The mechanism's next word: a challenge for the first text only, and a   *)
(* name with a success.                                                    *)
LEMMA ExchangeOwed ==
    ASSUME Arrived, UNCHANGED asked, NEW t,
           t.form \in {"undecodable", "rejected"} \/ t.user \in Users,
           \/ asked = "auth" /\ auth(scram, t)
           \/ asked = "response" /\ response(t) /\ t.form \in {"proof", "rejected"},
           ServerSends(<< heard'.status >>)
    PROVE  AnswerDue' /\ Owed'
<1>1. ASSUME NEW h, Fail(h) PROVE heard'.status = "failure"
  BY <1>1 DEF Fail, Reply, build_reply
<1>2. ASSUME NEW h, sasl_process_cdata(h, t)
      PROVE  /\ heard'.status \in {"failure", "challenge", "success"}
             /\ heard'.status = "challenge" => asked # "response"
             /\ heard'.status = "success" => username' # None
  <2>1. CASE Outcome(h, t) = "success" /\ Accept(t.user)
    <3>1. t.form \notin {"undecodable", "rejected"}
      BY <2>1 DEF Outcome
    <3> QED BY <2>1, <3>1, UsersAssumption DEF Accept, Reply, build_reply
  <2>2. CASE Outcome(h, t) = "challenge" /\ Reply(build_reply("challenge", served + 1))
    <3>1. t.form \notin {"proof", "rejected"}
      BY <2>2 DEF Outcome
    <3>2. asked # "response" /\ heard'.status = "challenge"
      BY <2>2, <3>1 DEF Reply, build_reply
    <3> QED BY <3>2
  <2> QED BY <1>1, <1>2, <2>1, <2>2 DEF sasl_process_cdata, handle_status
<1>3. (\E h : Fail(h)) \/ (\E h : sasl_process_cdata(h, t))
  BY DEF response, auth
<1>4. PICK a \in {"failure", "challenge", "success"} : a = heard'.status
  BY <1>1, <1>2, <1>3
<1>5. AnswersAsked(a)'
  BY <1>1, <1>2, <1>3, <1>4 DEF AnswersAsked
<1>6. a \in Answers /\ ServerSends(<< a >>)
  BY <1>4, TriggerValues
<1> QED BY <1>5, <1>6, SaysOneOwed

LEMMA AnswerOwed ==
    ASSUME Session, Arrived, Answer(asked), UNCHANGED asked
    PROVE  AnswerDue' /\ Owed'
<1>1. CASE /\ asked = "header"
           /\ stream_features
           /\ ServerSends(<< "stream", FeaturesElem >>)
  <2>1. PICK a \in {"mechanisms", "bind", "features"} : a = FeaturesElem
    BY DEF FeaturesElem
  <2>2. /\ a = "mechanisms" => username' = None
        /\ a = "bind" => username' # None
    <3>1. a = "mechanisms" => offer' # {}
      BY <2>1 DEF FeaturesElem
    <3>2. a = "bind" => bindOffer'
      BY <2>1 DEF FeaturesElem
    <3> QED
      BY <1>1, <3>1, <3>2
         DEF stream_features, OffersNothing, OffersMechanisms, OffersBind, OpenStream
  <2>3. AnswersAsked(a)' /\ AnswersAsked("stream")'
    BY <1>1, <2>2 DEF AnswersAsked
  <2>4. /\ << "stream", a >> \in Seq(Answers) /\ Len(<< "stream", a >>) = 2
        /\ << "stream", a >> # << >>
        /\ << "stream", a >>[1] = "stream" /\ << "stream", a >>[2] = a
    BY TriggerValues
  <2>5. \A i \in 1..2 : AnswersAsked(<< "stream", a >>[i])'
    BY <2>3, <2>4
  <2>6. ServerSends(<< "stream", a >>)
    BY <1>1, <2>1
  <2> QED BY <2>4, <2>5, <2>6, SaysOwed
<1>2. CASE /\ asked = "auth"
           /\ \E t \in AuthTexts : auth(scram, t)
           /\ ServerSends(<< heard'.status >>)
  <2>1. PICK t \in AuthTexts : auth(scram, t)
    BY <1>2
  <2>2. t.form \in {"undecodable", "rejected"} \/ t.user \in Users
    BY TextsOfClient, UserAssumption
  <2> QED BY <1>2, <2>1, <2>2, ExchangeOwed
<1>3. CASE /\ asked = "response"
           /\ \E t \in ResponseTexts : response(t)
           /\ ServerSends(<< heard'.status >>)
  <2>1. PICK t \in ResponseTexts : response(t)
    BY <1>3
  <2>2. /\ t.form \in {"undecodable", "rejected"} \/ t.user \in Users
        /\ t.form \in {"proof", "rejected"}
    BY TextsOfClient, UserAssumption
  <2> QED BY <1>3, <2>1, <2>2, ExchangeOwed
<1>4. CASE /\ asked = "bind"
           /\ bind
           /\ ServerSends(<< IF bound' # bound THEN "jid" ELSE "error" >>)
  <2>1. PICK a \in {"jid", "error"} : a = IF bound' # bound THEN "jid" ELSE "error"
    OBVIOUS
  <2>2. AnswersAsked(a)' /\ a \in Answers
    BY <1>4, TriggerValues DEF AnswersAsked
  <2>3. ServerSends(<< a >>)
    BY <1>4, <2>1
  <2> QED BY <2>2, <2>3, SaysOneOwed
<1>5. CASE /\ asked = "startpresent"
           /\ startpresent("present")
           /\ ServerSends(IF filters' # filters THEN << "proceed" >> ELSE << >>)
  <2>1. type = "c2s" /\ filters = 0
    BY <1>5 DEF Arrived, Serving, Layers
  <2>2. filters' # filters
    BY <1>5, <2>1 DEF startpresent, Encrypt, Ignore, Unhandled
  <2>3. ServerSends(<< "proceed" >>)
    BY <1>5, <2>2
  <2>4. AnswersAsked("proceed")' /\ "proceed" \in Answers
    BY <1>5, TriggerValues DEF AnswersAsked
  <2> QED BY <2>3, <2>4, SaysOneOwed
<1>6. CASE asked = "query" /\ ServerSends(<< "reply" >>)
  <2>1. AnswersAsked("reply")' /\ "reply" \in Answers
    BY TriggerValues DEF AnswersAsked
  <2> QED BY <1>6, <2>1, SaysOneOwed
<1> QED BY <1>1, <1>2, <1>3, <1>4, <1>5, <1>6 DEF Answer


(* Only what was spoilt is garbled.                                        *)
LEMMA GarbledIsSpoilt ==
    ASSUME Arrived, Garbled(Head(inbox)), stream # "closed" PROVE Spoilt
<1>1. PICK c \in BOOLEAN : /\ inbox = << [elem |-> asked, clear |-> c] >>
                           /\ CipherKept \/ asked # "query" => c
  BY DEF Arrived
<1>2. Head(inbox).elem = asked /\ Head(inbox).clear = c
  BY <1>1
<1> QED BY <1>1, <1>2 DEF Garbled, Spoilt

(* The handler answers the one element it is given, or the session is      *)
(* closed, or the element was spoilt; the sends that are left are the same.*)
LEMMA HandlesOwed ==
    ASSUME Session, Arrived, ServerHandles
    PROVE  AnswerDue' /\ Owed' /\ UNCHANGED << pc, asked >>
<1>1. PICK c \in BOOLEAN : inbox = << [elem |-> asked, clear |-> c] >>
  BY DEF Arrived
<1>2. Head(inbox).elem = asked
  BY <1>1
<1>3. UNCHANGED << pc, asked >> /\ UNCHANGED luck /\ toClient = << >> /\ Len(toClient) = 0
  BY DEF ServerHandles, Arrived
<1>4. CASE Answer(Head(inbox).elem)
  BY <1>2, <1>3, <1>4, AnswerOwed
<1>5. CASE stream' = "closed" /\ toClient' = toClient
  BY <1>3, <1>5 DEF AnswerDue, Owed
<1>6. CASE stream # "closed" /\ Garbled(Head(inbox)) /\ UNCHANGED << streamVars, toClient >>
  <2>1. Spoilt
    BY <1>6, GarbledIsSpoilt
  <2>2. Spoilt'
    BY <1>3, <1>6, <2>1 DEF Spoilt, CipherKept, luck, streamVars, vars
  <2> QED BY <1>3, <1>6, <2>2 DEF AnswerDue, Owed
<1> QED BY <1>3, <1>4, <1>5, <1>6 DEF ServerHandles, close, streamVars, vars

(* The client goes on to an element later in the conversation.             *)
LEMMA ReactGoesOn ==
    ASSUME ClientInv, Owed, Replied, React, UNCHANGED streamVars
    PROVE  AsksLeft' \in Nat /\ AsksLeft' < AsksLeft
<1>1. PICK n \in 0..Len(toClient), k \in DOMAIN Triggers :
           Recv(n) /\ Finds(n, k) /\ TCP_SendTo(Reactions[k])
  BY DEF React
<1>2. PICK i \in 1..n : toClient[i].elem = Triggers[k]
  BY <1>1 DEF Finds, Holds
<1>3. i \in 1..Len(toClient)
  BY <1>2 DEF Replied
<1>4. AnswersAsked(Triggers[k])
  BY <1>2, <1>3 DEF Owed
<1>5. pc = "recv" /\ pc' = "recv" /\ asked' = Reactions[k]
  BY <1>1 DEF Recv, React, TCP_SendTo
<1>6. username' = username
  BY DEF streamVars, vars
<1>7. k \in 1..6
  BY TriggerValues
<1> QED BY <1>4, <1>5, <1>6, <1>7 DEF AnswersAsked, Triggers, Reactions, AsksLeft

(* Every step keeps what is owed, and leaves less to do.                   *)
LEMMA WorkStep ==
    ASSUME ClientInv, AnswerDue, Owed, ClientNext
    PROVE  AnswerDue' /\ Owed' /\ (Work' < Work \/ UNCHANGED allVars)
<1>1. AsksLeft \in Nat
  BY DEF AsksLeft
<1>2. CASE Connect /\ Client
  <2>1. Starting
    BY <1>2 DEF Connect, ClientInv, Travelling, Arrived, Replied
  <2>2. Travelling'
    BY <1>2, <2>1, ConnectTravels DEF Client
  <2>3. AsksLeft = 8 /\ (AsksLeft' = 7 \/ AsksLeft' = 4)
    BY <1>2 DEF Connect, TCP_SendTo, AsksLeft
  <2>4. AnswerDue' /\ Owed'
    BY <2>2, TurnsDue, PTL
  <2>5. Len(toServer) = 0 /\ Len(inbox) = 0 /\ Len(toServer') = 1 /\ Len(inbox') = 0
    <3>1. (Len(toServer) = 1 /\ Len(inbox) = 0)'
      BY <2>2, TurnLengths, PTL
    <3> QED BY <2>1, <3>1, TurnLengths
  <2>6. Work' < Work
    BY <2>3, <2>5 DEF Work
  <2> QED BY <2>4, <2>6
<1>3. CASE React /\ Client
  <2>1. Len(toClient) # 0 /\ pc = "recv"
    BY <1>3 DEF React, Recv, Finds, Holds
  <2>2. Replied
    BY <2>1 DEF ClientInv, Starting, Travelling, Arrived
  <2>3. Travelling' \/ (Replied' /\ Spoilt' /\ toClient' = << >>)
    BY <1>3, <2>2, ReactTravels DEF Client
  <2>4. AnswerDue' /\ Owed'
    <3>1. CASE Travelling'
      BY <3>1, TurnsDue, PTL
    <3>2. CASE Spoilt' /\ toClient' = << >>
      BY <3>2 DEF AnswerDue, Owed
    <3> QED BY <2>3, <3>1, <3>2
  <2>5. PICK sent \in {0, 1} : /\ Len(toServer) = 0 /\ Len(inbox) = 0
                               /\ Len(toServer') = sent /\ Len(inbox') = 0
    <3>1. CASE Travelling'
      <4>1. (Len(toServer) = 1 /\ Len(inbox) = 0)'
        BY <3>1, TurnLengths, PTL
      <4> QED BY <2>2, <4>1, TurnLengths
    <3>2. CASE Replied'
      <4>1. (Len(toServer) = 0 /\ Len(inbox) = 0)'
        BY <3>2, TurnLengths, PTL
      <4> QED BY <2>2, <4>1, TurnLengths
    <3> QED BY <2>3, <3>1, <3>2
  <2>6. AsksLeft' \in Nat /\ AsksLeft' < AsksLeft
    BY <1>3, <2>2, ReactGoesOn DEF Client
  <2>7. PICK before \in Nat, after \in Nat : before = AsksLeft /\ after = AsksLeft'
    BY <1>1, <2>6
  <2>8. 3 * after + 2 * sent + 0 < 3 * before + 2 * 0 + 0
    <3>1. after < before
      BY <2>6, <2>7, Zenon
    <3> QED BY <3>1
  <2>9. Work' < Work
    BY <2>5, <2>7, <2>8, Zenon DEF Work
  <2> QED BY <2>4, <2>9
<1>4. CASE TheEnd /\ Client
  <2>1. PICK n \in 0..Len(toClient) : Recv(n)
    BY <1>4 DEF TheEnd
  <2>2. pc = "recv" /\ (toClient = << >> => stream = "closed")
    BY <2>1 DEF Recv, ClientInv, Starting, Travelling, Arrived, Replied
  <2>3. Replied
    BY <2>1, <2>2 DEF ClientInv, Starting, Travelling, Arrived, Serving
  <2>4. pc' = "end" /\ UNCHANGED << asked, toServer, inbox, username >>
    BY <1>4 DEF TheEnd, Client, streamVars, vars
  <2>5. toClient' = SubSeq(toClient, n + 1, Len(toClient))
    BY <2>1 DEF Recv
  <2>6. toClient \in Seq([elem : Answers, layers : {0}])
    BY <2>3 DEF Replied
  <2>7. Len(toClient') = Len(toClient) - n
        /\ \A i \in 1..(Len(toClient) - n) : toClient'[i] = toClient[i + n]
    BY <2>5, <2>6, RestOfSeq
  <2>8. \A i \in 1..(Len(toClient) - n) : i + n \in 1..Len(toClient)
    BY <2>6
  <2>9. AnswerDue' /\ Owed'
    BY <2>4, <2>7, <2>8 DEF AnswerDue, Owed, AnswersAsked
  <2>10. AsksLeft' = 0 /\ AsksLeft > 0
    BY <2>2, <2>4 DEF AsksLeft
  <2>11. Len(toServer) \in Nat /\ Len(inbox) \in Nat
    BY <2>3, TurnLengths
  <2>12. Work' < Work
    BY <1>1, <2>4, <2>10, <2>11 DEF Work
  <2> QED BY <2>9, <2>12
<1>5. CASE ServerReads
  <2>1. Len(toServer) # 0
    BY <1>5 DEF ServerReads
  <2>2. Travelling
    BY <2>1 DEF ClientInv, Starting, Arrived, Replied
  <2>3. Arrived'
    BY <1>5, <2>2, ReadsArrive
  <2>4. AnswerDue' /\ Owed'
    BY <2>3, TurnsDue, PTL
  <2>5. Len(toServer) = 1 /\ Len(inbox) = 0 /\ Len(toServer') = 0 /\ Len(inbox') = 1
    <3>1. (Len(toServer) = 0 /\ Len(inbox) = 1)'
      BY <2>3, TurnLengths, PTL
    <3> QED BY <2>2, <3>1, TurnLengths
  <2>6. AsksLeft' = AsksLeft
    BY <1>5 DEF ServerReads, streamVars, vars, AsksLeft
  <2>7. Work' < Work
    BY <1>1, <2>5, <2>6 DEF Work
  <2> QED BY <2>4, <2>7
<1>6. CASE ServerHandles
  <2>1. Arrived
    BY <1>6 DEF ServerHandles, ClientInv, Starting, Travelling, Replied
  <2>2. Replied'
    BY <1>6, <2>1, HandlesKeep DEF ClientInv
  <2>3. AnswerDue' /\ Owed' /\ UNCHANGED << pc, asked >>
    BY <1>6, <2>1, HandlesOwed DEF ClientInv
  <2>4. Len(toServer) = 0 /\ Len(inbox) = 1 /\ Len(toServer') = 0 /\ Len(inbox') = 0
    <3>1. (Len(toServer) = 0 /\ Len(inbox) = 0)'
      BY <2>2, TurnLengths, PTL
    <3> QED BY <2>1, <3>1, TurnLengths
  <2>5. asked = "header" => username' = username
    <3>1. ASSUME asked = "header", Answer(asked) PROVE username' = username
      BY <3>1 DEF Answer, stream_features, OffersNothing, OffersMechanisms,
                  OffersBind, OpenStream
    <3>2. PICK c \in BOOLEAN : inbox = << [elem |-> asked, clear |-> c] >>
      BY <2>1 DEF Arrived
    <3>3. Head(inbox).elem = asked
      BY <3>2
    <3> QED BY <1>6, <3>1, <3>3 DEF ServerHandles, close, streamVars, vars
  <2>6. AsksLeft' = AsksLeft
    BY <2>3, <2>5 DEF AsksLeft
  <2>7. Work' < Work
    BY <1>1, <2>4, <2>6 DEF Work
  <2> QED BY <2>3, <2>7
<1>7. CASE Finished
  BY <1>7 DEF Finished, AnswerDue, Owed, AnswersAsked, Spoilt, CipherKept, allVars,
              streamVars, vars, clientVars, luck
<1> QED
  BY <1>2, <1>3, <1>4, <1>5, <1>6, <1>7 DEF ClientNext, Client, Server

LEMMA OwedInvariance == ClientSpec => [](ClientInv /\ AnswerDue /\ Owed)
<1>1. ClientInit => AnswerDue /\ Owed
  BY DEF ClientInit, AnswerDue, Owed
<1>2. ClientInv /\ AnswerDue /\ Owed /\ [ClientNext]_allVars => AnswerDue' /\ Owed'
  <2>1. UNCHANGED allVars /\ AnswerDue /\ Owed => AnswerDue' /\ Owed'
    BY DEF AnswerDue, Owed, AnswersAsked, Spoilt, CipherKept, allVars, streamVars,
           vars, clientVars, luck
  <2> QED BY <2>1, WorkStep
<1> QED BY <1>1, <1>2, ClientInvariance, PTL DEF ClientSpec

(* No recv of the client waits for an answer that nobody owes it: not when *)
(* the answer was cut, nor when the server took an element badly; unless   *)
(* memory spoilt its <auth/> or its query and the server took that in      *)
(* without closing, or got nothing (xmppclient.c:120-159, 198-227).        *)
THEOREM NoIdleRecv == ClientSpec => []AnswerDue
BY OwedInvariance, PTL

(* The calls of DecodeXML and TCP_GetIn into each other come to an end: no *)
(* answer leads back to an element sent before, except to the header, once *)
(* and with a name, and each step leaves less of at most twenty-four.      *)
THEOREM WorkRunsOut == ClientSpec => [](Work \in 0..24) /\ [][Work' < Work]_allVars
<1>1. ClientInit => Work \in 0..24
  <2> SUFFICES ASSUME ClientInit PROVE Work \in 0..24
    OBVIOUS
  <2>1. AsksLeft = 8 /\ Len(toServer) = 0 /\ Len(inbox) = 0
    BY DEF ClientInit, AsksLeft
  <2> QED BY <2>1 DEF Work
<1>2. ClientInv => Work \in Nat
  <2> SUFFICES ASSUME ClientInv PROVE Work \in Nat
    OBVIOUS
  <2>1. AsksLeft \in Nat
    BY DEF AsksLeft
  <2>2. Len(toServer) \in Nat /\ Len(inbox) \in Nat
    BY TurnLengths DEF ClientInv
  <2> QED BY <2>1, <2>2 DEF Work
<1>3. ClientInv /\ AnswerDue /\ Owed /\ [ClientNext]_allVars => [Work' < Work]_allVars
  BY WorkStep
<1>4. ClientInv' => (Work \in Nat)'
  BY <1>2, PTL
<1>5. ClientInv /\ AnswerDue /\ Owed /\ ClientInv' /\ Work \in 0..24 /\ [ClientNext]_allVars
      => (Work \in 0..24)'
  <2> SUFFICES ASSUME ClientInv, AnswerDue, Owed, ClientInv', Work \in 0..24,
                      [ClientNext]_allVars
               PROVE  Work' \in 0..24
    OBVIOUS
  <2>1. Work' \in Nat
    BY <1>4
  <2>2. UNCHANGED allVars => Work' = Work
    BY DEF allVars, streamVars, vars, clientVars, Work, AsksLeft
  <2>3. PICK w \in 0..24, v \in Nat : w = Work /\ v = Work'
    BY <2>1
  <2>4. v < w \/ v = w
    BY <1>3, <2>2, <2>3
  <2> QED BY <2>3, <2>4
<1> QED BY <1>1, <1>3, <1>5, OwedInvariance, PTL DEF ClientSpec


-----------------------------------------------------------------------------
(* What the client comes to when all goes well: see Lucky.                 *)

(* What holds of the session, more than Serving says, while element e is   *)
(* under way.                                                              *)
Welcome(e) ==
    /\ stream = IF e = "header" THEN "reset" ELSE "open"
    /\ e = "auth" => type = "c2s_unauthed"
    /\ e = "response" =>
         /\ handler.selected = scram /\ handler.user = user
         /\ handler.challenge = heard.challenge

(* The good answers to an element, and what holds from then on.            *)
GoodAnswers(e) ==
    CASE e = "header"       -> {"mechanisms", "bind"}
      [] e = "auth"         -> {"challenge"}
      [] e = "response"     -> {"success"}
      [] e = "bind"         -> {"jid", "error"}
      [] e = "startpresent" -> {"proceed"}
      [] e = "query"        -> {"reply"}

Good(a) ==
    /\ a \in GoodAnswers(asked)
    /\ stream = IF a = "success" THEN "reset" ELSE "open"
    /\ a = "mechanisms" => type = "c2s_unauthed"
    /\ a = "challenge" =>
         /\ handler.selected = scram /\ handler.user = user
         /\ handler.challenge = heard.challenge

LastSaid == toClient[Len(toClient)].elem

OnTrack ==
    /\ secure = "nil"
    /\ pc = "start" => stream = "reset"
    /\ pc = "recv" =>
         IF toServer # << >> \/ inbox # << >>
         THEN Welcome(asked)
         ELSE toClient # << >> /\ Good(LastSaid)
    /\ pc = "end" => (asked = "query" /\ stream = "open") \/ asked = "bind"

TrackInv == Lucky => OnTrack

(* The last of what the server says.                                       *)
LEMMA SaysLast ==
    ASSUME Arrived, NEW elems \in Seq(Answers), NEW last, elems[Len(elems)] = last,
           Len(elems) > 0, ServerSends(elems)
    PROVE  toClient' # << >> /\ LastSaid' = last
<1>1. toClient = << >>
  BY DEF Arrived
<1>2. /\ toClient' \in Seq([elem : Answers, layers : {0}])
      /\ Len(toClient') = Len(elems)
      /\ \A i \in 1..Len(elems) : toClient'[i].elem = elems[i]
  BY <1>1, SendsArrive
<1>3. Len(elems) \in 1..Len(elems) /\ Len(<< >>) = 0
  OBVIOUS
<1> QED BY <1>2, <1>3 DEF LastSaid

LEMMA SaysOne ==
    ASSUME Arrived, NEW a \in Answers, ServerSends(<< a >>)
    PROVE  toClient' # << >> /\ LastSaid' = a
<1>1. << a >> \in Seq(Answers) /\ Len(<< a >>) = 1 /\ << a >>[1] = a
  OBVIOUS
<1>2. << a >>[Len(<< a >>)] = a /\ Len(<< a >>) > 0
  BY <1>1
<1> QED BY <1>1, <1>2, SaysLast

(* A good answer makes the client go on, unless it is the last.            *)
LEMMA ReactOnTrack ==
    ASSUME Replied, pc = "recv", OnTrack, Lucky, React, UNCHANGED << streamVars, inbox >>
    PROVE  OnTrack'
<1>1. PICK n \in 0..Len(toClient), k \in DOMAIN Triggers :
           Recv(n) /\ Finds(n, k) /\ TCP_SendTo(Reactions[k])
  BY DEF React
<1>2. PICK i \in 1..n : toClient[i].elem = Triggers[k]
  BY <1>1 DEF Finds, Holds
<1>3. Len(toClient) \in Nat /\ i \in 1..Len(toClient) /\ i = Len(toClient)
  BY <1>2 DEF Replied, IsTrigger
<1>4. LastSaid = Triggers[k]
  BY <1>2, <1>3 DEF LastSaid
<1>5. Good(Triggers[k])
  BY <1>4 DEF OnTrack, Replied
<1>6. k \in 1..6
  BY TriggerValues
<1>7. Welcome(Reactions[k])
  BY <1>5, <1>6 DEF Good, Welcome, Triggers, Reactions
<1>8. Welcome(Reactions[k])' /\ secure' = secure
  BY <1>7 DEF Welcome, streamVars, vars
<1>9. asked' = Reactions[k] /\ pc' = "recv"
  BY <1>1 DEF TCP_SendTo, React
<1>10. toServer' # << >>
  <2>1. PICK m : m = Sent(Reactions[k], Layers(Reactions[k]))
    OBVIOUS
  <2>2. toServer' = Append(<< >>, m)
    BY <1>1, <2>1 DEF TCP_SendTo, IsEmpty, Lucky, CipherKept, Replied
  <2>3. Append(<< >>, m) = << m >>
    OBVIOUS
  <2> QED BY <2>2, <2>3
<1>11. Welcome(asked)'
  BY <1>8, <1>9 DEF Welcome
<1> QED BY <1>8, <1>9, <1>10, <1>11 DEF OnTrack

LEMMA EndOnTrack ==
    ASSUME Replied, pc = "recv", OnTrack, whole, TheEnd, UNCHANGED << streamVars, inbox >>
    PROVE  OnTrack'
<1>1. PICK n \in 0..Len(toClient) :
         Recv(n) /\ \A k \in DOMAIN Triggers : ~Holds(n, Triggers[k])
  BY DEF TheEnd
<1>2. toClient # << >> /\ Good(LastSaid)
  BY DEF OnTrack, Replied
<1>3. n = Len(toClient) /\ toClient \in Seq([elem : Answers, layers : {0}])
  BY <1>1 DEF Recv, Replied
<1>4. n \in 1..n
  BY <1>2, <1>3
<1>5. PICK a : a = LastSaid
  OBVIOUS
<1>6. Holds(n, a)
  BY <1>3, <1>4, <1>5 DEF Holds, LastSaid
<1>7. ~IsTrigger(a)
  BY <1>1, <1>6 DEF IsTrigger
<1>8. a \in {"error", "reply"} /\ Good(a) /\ asked \in Elements
  BY <1>2, <1>5, <1>7, TriggerValues DEF Good, GoodAnswers, Replied
<1>9. (asked = "query" /\ stream = "open") \/ asked = "bind"
  BY <1>8, TriggerValues DEF Good, GoodAnswers
<1>10. pc' = "end" /\ asked' = asked /\ stream' = stream /\ secure' = secure
  BY DEF TheEnd, streamVars, vars
<1> QED BY <1>9, <1>10 DEF OnTrack


(* The server's good word on each element.                                 *)
LEMMA HeaderOnTrack ==
    ASSUME IInv, Arrived, asked = "header", asked' = asked, pc' = pc,
           stream_features, secure = "nil", ~SecureAuthOnly,
           scram \in Supported \ (Disabled \cup Insecure),
           ServerSends(<< "stream", FeaturesElem >>), UNCHANGED << toServer >>, inbox' = << >>
    PROVE  OnTrack'
<1>1. secure' = "nil" /\ stream' = "open" /\ type' = type /\ username' = username
  BY DEF stream_features, OffersNothing, OffersMechanisms, OffersBind, OpenStream
<1>2. username = None => FeaturesElem = "mechanisms" /\ type = "c2s_unauthed"
  <2>1. username = None => OffersMechanisms
    BY DEF stream_features, OffersNothing, OffersBind
  <2>2. OffersMechanisms => scram \in offer'
    BY DEF OffersMechanisms, Offered
  <2> QED BY <2>1, <2>2 DEF FeaturesElem, IInv, AuthedShape
<1>3. username # None => FeaturesElem = "bind"
  <2>1. username # None => offer' = {} /\ bindOffer'
    BY DEF stream_features, OffersNothing, OffersMechanisms, OffersBind
  <2> QED BY <2>1 DEF FeaturesElem
<1>4. PICK a \in {"mechanisms", "bind"} : a = FeaturesElem
  BY <1>2, <1>3
<1>5. (Good(a))'
  BY <1>1, <1>2, <1>3, <1>4 DEF Good, GoodAnswers
<1>6. /\ << "stream", a >> \in Seq(Answers) /\ Len(<< "stream", a >>) = 2
      /\ << "stream", a >>[2] = a
  BY TriggerValues
<1>7. << "stream", a >>[Len(<< "stream", a >>)] = a /\ Len(<< "stream", a >>) > 0
  BY <1>6
<1>8. toClient' # << >> /\ LastSaid' = a
  <2>1. ServerSends(<< "stream", a >>)
    BY <1>4
  <2> QED BY <1>6, <1>7, <2>1, SaysLast
<1>9. pc' = "recv" /\ toServer' = << >>
  BY DEF Arrived
<1> QED BY <1>1, <1>5, <1>8, <1>9 DEF OnTrack, Good

(* Any other element is answered with one word.                            *)
LEMMA WordOnTrack ==
    ASSUME Arrived, NEW a \in Answers, ServerSends(<< a >>), asked' = asked, pc' = pc,
           UNCHANGED << toServer >>, inbox' = << >>, secure' = "nil", (Good(a))'
    PROVE  OnTrack'
<1>1. toClient' # << >> /\ LastSaid' = a
  BY SaysOne
<1>2. pc' = "recv" /\ toServer' = << >>
  BY DEF Arrived
<1> QED BY <1>1, <1>2 DEF OnTrack, Good

LEMMA AuthOnTrack ==
    ASSUME IInv, Arrived, Welcome(asked), asked = "auth", asked' = asked, pc' = pc,
           secure = "nil", ~SecureAuthOnly, NEW t, t.form = "first", t.user = user,
           scram \in Supported \ (Disabled \cup Insecure), scram \notin OneStep,
           auth(scram, t), ServerSends(<< heard'.status >>),
           UNCHANGED << toServer >>, inbox' = << >>
    PROVE  OnTrack'
<1>1. sasl_process_cdata(Select(scram), t)
  BY DEF auth, EncryptionRequired
<1>2. Outcome(Select(scram), t) = "challenge"
  BY DEF Outcome, Select
<1>3. /\ handler' = [Select(scram) EXCEPT !.challenge = served + 1, !.user = t.user]
      /\ Reply(build_reply("challenge", served + 1))
      /\ KeepSession
  BY <1>1, <1>2 DEF sasl_process_cdata, handle_status
<1>4. /\ handler'.selected = scram /\ handler'.user = user
      /\ handler'.challenge = heard'.challenge /\ heard'.status = "challenge"
  BY <1>3 DEF Select, Reply, build_reply
<1>5. stream' = "open" /\ secure' = "nil"
  BY <1>3 DEF Welcome, KeepSession
<1>6. (Good("challenge"))'
  BY <1>4, <1>5 DEF Good, GoodAnswers
<1>7. ServerSends(<< "challenge" >>) /\ "challenge" \in Answers
  BY <1>4, TriggerValues
<1> QED BY <1>5, <1>6, <1>7, WordOnTrack

LEMMA ResponseOnTrack ==
    ASSUME IInv, Arrived, Welcome(asked), asked = "response", asked' = asked, pc' = pc,
           secure = "nil", NEW t,
           t = [form |-> "proof", user |-> user, challenge |-> heard.challenge],
           scram \notin OneStep, user \notin BadNames,
           response(t), ServerSends(<< heard'.status >>),
           UNCHANGED << toServer >>, inbox' = << >>
    PROVE  OnTrack'
<1>1. /\ handler.selected = scram /\ handler.user = user
      /\ handler.challenge = heard.challenge /\ handler.challenge # 0
  BY DEF Welcome, Arrived, Serving
<1>2. sasl_process_cdata(handler, t)
  BY <1>1, UserAssumption, MechanismsAssumption DEF response
<1>3. t.form = "proof" /\ t.user = user
  OBVIOUS
<1>4. Outcome(handler, t) = "success"
  BY <1>1, <1>3 DEF Outcome
<1>5. Accept(t.user)
  BY <1>2, <1>3, <1>4 DEF sasl_process_cdata, handle_status
<1>6. stream' = "reset" /\ secure' = "nil" /\ heard'.status = "success"
  BY <1>5 DEF Accept, Reply, build_reply
<1>7. (Good("success"))'
  BY <1>6 DEF Good, GoodAnswers
<1>8. ServerSends(<< "success" >>) /\ "success" \in Answers
  BY <1>6, TriggerValues
<1> QED BY <1>6, <1>7, <1>8, WordOnTrack

LEMMA RestOnTrack ==
    ASSUME Arrived, Welcome(asked), asked' = asked, pc' = pc, secure = "nil",
           UNCHANGED << toServer >>, inbox' = << >>,
           \/ /\ asked = "bind"
              /\ bind
              /\ ServerSends(<< IF bound' # bound THEN "jid" ELSE "error" >>)
           \/ /\ asked = "startpresent"
              /\ startpresent("present")
              /\ ServerSends(IF filters' # filters THEN << "proceed" >> ELSE << >>)
           \/ /\ asked = "query"
              /\ ServerSends(<< "reply" >>)
              /\ UNCHANGED streamVars
    PROVE  OnTrack'
<1>1. CASE /\ asked = "bind"
           /\ bind
           /\ ServerSends(<< IF bound' # bound THEN "jid" ELSE "error" >>)
  <2>1. PICK a \in {"jid", "error"} : a = IF bound' # bound THEN "jid" ELSE "error"
    OBVIOUS
  <2>2. ServerSends(<< a >>) /\ a \in Answers
    BY <1>1, <2>1, TriggerValues
  <2>3. stream' = "open" /\ secure' = "nil"
    BY <1>1 DEF bind
  <2>4. (Good(a))'
    BY <1>1, <2>3 DEF Good, GoodAnswers
  <2> QED BY <2>2, <2>3, <2>4, WordOnTrack
<1>2. CASE /\ asked = "startpresent"
           /\ startpresent("present")
           /\ ServerSends(IF filters' # filters THEN << "proceed" >> ELSE << >>)
  <2>1. type = "c2s" /\ filters = 0
    BY <1>2 DEF Arrived, Serving, Layers
  <2>2. filters' # filters /\ stream' = "open" /\ secure' = "nil"
    BY <1>2, <2>1 DEF startpresent, Encrypt, Ignore, Unhandled, vars
  <2>3. ServerSends(<< "proceed" >>) /\ "proceed" \in Answers
    BY <1>2, <2>2, TriggerValues
  <2>4. (Good("proceed"))'
    BY <1>2, <2>2 DEF Good, GoodAnswers
  <2> QED BY <2>2, <2>3, <2>4, WordOnTrack
<1>3. CASE asked = "query" /\ ServerSends(<< "reply" >>) /\ UNCHANGED streamVars
  <2>1. stream' = "open" /\ secure' = "nil"
    BY <1>3 DEF Welcome, streamVars, vars
  <2>2. (Good("reply"))' /\ "reply" \in Answers
    BY <1>3, <2>1, TriggerValues DEF Good, GoodAnswers
  <2> QED BY <1>3, <2>1, <2>2, WordOnTrack
<1> QED BY <1>1, <1>2, <1>3

(* With luck the element in the parser is clear, comes when the stream is  *)
(* ready for it, and is answered well.                                     *)
LEMMA HandlesOnTrack ==
    ASSUME scram \in Supported \ (Disabled \cup Insecure), scram \notin OneStep,
           user \notin BadNames, ~SecureAuthOnly,
           ClientInv, Arrived, Lucky, OnTrack, ServerHandles
    PROVE  OnTrack'
<1>1. PICK c \in BOOLEAN : inbox = << [elem |-> asked, clear |-> c] >>
                           /\ (CipherKept => c)
  BY DEF Arrived
<1>2. /\ Head(inbox).elem = asked /\ Head(inbox).clear /\ inbox' = << >>
      /\ inbox # << >>
  BY <1>1 DEF ServerHandles, Lucky
<1>3. Welcome(asked) /\ secure = "nil" /\ pc = "recv" /\ IInv
  BY <1>2 DEF OnTrack, Arrived, ClientInv
<1>4. ~Garbled(Head(inbox)) /\ ~Misplaced(Head(inbox)) /\ stream # "closed"
  BY <1>2, <1>3 DEF Welcome, Garbled, Misplaced, Lucky
<1>5. Answer(asked)
  BY <1>2, <1>4 DEF ServerHandles
<1>6. asked' = asked /\ pc' = pc /\ UNCHANGED << toServer >>
  BY DEF ServerHandles
<1>7. CASE /\ asked = "header"
           /\ stream_features
           /\ ServerSends(<< "stream", FeaturesElem >>)
  BY <1>2, <1>3, <1>6, <1>7, HeaderOnTrack
<1>8. CASE /\ asked = "auth"
           /\ \E t \in AuthTexts : auth(scram, t)
           /\ ServerSends(<< heard'.status >>)
  <2>1. PICK t \in AuthTexts : auth(scram, t)
    BY <1>8
  <2>2. t.form = "first" /\ t.user = user /\ auth(scram, t)
    BY <2>1 DEF AuthTexts, Lucky
  <2> QED BY <1>2, <1>3, <1>6, <1>8, <2>2, AuthOnTrack
<1>9. CASE /\ asked = "response"
           /\ \E t \in ResponseTexts : response(t)
           /\ ServerSends(<< heard'.status >>)
  <2>1. PICK t \in ResponseTexts : response(t)
    BY <1>9
  <2>2. t = [form |-> "proof", user |-> user, challenge |-> heard.challenge]
    BY <2>1 DEF ResponseTexts, Proof, Lucky
  <2> QED BY <1>2, <1>3, <1>6, <1>9, <2>1, <2>2, ResponseOnTrack
<1>10. CASE asked \in {"bind", "startpresent", "query"}
  <2>1. \/ /\ asked = "bind"
           /\ bind
           /\ ServerSends(<< IF bound' # bound THEN "jid" ELSE "error" >>)
        \/ /\ asked = "startpresent"
           /\ startpresent("present")
           /\ ServerSends(IF filters' # filters THEN << "proceed" >> ELSE << >>)
        \/ /\ asked = "query"
           /\ ServerSends(<< "reply" >>)
           /\ UNCHANGED streamVars
    BY <1>5, <1>10 DEF Answer
  <2> QED BY <1>2, <1>3, <1>6, <2>1, RestOnTrack
<1> QED BY <1>5, <1>7, <1>8, <1>9, <1>10 DEF Answer

LEMMA TrackStep ==
    ASSUME scram \in Supported \ (Disabled \cup Insecure), scram \notin OneStep,
           user \notin BadNames, ~SecureAuthOnly,
           ClientInv, TrackInv, [ClientNext]_allVars
    PROVE  TrackInv'
<1> SUFFICES ASSUME Lucky' PROVE OnTrack'
  BY DEF TrackInv
<1>1. Lucky /\ OnTrack
  BY DEF TrackInv, Lucky, CipherKept, ClientNext, Client, Server, ServerReads,
         ServerHandles, Finished, allVars, clientVars, luck
<1>2. CASE Connect /\ Client
  <2>1. pc = "start" /\ asked' = "header" /\ UNCHANGED << streamVars, inbox >>
    BY <1>2 DEF Connect, TCP_SendTo, Client
  <2>2. Starting
    BY <2>1 DEF ClientInv, Travelling, Arrived, Replied
  <2>3. Travelling'
    BY <1>2, <2>1, <2>2, ConnectTravels
  <2>4. toServer' # << >> /\ pc' = "recv"
    BY <2>3 DEF Travelling
  <2>5. stream' = "reset" /\ secure' = "nil"
    BY <1>1, <2>1 DEF OnTrack, streamVars, vars
  <2> QED BY <2>1, <2>4, <2>5 DEF OnTrack, Welcome
<1>3. CASE React /\ Client
  <2>1. Len(toClient) # 0 /\ pc = "recv"
    BY <1>3 DEF React, Recv, Finds, Holds
  <2>2. Replied
    BY <2>1 DEF ClientInv, Starting, Travelling, Arrived
  <2> QED BY <1>1, <1>3, <2>1, <2>2, ReactOnTrack DEF Client
<1>4. CASE TheEnd /\ Client
  <2>1. PICK n \in 0..Len(toClient) : Recv(n)
    BY <1>4 DEF TheEnd
  <2>2. pc = "recv" /\ toServer = << >> /\ inbox = << >>
    BY <1>1, <2>1 DEF Recv, Lucky
  <2>3. Replied
    BY <2>2 DEF ClientInv, Starting, Travelling, Arrived
  <2> QED BY <1>1, <1>4, <2>2, <2>3, EndOnTrack DEF Client, Lucky
<1>5. CASE ServerReads
  <2>1. Len(toServer) # 0
    BY <1>5 DEF ServerReads
  <2>2. Travelling
    BY <2>1 DEF ClientInv, Starting, Arrived, Replied
  <2>3. Arrived'
    BY <1>5, <2>2, ReadsArrive
  <2>4. inbox' # << >> /\ pc' = "recv"
    BY <2>3 DEF Arrived
  <2>5. Welcome(asked) /\ secure = "nil"
    BY <1>1, <2>2 DEF OnTrack, Travelling
  <2>6. Welcome(asked)' /\ secure' = "nil"
    BY <1>5, <2>5 DEF ServerReads, Welcome, streamVars, vars
  <2> QED BY <2>4, <2>6 DEF OnTrack
<1>6. CASE ServerHandles
  <2>1. Arrived
    BY <1>6 DEF ServerHandles, ClientInv, Starting, Travelling, Replied
  <2> QED BY <1>1, <1>6, <2>1, HandlesOnTrack
<1>7. CASE UNCHANGED allVars
  BY <1>1, <1>7 DEF OnTrack, Welcome, Good, LastSaid, allVars, streamVars, vars, clientVars
<1> QED
  BY <1>2, <1>3, <1>4, <1>5, <1>6, <1>7 DEF ClientNext, Client, Server, Finished

(* What the client is for: where the configuration lets SCRAM through a    *)
(* connection that is not secure, whole answers, clean digests, a clean    *)
(* heap and kept arrays on both sides bring every run that ends to its     *)
(* query on an open stream, unless the session manager refused the         *)
(* resource (xmppclient.c:120-159).                                        *)
THEOREM EndsWithQuery ==
    ASSUME scram \in Supported \ (Disabled \cup Insecure), scram \notin OneStep,
           user \notin BadNames, ~SecureAuthOnly
    PROVE  ClientSpec =>
             [](Lucky /\ pc = "end" =>
                   (asked = "query" /\ stream = "open") \/ asked = "bind")
<1>1. ClientInit => TrackInv
  BY DEF ClientInit, StreamInit, Init, TrackInv, OnTrack
<1>2. ClientInv /\ TrackInv /\ [ClientNext]_allVars => TrackInv'
  BY TrackStep
<1>3. TrackInv => (Lucky /\ pc = "end" =>
                     (asked = "query" /\ stream = "open") \/ asked = "bind")
  BY DEF TrackInv, OnTrack
<1> QED BY <1>1, <1>2, <1>3, ClientInvariance, PTL DEF ClientSpec


(* Who may the server think the client is?  All that SaslAuth promises of  *)
(* a session holds while this client talks to it, through two refinements: *)
(* it is named by proof only, keeps its name, and binds after the restart. *)
THEOREM ClientLogin ==
    ClientSpec => AuthenticatedByProof /\ IdentityFixed /\ BoundAfterRestart
<1>1. ClientSpec => Spec
  BY ServerImplementsStream, PresentImplementsSasl, PTL
     DEF ServerIsStream, StreamIsSasl
<1> QED BY <1>1, ProofOfIdentity, FixedIdentity, BindAfterRestart, PTL
=============================================================================
