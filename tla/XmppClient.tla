----------------------------- MODULE XmppClient -----------------------------
(***************************************************************************)
(* The command-line client xmppclient.c against the server of              *)
(* PresentStream, over TCP.  The client keeps no state of its own between  *)
(* two answers: DecodeXML looks for the first of six strings in what one   *)
(* recv returned, and the reaction to it sends and calls TCP_GetIn, which  *)
(* calls DecodeXML again.  The calls return only by exit, so the TCP_GetIn *)
(* behind TCP_SendTo in TCP_Init_Stream_Header is never reached.           *)
(***************************************************************************)
EXTENDS PresentStream, Sequences

CONSTANTS
    user,  \* the account it logs in to
    scram  \* SCRAM-SHA-1

ASSUME UserAssumption ==
    /\ user \in Users
    /\ scram \in Mechanisms
    /\ "present" \in Methods

VARIABLES
    pc,       \* "start", "recv": in recv, or "end": after exit
    asked,    \* the last element it sent
    whole,    \* TRUE on a network where a recv returns all the server has
              \* to say; else it returns any part of it
    digests,  \* "clean", or "cut" if what SCRAM_responce_create works with is
              \* not the C string strlen takes it for: see Scram
    heap,     \* "clean", or "dirty" if bytes stand behind the text of <auth/>,
              \* which SCRAM_init does not end
    memory,   \* the array presentCBCencr returned, by the time it is copied:
              \* "kept", "reused", or "empty" if it now begins with a NUL
    serverMemory, \* "kept", or "reused" if presentCBCdecr's array is no more
              \* the text of the query when it is pushed to Lua, or never was
    toServer, \* sends on the way to the server
    inbox,    \* sends the server has read and passed through its filters
    toClient  \* sends on the way to the client

luck == << whole, digests, heap, memory, serverMemory >>
clientVars == << pc, asked, luck, toServer, inbox, toClient >>
allVars == << streamVars, clientVars >>

ClientInit ==
    /\ StreamInit
    /\ pc = "start"
    /\ asked = "nothing"
    /\ whole \in BOOLEAN
    /\ digests \in {"clean", "cut"}
    /\ heap \in {"clean", "dirty"}
    /\ memory \in {"kept", "reused", "empty"}
    /\ serverMemory \in {"kept", "reused"}
    /\ toServer = << >>
    /\ inbox = << >>
    /\ toClient = << >>

(* One send: an element, and how often it is enciphered.                   *)
Sent(e, n) == [elem |-> e, layers |-> n]

-----------------------------------------------------------------------------
(* The strings of DecodeXML in the order it looks for them, and what it    *)
(* sends when it finds one.                                                *)
Triggers == << "mechanisms", "challenge", "success", "bind", "jid", "proceed" >>
(* Mutant of Reactions: no resource is bound.                              *)
ReactsUnbound == << "auth", "response", "header", "startpresent", "startpresent", "query" >>

Reactions == << "auth", "response", "header", "bind", "startpresent", "query" >>

Layers(e) == IF e = "query" THEN 1 ELSE 0

(* Mutant of TCP_SendTo: the query is sent as it is.                       *)
SendsInClear(e) ==
    /\ asked' = e
    /\ toServer' = Append(toServer, Sent(e, 0))

(* Of an empty string send puts nothing on the wire, and is content.       *)
IsEmpty(e) == e = "query" /\ memory = "empty"

TCP_SendTo(e) ==
    /\ asked' = e
    /\ \/ IsEmpty(e) /\ UNCHANGED toServer
       \/ ~IsEmpty(e) /\ toServer' = Append(toServer, Sent(e, Layers(e)))

Connect ==
    /\ pc = "start" /\ pc' = "recv"
    /\ TCP_SendTo("header")
    /\ UNCHANGED toClient

(* Mutant of Recv: the end of the connection is not told to the caller.    *)
RecvIgnoresEnd(n) ==
    /\ pc = "recv"
    /\ n \in 1..Len(toClient)
    /\ whole => n = Len(toClient) /\ toServer = << >> /\ inbox = << >>
    /\ toClient' = SubSeq(toClient, n + 1, Len(toClient))

(* recv takes a prefix of what was sent and not yet received, or nothing   *)
(* from a connection that was closed.                                      *)
Recv(n) ==
    /\ pc = "recv"
    /\ n \in 0..Len(toClient)
    /\ n = 0 => stream = "closed" /\ toClient = << >>
    /\ whole => n = Len(toClient) /\ toServer = << >> /\ inbox = << >>
    /\ toClient' = SubSeq(toClient, n + 1, Len(toClient))

Holds(n, e) == \E i \in 1..n : toClient[i].elem = e
Finds(n, k) == Holds(n, Triggers[k]) /\ \A j \in 1..(k - 1) : ~Holds(n, Triggers[j])

React ==
    /\ \E n \in 0..Len(toClient), k \in DOMAIN Triggers :
         /\ Recv(n)
         /\ Finds(n, k)
         /\ TCP_SendTo(Reactions[k])
    /\ UNCHANGED pc

(* Mutant of TheEnd: the client sends its header again.                    *)
StartsOver ==
    /\ \E n \in 0..Len(toClient) :
         /\ Recv(n)
         /\ \A k \in DOMAIN Triggers : ~Holds(n, Triggers[k])
    /\ TCP_SendTo("header")
    /\ UNCHANGED pc

(* None of the strings: "-- The End --" and exit.                          *)
TheEnd ==
    /\ \E n \in 0..Len(toClient) :
         /\ Recv(n)
         /\ \A k \in DOMAIN Triggers : ~Holds(n, Triggers[k])
    /\ pc' = "end"
    /\ UNCHANGED << asked, toServer >>

Client ==
    /\ Connect \/ React \/ TheEnd
    /\ UNCHANGED << streamVars, luck, inbox >>

-----------------------------------------------------------------------------
(* Mutant of ServerReads: the filter is never run.                         *)
ReadsUnfiltered ==
    /\ \E n \in 1..Len(toServer) :
         /\ inbox' = inbox \o [i \in 1..n |->
                [elem |-> toServer[i].elem, clear |-> toServer[i].layers = 0]]
         /\ toServer' = SubSeq(toServer, n + 1, Len(toServer))
    /\ UNCHANGED << streamVars, pc, asked, luck, toClient >>

(* The ciphered query is copied, and the deciphered one pushed, in time.   *)
CipherKept == memory = "kept" /\ serverMemory = "kept"

(* The server reads what has come, through the filters it has by then: one *)
(* call of main_decrypt for one piece of data, which is one CBC chain.     *)
ServerReads ==
    /\ \E n \in 1..Len(toServer) :
         /\ inbox' = inbox \o [i \in 1..n |->
                [elem |-> toServer[i].elem,
                 clear |-> /\ toServer[i].layers = filters
                           /\ filters = 0 \/ (n = 1 /\ CipherKept)]]
         /\ toServer' = SubSeq(toServer, n + 1, Len(toServer))
    /\ UNCHANGED << streamVars, pc, asked, luck, toClient >>

(* Each element is a send of its own; no filter on "bytes/out".            *)
ServerSends(elems) ==
    toClient' = toClient \o [i \in 1..Len(elems) |-> Sent(elems[i], 0)]

(* What the <features/> hold for the client.                               *)
FeaturesElem ==
    IF scram \in offer' THEN "mechanisms" ELSE IF bindOffer' THEN "bind" ELSE "features"

(* SCRAM_init: stray bytes may be skipped by the server's base64, or spoil *)
(* it, or the name and the nonce in it.                                    *)
AuthTexts ==
    {[form |-> "first", user |-> user]}
    \cup IF heap = "clean" THEN {} ELSE {[form |-> "undecodable"], [form |-> "rejected"]}

(* SCRAM_responce_create, from the challenge the client heard last.  Its   *)
(* proof is of the nonce it meant to send, not of one with stray bytes.    *)
Proof == [form |-> "proof", user |-> user, challenge |-> heard.challenge]

(* Mutant of ResponseTexts: the server's nonce is left out.                *)
TextsWithoutNonce ==
    (IF digests = "clean" THEN {[Proof EXCEPT !.challenge = 0]} ELSE {})
    \cup IF digests = "clean" /\ heap = "clean" THEN {} ELSE {[form |-> "rejected"]}

ResponseTexts ==
    (IF digests = "clean" THEN {Proof} ELSE {})
    \cup IF digests = "clean" /\ heap = "clean" THEN {} ELSE {[form |-> "rejected"]}

Answer(e) ==
    \/ /\ e = "header"
       /\ stream_features
       /\ ServerSends(<< "stream", FeaturesElem >>)
       /\ UNCHANGED presentVars
    \/ /\ e = "auth"
       /\ \E t \in AuthTexts : auth(scram, t)
       /\ ServerSends(<< heard'.status >>)
       /\ UNCHANGED presentVars
    \/ /\ e = "response"
       /\ \E t \in ResponseTexts : response(t)
       /\ ServerSends(<< heard'.status >>)
       /\ UNCHANGED presentVars
    \/ /\ e = "bind"
       /\ bind
       /\ ServerSends(<< IF bound' # bound THEN "jid" ELSE "error" >>)
       /\ UNCHANGED presentVars
    \/ /\ e = "startpresent"
       /\ startpresent("present")
       /\ ServerSends(IF filters' # filters THEN << "proceed" >> ELSE << >>)
    \/ /\ e = "query"
       /\ ServerSends(<< "reply" >>)
       /\ UNCHANGED streamVars

(* What the client did not mean to send, because a filter or the heap made *)
(* it so, and what has no place in the stream: a second root, or no root.  *)
Garbled(m) == ~m.clear \/ (m.elem = "auth" /\ heap = "dirty")
Misplaced(m) == m.elem = "header" <=> stream = "open"

(* The parser closes the session over bytes that are not XML.  Garbled ones*)
(* need not be: nothing at all, blank or plain text and the beginning of an*)
(* element are taken in without a word.                                    *)
ServerHandles ==
    /\ inbox # << >>
    /\ inbox' = Tail(inbox)
    /\ \/ /\ stream # "closed" /\ Head(inbox).clear /\ ~Misplaced(Head(inbox))
          /\ Answer(Head(inbox).elem)
       \/ /\ stream # "closed"
          /\ Garbled(Head(inbox)) \/ Misplaced(Head(inbox))
          /\ close
          /\ UNCHANGED << presentVars, toClient >>
       \/ /\ stream = "closed" \/ Garbled(Head(inbox))
          /\ UNCHANGED << streamVars, toClient >>
    /\ UNCHANGED << pc, asked, luck, toServer >>

Server == ServerReads \/ ServerHandles

(* The last element is one that memory spoilt, an <auth/> with stray bytes *)
(* in it or a query that one of the two ciphers lost, and the server has   *)
(* not closed the session over it.                                         *)
Spoilt ==
    /\ \/ asked = "auth" /\ heap = "dirty"
       \/ asked = "query" /\ ~CipherKept
    /\ stream # "closed"

(* After exit, and when client and server wait for each other.             *)
Finished ==
    /\ pc = "end" \/ (Spoilt /\ toServer = << >> /\ inbox = << >> /\ toClient = << >>)
    /\ UNCHANGED allVars

ClientNext == Client \/ Server \/ Finished

(* The client runs until it exits; the server's event loop reads and       *)
(* parses what has come; TCP delivers what was sent.                       *)
ClientSpec ==
    /\ ClientInit /\ [][ClientNext]_allVars
    /\ WF_allVars(Client) /\ WF_allVars(Server)

-----------------------------------------------------------------------------
(* What the client sends, and what it may receive.                         *)
Elements == {Reactions[k] : k \in DOMAIN Reactions}
Answers == {Triggers[k] : k \in DOMAIN Triggers}
           \cup {"stream", "features", "failure", "error", "reply"}

(* The client never has two elements under way: it sends one for an answer *)
(* whatever recv returned and however the answer was cut.  The filter of   *)
(* mod_present depends on it, since it deciphers each piece of data it is  *)
(* given as one chain (mod_present.lua:75-82).                             *)
OneAtATime == Len(toServer) + Len(inbox) <= 1

(* On any network, what reaches the server's parser is readable unless one *)
(* of the two ciphers' arrays was lost: the filter is not there when the   *)
(* last element in clear is read, and is when the query is (xmppclient.c:  *)
(* 143-150, mod_present.lua:112-117).                                      *)
FilterInStep == CipherKept => \A i \in DOMAIN inbox : inbox[i].clear

(* The client asks for the next thing only when the server has done the    *)
(* last one for it: the query is sent by a session that is authenticated   *)
(* as the user, bound and filtered, and <startpresent/> by one that will   *)
(* not be closed for it, however long the answers took and wherever the    *)
(* network cut them.                                                       *)
AskedInTurn ==
    /\ asked = "query" => filters = 1
    /\ asked \in {"query", "startpresent"} => username = user /\ type = "c2s"
    /\ asked = "bind" => username = user

(* What the server does for this client is what PresentStream says it may, *)
(* so that all SaslAuth says of a session holds of this one.               *)
ServerIsStream == StreamSpec

(* The client never hangs, on any network and whatever the server makes of *)
(* its proof or of what it cannot read, except for the answer to an element*)
(* that memory spoilt and that broke nothing (xmppclient.c:198-216).       *)
ClientEnds == <>(pc = "end") \/ <>[]Spoilt

(* With luck in all it depends on, the client gets to its query, and an    *)
(* answer to it, unless the session manager refuses the resource.          *)
Lucky == whole /\ digests = "clean" /\ heap = "clean" /\ CipherKept
QueryAnswered ==
    Lucky =>
        <>(\/ asked = "query" /\ pc = "end" /\ stream = "open"
           \/ asked = "bind" /\ pc = "end")

(* present_integration/readme.txt:41 says of the response <proceed/>: "this*)
(* implies the stream is present encrypted now".                           *)
ProceedEnciphers ==
    asked = "query" => \A i \in DOMAIN toClient : toClient[i].layers = 1
=============================================================================
