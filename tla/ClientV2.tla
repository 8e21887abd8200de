------------------------------ MODULE ClientV2 ------------------------------
(***************************************************************************)
(* The script client-v2/client-v2.py against the session of C2sSession,    *)
(* over a TCP connection.  The script takes one recv for one answer of the *)
(* server, wherever the network cuts the byte stream; the server enciphers *)
(* every send by itself, under a CBC chain that starts afresh (present_cbc *)
(* on the server's side, client-v2/present.py on the client's).            *)
(***************************************************************************)
EXTENDS C2sSession, Sequences, SequencesExt

CONSTANTS
    user,  \* the account the script logs in to
    scram, \* the mechanism it asks for
    pls    \* the layer it starts

ASSUME ClientAssumption ==
    /\ user \in Users
    /\ scram \in Mechanisms
    /\ pls \in Layers
    /\ MaxChallenges >= 1

VARIABLES
    pc,       \* what the script waits for
    nonce,    \* what its random nonce holds: see Nonces
    whole,    \* TRUE on a network where a recv returns all the server has
              \* to say; else it returns any part of it
    arrays,   \* "kept", or "reused" if the server's ciphers may lose what
              \* stands in the arrays they return: see PresentCbc
    printed,  \* the element its last print shows
    toServer, \* sends on the way to the server
    inbox,    \* bytes the server has read and passed through its filters
    toClient  \* sends on the way to the client

clientVars == << pc, nonce, whole, arrays, printed, toServer, inbox, toClient >>
allVars == << sessionVars, clientVars >>

(* Of a nonce only the first '=' or ',' matters, if there is one; line 35  *)
(* means to take the commas out but discards the result of replace.        *)
Nonces == {"clean", "equals", "comma"}

ClientInit ==
    /\ SessionInit
    /\ starttls
    /\ pls \in contexts
    /\ pc = "hello"
    /\ nonce \in Nonces
    /\ whole \in BOOLEAN
    /\ arrays \in {"kept", "reused"}
    /\ printed = "nothing"
    /\ toServer = << >>
    /\ inbox = << >>
    /\ toClient = << >>

(* One send: an element under a number of layers.                          *)
Sent(e, n) == [elem |-> e, layers |-> n]

-----------------------------------------------------------------------------
(* The script.  recv takes a prefix of what was sent and not yet received. *)
Recv(n) ==
    /\ n \in 1..Len(toClient)
    /\ whole => n = Len(toClient) /\ toServer = << >> /\ inbox = << >>
    /\ toClient' = SubSeq(toClient, n + 1, Len(toClient))

Got(n) == SubSeq(toClient, 1, n)

(* obj.decrypt wants hexadecimal digits, which clear text is not; of two   *)
(* sends in one chain only the first comes out readable.                   *)
Deciphers(n) == \A i \in 1..n : toClient[i].layers = 1
Readable(n, e) == n = 1 /\ Got(n) = << Sent(e, 1) >>

ClientSends(e, n) == toServer' = Append(toServer, Sent(e, n))

Hello ==
    /\ pc = "hello" /\ pc' = "offer"
    /\ ClientSends("header", 0)
    /\ UNCHANGED << printed, toClient >>

(* The two answers in clear text are printed, never looked at.             *)
RequestLayer ==
    /\ pc = "offer" /\ pc' = "proceed"
    /\ \E n \in 1..Len(toClient) : Recv(n)
    /\ ClientSends("startpls", 0)
    /\ UNCHANGED printed

(* Mutant of ReopenStream: the header goes out in clear text.              *)
ReopenInClear ==
    /\ pc = "proceed" /\ pc' = "features"
    /\ \E n \in 1..Len(toClient) : Recv(n)
    /\ ClientSends("header", 0)
    /\ UNCHANGED printed

ReopenStream ==
    /\ pc = "proceed" /\ pc' = "features"
    /\ \E n \in 1..Len(toClient) : Recv(n)
    /\ ClientSends("header", 1)
    /\ UNCHANGED printed

BeginScram ==
    /\ pc = "features" /\ pc' = "challenge"
    /\ \E n \in 1..Len(toClient) : Deciphers(n) /\ Recv(n)
    /\ ClientSends("auth", 1)
    /\ UNCHANGED printed

(* Line 112 splits each field of the challenge at every '='.  A nonce with *)
(* a ',' the server cuts off there: by the place of the comma the challenge*)
(* is still a whole number of cipher blocks, and answered like any other,  *)
(* or it is not, and the filling of its last block reaches the XML parser. *)
AnswerChallenge ==
    /\ pc = "challenge" /\ pc' = "verdict"
    /\ nonce # "equals"
    /\ \E n \in 1..Len(toClient) : Readable(n, "challenge") /\ Recv(n)
    /\ ClientSends("response", 1)
    /\ UNCHANGED printed

PrintVerdict ==
    /\ pc = "verdict" /\ pc' = "done"
    /\ \E n \in 1..Len(toClient) :
         /\ Deciphers(n) /\ Recv(n)
         /\ printed' = IF n = 1 THEN toClient[1].elem ELSE "garbage"
    /\ UNCHANGED toServer

(* bytes.fromhex, ET.fromstring or the dict comprehension raises, or decode*)
(* for a second send in the chain or a lost array, which need not be UTF-8.*)
Raise ==
    /\ pc \in {"features", "challenge", "verdict"} /\ pc' = "raised"
    /\ \E n \in 1..Len(toClient) :
         /\ Recv(n)
         /\ \/ ~Deciphers(n)
            \/ pc = "challenge" /\ (~Readable(n, "challenge") \/ nonce # "clean")
            \/ pc = "verdict" /\ (n > 1 \/ toClient[1].elem = "garbage")
    /\ UNCHANGED << printed, toServer >>

(* recv returns nothing: the server closed the connection.                 *)
EndOfFile ==
    /\ stream = "closed" /\ toClient = << >>
    /\ pc \notin {"hello", "done", "raised"}
    /\ pc' = IF pc = "verdict" THEN "done" ELSE "raised"
    /\ UNCHANGED << printed, toServer, toClient >>

Client ==
    /\ \/ Hello \/ RequestLayer \/ ReopenStream \/ BeginScram
       \/ AnswerChallenge \/ PrintVerdict \/ Raise \/ EndOfFile
    /\ UNCHANGED << sessionVars, nonce, whole, arrays, inbox >>

-----------------------------------------------------------------------------
(* The server reads what has come, through the filters it has by then.     *)
(* Stray bytes behind an element are taken for a loss of the next one.     *)
ServerReads ==
    /\ \E n \in 1..Len(toServer), lost \in BOOLEAN :
         /\ lost => arrays = "reused" /\ bytesIn > 0
         /\ inbox' = inbox \o [i \in 1..n |->
                [elem |-> toServer[i].elem,
                 clear |-> toServer[i].layers = bytesIn /\ ~lost]]
         /\ toServer' = SubSeq(toServer, n + 1, Len(toServer))
    /\ UNCHANGED << sessionVars, pc, nonce, whole, arrays, printed, toClient >>

(* Mutant of ServerSends: the last send of an answer is not flushed.       *)
ServerLosesLast(elems) ==
    toClient' = toClient \o [i \in 1..(Len(elems) - 1) |-> Sent(elems[i], bytesOut)]

(* Each element of an answer is a send of its own.  A lost array gives the *)
(* client other text, no hexadecimal digits or, if it is empty, nothing.   *)
ServerSends(elems) ==
    \E k \in 0..Len(elems), lost \in SUBSET (1..Len(elems)), l \in 0..1 :
        /\ k < Len(elems) \/ lost # {} => arrays = "reused" /\ bytesOut > 0
        /\ toClient' = toClient \o [i \in 1..k |->
               IF i \in lost THEN Sent("garbage", l) ELSE Sent(elems[i], bytesOut)]

Answer(e) ==
    \/ /\ e = "header"
       /\ Features
       /\ ServerSends(<< "stream", "features" >>)
    \/ /\ e = "startpls"
       /\ stream = "open"
       /\ start_layer(pls)
       /\ ServerSends(<< IF refused' = None THEN "proceed" ELSE "failure" >>)
    \/ /\ e = "auth"
       /\ auth(scram, [form |-> "first", user |-> user])
       /\ UNCHANGED layerVars
       /\ ServerSends(<< heard'.status >>)
    \/ /\ e = "response"
       /\ response([form |-> "proof", user |-> user, challenge |-> 1])
       /\ UNCHANGED layerVars
       /\ ServerSends(<< heard'.status >>)

(* A second root element, or an element without one.                       *)
Misplaced(m) == m.elem = "header" <=> stream = "open"

(* The parser closes the session over bytes that are not XML; text between *)
(* two elements, an unended one and nothing at all it takes in silently.   *)
ServerHandles ==
    /\ inbox # << >>
    /\ inbox' = Tail(inbox)
    /\ \/ /\ stream # "closed" /\ Head(inbox).clear /\ ~Misplaced(Head(inbox))
          /\ Answer(Head(inbox).elem)
       \/ /\ stream # "closed"
          /\ ~Head(inbox).clear \/ Misplaced(Head(inbox))
          /\ close
          /\ UNCHANGED << layerVars, toClient >>
       \/ /\ stream = "closed" \/ ~Head(inbox).clear
          /\ UNCHANGED << sessionVars, toClient >>
    /\ UNCHANGED << pc, nonce, whole, arrays, printed, toServer >>

Server == ServerReads \/ ServerHandles

(* The script has ended, or it and the server wait for each other over     *)
(* what a lost array kept from one of them.                                *)
Finished ==
    /\ \/ pc \in {"done", "raised"}
       \/ /\ arrays = "reused" /\ stream # "closed"
          /\ toServer = << >> /\ inbox = << >> /\ toClient = << >>
    /\ UNCHANGED allVars

ClientNext == Client \/ Server \/ Finished

(* The script runs until it ends; a server that has bytes to read or to    *)
(* parse does so (its event loop); what was sent arrives (TCP).            *)
ClientSpec ==
    /\ ClientInit /\ [][ClientNext]_allVars
    /\ WF_allVars(Client) /\ WF_allVars(Server)

-----------------------------------------------------------------------------
(* Nothing goes wrong under way: answers come whole, texts come back.      *)
Smooth == whole /\ arrays = "kept"

(* Then what the server reads it deciphers as often as it was enciphered:  *)
(* the filters are in place when the first enciphered bytes are read, and  *)
(* not before the last clear ones were (mod_pls.lua:170-173, client-v2.py: *)
(* 88-95).                                                                 *)
LayersInStep == Smooth => \A i \in DOMAIN inbox : inbox[i].clear

(* The script's success is the server's: once it is printed, the session   *)
(* is the user's and was authenticated under the layer.                    *)
SuccessIsShared == printed = "success" => username = user /\ bytesIn > 0

(* The script never hangs: wherever the network cuts the answers, every    *)
(* recv it waits in returns, or its connection is closed; unless an array  *)
(* of the server's ciphers was lost, and what it held with it.             *)
ScriptEnds == arrays = "kept" => <>(pc \in {"done", "raised"})

(* When nothing goes wrong, and with a nonce without '=' and ',', it does  *)
(* what it is for: the layer, the reopened stream and the exchange fit     *)
(* together.                                                               *)
PrintsSuccess == Smooth /\ nonce = "clean" => <>(printed = "success")

(* docker-v2/README.md:42 says that the script "should print out a         *)
(* **success** message"; of the nonce it says nothing.                     *)
SuccessWithAnyNonce == Smooth => <>(printed = "success")
=============================================================================
