----------------------------- MODULE PollServer -----------------------------
(***************************************************************************)
(* benchmarks/http/bhserver.c: one thread that polls an array of sockets,  *)
(* scans it, accepts, answers GET to the asker and POST to everybody, and  *)
(* closes up the array when a peer is gone.  The sockets block: a recv or  *)
(* accept on a socket that is not ready, or a send to a peer that does not *)
(* read, stops the whole server.  Nothing checks what accept and send      *)
(* return, nor that the array has room.                                    *)
(* The kernel's side of a connection and the clients are external, as      *)
(* bhserver.c and bhclient.c use them.                                     *)
(***************************************************************************)
EXTENDS Naturals, Sequences, FiniteSets

CONSTANTS
    Clients,   \* the peers; the descriptor accept returns for one names it
    Listener,  \* serversocket
    NoFd,      \* what memset left in a slot never used
    Failed,    \* -1, which accept returns for an error
    PollSize,  \* POLL_SIZE
    Window,    \* the answers a peer that does not read holds before send blocks
    Requests   \* the methods the clients use

ASSUME ClientsAssumption ==
    /\ IsFiniteSet(Clients)
    /\ Listener \notin Clients
    /\ NoFd \notin Clients \cup {Listener}
    /\ Failed \notin Clients \cup {Listener, NoFd}
    /\ PollSize \in Nat \ {0}
    /\ Window \in Nat \ {0}
ASSUME RequestsAssumption == Requests \subseteq {"GET", "POST"}

VARIABLES
    fd,          \* poll_set[i].fd
    revents,     \* poll_set[i].revents & POLLIN
    numclient,
    clientindex,
    pc,          \* "poll": before or in poll(), "scan": in the for loop
    answering,   \* the slots TCP_Send has still to be called for
    fate,        \* "running", or how that ended: see Fates
    failed,      \* how often accept has failed so far
    conn,        \* of each client: "idle", "queued" (to be accepted), "open"
    backlog,     \* the listen queue
    peer,        \* the client's end: see Peers
    inq,         \* the request the server has not read yet, or "none"
    unread       \* the answers sent to the client that it did not read

slots == << fd, revents, numclient >>
outcome == << answering, fate, failed >>
kernel == << conn, backlog, peer, inq, unread >>
vars == << slots, clientindex, pc, outcome, kernel >>

Index == 0..(PollSize - 1)
Used == 1..(numclient - 1)

(* "up", "fin": closed; "gone": closed, and what the server sent since was *)
(* answered by a reset; "reset": reset without a FIN before it.            *)
Peers == {"up", "fin", "gone", "reset"}

(* "killed": by a signal; "spins": in TCP_Send, whose send returns -1 and  *)
(* counts the total down; "overrun": the array was left, from where on C   *)
(* and the linker decide and nothing is modelled.                          *)
Fates == {"running", "killed", "spins", "overrun"}

Readable(c) == inq[c] # "none" \/ peer[c] # "up"
(* poll passes over a negative descriptor.                                 *)
Ready(f) == (f = Listener /\ backlog # << >>) \/ (f \in Clients /\ Readable(f))

Init ==
    /\ fd = [i \in Index |-> IF i = 0 THEN Listener ELSE NoFd]
    /\ revents = [i \in Index |-> FALSE]
    /\ numclient = 1
    /\ clientindex = 0
    /\ pc = "poll"
    /\ answering = {}
    /\ fate = "running"
    /\ failed = 0
    /\ conn = [c \in Clients |-> "idle"]
    /\ backlog = << >>
    /\ peer = [c \in Clients |-> "up"]
    /\ inq = [c \in Clients |-> "none"]
    /\ unread = [c \in Clients |-> 0]

-----------------------------------------------------------------------------
(* The clients.                                                            *)
Connect(c) ==
    /\ conn[c] = "idle"
    /\ conn' = [conn EXCEPT ![c] = "queued"]
    /\ backlog' = Append(backlog, c)
    /\ UNCHANGED << peer, inq, unread >>

Request(c, r) ==
    /\ conn[c] # "idle" /\ peer[c] = "up" /\ inq[c] = "none"
    /\ inq' = [inq EXCEPT ![c] = r]
    /\ UNCHANGED << conn, backlog, peer, unread >>

Receive(c) ==
    /\ unread[c] > 0
    /\ unread' = [unread EXCEPT ![c] = @ - 1]
    /\ UNCHANGED << conn, backlog, peer, inq >>

(* close with unread bytes resets the connection.                          *)
Close(c) ==
    /\ conn[c] # "idle" /\ peer[c] = "up"
    /\ peer' = [peer EXCEPT ![c] = IF unread[c] > 0 THEN "reset" ELSE "fin"]
    /\ unread' = [unread EXCEPT ![c] = 0]
    /\ UNCHANGED << conn, backlog, inq >>

Client(c) ==
    /\ fate = "running"   \* the clients of a server that ended are left out
    /\ Connect(c) \/ (\E r \in Requests : Request(c, r)) \/ Receive(c) \/ Close(c)
    /\ UNCHANGED << slots, clientindex, pc, outcome >>

-----------------------------------------------------------------------------
(* Mutant of Poll: poll is told of numclient - 1 slots.                    *)
PollAllButLast ==
    /\ pc = "poll"
    /\ \E i \in 0..(numclient - 2) : Ready(fd[i])
    /\ revents' = [i \in Index |->
                     IF i < numclient - 1 THEN Ready(fd[i]) ELSE revents[i]]
    /\ pc' = "scan"
    /\ clientindex' = 0
    /\ UNCHANGED << fd, numclient, outcome, kernel >>

(* poll(poll_set, numclient, -1) returns when something is ready.          *)
Poll ==
    /\ pc = "poll"
    /\ \E i \in 0..(numclient - 1) : Ready(fd[i])
    /\ revents' = [i \in Index |->
                     IF i < numclient THEN Ready(fd[i]) ELSE revents[i]]
    /\ pc' = "scan"
    /\ clientindex' = 0
    /\ UNCHANGED << fd, numclient, outcome, kernel >>

Current == fd[clientindex]
Scanning == pc = "scan" /\ answering = {} /\ clientindex < numclient
Advance == clientindex' = clientindex + 1 /\ UNCHANGED pc

Skip ==
    /\ Scanning /\ ~revents[clientindex]
    /\ Advance
    /\ UNCHANGED << slots, outcome, kernel >>

EndScan ==
    /\ pc = "scan" /\ answering = {} /\ clientindex >= numclient
    /\ pc' = "poll"
    /\ UNCHANGED << slots, clientindex, outcome, kernel >>

Accepting == Scanning /\ revents[clientindex] /\ Current = Listener

(* The slot's revents are left as they are: the loop will come to it.      *)
Accept ==
    /\ Accepting /\ numclient < PollSize
    /\ backlog # << >>
    /\ backlog' = Tail(backlog)
    /\ conn' = [conn EXCEPT ![Head(backlog)] = "open"]
    /\ fd' = [fd EXCEPT ![numclient] = Head(backlog)]
    /\ numclient' = numclient + 1
    /\ Advance
    /\ UNCHANGED << revents, outcome, peer, inq, unread >>

(* accept returns -1, for want of a descriptor say, and leaves the queue as*)
(* it is; the -1 is stored and counted like any socket.                    *)
AcceptFails ==
    /\ Accepting /\ numclient < PollSize
    /\ fd' = [fd EXCEPT ![numclient] = Failed]
    /\ numclient' = numclient + 1
    /\ failed' = failed + 1
    /\ Advance
    /\ UNCHANGED << revents, answering, fate, kernel >>

Visits == Scanning /\ revents[clientindex] /\ Current # Listener

(* Mutant of CloseUp: the loop starts one slot too late.                   *)
CloseUpLate(f) ==
    [i \in Index |-> IF clientindex < i /\ i < numclient THEN f[i + 1] ELSE f[i]]

(* recv returned 0: the slots behind move up one, the first of them past   *)
(* the index, which then goes on as for any slot.                          *)
CloseUp(f) ==
    [i \in Index |-> IF clientindex <= i /\ i < numclient THEN f[i + 1] ELSE f[i]]

PeerEnded == inq[Current] = "none" /\ peer[Current] \in {"fin", "gone"}

(* Mutants of Remove: the count goes down twice, the slot is kept, or the  *)
(* descriptors move up without their revents.                              *)
RemoveCountsTwice ==
    /\ Visits /\ PeerEnded /\ numclient < PollSize
    /\ fd' = CloseUp(fd)
    /\ revents' = CloseUp(revents)
    /\ numclient' = numclient - 2
    /\ conn' = [conn EXCEPT ![Current] = "idle"]
    /\ peer' = [peer EXCEPT ![Current] = "up"]
    /\ Advance
    /\ UNCHANGED << outcome, backlog, inq, unread >>

RemoveKeepsSlot ==
    /\ Visits /\ PeerEnded /\ numclient < PollSize
    /\ conn' = [conn EXCEPT ![Current] = "idle"]
    /\ peer' = [peer EXCEPT ![Current] = "up"]
    /\ Advance
    /\ UNCHANGED << slots, outcome, backlog, inq, unread >>

RemoveMovesFdsOnly ==
    /\ Visits /\ PeerEnded /\ numclient < PollSize
    /\ fd' = CloseUp(fd)
    /\ numclient' = numclient - 1
    /\ conn' = [conn EXCEPT ![Current] = "idle"]
    /\ peer' = [peer EXCEPT ![Current] = "up"]
    /\ Advance
    /\ UNCHANGED << revents, outcome, backlog, inq, unread >>

Remove ==
    /\ Visits /\ PeerEnded /\ numclient < PollSize
    /\ fd' = CloseUp(fd)
    /\ revents' = CloseUp(revents)
    /\ numclient' = numclient - 1
    /\ conn' = [conn EXCEPT ![Current] = "idle"]
    /\ peer' = [peer EXCEPT ![Current] = "up"]
    /\ Advance
    /\ UNCHANGED << outcome, backlog, inq, unread >>

(* With a full array the append of accept writes poll_set[POLL_SIZE], and  *)
(* closing up reads it; numclient is compared with nothing.                *)
Overrun ==
    /\ Accepting \/ (Visits /\ PeerEnded)
    /\ numclient = PollSize
    /\ fate' = "overrun"
    /\ UNCHANGED << slots, clientindex, pc, answering, failed, kernel >>

(* Mutant of Everybody: the POST loop starts at slot 0.                    *)
FromSlotZero == 0..(numclient - 1)

Everybody == Used
Addressees(r) == IF r = "GET" THEN {clientindex} ELSE Everybody

Serve ==
    /\ Visits
    /\ inq[Current] # "none"
    /\ inq' = [inq EXCEPT ![Current] = "none"]
    /\ answering' = Addressees(inq[Current])
    /\ Advance   \* early: nothing reads the index until the answers are sent
    /\ UNCHANGED << slots, fate, failed, conn, backlog, peer, unread >>

(* recv returned -1, which is not 0: an empty buffer is parsed, and the    *)
(* method and the payload are whatever memory holds.  That kills the       *)
(* process at once, or is answered as one request or the other.            *)
Misread ==
    /\ Visits
    /\ inq[Current] = "none" /\ peer[Current] = "reset"
    /\ \/ fate' = "killed" /\ UNCHANGED answering
       \/ \E r \in {"GET", "POST"} : answering' = Addressees(r) /\ UNCHANGED fate
    /\ Advance
    /\ UNCHANGED << slots, failed, kernel >>

(* TCP_Send goes from slot to slot.                                        *)
Upcoming == {i \in answering : \A j \in answering : i <= j}

Sent(i) == answering' = answering \ {i} /\ UNCHANGED << fate, failed >>

(* send waits here until the peer's window has room, or the peer is gone.  *)
Deliver(i) ==
    /\ fd[i] \in Clients /\ peer[fd[i]] = "up" /\ unread[fd[i]] < Window
    /\ unread' = [unread EXCEPT ![fd[i]] = @ + 1]
    /\ Sent(i)
    /\ UNCHANGED << conn, backlog, peer, inq >>

(* The first send to a closed peer brings a reset back.                    *)
SendToClosed(i) ==
    /\ fd[i] \in Clients /\ peer[fd[i]] = "fin"
    /\ peer' = [peer EXCEPT ![fd[i]] = "gone"]
    /\ Sent(i)
    /\ UNCHANGED << conn, backlog, inq, unread >>

(* A send after that, or one on the listening socket, raises SIGPIPE, which*)
(* nobody handles; one on -1 fails, and the loop of TCP_Send goes on.      *)
Breaks(i) ==
    /\ \/ fd[i] = Failed /\ fate' = "spins"
       \/ fd[i] = Listener /\ fate' = "killed"
       \/ fd[i] \in Clients /\ peer[fd[i]] \in {"gone", "reset"} /\ fate' = "killed"
    /\ UNCHANGED << answering, failed, kernel >>

TCP_Send ==
    /\ \E i \in Upcoming : Deliver(i) \/ SendToClosed(i) \/ Breaks(i)
    /\ UNCHANGED << slots, clientindex, pc >>

Server ==
    /\ fate = "running"
    /\ \/ Poll \/ Skip \/ EndScan \/ Accept \/ AcceptFails \/ Remove \/ Overrun
       \/ Serve \/ Misread \/ TCP_Send

Next == Server \/ \E c \in Clients : Client(c)

(* The event loop never pauses except in poll() and in send().  No client  *)
(* is obliged to read, to ask or to close.                                 *)
Spec == Init /\ [][Next]_vars /\ WF_vars(Server)

-----------------------------------------------------------------------------
(* The shape of the server's globals and of the kernel's tables.           *)
TypeOK ==
    /\ fd \in [Index -> Clients \cup {Listener, NoFd, Failed}]
    /\ revents \in [Index -> BOOLEAN]
    /\ numclient \in 1..PollSize
    /\ clientindex \in 0..PollSize
    /\ pc \in {"poll", "scan"}
    /\ answering \subseteq Index
    /\ fate \in Fates
    /\ failed \in Nat
    /\ conn \in [Clients -> {"idle", "queued", "open"}]
    /\ backlog \in Seq(Clients)
    /\ peer \in [Clients -> Peers]
    /\ inq \in [Clients -> Requests \cup {"none"}]
    /\ unread \in [Clients -> 0..Window]

(* The array holds the listener first and then every accepted connection,  *)
(* each once, beside the -1s of failed accepts: accepting and closing up,  *)
(* in any order and in the middle of a scan, loses no descriptor and polls *)
(* none twice (lines 148-152 and 163-171).                                 *)
SlotsExact ==
    /\ fd[0] = Listener
    /\ \A i \in Used : fd[i] = Failed \/ (fd[i] \in Clients /\ conn[fd[i]] = "open")
    /\ \A i, j \in Used : fd[i] = fd[j] /\ fd[i] # Failed => i = j
    /\ \A c \in Clients : conn[c] = "open" => \E i \in Used : fd[i] = c

(* The scan never calls recv or accept on a socket that would block: every *)
(* revents it has still to look at, though set before the array was closed *)
(* up and appended to, belongs to the descriptor beside it and is still    *)
(* true.  One that were not would stop all clients (lines 142-171).  It    *)
(* says nothing of send, which can block (126-130): see Blocked.           *)
NeverBlocks ==
    pc = "scan" => \A i \in clientindex..(numclient - 1) : revents[i] => Ready(fd[i])

Open == {c \in Clients : conn[c] = "open"}

(* The array is left, by accept's append or by the read of poll_set[i + 1] *)
(* (lines 150 and 169), only when every slot behind the listener's is held *)
(* by a connection that is open or by an accept that failed: removals leak *)
(* no slot, but a failed accept keeps its own for good.                    *)
OverrunsWhenFull == fate = "overrun" => Cardinality(Open) + failed >= PollSize - 1

(* Nothing kills the server but an answer to a peer that has closed, and   *)
(* TCP_Send loops for ever only after an accept that failed (lines 118-131 *)
(* and 148-206).                                                           *)
DiesOfClosedPeers ==
    /\ fate = "killed" => \E c \in Clients : conn[c] = "open" /\ peer[c] \in {"gone", "reset"}
    /\ fate = "spins" => failed > 0

(* send waits for a peer that is up and does not read (lines 126-130).     *)
Blocked ==
    \E i \in Upcoming : fd[i] \in Clients /\ peer[fd[i]] = "up" /\ unread[fd[i]] = Window

(* Every request that arrives is read, although each removal makes the     *)
(* scan skip a slot and the newcomers are appended while it runs, unless   *)
(* the server has ended or stands for ever in a send to one peer that never*)
(* reads again: a peer that reads late costs time only.                    *)
RequestsServed ==
    \A c \in Clients : inq[c] # "none" ~> (inq[c] = "none" \/ fate # "running" \/ []Blocked)

(* A client that went away is noticed, and its slot given back, with the   *)
(* same exceptions.                                                        *)
SlotsReclaimed ==
    \A c \in Clients : peer[c] # "up" ~> (peer[c] = "up" \/ fate # "running" \/ []Blocked)
=============================================================================
