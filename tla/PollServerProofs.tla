-------------------------- MODULE PollServerProofs --------------------------
(* Proofs about PollServer, for any number of clients and any array.       *)
EXTENDS PollServer, FiniteSetTheorems, SequenceTheorems, TLAPS

(***************************************************************************)
(* The inductive invariant.  The slot accept writes must carry no revents  *)
(* of its own, since the running scan will come to it: Clean says that the *)
(* slots not in use never do, neither at first nor after a removal.  What  *)
(* is queued is not open (else one connection could take two slots), the   *)
(* slots in use are counted by the open connections and the failed accepts,*)
(* and TCP_Send is only ever called for slots in use.                      *)
(***************************************************************************)
Clean == \A i \in Index : i >= numclient => revents[i] = FALSE

BacklogExact ==
    /\ \A i \in 1..Len(backlog) : conn[backlog[i]] = "queued"
    /\ \A i, j \in 1..Len(backlog) : backlog[i] = backlog[j] => i = j

Count == numclient = Cardinality(Open) + failed + 1

FailedKnown == (\E i \in Used : fd[i] = Failed) => failed > 0

AnswersInUse == answering \subseteq Used

IInv ==
    /\ TypeOK
    /\ SlotsExact
    /\ Clean
    /\ BacklogExact
    /\ Count
    /\ FailedKnown
    /\ AnswersInUse
    /\ NeverBlocks

(* What the program counts is within the array.                            *)
LEMMA Room ==
    ASSUME TypeOK
    PROVE  /\ PollSize \in Nat /\ numclient \in 1..PollSize
           /\ \A i \in 0..(numclient - 1) : i \in Index
           /\ \A i \in Used : i \in Index
BY ClientsAssumption DEF TypeOK, Index, Used

(* The slot the scan is at, when it is not the listener's, is in use.      *)
LEMMA CurrentInUse ==
    ASSUME IInv, Visits
    PROVE  clientindex \in Used /\ Current \in Clients /\ conn[Current] = "open"
<1>1. clientindex \in Used /\ clientindex \in clientindex..(numclient - 1)
  BY ClientsAssumption DEF IInv, TypeOK, SlotsExact, Visits, Scanning, Current, Used
<1>2. Ready(Current)
  BY <1>1 DEF IInv, NeverBlocks, Visits, Scanning, Current
<1>3. Current # Failed
  BY <1>2, ClientsAssumption DEF Ready
<1> QED BY <1>1, <1>3 DEF IInv, SlotsExact, Current

(* The initial state has one slot in use and no connection.                *)
LEMMA InitIInv == Init => IInv
<1> SUFFICES ASSUME Init PROVE IInv
  OBVIOUS
<1>1. 0 \in Index /\ PollSize \in Nat /\ 1 \in 1..PollSize /\ 0 \in 0..PollSize
  BY ClientsAssumption DEF Index
<1>2. TypeOK
  <2>1. /\ fd \in [Index -> Clients \cup {Listener, NoFd, Failed}]
        /\ revents \in [Index -> BOOLEAN]
    BY DEF Init
  <2>2. backlog \in Seq(Clients)
    BY EmptySeq DEF Init
  <2>3. fate \in Fates /\ failed \in Nat /\ answering \subseteq Index
    BY DEF Init, Fates
  <2>4. unread \in [Clients -> 0..Window]
    BY ClientsAssumption DEF Init
  <2> QED BY <1>1, <2>1, <2>2, <2>3, <2>4 DEF Init, TypeOK, Peers
<1>3. Open = {}
  BY DEF Init, Open
<1>4. Count
  BY <1>3, FS_EmptySet DEF Init, Count
<1>5. SlotsExact
  BY <1>1 DEF Init, SlotsExact, Used
<1>6. Clean /\ BacklogExact /\ NeverBlocks /\ FailedKnown /\ AnswersInUse
  BY <1>1 DEF Init, Clean, BacklogExact, NeverBlocks, FailedKnown, AnswersInUse, Used
<1> QED BY <1>2, <1>4, <1>5, <1>6 DEF IInv

(* A step that leaves the slots, the descriptors and the queue alone, and  *)
(* makes nothing unready, keeps the structure.                             *)
LEMMA StructureKept ==
    ASSUME IInv, UNCHANGED << fd, revents, numclient, conn, backlog, failed >>
    PROVE  SlotsExact' /\ Clean' /\ BacklogExact' /\ Count' /\ FailedKnown'
<1>1. SlotsExact' /\ FailedKnown'
  BY DEF IInv, SlotsExact, Used, FailedKnown
<1> QED BY <1>1 DEF IInv, Clean, BacklogExact, Count, Open, Index

(* A client's step only ever makes a descriptor ready.                     *)
LEMMA ClientKeeps ==
    ASSUME IInv, NEW c \in Clients, Client(c)
    PROVE  IInv'
<1> USE DEF IInv, Client
<1>1. UNCHANGED << fd, revents, numclient, clientindex, pc, answering, fate, failed >>
  BY DEF slots, outcome
<1>2. CASE Connect(c)
  <2>1. backlog' = Append(backlog, c) /\ backlog \in Seq(Clients)
    BY <1>2 DEF Connect, TypeOK
  <2>2. /\ backlog' \in Seq(Clients)
        /\ Len(backlog') = Len(backlog) + 1 /\ Len(backlog) \in Nat
        /\ backlog'[Len(backlog) + 1] = c
        /\ \A i \in 1..Len(backlog) : backlog'[i] = backlog[i] /\ backlog[i] \in Clients
    BY <2>1, AppendProperties, ElementOfSeq, LenProperties
  <2>3. \A i \in 1..Len(backlog) : backlog[i] # c
    BY <1>2 DEF Connect, BacklogExact
  <2>4. \A d \in Clients : conn'[d] = IF d = c THEN "queued" ELSE conn[d]
    BY <1>2 DEF Connect, TypeOK
  <2>5. TypeOK'
    BY <1>1, <1>2, <2>2 DEF Connect, TypeOK
  <2>6. Open' = Open
    BY <1>2, <2>4 DEF Connect, Open
  <2>7. SlotsExact' /\ Clean' /\ Count' /\ FailedKnown' /\ AnswersInUse'
    <3>1. SlotsExact'
      BY <1>1, <1>2, <2>4 DEF Connect, SlotsExact, Used
    <3> QED BY <1>1, <2>6, <3>1 DEF Used, Clean, Count, Index, FailedKnown, AnswersInUse
  <2>8. BacklogExact'
    BY <2>2, <2>3, <2>4 DEF BacklogExact
  <2>9. backlog' # << >>
    BY <2>1, AppendProperties
  <2>10. NeverBlocks'
    BY <1>1, <1>2, <2>9 DEF Connect, NeverBlocks, Ready, Readable
  <2> QED BY <2>5, <2>7, <2>8, <2>10
<1>3. CASE (\E r \in Requests : Request(c, r)) \/ Receive(c) \/ Close(c)
  <2>1. TypeOK'
    <3>1. unread' \in [Clients -> 0..Window]
      BY <1>3, ClientsAssumption DEF Request, Receive, Close, TypeOK
    <3> QED BY <1>1, <1>3, <3>1 DEF Request, Receive, Close, TypeOK, Peers
  <2>2. UNCHANGED << conn, backlog >>
    BY <1>3 DEF Request, Receive, Close
  <2>3. \A d \in Clients : Readable(d) => Readable(d)'
    BY <1>3, RequestsAssumption DEF Request, Receive, Close, Readable, TypeOK
  <2>4. \A f : Ready(f) => Ready(f)'
    BY <2>2, <2>3, ClientsAssumption DEF Ready
  <2>5. NeverBlocks'
    BY <1>1, <2>4 DEF NeverBlocks
  <2>6. AnswersInUse'
    BY <1>1 DEF AnswersInUse, Used
  <2> QED BY <1>1, <2>1, <2>2, <2>5, <2>6, StructureKept
<1> QED BY <1>2, <1>3

(* Visiting a slot moves the index on, still within its range.             *)
LEMMA AdvanceType ==
    ASSUME IInv, Scanning, Advance
    PROVE  /\ clientindex \in Nat /\ clientindex < numclient
           /\ clientindex' = clientindex + 1 /\ clientindex' \in 0..PollSize
           /\ pc' = "scan"
<1>1. numclient \in 1..PollSize /\ PollSize \in Nat
  BY Room DEF IInv
<1>2. clientindex \in Nat /\ clientindex < numclient
  BY <1>1 DEF IInv, TypeOK, Scanning
<1> QED BY <1>1, <1>2 DEF Scanning, Advance

(* poll() sets every revents to what is true of its descriptor.            *)
LEMMA PollKeeps ==
    ASSUME IInv, Poll PROVE IInv'
<1>1. TypeOK'
  <2>1. \A f : Ready(f) \in BOOLEAN
    BY DEF Ready, Readable
  <2>2. revents' \in [Index -> BOOLEAN]
    BY <2>1 DEF Poll, IInv, TypeOK
  <2>3. clientindex' \in 0..PollSize
    BY ClientsAssumption DEF Poll
  <2> QED BY <2>2, <2>3 DEF IInv, Poll, TypeOK, kernel, outcome
<1>2. UNCHANGED << fd, numclient, conn, backlog, peer, inq, answering, failed >>
  BY DEF Poll, kernel, outcome
<1>3. SlotsExact' /\ BacklogExact' /\ Count' /\ FailedKnown' /\ AnswersInUse'
  <2>1. SlotsExact'
    BY <1>2 DEF IInv, SlotsExact, Used
  <2> QED BY <1>2, <2>1 DEF IInv, Used, BacklogExact, Count, Open, FailedKnown, AnswersInUse
<1>4. Clean'
  BY <1>2 DEF IInv, Clean, Poll, TypeOK, Index
<1>5. NeverBlocks'
  <2> SUFFICES ASSUME NEW i \in 0..(numclient - 1), revents'[i]
               PROVE  Ready(fd[i])'
    BY <1>2 DEF NeverBlocks, Poll
  <2>1. i \in Index /\ i < numclient
    BY Room DEF IInv
  <2>2. Ready(fd[i])
    BY <2>1 DEF Poll
  <2> QED BY <1>2, <2>2 DEF Ready, Readable
<1> QED BY <1>1, <1>3, <1>4, <1>5 DEF IInv

(* Passing over a slot, or ending the pass, touches nothing.               *)
LEMMA SkipKeeps ==
    ASSUME IInv, Skip \/ EndScan PROVE IInv'
<1>1. UNCHANGED << slots, outcome, kernel >>
  BY DEF Skip, EndScan
<1>2. TypeOK'
  <2>1. clientindex' \in 0..PollSize /\ pc' \in {"poll", "scan"}
    BY AdvanceType DEF IInv, TypeOK, Skip, EndScan
  <2> QED BY <1>1, <2>1 DEF IInv, TypeOK, slots, kernel, outcome
<1>3. NeverBlocks'
  <2>1. CASE Skip
    <3>1. /\ clientindex \in Nat /\ clientindex' = clientindex + 1
          /\ pc = "scan" /\ numclient \in Nat
      BY <2>1, AdvanceType, Room DEF Skip, Scanning, IInv
    <3>2. \A f : Ready(f) => Ready(f)'
      BY <1>1 DEF kernel, Ready, Readable
    <3> QED BY <1>1, <3>1, <3>2 DEF IInv, NeverBlocks, slots
  <2>2. CASE EndScan
    BY <2>2 DEF EndScan, NeverBlocks
  <2> QED BY <2>1, <2>2
<1>4. AnswersInUse'
  BY <1>1 DEF IInv, AnswersInUse, Used, slots, outcome
<1> QED BY <1>1, <1>2, <1>3, <1>4, StructureKept DEF IInv, slots, kernel, outcome

(* Taking a request in, or misreading a reset, makes nothing unready in the*)
(* part of the array still to be scanned: no other slot is this client's.  *)
LEMMA VisitKeeps ==
    ASSUME IInv, Serve \/ Misread PROVE IInv'
<1>1. /\ UNCHANGED << slots, failed, conn, backlog, peer, unread >>
      /\ Scanning /\ Advance
      /\ Visits
  BY DEF Serve, Misread, Visits, kernel
<1>2. clientindex \in Used /\ Current \in Clients
  BY <1>1, CurrentInUse
<1>3. AnswersInUse'
  <2>1. \A r : Addressees(r) \subseteq Used
    BY <1>2 DEF Addressees, Everybody
  <2> QED BY <1>1, <2>1 DEF Serve, Misread, IInv, AnswersInUse, Used, slots
<1>4. TypeOK'
  <2>1. clientindex' \in 0..PollSize /\ pc' = "scan"
    BY <1>1, AdvanceType
  <2>2. fate' \in Fates
    BY DEF Serve, Misread, IInv, TypeOK, Fates
  <2>3. answering' \subseteq Index
    BY <1>1, <1>3, Room DEF AnswersInUse, Used, slots, IInv
  <2>4. inq' \in [Clients -> Requests \cup {"none"}]
    BY DEF Serve, Misread, IInv, TypeOK, kernel
  <2> QED BY <1>1, <2>1, <2>2, <2>3, <2>4 DEF IInv, TypeOK, slots
<1>5. \A c \in Clients : c # Current /\ Readable(c) => Readable(c)'
  BY <1>1 DEF IInv, TypeOK, Serve, Misread, kernel, Readable
<1>6. \A i \in (clientindex + 1)..(numclient - 1) :
        /\ i \in Used /\ fd[i] # Listener /\ (fd[i] \in Clients => fd[i] # Current)
  <2> SUFFICES ASSUME NEW i \in (clientindex + 1)..(numclient - 1)
               PROVE  i \in Used /\ fd[i] # Listener /\ (fd[i] \in Clients => fd[i] # Current)
    OBVIOUS
  <2>1. i \in Used /\ i # clientindex
    BY <1>2, Room DEF IInv, Used
  <2>2. fd[i] # Listener
    BY <2>1, ClientsAssumption DEF IInv, SlotsExact
  <2>3. fd[i] # Current \/ fd[i] = Failed
    BY <1>2, <2>1 DEF IInv, SlotsExact, Current
  <2> QED BY <2>1, <2>2, <2>3, ClientsAssumption
<1>7. NeverBlocks'
  <2> SUFFICES ASSUME NEW i \in (clientindex + 1)..(numclient - 1), revents[i]
               PROVE  Ready(fd[i])'
    BY <1>1, AdvanceType DEF NeverBlocks, slots
  <2>1. Ready(fd[i])
    BY <1>1, AdvanceType, Room DEF IInv, NeverBlocks, Scanning
  <2>2. fd'[i] = fd[i]
    BY <1>1 DEF slots
  <2> QED BY <1>5, <1>6, <2>1, <2>2 DEF Ready
<1> QED BY <1>1, <1>3, <1>4, <1>7, StructureKept DEF IInv, slots

(* A send is to a slot in use; it disturbs no slot and readies a peer only.*)
LEMMA SendKeeps ==
    ASSUME IInv, TCP_Send PROVE IInv'
<1>1. UNCHANGED << slots, clientindex, pc, conn, backlog, inq, failed >>
  BY DEF TCP_Send, Deliver, SendToClosed, Breaks, Sent, kernel
<1>2. PICK i \in answering : Deliver(i) \/ SendToClosed(i) \/ Breaks(i)
  BY DEF TCP_Send, Upcoming
<1>3. answering' \subseteq answering
  BY <1>2 DEF Deliver, SendToClosed, Breaks, Sent
<1>4. TypeOK'
  <2>1. fate' \in Fates
    BY <1>2 DEF Deliver, SendToClosed, Breaks, Sent, IInv, TypeOK, Fates
  <2>2. unread' \in [Clients -> 0..Window]
    BY <1>2, ClientsAssumption DEF Deliver, SendToClosed, Breaks, IInv, TypeOK, kernel
  <2>3. peer' \in [Clients -> Peers]
    <3>1. peer' = peer \/ peer' = [peer EXCEPT ![fd[i]] = "gone"]
      BY <1>2 DEF Deliver, SendToClosed, Breaks, kernel
    <3>2. peer \in [Clients -> Peers] /\ "gone" \in Peers
      BY DEF IInv, TypeOK, Peers
    <3> QED BY <3>1, <3>2
  <2> QED BY <1>1, <1>3, <2>1, <2>2, <2>3 DEF IInv, TypeOK, slots
<1>5. \A c \in Clients : Readable(c) => Readable(c)'
  BY <1>2 DEF Deliver, SendToClosed, Breaks, Readable, IInv, TypeOK, kernel
<1>6. \A f : Ready(f) => Ready(f)'
  BY <1>1, <1>5 DEF Ready
<1>7. NeverBlocks'
  BY <1>1, <1>6 DEF IInv, NeverBlocks, slots
<1>8. AnswersInUse'
  BY <1>1, <1>3 DEF IInv, AnswersInUse, Used, slots
<1> QED BY <1>1, <1>4, <1>7, <1>8, StructureKept DEF IInv, slots

(* An overrun ends the run and what is modelled of it.                     *)
LEMMA OverrunKeeps ==
    ASSUME IInv, Overrun PROVE IInv'
<1>1. UNCHANGED << slots, clientindex, pc, answering, failed, kernel >> /\ fate' \in Fates
  BY DEF Overrun, Fates
<1>2. TypeOK'
  BY <1>1 DEF IInv, TypeOK, slots, kernel
<1>3. NeverBlocks' /\ AnswersInUse'
  BY <1>1 DEF IInv, NeverBlocks, AnswersInUse, Used, Ready, Readable, slots, kernel
<1> QED BY <1>1, <1>2, <1>3, StructureKept DEF IInv, slots, kernel

(* accept takes the oldest of the queue, which is not open yet, into the   *)
(* first slot not in use, which has no revents.                            *)
LEMMA AcceptKeeps ==
    ASSUME IInv, Accept PROVE IInv'
<1> DEFINE h == Head(backlog)
<1>1. numclient \in 1..(PollSize - 1) /\ PollSize \in Nat /\ numclient \in Index
  BY Room DEF IInv, Index, Accept
<1>2. /\ backlog \in Seq(Clients) /\ backlog # << >>
      /\ backlog' = Tail(backlog)
  BY DEF IInv, TypeOK, Accept
<1>3. /\ h = backlog[1] /\ h \in Clients /\ 1 \in 1..Len(backlog)
      /\ backlog' \in Seq(Clients)
      /\ Len(backlog') = Len(backlog) - 1
      /\ \A i \in 1..Len(backlog') :
           /\ backlog'[i] = backlog[i + 1] /\ i + 1 \in 1..Len(backlog)
           /\ backlog[i + 1] \in Clients
  BY <1>2, HeadTailProperties, LenProperties, ElementOfSeq
<1>4. conn[h] = "queued" /\ \A i \in 2..Len(backlog) : backlog[i] # h
  BY <1>3, LenProperties, <1>2 DEF IInv, BacklogExact
<1>5. /\ \A c \in Clients : conn'[c] = IF c = h THEN "open" ELSE conn[c]
      /\ \A i \in Index : fd'[i] = IF i = numclient THEN h ELSE fd[i]
      /\ numclient' = numclient + 1
      /\ UNCHANGED << revents, outcome, peer, inq, unread >>
  BY <1>1, <1>3 DEF IInv, TypeOK, Accept
<1>6. /\ clientindex \in Nat /\ clientindex < numclient
      /\ clientindex' = clientindex + 1 /\ clientindex' \in 0..PollSize
      /\ pc = "scan" /\ pc' = "scan"
  BY AdvanceType DEF Accept, Accepting, Scanning
<1>7. TypeOK'
  <2>1. /\ fd' \in [Index -> Clients \cup {Listener, NoFd, Failed}]
        /\ conn' \in [Clients -> {"idle", "queued", "open"}]
    BY <1>3 DEF IInv, TypeOK, Accept
  <2> QED BY <1>1, <1>3, <1>5, <1>6, <2>1 DEF IInv, TypeOK, outcome
<1>8. SlotsExact'
  <2>1. fd'[0] = Listener
    BY <1>1, <1>5 DEF IInv, SlotsExact, Index
  <2>2. \A i \in Used' : i \in Index /\ (i \in Used \/ i = numclient)
    BY <1>1, <1>5 DEF Used, Index
  <2>3. \A i \in Used : i # numclient /\ i \in Index /\ fd[i] # h
    BY <1>1, <1>3, <1>4, ClientsAssumption DEF IInv, SlotsExact, Used, Index
  <2>4. \A i \in Used' : fd'[i] = Failed \/ (fd'[i] \in Clients /\ conn'[fd'[i]] = "open")
    BY <1>3, <1>5, <2>2 DEF IInv, SlotsExact
  <2>5. \A i, j \in Used' : fd'[i] = fd'[j] /\ fd'[i] # Failed => i = j
    BY <1>5, <2>2, <2>3 DEF IInv, SlotsExact
  <2>6. \A c \in Clients : conn'[c] = "open" => \E i \in Used' : fd'[i] = c
    <3> SUFFICES ASSUME NEW c \in Clients, conn'[c] = "open"
                 PROVE  \E i \in Used' : fd'[i] = c
      OBVIOUS
    <3>1. CASE c = h
      BY <1>1, <1>5, <3>1 DEF Used
    <3>2. CASE c # h
      <4>1. PICK i \in Used : fd[i] = c
        BY <1>5, <3>2 DEF IInv, SlotsExact
      <4>2. i \in Used' /\ fd'[i] = c
        BY <1>1, <1>5, <2>3, <4>1 DEF Used
      <4> QED BY <4>2
    <3> QED BY <3>1, <3>2
  <2> QED BY <2>1, <2>4, <2>5, <2>6 DEF SlotsExact
<1>9. Clean'
  BY <1>1, <1>5 DEF IInv, Clean, Index
<1>10. BacklogExact'
  <2>1. \A i \in 1..Len(backlog') : backlog'[i] # h
    BY <1>3, <1>4, LenProperties, <1>2
  <2>2. \A i \in 1..Len(backlog') : conn'[backlog'[i]] = "queued"
    BY <1>3, <1>5, <2>1 DEF IInv, BacklogExact
  <2>3. \A i, j \in 1..Len(backlog') : backlog'[i] = backlog'[j] => i = j
    BY <1>3 DEF IInv, BacklogExact
  <2> QED BY <2>2, <2>3 DEF BacklogExact
<1>11. Count'
  <2>1. Open' = Open \cup {h} /\ h \notin Open
    BY <1>3, <1>4, <1>5 DEF Open
  <2>2. IsFiniteSet(Open)
    BY ClientsAssumption, FS_Subset DEF Open
  <2>3. Cardinality(Open') = Cardinality(Open) + 1 /\ Cardinality(Open) \in Nat
    BY <2>1, <2>2, FS_AddElement, FS_CardinalityType
  <2> QED BY <1>5, <2>3 DEF IInv, TypeOK, Count, outcome
<1>12. NeverBlocks'
  <2> SUFFICES ASSUME NEW i \in (clientindex + 1)..numclient, revents[i]
               PROVE  Ready(fd[i])'
    BY <1>1, <1>5, <1>6 DEF NeverBlocks
  <2>1. i # numclient /\ i \in clientindex..(numclient - 1)
    BY <1>1, <1>6 DEF IInv, Clean
  <2>2. i \in Used /\ i \in Index
    BY <1>1, <1>6, <2>1 DEF Used, Index
  <2>3. fd'[i] = fd[i] /\ fd[i] # Listener /\ Ready(fd[i])
    BY <1>5, <1>6, <2>1, <2>2, ClientsAssumption DEF IInv, SlotsExact, NeverBlocks
  <2> QED BY <1>5, <2>3 DEF Ready, Readable
<1>13. FailedKnown'
  <2>1. \A i \in Used' : i \in Index /\ (i \in Used \/ i = numclient)
    BY <1>1, <1>5 DEF Used, Index
  <2>2. h # Failed
    BY <1>3, ClientsAssumption
  <2> QED BY <1>5, <2>1, <2>2 DEF IInv, FailedKnown, outcome
<1>14. AnswersInUse'
  BY <1>5, <1>1 DEF Accept, Accepting, Scanning, AnswersInUse, outcome
<1> QED BY <1>7, <1>8, <1>9, <1>10, <1>11, <1>12, <1>13, <1>14 DEF IInv

(* An accept that fails takes a slot that nothing will ever give back.     *)
LEMMA AcceptFailsKeeps ==
    ASSUME IInv, AcceptFails PROVE IInv'
<1>1. numclient \in 1..(PollSize - 1) /\ PollSize \in Nat /\ numclient \in Index
  BY Room DEF IInv, Index, AcceptFails
<1>2. /\ \A i \in Index : fd'[i] = IF i = numclient THEN Failed ELSE fd[i]
      /\ numclient' = numclient + 1 /\ failed' = failed + 1
      /\ UNCHANGED << revents, answering, fate, kernel >>
      /\ fd' \in [Index -> Clients \cup {Listener, NoFd, Failed}]
  BY <1>1 DEF IInv, TypeOK, AcceptFails
<1>3. /\ clientindex \in Nat /\ clientindex < numclient
      /\ clientindex' = clientindex + 1 /\ clientindex' \in 0..PollSize
      /\ pc = "scan" /\ pc' = "scan" /\ answering = {}
  BY AdvanceType DEF AcceptFails, Accepting, Scanning
<1>4. TypeOK'
  BY <1>1, <1>2, <1>3 DEF IInv, TypeOK, kernel
<1>5. \A i \in Used' : i \in Index /\ (i \in Used \/ i = numclient)
  BY <1>1, <1>2 DEF Used, Index
<1>6. \A i \in Used : i # numclient /\ i \in Index /\ i \in Used'
  BY <1>1, <1>2 DEF Used, Index
<1>7. SlotsExact'
  <2>1. fd'[0] = Listener
    BY <1>1, <1>2 DEF IInv, SlotsExact, Index
  <2>2. \A i \in Used' : fd'[i] = Failed \/ (fd'[i] \in Clients /\ conn'[fd'[i]] = "open")
    BY <1>2, <1>5 DEF IInv, SlotsExact, kernel
  <2>3. \A i, j \in Used' : fd'[i] = fd'[j] /\ fd'[i] # Failed => i = j
    BY <1>2, <1>5 DEF IInv, SlotsExact
  <2>4. \A c \in Clients : conn'[c] = "open" => \E i \in Used' : fd'[i] = c
    BY <1>2, <1>6 DEF IInv, SlotsExact, kernel
  <2> QED BY <2>1, <2>2, <2>3, <2>4 DEF SlotsExact
<1>8. Clean' /\ BacklogExact'
  BY <1>1, <1>2 DEF IInv, Clean, BacklogExact, Index, kernel
<1>9. Count'
  <2>1. Cardinality(Open) \in Nat /\ Open' = Open
    BY <1>2, ClientsAssumption, FS_Subset, FS_CardinalityType DEF Open, kernel
  <2> QED BY <1>2, <2>1 DEF IInv, TypeOK, Count
<1>10. FailedKnown' /\ AnswersInUse'
  BY <1>2, <1>3 DEF IInv, TypeOK, FailedKnown, AnswersInUse
<1>11. NeverBlocks'
  <2> SUFFICES ASSUME NEW i \in (clientindex + 1)..numclient, revents[i]
               PROVE  Ready(fd[i])'
    BY <1>1, <1>2, <1>3 DEF NeverBlocks
  <2>1. i # numclient /\ i \in clientindex..(numclient - 1)
    BY <1>1, <1>3 DEF IInv, Clean
  <2>2. i \in Index
    BY <1>1, <1>3, <2>1 DEF Index
  <2>3. fd'[i] = fd[i] /\ Ready(fd[i])
    BY <1>2, <1>3, <2>1, <2>2 DEF IInv, NeverBlocks
  <2> QED BY <1>2, <2>3 DEF Ready, Readable, kernel
<1> QED BY <1>4, <1>7, <1>8, <1>9, <1>10, <1>11 DEF IInv

(* Closing up moves each slot behind the removed one up, with its revents; *)
(* what lands in the last slot in use so far was clean already.            *)
LEMMA RemoveKeeps ==
    ASSUME IInv, Remove PROVE IInv'
<1> DEFINE from(i) == IF clientindex <= i THEN i + 1 ELSE i
<1>1. numclient \in 1..(PollSize - 1) /\ PollSize \in Nat
  BY Room DEF IInv, Remove
<1>2. /\ clientindex \in Nat /\ clientindex < numclient
      /\ clientindex' = clientindex + 1 /\ clientindex' \in 0..PollSize
      /\ pc = "scan" /\ pc' = "scan"
  BY AdvanceType DEF Remove, Visits, Scanning
<1>3. clientindex \in Used /\ Current \in Clients /\ conn[Current] = "open"
  BY CurrentInUse DEF Remove
<1>4. numclient \in 2..(PollSize - 1) /\ numclient' = numclient - 1
  BY <1>1, <1>3 DEF Remove, Used
<1>5. \A i \in Index : i < numclient =>
        /\ from(i) \in Index /\ from(i) <= numclient
        /\ fd'[i] = fd[from(i)] /\ revents'[i] = revents[from(i)]
  BY <1>1, <1>2 DEF IInv, TypeOK, Remove, CloseUp, Index
<1>6. /\ \A i \in Index : i >= numclient => revents'[i] = revents[i]
      /\ fd' \in [Index -> Clients \cup {Listener, NoFd, Failed}]
      /\ revents' \in [Index -> BOOLEAN]
  BY <1>1, <1>2 DEF IInv, TypeOK, Remove, CloseUp, Index
<1>7. /\ \A c \in Clients : conn'[c] = IF c = Current THEN "idle" ELSE conn[c]
      /\ \A c \in Clients : c # Current => peer'[c] = peer[c]
      /\ UNCHANGED << outcome, backlog, inq, unread >>
  BY <1>3 DEF IInv, TypeOK, Remove
<1>8. TypeOK'
  <2>1. /\ conn' \in [Clients -> {"idle", "queued", "open"}]
        /\ peer' \in [Clients -> Peers]
    BY <1>3 DEF IInv, TypeOK, Remove, Peers
  <2>2. numclient' \in 1..PollSize
    BY <1>1, <1>4
  <2> QED BY <1>2, <1>6, <1>7, <2>1, <2>2 DEF IInv, TypeOK, outcome
<1>9. \A i \in Used' :
        /\ i \in Index /\ i < numclient
        /\ from(i) \in Used /\ from(i) # clientindex
        /\ fd[from(i)] # Current
  <2>1. \A i \in Used' : /\ i \in Index /\ i < numclient
                          /\ from(i) \in Used /\ from(i) # clientindex
    BY <1>1, <1>2, <1>4 DEF Used, Index
  <2> QED BY <1>3, <2>1, ClientsAssumption DEF IInv, SlotsExact, Current
<1>10. SlotsExact'
  <2>1. 0 \in Index /\ from(0) = 0
    BY <1>1, <1>3 DEF Index, Used
  <2>2. fd'[0] = Listener
    BY <1>1, <1>5, <2>1 DEF IInv, SlotsExact
  <2>3. \A i \in Used' : fd'[i] = Failed \/ (fd'[i] \in Clients /\ conn'[fd'[i]] = "open")
    BY <1>5, <1>7, <1>9 DEF IInv, SlotsExact
  <2>4. ASSUME NEW i \in Used', NEW j \in Used', fd'[i] = fd'[j], fd'[i] # Failed
        PROVE  i = j
    <3>1. /\ fd[from(i)] = fd[from(j)] /\ from(i) \in Used /\ from(j) \in Used
          /\ fd[from(i)] # Failed
      BY <1>5, <1>9, <2>4
    <3>2. from(i) = from(j)
      BY <3>1 DEF IInv, SlotsExact
    <3> QED BY <1>1, <1>2, <1>9, <3>2 DEF Used, Index
  <2>5. ASSUME NEW c \in Clients, conn'[c] = "open"
        PROVE  \E i \in Used' : fd'[i] = c
    <3>1. PICK k \in Used : fd[k] = c
      BY <1>7, <2>5 DEF IInv, SlotsExact
    <3>2. k # clientindex
      BY <1>7, <2>5, <3>1 DEF Current
    <3> DEFINE i == IF k < clientindex THEN k ELSE k - 1
    <3>3. i \in Used' /\ from(i) = k
      BY <1>1, <1>2, <1>3, <1>4, <3>1, <3>2 DEF Used
    <3> QED BY <1>5, <1>9, <3>1, <3>3
  <2> QED BY <2>2, <2>3, <2>4, <2>5 DEF SlotsExact
<1>11. Clean'
  <2> SUFFICES ASSUME NEW i \in Index, i >= numclient - 1 PROVE revents'[i] = FALSE
    BY <1>4 DEF Clean
  <2>1. CASE i >= numclient
    BY <1>6, <2>1 DEF IInv, Clean
  <2>2. CASE i = numclient - 1
    <3>1. from(i) = numclient /\ i < numclient
      BY <1>1, <1>2, <2>2
    <3>2. revents[numclient] = FALSE
      BY <1>1 DEF IInv, Clean, Index
    <3>3. revents'[i] = revents[numclient]
      BY <1>1, <1>5, <2>2, <3>1
    <3> QED BY <3>2, <3>3
  <2>3. i >= numclient \/ i = numclient - 1
    BY <1>1 DEF Index
  <2> QED BY <2>1, <2>2, <2>3
<1>12. BacklogExact'
  <2>1. \A i \in 1..Len(backlog) : backlog[i] \in Clients /\ backlog[i] # Current
    BY <1>3, ElementOfSeq DEF IInv, TypeOK, BacklogExact
  <2> QED BY <1>7, <2>1 DEF IInv, BacklogExact
<1>13. Count'
  <2>1. Open' = Open \ {Current} /\ Current \in Open
    BY <1>3, <1>7 DEF Open
  <2>2. IsFiniteSet(Open)
    BY ClientsAssumption, FS_Subset DEF Open
  <2>3. Cardinality(Open') = Cardinality(Open) - 1 /\ Cardinality(Open) \in Nat
    BY <2>1, <2>2, FS_RemoveElement, FS_CardinalityType
  <2> QED BY <1>4, <1>7, <2>3 DEF IInv, TypeOK, Count, outcome
<1>14. NeverBlocks'
  <2> SUFFICES ASSUME NEW i \in (clientindex + 1)..(numclient - 2), revents'[i]
               PROVE  Ready(fd[i])'
    BY <1>1, <1>2, <1>4 DEF NeverBlocks
  <2>1. /\ i \in Used' /\ from(i) = i + 1
        /\ i + 1 \in clientindex..(numclient - 1)
    BY <1>1, <1>2, <1>4 DEF Used
  <2>2. /\ fd'[i] = fd[i + 1] /\ revents[i + 1]
        /\ fd[i + 1] # Listener /\ fd[i + 1] # Current
    BY <1>5, <1>9, <2>1, ClientsAssumption DEF IInv, SlotsExact
  <2>3. Ready(fd[i + 1])
    BY <1>2, <2>1, <2>2 DEF IInv, NeverBlocks
  <2> QED BY <1>7, <2>2, <2>3 DEF Ready, Readable
<1>15. FailedKnown'
  BY <1>5, <1>7, <1>9 DEF IInv, FailedKnown, outcome
<1>16. AnswersInUse'
  BY <1>7 DEF Remove, Visits, Scanning, AnswersInUse, outcome
<1> QED BY <1>8, <1>10, <1>11, <1>12, <1>13, <1>14, <1>15, <1>16 DEF IInv

(* Every step of the server and of the clients keeps the invariant.        *)
LEMMA NextIInv == IInv /\ [Next]_vars => IInv'
<1> SUFFICES ASSUME IInv, [Next]_vars PROVE IInv'
  OBVIOUS
<1>1. CASE Server
  BY <1>1, PollKeeps, SkipKeeps, AcceptKeeps, AcceptFailsKeeps, RemoveKeeps, VisitKeeps,
     SendKeeps, OverrunKeeps DEF Server
<1>2. CASE \E c \in Clients : Client(c)
  BY <1>2, ClientKeeps
<1>3. CASE UNCHANGED vars
  <2>1. TypeOK'
    BY <1>3 DEF vars, slots, outcome, kernel, IInv, TypeOK
  <2>2. NeverBlocks' /\ AnswersInUse'
    BY <1>3 DEF vars, slots, outcome, kernel, IInv, NeverBlocks, Ready, Readable,
                AnswersInUse, Used
  <2> QED BY <1>3, <2>1, <2>2, StructureKept DEF vars, slots, outcome, kernel, IInv
<1> QED BY <1>1, <1>2, <1>3 DEF Next

LEMMA Invariance == Spec => []IInv
BY InitIInv, NextIInv, PTL DEF Spec

-----------------------------------------------------------------------------
(* The globals and the kernel's tables keep their shape.                   *)
THEOREM TypeCorrect == Spec => []TypeOK
BY Invariance, PTL DEF IInv

(* The array is exactly the listener, the accepted connections and the -1s *)
(* of failed accepts (lines 148-152 and 163-171).                          *)
THEOREM ArrayExact == Spec => []SlotsExact
BY Invariance, PTL DEF IInv

(* No accept or recv of the scan can block (lines 142-171).                *)
THEOREM ScanNeverBlocks == Spec => []NeverBlocks
BY Invariance, PTL DEF IInv

(* The array overruns, in lines 150 and 169 which check nothing, only with *)
(* POLL_SIZE - 1 slots held by open connections and failed accepts: no run *)
(* of accepts and removals leaks a slot.                                   *)
THEOREM OverrunsOnlyFull == Spec => []OverrunsWhenFull
<1>1. Init => OverrunsWhenFull
  BY DEF Init, OverrunsWhenFull
<1>2. IInv /\ OverrunsWhenFull /\ [Next]_vars => OverrunsWhenFull'
  <2> SUFFICES ASSUME IInv, OverrunsWhenFull, [Next]_vars, fate' = "overrun"
               PROVE  Cardinality(Open') + failed' >= PollSize - 1
    BY DEF OverrunsWhenFull
  <2>1. CASE fate = "overrun"
    <3>1. UNCHANGED << conn, failed >>
      BY <2>1 DEF Next, Server, Client, vars, outcome, kernel
    <3> QED BY <2>1, <3>1 DEF OverrunsWhenFull, Open
  <2>2. CASE fate # "overrun"
    <3>1. Overrun
      BY <2>2 DEF Next, Server, Client, vars, outcome, Poll, Skip, EndScan, Accept,
                  AcceptFails, Remove, Serve, Misread, TCP_Send, Deliver, SendToClosed,
                  Breaks, Sent
    <3>2. numclient = PollSize /\ UNCHANGED << conn, failed >>
      BY <3>1 DEF Overrun, kernel
    <3>3. Cardinality(Open) \in Nat /\ failed \in Nat
      BY ClientsAssumption, FS_Subset, FS_CardinalityType DEF Open, IInv, TypeOK
    <3>4. Open' = Open /\ failed' = failed
      BY <3>2 DEF Open
    <3>5. PollSize = Cardinality(Open) + failed + 1
      BY <3>2 DEF IInv, Count
    <3> QED BY <3>3, <3>4, <3>5
  <2> QED BY <2>1, <2>2
<1> QED BY <1>1, <1>2, Invariance, PTL DEF Spec

(* The process is killed only through an answer to a peer that has closed, *)
(* and loops in TCP_Send only after a failed accept (lines 118-131, 148-   *)
(* 206).                                                                   *)
THEOREM EndsByClosedPeer == Spec => []DiesOfClosedPeers
<1>1. Init => DiesOfClosedPeers
  BY DEF Init, DiesOfClosedPeers
<1>2. IInv /\ DiesOfClosedPeers /\ [Next]_vars => DiesOfClosedPeers'
  <2> SUFFICES ASSUME IInv, DiesOfClosedPeers, [Next]_vars
               PROVE  DiesOfClosedPeers'
    OBVIOUS
  <2>1. CASE fate # "running"
    <3>1. UNCHANGED << fate, conn, peer, failed >>
      BY <2>1 DEF Next, Server, Client, vars, outcome, kernel
    <3> QED BY <3>1 DEF DiesOfClosedPeers
  <2>2. CASE fate = "running" /\ fate' \in {"running", "overrun"}
    BY <2>2 DEF DiesOfClosedPeers
  <2>3. CASE fate = "running" /\ fate' \notin {"running", "overrun"}
    <3>1. Misread \/ TCP_Send
      BY <2>3 DEF Next, Server, Client, vars, outcome, Poll, Skip, EndScan, Accept,
                  AcceptFails, Remove, Overrun, Serve
    <3>2. CASE Misread
      <4>1. Visits /\ UNCHANGED << conn, peer >> /\ peer[Current] = "reset"
        BY <3>2 DEF Misread, kernel
      <4>2. fate' = "killed"
        BY <2>3, <3>2 DEF Misread
      <4>3. Current \in Clients /\ conn[Current] = "open"
        BY <4>1, CurrentInUse
      <4> QED BY <4>1, <4>2, <4>3 DEF DiesOfClosedPeers
    <3>3. CASE TCP_Send
      <4>1. PICK i \in answering : Breaks(i)
        BY <2>3, <3>3 DEF TCP_Send, Upcoming, Deliver, SendToClosed, Sent
      <4>2. /\ UNCHANGED << conn, peer, failed >> /\ i \in Used
            /\ fd[i] # Listener
        BY <4>1, ClientsAssumption DEF Breaks, kernel, IInv, AnswersInUse, SlotsExact
      <4>3. CASE fd[i] = Failed /\ fate' = "spins"
        BY <4>2, <4>3 DEF IInv, FailedKnown, DiesOfClosedPeers
      <4>4. CASE fd[i] \in Clients /\ peer[fd[i]] \in {"gone", "reset"} /\ fate' = "killed"
        <5>1. conn[fd[i]] = "open"
          BY <4>2, <4>4, ClientsAssumption DEF IInv, SlotsExact
        <5> QED BY <4>2, <4>4, <5>1 DEF DiesOfClosedPeers
      <4> QED BY <4>1, <4>2, <4>3, <4>4 DEF Breaks
    <3> QED BY <3>1, <3>2, <3>3
  <2> QED BY <2>1, <2>2, <2>3
<1> QED BY <1>1, <1>2, Invariance, PTL DEF Spec

-----------------------------------------------------------------------------
(* The event loop.  That every request is read, RequestsServed, needs      *)
(* fairness and is for TLC; what it rests on is proved: poll() never sleeps*)
(* over a client that wants something, and a scan is soon over.            *)

(* The server has lost sight of nobody: a connection not begun has asked   *)
(* nothing and not failed, and one not accepted is in the queue.           *)
NobodyLost ==
    /\ \A c \in Clients : conn[c] = "idle" => inq[c] = "none" /\ peer[c] = "up"
    /\ \A c \in Clients :
           conn[c] = "queued" => \E i \in 1..Len(backlog) : backlog[i] = c

(* Whoever wants something, poll() is told of a descriptor that is ready.  *)
NeverOversleeps ==
    pc = "poll" =>
        \A c \in Clients :
            Readable(c) \/ conn[c] = "queued" => \E i \in 0..(numclient - 1) : Ready(fd[i])

(* The slots the loop still comes to: one more while it is at the          *)
(* listener's, since only accept makes the array longer.                   *)
ToVisit == numclient - clientindex + (IF clientindex = 0 THEN 1 ELSE 0)
ScanShortens == pc = "scan" /\ pc' = "scan" => ToVisit \in Nat /\ ToVisit' < ToVisit

(* What the loop itself changes; a client's step is not one of its own.    *)
loopVars == << slots, clientindex, pc >>

LEMMA ClientLost ==
    ASSUME IInv, NobodyLost, NEW c \in Clients, Client(c)
    PROVE  NobodyLost'
<1>1. CASE Connect(c)
  <2>1. backlog' = Append(backlog, c) /\ backlog \in Seq(Clients)
    BY <1>1 DEF Connect, IInv, TypeOK
  <2>2. /\ Len(backlog') = Len(backlog) + 1 /\ Len(backlog) \in Nat
        /\ backlog'[Len(backlog) + 1] = c
        /\ \A i \in 1..Len(backlog) : backlog'[i] = backlog[i]
    BY <2>1, AppendProperties, LenProperties
  <2>3. \A d \in Clients : conn'[d] = IF d = c THEN "queued" ELSE conn[d]
    BY <1>1 DEF Connect, IInv, TypeOK
  <2>4. UNCHANGED << inq, peer >>
    BY <1>1 DEF Connect
  <2>5. ASSUME NEW d \in Clients, conn'[d] = "queued"
        PROVE  \E i \in 1..Len(backlog') : backlog'[i] = d
    <3>1. CASE d = c
      <4>1. Len(backlog) + 1 \in 1..Len(backlog')
        BY <2>2
      <4> QED BY <2>2, <3>1, <4>1
    <3>2. CASE d # c
      <4>1. PICK i \in 1..Len(backlog) : backlog[i] = d
        BY <2>3, <2>5, <3>2 DEF NobodyLost
      <4>2. i \in 1..Len(backlog') /\ backlog'[i] = d
        BY <2>2, <4>1
      <4> QED BY <4>2
    <3> QED BY <3>1, <3>2
  <2>6. \A d \in Clients : conn'[d] = "idle" => inq'[d] = "none" /\ peer'[d] = "up"
    BY <2>3, <2>4 DEF NobodyLost
  <2> QED BY <2>5, <2>6 DEF NobodyLost
<1>2. CASE (\E r \in Requests : Request(c, r)) \/ Receive(c) \/ Close(c)
  <2>1. UNCHANGED << conn, backlog >>
    BY <1>2 DEF Request, Receive, Close
  <2>2. \A d \in Clients : conn[d] = "idle" => inq'[d] = inq[d] /\ peer'[d] = peer[d]
    BY <1>2 DEF Request, Receive, Close, IInv, TypeOK
  <2> QED BY <2>1, <2>2 DEF NobodyLost
<1> QED BY <1>1, <1>2 DEF Client

(* Accepting takes the first of the queue out, and gives it its slot.      *)
LEMMA AcceptLost ==
    ASSUME IInv, NobodyLost, Accept
    PROVE  NobodyLost'
<1>1. /\ backlog # << >> /\ backlog \in Seq(Clients) /\ backlog' = Tail(backlog)
      /\ conn' = [conn EXCEPT ![Head(backlog)] = "open"]
      /\ UNCHANGED << inq, peer >>
  BY DEF Accept, IInv, TypeOK
<1>2. /\ Head(backlog) = backlog[1] /\ Len(backlog') = Len(backlog) - 1
      /\ \A i \in 1..(Len(backlog) - 1) : backlog'[i] = backlog[i + 1]
      /\ Len(backlog) \in Nat
  BY <1>1
<1>3. \A d \in Clients : conn'[d] = IF d = backlog[1] THEN "open" ELSE conn[d]
  BY <1>1, <1>2 DEF IInv, TypeOK
<1>4. ASSUME NEW d \in Clients, conn'[d] = "queued"
      PROVE  \E i \in 1..Len(backlog') : backlog'[i] = d
  <2>1. d # backlog[1] /\ conn[d] = "queued"
    BY <1>3, <1>4
  <2>2. PICK i \in 1..Len(backlog) : backlog[i] = d
    BY <2>1 DEF NobodyLost
  <2>3. i # 1
    BY <2>1, <2>2
  <2>4. i - 1 \in 1..Len(backlog') /\ i - 1 + 1 = i
    BY <1>2, <2>3
  <2>5. backlog'[i - 1] = d
    BY <1>2, <2>2, <2>4
  <2> QED BY <2>4, <2>5
<1>5. \A d \in Clients : conn'[d] = "idle" => inq'[d] = "none" /\ peer'[d] = "up"
  BY <1>1, <1>3 DEF NobodyLost
<1> QED BY <1>4, <1>5 DEF NobodyLost

LEMMA NextLost == IInv /\ NobodyLost /\ [Next]_vars => NobodyLost'
<1> SUFFICES ASSUME IInv, NobodyLost, [Next]_vars PROVE NobodyLost'
  OBVIOUS
<1>1. CASE UNCHANGED << conn, backlog, inq, peer >>
  BY <1>1 DEF NobodyLost
<1>2. CASE Remove
  <2>1. Current \in Clients /\ inq[Current] = "none"
    BY <1>2, CurrentInUse DEF Remove, PeerEnded
  <2>2. /\ \A d \in Clients : conn'[d] = IF d = Current THEN "idle" ELSE conn[d]
        /\ \A d \in Clients : peer'[d] = IF d = Current THEN "up" ELSE peer[d]
        /\ UNCHANGED << backlog, inq >>
    BY <1>2 DEF Remove, IInv, TypeOK
  <2> QED BY <2>1, <2>2 DEF NobodyLost
<1>3. CASE Serve \/ TCP_Send
  <2>1. /\ \A d \in Clients : inq[d] = "none" => inq'[d] = "none"
        /\ \A d \in Clients : peer[d] = "up" => peer'[d] = "up"
        /\ UNCHANGED << conn, backlog >>
    BY <1>3 DEF Serve, TCP_Send, Deliver, SendToClosed, Breaks, kernel, IInv, TypeOK
  <2> QED BY <2>1 DEF NobodyLost
<1> QED
  BY <1>1, <1>2, <1>3, ClientLost, AcceptLost
     DEF Next, Server, Poll, Skip, EndScan, AcceptFails, Overrun, Misread, vars, kernel

LEMMA LostInvariance == Spec => [](IInv /\ NobodyLost)
<1>1. Init => NobodyLost
  BY DEF Init, NobodyLost
<1> QED BY <1>1, NextLost, Invariance, PTL DEF Spec

(* poll() returns whenever a client waits to be accepted, has asked for    *)
(* something or has gone away, after any accepts and removals (lines       *)
(* 136-171).                                                               *)
THEOREM PollWakes == Spec => []NeverOversleeps
<1>1. IInv /\ NobodyLost => NeverOversleeps
  <2> SUFFICES ASSUME IInv, NobodyLost, NEW c \in Clients,
                      Readable(c) \/ conn[c] = "queued"
               PROVE  \E i \in 0..(numclient - 1) : Ready(fd[i])
    BY DEF NeverOversleeps
  <2>1. numclient \in Nat /\ numclient >= 1 /\ fd[0] = Listener
    BY ClientsAssumption DEF IInv, TypeOK, SlotsExact
  <2>2. conn[c] \in {"queued", "open"}
    BY DEF NobodyLost, IInv, TypeOK, Readable
  <2>3. CASE conn[c] = "queued"
    <3>1. PICK i \in 1..Len(backlog) : backlog[i] = c
      BY <2>3 DEF NobodyLost
    <3>2. backlog # << >>
      BY <3>1
    <3>3. Ready(fd[0]) /\ 0 \in 0..(numclient - 1)
      BY <2>1, <3>2 DEF Ready
    <3> QED BY <3>3
  <2>4. CASE conn[c] = "open" /\ Readable(c)
    <3>1. PICK i \in Used : fd[i] = c
      BY <2>4 DEF IInv, SlotsExact
    <3>2. Ready(fd[i])
      BY <2>4, <3>1, ClientsAssumption DEF Ready
    <3>3. i \in 0..(numclient - 1)
      BY <2>1 DEF Used
    <3> QED BY <3>2, <3>3
  <2> QED BY <2>2, <2>3, <2>4
<1> QED BY <1>1, LostInvariance, PTL

(* A scan visits at most one slot more than poll() was told of: whatever   *)
(* it accepts and closes up on the way, each step of it leaves fewer slots *)
(* to come to (lines 142-209).                                             *)
THEOREM ScanEnds == Spec => [][ScanShortens]_loopVars
<1>1. IInv /\ [Next]_vars => [ScanShortens]_loopVars
  <2> SUFFICES ASSUME IInv, Next, pc = "scan", pc' = "scan", ~UNCHANGED loopVars
               PROVE  ToVisit' < ToVisit /\ ToVisit \in Nat
    BY DEF vars, loopVars, ScanShortens
  <2>1. numclient \in Nat /\ clientindex \in Nat
    BY ClientsAssumption DEF IInv, TypeOK
  <2>2. Skip \/ Accept \/ AcceptFails \/ Remove \/ Serve \/ Misread
    BY DEF Next, Client, Server, Poll, EndScan, Overrun, TCP_Send, loopVars
  <2>3. clientindex < numclient /\ clientindex' = clientindex + 1
    BY <2>2 DEF Skip, Accept, AcceptFails, Accepting, Remove, Serve, Misread, Visits,
                Scanning, Advance
  <2>4. CASE Accept \/ AcceptFails
    <3>1. clientindex = 0
      <4>1. clientindex \notin Used
        BY <2>4, ClientsAssumption DEF Accept, AcceptFails, Accepting, Current, IInv, SlotsExact
      <4> QED BY <2>1, <2>3, <4>1 DEF Used
    <3>2. numclient' = numclient + 1
      BY <2>4 DEF Accept, AcceptFails
    <3> QED BY <2>1, <2>3, <3>1, <3>2 DEF ToVisit
  <2>5. CASE Remove
    <3>1. numclient' = numclient - 1
      BY <2>5 DEF Remove
    <3> QED BY <2>1, <2>3, <3>1 DEF ToVisit
  <2>6. CASE Skip \/ Serve \/ Misread
    <3>1. numclient' = numclient
      BY <2>6 DEF Skip, Serve, Misread, slots
    <3> QED BY <2>1, <2>3, <3>1 DEF ToVisit
  <2> QED BY <2>2, <2>4, <2>5, <2>6
<1> QED BY <1>1, Invariance, PTL DEF Spec
=============================================================================
