------------------------------ MODULE LcdLink ------------------------------
(***************************************************************************)
(* The link lifecycle of the simulated LCD displays                        *)
(* (src/src/lcd/threads_lcd.c and _socket_server_listen of my_socket.c).   *)
(*                                                                         *)
(* Every port has one server thread; every connection it accepts gets one  *)
(* receive thread and one send thread.  The threads of a port share, with  *)
(* no lock, three globals: modbus_sockt_state (is the port taken),         *)
(* modbus_client_sockptr (the descriptor NUMBER of the client) and         *)
(* g_comm_qmegid (the message queue between receiver and sender).  All     *)
(* ports share the descriptor table of the process, where a closed number  *)
(* is given to the next accept().  An action is the code between two       *)
(* accesses to shared state.                                               *)
(*                                                                         *)
(* A thread is named by the connection it was created for, a queue by the  *)
(* send thread that created it, a frame by its connection and its number.  *)
(* An operator Name_Slip stands before the operator Name it is a faulty    *)
(* variant of; it is used only to see that the properties notice the slip. *)
(***************************************************************************)
EXTENDS Integers, Sequences, FiniteSets

CONSTANTS Ports,          \* enabled LCD ports (modbus_sockt_state_set[i] # 0)
          MaxConns,       \* bound: connections accepted in all
          Fds,            \* descriptor numbers accept() can return
          MaxErr,         \* recv() errors tolerated: 30 in the code
          QueueLen,       \* frames a message queue holds before EAGAIN
          MaxFrames,      \* bound: frames a client sends on a connection
          CreateMayFail,  \* may CreateSettingThread and msgget fail?
          ZeroIsFree,     \* is the first queue made here the first of the system?
          Stdin,          \* the file behind descriptor 0 at the start
          None            \* no port, no connection, no queue

Conns == 1..MaxConns      \* connections, numbered as they are accepted

ASSUME LinkAssumption ==
  /\ Fds \subseteq Nat
  /\ MaxConns \in Nat /\ MaxErr \in Nat /\ QueueLen \in Nat /\ MaxFrames \in Nat
  /\ CreateMayFail \in BOOLEAN /\ ZeroIsFree \in BOOLEAN
  /\ None \notin Ports /\ None \notin Conns /\ None # 0
  /\ Stdin \notin Conns /\ Stdin # None

VARIABLES
  modbus_sockt_state,     \* port -> ON / OFF
  modbus_client_sockptr,  \* port -> descriptor number, 0 before the first
  g_comm_qmegid,          \* port -> queue, None: creation failed, 0: none yet
  server,                 \* port -> where its server thread is
  client_sockptr,         \* port -> server thread's local descriptor
  client,                 \* port -> connection behind client_sockptr
  table,                  \* kernel: descriptor -> open file or None (closed)
  peer,                   \* connection -> idle, up, fin (closed), rst (reset)
  port,                   \* connection -> port that serves it
  sent, read,             \* connection -> frames sent by peer / recv()ed here
  receiver, fd, err,      \* receive thread: where, its locals fd and i
  qid, got,               \* receive thread: argument qid, frame just read
  sender, squeue, job,    \* send thread: where, queue polled, frame in hand
  queue,                  \* queue -> frames in it
  queueZero,              \* kernel: queue with id 0; 0: the next one made,
                          \* None: it belongs to another program
  handled                 \* history: frames given to AnalysModbus

globals    == <<modbus_sockt_state, modbus_client_sockptr, g_comm_qmegid>>
serverVars == <<server, client_sockptr, client>>
netVars    == <<table, peer, port, sent, read>>
recvVars   == <<receiver, fd, err, qid, got>>
sendVars   == <<sender, squeue, job, handled>>
queueVars  == <<queue, queueZero>>
vars == <<globals, serverVars, netVars, recvVars, sendVars, queueVars>>

Frames == Conns \X (1..MaxFrames)

\* A receive thread that is still in its loop, up to the store of OFF.
InLoop(c) ==
  receiver[c] \in {"fetch", "select", "load", "recv", "put", "setoff"}

\* select() reports a connection readable: data, end of file or an error.
Readable(c) == c \in Conns /\ (read[c] < sent[c] \/ peer[c] # "up")

TypeOK ==
  /\ modbus_sockt_state \in [Ports -> {"ON", "OFF"}]
  /\ modbus_client_sockptr \in [Ports -> Fds \cup {0}]
  /\ g_comm_qmegid \in [Ports -> Conns \cup {0, None}]
  /\ server \in [Ports -> {"test", "listen", "seton", "setfd", "mkrecv",
                           "mksend"}]
  /\ client_sockptr \in [Ports -> Fds \cup {0}]
  /\ client \in [Ports -> Conns \cup {None}]
  /\ table \in [Fds -> Conns \cup {Stdin, None}]
  /\ peer \in [Conns -> {"idle", "up", "fin", "rst"}]
  /\ port \in [Conns -> Ports \cup {None}]
  /\ sent \in [Conns -> 0..MaxFrames]
  /\ read \in [Conns -> 0..MaxFrames]
  /\ receiver \in [Conns -> {"none", "fetch", "select", "load", "recv", "put",
                             "setoff", "close", "done"}]
  /\ fd \in [Conns -> Fds \cup {0}]
  /\ err \in [Conns -> 0..MaxErr+1]
  /\ qid \in [Conns -> Conns \cup {0, None}]
  /\ got \in [Conns -> Frames \cup {None}]
  /\ sender \in [Conns -> {"none", "create", "test", "poll", "analyse", "done"}]
  /\ squeue \in [Conns -> Conns \cup {None}]
  /\ job \in [Conns -> Frames \cup {None}]
  /\ queue \in [Conns -> Seq(Frames)]
  /\ queueZero \in Conns \cup {0, None}
  /\ handled \subseteq Frames

Init ==
  /\ modbus_sockt_state = [p \in Ports |-> "OFF"]
  /\ modbus_client_sockptr = [p \in Ports |-> 0]
  /\ g_comm_qmegid = [p \in Ports |-> 0]
  /\ server = [p \in Ports |-> "test"]
  /\ client_sockptr = [p \in Ports |-> 0]
  /\ client = [p \in Ports |-> None]
  /\ table = [f \in Fds |-> IF f = 0 THEN Stdin ELSE None]
  /\ peer = [c \in Conns |-> "idle"]
  /\ port = [c \in Conns |-> None]
  /\ sent = [c \in Conns |-> 0]
  /\ read = [c \in Conns |-> 0]
  /\ receiver = [c \in Conns |-> "none"]
  /\ fd = [c \in Conns |-> 0]
  /\ err = [c \in Conns |-> 0]
  /\ qid = [c \in Conns |-> None]
  /\ got = [c \in Conns |-> None]
  /\ sender = [c \in Conns |-> "none"]
  /\ squeue = [c \in Conns |-> None]
  /\ job = [c \in Conns |-> None]
  /\ queue = [c \in Conns |-> <<>>]
  /\ queueZero = IF ZeroIsFree THEN 0 ELSE None
  /\ handled = {}

-----------------------------------------------------------------------------
(* The server thread of a port: Modbus_ServerConnectThread.                *)

PortFree_Unchecked(p) == TRUE
PortFree(p) == modbus_sockt_state[p] = "OFF"

\* It looks at the state once a second, and listens only when the port is free.
ServerTest(p) ==
  /\ server[p] = "test"
  /\ PortFree(p)
  /\ server' = [server EXCEPT ![p] = "listen"]
  /\ UNCHANGED <<globals, client_sockptr, client, netVars, recvVars, sendVars,
                 queueVars>>

\* accept() hands out the lowest closed descriptor for the next connection.
LowestClosed(f) == table[f] = None /\ \A g \in Fds : table[g] = None => f <= g
NextConn(c)     == peer[c] = "idle" /\ \A d \in Conns : peer[d] = "idle" => c <= d

Accept(p, c) ==
  /\ server[p] = "listen"
  /\ NextConn(c)
  /\ \E f \in Fds \ {0} :
       /\ LowestClosed(f)
       /\ table' = [table EXCEPT ![f] = c]
       /\ client_sockptr' = [client_sockptr EXCEPT ![p] = f]
  /\ client' = [client EXCEPT ![p] = c]
  /\ peer' = [peer EXCEPT ![c] = "up"]
  /\ port' = [port EXCEPT ![c] = p]
  /\ server' = [server EXCEPT ![p] = "seton"]
  /\ UNCHANGED <<globals, sent, read, recvVars, sendVars, queueVars>>

\* Number 0, when somebody has closed it, is taken for an error: the connection
\* stays open and nobody serves it.
AcceptZero(p, c) ==
  /\ server[p] = "listen"
  /\ NextConn(c)
  /\ 0 \in Fds /\ table[0] = None
  /\ table' = [table EXCEPT ![0] = c]
  /\ peer' = [peer EXCEPT ![c] = "up"]
  /\ server' = [server EXCEPT ![p] = "test"]
  /\ UNCHANGED <<globals, client_sockptr, client, port, sent, read, recvVars,
                 sendVars, queueVars>>

\* The kernel gives the lowest closed number: Accept is not enabled while 0 is
\* one.  Number 0 is closed by the exit of the PLC receiver alone (Links).
AcceptNext(p, c) ==
  IF 0 \in Fds /\ table[0] = None THEN AcceptZero(p, c) ELSE Accept(p, c)

\* select() or accept() fails: a result <= 0 is logged, nothing is stored.
AcceptFails(p) ==
  /\ server[p] = "listen"
  /\ server' = [server EXCEPT ![p] = "test"]
  /\ UNCHANGED <<globals, client_sockptr, client, netVars, recvVars, sendVars,
                 queueVars>>

\* The port is marked ON before the descriptor is published.
SetOn(p) ==
  /\ server[p] = "seton"
  /\ modbus_sockt_state' = [modbus_sockt_state EXCEPT ![p] = "ON"]
  /\ server' = [server EXCEPT ![p] = "setfd"]
  /\ UNCHANGED <<modbus_client_sockptr, g_comm_qmegid, client_sockptr, client,
                 netVars, recvVars, sendVars, queueVars>>

PublishedFd_Forgotten(p) == modbus_client_sockptr[p]
PublishedFd(p) == client_sockptr[p]

SetFd(p) ==
  /\ server[p] = "setfd"
  /\ modbus_client_sockptr' =
       [modbus_client_sockptr EXCEPT ![p] = PublishedFd(p)]
  /\ server' = [server EXCEPT ![p] = "mkrecv"]
  /\ UNCHANGED <<modbus_sockt_state, g_comm_qmegid, client_sockptr, client,
                 netVars, recvVars, sendVars, queueVars>>

\* A failed thread creation is only logged.
MakeReceiver(p) ==
  /\ server[p] = "mkrecv"
  /\ \/ receiver' = [receiver EXCEPT ![client[p]] = "fetch"]
     \/ CreateMayFail /\ receiver' = receiver
  /\ server' = [server EXCEPT ![p] = "mksend"]
  /\ UNCHANGED <<globals, client_sockptr, client, netVars, fd, err, qid, got,
                 sendVars, queueVars>>

MakeSender(p) ==
  /\ server[p] = "mksend"
  /\ \/ sender' = [sender EXCEPT ![client[p]] = "create"]
     \/ CreateMayFail /\ sender' = sender
  /\ server' = [server EXCEPT ![p] = "test"]
  /\ UNCHANGED <<globals, client_sockptr, client, netVars, recvVars, squeue,
                 job, handled, queueVars>>

-----------------------------------------------------------------------------
(* The receive thread of a connection: Modbus_clientRecv_thread, recvFrame. *)

\* The descriptor number is read afresh on every turn of the loop.
FetchFd(c) ==
  /\ receiver[c] = "fetch"
  /\ fd' = [fd EXCEPT ![c] = modbus_client_sockptr[port[c]]]
  /\ receiver' = [receiver EXCEPT ![c] = "select"]
  /\ UNCHANGED <<globals, serverVars, netVars, err, qid, got, sendVars,
                 queueVars>>

\* select() fails, EBADF when the number is closed, and the loop ends.
SelectFails(c) ==
  /\ receiver[c] = "select"
  /\ receiver' = [receiver EXCEPT ![c] = "setoff"]
  /\ UNCHANGED <<globals, serverVars, netVars, fd, err, qid, got, sendVars,
                 queueVars>>

\* select() on an open number: readable, or 200 ms pass with nothing to read.
SelectReturns(c) ==
  /\ receiver[c] = "select"
  /\ table[fd[c]] # None
  /\ receiver' = [receiver EXCEPT
       ![c] = IF Readable(table[fd[c]]) THEN "load" ELSE "fetch"]
  /\ UNCHANGED <<globals, serverVars, netVars, fd, err, qid, got, sendVars,
                 queueVars>>

\* The queue is read from the global for the call of recvFrame ...
LoadQueue(c) ==
  /\ receiver[c] = "load"
  /\ qid' = [qid EXCEPT ![c] = g_comm_qmegid[port[c]]]
  /\ receiver' = [receiver EXCEPT ![c] = "recv"]
  /\ UNCHANGED <<globals, serverVars, netVars, fd, err, got, sendVars, queueVars>>

\* ... in which recv() returns data: one frame is read.
RecvData(c) ==
  /\ receiver[c] = "recv"
  /\ LET d == table[fd[c]] IN
       /\ d \in Conns
       /\ read[d] < sent[d]
       /\ read' = [read EXCEPT ![d] = @ + 1]
       /\ got' = [got EXCEPT ![c] = <<d, read[d] + 1>>]
  /\ receiver' = [receiver EXCEPT ![c] = "put"]
  /\ UNCHANGED <<globals, serverVars, table, peer, port, sent, fd, err, qid,
                 sendVars, queueVars>>

\* recv() returns 0, the peer has closed: the loop goes on, no error counted.
RecvEof(c) ==
  /\ receiver[c] = "recv"
  /\ LET d == table[fd[c]] IN
       d \in Conns /\ read[d] = sent[d] /\ peer[d] = "fin"
  /\ qid' = [qid EXCEPT ![c] = None]
  /\ receiver' = [receiver EXCEPT ![c] = "fetch"]
  /\ UNCHANGED <<globals, serverVars, netVars, fd, err, got, sendVars, queueVars>>

TooManyErrors_OffByOne(n) == n > MaxErr + 1
TooManyErrors(n) == n > MaxErr

\* recv() fails: the closed number, a reset (reported once, then end of file)
\* or a transient error.  More than MaxErr since the last frame end the loop.
RecvError(c) ==
  /\ receiver[c] = "recv"
  /\ err' = [err EXCEPT ![c] = @ + 1]
  /\ receiver' = [receiver EXCEPT
       ![c] = IF TooManyErrors(err[c] + 1) THEN "setoff" ELSE "fetch"]
  /\ LET d == table[fd[c]] IN
       /\ d = None \/ Readable(d)
       /\ peer' = IF d \in Conns /\ peer[d] = "rst"
                  THEN [peer EXCEPT ![d] = "fin"] ELSE peer
  /\ qid' = [qid EXCEPT ![c] = None]
  /\ UNCHANGED <<globals, serverVars, table, port, sent, read, fd, got, sendVars,
                 queueVars>>

\* The global is 0 until the port has a queue, and 0 is the id of the first
\* queue the system has made: perhaps that of another port.
QueueBehind(q) == IF q # 0 THEN q ELSE IF queueZero = 0 THEN None ELSE queueZero

\* msgsnd() without waiting: a frame for a full or missing queue is dropped.
PutFrame(c) ==
  /\ receiver[c] = "put"
  /\ LET q    == QueueBehind(qid[c])
         room == q # None /\ Len(queue[q]) < QueueLen
     IN  /\ queue' = IF room THEN [queue EXCEPT ![q] = Append(@, got[c])] ELSE queue
         /\ err' = IF room THEN [err EXCEPT ![c] = 0] ELSE err
  /\ got' = [got EXCEPT ![c] = None]
  /\ qid' = [qid EXCEPT ![c] = None]
  /\ receiver' = [receiver EXCEPT ![c] = "fetch"]
  /\ UNCHANGED <<globals, serverVars, netVars, fd, sendVars, queueZero>>

StateAfterLoop_NotReset(p) == modbus_sockt_state[p]
StateAfterLoop(p) == "OFF"

\* After the loop the port is offered again ...
SetOff(c) ==
  /\ receiver[c] = "setoff"
  /\ modbus_sockt_state' =
       [modbus_sockt_state EXCEPT ![port[c]] = StateAfterLoop(port[c])]
  /\ receiver' = [receiver EXCEPT ![c] = "close"]
  /\ fd' = [fd EXCEPT ![c] = 0]
  /\ err' = [err EXCEPT ![c] = 0]
  /\ UNCHANGED <<modbus_client_sockptr, g_comm_qmegid, serverVars, netVars,
                 qid, got, sendVars, queueVars>>

\* (The slip: STATUS_OFF was stored in the number, as the PLC link does.)
ClosedNumber_Zero(p) == 0
ClosedNumber(p) == modbus_client_sockptr[p]

\* ... and then whatever number the port has NOW is closed.
CloseFd(c) ==
  /\ receiver[c] = "close"
  /\ table' = [table EXCEPT ![ClosedNumber(port[c])] = None]
  /\ receiver' = [receiver EXCEPT ![c] = "done"]
  /\ UNCHANGED <<globals, serverVars, peer, port, sent, read, fd, err, qid,
                 got, sendVars, queueVars>>

-----------------------------------------------------------------------------
(* The send thread of a connection: Modbus_clientSend_thread.              *)

\* (The slip: one global for all ports, as the PLC link has it.)
Published_ForAll(c, q) == [p \in Ports |-> q]
Published(c, q) == [g_comm_qmegid EXCEPT ![port[c]] = q]

\* It makes a new queue and publishes it for the whole port; msgget() may fail.
CreateQueue(c) ==
  /\ sender[c] = "create"
  /\ \/ /\ g_comm_qmegid' = Published(c, c)
        /\ queueZero' = IF queueZero = 0 THEN c ELSE queueZero
     \/ /\ CreateMayFail
        /\ g_comm_qmegid' = Published(c, None)
        /\ UNCHANGED queueZero
  /\ sender' = [sender EXCEPT ![c] = "test"]
  /\ UNCHANGED <<modbus_sockt_state, modbus_client_sockptr, serverVars,
                 netVars, recvVars, squeue, job, handled, queue>>

\* The loop test; the queue to poll is read right after it.
SenderTest(c) ==
  /\ sender[c] = "test"
  /\ IF modbus_sockt_state[port[c]] = "ON"
     THEN /\ sender' = [sender EXCEPT ![c] = "poll"]
          /\ squeue' = [squeue EXCEPT ![c] = g_comm_qmegid[port[c]]]
     ELSE /\ sender' = [sender EXCEPT ![c] = "done"]
          /\ squeue' = squeue
  /\ UNCHANGED <<globals, serverVars, netVars, recvVars, job, handled, queueVars>>

QueueAfterTake_Peek(q) == q
QueueAfterTake(q) == Tail(q)

\* os_rev_msgqueue takes a frame ...
TakeFrame(c) ==
  /\ sender[c] = "poll"
  /\ squeue[c] # None
  /\ queue[squeue[c]] # <<>>
  /\ job' = [job EXCEPT ![c] = Head(queue[squeue[c]])]
  /\ queue' = [queue EXCEPT ![squeue[c]] = QueueAfterTake(@)]
  /\ squeue' = [squeue EXCEPT ![c] = None]
  /\ sender' = [sender EXCEPT ![c] = "analyse"]
  /\ UNCHANGED <<globals, serverVars, netVars, recvVars, handled, queueZero>>

IdleSender_Leaves == "done"
IdleSender == "test"

\* ... or finds none in its ten polls.
PollTimeout(c) ==
  /\ sender[c] = "poll"
  /\ squeue[c] # None => queue[squeue[c]] = <<>>
  /\ squeue' = [squeue EXCEPT ![c] = None]
  /\ sender' = [sender EXCEPT ![c] = IdleSender]
  /\ UNCHANGED <<globals, serverVars, netVars, recvVars, job, handled, queueVars>>

\* AnalysModbus handles the frame.
Analyse(c) ==
  /\ sender[c] = "analyse"
  /\ handled' = handled \cup {job[c]}
  /\ job' = [job EXCEPT ![c] = None]
  /\ sender' = [sender EXCEPT ![c] = "test"]
  /\ UNCHANGED <<globals, serverVars, netVars, recvVars, squeue, queueVars>>

-----------------------------------------------------------------------------
(* The client at the other end.                                            *)

\* What it does after the process has closed the connection is never seen.
Open(c) == \E f \in Fds : table[f] = c

ClientSends(c) ==
  /\ peer[c] = "up" /\ Open(c) /\ sent[c] < MaxFrames
  /\ sent' = [sent EXCEPT ![c] = @ + 1]
  /\ UNCHANGED <<globals, serverVars, table, peer, port, read, recvVars,
                 sendVars, queueVars>>

ClientLeaves(c) ==
  /\ peer[c] = "up" /\ Open(c)
  /\ \E how \in {"fin", "rst"} : peer' = [peer EXCEPT ![c] = how]
  /\ UNCHANGED <<globals, serverVars, table, port, sent, read, recvVars,
                 sendVars, queueVars>>

-----------------------------------------------------------------------------
Server(p) ==
  \/ ServerTest(p) \/ (\E c \in Conns : AcceptNext(p, c)) \/ AcceptFails(p)
  \/ SetOn(p) \/ SetFd(p) \/ MakeReceiver(p) \/ MakeSender(p)

Receiver(c) ==
  \/ FetchFd(c) \/ SelectFails(c) \/ SelectReturns(c) \/ LoadQueue(c)
  \/ RecvData(c) \/ RecvEof(c) \/ RecvError(c) \/ PutFrame(c) \/ SetOff(c) \/ CloseFd(c)

Sender(c) ==
  \/ CreateQueue(c) \/ SenderTest(c) \/ TakeFrame(c) \/ PollTimeout(c)
  \/ Analyse(c)

Client(c) == ClientSends(c) \/ ClientLeaves(c)

Next ==
  \/ \E p \in Ports : Server(p)
  \/ \E c \in Conns : Receiver(c) \/ Sender(c) \/ Client(c)

Spec == Init /\ [][Next]_vars

\* Every thread of the process keeps being scheduled; no promise about clients.
FairSpec ==
  /\ Spec
  /\ \A p \in Ports : WF_vars(Server(p))
  /\ \A c \in Conns : WF_vars(Receiver(c)) /\ WF_vars(Sender(c))
-----------------------------------------------------------------------------
(* Properties.                                                             *)

\* A port never has two receive threads reading for it: the server thread
\* makes the next one only after the last one has stored OFF.
OneReceiver ==
  \A c, d \in Conns :
    InLoop(c) /\ InLoop(d) /\ port[c] = port[d] => c = d

\* A port marked ON has a receive thread, the only one that can mark it OFF
\* again, or its server thread is about to make it: no port is taken for ever
\* by nobody, as long as thread creation does not fail.
TakenPortIsServed ==
  ~CreateMayFail =>
    \A p \in Ports : modbus_sockt_state[p] = "ON" =>
      \/ server[p] \in {"setfd", "mkrecv"}
      \/ \E c \in Conns : port[c] = p /\ InLoop(c)

\* A receive thread in its loop works on the descriptor number accept() gave
\* for its own connection, although it reads it again from a global that the
\* next connection overwrites.
ReceiverKeepsItsNumber ==
  \A c \in Conns : InLoop(c) =>
    /\ client[port[c]] = c
    /\ modbus_client_sockptr[port[c]] = client_sockptr[port[c]]
    /\ receiver[c] # "fetch" => fd[c] = client_sockptr[port[c]]

\* No request is executed twice, whatever send threads and queues of earlier
\* connections are still alive: a frame in the hand of a send thread has not
\* been given to AnalysModbus before and is in no other thread's hand.
HandledOnce ==
  \A c \in Conns : sender[c] = "analyse" =>
    /\ job[c] \notin handled
    /\ \A d \in Conns \ {c} : sender[d] = "analyse" => job[d] # job[c]

\* A receive thread puts frames into queues of its own port, and a send thread
\* polls only those, although both go through a global that every new connection
\* replaces.  Not so with what comes before the port has had a queue: it goes to
\* id 0, whosever queue that is (QueueBehind).
QueueOfOwnPort ==
  \A c \in Conns :
    /\ LET q == QueueBehind(qid[c]) IN
         q \in Conns => port[q] = port[c] \/ qid[c] = 0
    /\ squeue[c] \in Conns => port[squeue[c]] = port[c]

\* A receive thread that leaves its loop gets the port offered to a new client.
PortIsOfferedAgain ==
  \A p \in Ports, c \in Conns :
    receiver[c] = "setoff" /\ port[c] = p ~> server[p] = "listen"

\* Frames in the queue a port uses are taken out as long as the port stays ON
\* and keeps that queue: some send thread, of this connection or of an earlier
\* one, is polling it.
QueueIsServed ==
  \A p \in Ports, q \in Conns :
    g_comm_qmegid[p] = q /\ queue[q] # <<>>
      ~> \/ queue[q] = <<>> \/ g_comm_qmegid[p] # q
         \/ modbus_sockt_state[p] = "OFF"

\* What the log of the exit says, "the network is down, leave and wait for the
\* next connection": the connection closed there is the thread's own.
ExitClosesOwnConnection ==
  [][\A c \in Conns : receiver[c] = "close" /\ receiver'[c] = "done" =>
       LET d == table[modbus_client_sockptr[port[c]]] IN d \in {None, c}]_vars

\* What the same log says of a client that has gone: the port that served it
\* waits for the next connection.
GoneClientFreesPort ==
  \A p \in Ports, c \in Conns :
    port[c] = p /\ peer[c] \in {"fin", "rst"} ~> modbus_sockt_state[p] = "OFF"
=============================================================================
