------------------------------ MODULE PlcLink ------------------------------
(***************************************************************************)
(* The link of the simulated PLC (src/src/simu_plc/threads_plc.c and       *)
(* protocol_plc.c): one server thread, and for the connection it accepts   *)
(* one receive thread and one send thread, written after the threads of    *)
(* the displays (LcdLink) but with scalars for globals and another exit:   *)
(* the descriptor is overwritten with STATUS_OFF and the port state is     *)
(* left alone.  A receive thread that leaves thus never offers the port    *)
(* again, so no thread is made twice and the locals are scalars too.       *)
(*                                                                         *)
(* The descriptor table, the connections and the message queues are those  *)
(* of the process and the kernel: Links shares them with the displays.     *)
(* A queue has the name of the connection whose send thread made it.       *)
(***************************************************************************)
EXTENDS Integers, Sequences, FiniteSets

CONSTANTS MaxConns, Fds, MaxErr, QueueLen, MaxFrames, CreateMayFail, Stdin,
          None        \* all as in LcdLink

VARIABLES
  table, peer, sent, read, queue, queueZero,   \* shared, as in LcdLink
  modbus_sockt_state_plc,      \* ON / OFF
  modbus_client_sockptr_plc,   \* descriptor number of the client
  g_comm_qmegid_plc,           \* queue, None: creation failed, 0: none yet
  server_plc, client_sockptr_plc, client_plc,  \* server thread, its connection
  receiver_plc, fd_plc, err_plc, qid_plc, got_plc,   \* receive thread
  sender_plc, job_plc,         \* send thread
  answers                      \* history: who asked, who was sent the answer

sharedVars == <<table, peer, sent, read, queue, queueZero>>
globals    == <<modbus_sockt_state_plc, modbus_client_sockptr_plc, g_comm_qmegid_plc>>
serverVars == <<server_plc, client_sockptr_plc, client_plc>>
recvVars   == <<receiver_plc, fd_plc, err_plc, qid_plc, got_plc>>
sendVars   == <<sender_plc, job_plc, answers>>

Conns  == 1..MaxConns
Frames == Conns \X (1..MaxFrames)

InLoop == receiver_plc \in {"fetch", "select", "load", "recv", "put", "setptr"}
Readable(c) == c \in Conns /\ (read[c] < sent[c] \/ peer[c] # "up")

TypeOK ==
  /\ modbus_sockt_state_plc \in {"ON", "OFF"}
  /\ modbus_client_sockptr_plc \in Fds \cup {0}
  /\ g_comm_qmegid_plc \in Conns \cup {0, None}
  /\ server_plc \in {"test", "listen", "seton", "setfd", "mkrecv", "mksend"}
  /\ client_sockptr_plc \in Fds \cup {0}
  /\ client_plc \in Conns \cup {None}
  /\ receiver_plc \in {"none", "fetch", "select", "load", "recv", "put", "setptr",
                       "close", "done"}
  /\ fd_plc \in Fds \cup {0}
  /\ err_plc \in 0..MaxErr+1
  /\ qid_plc \in Conns \cup {0, None}
  /\ got_plc \in Frames \cup {None}
  /\ sender_plc \in {"none", "create", "test", "poll", "analyse", "done"}
  /\ job_plc \in Frames \cup {None}
  /\ answers \subseteq Conns \X Conns

Init ==
  /\ modbus_sockt_state_plc = "OFF"
  /\ modbus_client_sockptr_plc = 0
  /\ g_comm_qmegid_plc = 0
  /\ server_plc = "test" /\ client_sockptr_plc = 0 /\ client_plc = None
  /\ receiver_plc = "none" /\ fd_plc = 0 /\ err_plc = 0
  /\ qid_plc = None /\ got_plc = None
  /\ sender_plc = "none" /\ job_plc = None
  /\ answers = {}

-----------------------------------------------------------------------------
(* The server thread: Plc_ServerConnectThread.                             *)

ServerTest ==
  /\ server_plc = "test"
  /\ modbus_sockt_state_plc = "OFF"
  /\ server_plc' = "listen"
  /\ UNCHANGED <<sharedVars, globals, client_sockptr_plc, client_plc, recvVars,
                 sendVars>>

\* accept() hands out the lowest closed descriptor for the next connection.
\* Number 0 would be refused, but only a receive thread that has left closes
\* it, and then the port is ON for ever.
LowestClosed(f) == table[f] = None /\ \A g \in Fds : table[g] = None => f <= g

Accept(c) ==
  /\ server_plc = "listen"
  /\ peer[c] = "idle" /\ \A d \in Conns : peer[d] = "idle" => c <= d
  /\ \E f \in Fds \ {0} :
       /\ LowestClosed(f)
       /\ table' = [table EXCEPT ![f] = c]
       /\ client_sockptr_plc' = f
  /\ client_plc' = c
  /\ peer' = [peer EXCEPT ![c] = "up"]
  /\ server_plc' = "seton"
  /\ UNCHANGED <<sent, read, queue, queueZero, globals, recvVars, sendVars>>

AcceptFails ==
  /\ server_plc = "listen"
  /\ server_plc' = "test"
  /\ UNCHANGED <<sharedVars, globals, client_sockptr_plc, client_plc, recvVars,
                 sendVars>>

SetOn ==
  /\ server_plc = "seton"
  /\ modbus_sockt_state_plc' = "ON"
  /\ server_plc' = "setfd"
  /\ UNCHANGED <<sharedVars, modbus_client_sockptr_plc, g_comm_qmegid_plc,
                 client_sockptr_plc, client_plc, recvVars, sendVars>>

PublishedFd_Forgotten == modbus_client_sockptr_plc
PublishedFd == client_sockptr_plc

SetFd ==
  /\ server_plc = "setfd"
  /\ modbus_client_sockptr_plc' = PublishedFd
  /\ server_plc' = "mkrecv"
  /\ UNCHANGED <<sharedVars, modbus_sockt_state_plc, g_comm_qmegid_plc,
                 client_sockptr_plc, client_plc, recvVars, sendVars>>

MakeReceiver ==
  /\ server_plc = "mkrecv"
  /\ \/ receiver_plc' = "fetch"
     \/ CreateMayFail /\ receiver_plc' = receiver_plc
  /\ server_plc' = "mksend"
  /\ UNCHANGED <<sharedVars, globals, client_sockptr_plc, client_plc, fd_plc,
                 err_plc, qid_plc, got_plc, sendVars>>

MakeSender ==
  /\ server_plc = "mksend"
  /\ \/ sender_plc' = "create"
     \/ CreateMayFail /\ sender_plc' = sender_plc
  /\ server_plc' = "test"
  /\ UNCHANGED <<sharedVars, globals, client_sockptr_plc, client_plc, recvVars,
                 job_plc, answers>>

-----------------------------------------------------------------------------
(* The receive thread: Plc_clientRecv_thread, recvFrame.                   *)

FetchFd ==
  /\ receiver_plc = "fetch"
  /\ fd_plc' = modbus_client_sockptr_plc
  /\ receiver_plc' = "select"
  /\ UNCHANGED <<sharedVars, globals, serverVars, err_plc, qid_plc, got_plc,
                 sendVars>>

SelectFails ==
  /\ receiver_plc = "select"
  /\ receiver_plc' = "setptr"
  /\ UNCHANGED <<sharedVars, globals, serverVars, fd_plc, err_plc, qid_plc,
                 got_plc, sendVars>>

\* select() on an open number: readable, or 8 ms pass with nothing to read.
SelectReturns ==
  /\ receiver_plc = "select"
  /\ table[fd_plc] # None
  /\ receiver_plc' = IF Readable(table[fd_plc]) THEN "load" ELSE "fetch"
  /\ UNCHANGED <<sharedVars, globals, serverVars, fd_plc, err_plc, qid_plc,
                 got_plc, sendVars>>

\* The queue of the moment goes into the call of recvFrame.
LoadQueue ==
  /\ receiver_plc = "load"
  /\ qid_plc' = g_comm_qmegid_plc
  /\ receiver_plc' = "recv"
  /\ UNCHANGED <<sharedVars, globals, serverVars, fd_plc, err_plc, got_plc, sendVars>>

RecvData ==
  /\ receiver_plc = "recv"
  /\ LET d == table[fd_plc] IN
       /\ d \in Conns
       /\ read[d] < sent[d]
       /\ read' = [read EXCEPT ![d] = @ + 1]
       /\ got_plc' = <<d, read[d] + 1>>
  /\ receiver_plc' = "put"
  /\ UNCHANGED <<table, peer, sent, queue, queueZero, globals, serverVars,
                 fd_plc, err_plc, qid_plc, sendVars>>

RecvEof ==
  /\ receiver_plc = "recv"
  /\ LET d == table[fd_plc] IN
       d \in Conns /\ read[d] = sent[d] /\ peer[d] = "fin"
  /\ qid_plc' = None
  /\ receiver_plc' = "fetch"
  /\ UNCHANGED <<sharedVars, globals, serverVars, fd_plc, err_plc, got_plc, sendVars>>

TooManyErrors_OffByOne(n) == n > MaxErr + 1
TooManyErrors(n) == n > MaxErr

RecvError ==
  /\ receiver_plc = "recv"
  /\ err_plc' = err_plc + 1
  /\ receiver_plc' = IF TooManyErrors(err_plc + 1) THEN "setptr" ELSE "fetch"
  /\ LET d == table[fd_plc] IN
       /\ d = None \/ Readable(d)
       /\ peer' = IF d \in Conns /\ peer[d] = "rst"
                  THEN [peer EXCEPT ![d] = "fin"] ELSE peer
  /\ qid_plc' = None
  /\ UNCHANGED <<table, sent, read, queue, queueZero, globals, serverVars,
                 fd_plc, got_plc, sendVars>>

\* The id 0 stands for the first queue of the system, as in LcdLink.
QueueBehind(q) == IF q # 0 THEN q ELSE IF queueZero = 0 THEN None ELSE queueZero

PutFrame ==
  /\ receiver_plc = "put"
  /\ LET q    == QueueBehind(qid_plc)
         room == q # None /\ Len(queue[q]) < QueueLen
     IN  /\ queue' = IF room THEN [queue EXCEPT ![q] = Append(@, got_plc)] ELSE queue
         /\ err_plc' = IF room THEN 0 ELSE err_plc
  /\ got_plc' = None /\ qid_plc' = None
  /\ receiver_plc' = "fetch"
  /\ UNCHANGED <<table, peer, sent, read, queueZero, globals, serverVars, fd_plc,
                 sendVars>>

\* (The slip: the number is left, as the displays leave theirs.)
PtrAfterLoop_Kept == modbus_client_sockptr_plc
PtrAfterLoop == 0

\* After the loop STATUS_OFF, 0, is stored in the descriptor, not in the state ...
SetPtr ==
  /\ receiver_plc = "setptr"
  /\ modbus_client_sockptr_plc' = PtrAfterLoop
  /\ receiver_plc' = "close"
  /\ fd_plc' = 0 /\ err_plc' = 0
  /\ UNCHANGED <<sharedVars, modbus_sockt_state_plc, g_comm_qmegid_plc, serverVars,
                 qid_plc, got_plc, sendVars>>

\* ... and descriptor 0 is closed; the connection stays open.
CloseFd ==
  /\ receiver_plc = "close"
  /\ table' = [table EXCEPT ![modbus_client_sockptr_plc] = None]
  /\ receiver_plc' = "done"
  /\ UNCHANGED <<peer, sent, read, queue, queueZero, globals, serverVars, fd_plc,
                 err_plc, qid_plc, got_plc, sendVars>>

-----------------------------------------------------------------------------
(* The send thread: Plc_clientSend_thread, AnalysModbus_plc.               *)

CreateQueue ==
  /\ sender_plc = "create"
  /\ \/ /\ g_comm_qmegid_plc' = client_plc
        /\ queueZero' = IF queueZero = 0 THEN client_plc ELSE queueZero
     \/ /\ CreateMayFail
        /\ g_comm_qmegid_plc' = None
        /\ UNCHANGED queueZero
  /\ sender_plc' = "test"
  /\ UNCHANGED <<table, peer, sent, read, queue, modbus_sockt_state_plc,
                 modbus_client_sockptr_plc, serverVars, recvVars, job_plc, answers>>

\* The state is ON from before the thread was made and nothing stores OFF.
SenderTest ==
  /\ sender_plc = "test"
  /\ sender_plc' = IF modbus_sockt_state_plc = "ON" THEN "poll" ELSE "done"
  /\ UNCHANGED <<sharedVars, globals, serverVars, recvVars, job_plc, answers>>

TakeFrame ==
  /\ sender_plc = "poll"
  /\ g_comm_qmegid_plc # None
  /\ queue[g_comm_qmegid_plc] # <<>>
  /\ job_plc' = Head(queue[g_comm_qmegid_plc])
  /\ queue' = [queue EXCEPT ![g_comm_qmegid_plc] = Tail(@)]
  /\ sender_plc' = "analyse"
  /\ UNCHANGED <<table, peer, sent, read, queueZero, globals, serverVars, recvVars,
                 answers>>

PollTimeout ==
  /\ sender_plc = "poll"
  /\ g_comm_qmegid_plc # None => queue[g_comm_qmegid_plc] = <<>>
  /\ sender_plc' = "test"
  /\ UNCHANGED <<sharedVars, globals, serverVars, recvVars, job_plc, answers>>

\* Function 06 is echoed after its register was looked at, function 03 answered
\* with a zero, others ignored; no register is kept.  The answer goes to the
\* descriptor of the moment, and is lost when that is not a connection.
AnalysModbus ==
  /\ sender_plc = "analyse"
  /\ \E funid \in {"03", "06", "other"} :
       LET to == table[modbus_client_sockptr_plc] IN
       answers' = IF funid # "other" /\ to \in Conns
                  THEN answers \cup {<<job_plc[1], to>>} ELSE answers
  /\ job_plc' = None
  /\ sender_plc' = "test"
  /\ UNCHANGED <<sharedVars, globals, serverVars, recvVars>>

-----------------------------------------------------------------------------
Server   == \/ ServerTest \/ (\E c \in Conns : Accept(c)) \/ AcceptFails
            \/ SetOn \/ SetFd \/ MakeReceiver \/ MakeSender
Receiver == \/ FetchFd \/ SelectFails \/ SelectReturns \/ LoadQueue \/ RecvData
            \/ RecvEof \/ RecvError \/ PutFrame \/ SetPtr \/ CloseFd
Sender   == \/ CreateQueue \/ SenderTest \/ TakeFrame \/ PollTimeout
            \/ AnalysModbus

\* The steps of the three threads; the clients are with the displays in Links.
Next == Server \/ Receiver \/ Sender

=============================================================================
