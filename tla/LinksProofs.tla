---------------------------- MODULE LinksProofs ----------------------------
(***************************************************************************)
(* What Links guarantees for every number of displays, connections and     *)
(* descriptors: the links share the descriptor table without taking each   *)
(* other's connections, as long as no late close has hit a foreign one.    *)
(***************************************************************************)
EXTENDS Links, LcdLinkProofs

USE LinksAssumption

\* The port of the PLC is taken before the only receive thread exists and stays
\* taken; the connection is no display's.
PlcServerInv ==
  /\ client_plc # None => /\ client_sockptr_plc \in Fds \ {0}
                          /\ port[client_plc] = None
                          /\ peer[client_plc] # "idle"
  /\ server_plc \in {"seton", "setfd", "mkrecv", "mksend"} => client_plc # None
  /\ server_plc \in {"listen", "seton"} => modbus_sockt_state_plc = "OFF"
  /\ server_plc \in {"setfd", "mkrecv", "mksend"} => modbus_sockt_state_plc = "ON"
  /\ server_plc \in {"listen", "seton", "setfd", "mkrecv"} => receiver_plc = "none"
  /\ server_plc \in {"listen", "seton", "setfd", "mkrecv", "mksend"} =>
       sender_plc = "none"
  /\ receiver_plc # "none" \/ sender_plc # "none" =>
       client_plc # None /\ modbus_sockt_state_plc = "ON"
  /\ modbus_sockt_state_plc = "OFF" /\ server_plc # "seton" => client_plc = None

\* Up to the exit of the receive thread the published number is that of the
\* server thread.
PlcReceiverInv ==
  /\ (/\ client_plc # None
      /\ server_plc \notin {"seton", "setfd"}
      /\ receiver_plc \notin {"close", "done"})
        => modbus_client_sockptr_plc = client_sockptr_plc
  /\ receiver_plc \in {"select", "load", "recv", "put", "setptr"} =>
       fd_plc = client_sockptr_plc
  /\ receiver_plc \in {"close", "done"} => modbus_client_sockptr_plc = 0
  /\ receiver_plc # "setptr" => err_plc <= MaxErr
  /\ receiver_plc = "put" => got_plc \in Frames

\* The PLC link has the queue of its one send thread, or none.
PlcSenderInv ==
  /\ sender_plc = "analyse" => job_plc \in Frames
  /\ sender_plc \notin {"none", "create"} => g_comm_qmegid_plc # 0
  /\ g_comm_qmegid_plc \in {0, client_plc, None}
  /\ qid_plc \in {0, client_plc, None}

PlcInv == P!TypeOK /\ PlcServerInv /\ PlcReceiverInv /\ PlcSenderInv

\* Both modules number connections and frames the same way.
LEMMA SameConns == P!Conns = Conns /\ P!Frames = Frames
BY DEF P!Conns, Conns, P!Frames, Frames

\* Before the first connection the PLC link is idle.
LEMMA InitPlcInv == LinksInit => IInv /\ PlcInv /\ clean = TRUE
<1> SUFFICES ASSUME LinksInit PROVE PlcInv
  BY InitIInv DEF LinksInit
<1> USE LinkAssumption DEF LinksInit, P!Init
<1>1. P!TypeOK BY DEF P!TypeOK
<1>2. PlcServerInv BY DEF PlcServerInv
<1>3. PlcReceiverInv BY DEF PlcReceiverInv
<1>4. PlcSenderInv BY DEF PlcSenderInv
<1> QED BY <1>1, <1>2, <1>3, <1>4 DEF PlcInv

\* What recv() puts into the hand of the PLC's receive thread is a frame.
LEMMA PlcFrameRead ==
  ASSUME IInv, PlcInv, P!RecvData
  PROVE  \E d \in Conns : /\ d = table[fd_plc]
                           /\ read' = [read EXCEPT ![d] = read[d] + 1]
                           /\ got_plc' = <<d, read[d] + 1>>
                           /\ read[d] + 1 \in 1..MaxFrames
                           /\ <<d, read[d] + 1>> \in Frames
<1> DEFINE d == table[fd_plc]
<1>1. d \in Conns BY SameConns DEF P!RecvData
<1>2. read[d] + 1 \in 1..MaxFrames
  BY SMTT(30), <1>1, LinkAssumption DEF IInv, TypeOK, P!RecvData
<1> QED BY <1>1, <1>2 DEF P!RecvData, Frames

\* What a step of the PLC link does to the shared variables leaves the invariant
\* of the displays alone: it accepts a connection that is none of theirs, and
\* keeps the types.
LEMMA PlcKeepsIInv == IInv /\ PlcInv /\ PlcStep => IInv'
<1> SUFFICES ASSUME IInv, PlcInv, PlcStep PROVE IInv'
  OBVIOUS
<1>1. UNCHANGED <<globals, serverVars, port, recvVars, sendVars>>
  BY DEF PlcStep, lcdVars
<1> USE LinkAssumption, SameConns
<1>2. /\ table' \in [Fds -> Conns \cup {Stdin, None}]
      /\ peer' \in [Conns -> {"idle", "up", "fin", "rst"}]
      /\ sent' \in [Conns -> 0..MaxFrames]
      /\ read' \in [Conns -> 0..MaxFrames]
      /\ queue' \in [Conns -> Seq(Frames)]
      /\ queueZero' \in Conns \cup {0, None}
      /\ \A c \in Conns : peer'[c] = "idle" => peer[c] = "idle"
  <2>0. TypeOK BY DEF IInv
  <2> USE <2>0 DEF TypeOK
  <2>1. CASE P!Server
    <3>1. CASE \E c \in P!Conns : P!Accept(c) BY <3>1 DEF P!Accept
    <3>2. CASE ~\E c \in P!Conns : P!Accept(c)
      BY <2>1, <3>2 DEF P!Server, P!ServerTest, P!AcceptFails, P!SetOn, P!SetFd,
                        P!MakeReceiver, P!MakeSender, P!sharedVars
    <3> QED BY <3>1, <3>2
  <2>2. CASE P!Receiver
    <3>1. CASE P!RecvData
      <4>1. PICK d \in Conns : /\ read' = [read EXCEPT ![d] = read[d] + 1]
                                /\ read[d] + 1 \in 1..MaxFrames
        BY <3>1, PlcFrameRead
      <4>2. UNCHANGED <<table, peer, sent, queue, queueZero>>
        BY <3>1 DEF P!RecvData
      <4>3. read' \in [Conns -> 0..MaxFrames] BY <4>1
      <4> QED BY <4>2, <4>3
    <3>2. CASE P!RecvError BY <3>2 DEF P!RecvError
    <3>3. CASE P!PutFrame
      <4> DEFINE q == P!QueueBehind(qid_plc)
                 room == q # None /\ Len(queue[q]) < QueueLen
      <4>1. q \in Conns \cup {None} BY DEF P!QueueBehind, PlcInv, P!TypeOK
      <4>2. got_plc \in Frames BY <3>3 DEF P!PutFrame, PlcInv, PlcReceiverInv
      <4>3. /\ queue' = IF room THEN [queue EXCEPT ![q] = Append(@, got_plc)] ELSE queue
            /\ UNCHANGED <<table, peer, sent, read, queueZero>>
        BY <3>3 DEF P!PutFrame
      <4> HIDE DEF q
      <4>4. q \in Conns => Append(queue[q], got_plc) \in Seq(Frames) BY <4>2
      <4> QED BY <4>1, <4>3, <4>4
    <3>4. CASE P!CloseFd BY <3>4 DEF P!CloseFd
    <3>5. CASE \/ P!FetchFd \/ P!SelectFails \/ P!SelectReturns \/ P!LoadQueue
               \/ P!RecvEof \/ P!SetPtr
      BY <3>5 DEF P!FetchFd, P!SelectFails, P!SelectReturns, P!LoadQueue, P!RecvEof, P!SetPtr,
                  P!sharedVars
    <3> QED BY <2>2, <3>1, <3>2, <3>3, <3>4, <3>5 DEF P!Receiver
  <2>3. CASE P!Sender
    <3>1. CASE P!CreateQueue BY <3>1 DEF P!CreateQueue, PlcInv, P!TypeOK
    <3>2. CASE P!TakeFrame
      <4>1. g_comm_qmegid_plc \in Conns
        BY <3>2 DEF P!TakeFrame, PlcInv, PlcSenderInv, P!TypeOK
      <4>2. Tail(queue[g_comm_qmegid_plc]) \in Seq(Frames)
        BY <3>2, <4>1 DEF P!TakeFrame
      <4> QED BY <3>2, <4>1, <4>2 DEF P!TakeFrame
    <3>3. CASE P!SenderTest \/ P!PollTimeout \/ P!AnalysModbus
      BY <3>3 DEF P!SenderTest, P!PollTimeout, P!AnalysModbus, P!sharedVars
    <3> QED BY <2>3, <3>1, <3>2, <3>3 DEF P!Sender
  <2> QED BY <2>1, <2>2, <2>3 DEF PlcStep, P!Next
<1>3. TypeOK'
  BY <1>1, <1>2 DEF IInv, TypeOK, globals, serverVars, recvVars, sendVars
<1>4. ServerInv'
  BY <1>1 DEF IInv, ServerInv, globals, serverVars, recvVars, sendVars
<1>5. ReceiverInv'
  BY <1>1, <1>2 DEF IInv, ReceiverInv, InLoop, globals, serverVars, recvVars, sendVars
<1>6. HandInv' BY <1>1 DEF IInv, HandInv, recvVars, sendVars
<1>7. QueueInv'
  BY <1>1 DEF IInv, QueueInv, OwnQueues, globals, recvVars, sendVars
<1> QED BY <1>3, <1>4, <1>5, <1>6, <1>7 DEF IInv

\* A step of the displays gives a connection its port when it is accepted.
LEMMA LcdConns ==
  ASSUME IInv, [Next]_vars, NEW c \in Conns, peer[c] # "idle"
  PROVE  peer'[c] # "idle" /\ port'[c] = port[c]
<1> USE LinkAssumption
<1>0. TypeOK BY DEF IInv
<1>1. ASSUME NEW p \in Ports, Server(p) PROVE peer'[c] # "idle" /\ port'[c] = port[c]
  BY SMTT(30), <1>0, <1>1
     DEF Server, AcceptNext, ServerTest, Accept, AcceptZero, NextConn,
         AcceptFails, SetOn, SetFd, MakeReceiver, MakeSender, netVars, TypeOK
<1>2. ASSUME NEW d \in Conns, Receiver(d) PROVE peer'[c] # "idle" /\ port'[c] = port[c]
  <2>1. CASE RecvError(d) BY <1>0, <2>1 DEF RecvError, TypeOK
  <2>2. CASE ~RecvError(d)
    BY <1>2, <2>2 DEF Receiver, FetchFd, SelectFails, SelectReturns, LoadQueue, RecvData,
                      RecvEof, PutFrame, SetOff, CloseFd, netVars
  <2> QED BY <2>1, <2>2
<1>3. ASSUME NEW d \in Conns, Sender(d) \/ Client(d)
      PROVE  peer'[c] # "idle" /\ port'[c] = port[c]
  BY <1>0, <1>3 DEF Sender, CreateQueue, SenderTest, TakeFrame, PollTimeout, Analyse,
                    Client, ClientSends, ClientLeaves, netVars, TypeOK
<1>4. CASE UNCHANGED vars BY <1>4 DEF vars, netVars
<1> QED BY <1>1, <1>2, <1>3, <1>4 DEF Next

\* The threads of the displays leave the PLC link alone: what they accept is a
\* new connection.
LEMMA LcdKeepsPlcInv == IInv /\ PlcInv /\ LcdStep => PlcInv'
<1> SUFFICES ASSUME IInv, PlcInv, [Next]_vars, UNCHANGED plcVars PROVE PlcInv'
  BY DEF LcdStep
<1> USE SameConns, LinkAssumption DEF plcVars
<1>1. P!TypeOK' BY DEF PlcInv, P!TypeOK
<1>2. client_plc # None => port'[client_plc] = None /\ peer'[client_plc] # "idle"
  BY LcdConns DEF PlcInv, PlcServerInv, P!TypeOK
<1>3. PlcServerInv' BY <1>2 DEF PlcInv, PlcServerInv
<1>4. PlcReceiverInv' BY DEF PlcInv, PlcReceiverInv
<1>5. PlcSenderInv' BY DEF PlcInv, PlcSenderInv
<1> QED BY <1>1, <1>3, <1>4, <1>5 DEF PlcInv

\* A step of the PLC link keeps its invariant.
LEMMA PlcKeepsPlcInv == IInv /\ PlcInv /\ PlcStep => PlcInv'
<1> SUFFICES ASSUME IInv, PlcInv, PlcStep PROVE PlcInv'
  OBVIOUS
<1>0. /\ UNCHANGED port /\ P!Next
      /\ P!TypeOK /\ PlcServerInv /\ PlcReceiverInv /\ PlcSenderInv /\ TypeOK
  BY DEF PlcStep, lcdVars, PlcInv, IInv
<1> USE LinkAssumption, SameConns DEF PlcServerInv, PlcReceiverInv, PlcSenderInv, PlcInv
<1>1. ASSUME NEW c \in Conns, P!Accept(c) PROVE PlcInv'
  <2>1. P!TypeOK' BY <1>0, <1>1 DEF P!Accept, P!TypeOK, P!globals, P!recvVars, P!sendVars
  <2>2. peer'[c] = "up" BY <1>0, <1>1 DEF P!Accept, TypeOK
  <2>3. port[c] = None BY <1>1 DEF P!Accept, IInv, ReceiverInv
  <2> QED BY <1>0, <1>1, <2>1, <2>2, <2>3
          DEF P!Accept, P!globals, P!recvVars, P!sendVars
<1>2. ASSUME UNCHANGED <<peer, client_plc, client_sockptr_plc>>,
             P!ServerTest \/ P!AcceptFails \/ P!SetOn \/ P!SetFd
               \/ P!MakeReceiver \/ P!MakeSender
      PROVE  PlcInv'
  <2>1. CASE P!ServerTest \/ P!AcceptFails \/ P!SetOn
    BY <1>0, <1>2, <2>1 DEF P!ServerTest, P!AcceptFails, P!SetOn, P!globals, P!recvVars,
                            P!sendVars, P!TypeOK
  <2>2. CASE P!SetFd
    BY <1>0, <1>2, <2>2 DEF P!SetFd, P!PublishedFd, P!recvVars, P!sendVars, P!TypeOK
  <2>3. CASE P!MakeReceiver
    BY <1>0, <1>2, <2>3 DEF P!MakeReceiver, P!globals, P!sendVars, P!TypeOK
  <2>4. CASE P!MakeSender
    BY <1>0, <1>2, <2>4 DEF P!MakeSender, P!globals, P!recvVars, P!TypeOK
  <2> QED BY <1>2, <2>1, <2>2, <2>3, <2>4
<1>3. ASSUME P!Receiver PROVE PlcInv'
  <2>0. /\ UNCHANGED <<server_plc, client_plc, client_sockptr_plc, g_comm_qmegid_plc,
                       sender_plc, job_plc, answers>>
        /\ receiver_plc # "none" /\ receiver_plc # "done" /\ receiver_plc' # "none"
    BY <1>3 DEF P!Receiver, P!FetchFd, P!SelectFails, P!SelectReturns, P!LoadQueue, P!RecvData,
                P!RecvEof, P!RecvError, P!PutFrame, P!SetPtr, P!CloseFd, P!globals,
                P!serverVars, P!sendVars
  <2>1. client_plc # None => peer'[client_plc] # "idle"
    BY <1>0, PlcKeepsIInv, <1>3 DEF P!Receiver, P!FetchFd, P!SelectFails,
       P!SelectReturns, P!LoadQueue, P!RecvData, P!RecvEof, P!RecvError, P!PutFrame, P!SetPtr,
       P!CloseFd, P!sharedVars, P!TypeOK, TypeOK
  <2>2. modbus_sockt_state_plc' = modbus_sockt_state_plc
    BY <1>3 DEF P!Receiver, P!FetchFd, P!SelectFails, P!SelectReturns, P!LoadQueue, P!RecvData,
                P!RecvEof, P!RecvError, P!PutFrame, P!SetPtr,
                P!CloseFd, P!globals
  <2>3. CASE P!FetchFd \/ P!SelectFails \/ P!SelectReturns \/ P!LoadQueue \/ P!RecvEof
    BY <1>0, <2>0, <2>1, <2>2, <2>3 DEF P!FetchFd, P!SelectFails, P!SelectReturns, P!LoadQueue,
       P!RecvEof, P!globals, P!TypeOK
  <2>4. CASE P!RecvData
    <3>1. got_plc' \in Frames BY <2>4, PlcFrameRead
    <3> QED BY <1>0, <2>0, <2>1, <2>2, <2>4, <3>1 DEF P!RecvData, P!globals, P!TypeOK
  <2>5. CASE P!RecvError
    <3>1. /\ err_plc' = err_plc + 1 /\ receiver_plc = "recv"
          /\ receiver_plc' = IF P!TooManyErrors(err_plc + 1) THEN "setptr" ELSE "fetch"
          /\ qid_plc' = None
          /\ UNCHANGED <<P!globals, fd_plc, got_plc>>
      BY <2>5 DEF P!RecvError
    <3>2. err_plc' \in 0..MaxErr+1 /\ (receiver_plc' # "setptr" => err_plc' <= MaxErr)
      BY <1>0, <3>1 DEF P!TypeOK, P!TooManyErrors
    <3> QED BY <1>0, <2>0, <2>1, <2>2, <3>1, <3>2 DEF P!globals, P!TypeOK
  <2>6. CASE P!PutFrame
    <3>1. /\ err_plc' \in {0, err_plc} /\ got_plc' = None /\ qid_plc' = None
          /\ receiver_plc' = "fetch" /\ receiver_plc = "put"
          /\ UNCHANGED <<P!globals, fd_plc>>
      BY <2>6 DEF P!PutFrame
    <3> QED BY <1>0, <2>0, <2>1, <2>2, <3>1 DEF P!globals, P!TypeOK
  <2>7. CASE P!SetPtr
    BY <1>0, <2>0, <2>1, <2>2, <2>7 DEF P!SetPtr, P!PtrAfterLoop, P!TypeOK
  <2>8. CASE P!CloseFd
    BY <1>0, <2>0, <2>1, <2>2, <2>8 DEF P!CloseFd, P!globals, P!TypeOK
  <2> QED BY <1>3, <2>3, <2>4, <2>5, <2>6, <2>7, <2>8 DEF P!Receiver
<1>4. ASSUME P!Sender PROVE PlcInv'
  <2>0. /\ UNCHANGED <<server_plc, client_plc, client_sockptr_plc, receiver_plc, fd_plc,
                       err_plc, qid_plc, got_plc, peer, modbus_sockt_state_plc,
                       modbus_client_sockptr_plc>>
        /\ sender_plc # "none"
    BY <1>4 DEF P!Sender, P!CreateQueue, P!SenderTest, P!TakeFrame, P!PollTimeout,
                P!AnalysModbus, P!globals, P!serverVars, P!recvVars, P!sharedVars
  <2>1. CASE P!CreateQueue
    <3>1. /\ g_comm_qmegid_plc' \in {client_plc, None}
          /\ sender_plc' = "test" /\ UNCHANGED <<job_plc, answers>>
      BY <2>1 DEF P!CreateQueue
    <3>2. client_plc # 0 BY <1>0, <2>0 DEF P!TypeOK, Conns
    <3> QED BY <1>0, <2>0, <3>1, <3>2 DEF P!TypeOK
  <2>2. CASE P!SenderTest \/ P!PollTimeout
    <3> QED BY <1>0, <2>0, <2>2 DEF P!SenderTest, P!PollTimeout, P!globals, P!TypeOK
  <2>3. CASE P!TakeFrame
    <3>1. g_comm_qmegid_plc \in Conns BY <1>0, <2>3 DEF P!TakeFrame, P!TypeOK
    <3>2. job_plc' \in Frames BY <1>0, <2>3, <3>1 DEF P!TakeFrame, TypeOK
    <3> QED BY <1>0, <2>0, <2>3, <3>2 DEF P!TakeFrame, P!globals, P!TypeOK
  <2>4. CASE P!AnalysModbus
    <3>1. answers' \subseteq Conns \X Conns
      <4>1. job_plc[1] \in Conns BY <1>0, <2>4 DEF P!AnalysModbus, Frames
      <4> QED BY <1>0, <2>4, <4>1 DEF P!AnalysModbus, P!TypeOK
    <3> QED BY <1>0, <2>0, <2>4, <3>1 DEF P!AnalysModbus, P!globals, P!TypeOK
  <2> QED BY <1>4, <2>1, <2>2, <2>3, <2>4 DEF P!Sender
<1>5. ASSUME P!Server, ~\E c \in Conns : P!Accept(c) PROVE PlcInv'
  <2>1. UNCHANGED <<peer, client_plc, client_sockptr_plc>>
    BY <1>5 DEF P!Server, P!ServerTest, P!AcceptFails, P!SetOn, P!SetFd,
                P!MakeReceiver, P!MakeSender, P!sharedVars
  <2> QED BY <1>2, <1>5, <2>1 DEF P!Server
<1> QED BY <1>0, <1>1, <1>3, <1>4, <1>5 DEF P!Next

\* A step of the PLC link leaves the connections of the displays theirs, and its
\* own client is the last one once it has a receive thread.
LEMMA PlcConns ==
  ASSUME IInv, PlcInv, PlcStep, NEW c \in Conns, peer[c] # "idle"
  PROVE  /\ peer'[c] # "idle" /\ port'[c] = port[c]
         /\ receiver_plc # "none" => client_plc' = client_plc
<1> USE LinkAssumption, SameConns
<1>0. TypeOK /\ PlcServerInv /\ port' = port BY DEF IInv, PlcInv, PlcStep, lcdVars
<1>1. CASE P!Server
  <2>1. CASE \E d \in P!Conns : P!Accept(d)
    BY <1>0, <2>1 DEF P!Accept, PlcServerInv, TypeOK
  <2>2. CASE ~\E d \in P!Conns : P!Accept(d)
    BY <1>0, <1>1, <2>2 DEF P!Server, P!ServerTest, P!AcceptFails, P!SetOn, P!SetFd,
       P!MakeReceiver, P!MakeSender, P!sharedVars
  <2> QED BY <2>1, <2>2
<1>2. CASE P!Receiver
  <2>1. CASE P!RecvError BY <1>0, <2>1 DEF P!RecvError, P!serverVars, TypeOK
  <2>2. CASE ~P!RecvError
    BY <1>0, <1>2, <2>2 DEF P!Receiver, P!FetchFd, P!SelectFails, P!SelectReturns,
       P!LoadQueue, P!RecvData, P!RecvEof, P!PutFrame, P!SetPtr, P!CloseFd,
       P!sharedVars, P!serverVars
  <2> QED BY <2>1, <2>2
<1>3. CASE P!Sender
  BY <1>0, <1>3 DEF P!Sender, P!CreateQueue, P!SenderTest, P!TakeFrame, P!PollTimeout,
     P!AnalysModbus, P!sharedVars, P!serverVars
<1> QED BY <1>1, <1>2, <1>3 DEF PlcStep, P!Next

\* The two links together keep both invariants.
LEMMA BothInv == LinksSpec => [](IInv /\ PlcInv)
<1>1. IInv /\ PlcInv /\ [LinksNext]_linksVars => (IInv /\ PlcInv)'
  <2> SUFFICES ASSUME IInv, PlcInv, [LinksNext]_linksVars PROVE (IInv /\ PlcInv)'
    OBVIOUS
  <2>1. CASE LcdStep BY <2>1, IInvStep, LcdKeepsPlcInv DEF LcdStep
  <2>2. CASE PlcStep BY <2>2, PlcKeepsIInv, PlcKeepsPlcInv
  <2>3. CASE UNCHANGED linksVars
    <3>1. UNCHANGED vars BY <2>3 DEF linksVars
    <3>2. PlcInv'
      BY <2>3 DEF linksVars, plcVars, vars, netVars, PlcInv, P!TypeOK, PlcServerInv,
                  PlcReceiverInv, PlcSenderInv
    <3> QED BY <3>1, <3>2, IInvStep
  <2> QED BY <2>1, <2>2, <2>3 DEF LinksNext
<1> QED BY <1>1, InitPlcInv, PTL DEF LinksSpec

-----------------------------------------------------------------------------
(* Every connection in use stays behind its number.                        *)

\* As long as no exit has closed a foreign connection, the connection a server
\* thread has just accepted, that of a receive thread in its loop and that of
\* the PLC are behind the numbers these threads know.
OwnInv ==
  /\ clean \in BOOLEAN
  /\ clean =>
       /\ \A p \in Ports : server[p] \in {"seton", "setfd", "mkrecv"} =>
                             table[client_sockptr[p]] = client[p]
       /\ \A c \in Conns : InLoop(c) => table[client_sockptr[port[c]]] = c
       /\ client_plc # None /\ receiver_plc \notin {"close", "done"} =>
            table[client_sockptr_plc] = client_plc

\* A step of the displays that stays clean closes no connection but that of the
\* receive thread that leaves, and accept() takes a closed number.
LEMMA LcdKeepsTable ==
  ASSUME IInv, LcdStep, clean \in BOOLEAN, clean', NEW f \in Fds,
         table[f] \in Conns, receiver[table[f]] # "close"
  PROVE  table'[f] = table[f]
<1>0. TypeOK /\ ReceiverInv BY DEF IInv
<1> USE LinkAssumption
<1>1. ASSUME NEW p \in Ports, Server(p) PROVE table'[f] = table[f]
  BY SMTT(30), <1>0, <1>1
     DEF Server, AcceptNext, ServerTest, Accept, AcceptZero, LowestClosed,
         AcceptFails, SetOn, SetFd, MakeReceiver, MakeSender, netVars, TypeOK
<1>2. ASSUME NEW c \in Conns, Receiver(c) PROVE table'[f] = table[f]
  <2>1. CASE CloseFd(c)
    <3>1. receiver[c] = "close" /\ receiver'[c] = "done"
      BY <1>0, <2>1 DEF CloseFd, TypeOK
    <3>2. ClosesOwn(c) BY <3>1 DEF LcdStep
    <3>3. f # modbus_client_sockptr[port[c]] BY <3>1, <3>2 DEF ClosesOwn
    <3> QED BY <1>0, <2>1, <3>3 DEF CloseFd, ClosedNumber, TypeOK
  <2>2. CASE ~CloseFd(c)
    BY <1>2, <2>2 DEF Receiver, FetchFd, SelectFails, SelectReturns, LoadQueue, RecvData, RecvEof,
                RecvError, PutFrame, SetOff, netVars
  <2> QED BY <2>1, <2>2
<1>3. ASSUME NEW c \in Conns, Sender(c) \/ Client(c) PROVE table'[f] = table[f]
  BY <1>3 DEF Sender, CreateQueue, SenderTest, TakeFrame, PollTimeout, Analyse,
              Client, ClientSends, ClientLeaves, netVars
<1> QED BY <1>1, <1>2, <1>3 DEF LcdStep, Next

\* A step of the PLC link closes descriptor 0 and nothing else.
LEMMA PlcKeepsTable ==
  ASSUME IInv, PlcInv, PlcStep, NEW f \in Fds \ {0}, table[f] \in Conns
  PROVE  table'[f] = table[f]
<1>0. TypeOK BY DEF IInv
<1>1. CASE P!Server
  BY <1>0, <1>1, LinkAssumption DEF P!Server, P!ServerTest, P!Accept, P!LowestClosed,
     P!AcceptFails, P!SetOn, P!SetFd, P!MakeReceiver, P!MakeSender, P!sharedVars, TypeOK
<1>2. CASE P!Receiver
  <2>1. CASE P!CloseFd
    BY <1>0, <2>1 DEF P!CloseFd, PlcInv, PlcReceiverInv, TypeOK
  <2>2. CASE ~P!CloseFd
    BY <1>2, <2>2 DEF P!Receiver, P!FetchFd, P!SelectFails, P!SelectReturns, P!LoadQueue, P!RecvData,
       P!RecvEof, P!RecvError, P!PutFrame, P!SetPtr, P!sharedVars
  <2> QED BY <2>1, <2>2
<1>3. CASE P!Sender
  BY <1>3 DEF P!Sender, P!CreateQueue, P!SenderTest, P!TakeFrame, P!PollTimeout,
     P!AnalysModbus, P!sharedVars
<1> QED BY <1>1, <1>2, <1>3 DEF PlcStep, P!Next

\* A step of the displays keeps OwnInv.
LEMMA LcdKeepsOwn == IInv /\ PlcInv /\ OwnInv /\ LcdStep => OwnInv'
<1> SUFFICES ASSUME IInv, PlcInv, OwnInv, LcdStep PROVE OwnInv'
  OBVIOUS
<1>0. clean' \in BOOLEAN BY DEF LcdStep
<1> SUFFICES ASSUME clean'
             PROVE  /\ \A p \in Ports : server'[p] \in {"seton", "setfd", "mkrecv"} =>
                                          table'[client_sockptr'[p]] = client'[p]
                    /\ \A c \in Conns : InLoop(c)' => table'[client_sockptr'[port'[c]]] = c
                    /\ client_plc' # None /\ receiver_plc' \notin {"close", "done"} =>
                         table'[client_sockptr_plc'] = client_plc'
  BY <1>0 DEF OwnInv
<1>1. clean BY DEF LcdStep, OwnInv
<1>2. /\ TypeOK /\ ServerInv /\ ReceiverInv /\ PlcServerInv /\ P!TypeOK
      /\ UNCHANGED plcVars
  BY DEF IInv, PlcInv, LcdStep
<1>3. TypeOK' /\ ReceiverInv' BY IInvStep DEF LcdStep, IInv
<1> USE SameConns, LinkAssumption
<1>4. client_plc' # None /\ receiver_plc' \notin {"close", "done"} =>
        table'[client_sockptr_plc'] = client_plc'
  <2> SUFFICES ASSUME client_plc # None, receiver_plc \notin {"close", "done"}
               PROVE  table'[client_sockptr_plc] = client_plc
    BY <1>2 DEF plcVars
  <2>1. table[client_sockptr_plc] = client_plc BY <1>1 DEF OwnInv
  <2>2. client_plc \in Conns /\ port[client_plc] = None /\ client_sockptr_plc \in Fds
    BY <1>2 DEF PlcServerInv, P!TypeOK
  <2>3. receiver[client_plc] # "close" BY <1>2, <2>2 DEF ReceiverInv
  <2> QED BY <2>1, <2>2, <2>3, <1>0, <1>1, LcdKeepsTable
<1>5. ASSUME NEW p \in Ports, NEW c \in Conns, Accept(p, c)
      PROVE  /\ \A q \in Ports \ {p} : UNCHANGED <<server[q], client[q], client_sockptr[q]>>
             /\ \A d \in Conns : InLoop(d)' => InLoop(d) /\ port'[d] = port[d] /\ port[d] # p
             /\ table'[client_sockptr'[p]] = client'[p]
  <2>1. port[c] = None BY <1>2, <1>5 DEF Accept, NextConn, ReceiverInv
  <2>2. \A d \in Conns : InLoop(d)' => InLoop(d) /\ d # c /\ port[d] # p
    BY <1>2, <1>5, <2>1 DEF Accept, ReceiverInv, InLoop, recvVars
  <2>3. \A d \in Conns \ {c} : port'[d] = port[d] BY <1>2, <1>5 DEF Accept, TypeOK
  <2>4. PICK f \in Fds : /\ table' = [table EXCEPT ![f] = c]
                        /\ client_sockptr' = [client_sockptr EXCEPT ![p] = f]
                        /\ client' = [client EXCEPT ![p] = c]
                        /\ server' = [server EXCEPT ![p] = "seton"]
    BY <1>5 DEF Accept
  <2> QED BY <1>2, <2>2, <2>3, <2>4 DEF TypeOK
<1>6. ASSUME NEW p \in Ports, server'[p] \in {"seton", "setfd", "mkrecv"}
      PROVE  table'[client_sockptr'[p]] = client'[p]
  <2>1. CASE /\ server[p] \in {"seton", "setfd", "mkrecv"}
             /\ UNCHANGED <<client_sockptr[p], client[p]>>
    <3>1. /\ client[p] \in Conns /\ client_sockptr[p] \in Fds
          /\ receiver[client[p]] # "close"
      BY <1>2, <2>1 DEF ServerInv, TypeOK
    <3>2. table[client_sockptr[p]] = client[p] BY <1>1, <2>1 DEF OwnInv
    <3> QED BY <2>1, <3>1, <3>2, <1>0, <1>1, LcdKeepsTable
  <2>2. CASE \E c \in Conns : Accept(p, c) BY <1>5, <2>2
  <2>3. ASSUME ~\E c \in Conns : Accept(p, c)
        PROVE  /\ server[p] \in {"seton", "setfd", "mkrecv"}
               /\ UNCHANGED <<client_sockptr[p], client[p]>>
    <3>1. ASSUME NEW q \in Ports, Server(q)
          PROVE  /\ server[p] \in {"seton", "setfd", "mkrecv"}
                 /\ UNCHANGED <<client_sockptr[p], client[p]>>
      <4>1. CASE \E c \in Conns : Accept(q, c) BY <1>5, <1>6, <2>3, <4>1
      <4>2. CASE ~\E c \in Conns : Accept(q, c)
        BY <1>2, <1>6, <3>1, <4>2 DEF Server, AcceptNext, ServerTest, AcceptZero,
                                      AcceptFails, SetOn,
           SetFd, MakeReceiver, MakeSender, TypeOK
      <4> QED BY <4>1, <4>2
    <3>2. ASSUME NEW c \in Conns, Receiver(c) \/ Sender(c) \/ Client(c)
          PROVE  UNCHANGED serverVars
      BY <3>2 DEF Receiver, FetchFd, SelectFails, SelectReturns, LoadQueue, RecvData, RecvEof,
         RecvError, PutFrame, SetOff, CloseFd, Sender, CreateQueue, SenderTest, TakeFrame,
         PollTimeout, Analyse, Client, ClientSends, ClientLeaves
    <3> QED BY <1>6, <3>1, <3>2 DEF LcdStep, Next, serverVars
  <2> QED BY <2>1, <2>2, <2>3
<1>7. ASSUME NEW c \in Conns, InLoop(c)'
      PROVE  table'[client_sockptr'[port'[c]]] = c
  <2>1. CASE /\ InLoop(c) /\ UNCHANGED <<port[c], client_sockptr[port[c]]>>
    <3>1. port[c] \in Ports /\ receiver[c] # "close" /\ client[port[c]] = c
      BY <1>2, <2>1 DEF ReceiverInv, InLoop
    <3>2. client_sockptr[port[c]] \in Fds BY <1>2, <3>1 DEF ServerInv
    <3>3. table[client_sockptr[port[c]]] = c BY <1>1, <2>1 DEF OwnInv
    <3>4. table'[client_sockptr[port[c]]] = c
      BY <3>1, <3>2, <3>3, <1>0, <1>1, LcdKeepsTable
    <3> QED BY <2>1, <3>4
  <2>2. ASSUME NEW p \in Ports, MakeReceiver(p)
        PROVE  table'[client_sockptr'[port'[c]]] = c
    <3>1. UNCHANGED <<table, client_sockptr, port>> /\ server[p] = "mkrecv"
      BY <2>2 DEF MakeReceiver, netVars
    <3>2. InLoop(c) \/ c = client[p] BY <1>2, <1>7, <2>2 DEF MakeReceiver, InLoop, TypeOK
    <3>3. port[client[p]] = p /\ table[client_sockptr[p]] = client[p]
      BY <1>1, <1>2, <3>1 DEF ServerInv, OwnInv
    <3> QED BY <2>1, <3>1, <3>2, <3>3
  <2>3. ASSUME NEW p \in Ports, Server(p), ~MakeReceiver(p)
        PROVE  InLoop(c) /\ UNCHANGED <<port[c], client_sockptr[port[c]]>>
    <3>1. CASE \E d \in Conns : Accept(p, d)
      <4>1. InLoop(c) /\ port'[c] = port[c] /\ port[c] # p BY <1>5, <1>7, <3>1
      <4>2. port[c] \in Ports BY <1>2, <4>1 DEF ReceiverInv, InLoop
      <4> QED BY <1>5, <3>1, <4>1, <4>2
    <3>2. CASE ~\E d \in Conns : Accept(p, d)
      BY <1>7, <2>3, <3>2 DEF Server, AcceptNext, ServerTest, AcceptZero, AcceptFails,
                              SetOn, SetFd,
         MakeSender, InLoop, netVars, recvVars
    <3> QED BY <3>1, <3>2
  <2>4. ASSUME NEW d \in Conns, Receiver(d) \/ Sender(d) \/ Client(d)
        PROVE  InLoop(c) /\ UNCHANGED <<port[c], client_sockptr[port[c]]>>
    <3>1. UNCHANGED <<port, client_sockptr>>
      BY <2>4 DEF Receiver, FetchFd, SelectFails, SelectReturns, LoadQueue, RecvData, RecvEof,
         RecvError, PutFrame, SetOff, CloseFd, Sender, CreateQueue, SenderTest, TakeFrame,
         PollTimeout, Analyse, Client, ClientSends, ClientLeaves, serverVars, netVars
    <3>2. InLoop(c)
      BY <1>2, <1>7, <2>4 DEF Receiver, FetchFd, SelectFails, SelectReturns, LoadQueue, RecvData,
         RecvEof, RecvError, PutFrame, SetOff, CloseFd, Sender, CreateQueue, SenderTest,
         TakeFrame, PollTimeout, Analyse, Client, ClientSends, ClientLeaves, recvVars,
         InLoop, TypeOK
    <3> QED BY <3>1, <3>2
  <2> QED BY <2>1, <2>2, <2>3, <2>4 DEF LcdStep, Next
<1> QED BY <1>4, <1>6, <1>7

\* A step of the PLC link keeps OwnInv.
LEMMA PlcKeepsOwn == IInv /\ PlcInv /\ OwnInv /\ PlcStep => OwnInv'
<1> SUFFICES ASSUME IInv, PlcInv, OwnInv, PlcStep PROVE OwnInv'
  OBVIOUS
<1>0. clean' = clean /\ UNCHANGED lcdVars BY DEF PlcStep
<1>1. /\ TypeOK /\ ServerInv /\ ReceiverInv /\ P!TypeOK /\ PlcServerInv
  BY DEF IInv, PlcInv
<1> SUFFICES ASSUME clean
             PROVE  /\ \A p \in Ports : server'[p] \in {"seton", "setfd", "mkrecv"} =>
                                          table'[client_sockptr'[p]] = client'[p]
                    /\ \A c \in Conns : InLoop(c)' => table'[client_sockptr'[port'[c]]] = c
                    /\ client_plc' # None /\ receiver_plc' \notin {"close", "done"} =>
                         table'[client_sockptr_plc'] = client_plc'
  BY <1>0 DEF OwnInv
<1> USE SameConns, LinkAssumption
<1>2. ASSUME NEW p \in Ports, server'[p] \in {"seton", "setfd", "mkrecv"}
      PROVE  table'[client_sockptr'[p]] = client'[p]
  <2>1. server[p] \in {"seton", "setfd", "mkrecv"} BY <1>0, <1>2 DEF lcdVars, serverVars
  <2>2. client[p] \in Conns /\ client_sockptr[p] \in Fds \ {0}
    BY <1>1, <2>1 DEF ServerInv, TypeOK
  <2>3. table[client_sockptr[p]] = client[p] BY <2>1 DEF OwnInv
  <2>4. table'[client_sockptr[p]] = client[p] BY <2>2, <2>3, PlcKeepsTable
  <2> QED BY <1>0, <2>4 DEF lcdVars, serverVars
<1>3. ASSUME NEW c \in Conns, InLoop(c)'
      PROVE  table'[client_sockptr'[port'[c]]] = c
  <2>1. InLoop(c) BY <1>0, <1>3 DEF lcdVars, recvVars, InLoop
  <2>2. port[c] \in Ports /\ client[port[c]] = c BY <1>1, <2>1 DEF ReceiverInv, InLoop
  <2>3. client_sockptr[port[c]] \in Fds \ {0} BY <1>1, <2>2 DEF ServerInv
  <2>4. table[client_sockptr[port[c]]] = c BY <2>1 DEF OwnInv
  <2>5. table'[client_sockptr[port[c]]] = c BY <2>3, <2>4, PlcKeepsTable
  <2> QED BY <1>0, <2>5 DEF lcdVars, serverVars
<1>4. ASSUME client_plc' # None, receiver_plc' \notin {"close", "done"}
      PROVE  table'[client_sockptr_plc'] = client_plc'
  <2>1. CASE \E c \in Conns : P!Accept(c) BY <1>1, <2>1 DEF P!Accept, TypeOK
  <2>2. CASE ~\E c \in Conns : P!Accept(c)
    <3>1. /\ UNCHANGED <<client_plc, client_sockptr_plc>>
          /\ receiver_plc \notin {"close", "done"}
      <4>1. CASE P!Server
        BY <1>1, <1>4, <2>2, <4>1 DEF P!Server, P!ServerTest, P!AcceptFails, P!SetOn, P!SetFd,
           P!MakeReceiver, P!MakeSender, P!recvVars, PlcServerInv
      <4>2. CASE P!Receiver
        <5>1. UNCHANGED P!serverVars
          BY <4>2 DEF P!Receiver, P!FetchFd, P!SelectFails, P!SelectReturns, P!LoadQueue, P!RecvData,
             P!RecvEof, P!RecvError, P!PutFrame, P!SetPtr, P!CloseFd
        <5>2. receiver_plc \in {"close", "done"} => receiver_plc' = "done"
          BY <4>2 DEF P!Receiver, P!FetchFd, P!SelectFails, P!SelectReturns, P!LoadQueue, P!RecvData,
             P!RecvEof, P!RecvError, P!PutFrame, P!SetPtr, P!CloseFd
        <5> QED BY <1>4, <5>1, <5>2 DEF P!serverVars
      <4>3. CASE P!Sender
        BY <1>4, <4>3 DEF P!Sender, P!CreateQueue, P!SenderTest, P!TakeFrame,
           P!PollTimeout, P!AnalysModbus, P!serverVars, P!recvVars
      <4> QED BY <4>1, <4>2, <4>3 DEF PlcStep, P!Next
    <3>2. client_plc \in Conns /\ client_sockptr_plc \in Fds \ {0}
      BY <1>1, <1>4, <3>1 DEF PlcServerInv, P!TypeOK
    <3>3. table[client_sockptr_plc] = client_plc BY <1>4, <3>1 DEF OwnInv
    <3>4. table'[client_sockptr_plc] = client_plc BY <3>2, <3>3, PlcKeepsTable
    <3> QED BY <3>1, <3>4
  <2> QED BY <2>1, <2>2
<1> QED BY <1>2, <1>3, <1>4

\* The invariants of both links and OwnInv hold in every reachable state.
LEMMA OwnInvHolds == LinksSpec => [](IInv /\ PlcInv /\ OwnInv)
<1>1. LinksInit => OwnInv
  BY LinkAssumption DEF LinksInit, Init, P!Init, OwnInv, InLoop
<1>2. IInv /\ PlcInv /\ OwnInv /\ [LinksNext]_linksVars => OwnInv'
  <2> SUFFICES ASSUME IInv, PlcInv, OwnInv, [LinksNext]_linksVars PROVE OwnInv'
    OBVIOUS
  <2>1. CASE LcdStep BY <2>1, LcdKeepsOwn
  <2>2. CASE PlcStep BY <2>2, PlcKeepsOwn
  <2>3. CASE UNCHANGED linksVars
    BY <2>3 DEF linksVars, plcVars, vars, netVars, serverVars, recvVars, OwnInv, InLoop
  <2> QED BY <2>1, <2>2, <2>3 DEF LinksNext
<1> QED BY <1>1, <1>2, BothInv, PTL DEF LinksSpec

\* Until a late close has hit a foreign connection, a receive thread in its loop,
\* of any display or of the PLC, has its own connection behind its number.
THEOREM ConnectionsAreOwn == LinksSpec => []OwnConnection
<1>1. IInv /\ PlcInv /\ OwnInv => OwnConnection
  <2> SUFFICES ASSUME IInv, PlcInv, OwnInv, clean
               PROVE  /\ \A c \in Conns :
                           InLoop(c) => table[modbus_client_sockptr[port[c]]] = c
                      /\ P!InLoop => table[modbus_client_sockptr_plc] = client_plc
    BY DEF OwnConnection
  <2>1. \A c \in Conns : InLoop(c) => table[modbus_client_sockptr[port[c]]] = c
    BY DEF IInv, ReceiverInv, OwnInv
  <2>2. P!InLoop => table[modbus_client_sockptr_plc] = client_plc
    BY DEF P!InLoop, PlcInv, PlcServerInv, PlcReceiverInv, OwnInv
  <2> QED BY <2>1, <2>2
<1> QED BY <1>1, OwnInvHolds, PTL

-----------------------------------------------------------------------------
(* Descriptor 0.                                                           *)

\* Standard input is open until the receive thread of the PLC has left; then the
\* number 0 has room for one connection, which nobody will serve.  The displays
\* never have that number.
ZeroInv ==
  /\ receiver_plc # "done" => table[0] = Stdin
  /\ \A c \in Conns : Unserved(c) => receiver_plc = "done" /\ table[0] = c
  /\ \A c \in Conns : table[0] = c => Unserved(c)
  /\ \A c \in Conns : receiver[c] # "none" => modbus_client_sockptr[port[c]] # 0

\* A connection nobody serves keeps having nobody.
LEMMA UnservedStays ==
  ASSUME IInv, PlcInv, ZeroInv, [LinksNext]_linksVars, NEW c \in Conns, Unserved(c)
  PROVE  Unserved(c)'
<1>0. /\ peer[c] # "idle" /\ port[c] = None /\ c # client_plc
      /\ receiver_plc = "done"
  BY DEF Unserved, ZeroInv
<1>1. CASE LcdStep BY <1>0, <1>1, LcdConns DEF LcdStep, plcVars, Unserved
<1>2. CASE PlcStep BY <1>0, <1>2, PlcConns DEF Unserved
<1>3. CASE UNCHANGED linksVars
  BY <1>0, <1>3 DEF linksVars, plcVars, vars, netVars, Unserved
<1> QED BY <1>1, <1>2, <1>3 DEF LinksNext

\* The threads of a display never close number 0, and accept() gets it only when
\* it is closed.
LEMMA LcdKeepsZero == IInv /\ PlcInv /\ ZeroInv /\ LcdStep => ZeroInv'
<1> SUFFICES ASSUME IInv, PlcInv, ZeroInv, LcdStep PROVE ZeroInv'
  OBVIOUS
<1>0. /\ TypeOK /\ ServerInv /\ ReceiverInv
      /\ Next /\ UNCHANGED <<receiver_plc, client_plc>>
      /\ \A d \in Conns : Unserved(d) => Unserved(d)'
  BY UnservedStays DEF IInv, LcdStep, plcVars, LinksNext
<1> USE LinkAssumption
<1>1. ASSUME NEW p \in Ports, NEW c \in Conns, AcceptZero(p, c) PROVE ZeroInv'
  <2>1. table[0] = None /\ table' = [table EXCEPT ![0] = c] BY <1>1 DEF AcceptZero
  <2>2. receiver_plc = "done" BY <2>1 DEF ZeroInv
  <2>3. \A d \in Conns : ~Unserved(d) BY <2>1 DEF ZeroInv
  <2>4. \A d \in Conns : Unserved(d)' => d = c
    BY <1>0, <1>1, <2>3 DEF AcceptZero, Unserved, TypeOK
  <2>5. table'[0] = c BY <1>0, <2>1 DEF TypeOK
  <2>6. UNCHANGED <<receiver, modbus_client_sockptr, port>>
    BY <1>1 DEF AcceptZero, recvVars, globals
  <2>7. Unserved(c)'
    <3>1. peer[c] = "idle" /\ port[c] = None /\ peer'[c] = "up"
      BY <1>0, <1>1 DEF AcceptZero, NextConn, ReceiverInv, TypeOK
    <3>2. c # client_plc BY <3>1 DEF PlcInv, PlcServerInv
    <3> QED BY <1>0, <2>6, <3>1, <3>2 DEF Unserved
  <2> QED BY <1>0, <2>2, <2>4, <2>5, <2>6, <2>7 DEF ZeroInv
<1>2. ASSUME UNCHANGED <<table, modbus_client_sockptr, port>>,
             \A c \in Conns : peer'[c] # "idle" => peer[c] # "idle",
             \A c \in Conns : receiver'[c] # "none" => receiver[c] # "none"
      PROVE  ZeroInv'
  BY <1>0, <1>2 DEF ZeroInv, Unserved
<1>3. ASSUME NEW p \in Ports, Server(p) PROVE ZeroInv'
  <2>1. ASSUME NEW c \in Conns, Accept(p, c) PROVE ZeroInv'
    <3>1. \A d \in Conns : Unserved(d)' => Unserved(d)
      BY <1>0, <2>1 DEF Accept, Unserved, TypeOK
    <3>2. PICK f \in Fds \ {0} : table' = [table EXCEPT ![f] = c] BY <2>1 DEF Accept
    <3>3. table'[0] = table[0] BY <1>0, <3>2 DEF TypeOK
    <3>4. port[c] = None BY <1>0, <2>1 DEF Accept, NextConn, ReceiverInv
    <3>5. \A d \in Conns : receiver[d] # "none" => port'[d] = port[d]
      BY <1>0, <2>1, <3>4 DEF Accept, ReceiverInv, TypeOK
    <3>6. UNCHANGED <<receiver, modbus_client_sockptr>>
      BY <2>1 DEF Accept, recvVars, globals
    <3> QED BY <1>0, <3>1, <3>3, <3>5, <3>6 DEF ZeroInv
  <2>2. CASE SetFd(p)
    <3>1. client_sockptr[p] # 0 BY <1>0, <2>2 DEF SetFd, ServerInv
    <3>2. \A q \in Ports : modbus_client_sockptr'[q] \in
                             {modbus_client_sockptr[q], client_sockptr[p]}
      BY <1>0, <2>2 DEF SetFd, PublishedFd, TypeOK
    <3>3. UNCHANGED <<table, peer, port, receiver>> BY <2>2 DEF SetFd, netVars, recvVars
    <3>4. \A c \in Conns : Unserved(c)' = Unserved(c) BY <1>0, <3>3 DEF Unserved
    <3>5. \A c \in Conns : receiver[c] # "none" => port[c] \in Ports
      BY <1>0 DEF ReceiverInv
    <3>6. ASSUME NEW c \in Conns, receiver[c] # "none"
          PROVE  modbus_client_sockptr'[port[c]] # 0
      BY <3>1, <3>2, <3>5, <3>6 DEF ZeroInv
    <3> QED BY <1>0, <3>3, <3>4, <3>6 DEF ZeroInv
  <2>3. CASE MakeReceiver(p)
    <3>1. modbus_client_sockptr[port[client[p]]] # 0 /\ client[p] \in Conns
      BY <1>0, <2>3 DEF MakeReceiver, ServerInv, TypeOK
    <3>2. /\ \A c \in Conns : receiver'[c] = receiver[c] \/ c = client[p]
          /\ UNCHANGED <<table, peer, port, modbus_client_sockptr>>
      BY <1>0, <2>3 DEF MakeReceiver, netVars, globals, TypeOK
    <3>3. \A c \in Conns : Unserved(c)' = Unserved(c) BY <1>0, <3>2 DEF Unserved
    <3> QED BY <1>0, <3>1, <3>2, <3>3 DEF ZeroInv
  <2>4. CASE ServerTest(p) \/ AcceptFails(p) \/ SetOn(p) \/ MakeSender(p)
    BY <1>2, <2>4 DEF ServerTest, AcceptFails, SetOn, MakeSender, globals, netVars,
                      recvVars
  <2> QED BY <1>1, <1>3, <2>1, <2>2, <2>3, <2>4 DEF Server, AcceptNext
<1>4. ASSUME NEW c \in Conns, Receiver(c) PROVE ZeroInv'
  <2>1. /\ UNCHANGED <<modbus_client_sockptr, port>>
        /\ \A d \in Conns : peer'[d] # "idle" => peer[d] # "idle"
        /\ \A d \in Conns : receiver'[d] # "none" => receiver[d] # "none"
    <3>1. UNCHANGED <<modbus_client_sockptr, port>>
      BY <1>4 DEF Receiver, FetchFd, SelectFails, SelectReturns, LoadQueue, RecvData, RecvEof,
         RecvError, PutFrame, SetOff, CloseFd, globals, netVars
    <3>2. \A d \in Conns : peer'[d] # "idle" => peer[d] # "idle"
      <4>1. CASE RecvError(c) BY <1>0, <4>1 DEF RecvError, TypeOK
      <4>2. CASE ~RecvError(c)
        BY <1>4, <4>2 DEF Receiver, FetchFd, SelectFails, SelectReturns, LoadQueue, RecvData,
           RecvEof, PutFrame, SetOff, CloseFd, netVars
      <4> QED BY <4>1, <4>2
    <3>3. \A d \in Conns : receiver'[d] # "none" => receiver[d] # "none"
      BY <1>0, <1>4 DEF Receiver, FetchFd, SelectFails, SelectReturns, LoadQueue, RecvData, RecvEof,
         RecvError, PutFrame, SetOff, CloseFd, TypeOK
    <3> QED BY <3>1, <3>2, <3>3
  <2>2. CASE CloseFd(c)
    <3>1. modbus_client_sockptr[port[c]] # 0 BY <2>2 DEF CloseFd, ZeroInv
    <3>2. table'[0] = table[0] BY <1>0, <2>2, <3>1 DEF CloseFd, ClosedNumber, TypeOK
    <3>3. \A d \in Conns : Unserved(d)' => Unserved(d) BY <1>0, <2>1 DEF Unserved
    <3> QED BY <1>0, <2>1, <3>2, <3>3 DEF ZeroInv
  <2>3. CASE ~CloseFd(c)
    <3>1. UNCHANGED table
      BY <1>4, <2>3 DEF Receiver, FetchFd, SelectFails, SelectReturns, LoadQueue, RecvData, RecvEof,
         RecvError, PutFrame, SetOff, netVars
    <3> QED BY <1>2, <2>1, <3>1
  <2> QED BY <2>2, <2>3
<1>5. ASSUME NEW c \in Conns, Sender(c) \/ Client(c) PROVE ZeroInv'
  <2>1. UNCHANGED <<table, modbus_client_sockptr, port, receiver>>
    BY <1>5 DEF Sender, CreateQueue, SenderTest, TakeFrame, PollTimeout, Analyse,
       Client, ClientSends, ClientLeaves, globals, netVars, recvVars
  <2>2. \A d \in Conns : peer'[d] # "idle" => peer[d] # "idle"
    BY <1>0, <1>5 DEF Sender, CreateQueue, SenderTest, TakeFrame, PollTimeout, Analyse,
       Client, ClientSends, ClientLeaves, netVars, TypeOK
  <2> QED BY <1>2, <2>1, <2>2
<1> QED BY <1>0, <1>3, <1>4, <1>5 DEF Next

\* The PLC closes number 0 once, when its receive thread leaves.
LEMMA PlcKeepsZero == IInv /\ PlcInv /\ ZeroInv /\ PlcStep => ZeroInv'
<1> SUFFICES ASSUME IInv, PlcInv, ZeroInv, PlcStep PROVE ZeroInv'
  OBVIOUS
<1>0. /\ TypeOK /\ PlcServerInv /\ PlcReceiverInv /\ P!TypeOK
      /\ P!Next /\ UNCHANGED <<modbus_client_sockptr, port, receiver>>
      /\ \A d \in Conns : Unserved(d) => Unserved(d)'
  BY UnservedStays DEF IInv, PlcInv, PlcStep, LinksNext, lcdVars, globals, recvVars
<1> USE SameConns, LinkAssumption
<1>1. ASSUME NEW c \in Conns, P!Accept(c) PROVE ZeroInv'
  <2>1. receiver_plc = "none" /\ client_plc = None /\ UNCHANGED receiver_plc
    BY <1>0, <1>1 DEF P!Accept, PlcServerInv, P!recvVars
  <2>2. table'[0] = table[0] BY <1>0, <1>1 DEF P!Accept, TypeOK
  <2>3. \A d \in Conns : ~Unserved(d) BY <2>1 DEF ZeroInv
  <2>4. \A d \in Conns : ~Unserved(d)'
    BY <1>0, <1>1, <2>1, <2>3 DEF P!Accept, Unserved, TypeOK
  <2> QED BY <1>0, <2>1, <2>2, <2>4 DEF ZeroInv
<1>2. ASSUME UNCHANGED <<table, client_plc>>,
             receiver_plc = "done" <=> receiver_plc' = "done",
             \A c \in Conns : peer'[c] # "idle" => peer[c] # "idle"
      PROVE  ZeroInv'
  BY <1>0, <1>2 DEF ZeroInv, Unserved
<1>3. ASSUME P!Server, ~\E c \in Conns : P!Accept(c) PROVE ZeroInv'
  <2>0. \/ P!ServerTest \/ P!AcceptFails \/ P!SetOn \/ P!SetFd \/ P!MakeReceiver
        \/ P!MakeSender
    BY <1>3 DEF P!Server
  <2>1. UNCHANGED <<table, peer, client_plc>>
    BY <2>0 DEF P!ServerTest, P!AcceptFails, P!SetOn, P!SetFd, P!MakeReceiver,
       P!MakeSender, P!sharedVars
  <2>2. receiver_plc' # receiver_plc => receiver_plc = "none" /\ receiver_plc' = "fetch"
    BY <1>0, <2>0 DEF P!ServerTest, P!AcceptFails, P!SetOn, P!SetFd, P!MakeReceiver,
       P!MakeSender, P!recvVars, PlcServerInv
  <2> QED BY <1>2, <2>1, <2>2
<1>4. ASSUME P!Receiver PROVE ZeroInv'
  <2>1. CASE P!CloseFd
    <3>1. /\ receiver_plc = "close" /\ receiver_plc' = "done"
          /\ UNCHANGED <<peer, client_plc>>
      BY <2>1 DEF P!CloseFd, P!serverVars
    <3>2. \A d \in Conns : ~Unserved(d) BY <3>1 DEF ZeroInv
    <3>3. \A d \in Conns : ~Unserved(d)' BY <1>0, <3>1, <3>2 DEF Unserved
    <3>4. table'[0] = None
      BY <1>0, <2>1, <3>1 DEF P!CloseFd, PlcReceiverInv, TypeOK
    <3> QED BY <1>0, <3>1, <3>3, <3>4 DEF ZeroInv
  <2>2. CASE ~P!CloseFd
    <3>1. /\ receiver_plc # "done" /\ receiver_plc' # "done"
          /\ UNCHANGED <<table, client_plc>>
      BY <1>4, <2>2 DEF P!Receiver, P!FetchFd, P!SelectFails, P!SelectReturns, P!LoadQueue,
         P!RecvData, P!RecvEof, P!RecvError, P!PutFrame, P!SetPtr, P!sharedVars,
         P!serverVars
    <3>2. \A c \in Conns : peer'[c] # "idle" => peer[c] # "idle"
      BY <1>0, <1>4, <2>2 DEF P!Receiver, P!FetchFd, P!SelectFails, P!SelectReturns, P!LoadQueue,
         P!RecvData, P!RecvEof, P!RecvError, P!PutFrame, P!SetPtr, P!sharedVars, TypeOK
    <3> QED BY <1>2, <3>1, <3>2
  <2> QED BY <2>1, <2>2
<1>5. ASSUME P!Sender PROVE ZeroInv'
  <2>1. UNCHANGED <<table, peer, client_plc, receiver_plc>>
    BY <1>5 DEF P!Sender, P!CreateQueue, P!SenderTest, P!TakeFrame, P!PollTimeout,
       P!AnalysModbus, P!sharedVars, P!serverVars, P!recvVars
  <2> QED BY <1>2, <2>1
<1> QED BY <1>0, <1>1, <1>3, <1>4, <1>5 DEF P!Next

\* ZeroInv holds in every reachable state.
LEMMA ZeroInvHolds == LinksSpec => []ZeroInv
<1>1. LinksInit => ZeroInv
  BY LinkAssumption DEF LinksInit, Init, P!Init, ZeroInv, Unserved
<1>2. IInv /\ PlcInv /\ ZeroInv /\ [LinksNext]_linksVars => ZeroInv'
  <2> SUFFICES ASSUME IInv, PlcInv, ZeroInv, [LinksNext]_linksVars PROVE ZeroInv'
    OBVIOUS
  <2>1. CASE LcdStep BY <2>1, LcdKeepsZero
  <2>2. CASE PlcStep BY <2>2, PlcKeepsZero
  <2>3. CASE UNCHANGED linksVars
    BY <2>3 DEF linksVars, plcVars, vars, globals, netVars, recvVars, ZeroInv, Unserved
  <2> QED BY <2>1, <2>2, <2>3 DEF LinksNext
<1> QED BY <1>1, <1>2, BothInv, PTL DEF LinksSpec

\* A connection nobody serves exists only after the receive thread of the PLC has
\* left, on descriptor 0, and there is room for one.
THEOREM OneIsUnserved == LinksSpec => []OneUnserved
<1>1. ZeroInv => OneUnserved BY DEF ZeroInv, OneUnserved
<1> QED BY <1>1, ZeroInvHolds, PTL

-----------------------------------------------------------------------------
(* Types, and the answers of the PLC.                                      *)

\* The variables of both links have their types.
THEOREM LinksTypeCorrect == LinksSpec => []LinksTypeOK
<1>1. IInv /\ PlcInv /\ OwnInv => LinksTypeOK
  BY DEF IInv, PlcInv, OwnInv, LinksTypeOK
<1> QED BY <1>1, OwnInvHolds, PTL

\* The queue of a connection nobody serves is empty; the queue with the id 0 is
\* that of a display's send thread or of the PLC's; there is no answer before
\* there is a client.
QueuesInv ==
  /\ \A q \in Conns : port[q] = None /\ q # client_plc => queue[q] = <<>>
  /\ queueZero \in Conns => port[queueZero] # None \/ queueZero = client_plc
  /\ client_plc = None => answers = {}

\* No frame of another client can get into the queue of the PLC.  Once this is false
\* it stays false.
Home == clean /\ client_plc # None /\ queueZero # client_plc

OwnFrames == {client_plc} \X (1..MaxFrames)

\* A frame of the PLC's client meets no other in the hands of the receive thread,
\* in the queue and in the hand of the send thread.
HomeInv ==
  Home => /\ queue[client_plc] \in Seq(OwnFrames)
          /\ receiver_plc = "put" => got_plc \in OwnFrames
          /\ sender_plc = "analyse" => job_plc \in OwnFrames
          /\ \A a \in answers : a[1] = client_plc

\* The answers have gone to the PLC's client, or to one nobody serves.
SentInv == clean => \A a \in answers : a[2] = client_plc \/ Unserved(a[2])

\* A display's threads fill and empty the queues of their own port and the one
\* with the id 0; a send thread of theirs may be the one that gets this id.
LEMMA LcdQueues ==
  ASSUME IInv, [Next]_vars, NEW q \in Conns
  PROVE  /\ port'[q] = None => port[q] = None
         /\ port[q] = None /\ q # queueZero => queue'[q] = queue[q]
         /\ queueZero' = queueZero \/ (queueZero = 0 /\ port'[queueZero'] # None)
<1> USE LinkAssumption DEF queueVars
<1>0. TypeOK /\ ServerInv /\ ReceiverInv /\ OwnQueues BY DEF IInv, QueueInv
<1>1. ASSUME NEW p \in Ports, Server(p)
      PROVE  UNCHANGED <<queue, queueZero>> /\ (port'[q] = None => port[q] = None)
  <2>1. CASE \E c \in Conns : Accept(p, c) BY <1>0, <2>1 DEF Accept, TypeOK
  <2>2. CASE ~\E c \in Conns : Accept(p, c)
    BY <1>1, <2>2 DEF Server, AcceptNext, ServerTest, AcceptZero, AcceptFails, SetOn,
       SetFd, MakeReceiver, MakeSender, netVars
  <2> QED BY <2>1, <2>2
<1>2. ASSUME NEW c \in Conns, Receiver(c)
      PROVE  /\ UNCHANGED <<port, queueZero>>
             /\ port[q] = None /\ q # queueZero => queue'[q] = queue[q]
  <2>1. CASE PutFrame(c)
    <3> DEFINE t == QueueBehind(qid[c])
               room == t # None /\ Len(queue[t]) < QueueLen
    <3>1. /\ receiver[c] = "put" /\ UNCHANGED <<port, queueZero>>
          /\ queue' = IF room THEN [queue EXCEPT ![t] = Append(@, got[c])] ELSE queue
      BY <2>1 DEF PutFrame, netVars
    <3>2. port[c] \in Ports /\ port[c] # None BY <1>0, <3>1 DEF ReceiverInv
    <3>3. t \in Conns => t = queueZero \/ port[t] = port[c]
      BY <1>0 DEF QueueBehind, OwnQueues, TypeOK
    <3>4. t \in Conns \cup {None} BY <1>0 DEF QueueBehind, TypeOK
    <3> HIDE DEF t
    <3> QED BY <1>0, <3>1, <3>2, <3>3, <3>4 DEF TypeOK
  <2>2. CASE ~PutFrame(c)
    BY <1>2, <2>2 DEF Receiver, FetchFd, SelectFails, SelectReturns, LoadQueue, RecvData, RecvEof,
                      RecvError, SetOff, CloseFd, netVars
  <2> QED BY <2>1, <2>2
<1>3. ASSUME NEW c \in Conns, Sender(c)
      PROVE  /\ UNCHANGED port
             /\ port[q] = None => queue'[q] = queue[q]
             /\ queueZero' = queueZero \/ (queueZero = 0 /\ port[queueZero'] # None)
  <2>0. sender[c] # "none" => port[c] \in Ports BY <1>0 DEF ReceiverInv
  <2>1. CASE CreateQueue(c) BY <2>0, <2>1 DEF CreateQueue, netVars
  <2>2. CASE TakeFrame(c)
    <3>1. squeue[c] \in Conns /\ port[squeue[c]] = port[c] /\ port[c] # None
      BY <1>0, <2>0, <2>2 DEF TakeFrame, OwnQueues, TypeOK
    <3> QED BY <1>0, <2>2, <3>1 DEF TakeFrame, netVars, TypeOK
  <2>3. CASE SenderTest(c) \/ PollTimeout(c) \/ Analyse(c)
    BY <2>3 DEF SenderTest, PollTimeout, Analyse, netVars
  <2> QED BY <1>3, <2>1, <2>2, <2>3 DEF Sender
<1>4. ASSUME NEW c \in Conns, Client(c) PROVE UNCHANGED <<port, queue, queueZero>>
  BY <1>4 DEF Client, ClientSends, ClientLeaves
<1>5. CASE UNCHANGED vars BY <1>5 DEF vars, netVars
<1> QED BY <1>1, <1>2, <1>3, <1>4, <1>5 DEF Next

\* What the displays do to queues and connections does not reach the PLC's queue.
LEMMA LcdKeepsHome ==
  IInv /\ PlcInv /\ OwnInv /\ QueuesInv /\ HomeInv /\ LcdStep => QueuesInv' /\ HomeInv'
<1> SUFFICES ASSUME IInv, PlcInv, OwnInv, QueuesInv, HomeInv, LcdStep
             PROVE  QueuesInv' /\ HomeInv'
  OBVIOUS
<1> USE LinkAssumption, SameConns
<1>0. /\ TypeOK /\ P!TypeOK /\ PlcServerInv /\ UNCHANGED plcVars /\ [Next]_vars
      /\ clean' => clean
  BY DEF IInv, PlcInv, OwnInv, LcdStep
<1>1. QueuesInv'
  <2>1. ASSUME NEW q \in Conns, port'[q] = None, q # client_plc PROVE queue'[q] = <<>>
    <3>1. port[q] = None BY <2>1, <1>0, LcdQueues
    <3>2. q # queueZero BY <2>1, <3>1 DEF QueuesInv
    <3>3. queue'[q] = queue[q] BY <1>0, <3>1, <3>2, LcdQueues
    <3> QED BY <2>1, <3>1, <3>3 DEF QueuesInv
  <2>2. ASSUME queueZero' \in Conns
        PROVE  port'[queueZero'] # None \/ queueZero' = client_plc
    <3>1. CASE queueZero' = queueZero BY <1>0, <2>2, <3>1, LcdQueues DEF QueuesInv
    <3>2. CASE queueZero' # queueZero BY <1>0, <2>2, <3>2, LcdQueues
    <3> QED BY <3>1, <3>2
  <2>3. client_plc = None => answers = {} BY DEF QueuesInv
  <2>4. client_plc' = client_plc /\ answers' = answers BY <1>0 DEF plcVars
  <2> QED BY <2>1, <2>2, <2>3, <2>4 DEF QueuesInv
<1>2. HomeInv'
  <2> SUFFICES ASSUME Home' PROVE HomeInv'
    BY DEF HomeInv
  <2>1. client_plc \in Conns /\ port[client_plc] = None
    BY <1>0 DEF Home, PlcServerInv, P!TypeOK, plcVars
  <2>0. client_plc # 0 BY <2>1 DEF Conns
  <2>2. queueZero # client_plc BY <1>0, <2>0, <2>1, LcdQueues DEF Home, plcVars
  <2>3. Home BY <1>0, <2>2 DEF Home, plcVars
  <2>4. queue'[client_plc] = queue[client_plc] BY <1>0, <2>1, <2>2, LcdQueues
  <2> QED BY <1>0, <2>3, <2>4 DEF HomeInv, OwnFrames, plcVars
<1> QED BY <1>1, <1>2

\* The PLC's receive thread reads its own client's frames into the queue that its
\* send thread made, and this thread answers to the same client.
LEMMA PlcKeepsHome ==
  IInv /\ PlcInv /\ OwnInv /\ QueuesInv /\ HomeInv /\ PlcStep => QueuesInv' /\ HomeInv'
<1> SUFFICES ASSUME IInv, PlcInv, OwnInv, QueuesInv, HomeInv, PlcStep
             PROVE  QueuesInv' /\ HomeInv'
  OBVIOUS
<1> USE LinkAssumption, SameConns
<1>0. /\ TypeOK /\ P!TypeOK /\ PlcServerInv /\ PlcReceiverInv /\ PlcSenderInv
      /\ P!Next /\ UNCHANGED <<port, clean>>
  BY DEF IInv, PlcInv, PlcStep, lcdVars
\* A step that leaves queues, frames in hand and answers alone keeps both.
<1>1. ASSUME UNCHANGED <<queue, queueZero, client_plc, answers>>,
             receiver_plc' = "put" => receiver_plc = "put" /\ got_plc' = got_plc,
             sender_plc' = "analyse" => sender_plc = "analyse" /\ job_plc' = job_plc
      PROVE  QueuesInv' /\ HomeInv'
  BY <1>0, <1>1 DEF QueuesInv, HomeInv, Home, OwnFrames
<1>2. ASSUME NEW c \in Conns, P!Accept(c) PROVE QueuesInv' /\ HomeInv'
  <2>1. /\ client_plc = None /\ receiver_plc = "none" /\ sender_plc = "none"
        /\ client_plc' = c
        /\ UNCHANGED <<queue, queueZero, answers, receiver_plc, sender_plc>>
    BY <1>0, <1>2 DEF P!Accept, PlcServerInv, P!recvVars, P!sendVars
  <2>2. port[c] = None BY <1>2 DEF P!Accept, IInv, ReceiverInv
  <2>3. queue[c] = <<>> /\ answers = {} BY <2>1, <2>2 DEF QueuesInv
  <2>4. <<>> \in Seq({c} \X (1..MaxFrames)) OBVIOUS
  <2> QED BY <1>0, <2>1, <2>2, <2>3, <2>4 DEF QueuesInv, HomeInv, OwnFrames
<1>3. CASE P!Server
  <2>1. CASE ~\E c \in Conns : P!Accept(c)
    <3>1. UNCHANGED <<queue, queueZero, client_plc, answers, got_plc, job_plc>>
      BY <1>3, <2>1 DEF P!Server, P!ServerTest, P!AcceptFails, P!SetOn, P!SetFd,
         P!MakeReceiver, P!MakeSender, P!sharedVars, P!recvVars, P!sendVars
    <3>2. \/ receiver_plc' = receiver_plc
          \/ receiver_plc = "none" /\ receiver_plc' = "fetch"
      BY <1>0, <1>3, <2>1 DEF P!Server, P!ServerTest, P!AcceptFails, P!SetOn, P!SetFd,
         P!MakeReceiver, P!MakeSender, P!recvVars, PlcServerInv
    <3>3. sender_plc' = sender_plc \/ sender_plc' = "create"
      BY <1>3, <2>1 DEF P!Server, P!ServerTest, P!AcceptFails, P!SetOn, P!SetFd,
         P!MakeReceiver, P!MakeSender, P!sendVars
    <3> QED BY <1>1, <3>1, <3>2, <3>3
  <2> QED BY <1>2, <2>1
<1>4. ASSUME P!RecvData PROVE QueuesInv' /\ HomeInv'
  <2>1. PICK d \in Conns : /\ d = table[fd_plc]
                            /\ got_plc' = <<d, read[d] + 1>>
                            /\ read[d] + 1 \in 1..MaxFrames
    BY <1>4, PlcFrameRead
  <2>2. /\ receiver_plc = "recv" /\ receiver_plc' = "put"
        /\ UNCHANGED <<queue, queueZero, client_plc, answers, sender_plc, job_plc>>
    BY <1>4 DEF P!RecvData, P!serverVars, P!sendVars
  <2>3. client_plc # None /\ fd_plc = client_sockptr_plc
    BY <1>0, <2>2 DEF PlcServerInv, PlcReceiverInv
  <2>4. clean => d = client_plc BY <2>1, <2>2, <2>3 DEF OwnInv
  <2> QED BY <1>0, <2>1, <2>2, <2>4 DEF QueuesInv, HomeInv, Home, OwnFrames
<1>5. ASSUME P!PutFrame PROVE QueuesInv' /\ HomeInv'
  <2> DEFINE t == P!QueueBehind(qid_plc)
             room == t # None /\ Len(queue[t]) < QueueLen
  <2>1. /\ receiver_plc = "put" /\ receiver_plc' = "fetch"
        /\ queue' = IF room THEN [queue EXCEPT ![t] = Append(@, got_plc)] ELSE queue
        /\ UNCHANGED <<queueZero, client_plc, answers, sender_plc, job_plc>>
    BY <1>5 DEF P!PutFrame, P!serverVars, P!sendVars
  <2>2. t \in {client_plc, queueZero, None} /\ t # 0
    BY <1>0 DEF P!QueueBehind, PlcSenderInv, P!TypeOK, TypeOK
  <2>3. t \in Conns \cup {None}
    BY <1>0, <2>2 DEF P!TypeOK, TypeOK
  <2> HIDE DEF t
  <2>4. \A q \in Conns : q # t => queue'[q] = queue[q]
    BY <1>0, <2>1, <2>3 DEF TypeOK
  <2>5. QueuesInv'
    BY <1>0, <2>1, <2>2, <2>4 DEF QueuesInv
  <2>6. ASSUME Home' PROVE queue'[client_plc] \in Seq(OwnFrames)
    <3>1. Home /\ client_plc \in Conns BY <1>0, <2>1, <2>6 DEF Home, P!TypeOK
    <3>2. queue[client_plc] \in Seq(OwnFrames) /\ got_plc \in OwnFrames
      BY <2>1, <3>1 DEF HomeInv
    <3>3. Append(queue[client_plc], got_plc) \in Seq(OwnFrames) BY <3>2
    <3>4. CASE t = client_plc
      <4>1. queue'[client_plc] \in {queue[client_plc], Append(queue[client_plc], got_plc)}
        BY <1>0, <2>1, <3>1, <3>4 DEF TypeOK
      <4> QED BY <3>2, <3>3, <4>1
    <3>5. CASE t # client_plc BY <2>4, <3>1, <3>2, <3>5
    <3> QED BY <3>4, <3>5
  <2>7. HomeInv'
    BY <1>0, <2>1, <2>6 DEF HomeInv, Home, OwnFrames
  <2> QED BY <2>5, <2>7
<1>6. ASSUME P!Receiver, ~P!RecvData, ~P!PutFrame PROVE QueuesInv' /\ HomeInv'
  <2>1. UNCHANGED <<queue, queueZero, client_plc, answers, got_plc, sender_plc, job_plc>>
    BY <1>6 DEF P!Receiver, P!FetchFd, P!SelectFails, P!SelectReturns, P!LoadQueue, P!RecvEof,
       P!RecvError, P!SetPtr, P!CloseFd, P!sharedVars, P!serverVars, P!sendVars
  <2>2. receiver_plc' # "put"
    BY <1>6 DEF P!Receiver, P!FetchFd, P!SelectFails, P!SelectReturns, P!LoadQueue, P!RecvEof,
       P!RecvError, P!SetPtr, P!CloseFd
  <2> QED BY <1>1, <2>1, <2>2
<1>7. ASSUME P!CreateQueue PROVE QueuesInv' /\ HomeInv'
  <2>1. /\ UNCHANGED <<queue, client_plc, answers, receiver_plc, got_plc, job_plc>>
        /\ sender_plc' = "test"
        /\ queueZero' = queueZero \/ queueZero' = client_plc
    BY <1>7 DEF P!CreateQueue, P!serverVars, P!recvVars
  <2> QED BY <1>0, <2>1 DEF QueuesInv, HomeInv, Home, OwnFrames
<1>8. ASSUME P!TakeFrame PROVE QueuesInv' /\ HomeInv'
  <2>1. /\ g_comm_qmegid_plc = client_plc /\ client_plc \in Conns
        /\ queue[client_plc] # <<>>
        /\ job_plc' = Head(queue[client_plc])
        /\ queue' = [queue EXCEPT ![client_plc] = Tail(queue[client_plc])]
        /\ UNCHANGED <<queueZero, client_plc, answers, receiver_plc, got_plc>>
    BY <1>0, <1>8 DEF P!TakeFrame, PlcSenderInv, P!TypeOK, P!serverVars, P!recvVars
  <2>2. queue'[client_plc] = Tail(queue[client_plc]) BY <1>0, <2>1 DEF TypeOK
  <2>3. Home => /\ Head(queue[client_plc]) \in OwnFrames
                /\ Tail(queue[client_plc]) \in Seq(OwnFrames)
    BY <2>1 DEF HomeInv
  <2>4. QueuesInv' BY <1>0, <2>1 DEF QueuesInv, TypeOK
  <2>5. HomeInv' BY <1>0, <2>1, <2>2, <2>3 DEF HomeInv, Home, OwnFrames
  <2> QED BY <2>4, <2>5
<1>9. ASSUME P!AnalysModbus PROVE QueuesInv' /\ HomeInv'
  <2> DEFINE to == table[modbus_client_sockptr_plc]
  <2>1. /\ sender_plc = "analyse" /\ sender_plc' = "test"
        /\ answers' = answers \/ answers' = answers \cup {<<job_plc[1], to>>}
        /\ UNCHANGED <<queue, queueZero, client_plc, receiver_plc, got_plc>>
    BY <1>9 DEF P!AnalysModbus, P!sharedVars, P!serverVars, P!recvVars
  <2>2. client_plc # None BY <1>0, <2>1 DEF PlcServerInv
  <2>4. Home => job_plc[1] = client_plc BY <2>1 DEF HomeInv, OwnFrames
  <2>5. QueuesInv' BY <1>0, <2>1, <2>2 DEF QueuesInv
  <2>6. HomeInv' BY <1>0, <2>1, <2>4 DEF HomeInv, Home, OwnFrames
  <2> QED BY <2>5, <2>6
<1>10. ASSUME P!SenderTest \/ P!PollTimeout PROVE QueuesInv' /\ HomeInv'
  <2>1. /\ UNCHANGED <<queue, queueZero, client_plc, answers, receiver_plc, got_plc>>
        /\ sender_plc' # "analyse"
    BY <1>10 DEF P!SenderTest, P!PollTimeout, P!sharedVars, P!serverVars, P!recvVars
  <2> QED BY <1>1, <2>1
<1> QED BY <1>0, <1>3, <1>4, <1>5, <1>6, <1>7, <1>8, <1>9, <1>10
        DEF P!Next, P!Sender

\* The send thread answers to the number of the moment: that of its client until the
\* receive thread leaves, then 0, which is standard input, closed, or the connection
\* nobody serves.
LEMMA SentStep ==
  IInv /\ PlcInv /\ OwnInv /\ ZeroInv /\ QueuesInv /\ SentInv /\ [LinksNext]_linksVars
    => SentInv'
<1> SUFFICES ASSUME IInv, PlcInv, OwnInv, ZeroInv, QueuesInv, SentInv,
                    [LinksNext]_linksVars, clean', NEW a \in answers'
             PROVE  a[2] = client_plc' \/ Unserved(a[2])'
  BY DEF SentInv
<1> USE LinkAssumption, SameConns
<1>0. clean /\ P!TypeOK /\ TypeOK /\ PlcServerInv /\ PlcReceiverInv
  BY DEF LinksNext, LcdStep, PlcStep, linksVars, IInv, PlcInv, OwnInv
<1>1. CASE a \in answers
  <2>1. client_plc # None BY <1>1 DEF QueuesInv
  <2>2. client_plc' = client_plc
    <3>1. CASE PlcStep
      <4>1. CASE \E c \in P!Conns : P!Accept(c)
        BY <1>0, <2>1, <4>1 DEF P!Accept, PlcServerInv
      <4>2. CASE ~\E c \in P!Conns : P!Accept(c)
        BY <3>1, <4>2 DEF PlcStep, P!Next, P!Server, P!ServerTest, P!AcceptFails,
           P!SetOn, P!SetFd, P!MakeReceiver, P!MakeSender, P!Receiver, P!FetchFd,
           P!SelectFails, P!SelectReturns, P!LoadQueue, P!RecvData, P!RecvEof,
           P!RecvError, P!PutFrame, P!SetPtr, P!CloseFd, P!Sender, P!CreateQueue,
           P!SenderTest, P!TakeFrame, P!PollTimeout, P!AnalysModbus, P!serverVars
      <4> QED BY <4>1, <4>2
    <3> QED BY <3>1 DEF LinksNext, LcdStep, linksVars, plcVars
  <2>3. a[2] \in Conns BY <1>0, <1>1 DEF P!TypeOK
  <2>4. a[2] = client_plc \/ Unserved(a[2]) BY <1>0, <1>1 DEF SentInv
  <2> QED BY <2>2, <2>3, <2>4, UnservedStays
<1>2. CASE a \notin answers
  <2> DEFINE to == table[modbus_client_sockptr_plc]
  <2>1. P!AnalysModbus /\ PlcStep
    BY <1>2 DEF LinksNext, LcdStep, linksVars, plcVars, PlcStep, P!Next, P!Server,
       P!ServerTest, P!Accept, P!AcceptFails, P!SetOn, P!SetFd, P!MakeReceiver,
       P!MakeSender, P!Receiver, P!FetchFd, P!SelectFails, P!SelectReturns,
       P!LoadQueue, P!RecvData, P!RecvEof, P!RecvError, P!PutFrame, P!SetPtr,
       P!CloseFd, P!Sender, P!CreateQueue, P!SenderTest, P!TakeFrame,
       P!PollTimeout, P!sendVars
  <2>2. /\ sender_plc = "analyse" /\ client_plc' = client_plc
        /\ to \in Conns /\ a[2] = to
    BY <1>2, <2>1 DEF P!AnalysModbus, P!serverVars
  <2>3. client_plc # None /\ server_plc \notin {"seton", "setfd"}
    BY <1>0, <2>2 DEF PlcServerInv
  <2>4. CASE receiver_plc \notin {"close", "done"}
    <3>1. to = client_plc BY <1>0, <2>3, <2>4 DEF PlcReceiverInv, OwnInv
    <3> QED BY <2>2, <3>1
  <2>5. CASE receiver_plc \in {"close", "done"}
    <3>1. to = table[0] BY <1>0, <2>5 DEF PlcReceiverInv
    <3>2. Unserved(to) BY <2>2, <3>1 DEF ZeroInv
    <3> QED BY <2>2, <3>2, UnservedStays
  <2> QED BY <2>4, <2>5
<1> QED BY <1>1, <1>2

\* Where the queues and the frames in hand are, in every reachable state.
LEMMA HomeInvHolds == LinksSpec => [](QueuesInv /\ HomeInv)
<1>1. LinksInit => QueuesInv /\ HomeInv
  BY LinkAssumption DEF LinksInit, Init, P!Init, QueuesInv, HomeInv, Home
<1>2. IInv /\ PlcInv /\ OwnInv /\ QueuesInv /\ HomeInv /\ [LinksNext]_linksVars
        => QueuesInv' /\ HomeInv'
  <2> SUFFICES ASSUME IInv, PlcInv, OwnInv, QueuesInv, HomeInv, [LinksNext]_linksVars
               PROVE  QueuesInv' /\ HomeInv'
    OBVIOUS
  <2>1. CASE LcdStep BY <2>1, LcdKeepsHome
  <2>2. CASE PlcStep BY <2>2, PlcKeepsHome
  <2>3. CASE UNCHANGED linksVars
    BY <2>3 DEF linksVars, plcVars, vars, netVars, queueVars, QueuesInv, HomeInv, Home,
                OwnFrames
  <2> QED BY <2>1, <2>2, <2>3 DEF LinksNext
<1> QED BY <1>1, <1>2, OwnInvHolds, PTL DEF LinksSpec

\* An answer of the PLC never goes to a client that a thread serves, but the PLC's
\* own, the time after its receive thread has left included; and it answers a frame
\* of that client, unless the PLC's queue is the one with the id 0.  Both until a
\* late close has hit a foreign connection.
THEOREM AnswersComeHome == LinksSpec => []AnswersGoHome
<1>1. LinksInit => SentInv BY DEF LinksInit, P!Init, SentInv
<1>2. QueuesInv /\ HomeInv /\ SentInv => AnswersGoHome
  BY DEF QueuesInv, HomeInv, Home, SentInv, AnswersGoHome
<1> QED BY <1>1, <1>2, SentStep, OwnInvHolds, ZeroInvHolds, HomeInvHolds, PTL
        DEF LinksSpec

-----------------------------------------------------------------------------
(* Whom an answer of a display reaches.                                    *)

\* The PLC's client has no port, so it is open where TableInv does not look.
LEMMA PlcKeepsTableInv == IInv /\ PlcInv /\ TableInv /\ PlcStep => TableInv'
<1> SUFFICES ASSUME IInv, PlcInv, TableInv, PlcStep PROVE TableInv'
  OBVIOUS
<1> USE LinkAssumption, SameConns
<1>0. /\ TypeOK /\ UNCHANGED <<port, client, client_sockptr>> /\ P!Next
      /\ \A c \in Conns : peer[c] # "idle" => peer'[c] # "idle"
  BY PlcConns DEF IInv, PlcStep, lcdVars, serverVars
<1>1. ASSUME NEW c \in Conns, P!Accept(c) PROVE TableInv'
  <2>1. port[c] = None /\ peer'[c] = "up"
    BY <1>0, <1>1 DEF P!Accept, IInv, ReceiverInv, TypeOK
  <2>2. \A f \in Fds : table'[f] = table[f] \/ table'[f] = c
    BY <1>0, <1>1 DEF P!Accept, TypeOK
  <2> QED BY <1>0, <2>1, <2>2 DEF TableInv
<1>2. CASE P!CloseFd
  <2>1. \A f \in Fds : table'[f] = table[f] \/ table'[f] = None
    BY <1>0, <1>2 DEF P!CloseFd, TypeOK
  <2> QED BY <1>0, <2>1 DEF TableInv
<1>3. CASE ~P!CloseFd /\ ~\E c \in Conns : P!Accept(c)
  <2>1. UNCHANGED table
    BY <1>0, <1>3 DEF P!Next, P!Server, P!ServerTest, P!AcceptFails, P!SetOn, P!SetFd,
       P!MakeReceiver, P!MakeSender, P!Receiver, P!FetchFd, P!SelectFails,
       P!SelectReturns, P!LoadQueue, P!RecvData, P!RecvEof, P!RecvError, P!PutFrame,
       P!SetPtr, P!Sender, P!CreateQueue, P!SenderTest, P!TakeFrame, P!PollTimeout,
       P!AnalysModbus, P!sharedVars
  <2> QED BY <1>0, <2>1 DEF TableInv
<1> QED BY <1>1, <1>2, <1>3

\* TableInv holds of the displays in the composition too.
LEMMA TableInvHolds == LinksSpec => []TableInv
<1>1. LinksInit => TableInv BY LinkAssumption DEF LinksInit, Init, TableInv
<1>2. IInv /\ PlcInv /\ TableInv /\ [LinksNext]_linksVars => TableInv'
  BY TableInvStep, PlcKeepsTableInv DEF LinksNext, LcdStep, linksVars
<1> QED BY <1>1, <1>2, BothInv, PTL DEF LinksSpec

\* A frame in a queue is of the queue's port, the queue is no display's, or it is the
\* one with the id 0; a frame in a send thread's hand accordingly.
Fits(f, q)   == port[f[1]] = port[q] \/ port[q] = None \/ q = queueZero
AtHome(f, s) == port[f[1]] = port[s] \/ HasZero(port[s])

\* Until a late close has hit a foreign connection, a receive thread reads its own
\* client's frames, so that a frame gets to another port only through the queue with
\* the id 0.
CrossInv ==
  clean =>
    /\ \A c \in Conns : receiver[c] = "put" => got[c][1] = c
    /\ \A q \in Conns : \A i \in 1..Len(queue[q]) : Fits(queue[q][i], q)
    /\ \A s \in Conns : sender[s] = "analyse" => AtHome(job[s], s)

\* A step that accepts nothing for a display keeps CrossInv, when the frames it moves
\* fit where it puts them.
LEMMA CrossInvMoves ==
  ASSUME CrossInv, clean' => clean, port' = port, queueZero' = queueZero \/ queueZero = 0,
         clean => /\ \A c \in Conns : receiver'[c] = "put" => got'[c][1] = c
                  /\ \A q \in Conns : \A i \in 1..Len(queue'[q]) : Fits(queue'[q][i], q)
                  /\ \A s \in Conns : sender'[s] = "analyse" => AtHome(job'[s], s)
  PROVE  CrossInv'
<1>0. 0 \notin Conns BY DEF Conns
<1>1. ASSUME NEW f, NEW q \in Conns, Fits(f, q)
      PROVE  port'[f[1]] = port'[q] \/ port'[q] = None \/ q = queueZero'
  BY <1>0, <1>1 DEF Fits
<1>2. ASSUME NEW f, NEW s \in Conns, AtHome(f, s)
      PROVE  port'[f[1]] = port'[s] \/ HasZero(port[s])'
  BY <1>0, <1>2 DEF AtHome, HasZero
<1> QED BY <1>1, <1>2 DEF CrossInv, Fits, AtHome

\* So does one that moves none.
LEMMA CrossInvOther ==
  ASSUME CrossInv, clean' => clean, port' = port, queueZero' = queueZero \/ queueZero = 0,
         UNCHANGED <<got, queue, job>>,
         \A c \in Conns : receiver'[c] = "put" => receiver[c] = "put",
         \A c \in Conns : sender'[c] = "analyse" => sender[c] = "analyse"
  PROVE  CrossInv'
BY CrossInvMoves DEF CrossInv

\* accept() gives a port to a connection that has no frame anywhere yet.
LEMMA CrossInvAccept ==
  ASSUME IInv, PlcInv, QueuesInv, CrossInv, LcdStep, NEW p \in Ports, NEW c \in Conns,
         Accept(p, c)
  PROVE  CrossInv'
<1> USE LinkAssumption, SameConns
<1>0. /\ TypeOK /\ ReceiverInv /\ (clean' => clean)
      /\ UNCHANGED <<queue, queueZero, receiver, got, sender, job>>
  BY DEF IInv, LcdStep, Accept, recvVars, sendVars, queueVars
<1>1. /\ port[c] = None /\ peer[c] = "idle" /\ p # None
      /\ port' = [port EXCEPT ![c] = p]
  BY <1>0 DEF Accept, NextConn, ReceiverInv
<1>2. queue[c] = <<>>
  BY <1>1 DEF QueuesInv, PlcInv, PlcServerInv
<1>3. \A d \in Conns : port[d] # None => port'[d] = port[d] BY <1>0, <1>1 DEF TypeOK
<1>4. queueZero # c BY <1>1 DEF QueuesInv, PlcInv, PlcServerInv
<1>5. \A d \in Conns : sender[d] = "analyse" => port[d] \in Ports /\ port[d] # None
  BY <1>0 DEF ReceiverInv
<1>6. ASSUME NEW q \in Conns, NEW i \in 1..Len(queue[q]), Fits(queue[q][i], q)
      PROVE  Fits(queue[q][i], q)'
  <2>1. q # c BY <1>2, <1>6
  <2>2. port'[q] = port[q] BY <1>0, <1>1, <2>1 DEF TypeOK
  <2>3. queue[q][i][1] \in Conns
    <3>1. queue[q] \in Seq(Frames) BY <1>0 DEF TypeOK
    <3>2. queue[q][i] \in Frames BY <1>6, <3>1
    <3> QED BY <3>2 DEF Frames
  <2> QED BY <1>0, <1>3, <1>6, <2>2, <2>3 DEF Fits
<1>7. ASSUME NEW s \in Conns, sender[s] = "analyse", AtHome(job[s], s)
      PROVE  AtHome(job[s], s)'
  <2>1. job[s][1] \in Conns BY <1>0, <1>7 DEF ReceiverInv, Frames
  <2>2. HasZero(port[s]) => HasZero(port[s])'
    BY <1>0, <1>3, <1>5, <1>7 DEF HasZero
  <2> QED BY <1>0, <1>3, <1>5, <1>7, <2>1, <2>2 DEF AtHome
<1> QED BY <1>0, <1>6, <1>7 DEF CrossInv

\* A step of the displays keeps CrossInv.
LEMMA LcdKeepsCross ==
  IInv /\ PlcInv /\ OwnInv /\ QueuesInv /\ CrossInv /\ LcdStep => CrossInv'
<1> SUFFICES ASSUME IInv, PlcInv, OwnInv, QueuesInv, CrossInv, LcdStep PROVE CrossInv'
  OBVIOUS
<1> USE LinkAssumption DEF queueVars
<1>0. /\ TypeOK /\ ReceiverInv /\ OwnQueues /\ Next /\ (clean' => clean)
  BY DEF IInv, QueueInv, LcdStep, OwnInv
<1>1. ASSUME NEW p \in Ports, Server(p) PROVE CrossInv'
  <2>1. CASE \E c \in Conns : Accept(p, c) BY <2>1, CrossInvAccept
  <2>2. CASE ~\E c \in Conns : Accept(p, c)
    <3>1. UNCHANGED <<port, queueZero, got, queue, job>>
      BY <1>1, <2>2 DEF Server, AcceptNext, ServerTest, AcceptZero, AcceptFails, SetOn,
         SetFd, MakeReceiver, MakeSender, netVars, recvVars, sendVars
    <3>2. /\ \A c \in Conns : receiver'[c] = "put" => receiver[c] = "put"
          /\ \A c \in Conns : sender'[c] = "analyse" => sender[c] = "analyse"
      BY <1>0, <1>1, <2>2 DEF Server, AcceptNext, ServerTest, AcceptZero, AcceptFails,
         SetOn, SetFd, MakeReceiver, MakeSender, recvVars, sendVars, TypeOK
    <3> QED BY <1>0, <3>1, <3>2, CrossInvOther
  <2> QED BY <2>1, <2>2
<1>2. ASSUME NEW c \in Conns, RecvData(c) PROVE CrossInv'
  <2>1. PICK d \in Conns : got' = [got EXCEPT ![c] = <<d, read[d] + 1>>]
    BY <1>2, FrameRead
  <2>2. d = table[fd[c]]
    BY <1>0, <1>2, <2>1 DEF RecvData, TypeOK
  <2>3. clean => d = c
    BY <1>0, <1>2, <2>2 DEF RecvData, ReceiverInv, InLoop, OwnInv
  <2>4. UNCHANGED <<port, queueZero, queue, job, sender>>
    BY <1>2 DEF RecvData, sendVars
  <2>5. \A e \in Conns : e # c => receiver'[e] = receiver[e] /\ got'[e] = got[e]
    BY <1>0, <1>2, <2>1 DEF RecvData, TypeOK
  <2>6. got'[c][1] = d BY <1>0, <2>1 DEF TypeOK
  <2>7. clean => /\ \A e \in Conns : receiver'[e] = "put" => got'[e][1] = e
                 /\ \A q \in Conns : \A i \in 1..Len(queue'[q]) : Fits(queue'[q][i], q)
                 /\ \A s \in Conns : sender'[s] = "analyse" => AtHome(job'[s], s)
    BY <2>3, <2>4, <2>5, <2>6 DEF CrossInv
  <2> QED BY <1>0, <2>4, <2>7, CrossInvMoves
<1>3. ASSUME NEW c \in Conns, PutFrame(c) PROVE CrossInv'
  <2> DEFINE t == QueueBehind(qid[c])
             room == t # None /\ Len(queue[t]) < QueueLen
  <2>1. /\ receiver[c] = "put" /\ receiver' = [receiver EXCEPT ![c] = "fetch"]
        /\ got' = [got EXCEPT ![c] = None]
        /\ queue' = IF room THEN [queue EXCEPT ![t] = Append(@, got[c])] ELSE queue
        /\ UNCHANGED <<port, queueZero, sender, job>>
    BY <1>3 DEF PutFrame, netVars, sendVars
  <2>2. t \in Conns \cup {None} BY <1>0 DEF QueueBehind, TypeOK
  <2>3. t \in Conns /\ clean => Fits(got[c], t)
    BY <1>0, <2>1 DEF QueueBehind, OwnQueues, TypeOK, CrossInv, Fits
  <2> HIDE DEF t
  <2>4. got[c] \in Frames BY <1>0, <2>1 DEF ReceiverInv
  <2>5. ASSUME clean, NEW q \in Conns, NEW i \in 1..Len(queue'[q])
        PROVE  Fits(queue'[q][i], q)
    <3>1. CASE room /\ q = t
      <4>1. queue'[q] = Append(queue[q], got[c]) BY <1>0, <2>1, <3>1 DEF TypeOK
      <4>2. \/ i \in 1..Len(queue[q]) /\ queue'[q][i] = queue[q][i]
            \/ queue'[q][i] = got[c]
        BY <1>0, <2>4, <4>1 DEF TypeOK
      <4> QED BY <2>3, <2>5, <3>1, <4>2 DEF CrossInv
    <3>2. CASE ~(room /\ q = t)
      <4>1. queue'[q] = queue[q] BY <1>0, <2>1, <2>2, <3>2 DEF TypeOK
      <4> QED BY <2>5, <4>1 DEF CrossInv
    <3> QED BY <3>1, <3>2
  <2>6. \A e \in Conns : receiver'[e] = "put" => receiver[e] = "put" /\ got'[e] = got[e]
    BY <1>0, <2>1 DEF TypeOK
  <2>7. clean => /\ \A e \in Conns : receiver'[e] = "put" => got'[e][1] = e
                 /\ \A q \in Conns : \A i \in 1..Len(queue'[q]) : Fits(queue'[q][i], q)
                 /\ \A s \in Conns : sender'[s] = "analyse" => AtHome(job'[s], s)
    BY <2>1, <2>5, <2>6 DEF CrossInv
  <2> QED BY <1>0, <2>1, <2>7, CrossInvMoves
<1>4. ASSUME NEW c \in Conns, Receiver(c), ~RecvData(c), ~PutFrame(c) PROVE CrossInv'
  <2>1. UNCHANGED <<port, queueZero, got, queue, job, sender>>
    BY <1>4 DEF Receiver, FetchFd, SelectFails, SelectReturns, LoadQueue, RecvEof,
       RecvError, SetOff, CloseFd, netVars, sendVars
  <2>2. \A d \in Conns : receiver'[d] = "put" => receiver[d] = "put"
    BY <1>0, <1>4 DEF Receiver, FetchFd, SelectFails, SelectReturns, LoadQueue, RecvEof,
       RecvError, SetOff, CloseFd, TypeOK
  <2> QED BY <1>0, <2>1, <2>2, CrossInvOther
<1>5. ASSUME NEW c \in Conns, TakeFrame(c) PROVE CrossInv'
  <2> DEFINE q == squeue[c]
  <2>1. /\ q \in Conns /\ queue[q] \in Seq(Frames) /\ queue[q] # <<>>
        /\ port[q] = port[c] /\ port[c] # None
    BY <1>0, <1>5 DEF TakeFrame, TypeOK, OwnQueues, ReceiverInv
  <2>2. /\ sender' = [sender EXCEPT ![c] = "analyse"]
        /\ job' = [job EXCEPT ![c] = Head(queue[q])]
        /\ queue' = [queue EXCEPT ![q] = Tail(@)]
        /\ UNCHANGED <<port, queueZero, receiver, got>>
    BY <1>5 DEF TakeFrame, QueueAfterTake, recvVars, netVars
  <2> HIDE DEF q
  <2>3. clean => Fits(queue[q][1], q) BY <2>1 DEF CrossInv
  <2>4. job'[c] = queue[q][1] BY <1>0, <2>1, <2>2 DEF TypeOK
  <2>5. clean => AtHome(job'[c], c) BY <2>1, <2>3, <2>4 DEF Fits, AtHome, HasZero
  <2>6. \A d \in Conns : d # c => sender'[d] = sender[d] /\ job'[d] = job[d]
    BY <1>0, <2>2 DEF TypeOK
  <2>7. ASSUME clean, NEW r \in Conns, NEW i \in 1..Len(queue'[r])
        PROVE  Fits(queue'[r][i], r)
    <3>1. \E j \in 1..Len(queue[r]) : queue'[r][i] = queue[r][j]
      <4>1. CASE r = q
        <5>1. queue'[r] = Tail(queue[r]) BY <1>0, <2>1, <2>2, <4>1 DEF TypeOK
        <5>2. i + 1 \in 1..Len(queue[r]) /\ queue'[r][i] = queue[r][i + 1]
          BY <2>1, <4>1, <5>1
        <5> QED BY <5>2
      <4>2. CASE r # q BY <1>0, <2>1, <2>2, <4>2 DEF TypeOK
      <4> QED BY <4>1, <4>2
    <3> QED BY <2>7, <3>1 DEF CrossInv
  <2>8. clean => /\ \A e \in Conns : receiver'[e] = "put" => got'[e][1] = e
                 /\ \A r \in Conns : \A i \in 1..Len(queue'[r]) : Fits(queue'[r][i], r)
                 /\ \A s \in Conns : sender'[s] = "analyse" => AtHome(job'[s], s)
    BY <2>2, <2>5, <2>6, <2>7 DEF CrossInv
  <2> QED BY <1>0, <2>2, <2>8, CrossInvMoves
<1>6. ASSUME NEW c \in Conns, Sender(c), ~TakeFrame(c) PROVE CrossInv'
  <2>1. \A d \in Conns : sender'[d] = "analyse" =>
           d # c /\ sender[d] = "analyse" /\ job'[d] = job[d]
    BY <1>0, <1>6 DEF Sender, CreateQueue, SenderTest, PollTimeout, IdleSender, Analyse,
       TypeOK
  <2>2. /\ UNCHANGED <<port, got, queue, receiver>>
        /\ queueZero' = queueZero \/ queueZero = 0
    BY <1>6 DEF Sender, CreateQueue, SenderTest, PollTimeout, Analyse, netVars, recvVars
  <2>3. clean => /\ \A e \in Conns : receiver'[e] = "put" => got'[e][1] = e
                 /\ \A r \in Conns : \A i \in 1..Len(queue'[r]) : Fits(queue'[r][i], r)
                 /\ \A s \in Conns : sender'[s] = "analyse" => AtHome(job'[s], s)
    BY <2>1, <2>2 DEF CrossInv
  <2> QED BY <1>0, <2>2, <2>3, CrossInvMoves
<1>7. ASSUME NEW c \in Conns, Client(c) PROVE CrossInv'
  BY <1>0, <1>7, CrossInvOther DEF Client, ClientSends, ClientLeaves, recvVars, sendVars
<1> QED BY <1>0, <1>1, <1>2, <1>3, <1>4, <1>5, <1>6, <1>7 DEF Next

\* The PLC's threads put frames only into their own queue, which no display uses, and
\* into the one with the id 0.
LEMMA PlcKeepsCross ==
  IInv /\ PlcInv /\ QueuesInv /\ CrossInv /\ PlcStep => CrossInv'
<1> SUFFICES ASSUME IInv, PlcInv, QueuesInv, CrossInv, PlcStep PROVE CrossInv'
  OBVIOUS
<1> USE LinkAssumption, SameConns
<1>0. /\ TypeOK /\ P!TypeOK /\ PlcServerInv /\ PlcReceiverInv /\ PlcSenderInv /\ P!Next
      /\ UNCHANGED <<clean, port, got, receiver, sender, job>>
  BY DEF IInv, PlcInv, PlcStep, lcdVars, recvVars, sendVars
<1>1. ASSUME queueZero' = queueZero \/ queueZero = 0,
             NEW t \in Conns \cup {None},
             t \in Conns => port[t] = None \/ t = queueZero \/ queue'[t] = queue[t],
             \A q \in Conns : q # t => queue'[q] = queue[q]
      PROVE  CrossInv'
  <2>1. ASSUME clean, NEW q \in Conns, NEW i \in 1..Len(queue'[q])
        PROVE  Fits(queue'[q][i], q)
    <3>1. CASE queue'[q] = queue[q] BY <2>1, <3>1 DEF CrossInv
    <3>2. CASE port[q] = None \/ q = queueZero BY <3>2 DEF Fits
    <3> QED BY <1>1, <3>1, <3>2
  <2>2. clean => /\ \A e \in Conns : receiver'[e] = "put" => got'[e][1] = e
                 /\ \A r \in Conns : \A i \in 1..Len(queue'[r]) : Fits(queue'[r][i], r)
                 /\ \A s \in Conns : sender'[s] = "analyse" => AtHome(job'[s], s)
    BY <1>0, <2>1 DEF CrossInv
  <2> QED BY <1>0, <1>1, <2>2, CrossInvMoves
<1>2. CASE P!PutFrame
  <2> DEFINE t == P!QueueBehind(qid_plc)
             room == t # None /\ Len(queue[t]) < QueueLen
  <2>1. /\ queue' = IF room THEN [queue EXCEPT ![t] = Append(@, got_plc)] ELSE queue
        /\ receiver_plc = "put" /\ UNCHANGED queueZero
    BY <1>2 DEF P!PutFrame
  <2>2. t \in {client_plc, queueZero, None} /\ t \in Conns \cup {None}
    BY <1>0 DEF P!QueueBehind, PlcSenderInv, P!TypeOK, TypeOK
  <2>3. t = client_plc /\ t # None => port[t] = None BY <1>0 DEF PlcServerInv
  <2> HIDE DEF t
  <2>4. \A q \in Conns : q # t => queue'[q] = queue[q] BY <1>0, <2>1, <2>2 DEF TypeOK
  <2> QED BY <1>1, <2>1, <2>2, <2>3, <2>4
<1>3. CASE P!TakeFrame
  <2>1. /\ g_comm_qmegid_plc = client_plc /\ client_plc \in Conns
        /\ queue' = [queue EXCEPT ![client_plc] = Tail(queue[client_plc])]
        /\ UNCHANGED queueZero
    BY <1>0, <1>3 DEF P!TakeFrame, PlcSenderInv, P!TypeOK
  <2>2. port[client_plc] = None BY <1>0, <2>1 DEF PlcServerInv
  <2>3. \A q \in Conns : q # client_plc => queue'[q] = queue[q]
    BY <1>0, <2>1 DEF TypeOK
  <2> QED BY <1>1, <2>1, <2>2, <2>3
<1>4. CASE ~P!PutFrame /\ ~P!TakeFrame
  <2>1. UNCHANGED queue /\ (queueZero' = queueZero \/ queueZero = 0)
    BY <1>0, <1>4 DEF P!Next, P!Server, P!ServerTest, P!Accept, P!AcceptFails, P!SetOn,
       P!SetFd, P!MakeReceiver, P!MakeSender, P!Receiver, P!FetchFd, P!SelectFails,
       P!SelectReturns, P!LoadQueue, P!RecvData, P!RecvEof, P!RecvError, P!SetPtr,
       P!CloseFd, P!Sender, P!CreateQueue, P!SenderTest, P!PollTimeout,
       P!AnalysModbus, P!sharedVars
  <2> QED BY <1>1, <2>1
<1> QED BY <1>2, <1>3, <1>4

\* The answer AnalysModbus of a display sends goes to the client that asked, as long
\* as its connection is open and its receive thread in its loop; another one gets it
\* only if the frame came to another port, and it comes there only if this port's
\* queue is the one with the id 0, or after a late close has hit a foreign connection.
THEOREM AnswersReachTheirAsker == LinksSpec => []AnswerReachesAsker
<1>1. LinksInit => CrossInv
  BY LinkAssumption DEF LinksInit, Init, CrossInv
<1>2. IInv /\ PlcInv /\ OwnInv /\ QueuesInv /\ CrossInv /\ [LinksNext]_linksVars => CrossInv'
  <2> SUFFICES ASSUME IInv, PlcInv, OwnInv, QueuesInv, CrossInv, [LinksNext]_linksVars
               PROVE  CrossInv'
    OBVIOUS
  <2>1. CASE LcdStep BY <2>1, LcdKeepsCross
  <2>2. CASE PlcStep BY <2>2, PlcKeepsCross
  <2>3. CASE UNCHANGED linksVars
    BY <2>3, CrossInvOther DEF linksVars, vars, netVars, queueVars, recvVars, sendVars
  <2> QED BY <2>1, <2>2, <2>3 DEF LinksNext
<1>3. IInv /\ TableInv /\ OwnInv /\ CrossInv => AnswerReachesAsker
  <2> SUFFICES ASSUME IInv, TableInv, OwnInv, CrossInv, NEW s \in Conns,
                      sender[s] = "analyse", InLoop(job[s][1]), Open(job[s][1])
               PROVE  LET c == job[s][1] IN
                        \/ table[modbus_client_sockptr[port[s]]] = c
                        \/ port[c] # port[s] /\ (HasZero(port[s]) \/ ~clean)
    BY DEF AnswerReachesAsker
  <2> DEFINE c == job[s][1]
  <2>1. c \in Conns BY DEF IInv, ReceiverInv, Frames
  <2>2. PICK f \in Fds : table[f] = c BY DEF Open
  <2>3. /\ port[c] \in Ports /\ client[port[c]] = c
        /\ modbus_client_sockptr[port[c]] = client_sockptr[port[c]]
    BY <2>1 DEF IInv, ReceiverInv, InLoop
  <2>4. CASE port[c] = port[s] BY <2>1, <2>2, <2>3, <2>4 DEF TableInv
  <2>5. CASE port[c] # port[s] BY <2>5 DEF OwnInv, CrossInv, AtHome
  <2> QED BY <2>4, <2>5
<1> QED BY <1>1, <1>2, <1>3, OwnInvHolds, HomeInvHolds, TableInvHolds, PTL DEF LinksSpec
=============================================================================
