--------------------------- MODULE LcdLinkProofs ---------------------------
(***************************************************************************)
(* What LcdLink guarantees for every number of ports, connections and      *)
(* descriptors, and every outcome of thread creation.                      *)
(***************************************************************************)
EXTENDS LcdLink, TLAPS

\* Where a server thread may be while some receive thread of its port is in
\* the loop: it cannot be anywhere between "listen" and the thread creation.
ServerInv ==
  \A p \in Ports :
    /\ client[p] # None => client_sockptr[p] \in Fds \ {0} /\ port[client[p]] = p
    /\ server[p] \in {"seton", "setfd", "mkrecv", "mksend"} => client[p] # None
    /\ server[p] \in {"listen", "seton"} => modbus_sockt_state[p] = "OFF"
    /\ server[p] \in {"setfd", "mkrecv"} => modbus_sockt_state[p] = "ON"
    /\ server[p] \in {"seton", "setfd", "mkrecv"} => receiver[client[p]] = "none"
    /\ server[p] \in {"seton", "setfd", "mkrecv", "mksend"} =>
         sender[client[p]] = "none"
    /\ server[p] = "mkrecv" => modbus_client_sockptr[p] = client_sockptr[p]

\* A receive thread in its loop is that of the connection accepted last, its
\* port is ON and the server thread is past the publication of the descriptor.
ReceiverInv ==
  \A c \in Conns :
    /\ peer[c] = "idle" => port[c] = None
    /\ receiver[c] # "none" \/ sender[c] # "none" => port[c] \in Ports
    /\ InLoop(c) =>
         /\ client[port[c]] = c
         /\ modbus_sockt_state[port[c]] = "ON"
         /\ server[port[c]] \in {"test", "mksend"}
         /\ modbus_client_sockptr[port[c]] = client_sockptr[port[c]]
         /\ receiver[c] # "fetch" => fd[c] = client_sockptr[port[c]]
    /\ receiver[c] # "setoff" => err[c] <= MaxErr
    /\ receiver[c] = "put" => got[c] \in Frames
    /\ sender[c] = "analyse" => job[c] \in Frames

\* The queue a thread has taken from the global of its port is one of this port.
OwnQueues ==
  \A c \in Conns :
    /\ qid[c] \in Conns => port[qid[c]] = port[c]
    /\ squeue[c] \in Conns => port[squeue[c]] = port[c]

\* A port has the queue of one of its own send threads, or none; it has had one
\* when a send thread is past its creation.
QueueInv ==
  /\ \A p \in Ports : g_comm_qmegid[p] \in Conns => port[g_comm_qmegid[p]] = p
  /\ \A c \in Conns : sender[c] \notin {"none", "create"} =>
                        g_comm_qmegid[port[c]] # 0
  /\ OwnQueues

\* A thread has a queue or a frame in its hand only where it uses it.
HandInv ==
  \A c \in Conns :
    /\ receiver[c] \notin {"recv", "put"} => qid[c] = None
    /\ receiver[c] # "put" => got[c] = None
    /\ sender[c] # "poll" => squeue[c] = None
    /\ sender[c] # "analyse" => job[c] = None

\* The inductive invariant: types, server threads, receive threads, queues.
IInv == TypeOK /\ ServerInv /\ ReceiverInv /\ HandInv /\ QueueInv

USE LinkAssumption DEF queueVars

\* Before the first connection nothing is taken and no thread is in its loop.
LEMMA InitIInv == Init => IInv
BY DEF Init, IInv, TypeOK, ServerInv, ReceiverInv, HandInv, QueueInv, OwnQueues,
       InLoop, Frames

\* What recv() puts into a receive thread's hand is a frame of some connection.
LEMMA FrameRead ==
  ASSUME IInv, NEW c \in Conns, RecvData(c)
  PROVE  \E d \in Conns : /\ read' = [read EXCEPT ![d] = read[d] + 1]
                           /\ got' = [got EXCEPT ![c] = <<d, read[d] + 1>>]
                           /\ read[d] + 1 \in 1..MaxFrames
                           /\ <<d, read[d] + 1>> \in Frames
<1> DEFINE d == table[fd[c]]
<1>1. d \in Conns BY DEF RecvData
<1>2. read[d] + 1 \in 1..MaxFrames
  BY SMTT(30), <1>1 DEF IInv, TypeOK, RecvData
<1> QED BY <1>1, <1>2 DEF RecvData, Frames

\* Every step of the link keeps the types; that err stops at MaxErr + 1 and that
\* a frame in hand exists are facts of ReceiverInv.
LEMMA TypeStep == IInv /\ [Next]_vars => TypeOK'
<1> SUFFICES ASSUME IInv, [Next]_vars PROVE TypeOK'
  OBVIOUS
<1> USE DEF TypeOK, IInv
<1>1. ASSUME NEW p \in Ports, Server(p) PROVE TypeOK'
  <2>1. CASE ServerTest(p) BY <2>1 DEF ServerTest, netVars, recvVars, sendVars, globals
  <2>2. CASE \E c \in Conns : Accept(p, c)
    BY <2>2 DEF Accept, recvVars, sendVars, globals
  <2>8. CASE \E c \in Conns : AcceptZero(p, c)
    BY <2>8 DEF AcceptZero, recvVars, sendVars, globals
  <2>3. CASE AcceptFails(p) BY <2>3 DEF AcceptFails, netVars, recvVars, sendVars, globals
  <2>4. CASE SetOn(p) BY <2>4 DEF SetOn, netVars, recvVars, sendVars
  <2>5. CASE SetFd(p) BY <2>5 DEF SetFd, PublishedFd, netVars, recvVars, sendVars
  <2>6. CASE MakeReceiver(p) BY <2>6 DEF MakeReceiver, netVars, sendVars, globals
  <2>7. CASE MakeSender(p) BY <2>7 DEF MakeSender, netVars, recvVars, globals
  <2> QED BY <1>1, <2>1, <2>2, <2>3, <2>4, <2>5, <2>6, <2>7, <2>8
       DEF Server, AcceptNext
<1>2. ASSUME NEW c \in Conns, Receiver(c) PROVE TypeOK'
  <2>1. CASE FetchFd(c) BY <2>1 DEF FetchFd, serverVars, netVars, sendVars, globals, ReceiverInv
  <2>2. CASE SelectFails(c) BY <2>2 DEF SelectFails, serverVars, netVars, sendVars, globals
  <2>3. CASE SelectReturns(c) BY <2>3 DEF SelectReturns, serverVars, netVars, sendVars, globals
  <2>4. CASE RecvData(c)
    <3>1. PICK d \in Conns : /\ read' = [read EXCEPT ![d] = read[d] + 1]
                            /\ got' = [got EXCEPT ![c] = <<d, read[d] + 1>>]
                            /\ read[d] + 1 \in 1..MaxFrames
                            /\ <<d, read[d] + 1>> \in Frames
      BY <2>4, FrameRead
    <3>3. read' \in [Conns -> 0..MaxFrames] /\ got' \in [Conns -> Frames \cup {None}]
      BY SMTT(30), <3>1
    <3> QED BY <2>4, <3>3 DEF RecvData, serverVars, sendVars, globals
  <2>5. CASE RecvEof(c) BY <2>5 DEF RecvEof, serverVars, netVars, sendVars, globals
  <2>6. CASE RecvError(c)
    <3>1. err' \in [Conns -> 0..MaxErr+1]
      <4>1. err[c] \in 0..MaxErr BY <2>6 DEF RecvError, ReceiverInv
      <4>2. err' = [err EXCEPT ![c] = err[c] + 1] BY <2>6 DEF RecvError
      <4>3. err[c] + 1 \in 0..MaxErr+1 BY <4>1
      <4> QED BY <4>2, <4>3
    <3>2. peer' \in [Conns -> {"idle", "up", "fin", "rst"}]
      BY <2>6 DEF RecvError
    <3> QED BY <2>6, <3>1, <3>2 DEF RecvError, serverVars, sendVars, globals
  <2>7. CASE PutFrame(c)
    <3>1. got[c] \in Frames BY <2>7 DEF PutFrame, ReceiverInv
    <3>2. queue' \in [Conns -> Seq(Frames)] /\ err' \in [Conns -> 0..MaxErr+1]
      <4> DEFINE q == QueueBehind(qid[c])
                 room == q # None /\ Len(queue[q]) < QueueLen
      <4>1. q \in Conns \cup {None} BY DEF QueueBehind
      <4>2. /\ queue' = IF room THEN [queue EXCEPT ![q] = Append(@, got[c])] ELSE queue
            /\ err' = IF room THEN [err EXCEPT ![c] = 0] ELSE err
        BY <2>7 DEF PutFrame
      <4> HIDE DEF q
      <4>3. q \in Conns => Append(queue[q], got[c]) \in Seq(Frames) BY <3>1
      <4> QED BY SMTT(30), <4>1, <4>2, <4>3
    <3>3. /\ got' \in [Conns -> Frames \cup {None}]
          /\ qid' \in [Conns -> Conns \cup {0, None}]
      BY <2>7 DEF PutFrame
    <3> QED BY <2>7, <3>2, <3>3 DEF PutFrame, serverVars, netVars, sendVars, globals
  <2>8. CASE SetOff(c)
    <3>1. /\ modbus_sockt_state' \in [Ports -> {"ON", "OFF"}]
          /\ fd' \in [Conns -> Fds \cup {0}]
      BY <2>8 DEF SetOff, StateAfterLoop
    <3>2. 0 \in 0..MaxErr+1 OBVIOUS
    <3>3. err' \in [Conns -> 0..MaxErr+1]
      BY <2>8, <3>2 DEF SetOff
    <3> QED BY <2>8, <3>1, <3>3 DEF SetOff, serverVars, netVars, sendVars
  <2>9. CASE CloseFd(c) BY <2>9 DEF CloseFd, ClosedNumber, serverVars, sendVars, globals
  <2>10. CASE LoadQueue(c)
    <3>1. port[c] \in Ports BY <2>10 DEF LoadQueue, ReceiverInv
    <3> QED BY <2>10, <3>1 DEF LoadQueue, serverVars, netVars, sendVars, globals
  <2> QED BY <1>2, <2>1, <2>2, <2>3, <2>4, <2>5, <2>6, <2>7, <2>8, <2>9, <2>10
       DEF Receiver
<1>3. ASSUME NEW c \in Conns, Sender(c) PROVE TypeOK'
  <2>1. CASE CreateQueue(c)
    <3>1. /\ g_comm_qmegid' \in [Ports -> Conns \cup {0, None}]
          /\ queueZero' \in Conns \cup {0, None}
      <4>1. CASE g_comm_qmegid' = Published(c, c) /\ queueZero' \in {c, queueZero}
        BY <4>1 DEF Published
      <4>2. CASE g_comm_qmegid' = Published(c, None) /\ UNCHANGED queueZero
        BY <4>2 DEF Published
      <4> QED BY <2>1, <4>1, <4>2 DEF CreateQueue
    <3> QED BY <2>1, <3>1 DEF CreateQueue, serverVars, netVars, recvVars
  <2>2. CASE SenderTest(c)
    <3>1. port[c] \in Ports BY <2>2 DEF SenderTest, ReceiverInv
    <3>0. sender[c] = "test" BY <2>2 DEF SenderTest
    <3>4. g_comm_qmegid[port[c]] # 0 BY <3>0 DEF QueueInv
    <3>2. g_comm_qmegid[port[c]] \in Conns \cup {None} BY <3>1, <3>4
    <3>3. sender' \in [Conns -> {"none", "create", "test", "poll", "analyse", "done"}]
      <4>1. \/ sender' = [sender EXCEPT ![c] = "poll"]
            \/ sender' = [sender EXCEPT ![c] = "done"]
        BY <2>2 DEF SenderTest
      <4> QED BY <4>1
    <3>5. squeue' \in [Conns -> Conns \cup {None}]
      <4>1. \/ squeue' = [squeue EXCEPT ![c] = g_comm_qmegid[port[c]]]
            \/ squeue' = squeue
        BY <2>2 DEF SenderTest
      <4> QED BY <3>2, <4>1
    <3> QED BY <2>2, <3>3, <3>5 DEF SenderTest, serverVars, netVars, recvVars, globals
  <2>3. CASE TakeFrame(c)
    <3>1. squeue[c] \in Conns /\ queue[squeue[c]] \in Seq(Frames)
      BY <2>3 DEF TakeFrame
    <3>2. Head(queue[squeue[c]]) \in Frames /\ Tail(queue[squeue[c]]) \in Seq(Frames)
      BY <2>3, <3>1 DEF TakeFrame
    <3> QED BY <2>3, <3>1, <3>2 DEF TakeFrame, QueueAfterTake, serverVars, netVars,
                                    recvVars, globals
  <2>4. CASE PollTimeout(c)
    BY <2>4 DEF PollTimeout, IdleSender, serverVars, netVars, recvVars, globals
  <2>5. CASE Analyse(c)
    BY SMTT(30), <2>5 DEF Analyse, serverVars, netVars, recvVars, globals, ReceiverInv
  <2> QED BY <1>3, <2>1, <2>2, <2>3, <2>4, <2>5 DEF Sender
<1>4. ASSUME NEW c \in Conns, Client(c) PROVE TypeOK'
  <2>1. CASE ClientSends(c)
    <3>1. sent' \in [Conns -> 0..MaxFrames] BY <2>1 DEF ClientSends
    <3> QED BY <2>1, <3>1 DEF ClientSends, serverVars, recvVars, sendVars, globals
  <2>2. CASE ClientLeaves(c)
    <3>1. peer' \in [Conns -> {"idle", "up", "fin", "rst"}] BY <2>2 DEF ClientLeaves
    <3> QED BY <2>2, <3>1 DEF ClientLeaves, serverVars, recvVars, sendVars, globals
  <2> QED BY <1>4, <2>1, <2>2 DEF Client
<1>5. CASE UNCHANGED vars
  BY <1>5 DEF vars, globals, serverVars, netVars, recvVars, sendVars
<1> QED BY <1>1, <1>2, <1>3, <1>4, <1>5 DEF Next

\* Every step keeps the facts about who serves a port: only SetOn and SetOff
\* store the port state, only a server thread moves a connection into its loop.
LEMMA LinkStep == IInv /\ [Next]_vars => (ServerInv /\ ReceiverInv)'
<1> SUFFICES ASSUME IInv, [Next]_vars PROVE (ServerInv /\ ReceiverInv)'
  OBVIOUS
<1>0. TypeOK' BY TypeStep
<1> USE DEF IInv, InLoop
<1>1. ASSUME NEW p \in Ports, Server(p) PROVE (ServerInv /\ ReceiverInv)'
  <2>1. CASE ServerTest(p)
    BY <2>1 DEF ServerTest, PortFree, netVars, recvVars, sendVars, globals,
                TypeOK, ServerInv, ReceiverInv
  <2>2. ASSUME NEW c \in Conns, Accept(p, c) PROVE (ServerInv /\ ReceiverInv)'
    BY <2>2 DEF Accept, NextConn, recvVars, sendVars, globals, TypeOK, ServerInv,
                ReceiverInv
  <2>8. ASSUME NEW c \in Conns, AcceptZero(p, c) PROVE (ServerInv /\ ReceiverInv)'
    BY <2>8 DEF AcceptZero, NextConn, recvVars, sendVars, globals, TypeOK,
                ServerInv, ReceiverInv
  <2>3. CASE AcceptFails(p)
    BY <2>3 DEF AcceptFails, netVars, recvVars, sendVars, globals, TypeOK,
                ServerInv, ReceiverInv
  <2>4. CASE SetOn(p)
    BY <2>4 DEF SetOn, netVars, recvVars, sendVars, TypeOK, ServerInv, ReceiverInv
  <2>5. CASE SetFd(p)
    BY <2>5 DEF SetFd, PublishedFd, netVars, recvVars, sendVars, TypeOK,
                ServerInv, ReceiverInv
  <2>6. CASE MakeReceiver(p)
    <3>1. client[p] \in Conns /\ port[client[p]] = p /\ receiver[client[p]] = "none"
      BY <2>6 DEF MakeReceiver, TypeOK, ServerInv
    <3>2. CASE receiver' = [receiver EXCEPT ![client[p]] = "fetch"]
      <4>1. modbus_sockt_state[p] = "ON" BY <2>6 DEF MakeReceiver, ServerInv
      <4>2. ServerInv'
        BY <2>6, <3>1, <3>2 DEF MakeReceiver, netVars, sendVars, globals, TypeOK,
                                ServerInv
      <4>3. ReceiverInv'
        BY SMTT(30), <2>6, <3>1, <3>2, <4>1
           DEF MakeReceiver, netVars, sendVars, globals, TypeOK, ServerInv,
               ReceiverInv
      <4> QED BY <4>2, <4>3
    <3>3. CASE receiver' = receiver
      BY <2>6, <3>3 DEF MakeReceiver, netVars, sendVars, globals, TypeOK, ServerInv,
                        ReceiverInv
    <3> QED BY <2>6, <3>2, <3>3 DEF MakeReceiver
  <2>7. CASE MakeSender(p)
    BY <2>7 DEF MakeSender, netVars, recvVars, globals, TypeOK, ServerInv,
                ReceiverInv
  <2> QED BY <1>1, <2>1, <2>2, <2>3, <2>4, <2>5, <2>6, <2>7, <2>8
       DEF Server, AcceptNext
<1>2. ASSUME NEW c \in Conns, Receiver(c) PROVE (ServerInv /\ ReceiverInv)'
  <2>1. CASE FetchFd(c)
    BY <2>1 DEF FetchFd, serverVars, netVars, sendVars, globals, TypeOK,
                ServerInv, ReceiverInv
  <2>2. CASE SelectFails(c)
    BY SMTT(30), <2>2
       DEF SelectFails, serverVars, netVars, sendVars, globals, TypeOK, ServerInv,
           ReceiverInv
  <2>3. CASE SelectReturns(c)
    BY <2>3 DEF SelectReturns, serverVars, netVars, sendVars, globals, TypeOK,
                ServerInv, ReceiverInv
  <2>4. CASE RecvData(c)
    <3>1. ServerInv'
      BY SMTT(30), <2>4 DEF RecvData, serverVars, sendVars, globals, TypeOK, ServerInv
    <3>2. got'[c] \in Frames
      <4>1. PICK d \in Conns : /\ got' = [got EXCEPT ![c] = <<d, read[d] + 1>>]
                              /\ <<d, read[d] + 1>> \in Frames
        BY <2>4, FrameRead
      <4>2. got \in [Conns -> Frames \cup {None}] BY DEF TypeOK
      <4> QED BY <4>1, <4>2
    <3>3. ReceiverInv'
      BY SMTT(30), <2>4, <3>2
         DEF RecvData, serverVars, sendVars, globals, TypeOK, ReceiverInv
    <3> QED BY <3>1, <3>3
  <2>5. CASE RecvEof(c)
    BY SMTT(30), <2>5
       DEF RecvEof, serverVars, netVars, sendVars, globals, TypeOK, ServerInv,
           ReceiverInv
  <2>6. CASE RecvError(c)
    <3>0. /\ err' = [err EXCEPT ![c] = err[c] + 1]
          /\ receiver[c] = "recv"
          /\ receiver' = [receiver EXCEPT
               ![c] = IF TooManyErrors(err[c] + 1) THEN "setoff" ELSE "fetch"]
          /\ UNCHANGED <<globals, serverVars, port, fd, got, sendVars>>
      BY <2>6 DEF RecvError
    <3>1. ServerInv'
      BY <3>0 DEF serverVars, globals, sendVars, TypeOK, ServerInv
    <3>2. receiver'[c] # "setoff" => err'[c] <= MaxErr
      BY <2>6 DEF RecvError, TooManyErrors, TypeOK
    <3>3. \A d \in Conns : peer'[d] = "idle" => peer[d] = "idle"
      BY <2>6 DEF RecvError, TypeOK
    <3>4. ReceiverInv'
      BY SMTT(30), <3>0, <3>2, <3>3
         DEF serverVars, sendVars, globals, TypeOK, ReceiverInv
    <3> QED BY <3>1, <3>4
  <2>7. CASE PutFrame(c)
    BY SMTT(30), <2>7
       DEF PutFrame, serverVars, netVars, sendVars, globals, TypeOK, ServerInv,
           ReceiverInv
  <2>8. CASE SetOff(c)
    BY SMTT(30), <2>8
       DEF SetOff, StateAfterLoop, serverVars, netVars, sendVars, TypeOK, ServerInv,
           ReceiverInv
  <2>9. CASE CloseFd(c)
    BY <2>9 DEF CloseFd, serverVars, sendVars, globals, TypeOK, ServerInv,
                ReceiverInv
  <2>10. CASE LoadQueue(c)
    BY SMTT(30), <2>10
       DEF LoadQueue, serverVars, netVars, sendVars, globals, TypeOK, ServerInv,
           ReceiverInv
  <2> QED BY <1>2, <2>1, <2>2, <2>3, <2>4, <2>5, <2>6, <2>7, <2>8, <2>9, <2>10
       DEF Receiver
<1>3. ASSUME NEW c \in Conns, Sender(c) PROVE (ServerInv /\ ReceiverInv)'
  <2>1. ServerInv'
    BY SMTT(30), <1>3
       DEF Sender, CreateQueue, SenderTest, TakeFrame, PollTimeout, Analyse,
           serverVars, netVars, recvVars, globals, TypeOK, ServerInv
  <2>2. CASE CreateQueue(c)
    BY <2>1, <2>2 DEF CreateQueue, serverVars, netVars, recvVars, TypeOK, ReceiverInv
  <2>3. CASE SenderTest(c)
    BY SMTT(30), <2>1, <2>3
       DEF SenderTest, serverVars, netVars, recvVars, globals, TypeOK, ReceiverInv
  <2>4. CASE TakeFrame(c)
    <3>1. job'[c] \in Frames BY <2>4 DEF TakeFrame, TypeOK
    <3> QED BY SMTT(30), <2>1, <2>4, <3>1
               DEF TakeFrame, serverVars, netVars, recvVars, globals, TypeOK,
                   ReceiverInv
  <2>5. CASE PollTimeout(c)
    BY <2>1, <2>5 DEF PollTimeout, IdleSender, serverVars, netVars, recvVars, globals,
                      TypeOK, ReceiverInv
  <2>6. CASE Analyse(c)
    BY <2>1, <2>6 DEF Analyse, serverVars, netVars, recvVars, globals, TypeOK,
                      ReceiverInv
  <2> QED BY <1>3, <2>2, <2>3, <2>4, <2>5, <2>6 DEF Sender
<1>4. ASSUME NEW c \in Conns, Client(c) PROVE (ServerInv /\ ReceiverInv)'
  BY SMTT(30), <1>4
     DEF Client, ClientSends, ClientLeaves, serverVars, recvVars, sendVars, globals,
         TypeOK, ServerInv, ReceiverInv
<1>5. CASE UNCHANGED vars
  BY <1>5 DEF vars, globals, serverVars, netVars, recvVars, sendVars, ServerInv,
              ReceiverInv
<1> QED BY <1>1, <1>2, <1>3, <1>4, <1>5 DEF Next

\* Every step empties the hand it has used: a queue id or a frame is taken up
\* in one action of a thread and dropped in its next one.
LEMMA HandStep == IInv /\ [Next]_vars => HandInv'
<1> SUFFICES ASSUME IInv, [Next]_vars PROVE HandInv'
  OBVIOUS
<1> USE DEF IInv, TypeOK, HandInv
<1>1. ASSUME NEW p \in Ports, Server(p) PROVE HandInv'
  <2>1. CASE MakeReceiver(p)
    BY <2>1 DEF MakeReceiver, sendVars, ServerInv
  <2>2. CASE MakeSender(p)
    BY <2>2 DEF MakeSender, recvVars, ServerInv
  <2>3. CASE ~MakeReceiver(p) /\ ~MakeSender(p)
    BY <1>1, <2>3 DEF Server, AcceptNext, ServerTest, Accept, AcceptZero, AcceptFails,
                      SetOn,
                      SetFd, recvVars, sendVars
  <2> QED BY <2>1, <2>2, <2>3
<1>2. ASSUME NEW c \in Conns, Receiver(c) PROVE HandInv'
  <2>1. CASE FetchFd(c) \/ SelectFails(c) \/ SelectReturns(c) \/ SetOff(c) \/ CloseFd(c)
    <3>1. /\ receiver' \in {[receiver EXCEPT ![c] = r] :
                            r \in {"select", "setoff", "load", "fetch", "close", "done"}}
          /\ UNCHANGED <<qid, got, sendVars>>
      BY <2>1 DEF FetchFd, SelectFails, SelectReturns, SetOff, CloseFd
    <3>2. receiver[c] \notin {"recv", "put"}
      BY <2>1 DEF FetchFd, SelectFails, SelectReturns, SetOff, CloseFd
    <3> QED BY <3>1, <3>2 DEF sendVars
  <2>2. CASE LoadQueue(c) BY <2>2 DEF LoadQueue, sendVars
  <2>3. CASE RecvData(c) BY SMTT(30), <2>3 DEF RecvData, sendVars
  <2>4. CASE RecvEof(c) \/ RecvError(c)
    <3>1. /\ receiver' \in {[receiver EXCEPT ![c] = r] : r \in {"setoff", "fetch"}}
          /\ qid' = [qid EXCEPT ![c] = None]
          /\ receiver[c] = "recv" /\ UNCHANGED <<got, sendVars>>
      BY <2>4 DEF RecvEof, RecvError
    <3> QED BY <3>1 DEF sendVars
  <2>5. CASE PutFrame(c) BY <2>5 DEF PutFrame, sendVars
  <2> QED BY <1>2, <2>1, <2>2, <2>3, <2>4, <2>5 DEF Receiver
<1>3. ASSUME NEW c \in Conns, Sender(c) PROVE HandInv'
  BY SMTT(30), <1>3
     DEF Sender, CreateQueue, SenderTest, TakeFrame, PollTimeout, Analyse,
         IdleSender, recvVars
<1>4. ASSUME NEW c \in Conns, Client(c) PROVE HandInv'
  BY <1>4 DEF Client, ClientSends, ClientLeaves, recvVars, sendVars
<1>5. CASE UNCHANGED vars
  BY <1>5 DEF vars, recvVars, sendVars
<1> QED BY <1>1, <1>2, <1>3, <1>4, <1>5 DEF Next

\* Every step keeps queues and ports together: only a send thread past its
\* creation publishes its queue, and accept() gives a connection its port while
\* it has no thread and no queue yet.
LEMMA QueueStep == IInv /\ [Next]_vars => QueueInv'
<1> SUFFICES ASSUME IInv, [Next]_vars PROVE QueueInv'
  OBVIOUS
<1>0. TypeOK /\ ServerInv /\ ReceiverInv /\ HandInv /\ QueueInv BY DEF IInv
<1> USE DEF QueueInv, OwnQueues
<1>1. ASSUME NEW p \in Ports, NEW c \in Conns, Accept(p, c) PROVE QueueInv'
  <2>1. port[c] = None BY <1>0, <1>1 DEF Accept, NextConn, ReceiverInv
  <2>2. \A d \in Conns : port'[d] = IF d = c THEN p ELSE port[d]
    BY <1>0, <1>1 DEF Accept, TypeOK
  <2>3. sender[c] = "none" /\ receiver[c] = "none"
    BY <1>0, <2>1 DEF ReceiverInv
  <2>4. \A q \in Ports : g_comm_qmegid[q] # c BY <1>0, <2>1
  <2>5. UNCHANGED <<g_comm_qmegid, sender, qid, squeue>>
    BY <1>1 DEF Accept, globals, recvVars, sendVars
  <2>6. \A d \in Conns : (qid[d] # None \/ squeue[d] # None) => port[d] \in Ports
    BY <1>0 DEF HandInv, ReceiverInv
  <2>7. \A d \in Conns : qid[d] # c /\ squeue[d] # c
    BY <1>0, <2>1, <2>6
  <2>8. qid[c] = None /\ squeue[c] = None BY <1>0, <2>3 DEF HandInv
  <2>9. \A q \in Ports : g_comm_qmegid'[q] \in Conns => port'[g_comm_qmegid'[q]] = q
    BY <1>0, <2>2, <2>4, <2>5
  <2>10. \A d \in Conns : sender'[d] \notin {"none", "create"} =>
                             g_comm_qmegid'[port'[d]] # 0
    BY <1>0, <2>2, <2>3, <2>5
  <2>11. OwnQueues' BY <1>0, <2>2, <2>5, <2>7, <2>8
  <2> QED BY <2>9, <2>10, <2>11
<1>2. ASSUME NEW p \in Ports, MakeSender(p) PROVE QueueInv'
  BY SMTT(30), <1>0, <1>2 DEF MakeSender, TypeOK, globals, netVars, recvVars
<1>3. ASSUME NEW p \in Ports, Server(p), ~MakeSender(p),
             \A c \in Conns : ~Accept(p, c)
      PROVE  QueueInv'
  <2> UNCHANGED <<g_comm_qmegid, sender, qid, squeue, port>>
    BY <1>3 DEF Server, AcceptNext, ServerTest, AcceptZero, AcceptFails, SetOn, SetFd,
                MakeReceiver, globals, netVars, recvVars, sendVars
  <2> QED BY <1>0
<1>4. ASSUME NEW c \in Conns, Receiver(c) PROVE QueueInv'
  <2>1. UNCHANGED <<g_comm_qmegid, sender, squeue, port>>
    BY <1>4 DEF Receiver, FetchFd, SelectFails, SelectReturns, LoadQueue, RecvData, RecvEof,
                RecvError, PutFrame, SetOff, CloseFd, globals, netVars, sendVars
  <2>2. port[c] \in Ports
    BY <1>0, <1>4 DEF Receiver, FetchFd, SelectFails, SelectReturns, LoadQueue, RecvData, RecvEof,
                      RecvError, PutFrame, SetOff, CloseFd, ReceiverInv
  <2>3. \A d \in Conns : qid'[d] \in {qid[d], None, g_comm_qmegid[port[d]]}
                          /\ (d # c => qid'[d] = qid[d])
    BY <1>0, <1>4 DEF Receiver, FetchFd, SelectFails, SelectReturns, LoadQueue, RecvData, RecvEof,
                RecvError, PutFrame, SetOff, CloseFd, TypeOK
  <2> QED BY <1>0, <2>1, <2>2, <2>3
<1>5. ASSUME NEW c \in Conns, Sender(c) PROVE QueueInv'
  <2>1. UNCHANGED <<qid, port>>
    BY <1>5 DEF Sender, CreateQueue, SenderTest, TakeFrame, PollTimeout, Analyse,
                netVars, recvVars
  <2>2. port[c] \in Ports
    BY <1>0, <1>5 DEF Sender, CreateQueue, SenderTest, TakeFrame, PollTimeout,
                      Analyse, ReceiverInv
  <2>3. CASE CreateQueue(c)
    <3>1. PICK q \in {c, None} : g_comm_qmegid' = [g_comm_qmegid EXCEPT ![port[c]] = q]
      BY <2>3 DEF CreateQueue, Published
    <3>2. UNCHANGED squeue /\ \A d \in Conns : d # c => sender'[d] = sender[d]
      BY <1>0, <2>3 DEF CreateQueue, TypeOK
    <3>3. \A p \in Ports : g_comm_qmegid'[p] = IF p = port[c] THEN q ELSE g_comm_qmegid[p]
      BY <1>0, <3>1 DEF TypeOK
    <3>4. \A p \in Ports : g_comm_qmegid'[p] \in Conns => port'[g_comm_qmegid'[p]] = p
      BY <1>0, <2>1, <3>3
    <3>5. ASSUME NEW d \in Conns, sender'[d] \notin {"none", "create"}
          PROVE  g_comm_qmegid'[port'[d]] # 0
      <4>1. q # 0 BY DEF Conns
      <4>2. port[d] \in Ports
        BY <1>0, <2>2, <3>2, <3>5 DEF ReceiverInv
      <4>3. port[d] = port[c] \/ sender[d] \notin {"none", "create"}
        BY <3>2, <3>5
      <4> QED BY <1>0, <2>1, <3>3, <4>1, <4>2, <4>3
    <3> QED BY <1>0, <2>1, <3>2, <3>4, <3>5
  <2>4. CASE SenderTest(c)
    <3>1. /\ sender[c] = "test"
          /\ \A d \in Conns : d # c => sender'[d] = sender[d] /\ squeue'[d] = squeue[d]
          /\ squeue'[c] \in {squeue[c], g_comm_qmegid[port[c]]}
          /\ UNCHANGED g_comm_qmegid
      BY <1>0, <2>4 DEF SenderTest, TypeOK, globals
    <3>2. \A d \in Conns : sender'[d] \notin {"none", "create"} =>
                              g_comm_qmegid'[port'[d]] # 0
      BY <1>0, <2>1, <3>1
    <3>3. OwnQueues' BY <1>0, <2>1, <2>2, <3>1
    <3> QED BY <1>0, <2>1, <3>1, <3>2, <3>3
  <2>5. CASE TakeFrame(c) \/ PollTimeout(c) \/ Analyse(c)
    <3>1. /\ sender[c] \in {"poll", "analyse"}
          /\ \A d \in Conns : d # c => sender'[d] = sender[d]
          /\ \A d \in Conns : squeue'[d] \in {squeue[d], None}
          /\ UNCHANGED g_comm_qmegid
      BY <1>0, <2>5 DEF TakeFrame, PollTimeout, Analyse, IdleSender, TypeOK, globals
    <3>2. \A d \in Conns : sender'[d] \notin {"none", "create"} =>
                              g_comm_qmegid'[port'[d]] # 0
      BY <1>0, <2>1, <3>1
    <3>3. OwnQueues' BY <1>0, <2>1, <3>1
    <3> QED BY <1>0, <2>1, <3>1, <3>2, <3>3
  <2> QED BY <1>5, <2>3, <2>4, <2>5 DEF Sender
<1>6. ASSUME NEW c \in Conns, Client(c) PROVE QueueInv'
  BY <1>0, <1>6 DEF Client, ClientSends, ClientLeaves, globals, recvVars, sendVars
<1>7. CASE UNCHANGED vars
  BY <1>0, <1>7 DEF vars, globals, netVars, recvVars, sendVars
<1> QED BY <1>1, <1>2, <1>3, <1>4, <1>5, <1>6, <1>7 DEF Next

\* Every step preserves the inductive invariant.
LEMMA IInvStep == IInv /\ [Next]_vars => IInv'
BY TypeStep, LinkStep, HandStep, QueueStep DEF IInv

\* The inductive invariant holds in every reachable state.
LEMMA IInvHolds == Spec => []IInv
BY InitIInv, IInvStep, PTL DEF Spec

\* All shared globals and all locals of the threads keep their types.
THEOREM TypeCorrect == Spec => []TypeOK
<1>1. IInv => TypeOK BY DEF IInv
<1> QED BY <1>1, IInvHolds, PTL

\* A port never has two receive threads in their loops: both would be the one
\* the server thread made for the connection it accepted last.
THEOREM OneReceiverAtATime == Spec => []OneReceiver
<1>1. IInv => OneReceiver
  <2> SUFFICES ASSUME IInv, NEW c \in Conns, NEW d \in Conns, InLoop(c), InLoop(d),
                      port[c] = port[d]
               PROVE  c = d
    BY DEF OneReceiver
  <2>1. client[port[c]] = c /\ client[port[d]] = d BY DEF IInv, ReceiverInv
  <2> QED BY <2>1
<1> QED BY <1>1, IInvHolds, PTL

\* The descriptor number a receive thread reads again on every turn is always
\* the one accept() returned for its own connection.
THEOREM NumberIsKept == Spec => []ReceiverKeepsItsNumber
<1>1. IInv => ReceiverKeepsItsNumber
  BY DEF IInv, ReceiverInv, ReceiverKeepsItsNumber
<1> QED BY <1>1, IInvHolds, PTL

\* Whatever queue the global of its port names when a thread reads it, the thread
\* works with a queue that a send thread of its own port has made, the later ones
\* included.  The exception is the id 0 of a port that has had no queue yet.
THEOREM QueuesKeepToPorts == Spec => []QueueOfOwnPort
<1>1. IInv => QueueOfOwnPort
  BY DEF IInv, QueueInv, OwnQueues, QueueOfOwnPort, QueueBehind
<1> QED BY <1>1, IInvHolds, PTL

\* If thread creation never fails, a port that is ON is being served, or its
\* receive thread is about to be made.
THEOREM OnPortIsServed == Spec => []TakenPortIsServed
<1> DEFINE Served(p) == \/ server[p] \in {"setfd", "mkrecv"}
                        \/ \E c \in Conns : port[c] = p /\ InLoop(c)
<1>1. Init => TakenPortIsServed
  BY DEF Init, TakenPortIsServed
<1>2. IInv /\ TakenPortIsServed /\ [Next]_vars => TakenPortIsServed'
  <2> SUFFICES ASSUME IInv, TakenPortIsServed, [Next]_vars, ~CreateMayFail,
                      NEW q \in Ports, modbus_sockt_state'[q] = "ON"
               PROVE  Served(q)'
    BY DEF TakenPortIsServed
  <2> USE DEF IInv, InLoop
  <2>1. ASSUME NEW p \in Ports, Server(p) PROVE Served(q)'
    <3>1. CASE ServerTest(p)
      BY <3>1 DEF ServerTest, PortFree, netVars, recvVars, globals, TypeOK,
                  TakenPortIsServed
    <3>2. ASSUME NEW c \in Conns, Accept(p, c) PROVE Served(q)'
      BY <3>2 DEF Accept, NextConn, recvVars, globals, TypeOK, ServerInv,
                  ReceiverInv, TakenPortIsServed
    <3>8. ASSUME NEW c \in Conns, AcceptZero(p, c) PROVE Served(q)'
      BY <3>8 DEF AcceptZero, recvVars, globals, TypeOK, TakenPortIsServed
    <3>3. CASE AcceptFails(p)
      BY <3>3 DEF AcceptFails, netVars, recvVars, globals, TypeOK, TakenPortIsServed
    <3>4. CASE SetOn(p)
      BY <3>4 DEF SetOn, netVars, recvVars, TypeOK, TakenPortIsServed
    <3>5. CASE SetFd(p)
      BY <3>5 DEF SetFd, netVars, recvVars, TypeOK, TakenPortIsServed
    <3>6. CASE MakeReceiver(p)
      <4>1. client[p] \in Conns /\ port[client[p]] = p
        BY <3>6 DEF MakeReceiver, ServerInv, TypeOK
      <4>2. /\ receiver' = [receiver EXCEPT ![client[p]] = "fetch"]
            /\ server' = [server EXCEPT ![p] = "mksend"]
            /\ UNCHANGED <<modbus_sockt_state, port>>
        BY <3>6 DEF MakeReceiver, netVars, globals
      <4>3. CASE p = q
        <5>1. receiver'[client[p]] = "fetch" BY <4>1, <4>2 DEF TypeOK
        <5>2. port'[client[p]] = q BY <4>1, <4>2, <4>3
        <5> QED BY <4>1, <5>1, <5>2
      <4>4. CASE p # q
        <5>0. modbus_sockt_state[q] = "ON" BY <4>2
        <5>1. Served(q) BY <5>0 DEF TakenPortIsServed
        <5>2. \A d \in Conns : InLoop(d) => InLoop(d)' BY <4>1, <4>2 DEF TypeOK
        <5>3. server'[q] = server[q] BY <4>2, <4>4 DEF TypeOK
        <5>4. UNCHANGED port BY <4>2
        <5> QED BY <5>1, <5>2, <5>3, <5>4
      <4> QED BY <4>3, <4>4
    <3>7. CASE MakeSender(p)
      BY <3>7 DEF MakeSender, netVars, recvVars, globals, TypeOK, TakenPortIsServed
    <3> QED
      BY <2>1, <3>1, <3>2, <3>3, <3>4, <3>5, <3>6, <3>7, <3>8 DEF Server, AcceptNext
  <2>2. ASSUME NEW c \in Conns, Receiver(c) PROVE Served(q)'
    <3>1. CASE SetOff(c)
      <4>1. port[c] \in Ports /\ port[c] # q
        BY <3>1 DEF SetOff, StateAfterLoop, ReceiverInv, TypeOK
      <4>2. modbus_sockt_state[q] = "ON"
        BY <3>1, <4>1 DEF SetOff, TypeOK
      <4>3. Served(q) BY <4>2 DEF TakenPortIsServed
      <4>4. ASSUME NEW d \in Conns, port[d] = q, InLoop(d)
            PROVE  port'[d] = q /\ InLoop(d)'
        BY <3>1, <4>1, <4>4 DEF SetOff, netVars, TypeOK
      <4>5. UNCHANGED server BY <3>1 DEF SetOff, serverVars
      <4>6. CASE server[q] \in {"setfd", "mkrecv"} BY <4>5, <4>6
      <4>7. CASE \E d \in Conns : port[d] = q /\ InLoop(d)
        <5>1. PICK d \in Conns : port[d] = q /\ InLoop(d) BY <4>7
        <5>2. port'[d] = q /\ InLoop(d)' BY <5>1, <4>4
        <5> QED BY <5>2
      <4> QED BY <4>3, <4>6, <4>7
    <3>2. CASE ~SetOff(c)
      <4>1. UNCHANGED <<modbus_sockt_state, server, port>>
        BY <2>2, <3>2 DEF Receiver, FetchFd, SelectFails, SelectReturns, LoadQueue, RecvData,
             RecvEof, RecvError, PutFrame, CloseFd, globals, serverVars, netVars
      <4>2. Served(q) BY <4>1 DEF TakenPortIsServed
      <4>3. \A d \in Conns : InLoop(d) => InLoop(d)'
        BY <2>2, <3>2 DEF Receiver, FetchFd, SelectFails, SelectReturns, LoadQueue, RecvData,
             RecvEof, RecvError, PutFrame, CloseFd, TypeOK
      <4> QED BY <4>1, <4>2, <4>3
    <3> QED BY <3>1, <3>2
  <2>3. ASSUME NEW c \in Conns, Sender(c) \/ Client(c) PROVE Served(q)'
    BY <2>3 DEF Sender, CreateQueue, SenderTest, TakeFrame, PollTimeout, Analyse,
                Client, ClientSends, ClientLeaves, globals, serverVars, netVars,
                recvVars, TakenPortIsServed
  <2>4. CASE UNCHANGED vars
    BY <2>4 DEF vars, globals, serverVars, netVars, recvVars, TakenPortIsServed
  <2> QED BY <2>1, <2>2, <2>3, <2>4 DEF Next
<1> QED BY <1>1, <1>2, IInvHolds, PTL DEF Spec
-----------------------------------------------------------------------------
(* No frame is handled twice.                                              *)

\* A frame recv() has already returned.
OldFrame(f) == f \in Frames /\ f[2] <= read[f[1]]

\* Whatever frame is in a thread's hand, in a queue or handled was read.
FramesAreOld ==
  /\ \A c \in Conns : receiver[c] = "put" => OldFrame(got[c])
  /\ \A c \in Conns : sender[c] = "analyse" => OldFrame(job[c])
  /\ \A q \in Conns : \A i \in 1..Len(queue[q]) : OldFrame(queue[q][i])
  /\ \A f \in handled : OldFrame(f)

\* A frame is in one place: one receive thread, one entry of one queue, one
\* send thread, or handled.
GotOnce ==
  \A c \in Conns : receiver[c] = "put" =>
    /\ got[c] \notin handled
    /\ \A d \in Conns \ {c} : receiver[d] = "put" => got[d] # got[c]
    /\ \A d \in Conns : sender[d] = "analyse" => job[d] # got[c]
    /\ \A q \in Conns : \A i \in 1..Len(queue[q]) : queue[q][i] # got[c]

JobOnce ==
  \A c \in Conns : sender[c] = "analyse" =>
    /\ job[c] \notin handled
    /\ \A d \in Conns \ {c} : sender[d] = "analyse" => job[d] # job[c]
    /\ \A q \in Conns : \A i \in 1..Len(queue[q]) : queue[q][i] # job[c]

QueuedOnce ==
  /\ \A q \in Conns : \A i \in 1..Len(queue[q]) : queue[q][i] \notin handled
  /\ \A q, r \in Conns : \A i \in 1..Len(queue[q]), j \in 1..Len(queue[r]) :
       queue[q][i] = queue[r][j] => q = r /\ i = j

FrameInv == FramesAreOld /\ GotOnce /\ JobOnce /\ QueuedOnce

\* Reading numbers the frames of a connection upwards: the frame is a new one.
LEMMA FrameInvRecvData ==
  ASSUME IInv, FrameInv, NEW c \in Conns, RecvData(c)
  PROVE  FrameInv'
<1>1. PICK d \in Conns : /\ read' = [read EXCEPT ![d] = read[d] + 1]
                          /\ got' = [got EXCEPT ![c] = <<d, read[d] + 1>>]
                          /\ read[d] + 1 \in 1..MaxFrames
                          /\ <<d, read[d] + 1>> \in Frames
  BY FrameRead
<1>0. PICK new \in Frames : new = <<d, read[d] + 1>> BY <1>1
<1>2. \A f : OldFrame(f) => OldFrame(f)' /\ f # new
  BY SMTT(30), <1>0, <1>1 DEF IInv, TypeOK, OldFrame, Frames
<1>3. new[2] <= read'[new[1]] BY <1>0, <1>1 DEF IInv, TypeOK
<1>4. OldFrame(new)' BY <1>3 DEF OldFrame, Frames
<1>5. /\ UNCHANGED <<sender, job, queue, handled>>
      /\ receiver' = [receiver EXCEPT ![c] = "put"]
  BY DEF RecvData, sendVars
<1>6. /\ got'[c] = new
      /\ \A b \in Conns \ {c} : got'[b] = got[b] /\ receiver'[b] = receiver[b]
  BY <1>0, <1>1, <1>5 DEF IInv, TypeOK
<1>7. FramesAreOld' BY <1>2, <1>4, <1>5, <1>6 DEF FrameInv, FramesAreOld
<1>8. GotOnce' BY <1>2, <1>5, <1>6 DEF FrameInv, FramesAreOld, GotOnce
<1>9. JobOnce' /\ QueuedOnce' BY <1>5 DEF FrameInv, JobOnce, QueuedOnce
<1> QED BY <1>7, <1>8, <1>9 DEF FrameInv

\* Putting moves the frame from the receive thread to the end of one queue, or
\* drops it.
LEMMA FrameInvPutFrame ==
  ASSUME IInv, FrameInv, NEW c \in Conns, PutFrame(c)
  PROVE  FrameInv'
<1> DEFINE q == QueueBehind(qid[c])
           room == q # None /\ Len(queue[q]) < QueueLen
<1>1. q \in Conns \cup {None} BY DEF QueueBehind, IInv, TypeOK
<1>2. /\ queue' = IF room THEN [queue EXCEPT ![q] = Append(@, got[c])] ELSE queue
      /\ receiver[c] = "put"
      /\ receiver' = [receiver EXCEPT ![c] = "fetch"]
      /\ got' = [got EXCEPT ![c] = None]
      /\ UNCHANGED <<sender, job, handled, read>>
  BY DEF PutFrame, sendVars, netVars
<1> HIDE DEF q
<1>3. \A b \in Conns : receiver'[b] = "put" =>
         b # c /\ receiver[b] = "put" /\ got'[b] = got[b]
  BY <1>2 DEF IInv, TypeOK
<1>4. \A f : OldFrame(f)' = OldFrame(f) BY <1>2 DEF OldFrame
<1>5. \A r \in Conns : \A i \in 1..Len(queue'[r]) :
         \/ i \in 1..Len(queue[r]) /\ queue'[r][i] = queue[r][i]
         \/ r = q /\ i = Len(queue[r]) + 1 /\ queue'[r][i] = got[c]
  <2>0. got[c] \in Frames /\ queue \in [Conns -> Seq(Frames)]
    BY <1>2 DEF IInv, TypeOK, ReceiverInv
  <2>1. CASE ~room BY <1>2, <2>1
  <2>2. CASE room
    <3>1. q \in Conns /\ queue' = [queue EXCEPT ![q] = Append(queue[q], got[c])]
      BY <1>1, <1>2, <2>2
    <3>2. \A r \in Conns : r # q => queue'[r] = queue[r] BY <2>0, <3>1
    <3>3. queue'[q] = Append(queue[q], got[c]) BY <2>0, <3>1
    <3>4. \A i \in 1..Len(queue'[q]) :
            \/ i \in 1..Len(queue[q]) /\ queue'[q][i] = queue[q][i]
            \/ i = Len(queue[q]) + 1 /\ queue'[q][i] = got[c]
      BY <2>0, <3>1, <3>3
    <3> QED BY <3>2, <3>4
  <2> QED BY <2>1, <2>2
<1>6. FramesAreOld' BY <1>2, <1>3, <1>4, <1>5 DEF FrameInv, FramesAreOld
<1>7. GotOnce' BY <1>2, <1>3, <1>5 DEF FrameInv, GotOnce
<1>8. JobOnce' BY <1>2, <1>5 DEF FrameInv, GotOnce, JobOnce
<1>9. QueuedOnce' BY <1>2, <1>5 DEF FrameInv, GotOnce, QueuedOnce
<1> QED BY <1>6, <1>7, <1>8, <1>9 DEF FrameInv

\* Taking moves the first frame of a queue into the send thread's hand.
LEMMA FrameInvTakeFrame ==
  ASSUME IInv, FrameInv, NEW c \in Conns, TakeFrame(c)
  PROVE  FrameInv'
<1> DEFINE q == squeue[c]
<1>1. q \in Conns /\ queue[q] \in Seq(Frames) /\ queue[q] # <<>>
  BY DEF TakeFrame, IInv, TypeOK
<1>2. /\ sender[c] = "poll"
      /\ sender' = [sender EXCEPT ![c] = "analyse"]
      /\ job' = [job EXCEPT ![c] = Head(queue[q])]
      /\ queue' = [queue EXCEPT ![q] = Tail(@)]
      /\ UNCHANGED <<receiver, got, handled, read>>
  BY DEF TakeFrame, QueueAfterTake, recvVars, netVars
<1> HIDE DEF q
<1>3. /\ \A d \in Conns \ {c} : sender'[d] = sender[d] /\ job'[d] = job[d]
      /\ 1 \in 1..Len(queue[q]) /\ job'[c] = queue[q][1]
  BY <1>1, <1>2 DEF IInv, TypeOK
<1>4. \A f : OldFrame(f)' = OldFrame(f) BY <1>2 DEF OldFrame
<1>5. \A r \in Conns : \A i \in 1..Len(queue'[r]) :
         \/ r # q /\ queue'[r] = queue[r]
         \/ r = q /\ i + 1 \in 1..Len(queue[r]) /\ queue'[r][i] = queue[r][i + 1]
  BY <1>1, <1>2 DEF IInv, TypeOK
<1>6. FramesAreOld' BY <1>1, <1>2, <1>3, <1>4, <1>5 DEF FrameInv, FramesAreOld
<1>7. GotOnce' BY <1>1, <1>2, <1>3, <1>5 DEF FrameInv, GotOnce
<1>8. JobOnce'
  <2>1. \A r \in Conns : \A i \in 1..Len(queue'[r]) : queue'[r][i] # job'[c]
    BY <1>1, <1>3, <1>5 DEF FrameInv, QueuedOnce
  <2>2. job'[c] \notin handled BY <1>1, <1>3 DEF FrameInv, QueuedOnce
  <2>3. \A d \in Conns \ {c} : sender[d] = "analyse" => job[d] # job'[c]
    BY <1>1, <1>3 DEF FrameInv, JobOnce
  <2>4. ASSUME NEW d \in Conns \ {c}, sender[d] = "analyse",
               NEW r \in Conns, NEW i \in 1..Len(queue'[r])
        PROVE  queue'[r][i] # job[d]
    <3>1. CASE r # q /\ queue'[r] = queue[r]
      BY <2>4, <3>1 DEF FrameInv, JobOnce
    <3>2. CASE i + 1 \in 1..Len(queue[r]) /\ queue'[r][i] = queue[r][i + 1]
      BY <2>4, <3>2 DEF FrameInv, JobOnce
    <3> QED BY <1>5, <3>1, <3>2
  <2> QED BY <1>2, <1>3, <2>1, <2>2, <2>3, <2>4 DEF FrameInv, JobOnce
<1>9. QueuedOnce'
  <2>1. \A r \in Conns : \A i \in 1..Len(queue'[r]) : queue'[r][i] \notin handled'
    BY <1>1, <1>2, <1>5 DEF FrameInv, QueuedOnce
  <2>2. ASSUME NEW r \in Conns, NEW s \in Conns, NEW i \in 1..Len(queue'[r]),
               NEW j \in 1..Len(queue'[s]), queue'[r][i] = queue'[s][j]
        PROVE  r = s /\ i = j
    <3>1. PICK k \in 1..Len(queue[r]) : /\ queue'[r][i] = queue[r][k]
                                        /\ k = IF r = q THEN i + 1 ELSE i
      BY <1>1, <1>5
    <3>2. PICK l \in 1..Len(queue[s]) : /\ queue'[s][j] = queue[s][l]
                                        /\ l = IF s = q THEN j + 1 ELSE j
      BY <1>1, <1>5
    <3>3. queue[r][k] = queue[s][l] BY <2>2, <3>1, <3>2
    <3>4. r = s /\ k = l BY <3>3 DEF FrameInv, QueuedOnce
    <3>5. i \in Int /\ j \in Int
      <4>1. queue' \in [Conns -> Seq(Frames)]
        <5>1. Tail(queue[q]) \in Seq(Frames) BY <1>1
        <5> QED BY <1>2, <5>1 DEF IInv, TypeOK
      <4>2. Len(queue'[r]) \in Nat /\ Len(queue'[s]) \in Nat BY <4>1
      <4> QED BY <4>2
    <3> QED BY <3>1, <3>2, <3>4, <3>5
  <2>3. \A r, s \in Conns :
          \A i \in 1..Len(queue'[r]), j \in 1..Len(queue'[s]) :
             queue'[r][i] = queue'[s][j] => r = s /\ i = j
    BY <2>2, Zenon
  <2> QED BY <2>1, <2>3, Zenon DEF QueuedOnce
<1> QED BY <1>6, <1>7, <1>8, <1>9 DEF FrameInv

\* Handling moves the frame out of the send thread's hand.
LEMMA FrameInvAnalyse ==
  ASSUME IInv, FrameInv, NEW c \in Conns, Analyse(c)
  PROVE  FrameInv'
<1>1. /\ sender[c] = "analyse"
      /\ sender' = [sender EXCEPT ![c] = "test"]
      /\ job' = [job EXCEPT ![c] = None]
      /\ handled' = handled \cup {job[c]}
      /\ UNCHANGED <<receiver, got, queue, read>>
  BY DEF Analyse, recvVars, netVars, queueVars
<1>2. \A d \in Conns : sender'[d] = "analyse" =>
         d # c /\ sender[d] = "analyse" /\ job'[d] = job[d]
  BY <1>1 DEF IInv, TypeOK
<1>3. \A f : OldFrame(f)' = OldFrame(f) BY <1>1 DEF OldFrame
<1>4. FramesAreOld' BY <1>1, <1>2, <1>3 DEF FrameInv, FramesAreOld
<1>5. GotOnce' BY <1>1, <1>2 DEF FrameInv, GotOnce
<1>6. JobOnce' BY <1>1, <1>2 DEF FrameInv, JobOnce
<1>7. QueuedOnce' BY <1>1 DEF FrameInv, JobOnce, QueuedOnce
<1> QED BY <1>4, <1>5, <1>6, <1>7 DEF FrameInv

\* No other step puts a frame anywhere.
LEMMA FrameInvOther ==
  ASSUME IInv, FrameInv, UNCHANGED <<read, got, job, queue, handled>>,
         \A c \in Conns : receiver'[c] = "put" => receiver[c] = "put",
         \A c \in Conns : sender'[c] = "analyse" => sender[c] = "analyse"
  PROVE  FrameInv'
<1>1. \A f : OldFrame(f)' = OldFrame(f) BY DEF OldFrame
<1> QED BY <1>1 DEF FrameInv, FramesAreOld, GotOnce, JobOnce, QueuedOnce

\* Every step keeps each frame in one place.
LEMMA FrameInvStep == IInv /\ FrameInv /\ [Next]_vars => FrameInv'
<1> SUFFICES ASSUME IInv, FrameInv, [Next]_vars PROVE FrameInv'
  OBVIOUS
<1>0. TypeOK BY DEF IInv
<1>1. ASSUME NEW p \in Ports, Server(p) PROVE FrameInv'
  <2>1. UNCHANGED <<read, got, job, queue, handled>>
    BY <1>1 DEF Server, AcceptNext, ServerTest, Accept, AcceptZero, AcceptFails, SetOn,
                SetFd,
                MakeReceiver, MakeSender, netVars, recvVars, sendVars
  <2>2. /\ \A c \in Conns : receiver'[c] = "put" => receiver[c] = "put"
        /\ \A c \in Conns : sender'[c] = "analyse" => sender[c] = "analyse"
    BY <1>0, <1>1 DEF Server, AcceptNext, ServerTest, Accept, AcceptZero, AcceptFails,
                      SetOn, SetFd,
                MakeReceiver, MakeSender, netVars, recvVars, sendVars, TypeOK
  <2> QED BY <2>1, <2>2, FrameInvOther
<1>2. ASSUME NEW c \in Conns, Receiver(c) PROVE FrameInv'
  <2>1. CASE RecvData(c) BY <2>1, FrameInvRecvData
  <2>2. CASE PutFrame(c) BY <2>2, FrameInvPutFrame
  <2>3. CASE ~RecvData(c) /\ ~PutFrame(c)
    <3>1. UNCHANGED <<read, got, job, queue, handled, sender>>
      BY <1>2, <2>3 DEF Receiver, FetchFd, SelectFails, SelectReturns, LoadQueue, RecvEof, RecvError,
                  SetOff, CloseFd, netVars, sendVars
    <3>2. \A d \in Conns : receiver'[d] = "put" => receiver[d] = "put"
      BY <1>0, <1>2, <2>3 DEF Receiver, FetchFd, SelectFails, SelectReturns, LoadQueue, RecvEof,
                  RecvError, SetOff, CloseFd, TypeOK
    <3> QED BY <3>1, <3>2, FrameInvOther
  <2> QED BY <2>1, <2>2, <2>3
<1>3. ASSUME NEW c \in Conns, Sender(c) PROVE FrameInv'
  <2>1. CASE TakeFrame(c) BY <2>1, FrameInvTakeFrame
  <2>2. CASE Analyse(c) BY <2>2, FrameInvAnalyse
  <2>3. CASE CreateQueue(c) \/ SenderTest(c) \/ PollTimeout(c)
    <3>1. UNCHANGED <<read, got, job, queue, handled, receiver>>
      BY <2>3 DEF CreateQueue, SenderTest, PollTimeout, netVars, recvVars
    <3>2. \A d \in Conns : sender'[d] = "analyse" => sender[d] = "analyse"
      BY <1>0, <2>3 DEF CreateQueue, SenderTest, PollTimeout, IdleSender, TypeOK
    <3> QED BY <3>1, <3>2, FrameInvOther
  <2> QED BY <1>3, <2>1, <2>2, <2>3 DEF Sender
<1>4. ASSUME NEW c \in Conns, Client(c) PROVE FrameInv'
  BY <1>4, FrameInvOther DEF Client, ClientSends, ClientLeaves, recvVars, sendVars
<1>5. CASE UNCHANGED vars
  BY <1>5, FrameInvOther DEF vars, netVars, recvVars, sendVars
<1> QED BY <1>1, <1>2, <1>3, <1>4, <1>5 DEF Next

\* A request is executed at most once, however many send threads and queues of
\* earlier connections are alive: on its way from recv() to AnalysModbus a frame
\* is in one place only.
THEOREM NothingHandledTwice == Spec => []HandledOnce
<1>1. Init => FrameInv
  BY DEF Init, FrameInv, FramesAreOld, GotOnce, JobOnce, QueuedOnce
<1>2. FrameInv => HandledOnce BY DEF FrameInv, JobOnce, HandledOnce
<1> QED BY <1>1, <1>2, FrameInvStep, IInvHolds, PTL DEF Spec

-----------------------------------------------------------------------------
(* Where a connection is open, for what Links says of the answers.         *)

\* A connection its port has as the last one is open, if at all, at the number
\* accept() returned; a connection nobody has accepted is nowhere.
TableInv ==
  \A f \in Fds, c \in Conns : table[f] = c =>
    /\ peer[c] # "idle"
    /\ port[c] \in Ports /\ client[port[c]] = c => f = client_sockptr[port[c]]

LEMMA TableInvAccept ==
  ASSUME IInv, TableInv, NEW p \in Ports, NEW c \in Conns, Accept(p, c)
  PROVE  TableInv'
<1>1. PICK f \in Fds \ {0} : /\ table' = [table EXCEPT ![f] = c]
                            /\ client_sockptr' = [client_sockptr EXCEPT ![p] = f]
  BY DEF Accept
<1>2. /\ client' = [client EXCEPT ![p] = c] /\ port' = [port EXCEPT ![c] = p]
      /\ peer' = [peer EXCEPT ![c] = "up"] /\ peer[c] = "idle"
  BY DEF Accept, NextConn
<1>3. \A g \in Fds : table'[g] = c => g = f
  BY <1>1, <1>2 DEF IInv, TypeOK, TableInv
<1>4. /\ peer'[c] = "up" /\ port'[c] = p /\ client'[p] = c /\ client_sockptr'[p] = f
      /\ \A d \in Conns \ {c} : peer'[d] = peer[d] /\ port'[d] = port[d]
      /\ \A q \in Ports \ {p} : client'[q] = client[q]
                              /\ client_sockptr'[q] = client_sockptr[q]
      /\ \A g \in Fds \ {f} : table'[g] = table[g]
      /\ table'[f] = c
  BY <1>1, <1>2 DEF IInv, TypeOK
<1> QED BY <1>3, <1>4 DEF TableInv

LEMMA TableInvStep == IInv /\ TableInv /\ [Next]_vars => TableInv'
<1> SUFFICES ASSUME IInv, TableInv, [Next]_vars PROVE TableInv'
  OBVIOUS
<1> USE DEF IInv, TypeOK, TableInv
<1>1. ASSUME NEW p \in Ports, Server(p) PROVE TableInv'
  <2>1. ASSUME NEW c \in Conns, Accept(p, c) PROVE TableInv'
    BY <2>1, TableInvAccept
  <2>2. ASSUME NEW c \in Conns, AcceptZero(p, c) PROVE TableInv'
    BY <2>2 DEF AcceptZero, NextConn, ReceiverInv
  <2>3. CASE ~ \E c \in Conns : AcceptNext(p, c)
    BY <1>1, <2>3 DEF Server, AcceptNext, ServerTest, AcceptFails, SetOn, SetFd,
                      MakeReceiver,
                      MakeSender, netVars
  <2> QED BY <2>1, <2>2, <2>3 DEF AcceptNext
<1>2. ASSUME NEW c \in Conns, Receiver(c) PROVE TableInv'
  <2>1. CASE RecvError(c)
    BY <2>1 DEF RecvError, serverVars
  <2>2. CASE CloseFd(c)
    BY <2>2 DEF CloseFd, serverVars
  <2>3. CASE ~RecvError(c) /\ ~CloseFd(c)
    BY <1>2, <2>3 DEF Receiver, FetchFd, SelectFails, SelectReturns, LoadQueue, RecvData,
                      RecvEof, PutFrame, SetOff, serverVars, netVars
  <2> QED BY <2>1, <2>2, <2>3
<1>3. ASSUME NEW c \in Conns, Sender(c) PROVE TableInv'
  BY <1>3 DEF Sender, CreateQueue, SenderTest, TakeFrame, PollTimeout, Analyse,
              serverVars, netVars
<1>4. ASSUME NEW c \in Conns, Client(c) PROVE TableInv'
  BY <1>4 DEF Client, ClientSends, ClientLeaves, serverVars
<1>5. CASE UNCHANGED vars
  BY <1>5 DEF vars, serverVars, netVars
<1> QED BY <1>1, <1>2, <1>3, <1>4, <1>5 DEF Next
=============================================================================
