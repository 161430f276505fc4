------------------------------- MODULE Links -------------------------------
(***************************************************************************)
(* The displays (LcdLink) and the PLC (PlcLink) in one process, as main()  *)
(* starts them: one descriptor table, one space of message queue ids, one  *)
(* numbering of the connections.  A step of one link leaves the variables  *)
(* that belong to the other alone; what it does to the shared ones is felt *)
(* there.  The clients of both are those of LcdLink.                       *)
(***************************************************************************)
EXTENDS LcdLink

VARIABLES
  modbus_sockt_state_plc, modbus_client_sockptr_plc, g_comm_qmegid_plc,
  server_plc, client_sockptr_plc, client_plc,
  receiver_plc, fd_plc, err_plc, qid_plc, got_plc,
  sender_plc, job_plc, answers,   \* those of PlcLink
  clean      \* history: no exit has closed a connection not its own

P == INSTANCE PlcLink

\* Descriptor 0 is one of the table, as the exit of the PLC thread closes it.
ASSUME LinksAssumption == 0 \in Fds

lcdVars   == <<globals, serverVars, port, recvVars, sendVars>>
plcVars   == <<modbus_sockt_state_plc, modbus_client_sockptr_plc,
               g_comm_qmegid_plc, server_plc, client_sockptr_plc, client_plc,
               receiver_plc, fd_plc, err_plc, qid_plc, got_plc, sender_plc,
               job_plc, answers>>
linksVars == <<vars, plcVars, clean>>

LinksTypeOK == TypeOK /\ P!TypeOK /\ clean \in BOOLEAN

LinksInit == Init /\ P!Init /\ clean = TRUE

\* The connection an exit closes is its own or closed already.
ClosesOwn(c) == table[modbus_client_sockptr[port[c]]] \in {c, None}

LcdStep ==
  /\ Next
  /\ clean' = (clean /\ \A c \in Conns :
                  receiver[c] = "close" /\ receiver'[c] = "done" => ClosesOwn(c))
  /\ UNCHANGED plcVars

PlcStep == P!Next /\ UNCHANGED <<lcdVars, clean>>

LinksNext == LcdStep \/ PlcStep

LinksSpec == LinksInit /\ [][LinksNext]_linksVars

-----------------------------------------------------------------------------
(* Properties.                                                             *)

\* The links do not get in each other's way: until a late close has hit a
\* foreign connection, every receive thread in its loop, of a display or of
\* the PLC, finds its own connection behind its number, whatever the others
\* accept and close.
OwnConnection ==
  clean =>
    /\ \A c \in Conns :
         InLoop(c) => table[modbus_client_sockptr[port[c]]] = c
    /\ P!InLoop => table[modbus_client_sockptr_plc] = client_plc

\* A client of a display is accepted and then left alone, on descriptor 0, only
\* after the PLC receive thread has left, and this happens to one client.
Unserved(c) == peer[c] # "idle" /\ port[c] = None /\ c # client_plc

OneUnserved ==
  /\ (\E c \in Conns : Unserved(c)) => receiver_plc = "done"
  /\ \A c, d \in Conns : Unserved(c) /\ Unserved(d) => c = d

\* An answer of the PLC goes to its client, or, once its receive thread has
\* stored 0 for the descriptor and left, to the one client that a display has left
\* alone on number 0, never to a client some thread serves; and it answers the
\* requests of its own client, unless its queue is the one with the id 0, by which
\* a display's can get in.  All this until a late close has hit a foreign
\* connection.
AnswersGoHome ==
  clean => \A a \in answers :
    /\ a[2] = client_plc \/ Unserved(a[2])
    /\ a[1] = client_plc \/ queueZero = client_plc

\* The queue with the id 0 is one of this port's.
HasZero(p) == queueZero \in Conns /\ port[queueZero] = p

\* AnalysModbus of a display answers to the number the port has when the frame is
\* handled.  That is the client that asked, as long as its connection is open and
\* its receive thread in its loop, and its own port handles the frame.  Another
\* port handles it only if it has the queue with the id 0, into which the asker's
\* port puts what comes before its first queue, or after a late close has hit a
\* foreign connection.
AnswerReachesAsker ==
  \A s \in Conns : sender[s] = "analyse" =>
    LET c == job[s][1]
    IN  InLoop(c) /\ Open(c) =>
          \/ table[modbus_client_sockptr[port[s]]] = c
          \/ port[c] # port[s] /\ (HasZero(port[s]) \/ ~clean)
=============================================================================
