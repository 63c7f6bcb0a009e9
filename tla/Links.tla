-------------------------------- MODULE Links --------------------------------
(***************************************************************************)
(* The ways on which messages reach a node: over TCP/IP, as a target on an *)
(* I2C bus, and through the bridge of a standalone node, whose SVC must    *)
(* have greeted the AP first.  A build has one of them; the others do      *)
(* nothing.  The UART is the subject of Hdlc.                              *)
(***************************************************************************)
EXTENDS Tcpip, I2cTarget, Svc

VARIABLE link

vars == <<link, tcp_vars, i2c_vars, svc_vars>>

Init == link \in {"tcpip", "i2c", "apbridge"} /\ TcpInit /\ I2cInit /\ SvcInit

TcpStep == link = "tcpip" /\ TcpNext /\ UNCHANGED <<link, i2c_vars, svc_vars>>
I2cStep == link = "i2c" /\ I2cNext /\ UNCHANGED <<link, tcp_vars, svc_vars>>
SvcStep == link = "apbridge" /\ SvcNext /\ UNCHANGED <<link, tcp_vars, i2c_vars>>

Next == TcpStep \/ I2cStep \/ SvcStep

\* The receive thread and the system work queue run whenever they can.
Fairness ==
  /\ WF_vars(link = "tcpip" /\ RxThread /\ UNCHANGED <<link, i2c_vars, svc_vars>>)
  /\ WF_vars(link = "i2c" /\ (WorkBegin \/ WorkTake) /\ UNCHANGED <<link, tcp_vars, svc_vars>>)

Spec == Init /\ [][Next]_vars /\ Fairness

-----------------------------------------------------------------------------
TypeOK == TcpTypeOK /\ I2cTypeOK /\ SvcTypeOK

\* A link hands up and sends out whole messages in order, whatever threads send and
\* clients come and go; but a send is two writes without a lock (tcpip.c:160,
\* i2c.c:183), so that two threads or a new client may tear it, and a full ring
\* drops units of a message (i2c.c:98).
MessagesIntact == TcpIntact /\ I2cIntact

\* What the AP does is noticed in the end: each of its connections is accepted, what
\* it has sent over the last is received, and so is what it has written before it
\* stopped; unless a connection broke or the ring was full.
LinkRecovers ==
  /\ \A c \in Connections : (made >= c) ~> (accepted >= c \/ Stuck)
  /\ \A c \in Connections :
       (accepted = c /\ in[c] # <<>>) ~> (in[c] = <<>> \/ Stuck)
  /\ \A m \in Messages : (stopped >= m) ~> (Len(taken) >= m \/ dropped)
=============================================================================
