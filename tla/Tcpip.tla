-------------------------------- MODULE Tcpip --------------------------------
(***************************************************************************)
(* The TCP/IP transport (transport/tcpip.c).  A thread accepts one client, *)
(* reads its messages and, when the client has closed the connection,      *)
(* accepts the next.  Any thread may send: the number of the cport and the *)
(* message are two writes, each to the socket that client_sock names then. *)
(*                                                                         *)
(* The connections of the AP are numbered.  A piece of a stream is a pair  *)
(* of a message and a part of it; a client sends three parts, the cport,   *)
(* the header and the payload, for the three reads of the node.            *)
(***************************************************************************)
EXTENDS Naturals, Sequences, FiniteSets

CONSTANTS
  Senders,        \* the worker and the threads that send events
  MaxConnections, \* bounds on the connections, on what the AP sends, and on what
  MaxReceived,    \* the node sends
  MaxSent

ASSUME TcpAssumption ==
  /\ MaxConnections \in Nat
  /\ MaxReceived \in Nat
  /\ MaxSent \in Nat

Connections == 1..MaxConnections
NoSocket == 0   \* -1

VARIABLES
  client_sock,
  made, accepted, \* connections the AP has opened, and gb_trans_accept has taken
  peer,           \* the other end of each connection
  in, out,        \* the pieces to be read, and all that were written
  got,            \* of the message that is being received
  received,       \* messages given to greybus_rx_handler
  posted,         \* messages of the AP
  begun,          \* for each sender between its writes: where the first has gone
  sent,
  torn            \* connections on which two sends overlapped or met a new client

tcp_vars == <<client_sock, made, accepted, peer, in, out, got, received, posted, begun,
              sent, torn>>
ap_vars == <<made, peer, in, posted>>
rx_vars == <<client_sock, accepted, got, received>>
tx_vars == <<out, begun, sent, torn>>

Idle == [message |-> 0, on |-> NoSocket]

TcpInit ==
  /\ client_sock = NoSocket /\ made = 0 /\ accepted = 0
  /\ peer = [c \in Connections |-> "none"]
  /\ in = [c \in Connections |-> <<>>] /\ out = [c \in Connections |-> <<>>]
  /\ got = <<>> /\ received = <<>> /\ posted = 0
  /\ begun = [s \in Senders |-> Idle] /\ sent = 0 /\ torn = {}

-----------------------------------------------------------------------------
(* The AP                                                                  *)

\* There is one AP: it connects again when it has left the connection before.
ApConnect ==
  /\ made < MaxConnections
  /\ made > 0 => peer[made] # "open"
  /\ made' = made + 1 /\ peer' = [peer EXCEPT ![made + 1] = "open"]
  /\ UNCHANGED <<in, posted, rx_vars, tx_vars>>

Pieces(m, n) == [i \in 1..n |-> <<m, i>>]
ApSend ==
  /\ made > 0 /\ peer[made] = "open" /\ posted < MaxReceived
  /\ posted' = posted + 1
  /\ in' = [in EXCEPT ![made] = @ \o Pieces(posted + 1, 3)]
  /\ UNCHANGED <<made, peer, rx_vars, tx_vars>>

\* It closes the connection, perhaps in the middle of a message, or breaks it.
ApClose ==
  /\ made > 0 /\ peer[made] = "open"
  /\ peer' = [peer EXCEPT ![made] = "closed"]
  /\ \/ UNCHANGED <<in, posted>>
     \/ /\ posted < MaxReceived /\ posted' = posted + 1
        /\ \E n \in 1..2 : in' = [in EXCEPT ![made] = @ \o Pieces(posted + 1, n)]
  /\ UNCHANGED <<made, rx_vars, tx_vars>>
ApReset ==
  /\ made > 0 /\ peer[made] = "open"
  /\ peer' = [peer EXCEPT ![made] = "reset"] /\ in' = [in EXCEPT ![made] = <<>>]
  /\ UNCHANGED <<made, posted, rx_vars, tx_vars>>

-----------------------------------------------------------------------------
(* gb_trans_rx_thread_handler                                              *)

\* gb_trans_accept; one that fails is tried again.
Accept ==
  /\ client_sock = NoSocket /\ accepted < made
  /\ client_sock' = accepted + 1 /\ accepted' = accepted + 1
  /\ UNCHANGED <<ap_vars, got, received, tx_vars>>

\* read_data of the next part; with the last the message goes to the core.
Read ==
  /\ client_sock # NoSocket /\ in[client_sock] # <<>>
  /\ in' = [in EXCEPT ![client_sock] = Tail(@)]
  /\ LET read == Append(got, Head(in[client_sock]))
     IN  IF Len(read) = 3
         THEN got' = <<>> /\ received' = Append(received, <<client_sock, read>>)
         ELSE got' = read /\ UNCHANGED received
  /\ UNCHANGED <<made, peer, posted, client_sock, accepted, tx_vars>>

\* Mutant: the end is not told from a short read, and the rest is waited for.
ReadEndKept ==
  /\ client_sock # NoSocket /\ in[client_sock] = <<>> /\ peer[client_sock] = "closed"
  /\ got = <<>> /\ client_sock' = NoSocket
  /\ UNCHANGED <<ap_vars, got, accepted, received, tx_vars>>

\* The client has closed the connection: what there is of a message is dropped.
ReadEnd ==
  /\ client_sock # NoSocket /\ in[client_sock] = <<>> /\ peer[client_sock] = "closed"
  /\ client_sock' = NoSocket /\ got' = <<>>
  /\ UNCHANGED <<ap_vars, accepted, received, tx_vars>>

\* A read that fails leaves the socket as it is, to be polled again.
ReadError ==
  /\ client_sock # NoSocket /\ in[client_sock] = <<>> /\ peer[client_sock] = "reset"
  /\ got' = <<>>
  /\ UNCHANGED <<ap_vars, client_sock, accepted, received, tx_vars>>

RxThread == Accept \/ Read \/ ReadEnd \/ ReadError

-----------------------------------------------------------------------------
(* gb_trans_send                                                           *)

Reached == client_sock # NoSocket /\ peer[client_sock] = "open"

\* The first write: into the stream, or refused, or to a client that is gone.
SendCport(s) ==
  /\ begun[s] = Idle /\ sent < MaxSent
  /\ sent' = sent + 1
  /\ \/ /\ Reached
        /\ begun' = [begun EXCEPT ![s] = [message |-> sent', on |-> client_sock]]
        /\ out' = [out EXCEPT ![client_sock] = Append(@, <<sent', "cport">>)]
        /\ torn' = torn \cup {c \in {client_sock} : \E t \in Senders : begun[t] # Idle}
     \/ /\ ~Reached
        /\ \/ UNCHANGED begun
           \/ /\ client_sock # NoSocket
              /\ begun' = [begun EXCEPT ![s] = [message |-> sent', on |-> client_sock]]
        /\ UNCHANGED <<out, torn>>
  /\ UNCHANGED <<ap_vars, rx_vars>>

\* The second write looks at client_sock again.
SendMessage(s) ==
  /\ begun[s] # Idle
  /\ begun' = [begun EXCEPT ![s] = Idle]
  /\ IF Reached
     THEN /\ out' = [out EXCEPT ![client_sock] = Append(@, <<begun[s].message, "message">>)]
          /\ torn' = torn \cup ({client_sock} \ {begun[s].on})
     ELSE UNCHANGED <<out, torn>>
  /\ UNCHANGED <<ap_vars, rx_vars, sent>>

TcpNext ==
  \/ ApConnect \/ ApSend \/ ApClose \/ ApReset
  \/ RxThread
  \/ \E s \in Senders : SendCport(s) \/ SendMessage(s)

-----------------------------------------------------------------------------
TcpTypeOK ==
  /\ client_sock \in {NoSocket} \cup Connections
  /\ accepted \in 0..made /\ made \in 0..MaxConnections
  /\ peer \in [Connections -> {"none", "open", "closed", "reset"}]
  /\ Len(got) \in 0..2 /\ sent \in 0..MaxSent /\ torn \subseteq Connections
  /\ begun \in [Senders -> [message : 0..MaxSent, on : 0..MaxConnections]]

\* Between two sends that keep apart, on a connection that is not replaced between
\* the writes of one, the AP reads each message behind its cport; and what the core
\* gets are whole messages of one connection, in the order they were sent.
TcpIntact ==
  /\ \A c \in Connections \ torn : \A i \in DOMAIN out[c] :
       out[c][i] = <<out[c][IF i % 2 = 0 THEN i - 1 ELSE i][1],
                     IF i % 2 = 0 THEN "message" ELSE "cport">>
  /\ \A i \in DOMAIN received :
       /\ received[i][2] = Pieces(received[i][2][1][1], 3)
       /\ i > 1 => received[i - 1][2][1][1] < received[i][2][1][1]

\* A client is accepted, unless the connection before it broke: the thread stays
\* with a socket on which every read fails (tcpip.c:330).
Stuck == client_sock # NoSocket /\ peer[client_sock] = "reset"
=============================================================================
