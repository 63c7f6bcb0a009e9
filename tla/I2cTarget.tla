------------------------------ MODULE I2cTarget ------------------------------
(***************************************************************************)
(* The I2C transport (transport/i2c.c): the node is a target on the bus.   *)
(* The master writes into a ring that a work item empties when the master  *)
(* stops, and reads from a pipe that senders fill and wait for.            *)
(*                                                                         *)
(* Message m has Lengths[m] units, the first of which is its header; unit  *)
(* 0 of an outgoing one is its cport.  A unit is the pair of its message   *)
(* and its number.                                                         *)
(***************************************************************************)
EXTENDS Naturals, Sequences

CONSTANTS
  Writers,  \* threads that send
  Lengths,  \* of the messages, of both directions
  PipeLen   \* units in the ring, and in the pipe

ASSUME I2cAssumption == Lengths \in Seq(Nat \ {0}) /\ PipeLen \in Nat \ {0}

Messages == DOMAIN Lengths
Units(m, first) == [i \in 1..Lengths[m] + 1 - first |-> <<m, first + i - 1>>]

VARIABLES
  writing,       \* the unit the master writes next
  stopped,       \* messages after which it has stopped
  rx_buf,
  dropped,       \* did a unit find the ring full?
  work, running, \* is the work item pending, and does it run?
  taken,         \* what greybus_rx_handler was given
  tx_pipe,
  given,         \* messages given to gb_trans_send, in the order of their numbers
  unit,          \* for each writer: its next unit, none if it does not send
  collided,      \* did two writers send at the same time?
  read           \* what the master has read

i2c_vars == <<writing, stopped, rx_buf, dropped, work, running, taken, tx_pipe, given,
              unit, collided, read>>
i2c_rx == <<writing, stopped, rx_buf, dropped, work, running, taken>>
i2c_tx == <<tx_pipe, given, unit, collided, read>>

NoUnit == <<0, 0>>

I2cInit ==
  /\ writing = <<1, 1>> /\ stopped = 0
  /\ rx_buf = <<>> /\ dropped = FALSE /\ work = FALSE /\ running = FALSE /\ taken = <<>>
  /\ tx_pipe = <<>> /\ given = 0 /\ unit = [w \in Writers |-> NoUnit]
  /\ collided = FALSE /\ read = <<>>

-----------------------------------------------------------------------------
(* Reception                                                               *)

\* i2c_target_write_received_cb
WriteReceived ==
  /\ writing[1] \in Messages /\ writing[2] <= Lengths[writing[1]]
  /\ writing' = <<writing[1], writing[2] + 1>>
  /\ IF Len(rx_buf) < PipeLen
     THEN rx_buf' = Append(rx_buf, writing) /\ UNCHANGED dropped
     ELSE dropped' = TRUE /\ UNCHANGED rx_buf
  /\ UNCHANGED <<stopped, work, running, taken, i2c_tx>>

\* i2c_target_stop_cb, at the end of a message.
Stop ==
  /\ writing[1] \in Messages /\ writing[2] > Lengths[writing[1]]
  /\ writing' = <<writing[1] + 1, 1>> /\ stopped' = writing[1]
  /\ work' = TRUE
  /\ UNCHANGED <<rx_buf, dropped, running, taken, i2c_tx>>

\* gb_msg_process_cb begins; a stop that comes from now on makes it run again.
WorkBegin ==
  /\ work /\ ~running
  /\ running' = TRUE /\ work' = FALSE
  /\ UNCHANGED <<writing, stopped, rx_buf, dropped, taken, i2c_tx>>

\* The length that stands in the first unit, which may be none of a header.
HeaderLengths == IF rx_buf[1][2] = 1 THEN {Lengths[rx_buf[1][1]]} ELSE 1..PipeLen + 1

\* Mutant: a message is taken before all of it has come.
TakeEarly(length) ==
  /\ rx_buf' = SubSeq(rx_buf, length + 1, Len(rx_buf))
  /\ taken' = Append(taken, SubSeq(rx_buf, 1, IF length < Len(rx_buf) THEN length ELSE Len(rx_buf)))
  /\ UNCHANGED running

\* gb_msg_rx_take, or the end of the work when there is not enough.
Take(length) ==
  IF length <= Len(rx_buf)
  THEN /\ rx_buf' = SubSeq(rx_buf, length + 1, Len(rx_buf))
       /\ taken' = Append(taken, SubSeq(rx_buf, 1, length))
       /\ UNCHANGED running
  ELSE running' = FALSE /\ UNCHANGED <<rx_buf, taken>>

WorkTake ==
  /\ running
  /\ \/ rx_buf # <<>> /\ \E length \in HeaderLengths : Take(length)
     \/ rx_buf = <<>> /\ running' = FALSE /\ UNCHANGED <<rx_buf, taken>>
  /\ UNCHANGED <<writing, stopped, dropped, work, i2c_tx>>

-----------------------------------------------------------------------------
(* Transmission                                                            *)

\* gb_trans_send is called with the next message.
SendBegin(w) ==
  /\ unit[w] = NoUnit /\ given < Len(Lengths)
  /\ given' = given + 1
  /\ unit' = [unit EXCEPT ![w] = <<given + 1, 0>>]
  /\ collided' = (collided \/ \E v \in Writers : unit[v] # NoUnit)
  /\ UNCHANGED <<tx_pipe, read, i2c_rx>>

\* Mutant: the room in the pipe is not waited for.
PipeWriteAtOnce(w) ==
  /\ unit[w] # NoUnit
  /\ tx_pipe' = Append(tx_pipe, unit[w])
  /\ unit' = [unit EXCEPT ![w] = IF @[2] = Lengths[@[1]] THEN NoUnit ELSE <<@[1], @[2] + 1>>]
  /\ UNCHANGED <<given, collided, read, i2c_rx>>

\* The two calls of k_pipe_write wait for room, for ever.
PipeWrite(w) ==
  /\ unit[w] # NoUnit /\ Len(tx_pipe) < PipeLen
  /\ tx_pipe' = Append(tx_pipe, unit[w])
  /\ unit' = [unit EXCEPT ![w] = IF @[2] = Lengths[@[1]] THEN NoUnit ELSE <<@[1], @[2] + 1>>]
  /\ UNCHANGED <<given, collided, read, i2c_rx>>

\* i2c_target_read_cb; without a unit the read fails.
TargetRead ==
  /\ tx_pipe # <<>>
  /\ read' = Append(read, Head(tx_pipe)) /\ tx_pipe' = Tail(tx_pipe)
  /\ UNCHANGED <<given, unit, collided, i2c_rx>>

I2cNext ==
  \/ WriteReceived \/ Stop \/ WorkBegin \/ WorkTake
  \/ \E w \in Writers : SendBegin(w) \/ PipeWrite(w)
  \/ TargetRead

-----------------------------------------------------------------------------
I2cTypeOK ==
  /\ stopped \in 0..Len(Lengths) /\ Len(rx_buf) <= PipeLen /\ Len(tx_pipe) <= PipeLen
  /\ dropped \in BOOLEAN /\ work \in BOOLEAN /\ running \in BOOLEAN /\ collided \in BOOLEAN
  /\ given \in 0..Len(Lengths)
  /\ \A w \in Writers :
       unit[w] = NoUnit \/ \E m \in Messages : unit[w] \in {m} \X (0..Lengths[m])

\* The unit behind a unit that goes out.
Follow(u) == IF u[2] < Lengths[u[1]] THEN <<u[1], u[2] + 1>> ELSE <<u[1] + 1, 0>>

\* Unless the ring was full once, the core gets whole messages in their order; unless
\* two threads sent at once, the master reads whole messages in theirs.
I2cIntact ==
  /\ dropped \/ \A i \in DOMAIN taken : taken[i] = Units(i, 1)
  /\ collided \/ \A i \in DOMAIN read :
       read[i] = IF i = 1 THEN <<1, 0>> ELSE Follow(read[i - 1])
=============================================================================
