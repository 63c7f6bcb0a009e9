-------------------------------- MODULE Hdlc --------------------------------
(***************************************************************************)
(* A serial link: threads of one device send frames                        *)
(* (hdlc_block_send_sync), another receives them with the UART interrupt   *)
(* (serial_callback), a ring buffer and a work item (hdlc_rx_handler).     *)
(*                                                                         *)
(* A byte is <<frame, its place, whether it has its value>>: the escape    *)
(* changes the value and the receiver changes it back.  The checksum is    *)
(* the sequence of the bytes it was computed from and fits that of a whole *)
(* frame only.  A frame is its bytes between two flags, the address, the   *)
(* control byte and the checksum among them.                               *)
(***************************************************************************)
EXTENDS Naturals, Sequences, FiniteSets

CONSTANTS
  Threads,  \* threads that send
  Frames,   \* bound on the frames sent
  Length,   \* bytes of a frame
  Escaped,  \* those with the value of a flag or of an escape
  Size,     \* HDLC_MAX_BLOCK_SIZE
  Fifo,     \* depth of the receiving UART
  MaxLost,  \* bound on the symbols lost in overruns
  MaxTorn   \* bound on them once two sends have overlapped

ASSUME HdlcAssumption ==
  /\ Frames \in Nat /\ Length \in Nat /\ Length >= 2 /\ Escaped \subseteq 1..Length
  /\ Size \in Nat \ {0} /\ Length <= Size
  /\ Fifo \in Nat \ {0} /\ MaxLost \in Nat

VARIABLES
  sends,         \* the frames begun, in that order
  place, escape, \* for each thread: the byte it is at, and whether HDLC_ESC is sent
  clash,         \* two threads were in the middle of a frame
  fifo, lost,    \* symbols in the UART, and how many were lost
  ring, get,     \* hdlc_rx_ringbuf: contents, and the index of the first byte
  queued,        \* hdlc_rx_work is in the queue
  running,       \* hdlc_rx_handler runs ...
  claim, done,   \* ... on so many bytes, and is through with so many
  rx_buffer, crc, next_escaped, \* struct hdlc_driver
  delivered,     \* frames given to hdlc_process_frame_cb
  alarm          \* a control byte was wrong: "halted" at the assert, or
                 \* "shifted" in a build without asserts

sender == <<sends, place, escape, clash>>
uart == <<fifo, lost>>
rx_work == <<running, claim, done>>
decoder == <<rx_buffer, crc, next_escaped, delivered, alarm>>
vars == <<sender, uart, ring, get, queued, rx_work, decoder>>

\* Threads between two frames are at place 0, and at Length + 1 they have
\* the closing flag to send.
Idle == 0

\* The place of the control byte, behind the address.
Control == 2

Init ==
  /\ sends = <<>>
  /\ place = [t \in Threads |-> Idle] /\ escape = [t \in Threads |-> FALSE]
  /\ clash = FALSE
  /\ fifo = <<>> /\ lost = 0
  /\ ring = <<>> /\ get = 0
  /\ queued = FALSE /\ running = FALSE /\ claim = 0 /\ done = 0
  /\ rx_buffer = <<>> /\ crc = <<>> /\ next_escaped = FALSE
  /\ delivered = <<>> /\ alarm = "no"

Flag == <<"flag">>
Esc == <<"esc">>
Frame(t, n) == <<t, n>>
Byte(f, i, value) == <<f, i, value>>
Whole(f) == [i \in 1..Length |-> Byte(f, i, TRUE)]

SentBy(t) == Cardinality({i \in DOMAIN sends : sends[i][1] = t})

-----------------------------------------------------------------------------
(* hdlc_block_send_sync, uart_poll_out_crc                                 *)

\* The UART that receives has no flow control: with its FIFO full the symbol
\* is lost.
PollOut(symbol) ==
  \/ /\ Len(fifo) < Fifo
     /\ fifo' = Append(fifo, symbol)
     /\ UNCHANGED lost
  \/ /\ Len(fifo) = Fifo /\ lost < MaxLost /\ (clash => lost < MaxTorn)
     /\ lost' = lost + 1
     /\ UNCHANGED fifo

SendStart(t) ==
  /\ place[t] = Idle /\ Len(sends) < Frames
  /\ PollOut(Flag)
  /\ sends' = Append(sends, Frame(t, SentBy(t) + 1))
  /\ place' = [place EXCEPT ![t] = 1]
  /\ clash' = (clash \/ \E u \in Threads : place[u] # Idle)
  /\ UNCHANGED <<escape, ring, get, queued, rx_work, decoder>>

SendEscape(t) ==
  /\ place[t] \in Escaped /\ ~escape[t]
  /\ PollOut(Esc)
  /\ escape' = [escape EXCEPT ![t] = TRUE]
  /\ UNCHANGED <<sends, place, clash, ring, get, queued, rx_work, decoder>>

SendByte(t) ==
  /\ place[t] \in 1..Length /\ (place[t] \in Escaped => escape[t])
  /\ PollOut(Byte(Frame(t, SentBy(t)), place[t], ~escape[t]))
  /\ place' = [place EXCEPT ![t] = @ + 1]
  /\ escape' = [escape EXCEPT ![t] = FALSE]
  /\ UNCHANGED <<sends, clash, ring, get, queued, rx_work, decoder>>

SendEnd(t) ==
  /\ place[t] = Length + 1
  /\ PollOut(Flag)
  /\ place' = [place EXCEPT ![t] = Idle]
  /\ UNCHANGED <<sends, escape, clash, ring, get, queued, rx_work, decoder>>

-----------------------------------------------------------------------------
(* serial_callback with hdlc_rx_start and hdlc_rx_finish                   *)

Smaller(m, n) == IF m <= n THEN m ELSE n

\* The ring gives out contiguous memory only: free space and data both end
\* at the end of the array.
PutClaim == Smaller(Size - Len(ring), Size - ((get + Len(ring)) % Size))
GetClaim == Smaller(Len(ring), Size - get)

\* Mutant: the work is submitted when the ring was empty only.
SubmitIfEmpty(n) ==
  /\ alarm # "halted"
  /\ n \in 1..Smaller(PutClaim, Len(fifo))
  /\ ring' = ring \o SubSeq(fifo, 1, n)
  /\ fifo' = SubSeq(fifo, n + 1, Len(fifo))
  /\ queued' = (queued \/ ring = <<>>)
  /\ UNCHANGED <<sender, lost, get, rx_work, decoder>>

\* The interrupt reads what has arrived and fits; with the ring full it
\* returns (and nothing changes).  Submitting a queued work does nothing.
Receive(n) ==
  /\ alarm # "halted"
  /\ n \in 1..Smaller(PutClaim, Len(fifo))
  /\ ring' = ring \o SubSeq(fifo, 1, n)
  /\ fifo' = SubSeq(fifo, n + 1, Len(fifo))
  /\ queued' = TRUE
  /\ UNCHANGED <<sender, lost, get, rx_work, decoder>>

-----------------------------------------------------------------------------
(* hdlc_rx_handler on the system work queue                                *)

RxStart ==
  /\ queued /\ ~running /\ alarm # "halted"
  /\ queued' = FALSE /\ running' = TRUE
  /\ claim' = GetClaim /\ done' = 0
  /\ UNCHANGED <<sender, uart, ring, get, decoder>>

\* hdlc_process_frame_cb: what it does with the message is GreybusCore's.  It
\* is given the buffer from its third byte on, and the first as the address.
HandUp == delivered' = Append(delivered, rx_buffer)

ChecksumFits == \E t \in Threads, n \in 1..Frames : crc = Whole(Frame(t, n))

\* Mutant: a frame that is dropped stays in the buffer.
KeepDropped ==
  /\ next_escaped' = next_escaped
  /\ IF ChecksumFits
     THEN /\ HandUp
          /\ rx_buffer' = <<>> /\ crc' = <<>>
     ELSE UNCHANGED <<rx_buffer, crc, delivered>>
  /\ UNCHANGED alarm

\* A buffer whose checksum fits has the control byte in its place, or else
\* the assert halts the device, or, in a build without asserts, the buffer is
\* handed up as it is.
Dispatch ==
  IF rx_buffer[2][2] = Control
  THEN HandUp /\ UNCHANGED alarm
  ELSE \/ alarm' = "halted" /\ UNCHANGED delivered
       \/ alarm' = "shifted" /\ HandUp

\* The buffer is handed up when the checksum fits, and dropped otherwise.
\* An escape before the flag is not forgotten.
ProcessFrame ==
  /\ IF ChecksumFits THEN Dispatch ELSE UNCHANGED <<delivered, alarm>>
  /\ rx_buffer' = <<>> /\ crc' = <<>>
  /\ UNCHANGED next_escaped

\* A full buffer is thrown away; the checksum then misses the byte saved.
SaveByte(byte) ==
  IF Len(rx_buffer) = Size
    THEN rx_buffer' = <<byte>> /\ crc' = <<>>
    ELSE rx_buffer' = Append(rx_buffer, byte) /\ crc' = Append(crc, byte)

\* Mutant: the escape is not undone.
InputKeepsEscape(symbol) ==
  \/ /\ symbol = Flag
     /\ IF rx_buffer # <<>> THEN ProcessFrame ELSE UNCHANGED decoder
  \/ /\ symbol = Esc
     /\ next_escaped' = TRUE
     /\ UNCHANGED <<rx_buffer, crc, delivered, alarm>>
  \/ /\ symbol \notin {Flag, Esc}
     /\ SaveByte(symbol)
     /\ next_escaped' = FALSE
     /\ UNCHANGED <<delivered, alarm>>

InputByte(symbol) ==
  \/ /\ symbol = Flag
     /\ IF rx_buffer # <<>> THEN ProcessFrame ELSE UNCHANGED decoder
  \/ /\ symbol = Esc
     /\ next_escaped' = TRUE
     /\ UNCHANGED <<rx_buffer, crc, delivered, alarm>>
  \/ /\ symbol \notin {Flag, Esc}
     /\ SaveByte(IF next_escaped THEN [symbol EXCEPT ![3] = ~@] ELSE symbol)
     /\ next_escaped' = FALSE
     /\ UNCHANGED <<delivered, alarm>>

RxByte ==
  /\ running /\ done < claim /\ alarm # "halted"
  /\ InputByte(ring[done + 1])
  /\ done' = done + 1
  /\ UNCHANGED <<sender, uart, ring, get, queued, running, claim>>

RxFinish ==
  /\ running /\ done = claim /\ alarm # "halted"
  /\ ring' = SubSeq(ring, claim + 1, Len(ring))
  /\ get' = (get + claim) % Size
  /\ running' = FALSE /\ claim' = 0 /\ done' = 0
  /\ UNCHANGED <<sender, uart, queued, decoder>>

-----------------------------------------------------------------------------
Send == \E t \in Threads : SendStart(t) \/ SendEscape(t) \/ SendByte(t) \/ SendEnd(t)
Interrupt == \E n \in 1..Fifo : Receive(n)
Handler == RxStart \/ RxByte \/ RxFinish

Next == Send \/ Interrupt \/ Handler

SafeSpec == Init /\ [][Next]_vars

\* Interrupts are served and the system work queue runs.
Spec == SafeSpec /\ WF_vars(Interrupt) /\ WF_vars(Handler)

-----------------------------------------------------------------------------
(* Properties *)

Bytes == {Byte(Frame(t, n), i, v) : t \in Threads, n \in 1..Frames, i \in 1..Length, v \in BOOLEAN}
Symbols == Bytes \union {Flag, Esc}

TypeOK ==
  /\ place \in [Threads -> 0..Length + 1] /\ escape \in [Threads -> BOOLEAN]
  /\ clash \in BOOLEAN
  /\ fifo \in Seq(Symbols) /\ Len(fifo) <= Fifo /\ lost \in 0..MaxLost
  /\ ring \in Seq(Symbols) /\ Len(ring) <= Size /\ get \in 0..Size - 1
  /\ queued \in BOOLEAN /\ running \in BOOLEAN
  /\ claim \in 0..Size /\ done \in 0..claim /\ claim <= Len(ring)
  /\ rx_buffer \in Seq(Bytes) /\ Len(rx_buffer) <= Size
  /\ crc \in Seq(Bytes) /\ next_escaped \in BOOLEAN
  /\ alarm \in {"no", "halted", "shifted"}

(***************************************************************************)
(* A full ring is always about to be drained.  If it were not, the         *)
(* interrupt would find no space, would not submit the work, and nothing   *)
(* would be received any more.                                             *)
(***************************************************************************)
NeverWedged == Len(ring) = Size => queued \/ running

(***************************************************************************)
(* The work leaves bytes behind only where the ring wraps: it takes one    *)
(* contiguous piece, and what arrives after its claim submits it again.    *)
(***************************************************************************)
LeftAtTheWrap == ring # <<>> /\ ~queued /\ ~running => get = 0

Unread == SubSeq(ring, done + 1, Len(ring)) \o fifo
Flags(s) == Cardinality({i \in DOMAIN s : s[i] = Flag})
SentFlags ==
  2 * Len(sends) - Cardinality({t \in Threads : place[t] # Idle})

(***************************************************************************)
(* Without an overrun, and when no two threads send at the same time, the  *)
(* frames are handed up whole, in order and as soon as their closing flag  *)
(* is read: neither the ring nor the decoder loses or mixes anything.      *)
(***************************************************************************)
NothingElseLost ==
  lost = 0 /\ ~clash =>
    delivered = [i \in 1..((SentFlags - Flags(Unread)) \div 2) |-> Whole(sends[i])]

HandedInOrder ==
  \E g \in [DOMAIN delivered -> DOMAIN sends] :
    /\ \A i, j \in DOMAIN g : i < j => g[i] < g[j]
    /\ \A i \in DOMAIN g : delivered[i] = Whole(sends[g[i]])

(***************************************************************************)
(* The receiver finds back: what is handed up, whatever is lost, are       *)
(* frames that were sent, whole, in their order and each once, and one     *)
(* lost symbol costs two of them at most.  The exception takes four lost   *)
(* symbols at least, the flags around two frame borders: the buffer then   *)
(* overflows with the last byte before a whole frame, the checksum fits,   *)
(* and the assert on the control byte (hdlc.c:78) fails.                   *)
(***************************************************************************)
Resync ==
  ~clash =>
    /\ alarm # "no" => lost >= 4
    /\ alarm = "no" =>
         /\ HandedInOrder
         /\ Unread = <<>> /\ (\A t \in Threads : place[t] = Idle) =>
              Len(delivered) + 2 * lost >= Len(sends)

(***************************************************************************)
(* Reception goes on: what the UART holds is taken in the end, unless the  *)
(* device halts.                                                           *)
(***************************************************************************)
ReceptionResumes == fifo # <<>> ~> fifo = <<>> \/ alarm = "halted"
=============================================================================
