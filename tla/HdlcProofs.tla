----------------------------- MODULE HdlcProofs -----------------------------
(***************************************************************************)
(* Theorems about the receive ring and the decoder of Hdlc, for a ring of  *)
(* any size, any number of senders and frames of any length.               *)
(***************************************************************************)
EXTENDS Hdlc, FiniteSetTheorems, FunctionTheorems, SequenceTheorems, TLAPS

\* What can be on the line, without the bound on the frames.
Line == {Byte(Frame(t, n), i, v) : t \in Threads, n \in Nat, i \in 1..Length, v \in BOOLEAN}
          \union {Flag, Esc}

SenderOK ==
  /\ sends \in Seq(Threads \X Nat)
  /\ place \in [Threads -> 0..Length + 1]
  /\ escape \in [Threads -> BOOLEAN]
  /\ fifo \in Seq(Line)

RingOK ==
  /\ ring \in Seq(Line) /\ Len(ring) <= Size
  /\ get \in 0..Size - 1
  /\ queued \in BOOLEAN /\ running \in BOOLEAN
  /\ claim \in 0..Len(ring)

(***************************************************************************)
(* Nobody is about to run the work only if the last run left nothing, or   *)
(* left bytes that had wrapped: then it has freed memory, too.             *)
(***************************************************************************)
Claimed ==
  /\ running => get + claim <= Size
  /\ running /\ ~queued => claim = Len(ring) \/ get + claim = Size
  /\ ~running => claim = 0
  /\ ~running /\ ~queued /\ ring # <<>> => get = 0 /\ Len(ring) < Size

IInv == SenderOK /\ RingOK /\ Claimed

LEMMA InitIInv == Init => IInv
<1> SUFFICES ASSUME Init PROVE IInv
  OBVIOUS
<1> USE HdlcAssumption DEF Init
<1>1. SenderOK
  <2>1. 0 \in 0..Length + 1
    OBVIOUS
  <2> QED
    BY <2>1 DEF SenderOK, Idle
<1>2. <<>> \in Seq(Line) /\ Len(<<>>) = 0 /\ 0 \in 0..Size - 1 /\ 0 \in 0..0
  BY EmptySeq
<1>3. RingOK
  <2>1. Len(ring) = 0 /\ ring \in Seq(Line)
    BY <1>2
  <2>2. queued \in BOOLEAN /\ running \in BOOLEAN
    OBVIOUS
  <2>3. Len(ring) <= Size /\ claim \in 0..Len(ring) /\ get \in 0..Size - 1
    BY <1>2, <2>1
  <2> QED
    BY <2>1, <2>2, <2>3 DEF RingOK
<1>4. Claimed
  BY DEF Claimed
<1> QED
  BY <1>1, <1>3, <1>4 DEF IInv

LEMMA SentByNat ==
  ASSUME SenderOK, NEW t \in Threads
  PROVE  SentBy(t) \in Nat
<1>1. DOMAIN sends = 1..Len(sends) /\ Len(sends) \in Nat
  BY DEF SenderOK
<1>2. IsFiniteSet(1..Len(sends))
  BY <1>1, FS_Interval
<1>3. {i \in DOMAIN sends : sends[i][1] = t} \subseteq 1..Len(sends)
  BY <1>1
<1>4. IsFiniteSet({i \in DOMAIN sends : sends[i][1] = t})
  BY <1>2, <1>3, FS_Subset
<1> QED
  BY <1>4, FS_CardinalityType DEF SentBy

(***************************************************************************)
(* Whatever is polled out, the UART holds symbols.                         *)
(***************************************************************************)
LEMMA PollOutOK ==
  ASSUME SenderOK, NEW s \in Line, PollOut(s)
  PROVE  fifo' \in Seq(Line)
<1>1. fifo \in Seq(Line)
  BY DEF SenderOK
<1>2. Append(fifo, s) \in Seq(Line)
  BY <1>1, AppendProperties
<1> QED
  BY <1>1, <1>2 DEF PollOut

LEMMA SendIInv ==
  ASSUME IInv, Send
  PROVE  IInv'
<1> USE HdlcAssumption
<1>1. UNCHANGED <<ring, get, queued, running, claim>>
  BY DEF Send, SendStart, SendEscape, SendByte, SendEnd, rx_work
<1>2. RingOK' /\ Claimed'
  BY <1>1 DEF IInv, RingOK, Claimed
<1>3. SenderOK'
  <2>1. PICK t \in Threads : SendStart(t) \/ SendEscape(t) \/ SendByte(t) \/ SendEnd(t)
    BY DEF Send
  <2>2. SenderOK /\ SentBy(t) \in Nat
    BY SentByNat DEF IInv
  <2>3. Flag \in Line /\ Esc \in Line
    BY DEF Line
  <2>4. CASE SendStart(t)
    <3>1. fifo' \in Seq(Line)
      BY <2>2, <2>3, <2>4, PollOutOK DEF SendStart
    <3>2. Frame(t, SentBy(t) + 1) \in Threads \X Nat
      BY <2>2 DEF Frame
    <3>3. sends' \in Seq(Threads \X Nat)
      BY <2>2, <2>4, <3>2 DEF SendStart, SenderOK
    <3>4. place' \in [Threads -> 0..Length + 1]
      BY <2>2, <2>4 DEF SendStart, SenderOK
    <3> QED
      BY <2>2, <2>4, <3>1, <3>3, <3>4 DEF SendStart, SenderOK
  <2>5. CASE SendEscape(t)
    <3>1. fifo' \in Seq(Line)
      BY <2>2, <2>3, <2>5, PollOutOK DEF SendEscape
    <3> QED
      BY <2>2, <2>5, <3>1 DEF SendEscape, SenderOK
  <2>6. CASE SendByte(t)
    <3>1. place[t] \in 1..Length
      BY <2>6 DEF SendByte
    <3>2. Byte(Frame(t, SentBy(t)), place[t], ~escape[t]) \in Line
      <4> DEFINE v == ~escape[t]
      <4>1. v \in BOOLEAN
        OBVIOUS
      <4> HIDE DEF v
      <4>2. Byte(Frame(t, SentBy(t)), place[t], v) \in Line
        BY <2>2, <3>1, <4>1 DEF Line
      <4> QED
        BY <4>2 DEF v
    <3>3. fifo' \in Seq(Line)
      BY <2>2, <2>6, <3>2, PollOutOK DEF SendByte
    <3>4. place' \in [Threads -> 0..Length + 1]
      BY <2>2, <2>6, <3>1 DEF SendByte, SenderOK
    <3> QED
      BY <2>2, <2>6, <3>3, <3>4 DEF SendByte, SenderOK
  <2>7. CASE SendEnd(t)
    <3>1. fifo' \in Seq(Line)
      BY <2>2, <2>3, <2>7, PollOutOK DEF SendEnd
    <3>2. place' \in [Threads -> 0..Length + 1]
      BY <2>2, <2>7 DEF SendEnd, SenderOK, Idle
    <3> QED
      BY <2>2, <2>7, <3>1, <3>2 DEF SendEnd, SenderOK
  <2> QED
    BY <2>1, <2>4, <2>5, <2>6, <2>7
<1> QED
  BY <1>2, <1>3 DEF IInv

(***************************************************************************)
(* The interrupt puts what fits, and submits the work.                     *)
(***************************************************************************)
LEMMA ReceiveIInv ==
  ASSUME IInv, NEW n \in 1..Fifo, Receive(n)
  PROVE  IInv'
<1> USE HdlcAssumption
<1>1. fifo \in Seq(Line) /\ ring \in Seq(Line) /\ Len(ring) <= Size
  BY DEF IInv, SenderOK, RingOK
<1>2. Len(ring) \in Nat /\ Len(fifo) \in Nat /\ n \in Nat /\ n >= 1
  BY <1>1
<1>3. n <= Len(fifo) /\ n <= Size - Len(ring)
  BY <1>2 DEF Receive, PutClaim, Smaller, IInv, RingOK
<1>4. SubSeq(fifo, 1, n) \in Seq(Line) /\ Len(SubSeq(fifo, 1, n)) = n
  BY <1>1, <1>2, <1>3, SubSeqProperties
<1>5. SubSeq(fifo, n + 1, Len(fifo)) \in Seq(Line)
  BY <1>1, <1>2, <1>3, SubSeqProperties
<1>6. ring' \in Seq(Line) /\ Len(ring') = Len(ring) + n
  BY <1>1, <1>4, ConcatProperties DEF Receive
<1>7. SenderOK'
  BY <1>5 DEF IInv, SenderOK, Receive, sender
<1>8. UNCHANGED <<get, running, claim>> /\ queued' = TRUE
  BY DEF Receive, rx_work
<1>9. RingOK' /\ Claimed'
  BY <1>2, <1>3, <1>6, <1>8 DEF IInv, RingOK, Claimed
<1> QED
  BY <1>7, <1>9 DEF IInv

LEMMA RxStartIInv ==
  ASSUME IInv, RxStart
  PROVE  IInv'
<1> USE HdlcAssumption
<1>1. SenderOK'
  BY DEF IInv, SenderOK, RxStart, sender, uart
<1>2. UNCHANGED <<ring, get>> /\ queued' = FALSE /\ running' = TRUE /\ claim' = GetClaim
  BY DEF RxStart
<1>3. Len(ring) \in Nat /\ Len(ring) <= Size /\ get \in 0..Size - 1
  BY DEF IInv, RingOK
<1>4. claim' \in 0..Len(ring) /\ get + claim' <= Size
      /\ (claim' = Len(ring) \/ get + claim' = Size)
  BY <1>2, <1>3 DEF GetClaim, Smaller
<1>5. RingOK' /\ Claimed'
  BY <1>2, <1>3, <1>4 DEF IInv, RingOK, Claimed
<1> QED
  BY <1>1, <1>5 DEF IInv

LEMMA RxByteIInv ==
  ASSUME IInv, RxByte
  PROVE  IInv'
<1>1. UNCHANGED <<sender, fifo, ring, get, queued, running, claim>>
  BY DEF RxByte, uart
<1> QED
  BY <1>1 DEF IInv, SenderOK, RingOK, Claimed, sender

(***************************************************************************)
(* A finished run has freed its claim, and another is due for what came    *)
(* after it unless that wrapped.                                           *)
(***************************************************************************)
LEMMA RxFinishIInv ==
  ASSUME IInv, RxFinish
  PROVE  IInv'
<1> USE HdlcAssumption
<1>1. SenderOK'
  BY DEF IInv, SenderOK, RxFinish, sender, uart
<1>2. ring \in Seq(Line) /\ Len(ring) \in Nat /\ claim \in 0..Len(ring) /\ Len(ring) <= Size
      /\ get \in 0..Size - 1
  BY DEF IInv, RingOK
<1>3. running /\ get + claim <= Size
  BY DEF IInv, Claimed, RxFinish
<1>4. ring' \in Seq(Line) /\ Len(ring') = Len(ring) - claim
  <2>1. ring' = SubSeq(ring, claim + 1, Len(ring))
    BY DEF RxFinish
  <2> QED
    BY <1>2, <2>1, SubSeqProperties
<1>5. get' = IF get + claim = Size THEN 0 ELSE get + claim
  <2>1. get' = (get + claim) % Size
    BY DEF RxFinish
  <2> QED
    BY <1>2, <1>3, <2>1
<1>6. queued' = queued /\ running' = FALSE /\ claim' = 0
  BY DEF RxFinish
<1>7. RingOK'
  <2>1. get' \in 0..Size - 1
    BY <1>2, <1>3, <1>5
  <2>2. queued' \in BOOLEAN /\ running' \in BOOLEAN
    BY <1>6 DEF IInv, RingOK
  <2>3. Len(ring') <= Size /\ claim' \in 0..Len(ring')
    BY <1>2, <1>4, <1>6
  <2> QED
    BY <1>4, <2>1, <2>2, <2>3 DEF RingOK
<1>8. ~queued /\ ring' # <<>> => get' = 0 /\ Len(ring') < Size
  <2>1. ASSUME ~queued, ring' # <<>>
        PROVE  get + claim = Size
    <3>1. Len(ring') # 0
      BY <1>4, <2>1, EmptySeq
    <3> QED
      BY <1>2, <1>3, <1>4, <2>1, <3>1 DEF IInv, Claimed
  <2> QED
    BY <1>2, <1>4, <1>5, <2>1
<1>9. Claimed'
  BY <1>6, <1>8 DEF Claimed
<1> QED
  BY <1>1, <1>7, <1>9 DEF IInv

(***************************************************************************)
(* The ring is consistent in every reachable state.                        *)
(***************************************************************************)
THEOREM Invariance == SafeSpec => []IInv
<1>1. Init => IInv
  BY InitIInv
<1>2. IInv /\ [Next]_vars => IInv'
  <2>1. ASSUME IInv, UNCHANGED vars
        PROVE  IInv'
    BY <2>1 DEF IInv, SenderOK, RingOK, Claimed, vars, sender, uart, rx_work
  <2> QED
    BY <2>1, SendIInv, ReceiveIInv, RxStartIInv, RxByteIInv, RxFinishIInv
       DEF Next, Interrupt, Handler
<1> QED
  BY <1>1, <1>2, PTL DEF SafeSpec

(***************************************************************************)
(* The receiver never wedges: a full ring has the work queued or running   *)
(* (hdlc_rx_start returns 0 and serial_callback submits nothing then).     *)
(***************************************************************************)
THEOREM RingNeverWedged == SafeSpec => []NeverWedged
<1>1. IInv => NeverWedged
  BY HdlcAssumption, EmptySeq DEF IInv, RingOK, Claimed, NeverWedged
<1> QED
  BY <1>1, Invariance, PTL

(***************************************************************************)
(* hdlc_rx_handler leaves bytes without a run to come only at index 0,     *)
(* where its claim could not reach.                                        *)
(***************************************************************************)
THEOREM OnlyWrappedBytesWait == SafeSpec => []LeftAtTheWrap
<1>1. IInv => LeftAtTheWrap
  BY DEF IInv, Claimed, LeftAtTheWrap
<1> QED
  BY <1>1, Invariance, PTL

-----------------------------------------------------------------------------
(* The types of the whole link *)

\* A thread in the middle of a frame has begun it.
Begun ==
  /\ Len(sends) <= Frames
  /\ \A t \in Threads : place[t] # Idle => \E i \in DOMAIN sends : sends[i][1] = t

LEMMA SentByBound ==
  ASSUME SenderOK, Begun, NEW t \in Threads, place[t] # Idle
  PROVE  SentBy(t) \in 1..Frames
<1> USE HdlcAssumption
<1> DEFINE mine == {i \in DOMAIN sends : sends[i][1] = t}
<1>1. DOMAIN sends = 1..Len(sends) /\ Len(sends) \in Nat /\ Len(sends) <= Frames
  BY DEF SenderOK, Begun
<1>2. IsFiniteSet(1..Len(sends)) /\ Cardinality(1..Len(sends)) = Len(sends)
  <2> DEFINE k == Len(sends)
  <2>1. 1 \in Int /\ k \in Int /\ k \in Nat
    BY <1>1
  <2> HIDE DEF k
  <2>2. /\ IsFiniteSet(1..k)
        /\ Cardinality(1..k) = IF 1 > k THEN 0 ELSE k - 1 + 1
    BY <2>1, FS_Interval
  <2>3. Cardinality(1..k) = k
    BY <2>1, <2>2
  <2> QED
    BY <2>2, <2>3 DEF k
<1>3. mine \subseteq 1..Len(sends)
  BY <1>1
<1>4. IsFiniteSet(mine) /\ Cardinality(mine) <= Len(sends)
  BY <1>2, <1>3, FS_Subset
<1>5. mine # {}
  BY DEF Begun
<1>6. Cardinality(mine) \in Nat /\ Cardinality(mine) # 0
  BY <1>4, <1>5, FS_CardinalityType, FS_EmptySet
<1> QED
  BY <1>1, <1>4, <1>6 DEF SentBy

LEMMA PollOutTyped ==
  ASSUME TypeOK, NEW s \in Symbols, PollOut(s)
  PROVE  fifo' \in Seq(Symbols) /\ Len(fifo') <= Fifo /\ lost' \in 0..MaxLost
<1> USE HdlcAssumption
<1>1. fifo \in Seq(Symbols) /\ Len(fifo) <= Fifo /\ lost \in 0..MaxLost
  BY DEF TypeOK
<1>2. Append(fifo, s) \in Seq(Symbols) /\ Len(Append(fifo, s)) = Len(fifo) + 1
  BY <1>1, AppendProperties
<1>3. CASE Len(fifo) < Fifo /\ fifo' = Append(fifo, s) /\ UNCHANGED lost
  BY <1>1, <1>2, <1>3
<1>4. CASE lost < MaxLost /\ lost' = lost + 1 /\ UNCHANGED fifo
  BY <1>1, <1>4
<1> QED
  BY <1>3, <1>4 DEF PollOut

DecoderOK ==
  /\ rx_buffer \in Seq(Bytes) /\ Len(rx_buffer) <= Size
  /\ crc \in Seq(Bytes) /\ next_escaped \in BOOLEAN
  /\ alarm \in {"no", "halted", "shifted"}

\* What a byte is, escaped or not.
LEMMA ToggledByte ==
  ASSUME NEW b \in Bytes
  PROVE  [b EXCEPT ![3] = ~@] \in Bytes
<1>1. PICK t \in Threads, n \in 1..Frames, i \in 1..Length, v \in BOOLEAN :
        b = Byte(Frame(t, n), i, v)
  BY DEF Bytes
<1> DEFINE f == Frame(t, n)
           w == ~v
<1>2. Byte(f, i, w) \in Bytes
  <2>1. w \in BOOLEAN
    OBVIOUS
  <2> HIDE DEF w
  <2> QED
    BY <2>1 DEF Bytes
<1>3. [b EXCEPT ![3] = ~@] = Byte(f, i, w)
  <2> HIDE DEF f
  <2> QED
    BY <1>1 DEF Byte, f
<1> QED
  BY <1>2, <1>3

LEMMA SaveByteTyped ==
  ASSUME DecoderOK, NEW b \in Bytes, SaveByte(b)
  PROVE  rx_buffer' \in Seq(Bytes) /\ Len(rx_buffer') <= Size /\ crc' \in Seq(Bytes)
<1> USE HdlcAssumption
<1>1. Len(rx_buffer) \in Nat /\ rx_buffer \in Seq(Bytes) /\ crc \in Seq(Bytes)
  BY DEF DecoderOK
<1>2. CASE Len(rx_buffer) = Size
  <2>1. rx_buffer' = <<b>> /\ crc' = <<>>
    BY <1>2 DEF SaveByte
  <2>2. <<b>> \in Seq(Bytes) /\ Len(<<b>>) = 1 /\ <<>> \in Seq(Bytes)
    BY EmptySeq
  <2> QED
    BY <2>1, <2>2
<1>3. CASE Len(rx_buffer) # Size
  <2>1. rx_buffer' = Append(rx_buffer, b) /\ crc' = Append(crc, b)
    BY <1>3 DEF SaveByte
  <2>2. Append(rx_buffer, b) \in Seq(Bytes) /\ Len(Append(rx_buffer, b)) = Len(rx_buffer) + 1
    BY <1>1, AppendProperties
  <2>3. Append(crc, b) \in Seq(Bytes)
    BY <1>1, AppendProperties
  <2> QED
    BY <1>1, <1>3, <2>1, <2>2, <2>3 DEF DecoderOK
<1> QED
  BY <1>2, <1>3

(***************************************************************************)
(* The decoder keeps bytes only, and no more than its buffer holds.        *)
(***************************************************************************)
LEMMA InputByteTyped ==
  ASSUME DecoderOK, NEW symbol \in Symbols, InputByte(symbol)
  PROVE  DecoderOK'
<1> USE HdlcAssumption
<1>1. <<>> \in Seq(Bytes) /\ Len(<<>>) = 0
  BY EmptySeq
<1>2. CASE symbol = Flag /\ (IF rx_buffer # <<>> THEN ProcessFrame ELSE UNCHANGED decoder)
  <2>1. CASE ProcessFrame
    <3>1. rx_buffer' = <<>> /\ crc' = <<>> /\ UNCHANGED next_escaped
      BY <2>1 DEF ProcessFrame
    <3>2. alarm' \in {alarm, "halted", "shifted"}
      BY <2>1 DEF ProcessFrame, Dispatch
    <3> QED
      BY <1>1, <3>1, <3>2 DEF DecoderOK
  <2>2. CASE UNCHANGED decoder
    BY <2>2 DEF decoder, DecoderOK
  <2> QED
    BY <1>2, <2>1, <2>2
<1>3. CASE next_escaped' = TRUE /\ UNCHANGED <<rx_buffer, crc, delivered, alarm>>
  BY <1>3 DEF DecoderOK
<1>4. CASE /\ symbol \notin {Flag, Esc}
           /\ SaveByte(IF next_escaped THEN [symbol EXCEPT ![3] = ~@] ELSE symbol)
           /\ next_escaped' = FALSE /\ UNCHANGED alarm
  <2>1. symbol \in Bytes
    BY <1>4 DEF Symbols
  <2>2. [symbol EXCEPT ![3] = ~@] \in Bytes
    BY <2>1, ToggledByte
  <2>3. PICK b \in Bytes : SaveByte(b)
    <3>1. CASE next_escaped
      BY <1>4, <2>2, <3>1
    <3>2. CASE ~next_escaped
      BY <1>4, <2>1, <3>2
    <3> QED
      BY <3>1, <3>2
  <2>4. rx_buffer' \in Seq(Bytes) /\ Len(rx_buffer') <= Size /\ crc' \in Seq(Bytes)
    BY <2>3, SaveByteTyped
  <2> QED
    BY <1>4, <2>4 DEF DecoderOK
<1> QED
  BY <1>2, <1>3, <1>4 DEF InputByte

TInv == TypeOK /\ Begun

\* The parts of TypeOK that IInv does not state.
Rest ==
  /\ clash \in BOOLEAN
  /\ fifo \in Seq(Symbols) /\ Len(fifo) <= Fifo /\ lost \in 0..MaxLost
  /\ ring \in Seq(Symbols)
  /\ done \in 0..claim
  /\ DecoderOK

LEMMA RestIsAll == IInv /\ Rest => TypeOK
<1> SUFFICES ASSUME IInv, Rest PROVE TypeOK
  OBVIOUS
<1> USE HdlcAssumption
<1>1. place \in [Threads -> 0..Length + 1] /\ escape \in [Threads -> BOOLEAN]
  BY DEF IInv, SenderOK
<1>2. /\ Len(ring) <= Size /\ get \in 0..Size - 1 /\ queued \in BOOLEAN /\ running \in BOOLEAN
      /\ claim \in 0..Size /\ claim <= Len(ring)
  BY DEF IInv, RingOK
<1> QED
  BY <1>1, <1>2 DEF Rest, DecoderOK, TypeOK

LEMMA SendTInv ==
  ASSUME IInv, TInv, Send
  PROVE  Rest' /\ Begun'
<1> USE HdlcAssumption
<1>1. PICK t \in Threads : SendStart(t) \/ SendEscape(t) \/ SendByte(t) \/ SendEnd(t)
  BY DEF Send
<1>2. UNCHANGED <<ring, claim, done, rx_buffer, crc, next_escaped, alarm>>
  BY <1>1 DEF SendStart, SendEscape, SendByte, SendEnd, rx_work, decoder
<1>3. /\ sends \in Seq(Threads \X Nat) /\ place \in [Threads -> 0..Length + 1]
      /\ Len(sends) <= Frames /\ Len(sends) \in Nat
  BY DEF IInv, SenderOK, TInv, Begun
<1>4. Flag \in Symbols /\ Esc \in Symbols
  BY DEF Symbols
<1>5. /\ fifo' \in Seq(Symbols) /\ Len(fifo') <= Fifo /\ lost' \in 0..MaxLost
  <2>1. PICK s \in Symbols : PollOut(s)
    <3>1. CASE SendByte(t)
      <4>1. place[t] \in 1..Length
        BY <3>1 DEF SendByte
      <4>2. SentBy(t) \in 1..Frames
        BY <4>1, SentByBound DEF IInv, TInv, Idle
      <4> DEFINE v == ~escape[t]
      <4>3. v \in BOOLEAN
        OBVIOUS
      <4>4. Byte(Frame(t, SentBy(t)), place[t], v) \in Bytes
        <5> HIDE DEF v
        <5> QED
          BY <4>1, <4>2, <4>3 DEF Bytes
      <4> QED
        BY <3>1, <4>4 DEF SendByte, Symbols
    <3>2. CASE SendStart(t) \/ SendEscape(t) \/ SendEnd(t)
      BY <1>4, <3>2 DEF SendStart, SendEscape, SendEnd
    <3> QED
      BY <1>1, <3>1, <3>2
  <2> QED
    BY <2>1, PollOutTyped DEF TInv
<1>6. clash' \in BOOLEAN
  <2>1. clash \in BOOLEAN
    BY DEF TInv, TypeOK
  <2>2. CASE SendStart(t)
    BY <2>2 DEF SendStart
  <2>3. CASE SendEscape(t) \/ SendByte(t) \/ SendEnd(t)
    BY <2>1, <2>3 DEF SendEscape, SendByte, SendEnd
  <2> QED
    BY <1>1, <2>2, <2>3
<1>7. Rest'
  BY <1>2, <1>5, <1>6 DEF TInv, TypeOK, Rest, DecoderOK
<1>8. Begun'
  <2>1. CASE SendStart(t)
    <3>1. sends' = Append(sends, Frame(t, SentBy(t) + 1)) /\ Len(sends) < Frames
      BY <2>1 DEF SendStart
    <3>2. Frame(t, SentBy(t) + 1) \in Threads \X Nat
      BY SentByNat DEF Frame, IInv
    <3>3. /\ Len(sends') = Len(sends) + 1
          /\ \A i \in 1..Len(sends) : sends'[i] = sends[i]
          /\ sends'[Len(sends) + 1] = Frame(t, SentBy(t) + 1)
          /\ DOMAIN sends' = 1..Len(sends) + 1 /\ DOMAIN sends = 1..Len(sends)
      BY <1>3, <3>1, <3>2, AppendProperties
    <3>4. ASSUME NEW u \in Threads, place'[u] # Idle
          PROVE  \E i \in DOMAIN sends' : sends'[i][1] = u
      <4>1. CASE u = t
        BY <1>3, <3>3, <4>1 DEF Frame
      <4>2. CASE u # t
        <5>1. place[u] # Idle
          BY <1>3, <2>1, <3>4, <4>2 DEF SendStart
        <5>2. PICK i \in DOMAIN sends : sends[i][1] = u
          BY <5>1 DEF TInv, Begun
        <5> QED
          BY <1>3, <3>3, <5>2
      <4> QED
        BY <4>1, <4>2
    <3> QED
      BY <1>3, <3>1, <3>3, <3>4 DEF Begun
  <2>2. CASE SendEscape(t) \/ SendByte(t) \/ SendEnd(t)
    <3>1. UNCHANGED sends
      BY <2>2 DEF SendEscape, SendByte, SendEnd
    <3>2. \A u \in Threads : place'[u] # Idle => place[u] # Idle
      BY <1>3, <2>2 DEF SendEscape, SendByte, SendEnd, Idle
    <3> QED
      BY <3>1, <3>2 DEF TInv, Begun
  <2> QED
    BY <1>1, <2>1, <2>2
<1> QED
  BY <1>7, <1>8

LEMMA ReceiverTInv ==
  ASSUME IInv, TInv, Interrupt \/ Handler
  PROVE  Rest' /\ Begun'
<1> USE HdlcAssumption
<1>1. UNCHANGED sender
  BY DEF Interrupt, Receive, Handler, RxStart, RxByte, RxFinish
<1>2. Begun' /\ clash' \in BOOLEAN
  BY <1>1 DEF sender, TInv, Begun, TypeOK
<1>3. /\ fifo \in Seq(Symbols) /\ Len(fifo) <= Fifo /\ lost \in 0..MaxLost
      /\ ring \in Seq(Symbols) /\ Len(ring) <= Size /\ claim <= Len(ring)
      /\ claim \in Nat /\ done \in 0..claim
      /\ Len(fifo) \in Nat /\ Len(ring) \in Nat
  BY DEF TInv, TypeOK
<1>4. DecoderOK
  BY DEF TInv, TypeOK, DecoderOK
<1>5. ASSUME NEW n \in 1..Fifo, Receive(n)
      PROVE  Rest'
  <2>1. n <= Len(fifo) /\ n \in Nat /\ n >= 1
    BY <1>3, <1>5 DEF Receive, PutClaim, Smaller, IInv, RingOK
  <2>2. ring' = ring \o SubSeq(fifo, 1, n) /\ fifo' = SubSeq(fifo, n + 1, Len(fifo))
    BY <1>5 DEF Receive
  <2>3. SubSeq(fifo, 1, n) \in Seq(Symbols)
    BY <1>3, <2>1, SubSeqProperties
  <2>4. fifo' \in Seq(Symbols) /\ Len(fifo') <= Fifo
    BY <1>3, <2>1, <2>2, SubSeqProperties
  <2>5. ring' \in Seq(Symbols)
    BY <1>3, <2>2, <2>3, ConcatProperties
  <2>6. UNCHANGED <<lost, claim, done, rx_buffer, crc, next_escaped, alarm>>
    BY <1>5 DEF Receive, rx_work, decoder
  <2> QED
    BY <1>2, <1>3, <1>4, <2>4, <2>5, <2>6 DEF Rest, DecoderOK
<1>6. CASE RxStart
  <2>1. UNCHANGED <<fifo, lost, ring, rx_buffer, crc, next_escaped, alarm>> /\ done' = 0
    BY <1>6 DEF RxStart, uart, decoder
  <2>2. claim' \in Nat
    BY <1>3, <1>6 DEF RxStart, GetClaim, Smaller, IInv, RingOK
  <2> QED
    BY <1>2, <1>3, <1>4, <2>1, <2>2 DEF Rest, DecoderOK
<1>7. CASE RxByte
  <2>1. UNCHANGED <<fifo, lost, ring, claim>> /\ done' = done + 1 /\ done < claim
    BY <1>7 DEF RxByte, uart
  <2>2. done + 1 \in 1..Len(ring)
    BY <1>3, <2>1
  <2>3. ring[done + 1] \in Symbols
    BY <1>3, <2>2, ElementOfSeq
  <2>4. DecoderOK'
    BY <1>4, <1>7, <2>3, InputByteTyped DEF RxByte
  <2> QED
    BY <1>2, <1>3, <2>1, <2>4 DEF Rest
<1>8. CASE RxFinish
  <2>1. UNCHANGED <<fifo, lost, rx_buffer, crc, next_escaped, alarm>> /\ claim' = 0 /\ done' = 0
    BY <1>8 DEF RxFinish, uart, decoder
  <2>2. ring' \in Seq(Symbols)
    BY <1>3, <1>8, SubSeqProperties DEF RxFinish
  <2> QED
    BY <1>2, <1>3, <1>4, <2>1, <2>2 DEF Rest, DecoderOK
<1> QED
  BY <1>2, <1>5, <1>6, <1>7, <1>8 DEF Interrupt, Handler

LEMMA NextTInv ==
  ASSUME IInv, IInv', TInv, [Next]_vars
  PROVE  TInv'
<1>1. CASE UNCHANGED vars
  BY <1>1 DEF TInv, TypeOK, Begun, vars, sender, uart, rx_work, decoder
<1>2. CASE Next
  <2>1. Rest' /\ Begun'
    BY <1>2, SendTInv, ReceiverTInv DEF Next
  <2>2. Rest' /\ IInv' => TypeOK'
    BY RestIsAll, PTL
  <2> QED
    BY <2>1, <2>2 DEF TInv
<1> QED
  BY <1>1, <1>2

LEMMA InitTInv == Init => TInv
<1> SUFFICES ASSUME Init PROVE TInv
  OBVIOUS
<1>1. IInv
  BY InitIInv
<1>2. sends = <<>> /\ \A t \in Threads : place[t] = Idle
  BY DEF Init
<1>3. Begun
  BY <1>2, HdlcAssumption DEF Begun
<1>4. Rest
  <2>1. <<>> \in Seq(Symbols) /\ <<>> \in Seq(Bytes) /\ Len(<<>>) = 0
    BY EmptySeq
  <2>2. clash \in BOOLEAN /\ next_escaped \in BOOLEAN
    BY DEF Init
  <2>3. lost \in 0..MaxLost /\ done \in 0..claim
    <3>1. lost = 0 /\ done = 0 /\ claim = 0
      BY DEF Init
    <3> QED
      BY <3>1, HdlcAssumption
  <2>4. rx_buffer \in Seq(Bytes) /\ Len(rx_buffer) <= Size /\ crc \in Seq(Bytes)
    <3>1. rx_buffer = <<>> /\ crc = <<>>
      BY DEF Init
    <3> QED
      BY <2>1, <3>1, HdlcAssumption
  <2>5. DecoderOK
    BY <2>2, <2>4 DEF Init, DecoderOK
  <2>6. fifo \in Seq(Symbols) /\ Len(fifo) <= Fifo /\ ring \in Seq(Symbols)
    BY <2>1, HdlcAssumption DEF Init
  <2> QED
    BY <2>2, <2>3, <2>6, <2>5 DEF Rest
<1> QED
  BY <1>1, <1>3, <1>4, RestIsAll DEF TInv

(***************************************************************************)
(* Types: the UART, the ring and the decoder's buffer stay within their    *)
(* sizes whatever arrives, the work is never through with more than it has *)
(* claimed, and what is saved are bytes, never a flag or an escape.        *)
(***************************************************************************)
THEOREM TypeCorrect == SafeSpec => []TypeOK
<1>1. Init => TInv
  BY InitTInv
<1>2. IInv /\ IInv' /\ TInv /\ [Next]_vars => TInv'
  BY NextTInv
<1>3. TInv => TypeOK
  BY DEF TInv
<1> QED
  BY <1>1, <1>2, <1>3, Invariance, PTL DEF SafeSpec

-----------------------------------------------------------------------------
(* The stream                                                              *)

(***************************************************************************)
(* A place in the stream of the frames fs is <<frame, byte, 1 if its       *)
(* escape is sent>>: byte 0 is the opening flag and byte Length + 1 the    *)
(* closing one.  What stands there, what comes behind it, and how many     *)
(* flags come before it.                                                   *)
(***************************************************************************)
Places == (Nat \ {0}) \X (0..Length + 1) \X {0, 1}

At(fs, p) ==
  /\ p \in Places /\ (p[3] = 1 => p[2] \in Escaped)
  /\ p[1] <= Len(fs) + (IF p[2] = 0 THEN 1 ELSE 0)

Symbol(fs, p) ==
  IF p[2] = 0 \/ p[2] = Length + 1 THEN Flag
  ELSE IF p[2] \in Escaped /\ p[3] = 0 THEN Esc
  ELSE Byte(fs[p[1]], p[2], p[3] = 0)

Following(p) ==
  IF p[2] = 0 THEN <<p[1], 1, 0>>
  ELSE IF p[2] = Length + 1 THEN <<p[1] + 1, 0, 0>>
  ELSE IF p[2] \in Escaped /\ p[3] = 0 THEN <<p[1], p[2], 1>>
  ELSE <<p[1], p[2] + 1, 0>>

FlagsBefore(p) == 2 * (p[1] - 1) + (IF p[2] = 0 THEN 0 ELSE 1)

\* The symbols s are those from place q[1] to the place at the end of q.
Linked(fs, q, s) ==
  /\ q \in Seq(Places) /\ Len(q) = Len(s) + 1
  /\ \A i \in 1..Len(q) : At(fs, q[i])
  /\ \A i \in 1..Len(s) : s[i] = Symbol(fs, q[i]) /\ q[i + 1] = Following(q[i])
Counted(q, s) == FlagsBefore(q[Len(q)]) = FlagsBefore(q[1]) + Flags(s)

\* What a receiver that has read all before p has kept and handed up.
Plain(f, i) == Byte(f, i, TRUE)
Beginning(f, n) == [i \in 1..n |-> Plain(f, i)]
Delivered(fs, n) == [i \in 1..n |-> Whole(fs[i])]

Within(p) ==
  /\ rx_buffer = Beginning(sends[p[1]], IF p[2] = 0 THEN 0 ELSE p[2] - 1)
  /\ crc = rx_buffer
  /\ next_escaped = (p[3] = 1)
DecoderAt(p) == delivered = Delivered(sends, p[1] - 1) /\ Within(p)

\* The place at which the senders are, when they take turns.
Writes(w) ==
  \/ /\ \A t \in Threads : place[t] = Idle
     /\ w = <<Len(sends) + 1, 0, 0>>
  \/ \E t \in Threads :
       /\ place[t] # Idle /\ \A u \in Threads : u # t => place[u] = Idle
       /\ sends # <<>> /\ sends[Len(sends)] = Frame(t, SentBy(t))
       /\ w = <<Len(sends), place[t], IF escape[t] THEN 1 ELSE 0>>

(***************************************************************************)
(* What is still to be read leads from the place of the receiver to that   *)
(* of the senders.                                                         *)
(***************************************************************************)
Stream ==
  \E q : /\ Linked(sends, q, Unread) /\ Counted(q, Unread)
         /\ Writes(q[Len(q)]) /\ DecoderAt(q[1])

Turns ==
  /\ ~running => done = 0
  /\ \A t \in Threads : escape[t] => place[t] \in Escaped
  /\ \A i \in 1..Len(sends) : sends[i] \in Threads \X (1..Frames)

SInv == Turns /\ (lost = 0 /\ ~clash => Stream)

-----------------------------------------------------------------------------
(* Flags                                                                   *)

LEMMA SymbolsDiffer ==
  ASSUME NEW f, NEW i, NEW v
  PROVE  Flag # Esc /\ Byte(f, i, v) # Flag /\ Byte(f, i, v) # Esc
<1>1. Len(Byte(f, i, v)) = 3 /\ Len(Flag) = 1 /\ Len(Esc) = 1
  BY DEF Byte, Flag, Esc
<1>2. Flag[1] = "flag" /\ Esc[1] = "esc"
  BY DEF Flag, Esc
<1> QED
  BY <1>1, <1>2

FlagPlaces(s) == {i \in DOMAIN s : s[i] = Flag}

LEMMA FlagsNat ==
  ASSUME NEW S, NEW s \in Seq(S)
  PROVE  IsFiniteSet(FlagPlaces(s)) /\ Flags(s) = Cardinality(FlagPlaces(s)) /\ Flags(s) \in Nat
<1>1. DOMAIN s = 1..Len(s) /\ Len(s) \in Nat
  OBVIOUS
<1>2. IsFiniteSet(1..Len(s))
  BY <1>1, FS_Interval
<1>3. FlagPlaces(s) \subseteq 1..Len(s)
  BY <1>1 DEF FlagPlaces
<1>4. IsFiniteSet(FlagPlaces(s))
  BY <1>2, <1>3, FS_Subset
<1>5. Cardinality(FlagPlaces(s)) \in Nat
  BY <1>4, FS_CardinalityType
<1> QED
  BY <1>4, <1>5 DEF Flags, FlagPlaces

LEMMA FlagsEmpty == Flags(<<>>) = 0
<1>1. {i \in DOMAIN <<>> : <<>>[i] = Flag} = {}
  OBVIOUS
<1> QED
  BY <1>1, FS_EmptySet DEF Flags

LEMMA FlagsAppend ==
  ASSUME NEW S, NEW s \in Seq(S), NEW x \in S
  PROVE  Flags(Append(s, x)) = Flags(s) + IF x = Flag THEN 1 ELSE 0
<1> DEFINE t == Append(s, x)
           n == Len(s) + 1
<1>1. /\ t \in Seq(S) /\ Len(t) = n /\ Len(s) \in Nat /\ t[n] = x
      /\ \A i \in 1..Len(s) : t[i] = s[i]
      /\ DOMAIN t = 1..n /\ DOMAIN s = 1..Len(s)
  BY AppendProperties
<1> HIDE DEF t
<1> SUFFICES Flags(t) = Flags(s) + IF x = Flag THEN 1 ELSE 0
  BY DEF t
<1>2. n \notin FlagPlaces(s) /\ \A i \in 1..n : i = n \/ i \in 1..Len(s)
  BY <1>1 DEF FlagPlaces
<1>3. /\ Flags(s) = Cardinality(FlagPlaces(s)) /\ Flags(s) \in Nat
      /\ Flags(t) = Cardinality(FlagPlaces(t)) /\ IsFiniteSet(FlagPlaces(s))
  BY <1>1, FlagsNat
<1>4. CASE x = Flag
  <2>1. FlagPlaces(t) = FlagPlaces(s) \cup {n}
    BY <1>1, <1>2, <1>4 DEF FlagPlaces
  <2>2. Cardinality(FlagPlaces(s) \cup {n}) = Cardinality(FlagPlaces(s)) + 1
    BY <1>3, <1>2, FS_AddElement
  <2> QED
    BY <1>3, <1>4, <2>1, <2>2
<1>5. CASE x # Flag
  <2>1. FlagPlaces(t) = FlagPlaces(s)
    BY <1>1, <1>2, <1>5 DEF FlagPlaces
  <2> QED
    BY <1>3, <1>5, <2>1
<1> QED
  BY <1>4, <1>5

LEMMA FlagsTail ==
  ASSUME NEW S, NEW s \in Seq(S), s # <<>>
  PROVE  Flags(s) = Flags(Tail(s)) + IF s[1] = Flag THEN 1 ELSE 0
<1> DEFINE t == Tail(s)
           rest == FlagPlaces(s) \ {1}
<1>1. /\ t \in Seq(S) /\ Len(t) = Len(s) - 1 /\ Len(s) \in Nat \ {0}
      /\ \A i \in 1..Len(t) : t[i] = s[i + 1]
      /\ DOMAIN t = 1..Len(t) /\ DOMAIN s = 1..Len(s)
  BY HeadTailProperties
<1> HIDE DEF t
<1>2. IsFiniteSet(FlagPlaces(s)) /\ IsFiniteSet(FlagPlaces(t))
  BY <1>1, FlagsNat
<1>3. Cardinality(rest) = Cardinality(FlagPlaces(t))
  <2> DEFINE f == [i \in FlagPlaces(t) |-> i + 1]
  <2>1. \A i \in FlagPlaces(t) : i \in Nat /\ i + 1 \in rest
    BY <1>1 DEF FlagPlaces
  <2>2. \A j \in rest : j \in Nat /\ j - 1 \in FlagPlaces(t) /\ (j - 1) + 1 = j
    BY <1>1 DEF FlagPlaces
  <2>3. f \in Bijection(FlagPlaces(t), rest)
    <3>1. f \in [FlagPlaces(t) -> rest]
      BY <2>1
    <3>2. \A i, j \in FlagPlaces(t) : f[i] = f[j] => i = j
      BY <2>1
    <3>3. \A j \in rest : \E i \in FlagPlaces(t) : f[i] = j
      BY <2>2
    <3> HIDE DEF f, rest
    <3> QED
      BY <3>1, <3>2, <3>3, Fun_IsBij
  <2>4. ExistsBijection(FlagPlaces(t), rest)
    BY <2>3 DEF ExistsBijection
  <2> QED
    BY <1>2, <2>4, FS_Bijection
<1>4. Cardinality(rest) = IF 1 \in FlagPlaces(s) THEN Cardinality(FlagPlaces(s)) - 1
                          ELSE Cardinality(FlagPlaces(s))
  BY <1>2, FS_RemoveElement
<1>5. 1 \in FlagPlaces(s) <=> s[1] = Flag
  BY <1>1 DEF FlagPlaces
<1>6. /\ Flags(s) = Cardinality(FlagPlaces(s)) /\ Flags(s) \in Nat
      /\ Flags(t) = Cardinality(FlagPlaces(t)) /\ Flags(t) \in Nat
  BY <1>1, FlagsNat
<1> QED
  BY <1>3, <1>4, <1>5, <1>6 DEF t

-----------------------------------------------------------------------------
(* What is still to be read                                                *)

Reads(r, d, f) == SubSeq(r, d + 1, Len(r)) \o f

LEMMA ReadsElements ==
  ASSUME NEW S, NEW r \in Seq(S), NEW f \in Seq(S), NEW d \in 0..Len(r)
  PROVE  /\ Reads(r, d, f) \in Seq(S) /\ Len(Reads(r, d, f)) = (Len(r) - d) + Len(f)
         /\ \A i \in 1..(Len(r) - d) + Len(f) :
              Reads(r, d, f)[i] = IF i <= Len(r) - d THEN r[d + i] ELSE f[i - (Len(r) - d)]
<1> DEFINE u == SubSeq(r, d + 1, Len(r))
           m == Len(r) - d
<1>1. Len(r) \in Nat /\ Len(f) \in Nat /\ d \in Nat /\ m \in Nat
  OBVIOUS
<1>2. u \in Seq(S) /\ Len(u) = m /\ \A i \in 1..m : u[i] = r[d + i]
  <2>1. \A i \in d + 1..Len(r) : r[i] \in S
    BY <1>1
  <2>2. d + 1 \in Int /\ Len(r) \in Int
    BY <1>1
  <2> DEFINE a == d + 1
             b == Len(r)
  <2>3. /\ SubSeq(r, a, b) \in Seq(S)
        /\ Len(SubSeq(r, a, b)) = IF a <= b THEN b - a + 1 ELSE 0
        /\ \A i \in 1..b - a + 1 : SubSeq(r, a, b)[i] = r[a + i - 1]
    <3> HIDE DEF a, b
    <3> QED
      BY <2>1, <2>2, SubSeqProperties DEF a, b
  <2>4. b - a + 1 = m /\ (a <= b => b - a + 1 = m) /\ (~(a <= b) => m = 0)
        /\ \A i \in 1..m : a + i - 1 = d + i
    BY <1>1
  <2> QED
    BY <2>3, <2>4
<1> HIDE DEF u, m
<1>3. /\ u \o f \in Seq(S) /\ Len(u \o f) = m + Len(f)
      /\ \A i \in 1..m + Len(f) : (u \o f)[i] = IF i <= m THEN u[i] ELSE f[i - m]
  BY <1>2, ConcatProperties
<1>4. ASSUME NEW i \in 1..m + Len(f)
      PROVE  (u \o f)[i] = IF i <= m THEN r[d + i] ELSE f[i - m]
  <2>1. i <= m => i \in 1..m
    BY <1>1
  <2> QED
    BY <1>2, <1>3, <2>1
<1> QED
  BY <1>3, <1>4 DEF Reads, u, m

LEMMA ReadsMove ==
  ASSUME NEW S, NEW r \in Seq(S), NEW f \in Seq(S), NEW d \in 0..Len(r), NEW n \in 0..Len(f)
  PROVE  Reads(r \o SubSeq(f, 1, n), d, SubSeq(f, n + 1, Len(f))) = Reads(r, d, f)
<1> DEFINE g == SubSeq(f, 1, n)
           h == SubSeq(f, n + 1, Len(f))
           s == r \o g
<1>1. Len(r) \in Nat /\ Len(f) \in Nat /\ d \in Nat /\ n \in Nat /\ d <= Len(r) /\ n <= Len(f)
  OBVIOUS
<1>2. g \in Seq(S) /\ Len(g) = n /\ \A i \in 1..n : g[i] = f[i]
  BY <1>1
<1>3. h \in Seq(S) /\ Len(h) = Len(f) - n /\ \A i \in 1..Len(f) - n : h[i] = f[n + i]
  BY <1>1
<1> HIDE DEF g, h
<1>4. /\ s \in Seq(S) /\ Len(s) = Len(r) + n
      /\ \A i \in 1..Len(r) + n : s[i] = IF i <= Len(r) THEN r[i] ELSE g[i - Len(r)]
  <2>1. /\ s \in Seq(S) /\ Len(s) = Len(r) + Len(g)
        /\ \A i \in 1..Len(r) + Len(g) : s[i] = IF i <= Len(r) THEN r[i] ELSE g[i - Len(r)]
    BY <1>2, ConcatProperties
  <2> HIDE DEF s
  <2> QED
    BY <1>2, <2>1
<1> HIDE DEF s
<1>5. d \in 0..Len(s)
  BY <1>1, <1>4
<1> DEFINE a == Reads(r, d, f)
           b == Reads(s, d, h)
           m == (Len(r) - d) + Len(f)
<1>6. /\ a \in Seq(S) /\ Len(a) = m
      /\ \A i \in 1..m : a[i] = IF i <= Len(r) - d THEN r[d + i] ELSE f[i - (Len(r) - d)]
  BY ReadsElements
<1>7. (Len(s) - d) + Len(h) = m
  BY <1>1, <1>3, <1>4
<1>8. /\ b \in Seq(S) /\ Len(b) = m
      /\ \A i \in 1..m : b[i] = IF i <= Len(s) - d THEN s[d + i] ELSE h[i - (Len(s) - d)]
  <2>1. /\ b \in Seq(S) /\ Len(b) = (Len(s) - d) + Len(h)
        /\ \A i \in 1..(Len(s) - d) + Len(h) :
             b[i] = IF i <= Len(s) - d THEN s[d + i] ELSE h[i - (Len(s) - d)]
    <3>1. s \in Seq(S) /\ h \in Seq(S)
      BY <1>3, <1>4
    <3> HIDE DEF b, m
    <3>2. /\ Reads(s, d, h) \in Seq(S) /\ Len(Reads(s, d, h)) = (Len(s) - d) + Len(h)
          /\ \A i \in 1..(Len(s) - d) + Len(h) :
               Reads(s, d, h)[i] = IF i <= Len(s) - d THEN s[d + i] ELSE h[i - (Len(s) - d)]
      BY <1>5, <3>1, ReadsElements
    <3> QED
      BY <3>2 DEF b
  <2> HIDE DEF b, m
  <2> QED
    BY <1>7, <2>1
<1>9. ASSUME NEW i \in 1..m
      PROVE  a[i] = b[i]
  <2>1. CASE i <= Len(r) - d
    <3>1. i <= Len(s) - d /\ d + i \in 1..Len(r) + n /\ d + i <= Len(r)
      BY <1>1, <1>4, <2>1
    <3> QED
      BY <1>4, <1>6, <1>8, <2>1, <3>1
  <2>2. CASE i > Len(r) - d /\ i <= Len(s) - d
    <3>1. /\ d + i \in 1..Len(r) + n /\ ~(d + i <= Len(r)) /\ ~(i <= Len(r) - d)
          /\ (d + i) - Len(r) = i - (Len(r) - d) /\ (d + i) - Len(r) \in 1..n
      BY <1>1, <1>4, <2>2
    <3>2. b[i] = s[d + i]
      BY <1>8, <2>2
    <3>3. s[d + i] = g[(d + i) - Len(r)]
      BY <1>4, <3>1
    <3>4. g[(d + i) - Len(r)] = f[(d + i) - Len(r)]
      BY <1>2, <3>1
    <3>5. a[i] = f[i - (Len(r) - d)]
      BY <1>6, <3>1
    <3> QED
      BY <3>1, <3>2, <3>3, <3>4, <3>5
  <2>3. CASE i > Len(s) - d
    <3>1. /\ ~(i <= Len(s) - d) /\ ~(i <= Len(r) - d)
          /\ i - (Len(s) - d) \in 1..Len(f) - n /\ n + (i - (Len(s) - d)) = i - (Len(r) - d)
      BY <1>1, <1>3, <1>4, <2>3
    <3>2. b[i] = h[i - (Len(s) - d)]
      BY <1>8, <3>1
    <3>3. h[i - (Len(s) - d)] = f[i - (Len(r) - d)]
      BY <1>3, <3>1
    <3>4. a[i] = f[i - (Len(r) - d)]
      BY <1>6, <3>1
    <3> QED
      BY <3>2, <3>3, <3>4
  <2> QED
    BY <1>1, <1>4, <2>1, <2>2, <2>3
<1>10. a = b
  <2> HIDE DEF a, b, m
  <2> QED
    BY <1>6, <1>8, <1>9, SeqEqual
<1> QED
  BY <1>10 DEF s, g, h

LEMMA ReadsFree ==
  ASSUME NEW S, NEW r \in Seq(S), NEW f, NEW d \in 0..Len(r)
  PROVE  Reads(SubSeq(r, d + 1, Len(r)), 0, f) = Reads(r, d, f)
<1> DEFINE u == SubSeq(r, d + 1, Len(r))
<1>1. u \in Seq(S)
  OBVIOUS
<1> HIDE DEF u
<1>2. SubSeq(u, 1, Len(u)) = u
  BY <1>1, SubSeqFull
<1>3. Reads(u, 0, f) = u \o f
  <2>1. 0 + 1 = 1
    OBVIOUS
  <2> QED
    BY <1>2, <2>1 DEF Reads
<1> QED
  BY <1>3 DEF Reads, u

LEMMA ReadsAppend ==
  ASSUME NEW S, NEW r \in Seq(S), NEW f \in Seq(S), NEW d \in 0..Len(r), NEW x \in S
  PROVE  Reads(r, d, Append(f, x)) = Append(Reads(r, d, f), x)
<1> DEFINE u == SubSeq(r, d + 1, Len(r))
<1>1. u \in Seq(S) /\ <<x>> \in Seq(S)
  OBVIOUS
<1> HIDE DEF u
<1>2. Append(f, x) = f \o <<x>>
  BY AppendIsConcat
<1>3. u \o f \in Seq(S)
  BY <1>1, ConcatProperties
<1>4. Append(u \o f, x) = (u \o f) \o <<x>>
  BY <1>3, AppendIsConcat
<1>5. (u \o f) \o <<x>> = u \o (f \o <<x>>)
  BY <1>1, ConcatAssociative
<1> QED
  BY <1>2, <1>4, <1>5 DEF Reads, u

LEMMA ReadsTail ==
  ASSUME NEW S, NEW r \in Seq(S), NEW f \in Seq(S), NEW d \in 0..Len(r), d < Len(r)
  PROVE  /\ Reads(r, d, f) # <<>> /\ Reads(r, d, f)[1] = r[d + 1]
         /\ Tail(Reads(r, d, f)) = Reads(r, d + 1, f)
<1> DEFINE a == Reads(r, d, f)
           b == Reads(r, d + 1, f)
           m == Len(r) - d
<1>1. Len(r) \in Nat /\ Len(f) \in Nat /\ d \in Nat /\ m \in Nat \ {0} /\ d + 1 \in 0..Len(r)
      /\ Len(r) - (d + 1) = m - 1
  OBVIOUS
<1>2. /\ a \in Seq(S) /\ Len(a) = m + Len(f)
      /\ \A i \in 1..m + Len(f) : a[i] = IF i <= m THEN r[d + i] ELSE f[i - m]
  BY ReadsElements
<1>3. /\ b \in Seq(S) /\ Len(b) = (m - 1) + Len(f)
      /\ \A i \in 1..(m - 1) + Len(f) :
           b[i] = IF i <= m - 1 THEN r[(d + 1) + i] ELSE f[i - (m - 1)]
  <2> DEFINE e == d + 1
  <2>1. e \in 0..Len(r) /\ Len(r) - e = m - 1
    BY <1>1
  <2> HIDE DEF e, m
  <2>2. /\ Reads(r, e, f) \in Seq(S) /\ Len(Reads(r, e, f)) = (Len(r) - e) + Len(f)
        /\ \A i \in 1..(Len(r) - e) + Len(f) :
             Reads(r, e, f)[i] = IF i <= Len(r) - e THEN r[e + i] ELSE f[i - (Len(r) - e)]
    BY <2>1, ReadsElements
  <2> QED
    BY <2>1, <2>2 DEF e
<1> HIDE DEF a, b, m
<1>4. a # <<>> /\ a[1] = r[d + 1]
  <2>1. Len(a) # 0 /\ 1 \in 1..m + Len(f) /\ 1 <= m
    BY <1>1, <1>2
  <2> QED
    BY <1>2, <2>1
<1> DEFINE t == Tail(a)
<1>5. t \in Seq(S) /\ Len(t) = Len(a) - 1 /\ \A i \in 1..Len(t) : t[i] = a[i + 1]
  BY <1>2, <1>4, HeadTailProperties
<1> HIDE DEF t
<1>6. ASSUME NEW i \in 1..Len(t)
      PROVE  t[i] = b[i]
  <2>1. i \in 1..(m - 1) + Len(f) /\ i + 1 \in 1..m + Len(f)
    BY <1>1, <1>2, <1>5
  <2>2. t[i] = IF i + 1 <= m THEN r[d + (i + 1)] ELSE f[(i + 1) - m]
    BY <1>2, <1>5, <2>1
  <2>3. b[i] = IF i <= m - 1 THEN r[(d + 1) + i] ELSE f[i - (m - 1)]
    BY <1>3, <2>1
  <2>4. (i + 1 <= m <=> i <= m - 1) /\ d + (i + 1) = (d + 1) + i /\ (i + 1) - m = i - (m - 1)
    BY <1>1, <2>1
  <2> QED
    BY <2>2, <2>3, <2>4
<1>7. Len(t) = Len(b)
  BY <1>1, <1>2, <1>3, <1>5
<1>8. t = b
  BY <1>3, <1>5, <1>6, <1>7, SeqEqual
<1> QED
  BY <1>4, <1>8 DEF a, b, t

-----------------------------------------------------------------------------
(* Paths                                                                   *)

LEMMA PlacesType ==
  ASSUME NEW p \in Places
  PROVE  /\ p = <<p[1], p[2], p[3]>> /\ p[1] \in Nat \ {0} /\ p[2] \in 0..Length + 1
         /\ p[2] \in Nat /\ p[3] \in {0, 1}
BY HdlcAssumption DEF Places

LEMMA SymbolIsFlag ==
  ASSUME NEW fs, NEW p
  PROVE  Symbol(fs, p) = Flag <=> p[2] = 0 \/ p[2] = Length + 1
<1> DEFINE b == Byte(fs[p[1]], p[2], p[3] = 0)
<1>1. Esc # Flag /\ b # Flag
  BY SymbolsDiffer
<1> HIDE DEF b
<1>2. Symbol(fs, p) = IF p[2] = 0 \/ p[2] = Length + 1 THEN Flag
                      ELSE IF p[2] \in Escaped /\ p[3] = 0 THEN Esc ELSE b
  BY DEF Symbol, b
<1> QED
  BY <1>1, <1>2

LEMMA FlagsFollowing ==
  ASSUME NEW fs, NEW p \in Places
  PROVE  /\ FlagsBefore(Following(p)) = FlagsBefore(p) + IF Symbol(fs, p) = Flag THEN 1 ELSE 0
         /\ FlagsBefore(p) \in Nat
<1> USE HdlcAssumption
<1>1. p[1] \in Nat \ {0} /\ p[2] \in Nat
  BY PlacesType
<1> DEFINE a == p[1]
           b == p[2]
           F == Following(p)
<1>2. /\ b = 0 => F[1] = a /\ F[2] = 1
      /\ b # 0 /\ b = Length + 1 => F[1] = a + 1 /\ F[2] = 0
      /\ b # 0 /\ b # Length + 1 => F[1] = a /\ (F[2] = b \/ F[2] = b + 1)
  BY DEF Following
<1>3. FlagsBefore(F) = 2 * (F[1] - 1) + (IF F[2] = 0 THEN 0 ELSE 1)
  BY DEF FlagsBefore
<1>4. FlagsBefore(p) = 2 * (a - 1) + (IF b = 0 THEN 0 ELSE 1)
  BY DEF FlagsBefore
<1>5. Symbol(fs, p) = Flag <=> b = 0 \/ b = Length + 1
  BY SymbolIsFlag
<1>6. a \in Nat \ {0} /\ b \in Nat
  BY <1>1
<1> HIDE DEF a, b, F
<1>7. FlagsBefore(F) = FlagsBefore(p) + IF b = 0 \/ b = Length + 1 THEN 1 ELSE 0
  <2>1. CASE b = 0
    BY <1>2, <1>3, <1>4, <1>6, <2>1
  <2>2. CASE b # 0 /\ b = Length + 1
    BY <1>2, <1>3, <1>4, <1>6, <2>2
  <2>3. CASE b # 0 /\ b # Length + 1
    BY <1>2, <1>3, <1>4, <1>6, <2>3
  <2> QED
    BY <2>1, <2>2, <2>3
<1>8. FlagsBefore(p) \in Nat
  BY <1>4, <1>6
<1> QED
  BY <1>5, <1>7, <1>8 DEF F

\* More frames leave a path what it is.
LEMMA SymbolStays ==
  ASSUME NEW T, NEW fs \in Seq(T), NEW x \in T, NEW p, At(fs, p)
  PROVE  At(Append(fs, x), p) /\ Symbol(Append(fs, x), p) = Symbol(fs, p)
<1> DEFINE gs == Append(fs, x)
<1>1. /\ Len(gs) = Len(fs) + 1 /\ Len(fs) \in Nat
      /\ \A i \in 1..Len(fs) : gs[i] = fs[i]
  OBVIOUS
<1> HIDE DEF gs
<1>2. p \in Places /\ (p[3] = 1 => p[2] \in Escaped)
      /\ p[1] <= Len(fs) + (IF p[2] = 0 THEN 1 ELSE 0) /\ p[1] \in Nat \ {0}
  BY PlacesType DEF At
<1>3. At(gs, p)
  <2>1. p[1] <= Len(gs) + (IF p[2] = 0 THEN 1 ELSE 0)
    BY <1>1, <1>2
  <2> QED
    BY <1>2, <2>1 DEF At
<1>4. p[2] # 0 => gs[p[1]] = fs[p[1]]
  BY <1>1, <1>2
<1>5. Symbol(gs, p) = Symbol(fs, p)
  BY <1>4 DEF Symbol
<1> QED
  BY <1>3, <1>5 DEF gs

LEMMA LinkedStays ==
  ASSUME NEW T, NEW fs \in Seq(T), NEW x \in T, NEW q, NEW s, Len(s) \in Nat, Linked(fs, q, s)
  PROVE  Linked(Append(fs, x), q, s)
<1>1. \A i \in 1..Len(q) :
        At(Append(fs, x), q[i]) /\ Symbol(Append(fs, x), q[i]) = Symbol(fs, q[i])
  BY SymbolStays DEF Linked
<1>2. \A i \in 1..Len(s) : i \in 1..Len(q)
  BY DEF Linked
<1> HIDE DEF Linked
<1> QED
  BY <1>1, <1>2 DEF Linked

\* One more symbol is sent.
LEMMA LinkedAppend ==
  ASSUME NEW S, NEW s \in Seq(S), NEW x \in S, NEW fs, NEW q, Linked(fs, q, s), Counted(q, s),
         x = Symbol(fs, q[Len(q)]), NEW w, At(fs, w), w = Following(q[Len(q)])
  PROVE  LET r == Append(q, w)
             t == Append(s, x)
         IN  /\ Linked(fs, r, t) /\ Counted(r, t)
             /\ r[1] = q[1] /\ r[Len(r)] = w
<1> DEFINE r == Append(q, w)
           t == Append(s, x)
           n == Len(s)
<1>1. q \in Seq(Places) /\ w \in Places /\ n \in Nat /\ Len(q) = n + 1
  BY DEF Linked, At
<1>2. /\ r \in Seq(Places) /\ Len(r) = n + 2 /\ r[n + 2] = w
      /\ \A i \in 1..n + 1 : r[i] = q[i]
  <2>1. /\ r \in Seq(Places) /\ Len(r) = Len(q) + 1
        /\ \A i \in 1..Len(q) : r[i] = q[i]
        /\ r[Len(q) + 1] = w
    BY <1>1, AppendProperties
  <2>2. (n + 1) + 1 = n + 2
    BY <1>1
  <2> HIDE DEF n, r
  <2> QED
    BY <1>1, <2>1, <2>2
<1>3. t \in Seq(S) /\ Len(t) = n + 1 /\ t[n + 1] = x /\ \A i \in 1..n : t[i] = s[i]
  BY AppendProperties
<1> HIDE DEF r, t, n
<1>4. /\ \A i \in 1..n + 1 : At(fs, q[i])
      /\ \A i \in 1..n : s[i] = Symbol(fs, q[i]) /\ q[i + 1] = Following(q[i])
  BY <1>1 DEF Linked, n
<1>5. Linked(fs, r, t)
  <2>1. ASSUME NEW i \in 1..n + 2
        PROVE  At(fs, r[i])
    <3>1. CASE i \in 1..n + 1
      BY <1>2, <1>4, <3>1
    <3>2. CASE i = n + 2
      BY <1>2, <3>2
    <3> QED
      BY <1>1, <3>1, <3>2
  <2>2. ASSUME NEW i \in 1..n + 1
        PROVE  t[i] = Symbol(fs, r[i]) /\ r[i + 1] = Following(r[i])
    <3>1. CASE i \in 1..n
      <4>1. i \in 1..n + 1 /\ i + 1 \in 1..n + 1
        BY <1>1, <3>1
      <4> QED
        BY <1>2, <1>3, <1>4, <3>1, <4>1
    <3>2. CASE i = n + 1
      <4>1. i \in 1..n + 1 /\ i + 1 = n + 2
        BY <1>1, <3>2
      <4> QED
        BY <1>1, <1>2, <1>3, <3>2, <4>1
    <3> QED
      BY <1>1, <3>1, <3>2
  <2>3. Len(r) = Len(t) + 1
    BY <1>1, <1>2, <1>3
  <2> QED
    BY <1>2, <1>3, <2>1, <2>2, <2>3 DEF Linked
<1>6. r[1] = q[1] /\ r[Len(r)] = w
  BY <1>1, <1>2
<1>7. Counted(r, t)
  <2> DEFINE last == q[n + 1]
             one == IF x = Flag THEN 1 ELSE 0
  <2>1. last \in Places /\ x = Symbol(fs, last) /\ w = Following(last) /\ q[1] \in Places
    BY <1>1
  <2>2. FlagsBefore(last) = FlagsBefore(q[1]) + Flags(s)
    BY <1>1 DEF Counted
  <2>3. FlagsBefore(w) = FlagsBefore(last) + one
    BY <2>1, FlagsFollowing
  <2>4. Flags(t) = Flags(s) + one
    BY FlagsAppend DEF t
  <2>5. FlagsBefore(q[1]) \in Nat /\ Flags(s) \in Nat /\ one \in Nat
    BY <2>1, FlagsFollowing, FlagsNat
  <2> HIDE DEF one, last
  <2>6. FlagsBefore(w) = FlagsBefore(q[1]) + Flags(t)
    BY <2>2, <2>3, <2>4, <2>5
  <2> QED
    BY <1>6, <2>6 DEF Counted
<1> QED
  BY <1>5, <1>6, <1>7 DEF r, t

\* One symbol is read.
Shortened(fs, q, s, r, u) ==
  /\ Linked(fs, r, u) /\ Counted(r, u)
  /\ r[1] = q[2] /\ r[Len(r)] = q[Len(q)]
  /\ s[1] = Symbol(fs, q[1]) /\ q[2] = Following(q[1]) /\ At(fs, q[1]) /\ At(fs, q[2])

LEMMA LinkedTail ==
  ASSUME NEW S, NEW s \in Seq(S), s # <<>>, NEW fs, NEW q, Linked(fs, q, s), Counted(q, s)
  PROVE  Shortened(fs, q, s, Tail(q), Tail(s))
<1> DEFINE r == Tail(q)
           t == Tail(s)
           n == Len(s)
<1>1. q \in Seq(Places) /\ n \in Nat \ {0} /\ Len(q) = n + 1
  BY DEF Linked
<1>2. r \in Seq(Places) /\ Len(r) = n /\ \A i \in 1..n : r[i] = q[i + 1]
  <2>1. q # <<>>
    BY <1>1
  <2>2. /\ r \in Seq(Places) /\ Len(r) = Len(q) - 1
        /\ \A i \in 1..Len(r) : r[i] = q[i + 1]
    BY <1>1, <2>1, HeadTailProperties
  <2> HIDE DEF r, n
  <2> QED
    BY <1>1, <2>2
<1>3. t \in Seq(S) /\ Len(t) = n - 1 /\ \A i \in 1..n - 1 : t[i] = s[i + 1]
  BY HeadTailProperties
<1> HIDE DEF r, t, n
<1>4. /\ \A i \in 1..n + 1 : At(fs, q[i])
      /\ \A i \in 1..n : s[i] = Symbol(fs, q[i]) /\ q[i + 1] = Following(q[i])
  BY <1>1 DEF Linked, n
<1>5. Linked(fs, r, t)
  <2>1. ASSUME NEW i \in 1..n
        PROVE  At(fs, r[i])
    <3>1. i + 1 \in 1..n + 1
      BY <1>1
    <3> QED
      BY <1>2, <1>4, <3>1
  <2>2. ASSUME NEW i \in 1..n - 1
        PROVE  t[i] = Symbol(fs, r[i]) /\ r[i + 1] = Following(r[i])
    <3>1. i \in 1..n /\ i + 1 \in 1..n
      BY <1>1
    <3> QED
      BY <1>2, <1>3, <1>4, <3>1
  <2>3. Len(r) = Len(t) + 1
    BY <1>1, <1>2, <1>3
  <2> QED
    BY <1>2, <1>3, <2>1, <2>2, <2>3 DEF Linked
<1>6. /\ r[1] = q[2] /\ r[Len(r)] = q[Len(q)]
      /\ s[1] = Symbol(fs, q[1]) /\ q[2] = Following(q[1]) /\ At(fs, q[1]) /\ At(fs, q[2])
  <2>1. 1 \in 1..n /\ n \in 1..n /\ 1 \in 1..n + 1 /\ 2 \in 1..n + 1 /\ 1 + 1 = 2
    BY <1>1
  <2>2. r[1] = q[2] /\ r[n] = q[n + 1]
    BY <1>2, <2>1
  <2>3. s[1] = Symbol(fs, q[1]) /\ q[2] = Following(q[1])
    BY <1>4, <2>1
  <2> QED
    BY <1>1, <1>2, <1>4, <2>1, <2>2, <2>3
<1>7. Counted(r, t)
  <2> DEFINE one == IF s[1] = Flag THEN 1 ELSE 0
  <2>1. q[1] \in Places /\ q[2] \in Places
    BY <1>6 DEF At
  <2>2. FlagsBefore(q[Len(q)]) = FlagsBefore(q[1]) + Flags(s)
    BY DEF Counted
  <2>3. FlagsBefore(q[2]) = FlagsBefore(q[1]) + one
    BY <1>6, <2>1, FlagsFollowing
  <2>4. Flags(s) = Flags(t) + one
    BY FlagsTail DEF t
  <2>5. FlagsBefore(q[1]) \in Nat /\ Flags(t) \in Nat /\ one \in Nat
    BY <1>3, <2>1, FlagsFollowing, FlagsNat
  <2> HIDE DEF one
  <2>6. FlagsBefore(q[Len(q)]) = FlagsBefore(q[2]) + Flags(t)
    BY <2>2, <2>3, <2>4, <2>5
  <2> QED
    BY <1>6, <2>6 DEF Counted
<1> QED
  BY <1>5, <1>6, <1>7 DEF Shortened, r, t

-----------------------------------------------------------------------------
(* The receiver                                                            *)

Prefix(g, n) == [i \in 1..n |-> g[i]]

LEMMA PrefixAppend ==
  ASSUME NEW g, NEW n \in Nat
  PROVE  Append(Prefix(g, n), g[n + 1]) = Prefix(g, n + 1) /\ Len(Prefix(g, n)) = n
<1> DEFINE S == {g[i] : i \in 1..n + 1}
           a == Prefix(g, n)
           b == Prefix(g, n + 1)
           x == g[n + 1]
<1>1. x \in S /\ \A i \in 1..n + 1 : g[i] \in S
  OBVIOUS
<1> HIDE DEF S
<1>2. a \in Seq(S) /\ Len(a) = n /\ \A i \in 1..n : a[i] = g[i]
  BY <1>1 DEF Prefix
<1>3. b \in Seq(S) /\ Len(b) = n + 1 /\ \A i \in 1..n + 1 : b[i] = g[i]
  BY <1>1 DEF Prefix
<1> HIDE DEF a, b, x
<1> DEFINE c == Append(a, x)
<1>4. c \in Seq(S) /\ Len(c) = n + 1 /\ c[n + 1] = x /\ \A i \in 1..n : c[i] = a[i]
  BY <1>1, <1>2, AppendProperties
<1> HIDE DEF c
<1>5. ASSUME NEW i \in 1..n + 1
      PROVE  c[i] = b[i]
  <2>1. CASE i \in 1..n
    BY <1>2, <1>3, <1>4, <2>1
  <2>2. CASE i = n + 1
    BY <1>3, <1>4, <2>2 DEF x
  <2> QED
    BY <2>1, <2>2
<1>6. c = b
  BY <1>3, <1>4, <1>5, SeqEqual
<1> QED
  BY <1>2, <1>6 DEF a, b, c, x

LEMMA Beginnings ==
  ASSUME NEW f, NEW n \in Nat
  PROVE  /\ Append(Beginning(f, n), Plain(f, n + 1)) = Beginning(f, n + 1)
         /\ Len(Beginning(f, n)) = n
<1> DEFINE g == [i \in Nat |-> Plain(f, i)]
<1>1. g[n + 1] = Plain(f, n + 1) /\ n + 1 \in Nat
  OBVIOUS
<1>2. \A m \in Nat : Beginning(f, m) = Prefix(g, m)
  BY DEF Beginning, Prefix
<1> HIDE DEF g
<1> QED
  BY <1>1, <1>2, PrefixAppend

LEMMA BeginningEnds ==
  ASSUME NEW f
  PROVE  Beginning(f, 0) = <<>> /\ Beginning(f, Length) = Whole(f)
BY DEF Beginning, Whole, Plain

LEMMA DeliveredAppend ==
  ASSUME NEW fs, NEW n \in Nat
  PROVE  Append(Delivered(fs, n), Whole(fs[n + 1])) = Delivered(fs, n + 1)
<1> DEFINE g == [i \in Nat |-> Whole(fs[i])]
<1>1. g[n + 1] = Whole(fs[n + 1]) /\ n + 1 \in Nat
  OBVIOUS
<1>2. \A m \in Nat : Delivered(fs, m) = Prefix(g, m)
  BY DEF Delivered, Prefix
<1> HIDE DEF g
<1> QED
  BY <1>1, <1>2, PrefixAppend

\* What the decoder saves of an escaped byte.
LEMMA SavedByte ==
  ASSUME NEW f, NEW i
  PROVE  [Byte(f, i, FALSE) EXCEPT ![3] = ~@] = Plain(f, i)
<1>1. ASSUME NEW v \in BOOLEAN
      PROVE  [Byte(f, i, v) EXCEPT ![3] = ~@] = Byte(f, i, ~v)
  BY DEF Byte
<1>2. [Byte(f, i, FALSE) EXCEPT ![3] = ~@] = Byte(f, i, ~FALSE)
  BY <1>1
<1> QED
  BY <1>2 DEF Plain

\* Where the address and the control byte of a whole frame are.
LEMMA WholePlaces ==
  ASSUME NEW f
  PROVE  /\ Whole(f)[1][2] = 1 /\ Whole(f)[2][2] = Control
         /\ Whole(f) # <<>> /\ Whole(f)[Len(Whole(f))][1] = f
<1>1. PICK w : w = Whole(f)
  OBVIOUS
<1>2. 1 \in 1..Length /\ 2 \in 1..Length /\ Length \in 1..Length
  BY HdlcAssumption
<1>3. w[1] = Byte(f, 1, TRUE) /\ w[2] = Byte(f, 2, TRUE) /\ w[Length] = Byte(f, Length, TRUE)
  BY <1>1, <1>2 DEF Whole
<1>4. Len(w) = Length
  <2>1. Length \in Nat
    BY HdlcAssumption
  <2> QED
    BY <1>1, <2>1, Beginnings, BeginningEnds
<1>5. w # <<>>
  BY <1>4, HdlcAssumption
<1> QED
  BY <1>1, <1>3, <1>4, <1>5 DEF Byte, Control

\* The receiver is within a frame: it gets on with it, and hands it up.
LEMMA InputWithin ==
  ASSUME NEW CONSTANT p, At(sends, p), Within(p),
         InputByte(Symbol(sends, p)), UNCHANGED sends,
         \A i \in 1..Len(sends) : sends[i] \in Threads \X (1..Frames),
         Len(sends) \in Nat
  PROVE  /\ Within(Following(p))'
         /\ delivered' = IF p[2] = Length + 1 THEN Append(delivered, Whole(sends[p[1]]))
                         ELSE delivered
<1> USE HdlcAssumption
<1> DEFINE k == p[1]
           i == p[2]
           f == sends[k]
           x == Symbol(sends, p)
<1>1. k \in Nat \ {0} /\ i \in Nat /\ i <= Length + 1 /\ p[3] \in {0, 1}
      /\ (p[3] = 1 => i \in 1..Length /\ i \in Escaped)
  BY PlacesType DEF At
<1>2. /\ rx_buffer = Beginning(f, IF i = 0 THEN 0 ELSE i - 1)
      /\ crc = rx_buffer /\ next_escaped = (p[3] = 1)
  BY DEF Within
<1>3. x = Flag <=> i = 0 \/ i = Length + 1
  BY SymbolIsFlag
<1>4. CASE i = 0
  <2>1. Following(p) = <<k, 1, 0>> /\ p[3] = 0 /\ x = Flag
    BY <1>1, <1>3, <1>4 DEF Following
  <2>2. rx_buffer = <<>>
    BY <1>2, <1>4, BeginningEnds
  <2>3. UNCHANGED decoder
    BY <2>1, <2>2, SymbolsDiffer DEF InputByte
  <2>4. rx_buffer' = Beginning(f, 0) /\ crc' = rx_buffer' /\ next_escaped' = (0 = 1)
    BY <1>2, <1>4, <2>1, <2>3 DEF decoder
  <2>5. delivered' = delivered /\ i # Length + 1
    BY <1>4, <2>3 DEF decoder
  <2> HIDE DEF k, f
  <2>6. Within(Following(p))'
    BY <2>1, <2>4 DEF Within, f
  <2> QED
    BY <2>5, <2>6
<1>5. CASE i = Length + 1
  <2>1. Following(p) = <<k + 1, 0, 0>> /\ p[3] = 0 /\ x = Flag /\ i # 0
    BY <1>1, <1>3, <1>5 DEF Following
  <2>2. rx_buffer = Whole(f) /\ rx_buffer # <<>>
    <3>1. rx_buffer = Beginning(f, Length)
      BY <1>2, <1>5, <2>1
    <3>2. Len(rx_buffer) = Length
      BY <3>1, Beginnings
    <3> QED
      BY <3>1, <3>2, BeginningEnds
  <2>3. ProcessFrame
    BY <2>1, <2>2, SymbolsDiffer DEF InputByte
  <2>4. ChecksumFits
    <3>1. k \in 1..Len(sends)
      BY <1>1, <2>1 DEF At
    <3>2. PICK t \in Threads, n \in 1..Frames : f = <<t, n>>
      BY <3>1
    <3> QED
      BY <1>2, <2>2, <3>2 DEF ChecksumFits, Frame
  <2>5. delivered' = Append(delivered, rx_buffer) /\ rx_buffer' = <<>> /\ crc' = <<>>
        /\ next_escaped' = next_escaped
    <3>1. rx_buffer[2][2] = Control
      BY <2>2, WholePlaces
    <3> QED
      BY <2>3, <2>4, <3>1 DEF ProcessFrame, Dispatch, HandUp
  <2>6. delivered' = Append(delivered, Whole(f)) /\ next_escaped' = (0 = 1)
    BY <1>2, <2>1, <2>2, <2>5
  <2>7. \A g : Beginning(g, 0) = <<>>
    BY BeginningEnds
  <2> HIDE DEF k, f
  <2>8. Within(Following(p))'
    BY <2>1, <2>5, <2>6, <2>7 DEF Within
  <2> QED
    BY <1>5, <2>6, <2>8 DEF k, f
<1>6. CASE i # 0 /\ i # Length + 1 /\ i \in Escaped /\ p[3] = 0
  <2>1. Following(p) = <<k, i, 1>> /\ x = Esc
    BY <1>6 DEF Following, Symbol
  <2>2. next_escaped' = TRUE /\ UNCHANGED <<rx_buffer, crc, delivered>>
    BY <2>1, SymbolsDiffer DEF InputByte
  <2>3. /\ rx_buffer' = Beginning(f, IF i = 0 THEN 0 ELSE i - 1)
        /\ crc' = rx_buffer' /\ next_escaped' = (1 = 1)
    BY <1>2, <2>2
  <2>4. delivered' = delivered
    BY <2>2
  <2> HIDE DEF k, i, f
  <2>5. Within(Following(p))'
    BY <2>1, <2>3 DEF Within, f
  <2> QED
    BY <1>6, <2>4, <2>5 DEF i
<1>7. CASE i # 0 /\ i # Length + 1 /\ ~(i \in Escaped /\ p[3] = 0)
  <2> DEFINE b == Plain(f, i)
  <2>1. Following(p) = <<k, i + 1, 0>> /\ x = Byte(f, i, p[3] = 0)
    BY <1>7 DEF Following, Symbol
  <2>2. x # Flag /\ x # Esc
    BY <2>1, SymbolsDiffer
  <2>3. SaveByte(b) /\ next_escaped' = FALSE /\ UNCHANGED delivered
    <3>1. /\ SaveByte(IF next_escaped THEN [x EXCEPT ![3] = ~@] ELSE x)
          /\ next_escaped' = FALSE /\ UNCHANGED delivered
      BY <2>2 DEF InputByte
    <3>2. CASE p[3] = 1
      <4>1. next_escaped = TRUE /\ x = Byte(f, i, FALSE)
        <5>1. (p[3] = 0) = FALSE /\ (p[3] = 1) = TRUE
          BY <3>2
        <5> QED
          BY <1>2, <2>1, <5>1
      <4>2. [x EXCEPT ![3] = ~@] = b
        BY <4>1, SavedByte
      <4> HIDE DEF b, x
      <4> QED
        BY <3>1, <4>1, <4>2
    <3>3. CASE p[3] = 0
      <4>1. next_escaped = FALSE /\ x = b
        <5>1. (p[3] = 0) = TRUE /\ (p[3] = 1) = FALSE
          BY <3>3
        <5> QED
          BY <1>2, <2>1, <5>1 DEF Plain
      <4> HIDE DEF b, x
      <4> QED
        BY <3>1, <4>1
    <3> QED
      BY <1>1, <3>2, <3>3
  <2>4. Len(rx_buffer) # Size /\ rx_buffer = Beginning(f, i - 1)
    <3>1. i - 1 \in Nat /\ i - 1 < Size
      BY <1>1, <1>7
    <3> DEFINE n == i - 1
    <3>2. rx_buffer = Beginning(f, n)
      BY <1>2, <1>7
    <3> HIDE DEF n
    <3>3. Len(rx_buffer) = n
      BY <3>1, <3>2, Beginnings DEF n
    <3> QED
      BY <3>1, <3>2, <3>3 DEF n
  <2>5. Append(Beginning(f, i - 1), b) = Beginning(f, i)
    <3> DEFINE n == i - 1
    <3>1. n \in Nat /\ n + 1 = i
      BY <1>1, <1>7
    <3> HIDE DEF n, i
    <3>2. Append(Beginning(f, n), Plain(f, n + 1)) = Beginning(f, n + 1)
      BY <3>1, Beginnings
    <3> QED
      BY <3>1, <3>2 DEF n
  <2>6. rx_buffer' = Beginning(f, i) /\ crc' = Beginning(f, i)
    <3> HIDE DEF b, i, f
    <3> QED
      BY <1>2, <2>3, <2>4, <2>5 DEF SaveByte
  <2>7. delivered' = delivered /\ next_escaped' = (0 = 1)
    <3>1. (0 = 1) = FALSE
      OBVIOUS
    <3> QED
      BY <1>2, <2>3, <3>1
  <2>8. i + 1 # 0 /\ (i + 1) - 1 = i
    BY <1>1
  <2> HIDE DEF k, i, f, b
  <2>9. Within(Following(p))'
    BY <2>1, <2>6, <2>7, <2>8 DEF Within, f
  <2> QED
    BY <1>7, <2>7, <2>9 DEF i
<1> QED
  BY <1>4, <1>5, <1>6, <1>7

LEMMA InputFollows ==
  ASSUME NEW CONSTANT p, At(sends, p), DecoderAt(p),
         InputByte(Symbol(sends, p)), UNCHANGED sends,
         \A i \in 1..Len(sends) : sends[i] \in Threads \X (1..Frames),
         Len(sends) \in Nat
  PROVE  DecoderAt(Following(p))'
<1> DEFINE k == p[1]
           i == p[2]
           z == Following(p)
<1>1. /\ Within(z)'
      /\ delivered' = IF i = Length + 1 THEN Append(delivered, Whole(sends[k])) ELSE delivered
  BY InputWithin DEF DecoderAt
<1>2. k \in Nat \ {0} /\ i \in Nat /\ delivered = Delivered(sends, k - 1)
  BY PlacesType DEF At, DecoderAt
<1>3. z[1] = IF i # 0 /\ i = Length + 1 THEN k + 1 ELSE k
  BY DEF Following
<1>4. Length + 1 # 0
  BY HdlcAssumption
<1>5. delivered' = Delivered(sends, z[1] - 1)
  <2>1. CASE i = Length + 1
    <3> DEFINE n == k - 1
    <3>1. n \in Nat /\ n + 1 = k /\ z[1] = k + 1 /\ z[1] - 1 = k
      <4>1. z[1] = k + 1
        BY <1>3, <1>4, <2>1
      <4> HIDE DEF z, k
      <4> QED
        BY <1>2, <4>1
    <3> HIDE DEF n, k, z
    <3>2. Append(Delivered(sends, n), Whole(sends[n + 1])) = Delivered(sends, n + 1)
      BY <3>1, DeliveredAppend
    <3> QED
      BY <1>1, <1>2, <2>1, <3>1, <3>2 DEF n
  <2>2. CASE i # Length + 1
    BY <1>1, <1>2, <1>3, <2>2
  <2> QED
    BY <2>1, <2>2
<1>6. UNCHANGED sends
  OBVIOUS
<1> HIDE DEF z
<1>7. PICK y : y = z
  OBVIOUS
<1>8. Within(y)' /\ delivered' = Delivered(sends', y[1] - 1)
  BY <1>1, <1>5, <1>6, <1>7
<1> QED
  BY <1>7, <1>8 DEF DecoderAt, z

-----------------------------------------------------------------------------
(* The senders                                                             *)

LEMMA UnreadIs == Unread = Reads(ring, done, fifo)
BY DEF Unread, Reads

\* What the receiver has does not depend on the frames to come.
LEMMA DecoderStays ==
  ASSUME NEW CONSTANT p, At(sends, p), DecoderAt(p), UNCHANGED decoder,
         NEW T, sends \in Seq(T), NEW x \in T, sends' = sends \/ sends' = Append(sends, x)
  PROVE  DecoderAt(p)'
<1>1. Len(sends) \in Nat /\ \A i \in 1..Len(sends) : sends'[i] = sends[i]
  OBVIOUS
<1>2. p[1] \in Nat \ {0} /\ p[1] - 1 <= Len(sends) /\ (p[2] # 0 => p[1] <= Len(sends))
  BY <1>1, PlacesType DEF At
<1>3. Delivered(sends', p[1] - 1) = Delivered(sends, p[1] - 1)
  <2>1. \A i \in 1..p[1] - 1 : sends'[i] = sends[i]
    BY <1>1, <1>2
  <2> QED
    BY <2>1 DEF Delivered
<1>4. CASE p[2] = 0
  <2>1. Beginning(sends'[p[1]], 0) = Beginning(sends[p[1]], 0)
    BY BeginningEnds
  <2> QED
    BY <1>3, <1>4, <2>1 DEF DecoderAt, Within, decoder
<1>5. CASE p[2] # 0
  <2>1. sends'[p[1]] = sends[p[1]]
    BY <1>1, <1>2, <1>5
  <2> QED
    BY <1>3, <1>5, <2>1 DEF DecoderAt, Within, decoder
<1> QED
  BY <1>4, <1>5

\* A symbol that the senders have sent and that was not lost.
LEMMA StreamGrows ==
  ASSUME IInv, TInv, NEW CONSTANT q, Linked(sends', q, Unread), Counted(q, Unread),
         DecoderAt(q[1])', NEW CONSTANT x, fifo' = Append(fifo, x), UNCHANGED <<ring, done>>,
         x = Symbol(sends', q[Len(q)]),
         NEW CONSTANT w, At(sends', w), w = Following(q[Len(q)]), Writes(w)'
  PROVE  Stream'
<1> DEFINE S == Line \cup {x}
           r == Append(q, w)
           s == Unread
<1>1. ring \in Seq(Line) /\ fifo \in Seq(Line) /\ done \in 0..Len(ring)
  BY DEF IInv, SenderOK, RingOK, TInv, TypeOK
<1>2. x \in S /\ Line \subseteq S
  OBVIOUS
<1> HIDE DEF S
<1>3. ring \in Seq(S) /\ fifo \in Seq(S)
  BY <1>1, <1>2, SeqMonotonic
<1>4. s \in Seq(S)
  BY <1>1, <1>3, ReadsElements, UnreadIs
<1>5. Unread' = Append(s, x)
  <2>1. Unread' = Reads(ring, done, Append(fifo, x))
    BY DEF Unread, Reads
  <2>2. Reads(ring, done, Append(fifo, x)) = Append(Reads(ring, done, fifo), x)
    BY <1>1, <1>2, <1>3, ReadsAppend
  <2> QED
    BY <2>1, <2>2, UnreadIs
<1> HIDE DEF s
<1>6. /\ Linked(sends', r, Append(s, x)) /\ Counted(r, Append(s, x))
      /\ r[1] = q[1] /\ r[Len(r)] = w
  <2>1. Linked(sends', q, s) /\ Counted(q, s)
    BY DEF s
  <2> QED
    BY <1>2, <1>4, <2>1, LinkedAppend
<1> HIDE DEF r
<1>7. Linked(sends', r, Unread') /\ Counted(r, Unread') /\ Writes(r[Len(r)])' /\ DecoderAt(r[1])'
  BY <1>5, <1>6
<1> QED
  BY <1>7 DEF Stream

LEMMA SentByMost ==
  ASSUME SenderOK, NEW t \in Threads
  PROVE  /\ SentBy(t) \in 0..Len(sends) /\ IsFiniteSet({i \in DOMAIN sends : sends[i][1] = t})
<1> DEFINE mine == {i \in DOMAIN sends : sends[i][1] = t}
           k == Len(sends)
<1>1. DOMAIN sends = 1..k /\ k \in Nat
  BY DEF SenderOK
<1>2. mine \subseteq 1..k
  BY <1>1
<1> HIDE DEF k, mine
<1>3. IsFiniteSet(1..k) /\ Cardinality(1..k) = k
  <2>1. /\ IsFiniteSet(1..k)
        /\ Cardinality(1..k) = IF 1 > k THEN 0 ELSE k - 1 + 1
    BY <1>1, FS_Interval
  <2> QED
    BY <1>1, <2>1
<1>4. IsFiniteSet(mine) /\ Cardinality(mine) <= k
  BY <1>2, <1>3, FS_Subset
<1>5. Cardinality(mine) \in Nat
  BY <1>4, FS_CardinalityType
<1> QED
  BY <1>1, <1>4, <1>5 DEF SentBy, mine, k

LEMMA SentByGrows ==
  ASSUME SenderOK, NEW t \in Threads, NEW n \in Nat, sends' = Append(sends, Frame(t, n))
  PROVE  SentBy(t)' = SentBy(t) + 1
<1> DEFINE mine == {i \in DOMAIN sends : sends[i][1] = t}
           more == {i \in DOMAIN sends' : sends'[i][1] = t}
           k == Len(sends)
<1>1. Frame(t, n) \in Threads \X Nat /\ Frame(t, n)[1] = t
  BY DEF Frame
<1>2. /\ DOMAIN sends = 1..k /\ k \in Nat /\ DOMAIN sends' = 1..k + 1
      /\ sends'[k + 1] = Frame(t, n) /\ \A i \in 1..k : sends'[i] = sends[i]
  BY <1>1, AppendProperties DEF SenderOK
<1>3. more = mine \cup {k + 1}
  <2>1. \A i \in 1..k + 1 : i \in 1..k \/ i = k + 1
    BY <1>2
  <2>2. \A i \in 1..k : i \in 1..k + 1
    BY <1>2
  <2>3. k + 1 \in 1..k + 1
    BY <1>2
  <2> HIDE DEF k
  <2> QED
    BY <1>1, <1>2, <2>1, <2>2, <2>3
<1>4. k + 1 \notin mine /\ IsFiniteSet(mine)
  <2>1. k + 1 \notin mine
    BY <1>2
  <2>2. IsFiniteSet(mine)
    BY SentByMost
  <2> QED
    BY <2>1, <2>2
<1> HIDE DEF mine, k
<1>5. Cardinality(mine \cup {k + 1}) = Cardinality(mine) + 1
  BY <1>4, FS_AddElement
<1> QED
  BY <1>3, <1>5 DEF SentBy, mine

(***************************************************************************)
(* A send polls out the symbol x that stands at the place w of the         *)
(* senders, and they stand at z then.                                      *)
(***************************************************************************)
Sends(w, x, z) ==
  /\ PollOut(x) /\ x = Symbol(sends', w)
  /\ At(sends', z) /\ z = Following(w) /\ Writes(z)'
  /\ UNCHANGED <<ring, done, decoder>>
  /\ sends' = sends \/ \E f \in Threads \X Nat : sends' = Append(sends, f)

\* The writer in the middle of a frame is the one that sends.
LEMMA Writer ==
  ASSUME NEW CONSTANT w, Writes(w), NEW CONSTANT t \in Threads, place[t] # Idle
  PROVE  /\ \A u \in Threads : u # t => place[u] = Idle
         /\ sends # <<>> /\ sends[Len(sends)] = Frame(t, SentBy(t))
         /\ w = <<Len(sends), place[t], IF escape[t] THEN 1 ELSE 0>>
<1>1. PICK v \in Threads :
        /\ place[v] # Idle /\ \A u \in Threads : u # v => place[u] = Idle
        /\ sends # <<>> /\ sends[Len(sends)] = Frame(v, SentBy(v))
        /\ w = <<Len(sends), place[v], IF escape[v] THEN 1 ELSE 0>>
  BY DEF Writes
<1>2. v = t
  BY <1>1
<1> QED
  BY <1>1, <1>2

LEMMA StartSends ==
  ASSUME IInv, TInv, Turns, NEW CONSTANT w, Writes(w), NEW CONSTANT t \in Threads,
         SendStart(t), ~clash'
  PROVE  \E x, z : Sends(w, x, z)
<1> USE HdlcAssumption
<1> DEFINE k == Len(sends)
<1>1. \A u \in Threads : place[u] = Idle
  BY DEF SendStart
<1>2. w = <<k + 1, 0, 0>>
  BY <1>1 DEF Writes
<1>3. SentBy(t) \in Nat /\ sends \in Seq(Threads \X Nat) /\ k \in Nat
  BY SentByNat DEF IInv, SenderOK
<1>4. PICK n \in Nat : n = SentBy(t) + 1
  BY <1>3
<1>5. /\ sends' = Append(sends, Frame(t, n)) /\ Frame(t, n) \in Threads \X Nat
      /\ place' = [place EXCEPT ![t] = 1] /\ UNCHANGED escape
  BY <1>4 DEF SendStart, Frame
<1>6. Len(sends') = k + 1 /\ sends'[k + 1] = Frame(t, n)
  BY <1>3, <1>5, AppendProperties
<1>7. SentBy(t)' = n
  BY <1>3, <1>4, <1>5, SentByGrows DEF IInv
<1>8. PICK z : z = <<k + 1, 1, 0>>
  OBVIOUS
<1>9. At(sends', z)
  <2>1. k + 1 \in Nat \ {0} /\ 1 \in 0..Length + 1 /\ 0 \in {0, 1}
    BY <1>3
  <2>2. z \in Places
    BY <1>8, <2>1 DEF Places
  <2> QED
    BY <1>3, <1>6, <1>8, <2>2 DEF At
<1>10. Flag = Symbol(sends', w) /\ z = Following(w)
  <2>1. w[1] = k + 1 /\ w[2] = 0
    BY <1>2
  <2> HIDE DEF k
  <2> QED
    BY <1>8, <2>1 DEF Symbol, Following
<1>11. Writes(z)'
  <2>1. place \in [Threads -> 0..Length + 1]
    BY DEF IInv, SenderOK
  <2>2. place'[t] = 1 /\ \A u \in Threads : u # t => place'[u] = Idle
    BY <1>1, <1>5, <2>1
  <2>3. ~escape'[t]
    BY <1>1, <1>5 DEF Turns, Idle
  <2>4. sends' # <<>> /\ sends'[Len(sends')] = Frame(t, SentBy(t)')
    BY <1>3, <1>6, <1>7
  <2>5. z = <<Len(sends'), place'[t], IF escape'[t] THEN 1 ELSE 0>>
    BY <1>6, <1>8, <2>2, <2>3
  <2>6. place'[t] # Idle
    BY <2>2 DEF Idle
  <2> QED
    BY <2>2, <2>4, <2>5, <2>6 DEF Writes
<1>12. PICK x : x = Flag
  OBVIOUS
<1>13. /\ UNCHANGED <<ring, done, decoder>>
       /\ \E f \in Threads \X Nat : sends' = Append(sends, f)
       /\ PollOut(x)
  BY <1>5, <1>12 DEF SendStart, rx_work
<1>14. Sends(w, x, z)
  BY <1>9, <1>10, <1>11, <1>12, <1>13 DEF Sends
<1> QED
  BY <1>14

LEMMA EscapeSends ==
  ASSUME IInv, TInv, Turns, NEW CONSTANT w, Writes(w), NEW CONSTANT t \in Threads,
         SendEscape(t)
  PROVE  \E x, z : Sends(w, x, z)
<1> USE HdlcAssumption
<1>1. PICK k, i : k = Len(sends) /\ i = place[t]
  OBVIOUS
<1>2. i \in Escaped /\ i \in 1..Length /\ ~escape[t] /\ place[t] # Idle
  <2>1. i \in Escaped /\ ~escape[t]
    BY <1>1 DEF SendEscape
  <2>2. i \in 1..Length
    BY <2>1
  <2>3. place[t] # Idle
    BY <1>1, <2>2 DEF Idle
  <2> QED
    BY <2>1, <2>2, <2>3
<1>3. /\ \A u \in Threads : u # t => place[u] = Idle
      /\ sends # <<>> /\ sends[k] = Frame(t, SentBy(t))
      /\ w = <<k, i, 0>>
  BY <1>1, <1>2, Writer
<1>4. k \in Nat \ {0}
  BY <1>1, <1>3 DEF IInv, SenderOK
<1>5. PICK z : z = <<k, i, 1>>
  OBVIOUS
<1>6. /\ UNCHANGED <<sends, place>> /\ escape' = [escape EXCEPT ![t] = TRUE]
  BY DEF SendEscape
<1>7. At(sends', z)
  <2>1. i \in 0..Length + 1 /\ 1 \in {0, 1}
    BY <1>2
  <2>2. z \in Places
    BY <1>4, <1>5, <2>1 DEF Places
  <2> QED
    BY <1>1, <1>2, <1>4, <1>5, <1>6, <2>2 DEF At
<1>8. Esc = Symbol(sends', w) /\ z = Following(w)
  <2>1. w[1] = k /\ w[2] = i /\ w[3] = 0 /\ i # 0 /\ i # Length + 1
    BY <1>2, <1>3
  <2> QED
    BY <1>2, <1>5, <2>1 DEF Symbol, Following
<1>9. Writes(z)'
  <2>1. escape'[t] = TRUE
    BY <1>6 DEF IInv, SenderOK
  <2>2. SentBy(t)' = SentBy(t)
    BY <1>6 DEF SentBy
  <2>3. z = <<Len(sends'), place'[t], IF escape'[t] THEN 1 ELSE 0>>
    BY <1>1, <1>5, <1>6, <2>1
  <2> QED
    BY <1>1, <1>2, <1>3, <1>6, <2>2, <2>3 DEF Writes
<1>10. PICK x : x = Esc
  OBVIOUS
<1>11. UNCHANGED <<ring, done, decoder>> /\ sends' = sends /\ PollOut(x)
  BY <1>6, <1>10 DEF SendEscape, rx_work
<1>12. Sends(w, x, z)
  BY <1>7, <1>8, <1>9, <1>10, <1>11 DEF Sends
<1> QED
  BY <1>12

LEMMA ByteSends ==
  ASSUME IInv, TInv, Turns, NEW CONSTANT w, Writes(w), NEW CONSTANT t \in Threads,
         SendByte(t)
  PROVE  \E x, z : Sends(w, x, z)
<1> USE HdlcAssumption
<1>1. PICK k, i : k = Len(sends) /\ i = place[t]
  OBVIOUS
<1>2. i \in 1..Length /\ (i \in Escaped => escape[t]) /\ (escape[t] => i \in Escaped)
      /\ place[t] # Idle
  BY <1>1 DEF SendByte, Turns, Idle
<1>3. PICK e : e = IF escape[t] THEN 1 ELSE 0
  OBVIOUS
<1>4. /\ \A u \in Threads : u # t => place[u] = Idle
      /\ sends # <<>> /\ sends[k] = Frame(t, SentBy(t))
      /\ w = <<k, i, e>>
  BY <1>1, <1>2, <1>3, Writer
<1>5. k \in Nat \ {0}
  BY <1>1, <1>4 DEF IInv, SenderOK
<1>6. PICK z : z = <<k, i + 1, 0>>
  OBVIOUS
<1>7. /\ sends' = sends /\ place' = [place EXCEPT ![t] = @ + 1]
      /\ escape' = [escape EXCEPT ![t] = FALSE]
  BY DEF SendByte
<1>8. At(sends', z)
  <2>1. i + 1 \in 0..Length + 1 /\ 0 \in {0, 1} /\ i + 1 # 0
    BY <1>2
  <2>2. z \in Places
    BY <1>5, <1>6, <2>1 DEF Places
  <2>3. z[1] = k /\ z[2] = i + 1 /\ z[3] = 0
    BY <1>6
  <2> QED
    BY <1>1, <1>5, <1>7, <2>1, <2>2, <2>3 DEF At
<1>9. PICK x : x = Byte(sends[k], i, e = 0)
  OBVIOUS
<1>10. x = Symbol(sends', w) /\ z = Following(w)
  <2>1. w[1] = k /\ w[2] = i /\ w[3] = e /\ i # 0 /\ i # Length + 1
    BY <1>2, <1>4
  <2>2. ~(i \in Escaped /\ e = 0)
    BY <1>2, <1>3
  <2> QED
    BY <1>6, <1>7, <1>9, <2>1, <2>2 DEF Symbol, Following
<1>11. PollOut(x)
  <2>1. CASE escape[t]
    <3>1. (e = 0) = FALSE /\ (~escape[t]) = FALSE
      BY <1>3, <2>1
    <3> QED
      BY <1>1, <1>4, <1>9, <3>1 DEF SendByte
  <2>2. CASE ~escape[t]
    <3>1. (e = 0) = TRUE /\ (~escape[t]) = TRUE
      BY <1>3, <2>2
    <3> QED
      BY <1>1, <1>4, <1>9, <3>1 DEF SendByte
  <2> QED
    BY <2>1, <2>2
<1>12. Writes(z)'
  <2>1. /\ place \in [Threads -> 0..Length + 1] /\ escape \in [Threads -> BOOLEAN]
    BY DEF IInv, SenderOK
  <2>2. /\ escape'[t] = FALSE /\ place'[t] = i + 1
        /\ \A u \in Threads : u # t => place'[u] = Idle
    BY <1>1, <1>4, <1>7, <2>1
  <2>3. SentBy(t)' = SentBy(t)
    BY <1>7 DEF SentBy
  <2>4. z = <<Len(sends'), place'[t], IF escape'[t] THEN 1 ELSE 0>>
    BY <1>1, <1>6, <1>7, <2>2
  <2>5. place'[t] # Idle
    BY <1>2, <2>2 DEF Idle
  <2> QED
    BY <1>1, <1>4, <1>7, <2>2, <2>3, <2>4, <2>5 DEF Writes
<1>13. UNCHANGED <<ring, done, decoder>>
  BY DEF SendByte, rx_work
<1>14. Sends(w, x, z)
  BY <1>7, <1>8, <1>10, <1>11, <1>12, <1>13 DEF Sends
<1> QED
  BY <1>14

LEMMA EndSends ==
  ASSUME IInv, TInv, Turns, NEW CONSTANT w, Writes(w), NEW CONSTANT t \in Threads,
         SendEnd(t)
  PROVE  \E x, z : Sends(w, x, z)
<1> USE HdlcAssumption
<1>1. PICK k : k = Len(sends)
  OBVIOUS
<1>2. place[t] = Length + 1 /\ place[t] # Idle /\ ~escape[t]
  BY DEF SendEnd, Turns, Idle
<1>3. /\ \A u \in Threads : u # t => place[u] = Idle
      /\ sends # <<>> /\ w = <<k, Length + 1, 0>>
  BY <1>1, <1>2, Writer
<1>4. k \in Nat \ {0}
  BY <1>1, <1>3 DEF IInv, SenderOK
<1>5. PICK z : z = <<k + 1, 0, 0>>
  OBVIOUS
<1>6. sends' = sends /\ place' = [place EXCEPT ![t] = Idle]
  BY DEF SendEnd
<1>7. At(sends', z)
  <2>1. 0 \in 0..Length + 1 /\ 0 \in {0, 1} /\ k + 1 \in Nat \ {0}
    BY <1>4
  <2>2. z \in Places
    BY <1>5, <2>1 DEF Places
  <2>3. z[1] = k + 1 /\ z[2] = 0 /\ z[3] = 0
    BY <1>5
  <2> QED
    BY <1>1, <1>4, <1>6, <2>2, <2>3 DEF At
<1>8. PICK x : x = Flag
  OBVIOUS
<1>9. x = Symbol(sends', w) /\ z = Following(w)
  <2>1. w[1] = k /\ w[2] = Length + 1 /\ Length + 1 # 0
    BY <1>3
  <2> QED
    BY <1>5, <1>8, <2>1 DEF Symbol, Following
<1>10. Writes(z)'
  <2>1. place \in [Threads -> 0..Length + 1]
    BY DEF IInv, SenderOK
  <2>2. \A u \in Threads : place'[u] = Idle
    BY <1>3, <1>6, <2>1
  <2> QED
    BY <1>1, <1>5, <1>6, <2>2 DEF Writes
<1>11. UNCHANGED <<ring, done, decoder>> /\ PollOut(x)
  BY <1>8 DEF SendEnd, rx_work
<1>12. Sends(w, x, z)
  BY <1>6, <1>7, <1>9, <1>10, <1>11 DEF Sends
<1> QED
  BY <1>12

\* Every send is one.
LEMMA TurnSends ==
  ASSUME IInv, TInv, Turns, NEW CONSTANT w, Writes(w), Send, ~clash'
  PROVE  ~clash /\ \E x, z : Sends(w, x, z)
<1>1. PICK t \in Threads : SendStart(t) \/ SendEscape(t) \/ SendByte(t) \/ SendEnd(t)
  BY DEF Send
<1>2. ~clash
  BY <1>1 DEF SendStart, SendEscape, SendByte, SendEnd
<1> QED
  BY <1>1, <1>2, StartSends, EscapeSends, ByteSends, EndSends

\* A symbol is on the line: the senders stand one place further.
LEMMA StreamSent ==
  ASSUME IInv, TInv, NEW CONSTANT q, Linked(sends, q, Unread), Counted(q, Unread),
         DecoderAt(q[1]), NEW CONSTANT x, NEW CONSTANT w, Sends(q[Len(q)], x, w), lost' = lost
  PROVE  Stream'
<1>1. sends \in Seq(Threads \X Nat)
  BY DEF IInv, SenderOK
<1>2. Len(Unread) \in Nat
  <2>1. ring \in Seq(Line) /\ fifo \in Seq(Line) /\ done \in 0..Len(ring)
    BY DEF IInv, SenderOK, RingOK, TInv, TypeOK
  <2>2. Reads(ring, done, fifo) \in Seq(Line)
    BY <2>1, ReadsElements
  <2> QED
    BY <2>2, UnreadIs
<1>3. Linked(sends', q, Unread)
  BY <1>1, <1>2, LinkedStays DEF Sends
<1>4. At(sends, q[1])
  <2>1. 1 \in 1..Len(q)
    BY <1>2 DEF Linked
  <2> QED
    BY <2>1 DEF Linked
<1>5. DecoderAt(q[1])'
  <2>1. CASE sends' = sends
    BY <2>1 DEF Sends, DecoderAt, Within, decoder
  <2>2. CASE \E f \in Threads \X Nat : sends' = Append(sends, f)
    <3>1. UNCHANGED decoder
      BY DEF Sends
    <3>2. PICK p : p = q[1]
      OBVIOUS
    <3>3. DecoderAt(p)'
      BY <1>1, <1>4, <2>2, <3>1, <3>2, DecoderStays
    <3> QED
      BY <3>2, <3>3
  <2> QED
    BY <2>1, <2>2 DEF Sends
<1>6. UNCHANGED <<ring, done>>
  BY DEF Sends
<1>7. fifo' = Append(fifo, x)
  <2>1. lost + 1 # lost
    BY DEF TInv, TypeOK
  <2> QED
    BY <2>1 DEF Sends, PollOut
<1> QED
  BY <1>3, <1>5, <1>6, <1>7, StreamGrows DEF Sends

LEMMA SendTurns ==
  ASSUME IInv, TInv, Turns, NEW t \in Threads,
         SendStart(t) \/ SendEscape(t) \/ SendByte(t) \/ SendEnd(t)
  PROVE  Turns'
<1> USE HdlcAssumption
<1>1. /\ place \in [Threads -> 0..Length + 1] /\ escape \in [Threads -> BOOLEAN]
      /\ sends \in Seq(Threads \X Nat) /\ Len(sends) \in Nat
  BY DEF IInv, SenderOK
<1>2. ~running' => done' = 0
  BY DEF SendStart, SendEscape, SendByte, SendEnd, rx_work, Turns
<1>3. \A u \in Threads : escape[u] => place[u] \in Escaped
  BY DEF Turns
<1>4. 0 \notin Escaped /\ Length + 1 \notin Escaped
  OBVIOUS
<1>5. ASSUME NEW u \in Threads, escape'[u]
      PROVE  place'[u] \in Escaped
  <2>1. CASE u # t
    <3>1. place'[u] = place[u] /\ escape'[u] = escape[u]
      BY <1>1, <2>1 DEF SendStart, SendEscape, SendByte, SendEnd
    <3> QED
      BY <1>3, <1>5, <3>1
  <2>2. CASE u = t
    <3>1. CASE SendStart(t)
      BY <1>3, <1>4, <1>5, <2>2, <3>1 DEF SendStart, Idle
    <3>2. CASE SendEscape(t)
      BY <1>1, <2>2, <3>2 DEF SendEscape
    <3>3. CASE SendByte(t)
      BY <1>1, <1>5, <2>2, <3>3 DEF SendByte
    <3>4. CASE SendEnd(t)
      BY <1>3, <1>4, <1>5, <2>2, <3>4 DEF SendEnd
    <3> QED
      BY <3>1, <3>2, <3>3, <3>4
  <2> QED
    BY <2>1, <2>2
<1>6. \A i \in 1..Len(sends) : sends[i] \in Threads \X (1..Frames)
  BY DEF Turns
<1>7. \A i \in 1..Len(sends') : sends'[i] \in Threads \X (1..Frames)
  <2>1. CASE UNCHANGED sends
    BY <1>6, <2>1
  <2>2. CASE SendStart(t)
    <3>1. SentBy(t) \in 0..Len(sends) /\ Len(sends) < Frames
      BY <2>2, SentByMost DEF IInv, SendStart
    <3>2. PICK f : f = Frame(t, SentBy(t) + 1)
      OBVIOUS
    <3>3. f \in Threads \X (1..Frames) /\ f \in Threads \X Nat
      <4>1. SentBy(t) + 1 \in 1..Frames /\ SentBy(t) + 1 \in Nat
        BY <1>1, <3>1
      <4> QED
        BY <3>2, <4>1 DEF Frame
    <3>4. sends' = Append(sends, f)
      BY <2>2, <3>2 DEF SendStart
    <3>5. /\ Len(sends') = Len(sends) + 1 /\ sends'[Len(sends) + 1] = f
          /\ \A i \in 1..Len(sends) : sends'[i] = sends[i]
      BY <1>1, <3>3, <3>4, AppendProperties
    <3>6. \A i \in 1..Len(sends') : i \in 1..Len(sends) \/ i = Len(sends) + 1
      <4>1. PICK m, l : m = Len(sends) /\ l = Len(sends')
        OBVIOUS
      <4>2. m \in Nat /\ l = m + 1
        BY <1>1, <3>5, <4>1
      <4>3. \A i \in 1..l : i \in 1..m \/ i = m + 1
        BY <4>2
      <4> QED
        BY <4>1, <4>3
    <3> QED
      BY <1>6, <3>3, <3>5, <3>6
  <2> QED
    BY <2>1, <2>2 DEF SendEscape, SendByte, SendEnd
<1> QED
  BY <1>2, <1>5, <1>7 DEF Turns

LEMMA SendSInv ==
  ASSUME IInv, TInv, SInv, Send
  PROVE  SInv'
<1>1. PICK t \in Threads : SendStart(t) \/ SendEscape(t) \/ SendByte(t) \/ SendEnd(t)
  BY DEF Send
<1>2. Turns /\ Turns'
  BY <1>1, SendTurns DEF SInv
<1>3. ASSUME lost' = 0, ~clash'
      PROVE  Stream'
  <2>1. lost = 0
    <3>1. PICK x : PollOut(x)
      BY <1>1 DEF SendStart, SendEscape, SendByte, SendEnd
    <3>2. lost \in Nat /\ (lost' = lost \/ lost' = lost + 1)
      BY <3>1 DEF PollOut, TInv, TypeOK
    <3> QED
      BY <1>3, <3>2
  <2>2. ~clash
    BY <1>1, <1>3 DEF SendStart, SendEscape, SendByte, SendEnd
  <2>3. PICK q : /\ Linked(sends, q, Unread) /\ Counted(q, Unread)
                 /\ Writes(q[Len(q)]) /\ DecoderAt(q[1])
    BY <2>1, <2>2 DEF SInv, Stream
  <2>4. PICK x, z : Sends(q[Len(q)], x, z)
    <3>1. PICK w : w = q[Len(q)]
      OBVIOUS
    <3>2. \E x, z : Sends(w, x, z)
      BY <1>2, <1>3, <2>3, <3>1, TurnSends
    <3> QED
      BY <3>1, <3>2
  <2> QED
    BY <1>3, <2>1, <2>3, <2>4, StreamSent
<1> QED
  BY <1>2, <1>3 DEF SInv

-----------------------------------------------------------------------------
(* The interrupt and the work                                              *)

\* Where symbols only move, nothing changes.
LEMMA StreamStays ==
  ASSUME Stream, UNCHANGED <<sends, place, escape, decoder>>, Unread' = Unread
  PROVE  Stream'
<1>1. PICK q : /\ Linked(sends, q, Unread) /\ Counted(q, Unread)
               /\ Writes(q[Len(q)]) /\ DecoderAt(q[1])
  BY DEF Stream
<1>2. Linked(sends', q, Unread') /\ Counted(q, Unread')
  BY <1>1
<1>3. Writes(q[Len(q)])'
  BY <1>1 DEF Writes, SentBy
<1>4. DecoderAt(q[1])'
  BY <1>1 DEF DecoderAt, Within, decoder
<1> QED
  BY <1>2, <1>3, <1>4 DEF Stream

LEMMA RxByteStream ==
  ASSUME IInv, TInv, Turns, Stream, RxByte
  PROVE  Stream'
<1>1. PICK q : /\ Linked(sends, q, Unread) /\ Counted(q, Unread)
               /\ Writes(q[Len(q)]) /\ DecoderAt(q[1])
  BY DEF Stream
<1>2. PICK s, r : s = Unread /\ r = Tail(q)
  OBVIOUS
<1>3. /\ ring \in Seq(Line) /\ fifo \in Seq(Line) /\ done \in 0..Len(ring)
      /\ claim \in 0..Len(ring) /\ done < claim /\ Len(sends) \in Nat
  BY DEF IInv, SenderOK, RingOK, TInv, TypeOK, RxByte
<1>4. done < Len(ring)
  BY <1>3
<1>5. s \in Seq(Line) /\ s # <<>> /\ s[1] = ring[done + 1]
  <2>1. Reads(ring, done, fifo) \in Seq(Line)
    BY <1>3, ReadsElements
  <2>2. Reads(ring, done, fifo) # <<>> /\ Reads(ring, done, fifo)[1] = ring[done + 1]
    BY <1>3, <1>4, ReadsTail
  <2> QED
    BY <1>2, <2>1, <2>2, UnreadIs
<1>6. Unread' = Tail(s)
  <2>1. Unread' = Reads(ring, done + 1, fifo)
    BY DEF Unread, Reads, RxByte, uart
  <2>2. Tail(Reads(ring, done, fifo)) = Reads(ring, done + 1, fifo)
    BY <1>3, <1>4, ReadsTail
  <2> QED
    BY <1>2, <2>1, <2>2, UnreadIs
<1>7. /\ Linked(sends, r, Tail(s)) /\ Counted(r, Tail(s))
      /\ r[1] = q[2] /\ r[Len(r)] = q[Len(q)]
      /\ s[1] = Symbol(sends, q[1]) /\ q[2] = Following(q[1])
      /\ At(sends, q[1]) /\ At(sends, q[2])
  <2>1. Linked(sends, q, s) /\ Counted(q, s)
    BY <1>1, <1>2
  <2>2. s \in Seq(Line) /\ s # <<>>
    BY <1>5
  <2>3. Shortened(sends, q, s, Tail(q), Tail(s))
    BY <2>1, <2>2, LinkedTail
  <2>4. Shortened(sends, q, s, r, Tail(s))
    BY <1>2, <2>3
  <2> QED
    BY <2>4 DEF Shortened
<1>8. UNCHANGED <<sends, place, escape>>
  BY DEF RxByte, sender
<1>9. DecoderAt(r[1])'
  <2>1. PICK p : p = q[1]
    OBVIOUS
  <2>2. InputByte(Symbol(sends, p))
    <3>1. InputByte(ring[done + 1]) /\ ring[done + 1] = Symbol(sends, p)
      BY <1>5, <1>7, <2>1 DEF RxByte
    <3> QED
      BY <3>1
  <2>3. At(sends, p) /\ DecoderAt(p)
    BY <1>1, <1>7, <2>1
  <2>4. DecoderAt(Following(p))'
    BY <1>3, <1>8, <2>2, <2>3, InputFollows DEF Turns
  <2> QED
    BY <1>7, <2>1, <2>4
<1>10. Writes(r[Len(r)])'
  <2>1. Writes(r[Len(r)])
    BY <1>1, <1>7
  <2> QED
    BY <1>8, <2>1 DEF Writes, SentBy
<1>11. Linked(sends', r, Unread') /\ Counted(r, Unread')
  BY <1>6, <1>7, <1>8
<1> QED
  BY <1>9, <1>10, <1>11 DEF Stream

\* The interrupt and the work move symbols; only RxByte reads one.
LEMMA MovesOnly ==
  ASSUME IInv, TInv, Turns, Interrupt \/ Handler
  PROVE  RxByte \/ (Unread' = Unread /\ UNCHANGED decoder)
<1>1. /\ ring \in Seq(Line) /\ fifo \in Seq(Line) /\ done \in 0..Len(ring)
      /\ Len(fifo) \in Nat
  BY DEF IInv, SenderOK, RingOK, TInv, TypeOK
<1>2. ASSUME NEW n \in 1..Fifo, Receive(n)
      PROVE  Unread' = Unread /\ UNCHANGED decoder
  <2>1. n \in 0..Len(fifo)
    BY HdlcAssumption, <1>1, <1>2 DEF Receive, PutClaim, Smaller, IInv, RingOK
  <2>2. Unread' = Reads(ring \o SubSeq(fifo, 1, n), done, SubSeq(fifo, n + 1, Len(fifo)))
    BY <1>2 DEF Receive, Unread, Reads, rx_work
  <2>3. Unread' = Reads(ring, done, fifo)
    BY <1>1, <2>1, <2>2, ReadsMove
  <2> QED
    BY <1>2, <2>3, UnreadIs DEF Receive
<1>3. ASSUME RxStart
      PROVE  Unread' = Unread /\ UNCHANGED decoder
  BY <1>3 DEF RxStart, Unread, Turns, uart
<1>4. ASSUME RxFinish
      PROVE  Unread' = Unread /\ UNCHANGED decoder
  <2>1. Unread' = Reads(SubSeq(ring, done + 1, Len(ring)), 0, fifo)
    BY <1>4 DEF RxFinish, Unread, Reads, uart
  <2>2. Unread' = Reads(ring, done, fifo)
    BY <1>1, <2>1, ReadsFree
  <2> QED
    BY <1>4, <2>2, UnreadIs DEF RxFinish
<1> QED
  BY <1>2, <1>3, <1>4 DEF Interrupt, Handler

LEMMA ReceiverSInv ==
  ASSUME IInv, TInv, SInv, Interrupt \/ Handler
  PROVE  SInv'
<1>1. UNCHANGED <<sender, lost>>
  BY DEF Interrupt, Receive, Handler, RxStart, RxByte, RxFinish, uart
<1>2. Turns
  BY DEF SInv
<1>3. Turns'
  <2>1. ~running' => done' = 0
    BY <1>2 DEF Interrupt, Receive, Handler, RxStart, RxByte, RxFinish, rx_work, Turns
  <2> QED
    BY <1>1, <1>2, <2>1 DEF Turns, sender
<1>4. ASSUME Stream
      PROVE  Stream'
  <2>1. UNCHANGED <<sends, place, escape>>
    BY <1>1 DEF sender
  <2>2. CASE RxByte
    BY <1>2, <1>4, <2>2, RxByteStream
  <2>3. CASE Unread' = Unread /\ UNCHANGED decoder
    BY <1>4, <2>1, <2>3, StreamStays
  <2> QED
    BY <1>2, <2>2, <2>3, MovesOnly
<1> QED
  BY <1>1, <1>3, <1>4 DEF SInv, sender

LEMMA InitSInv == Init => SInv
<1> SUFFICES ASSUME Init PROVE SInv
  OBVIOUS
<1> USE HdlcAssumption
<1>1. Turns
  BY DEF Init, Turns
<1>2. Stream
  <2>1. PICK w : w = <<1, 0, 0>>
    OBVIOUS
  <2>2. PICK q : q = <<w>>
    OBVIOUS
  <2>3. Unread = <<>>
    BY DEF Init, Unread
  <2>4. Len(sends) = 0 /\ sends = <<>>
    BY DEF Init
  <2>5. w \in Places
    <3>1. 1 \in Nat \ {0} /\ 0 \in 0..Length + 1 /\ 0 \in {0, 1}
      OBVIOUS
    <3> QED
      BY <2>1, <3>1 DEF Places
  <2>6. w[1] = 1 /\ w[2] = 0 /\ w[3] = 0
    BY <2>1
  <2>7. At(sends, w)
    BY <2>4, <2>5, <2>6 DEF At
  <2>8. Len(q) = 1 /\ q[1] = w /\ q \in Seq(Places)
    BY <2>2, <2>5
  <2>9. Linked(sends, q, <<>>)
    <3>1. \A i \in 1..Len(q) : q[i] = w
      BY <2>8
    <3>2. Len(q) = Len(<<>>) + 1 /\ 1..Len(<<>>) = {}
      BY <2>8
    <3> QED
      BY <2>7, <2>8, <3>1, <3>2 DEF Linked
  <2>10. Counted(q, <<>>)
    BY <2>6, <2>8, FlagsEmpty DEF Counted, FlagsBefore
  <2>11. Writes(w)
    BY <2>1, <2>4 DEF Writes, Init
  <2>12. DecoderAt(w)
    <3>1. Delivered(sends, 0) = <<>> /\ Beginning(sends[1], 0) = <<>>
      BY BeginningEnds DEF Delivered
    <3>2. w[1] - 1 = 0 /\ (w[3] = 1) = FALSE
      BY <2>6
    <3>3. delivered = <<>> /\ rx_buffer = <<>> /\ crc = <<>> /\ next_escaped = FALSE
      BY DEF Init
    <3>4. delivered = Delivered(sends, w[1] - 1)
      BY <3>1, <3>2, <3>3
    <3>5. rx_buffer = Beginning(sends[w[1]], 0)
      BY <2>6, <3>1, <3>3
    <3> QED
      BY <2>6, <3>2, <3>3, <3>4, <3>5 DEF DecoderAt, Within
  <2> QED
    BY <2>3, <2>8, <2>9, <2>10, <2>11, <2>12 DEF Stream
<1> QED
  BY <1>1, <1>2 DEF SInv

LEMMA NextSInv == IInv /\ IInv' /\ TInv /\ SInv /\ [Next]_vars => TInv' /\ SInv'
<1> SUFFICES ASSUME IInv, IInv', TInv, SInv, [Next]_vars
             PROVE  TInv' /\ SInv'
  OBVIOUS
<1>1. ASSUME UNCHANGED vars
      PROVE  SInv'
  <2>1. UNCHANGED <<sends, place, escape, decoder>> /\ Unread' = Unread
    BY <1>1 DEF vars, sender, uart, rx_work, Unread
  <2>2. Turns'
    BY <1>1 DEF SInv, Turns, vars, sender, rx_work
  <2>3. UNCHANGED <<lost, clash>>
    BY <1>1 DEF vars, sender, uart
  <2> QED
    BY <2>1, <2>2, <2>3, StreamStays DEF SInv
<1> QED
  BY <1>1, NextTInv, SendSInv, ReceiverSInv DEF Next

-----------------------------------------------------------------------------
(* Flags sent, and flags read                                              *)

LEMMA FlagsSent ==
  ASSUME IInv, NEW CONSTANT w, Writes(w)
  PROVE  SentFlags = FlagsBefore(w)
<1> DEFINE busy == {t \in Threads : place[t] # Idle}
           k == Len(sends)
<1>1. k \in Nat
  BY DEF IInv, SenderOK
<1>2. CASE (\A t \in Threads : place[t] = Idle) /\ w = <<k + 1, 0, 0>>
  <2>1. Cardinality(busy) = 0
    BY <1>2, FS_EmptySet
  <2>2. FlagsBefore(w) = 2 * ((k + 1) - 1) + 0
    BY <1>2 DEF FlagsBefore
  <2>3. SentFlags = 2 * k - Cardinality(busy)
    BY DEF SentFlags
  <2> HIDE DEF k, busy
  <2> QED
    BY <1>1, <2>1, <2>2, <2>3
<1>3. ASSUME NEW t \in Threads, place[t] # Idle, \A u \in Threads : u # t => place[u] = Idle,
             w = <<k, place[t], IF escape[t] THEN 1 ELSE 0>>
      PROVE  SentFlags = FlagsBefore(w)
  <2>1. busy = {t}
    BY <1>3
  <2>2. Cardinality(busy) = 1
    BY <2>1, FS_Singleton
  <2>3. FlagsBefore(w) = 2 * (k - 1) + 1
    BY <1>3 DEF FlagsBefore, Idle
  <2>4. SentFlags = 2 * k - Cardinality(busy)
    BY DEF SentFlags
  <2> HIDE DEF k, busy
  <2> QED
    BY <1>1, <2>2, <2>3, <2>4
<1> QED
  BY <1>2, <1>3 DEF Writes

LEMMA StreamDelivered ==
  ASSUME IInv, TInv, Stream
  PROVE  delivered = [i \in 1..((SentFlags - Flags(Unread)) \div 2) |-> Whole(sends[i])]
<1>1. PICK q : /\ Linked(sends, q, Unread) /\ Counted(q, Unread)
               /\ Writes(q[Len(q)]) /\ DecoderAt(q[1])
  BY DEF Stream
<1>2. PICK p, last : p = q[1] /\ last = q[Len(q)]
  OBVIOUS
<1>3. Unread \in Seq(Line)
  <2>1. ring \in Seq(Line) /\ fifo \in Seq(Line) /\ done \in 0..Len(ring)
    BY DEF IInv, SenderOK, RingOK, TInv, TypeOK
  <2> QED
    BY <2>1, ReadsElements, UnreadIs
<1>4. Flags(Unread) \in Nat
  BY <1>3, FlagsNat
<1>5. p \in Places
  <2>1. Len(Unread) \in Nat
    BY <1>3
  <2>2. 1 \in 1..Len(q)
    BY <1>1, <2>1 DEF Linked
  <2> QED
    BY <1>1, <1>2, <2>2 DEF Linked, At
<1>6. SentFlags = FlagsBefore(p) + Flags(Unread)
  <2>1. SentFlags = FlagsBefore(last)
    BY <1>1, <1>2, FlagsSent
  <2> QED
    BY <1>1, <1>2, <2>1 DEF Counted
<1> DEFINE k == p[1]
           one == IF p[2] = 0 THEN 0 ELSE 1
           m == (SentFlags - Flags(Unread)) \div 2
<1>7. k \in Nat \ {0} /\ one \in {0, 1} /\ FlagsBefore(p) = 2 * (k - 1) + one
  BY <1>5, PlacesType DEF FlagsBefore
<1>8. delivered = Delivered(sends, k - 1)
  BY <1>1, <1>2 DEF DecoderAt
<1> HIDE DEF k, one
<1>9. m = k - 1
  <2>1. SentFlags - Flags(Unread) = 2 * (k - 1) + one
    BY <1>4, <1>6, <1>7
  <2>2. (2 * (k - 1) + one) \div 2 = k - 1
    BY <1>7
  <2> QED
    BY <2>1, <2>2
<1> HIDE DEF m
<1>10. delivered = Delivered(sends, m)
  BY <1>8, <1>9
<1> QED
  BY <1>10 DEF Delivered, m

(***************************************************************************)
(* Without an overrun, and while no two threads send at the same time,     *)
(* hdlc_rx_handler hands up exactly the frames that hdlc_block_send_sync   *)
(* wrote, whole and in order, each when its closing flag is read: however  *)
(* the ring wraps, wherever the interrupt and the work cut the stream and  *)
(* whichever bytes are escaped.                                            *)
(***************************************************************************)
THEOREM FramesWhole == SafeSpec => []NothingElseLost
<1>1. Init => TInv /\ SInv
  BY InitSInv, InitTInv
<1>2. IInv /\ IInv' /\ TInv /\ SInv /\ [Next]_vars => TInv' /\ SInv'
  BY NextSInv
<1>3. IInv /\ TInv /\ SInv => NothingElseLost
  BY StreamDelivered DEF SInv, NothingElseLost
<1> QED
  BY <1>1, <1>2, <1>3, Invariance, PTL DEF SafeSpec

-----------------------------------------------------------------------------
(* Losses                                                                  *)

(***************************************************************************)
(* Where symbols were lost the path has gaps.  It is a sequence of pairs   *)
(* then: a place, and how many symbols were lost before it.  The gap from  *)
(* the place a, with m lost, to the place b, with n lost: a symbol is      *)
(* passed over for each, and a frame at most.                              *)
(***************************************************************************)
Later(a, b) == a[1] < b[1] \/ (a[1] = b[1] /\ a[2] <= b[2])
Gap(a, m, b, n) ==
  /\ m <= n /\ FlagsBefore(b) + m <= FlagsBefore(a) + n
  /\ n = m => b = a
  /\ n = m + 1 => b = Following(a)
  /\ n > m + 1 => Later(a, b) /\ b[1] <= a[1] + (n - m)

Chained(fs, q, s) ==
  /\ q \in Seq(Places \X Nat) /\ Len(q) = Len(s) + 1
  /\ \A i \in 1..Len(q) : At(fs, q[i][1])
  /\ \A i \in 1..Len(s) : /\ s[i] = Symbol(fs, q[i][1])
                          /\ Gap(Following(q[i][1]), q[i][2], q[i + 1][1], q[i + 1][2])

(***************************************************************************)
(* The frames that a decoder about to read what is at p is going to drop   *)
(* for what it has missed so far: this one, when it is within it, and the  *)
(* next for an escape that the flag will not make it forget.               *)
(***************************************************************************)
Stale(p) == next_escaped # (p[3] = 1)
Spoilt(p) ==
  IF Within(p) THEN 0
  ELSE (IF p[2] = 0 THEN 0 ELSE 1)
       + (IF Stale(p) /\ p[2] \notin 1..Length THEN 1 ELSE 0)

\* Two frames for each symbol lost are enough.
Affords(p, n) == Len(delivered) + 2 * n >= (p[1] - 1) + Spoilt(p)

(***************************************************************************)
(* The frames g were handed up and lie before the place p.  The last byte  *)
(* that the checksum was computed from is of a later one, which the        *)
(* decoder has reached; what precedes these bytes in the buffer is the     *)
(* byte that was saved when it overflowed.                                 *)
(***************************************************************************)
Behind(g, p) ==
  /\ g \in [DOMAIN delivered -> DOMAIN sends]
  /\ \A i, j \in DOMAIN g : i < j => g[i] < g[j]
  /\ \A i \in DOMAIN g : delivered[i] = Whole(sends[g[i]]) /\ g[i] < p[1]
AtWork(g, k, p) ==
  /\ k \in DOMAIN sends /\ crc[Len(crc)][1] = sends[k]
  /\ \A i \in DOMAIN g : g[i] < k
  /\ k <= p[1] /\ (p[2] = 0 => k < p[1])
BufferOf(c) == rx_buffer = c \/ \E b \in Bytes : rx_buffer = <<b>> \o c

InOrder(p) ==
  /\ BufferOf(crc)
  /\ \E g : Behind(g, p) /\ (crc # <<>> => \E k : AtWork(g, k, p))

(***************************************************************************)
(* What the buffer costs: between its first byte, of frame k, and the      *)
(* place p every flag was lost.  It is full only when it holds bytes of    *)
(* another frame than the byte to come, so two flags at least were lost    *)
(* then; and when a frame begins behind the byte that overflowed, two more *)
(* stood between.                                                          *)
(***************************************************************************)
Since(k, p, c) == k \in Nat /\ k <= p[1] /\ FlagsBefore(p) + 1 <= c + 2 * k
Spent(p, n) ==
  \/ rx_buffer = <<>>
  \/ rx_buffer = crc /\ \E k : Since(k, p, n) /\ (p[1] = k => Len(rx_buffer) < p[2])
  \/ /\ Len(rx_buffer) = 1 /\ crc = <<>> /\ n >= 2
     /\ \E k : Since(k, p, n - 2) /\ (p[1] = k => p[2] > 1)
  \/ /\ Len(rx_buffer) = Len(crc) + 1 /\ crc # <<>> /\ n >= 2
     /\ crc[1][2] = 1 => n >= 4

Course ==
  \E q : /\ Chained(sends, q, Unread)
         /\ Writes(q[Len(q)][1]) /\ q[Len(q)][2] = lost
         /\ \A i \in 1..Len(q) : q[i][2] <= lost
         /\ Affords(q[1][1], q[1][2]) /\ InOrder(q[1][1]) /\ Spent(q[1][1], q[1][2])

Buffered == delivered \in Seq(Seq(Bytes)) /\ (rx_buffer = <<>> => crc = <<>>)

\* Once the alarm is raised nothing more is claimed of what is read.
Bearing == (alarm = "no" => Course) /\ (alarm # "no" => lost >= 4)

LInv == Buffered /\ (~clash => Bearing)

LEMMA FollowingPlace ==
  ASSUME NEW p \in Places
  PROVE  Following(p) \in Places
<1> USE HdlcAssumption
<1> DEFINE k == p[1]
           i == p[2]
<1>1. k \in Nat \ {0} /\ k + 1 \in Nat \ {0} /\ i \in 0..Length + 1 /\ p[3] \in {0, 1}
  BY PlacesType
<1>2. i # Length + 1 => i + 1 \in 0..Length + 1
  BY <1>1
<1>3. 0 \in 0..Length + 1 /\ 1 \in 0..Length + 1 /\ 0 \in {0, 1} /\ 1 \in {0, 1}
  OBVIOUS
<1> HIDE DEF k, i
<1>4. \A a \in Nat \ {0}, b \in 0..Length + 1, c \in {0, 1} : <<a, b, c>> \in Places
  BY DEF Places
<1> QED
  BY <1>1, <1>2, <1>3, <1>4 DEF Following, k, i

LEMMA LaterFollowing ==
  ASSUME NEW a \in Places, NEW b \in Places, Later(a, b)
  PROVE  Later(a, Following(b))
<1>1. a[1] \in Nat /\ b[1] \in Nat /\ a[2] \in Nat /\ b[2] \in Nat
  BY PlacesType
<1>2. PICK z : z = Following(b)
  OBVIOUS
<1>3. (z[1] = b[1] /\ (z[2] = b[2] \/ z[2] = b[2] + 1)) \/ z[1] = b[1] + 1
  BY <1>1, <1>2 DEF Following
<1>4. a[1] < b[1] \/ (a[1] = b[1] /\ a[2] <= b[2])
  BY DEF Later
<1>5. a[1] < z[1] \/ (a[1] = z[1] /\ a[2] <= z[2])
  BY <1>1, <1>3, <1>4
<1> QED
  BY <1>2, <1>5 DEF Later

LEMMA GapLater ==
  ASSUME NEW a \in Places, NEW b \in Places, NEW m \in Nat, NEW n \in Nat, Gap(a, m, b, n)
  PROVE  Later(a, b)
<1>1. a[1] \in Nat /\ a[2] \in Nat
  BY PlacesType
<1>2. Later(a, a)
  BY <1>1 DEF Later
<1>3. n = m \/ n = m + 1 \/ n > m + 1
  BY DEF Gap
<1> QED
  BY <1>2, <1>3, LaterFollowing DEF Gap

\* No symbol passes more than one flag.
LEMMA FlagsStep ==
  ASSUME NEW a \in Places
  PROVE  /\ FlagsBefore(a) \in Nat /\ FlagsBefore(Following(a)) \in Nat
         /\ FlagsBefore(Following(a)) <= FlagsBefore(a) + 1
         /\ FlagsBefore(a) <= FlagsBefore(Following(a))
<1>1. PICK fs : fs = <<>>
  OBVIOUS
<1>2. PICK c : c = IF Symbol(fs, a) = Flag THEN 1 ELSE 0
  OBVIOUS
<1>3. FlagsBefore(Following(a)) = FlagsBefore(a) + c /\ FlagsBefore(a) \in Nat /\ c \in {0, 1}
  BY <1>2, FlagsFollowing
<1> QED
  BY <1>3

LEMMA GapGrows ==
  ASSUME NEW a \in Places, NEW b \in Places, NEW m \in Nat, NEW n \in Nat, Gap(a, m, b, n)
  PROVE  Gap(a, m, Following(b), n + 1)
<1> DEFINE z == Following(b)
           l == n + 1
<1>1. a[1] \in Nat /\ b[1] \in Nat
  BY PlacesType
<1>2. z[1] = b[1] \/ z[1] = b[1] + 1
  BY DEF Following
<1>3. /\ m <= n /\ (n = m => b = a) /\ (n = m + 1 => b = Following(a))
      /\ (n > m + 1 => a[1] <= b[1] /\ b[1] <= a[1] + (n - m))
  BY <1>1 DEF Gap, Later
<1>4. n = m + 1 => b[1] = a[1] \/ b[1] = a[1] + 1
  <2>1. Following(a)[1] = a[1] \/ Following(a)[1] = a[1] + 1
    BY DEF Following
  <2> QED
    BY <1>3, <2>1
<1>5. l = m + 1 => z = Following(a)
  BY <1>3
<1>6. FlagsBefore(z) + m <= FlagsBefore(a) + l
  <2>1. PICK A, B, Z : A = FlagsBefore(a) /\ B = FlagsBefore(b) /\ Z = FlagsBefore(z)
    OBVIOUS
  <2>2. A \in Nat /\ B \in Nat /\ Z \in Nat /\ Z <= B + 1
    BY <2>1, FlagsStep
  <2>3. B + m <= A + n
    BY <2>1 DEF Gap
  <2>4. Z + m <= A + l
    BY <2>2, <2>3
  <2> QED
    BY <2>1, <2>4
<1> HIDE DEF z
<1>7. l > m + 1 => a[1] <= z[1] /\ z[1] <= a[1] + (l - m)
  BY <1>1, <1>2, <1>3, <1>4
<1>8. m <= l /\ l # m
  BY <1>3
<1> HIDE DEF l
<1>9. Later(a, z)
  BY GapLater, LaterFollowing DEF z
<1>10. Gap(a, m, z, l)
  BY <1>5, <1>6, <1>7, <1>8, <1>9 DEF Gap
<1> QED
  BY <1>10 DEF z, l

\* In this state and in the next.
LEMMA SpoiltBounds ==
  ASSUME NEW CONSTANT p
  PROVE  /\ Spoilt(p) \in 0..2 /\ (p[2] = 0 => Spoilt(p) \in 0..1)
         /\ Spoilt(p)' \in 0..2 /\ (p[2] = 0 => Spoilt(p)' \in 0..1)
<1> DEFINE one == IF p[2] = 0 THEN 0 ELSE 1
           two == IF Stale(p) /\ p[2] \notin 1..Length THEN 1 ELSE 0
           three == IF Stale(p)' /\ p[2] \notin 1..Length THEN 1 ELSE 0
<1>1. /\ one \in {0, 1} /\ two \in {0, 1} /\ three \in {0, 1}
      /\ p[2] = 0 => one = 0
  OBVIOUS
<1>2. Spoilt(p) = IF Within(p) THEN 0 ELSE one + two
  BY DEF Spoilt
<1>3. Spoilt(p)' = IF Within(p)' THEN 0 ELSE one + three
  BY DEF Spoilt
<1> HIDE DEF one, two, three
<1>4. Spoilt(p) \in 0..2 /\ (p[2] = 0 => Spoilt(p) \in 0..1)
  BY <1>1, <1>2
<1>5. Spoilt(p)' \in 0..2 /\ (p[2] = 0 => Spoilt(p)' \in 0..1)
  BY <1>1, <1>3
<1> QED
  BY <1>4, <1>5

\* A gap pays for itself.
LEMMA Pays ==
  ASSUME NEW d \in Nat, NEW m \in Nat, NEW n \in Nat, NEW k \in Nat, NEW j \in Nat,
         NEW u \in Nat, NEW v \in Nat,
         d + 2 * m >= (k - 1) + u, m <= n, k <= j, v + (j - k) <= 2 * (n - m)
  PROVE  d + 2 * n >= (j - 1) + v
OBVIOUS

LEMMA AffordsGap ==
  ASSUME NEW CONSTANT a \in Places, NEW CONSTANT b \in Places,
         NEW CONSTANT m \in Nat, NEW CONSTANT n \in Nat,
         Len(delivered') \in Nat, Affords(a, m)', Gap(a, m, b, n)
  PROVE  Affords(b, n)'
<1> DEFINE d == Len(delivered')
           u == Spoilt(a)'
           v == Spoilt(b)'
           k == a[1]
           j == b[1]
<1>1. u \in Nat /\ v \in Nat /\ v <= 2 /\ (b[2] = 0 => v <= 1)
  <2>1. u \in 0..2 /\ v \in 0..2 /\ (b[2] = 0 => v \in 0..1)
    BY SpoiltBounds
  <2> HIDE DEF u, v
  <2> QED
    BY <2>1
<1>2. d + 2 * m >= (k - 1) + u
  BY DEF Affords
<1>3. k \in Nat /\ j \in Nat /\ d \in Nat
  BY PlacesType
<1>4. CASE n = m
  BY <1>4 DEF Gap
<1>5. CASE n # m
  <2>1. \/ n = m + 1 /\ b = Following(a)
        \/ n > m + 1 /\ k <= j /\ j <= k + (n - m)
    <3>1. Later(a, b) => k <= j
      BY <1>3 DEF Later
    <3> QED
      BY <1>5, <3>1 DEF Gap
  <2>2. \/ Following(a)[1] = k
        \/ Following(a)[1] = k + 1 /\ Following(a)[2] = 0
    BY DEF Following
  <2>3. \/ n = m + 1 /\ j = k
        \/ n = m + 1 /\ j = k + 1 /\ v <= 1
        \/ n > m + 1 /\ k <= j /\ j <= k + (n - m)
    <3> HIDE DEF v, k
    <3> QED
      BY <1>1, <2>1, <2>2
  <2> HIDE DEF d, u, v, k, j
  <2>4. m <= n /\ k <= j /\ v + (j - k) <= 2 * (n - m)
    BY <1>1, <1>3, <2>3
  <2>5. d + 2 * n >= (j - 1) + v
    BY <1>1, <1>2, <1>3, <2>4, Pays
  <2> QED
    BY <2>5 DEF Affords, d, v, j
<1> QED
  BY <1>4, <1>5

\* What a flag does, whatever was read before it.
LEMMA FlagRead ==
  ASSUME Buffered, DecoderOK, InputByte(Flag)
  PROVE  /\ rx_buffer' = <<>> /\ crc' = <<>> /\ next_escaped' = next_escaped
         /\ Buffered' /\ Len(delivered') \in Nat /\ Len(delivered') >= Len(delivered)
<1>1. IF rx_buffer # <<>> THEN ProcessFrame ELSE UNCHANGED decoder
  BY SymbolsDiffer DEF InputByte
<1>2. rx_buffer' = <<>> /\ crc' = <<>> /\ next_escaped' = next_escaped
  BY <1>1 DEF ProcessFrame, decoder, Buffered
<1>3. delivered' = delivered \/ delivered' = Append(delivered, rx_buffer)
  BY <1>1 DEF ProcessFrame, Dispatch, HandUp, decoder
<1>4. delivered \in Seq(Seq(Bytes)) /\ rx_buffer \in Seq(Bytes)
  BY DEF Buffered, DecoderOK
<1>5. /\ Append(delivered, rx_buffer) \in Seq(Seq(Bytes))
      /\ Len(Append(delivered, rx_buffer)) = Len(delivered) + 1
  BY <1>4, AppendProperties
<1>6. PICK d, e : d = Len(delivered) /\ e = Len(delivered')
  OBVIOUS
<1>7. e = d \/ e = d + 1
  BY <1>3, <1>5, <1>6
<1>8. delivered' \in Seq(Seq(Bytes))
  BY <1>3, <1>4, <1>5
<1>9. d \in Nat /\ e \in Nat
  BY <1>4, <1>6, <1>8
<1>10. e >= d
  BY <1>7, <1>9
<1> QED
  BY <1>2, <1>6, <1>8, <1>9, <1>10 DEF Buffered

LEMMA OtherRead ==
  ASSUME Buffered, DecoderOK, NEW CONSTANT x, x # Flag, InputByte(x)
  PROVE  /\ delivered' = delivered /\ Buffered'
         /\ next_escaped' = (x = Esc)
<1>1. CASE x = Esc
  <2>1. next_escaped' = TRUE /\ UNCHANGED <<rx_buffer, crc, delivered>>
    BY <1>1, SymbolsDiffer DEF InputByte
  <2> QED
    BY <1>1, <2>1 DEF Buffered
<1>2. CASE x # Esc
  <2>1. /\ SaveByte(IF next_escaped THEN [x EXCEPT ![3] = ~@] ELSE x)
        /\ next_escaped' = FALSE /\ delivered' = delivered
    BY <1>2 DEF InputByte
  <2>2. PICK b : SaveByte(b)
    BY <2>1
  <2>3. rx_buffer' # <<>>
    <3>1. rx_buffer \in Seq(Bytes)
      BY DEF DecoderOK
    <3>2. Append(rx_buffer, b) # <<>> /\ <<b>> # <<>>
      <4>1. rx_buffer \in Seq(Bytes \cup {b}) /\ b \in Bytes \cup {b}
        BY <3>1, SeqMonotonic
      <4>2. Len(Append(rx_buffer, b)) = Len(rx_buffer) + 1 /\ Len(rx_buffer) \in Nat
        BY <4>1, AppendProperties
      <4>3. Len(<<b>>) = 1 /\ Len(<<>>) = 0
        OBVIOUS
      <4> QED
        BY <4>2, <4>3
    <3> QED
      BY <2>2, <3>2 DEF SaveByte
  <2> QED
    BY <1>2, <2>1, <2>3 DEF Buffered
<1> QED
  BY <1>1, <1>2

\* What is read leaves enough.
LEMMA AffordsRead ==
  ASSUME NEW CONSTANT p, At(sends, p), NEW CONSTANT n \in Nat, Affords(p, n),
         Buffered, DecoderOK, InputByte(Symbol(sends, p)), UNCHANGED sends,
         \A i \in 1..Len(sends) : sends[i] \in Threads \X (1..Frames),
         Len(sends) \in Nat
  PROVE  Affords(Following(p), n)' /\ Buffered'
<1> USE HdlcAssumption
<1>1. PICK z, x : z = Following(p) /\ x = Symbol(sends, p)
  OBVIOUS
<1> DEFINE k == p[1]
           i == p[2]
           d == Len(delivered)
<1>2. k \in Nat \ {0} /\ i \in Nat /\ i <= Length + 1 /\ p[3] \in {0, 1}
      /\ (p[3] = 1 => i \in 1..Length /\ i \in Escaped)
  BY PlacesType DEF At
<1>3. x = Flag <=> i = 0 \/ i = Length + 1
  BY <1>1, SymbolIsFlag
<1>4. InputByte(x) /\ d \in Nat /\ next_escaped \in BOOLEAN
  BY <1>1 DEF Buffered, DecoderOK
<1>5. Spoilt(p) \in 0..2 /\ d + 2 * n >= (k - 1) + Spoilt(p)
  BY SpoiltBounds DEF Affords
<1>6. Buffered'
  <2>1. CASE x = Flag
    BY <1>4, <2>1, FlagRead
  <2>2. CASE x # Flag
    BY <1>4, <2>2, OtherRead
  <2> QED
    BY <2>1, <2>2
<1> SUFFICES Affords(z, n)'
  BY <1>1, <1>6
<1> DEFINE u == Spoilt(p)
           v == Spoilt(z)'
           one == IF z[2] = 0 THEN 0 ELSE 1
           two == IF Stale(z)' /\ z[2] \notin 1..Length THEN 1 ELSE 0
<1>7. /\ v = IF Within(z)' THEN 0 ELSE one + two
      /\ one \in {0, 1} /\ two \in {0, 1}
  BY DEF Spoilt
<1>8. v \in Nat
  <2> HIDE DEF one, two, v
  <2> QED
    BY <1>7
<1>9. ASSUME NEW c \in Nat, z[1] = k + c, NEW e \in Nat, e = Len(delivered'), e >= d,
             e + u >= d + c + v
      PROVE  Affords(z, n)'
  <2>1. u \in Nat
    BY <1>5
  <2>2. d + 2 * n >= (k - 1) + u
    BY <1>5
  <2> HIDE DEF u, v, k, d
  <2>3. e + 2 * n >= ((k + c) - 1) + v
    BY <1>2, <1>4, <1>8, <1>9, <2>1, <2>2
  <2> QED
    BY <1>9, <2>3 DEF Affords, v
<1>10. CASE Within(p)
  <2>1. /\ Within(z)'
        /\ delivered' = IF i = Length + 1 THEN Append(delivered, Whole(sends[k])) ELSE delivered
    BY <1>1, <1>10, InputWithin
  <2>2. v = 0 /\ u \in Nat
    BY <1>5, <1>7, <2>1
  <2>3. CASE i = Length + 1
    <3>1. z[1] = k + 1 /\ Len(delivered') = d + 1
      <4>1. PICK f : f = Whole(sends[k])
        OBVIOUS
      <4>2. delivered \in Seq(Seq(Bytes) \cup {f}) /\ f \in Seq(Bytes) \cup {f}
        BY SeqMonotonic DEF Buffered
      <4>3. Len(Append(delivered, f)) = d + 1
        BY <4>2, AppendProperties
      <4>4. z[1] = k + 1
        BY <1>1, <2>3 DEF Following
      <4> QED
        BY <2>1, <2>3, <4>1, <4>3, <4>4
    <3> HIDE DEF u, v, k, d
    <3>2. d + 1 \in Nat /\ d + 1 >= d /\ (d + 1) + u >= d + 1 + v
      BY <1>4, <2>2
    <3> QED
      BY <1>9, <3>1, <3>2
  <2>4. CASE i # Length + 1
    <3>1. z[1] = k + 0 /\ Len(delivered') = d
      <4>1. z[1] = k
        BY <1>1, <2>4 DEF Following
      <4> QED
        BY <1>2, <2>1, <2>4, <4>1
    <3> HIDE DEF u, v, k, d
    <3>2. d >= d /\ d + u >= d + 0 + v
      BY <1>4, <2>2
    <3> QED
      BY <1>4, <1>9, <3>1, <3>2
  <2> QED
    BY <2>3, <2>4
<1>11. CASE ~Within(p) /\ x = Flag
  <2>1. /\ rx_buffer' = <<>> /\ crc' = <<>> /\ next_escaped' = next_escaped
        /\ Len(delivered') \in Nat /\ Len(delivered') >= d
    BY <1>4, <1>11, FlagRead
  <2>2. i \notin 1..Length /\ p[3] = 0
    BY <1>2, <1>3, <1>11
  <2>3. CASE i = 0
    <3>1. z = <<k, 1, 0>>
      BY <1>1, <2>3 DEF Following
    <3>2. u = IF Stale(p) THEN 1 ELSE 0
      BY <1>11, <2>2, <2>3 DEF Spoilt
    <3>3. v \in {0, 1}
      <4>1. one = 1 /\ two = 0
        BY <3>1
      <4> QED
        BY <1>7, <4>1
    <3>4. ~Stale(p) => v = 0
      <4>1. ASSUME ~Stale(p)
            PROVE  Within(z)'
        <5>1. next_escaped' = (0 = 1)
          BY <2>1, <2>2, <4>1 DEF Stale
        <5>2. \A f : Beginning(f, 0) = <<>>
          BY BeginningEnds
        <5>3. 1 - 1 = 0 /\ 1 # 0
          OBVIOUS
        <5> HIDE DEF k
        <5> QED
          BY <2>1, <3>1, <5>1, <5>2, <5>3 DEF Within
      <4> QED
        BY <1>7, <4>1
    <3>5. z[1] = k + 0
      BY <1>2, <3>1
    <3>6. u \in Nat /\ v <= u
      BY <3>2, <3>3, <3>4
    <3> DEFINE e == Len(delivered')
    <3>7. e \in Nat /\ e >= d
      BY <2>1
    <3> HIDE DEF u, v, k, d, e
    <3>8. e + u >= d + 0 + v
      BY <1>4, <1>8, <3>6, <3>7
    <3> QED
      BY <1>9, <3>5, <3>7, <3>8 DEF e
  <2>4. CASE i = Length + 1
    <3>1. z = <<k + 1, 0, 0>>
      BY <1>1, <2>4 DEF Following
    <3>2. u = 1 + IF Stale(p) THEN 1 ELSE 0
      BY <1>11, <2>2, <2>4 DEF Spoilt
    <3>3. Stale(z)' = Stale(p)
      BY <2>1, <2>2, <3>1 DEF Stale
    <3>4. v <= IF Stale(p) THEN 1 ELSE 0
      <4>1. one = 0 /\ two = IF Stale(p) THEN 1 ELSE 0
        BY <3>1, <3>3
      <4> QED
        BY <1>7, <4>1
    <3>5. z[1] = k + 1
      BY <3>1
    <3>6. u \in Nat /\ v + 1 <= u
      <4> HIDE DEF u, v
      <4> QED
        BY <1>8, <3>2, <3>4
    <3> DEFINE e == Len(delivered')
    <3>7. e \in Nat /\ e >= d
      BY <2>1
    <3> HIDE DEF u, v, k, d, e
    <3>8. e + u >= d + 1 + v
      BY <1>4, <1>8, <3>6, <3>7
    <3> QED
      BY <1>9, <3>5, <3>7, <3>8 DEF e
  <2> QED
    BY <1>3, <1>11, <2>3, <2>4
<1>12. CASE ~Within(p) /\ x # Flag
  <2>1. Len(delivered') = d /\ next_escaped' = (x = Esc)
    BY <1>4, <1>12, OtherRead
  <2>2. i \in 1..Length /\ i # 0 /\ i # Length + 1
    BY <1>2, <1>3, <1>12
  <2>3. u = 1
    BY <1>12, <2>2 DEF Spoilt
  <2>4. /\ z[1] = k /\ z[2] # 0
        /\ z[2] \in 1..Length \/ ~Stale(z)'
    <3>1. CASE i \in Escaped /\ p[3] = 0
      <4>1. z = <<k, i, 1>>
        BY <1>1, <2>2, <3>1 DEF Following
      <4> QED
        BY <2>2, <4>1
    <3>2. CASE ~(i \in Escaped /\ p[3] = 0)
      <4>1. z = <<k, i + 1, 0>>
        BY <1>1, <2>2, <3>2 DEF Following
      <4>2. x # Esc
        <5>1. x = Byte(sends[k], i, p[3] = 0)
          BY <1>1, <2>2, <3>2 DEF Symbol
        <5> QED
          BY <5>1, SymbolsDiffer
      <4>3. next_escaped' = FALSE
        BY <2>1, <4>2
      <4>4. ~Stale(z)'
        <5>1. z[3] = 0
          BY <4>1
        <5>2. (z[3] = 1) = FALSE
          BY <5>1
        <5> QED
          BY <4>3, <5>2 DEF Stale
      <4> QED
        BY <2>2, <4>1, <4>4
    <3> QED
      BY <3>1, <3>2
  <2>5. v <= 1
    <3>1. one = 1 /\ two = 0
      BY <2>4
    <3> QED
      BY <1>7, <3>1
  <2>6. z[1] = k + 0
    BY <1>2, <2>4
  <2> HIDE DEF u, v, k, d
  <2>7. d >= d /\ d + u >= d + 0 + v
    BY <1>4, <1>8, <2>3, <2>5
  <2> QED
    BY <1>4, <1>9, <2>1, <2>6, <2>7
<1> QED
  BY <1>10, <1>11, <1>12

-----------------------------------------------------------------------------
(* The order of what is handed up                                          *)

LEMMA LaterOrder ==
  ASSUME NEW CONSTANT a \in Places, NEW CONSTANT b \in Places, Later(a, b),
         DOMAIN sends' \subseteq Nat, InOrder(a)'
  PROVE  InOrder(b)'
<1>1. a[1] \in Nat /\ b[1] \in Nat /\ a[1] <= b[1] /\ (b[2] = 0 => a[1] < b[1] \/ a[2] = 0)
  BY PlacesType DEF Later
<1>2. PICK g : Behind(g, a)' /\ (crc # <<>> => \E k : AtWork(g, k, a))'
  BY DEF InOrder
<1>3. Behind(g, b)'
  <2>1. ASSUME NEW i \in DOMAIN g
        PROVE  g[i] < b[1]
    <3>1. g[i] \in Nat /\ g[i] < a[1]
      BY <1>2 DEF Behind
    <3> QED
      BY <1>1, <3>1
  <2> QED
    BY <1>2, <2>1 DEF Behind
<1>4. ASSUME NEW k, AtWork(g, k, a)'
      PROVE  AtWork(g, k, b)'
  <2>1. k \in Nat /\ k <= a[1] /\ (a[2] = 0 => k < a[1])
    BY <1>4 DEF AtWork
  <2>2. k <= b[1] /\ (b[2] = 0 => k < b[1])
    BY <1>1, <2>1
  <2> QED
    BY <1>4, <2>2 DEF AtWork
<1> QED
  BY <1>2, <1>3, <1>4 DEF InOrder

\* Frames to come change nothing.
LEMMA OrderStays ==
  ASSUME NEW CONSTANT p, InOrder(p), UNCHANGED decoder,
         NEW T, sends \in Seq(T), sends' = sends \/ \E x \in T : sends' = Append(sends, x)
  PROVE  InOrder(p)'
<1>1. DOMAIN sends \subseteq DOMAIN sends' /\ \A i \in DOMAIN sends : sends'[i] = sends[i]
  OBVIOUS
<1>2. UNCHANGED <<rx_buffer, crc, delivered>>
  BY DEF decoder
<1>3. PICK g : Behind(g, p) /\ (crc # <<>> => \E k : AtWork(g, k, p))
  BY DEF InOrder
<1>4. Behind(g, p)'
  <2>1. g \in [DOMAIN delivered -> DOMAIN sends] /\ DOMAIN g = DOMAIN delivered
    BY <1>3 DEF Behind
  <2>2. g \in [DOMAIN delivered' -> DOMAIN sends']
    BY <1>1, <1>2, <2>1
  <2>3. \A i \in DOMAIN g : sends'[g[i]] = sends[g[i]]
    BY <1>1, <2>1
  <2> QED
    BY <1>2, <1>3, <2>2, <2>3 DEF Behind
<1>5. ASSUME NEW k, AtWork(g, k, p)
      PROVE  AtWork(g, k, p)'
  BY <1>1, <1>2, <1>5 DEF AtWork
<1>6. BufferOf(crc)'
  BY <1>2 DEF InOrder, BufferOf
<1> QED
  BY <1>2, <1>3, <1>4, <1>5, <1>6 DEF InOrder

LEMMA ConsAppend ==
  ASSUME NEW T, NEW b \in T, NEW x \in T, NEW s \in Seq(T)
  PROVE  Append(<<b>> \o s, x) = <<b>> \o Append(s, x)
OBVIOUS

\* A byte of frame k is saved.
LEMMA SaveOrder ==
  ASSUME NEW CONSTANT p, InOrder(p), DecoderOK, NEW CONSTANT y \in Bytes, SaveByte(y),
         p[1] \in DOMAIN sends, y[1] = sends[p[1]], p[1] \in Nat, p[2] # 0,
         UNCHANGED <<sends, delivered>>
  PROVE  InOrder(p)'
<1>1. PICK g : Behind(g, p)
  BY DEF InOrder
<1>2. Behind(g, p)'
  BY <1>1 DEF Behind
<1>3. PICK b, c : b = rx_buffer /\ c = crc
  OBVIOUS
<1>4. b \in Seq(Bytes) /\ c \in Seq(Bytes)
  BY <1>3 DEF DecoderOK
<1>5. CASE rx_buffer' = <<y>> /\ crc' = <<>>
  <2>1. <<y>> = <<y>> \o <<>>
    OBVIOUS
  <2>2. BufferOf(crc)'
    BY <1>5, <2>1 DEF BufferOf
  <2> QED
    BY <1>2, <1>5, <2>2 DEF InOrder
<1>6. CASE rx_buffer' = Append(b, y) /\ crc' = Append(c, y)
  <2>1. BufferOf(crc)'
    <3>1. CASE b = c
      BY <1>6, <3>1 DEF BufferOf
    <3>2. ASSUME NEW x \in Bytes, b = <<x>> \o c
          PROVE  BufferOf(crc)'
      <4>1. Append(b, y) = <<x>> \o Append(c, y)
        BY <1>4, <3>2, ConsAppend
      <4> QED
        BY <1>6, <4>1 DEF BufferOf
    <3> QED
      BY <1>3, <3>1, <3>2 DEF InOrder, BufferOf
  <2>2. AtWork(g, p[1], p)'
    <3>1. PICK d : d = Append(c, y)
      OBVIOUS
    <3>2. d[Len(d)] = y
      BY <1>4, <3>1
    <3>3. crc'[Len(crc')][1] = sends'[p[1]]
      BY <1>6, <3>1, <3>2
    <3>4. \A i \in DOMAIN g : g[i] < p[1]
      BY <1>1 DEF Behind
    <3> QED
      BY <3>3, <3>4 DEF AtWork
  <2> QED
    BY <1>2, <2>1, <2>2 DEF InOrder
<1> QED
  BY <1>3, <1>5, <1>6 DEF SaveByte

\* The buffer is handed up.
LEMMA HandUpOrder ==
  ASSUME NEW CONSTANT p, NEW CONSTANT z, NEW CONSTANT f, InOrder(p), Buffered, DecoderOK,
         crc = Whole(f), rx_buffer[2][2] = Control,
         delivered' = Append(delivered, rx_buffer), UNCHANGED sends,
         crc' = <<>>, rx_buffer' = <<>>, DOMAIN sends \subseteq Nat,
         p[1] \in Nat, z[1] \in Nat, p[1] <= z[1], p[2] # 0 => p[1] < z[1]
  PROVE  InOrder(z)'
<1> USE HdlcAssumption
<1>1. crc # <<>> /\ crc[Len(crc)][1] = f
  BY WholePlaces
<1>2. PICK g, k : Behind(g, p) /\ AtWork(g, k, p)
  BY <1>1 DEF InOrder
<1>3. PICK n, d, e : n = Len(delivered) /\ d = delivered /\ e = rx_buffer
  OBVIOUS
<1>4. d \in Seq(Seq(Bytes)) /\ e \in Seq(Bytes) /\ n \in Nat /\ DOMAIN d = 1..n
  BY <1>3 DEF Buffered, DecoderOK
<1>5. /\ DOMAIN delivered' = 1..n + 1 /\ delivered'[n + 1] = e
      /\ \A i \in 1..n : delivered'[i] = d[i]
  <2>1. delivered' = Append(d, e)
    BY <1>3
  <2> QED
    BY <1>3, <1>4, <2>1
<1>6. /\ g \in [1..n -> DOMAIN sends] /\ DOMAIN g = 1..n
      /\ \A i, j \in 1..n : i < j => g[i] < g[j]
      /\ \A i \in 1..n : d[i] = Whole(sends[g[i]]) /\ g[i] < k
  BY <1>2, <1>3, <1>4 DEF Behind, AtWork
<1>7. k \in DOMAIN sends /\ sends[k] = f /\ k < z[1] /\ DOMAIN sends \subseteq Nat
  BY <1>1, <1>2 DEF AtWork
<1>8. e = Whole(sends[k])
  <2>1. PICK w : w = Whole(f)
    OBVIOUS
  <2>2. w \in Seq(Bytes) /\ w # <<>> /\ w[1][2] = 1 /\ w = crc
    BY <2>1, WholePlaces DEF DecoderOK
  <2>3. ASSUME NEW b \in Bytes, e = <<b>> \o w
        PROVE  FALSE
    <3>1. e[2] = w[1]
      BY <2>2, <2>3
    <3> QED
      BY <1>3, <2>2, <3>1 DEF Control
  <2> QED
    BY <1>3, <1>7, <2>1, <2>2, <2>3 DEF InOrder, BufferOf
<1>9. PICK h : h = [i \in 1..n + 1 |-> IF i = n + 1 THEN k ELSE g[i]]
  OBVIOUS
<1>10. DOMAIN h = 1..n + 1 /\ h[n + 1] = k /\ \A i \in 1..n : h[i] = g[i]
  BY <1>4, <1>9
<1>11. \A i \in 1..n + 1 : i \in 1..n \/ i = n + 1
  BY <1>4
<1>12. h \in [1..n + 1 -> DOMAIN sends]
  BY <1>6, <1>7, <1>9, <1>11
<1>13. ASSUME NEW i \in 1..n + 1, NEW j \in 1..n + 1, i < j
       PROVE  h[i] < h[j]
  <2>1. i \in 1..n
    BY <1>4, <1>13
  <2>2. CASE j \in 1..n
    BY <1>6, <1>10, <1>13, <2>1, <2>2
  <2>3. CASE j = n + 1
    BY <1>6, <1>10, <2>1, <2>3
  <2> QED
    BY <1>11, <2>2, <2>3
<1>14. ASSUME NEW i \in 1..n + 1
       PROVE  delivered'[i] = Whole(sends[h[i]]) /\ h[i] < z[1]
  <2>1. CASE i \in 1..n
    <3>1. g[i] \in Nat /\ k \in Nat /\ g[i] < k
      BY <1>6, <1>7, <2>1
    <3>2. h[i] < z[1]
      BY <1>7, <1>10, <2>1, <3>1
    <3> QED
      BY <1>5, <1>6, <1>10, <2>1, <3>2
  <2>2. CASE i = n + 1
    BY <1>5, <1>7, <1>8, <1>10, <2>2
  <2> QED
    BY <1>11, <2>1, <2>2
<1>15. Behind(h, z)'
  <2>1. h \in [DOMAIN delivered' -> DOMAIN sends']
    BY <1>5, <1>12
  <2>2. \A i \in DOMAIN h : delivered'[i] = Whole(sends'[h[i]]) /\ h[i] < z[1]
    BY <1>10, <1>14
  <2> QED
    BY <1>10, <1>13, <2>1, <2>2 DEF Behind
<1>16. BufferOf(crc)'
  BY DEF BufferOf
<1> QED
  BY <1>15, <1>16 DEF InOrder

\* What is read keeps the order.
LEMMA OrderRead ==
  ASSUME NEW CONSTANT p, At(sends, p), InOrder(p), Buffered, DecoderOK,
         InputByte(Symbol(sends, p)), UNCHANGED sends, alarm' = "no",
         \A i \in 1..Len(sends) : sends[i] \in Threads \X (1..Frames),
         Len(sends) \in Nat, DOMAIN sends = 1..Len(sends)
  PROVE  InOrder(Following(p))'
<1> USE HdlcAssumption
<1>1. PICK z, x : z = Following(p) /\ x = Symbol(sends, p)
  OBVIOUS
<1>2. /\ p \in Places /\ p[1] \in Nat \ {0} /\ p[2] \in 0..Length + 1
      /\ p[1] <= Len(sends) + (IF p[2] = 0 THEN 1 ELSE 0)
  BY PlacesType DEF At
<1>3. z \in Places /\ z[1] \in Nat
  BY <1>1, <1>2, FollowingPlace, PlacesType
<1>4. InputByte(x) /\ (x = Flag <=> p[2] = 0 \/ p[2] = Length + 1)
  BY <1>1, SymbolIsFlag
<1>5. Later(p, z)
  BY <1>1, <1>2, LaterFollowing DEF Later
<1>6. CASE x = Flag
  <2>1. rx_buffer' = <<>> /\ crc' = <<>>
    BY <1>4, <1>6, FlagRead
  <2>2. IF rx_buffer # <<>> THEN ProcessFrame ELSE UNCHANGED decoder
    BY <1>4, <1>6, SymbolsDiffer DEF InputByte
  <2>3. CASE UNCHANGED delivered
    <3>1. PICK g : Behind(g, p)
      BY DEF InOrder
    <3>2. Behind(g, p)'
      BY <2>3, <3>1 DEF Behind
    <3>3. InOrder(p)'
      BY <2>1, <3>2 DEF InOrder, BufferOf
    <3> QED
      BY <1>1, <1>2, <1>3, <1>5, <3>3, LaterOrder
  <2>4. CASE delivered' = Append(delivered, rx_buffer) /\ ChecksumFits
             /\ rx_buffer[2][2] = Control
    <3>1. PICK f : crc = Whole(f)
      BY <2>4 DEF ChecksumFits
    <3>2. p[1] <= z[1] /\ (p[2] # 0 => p[1] < z[1])
      <4>1. p[2] = 0 => z[1] = p[1]
        BY <1>1 DEF Following
      <4>2. p[2] # 0 => z[1] = p[1] + 1
        BY <1>1, <1>4, <1>6 DEF Following
      <4> QED
        BY <1>2, <4>1, <4>2
    <3>3. InOrder(z)'
      BY <1>2, <1>3, <2>1, <2>4, <3>1, <3>2, HandUpOrder
    <3> QED
      BY <1>1, <3>3
  <2> QED
    BY <2>2, <2>3, <2>4 DEF ProcessFrame, Dispatch, HandUp, decoder
<1>7. CASE x = Esc
  <2>1. UNCHANGED <<rx_buffer, crc, delivered>>
    BY <1>4, <1>7, SymbolsDiffer DEF InputByte
  <2>2. InOrder(p)'
    BY <2>1 DEF InOrder, Behind, AtWork, BufferOf
  <2> QED
    BY <1>1, <1>2, <1>3, <1>5, <2>2, LaterOrder
<1>8. CASE x # Flag /\ x # Esc
  <2>1. p[2] # 0 /\ p[2] \in 1..Length /\ p[1] \in DOMAIN sends /\ DOMAIN sends = 1..Len(sends)
    <3>1. p[2] # 0 /\ p[2] # Length + 1
      BY <1>4, <1>8
    <3>2. p[1] \in 1..Len(sends)
      BY <1>2, <3>1
    <3> QED
      BY <1>2, <3>1, <3>2
  <2>2. PICK v \in BOOLEAN : x = Byte(sends[p[1]], p[2], v)
    BY <1>1, <1>8, <2>1 DEF Symbol
  <2>3. x \in Bytes /\ x[1] = sends[p[1]]
    <3>1. PICK t \in Threads, n \in 1..Frames : sends[p[1]] = Frame(t, n)
      BY <2>1 DEF Frame
    <3>2. x \in Bytes
      BY <2>1, <2>2, <3>1 DEF Bytes
    <3> QED
      BY <2>2, <3>2 DEF Byte
  <2>4. PICK y \in Bytes : SaveByte(y) /\ y[1] = sends[p[1]] /\ UNCHANGED delivered
    <3>1. PICK u : u = [x EXCEPT ![3] = ~@]
      OBVIOUS
    <3>2. u \in Bytes
      BY <2>3, <3>1, ToggledByte
    <3>3. u[1] = x[1]
      BY <2>2, <3>1 DEF Byte
    <3>4. SaveByte(IF next_escaped THEN u ELSE x) /\ UNCHANGED delivered
      BY <1>4, <1>8, <3>1 DEF InputByte
    <3>5. CASE next_escaped
      BY <2>3, <3>2, <3>3, <3>4, <3>5
    <3>6. CASE ~next_escaped
      BY <2>3, <3>4, <3>6
    <3> QED
      BY <3>5, <3>6
  <2>5. InOrder(p)'
    BY <1>2, <2>1, <2>4, SaveOrder
  <2> QED
    BY <1>1, <1>2, <1>3, <1>5, <2>5, LaterOrder
<1> QED
  BY <1>6, <1>7, <1>8

-----------------------------------------------------------------------------
(* What the buffer costs                                                   *)

LEMMA SinceGap ==
  ASSUME NEW a \in Places, NEW b \in Places, NEW m \in Nat, NEW n \in Nat, Gap(a, m, b, n),
         NEW k, NEW c \in 0..m, Since(k, a, m - c)
  PROVE  Since(k, b, n - c) /\ (b[1] = k => a[1] = k /\ a[2] <= b[2])
<1>1. Later(a, b)
  BY GapLater
<1>2. PICK A, B : A = FlagsBefore(a) /\ B = FlagsBefore(b)
  OBVIOUS
<1>3. A \in Nat /\ B \in Nat /\ a[1] \in Nat /\ b[1] \in Nat /\ k \in Nat
  BY <1>2, FlagsStep, PlacesType DEF Since
<1>4. m <= n /\ B + m <= A + n /\ k <= a[1] /\ A + 1 <= (m - c) + 2 * k
  BY <1>2 DEF Gap, Since
<1>5. k <= b[1] /\ (b[1] = k => a[1] = k /\ a[2] <= b[2])
  BY <1>1, <1>3, <1>4 DEF Later
<1>6. B + 1 <= (n - c) + 2 * k
  BY <1>3, <1>4
<1> QED
  BY <1>2, <1>3, <1>5, <1>6 DEF Since

\* What is lost between two symbols costs what it skips.
LEMMA SpentGap ==
  ASSUME NEW CONSTANT a \in Places, NEW CONSTANT b \in Places,
         NEW CONSTANT m \in Nat, NEW CONSTANT n \in Nat,
         Gap(a, m, b, n), Spent(a, m)', rx_buffer' \in Seq(Bytes)
  PROVE  Spent(b, n)'
<1>1. m <= n /\ m - 0 = m /\ n - 0 = n /\ a[2] \in Nat /\ b[2] \in Nat
  BY PlacesType DEF Gap
<1>2. PICK r, c : r = rx_buffer' /\ c = crc'
  OBVIOUS
<1>3. Len(r) \in Nat
  BY <1>2
<1>4. CASE r = <<>>
  BY <1>2, <1>4 DEF Spent
<1>5. ASSUME r = c, NEW k, Since(k, a, m), a[1] = k => Len(r) < a[2]
      PROVE  Spent(b, n)'
  <2>1. Since(k, b, n) /\ (b[1] = k => a[1] = k /\ a[2] <= b[2])
    BY <1>1, <1>5, SinceGap
  <2>2. b[1] = k => Len(r) < b[2]
    BY <1>1, <1>3, <1>5, <2>1
  <2> QED
    BY <1>2, <1>5, <2>1, <2>2 DEF Spent
<1>6. ASSUME Len(r) = 1, c = <<>>, m >= 2, NEW k, Since(k, a, m - 2), a[1] = k => a[2] > 1
      PROVE  Spent(b, n)'
  <2>1. 2 \in 0..m /\ n >= 2
    BY <1>1, <1>6
  <2>2. Since(k, b, n - 2) /\ (b[1] = k => a[1] = k /\ a[2] <= b[2])
    BY <1>6, <2>1, SinceGap
  <2>3. b[1] = k => b[2] > 1
    BY <1>1, <1>6, <2>2
  <2> QED
    BY <1>2, <1>6, <2>1, <2>2, <2>3 DEF Spent
<1>7. ASSUME Len(r) = Len(c) + 1, c # <<>>, m >= 2, c[1][2] = 1 => m >= 4
      PROVE  Spent(b, n)'
  <2>1. n >= 2 /\ (c[1][2] = 1 => n >= 4)
    BY <1>1, <1>7
  <2> QED
    BY <1>2, <1>7, <2>1 DEF Spent
<1> QED
  BY <1>2, <1>4, <1>5, <1>6, <1>7 DEF Spent

\* The bytes of the buffer when it is full.
LEMMA FullCosts ==
  ASSUME NEW CONSTANT p \in Places, NEW CONSTANT n \in Nat, Spent(p, n), DecoderOK,
         p[2] \in 1..Length, Len(rx_buffer) = Size
  PROVE  n >= 2
<1> USE HdlcAssumption
<1>1. /\ p[1] \in Nat /\ Len(rx_buffer) \in Nat /\ rx_buffer # <<>>
      /\ FlagsBefore(p) = 2 * (p[1] - 1) + 1
  <2>1. p[1] \in Nat
    BY PlacesType
  <2>2. p[2] # 0
    OBVIOUS
  <2>3. Len(rx_buffer) \in Nat
    BY DEF DecoderOK
  <2>4. rx_buffer # <<>>
    <3>1. Len(<<>>) = 0 /\ Size # 0
      OBVIOUS
    <3> QED
      BY <3>1
  <2> QED
    BY <2>1, <2>2, <2>3, <2>4 DEF FlagsBefore
<1>2. ASSUME NEW k, Since(k, p, n), p[1] = k => Len(rx_buffer) < p[2]
      PROVE  n >= 2
  <2>1. p[1] # k
    BY <1>1, <1>2
  <2>2. k \in Nat /\ k <= p[1] /\ (2 * (p[1] - 1) + 1) + 1 <= n + 2 * k
    BY <1>1, <1>2 DEF Since
  <2> QED
    BY <1>1, <2>1, <2>2
<1> QED
  BY <1>1, <1>2 DEF Spent

\* A byte is saved.
LEMMA SpentSaved ==
  ASSUME NEW CONSTANT p \in Places, NEW CONSTANT z \in Places, NEW CONSTANT n \in Nat,
         Spent(p, n), DecoderOK, Buffered,
         p[2] \in 1..Length, z[1] = p[1], z[2] = p[2] + 1,
         NEW CONSTANT y \in Bytes, y[2] = p[2], SaveByte(y)
  PROVE  Spent(z, n)'
<1> USE HdlcAssumption
<1>1. PICK b, c, i, j : b = rx_buffer /\ c = crc /\ i = p[2] /\ j = p[1]
  OBVIOUS
<1>2. /\ b \in Seq(Bytes) /\ c \in Seq(Bytes) /\ Len(b) \in Nat /\ Len(c) \in Nat
      /\ i \in Nat /\ i >= 1 /\ j \in Nat /\ z[1] = j /\ z[2] = i + 1
  <2>1. b \in Seq(Bytes) /\ c \in Seq(Bytes)
    BY <1>1 DEF DecoderOK
  <2>2. j \in Nat
    BY <1>1, PlacesType
  <2> QED
    BY <1>1, <2>1, <2>2
<1>3. FlagsBefore(p) = 2 * (j - 1) + 1 /\ FlagsBefore(z) = 2 * (j - 1) + 1
  <2>1. p[1] = j /\ z[1] = j /\ p[2] # 0 /\ z[2] # 0
    BY <1>1, <1>2
  <2> QED
    BY <2>1 DEF FlagsBefore
<1>4. \A k, l : Since(k, z, l) <=> Since(k, p, l)
  BY <1>1, <1>2, <1>3 DEF Since
<1>5. CASE Len(b) = Size
  <2>1. rx_buffer' = <<y>> /\ crc' = <<>>
    BY <1>1, <1>5 DEF SaveByte
  <2>2. n >= 2 /\ n - 2 \in Nat
    <3>1. n >= 2
      BY <1>1, <1>5, FullCosts
    <3> QED
      BY <3>1
  <2>3. Since(j, z, n - 2)
    BY <1>2, <1>3, <2>2 DEF Since
  <2>4. Len(rx_buffer') = 1 /\ z[2] > 1
    BY <1>2, <2>1
  <2> QED
    BY <2>1, <2>2, <2>3, <2>4 DEF Spent
<1>6. CASE Len(b) # Size
  <2>1. rx_buffer' = Append(b, y) /\ crc' = Append(c, y)
    BY <1>1, <1>6 DEF SaveByte
  <2>2. /\ Len(rx_buffer') = Len(b) + 1 /\ Len(crc') = Len(c) + 1 /\ crc' # <<>>
        /\ c = <<>> => crc'[1] = y
        /\ c # <<>> => crc'[1] = c[1]
    <3>1. /\ Len(Append(b, y)) = Len(b) + 1
          /\ Len(Append(c, y)) = Len(c) + 1 /\ Append(c, y)[Len(c) + 1] = y
          /\ \A m \in 1..Len(c) : Append(c, y)[m] = c[m]
      BY <1>2, AppendProperties
    <3>2. c = <<>> => Len(c) = 0
      OBVIOUS
    <3>3. c # <<>> => Len(c) \in Nat \ {0}
      BY <1>2, EmptySeq
    <3>4. c # <<>> => 1 \in 1..Len(c)
      BY <3>3
    <3>5. Append(c, y) # <<>>
      BY <1>2, <3>1
    <3>6. c = <<>> => crc'[1] = y
      <4>1. c = <<>> => Len(c) + 1 = 1
        BY <3>2
      <4> QED
        BY <2>1, <3>1, <4>1
    <3>7. c # <<>> => crc'[1] = c[1]
      BY <2>1, <3>1, <3>4
    <3> QED
      BY <2>1, <3>1, <3>5, <3>6, <3>7
  <2>3. CASE b = <<>>
    <3>1. c = <<>>
      BY <1>1, <2>3 DEF Buffered
    <3>2. rx_buffer' = crc' /\ Len(rx_buffer') < z[2]
      BY <1>2, <2>1, <2>2, <2>3, <3>1
    <3>3. Since(j, z, n)
      BY <1>2, <1>3 DEF Since
    <3> QED
      BY <3>2, <3>3 DEF Spent
  <2>4. ASSUME b = c, NEW k, Since(k, p, n), p[1] = k => Len(b) < p[2]
        PROVE  Spent(z, n)'
    <3>1. rx_buffer' = crc' /\ Since(k, z, n)
      BY <1>4, <2>1, <2>4
    <3>2. z[1] = k => Len(rx_buffer') < z[2]
      BY <1>1, <1>2, <2>2, <2>4
    <3> QED
      BY <3>1, <3>2 DEF Spent
  <2>5. ASSUME Len(b) = 1, c = <<>>, n >= 2, NEW k, Since(k, p, n - 2), p[1] = k => p[2] > 1
        PROVE  Spent(z, n)'
    <3>1. Len(rx_buffer') = Len(crc') + 1 /\ crc'[1] = y
      BY <2>2, <2>5
    <3>2. ASSUME i = 1
          PROVE  n >= 4
      <4>1. k # j /\ k \in Nat /\ k <= j /\ (2 * (j - 1) + 1) + 1 <= (n - 2) + 2 * k
        BY <1>1, <1>3, <2>5, <3>2 DEF Since
      <4> QED
        BY <1>2, <4>1
    <3> QED
      BY <1>1, <2>2, <2>5, <3>1, <3>2 DEF Spent
  <2>6. ASSUME Len(b) = Len(c) + 1, c # <<>>, n >= 2, c[1][2] = 1 => n >= 4
        PROVE  Spent(z, n)'
    <3>1. Len(rx_buffer') = Len(crc') + 1 /\ crc'[1] = c[1]
      BY <1>2, <2>2, <2>6
    <3> QED
      BY <2>2, <2>6, <3>1 DEF Spent
  <2> QED
    BY <1>1, <2>3, <2>4, <2>5, <2>6 DEF Spent
<1> QED
  BY <1>5, <1>6

LEMMA AlarmStays ==
  ASSUME NEW x, InputByte(x), alarm # "no"
  PROVE  alarm' # "no"
<1>1. alarm' \in {alarm, "halted", "shifted"}
  BY DEF InputByte, ProcessFrame, Dispatch, decoder
<1> QED
  BY <1>1

\* What is read costs nothing, and an alarm has been paid for.
LEMMA SpentRead ==
  ASSUME NEW CONSTANT p, At(sends, p), NEW CONSTANT n \in Nat, Spent(p, n),
         Buffered, DecoderOK, InputByte(Symbol(sends, p)),
         \A i \in 1..Len(sends) : sends[i] \in Threads \X (1..Frames),
         Len(sends) \in Nat
  PROVE  Spent(Following(p), n)' /\ (alarm = "no" /\ alarm' # "no" => n >= 4)
<1> USE HdlcAssumption
<1>1. PICK z, x : z = Following(p) /\ x = Symbol(sends, p)
  OBVIOUS
<1>2. /\ p \in Places /\ p[1] \in Nat \ {0} /\ p[2] \in 0..Length + 1
      /\ p[1] <= Len(sends) + (IF p[2] = 0 THEN 1 ELSE 0)
  BY PlacesType DEF At
<1>3. z \in Places
  BY <1>1, <1>2, FollowingPlace
<1>4. InputByte(x) /\ (x = Flag <=> p[2] = 0 \/ p[2] = Length + 1)
  BY <1>1, SymbolIsFlag
<1>5. CASE x = Flag
  <2>1. rx_buffer' = <<>>
    BY <1>4, <1>5, FlagRead
  <2>2. ASSUME alarm = "no", alarm' # "no"
        PROVE  n >= 4
    <3>1. rx_buffer # <<>> /\ ProcessFrame
      BY <1>4, <1>5, <2>2, SymbolsDiffer DEF InputByte, decoder
    <3>2. ChecksumFits /\ rx_buffer[2][2] # Control
      BY <2>2, <3>1 DEF ProcessFrame, Dispatch
    <3>3. PICK f : crc = Whole(f)
      BY <3>2 DEF ChecksumFits
    <3>4. crc[1][2] = 1 /\ crc[2][2] = Control /\ crc # <<>>
      BY <3>3, WholePlaces
    <3> QED
      BY <3>1, <3>2, <3>4 DEF Spent
  <2> QED
    BY <1>1, <2>1, <2>2 DEF Spent
<1>6. CASE x = Esc
  <2>1. UNCHANGED <<rx_buffer, crc, alarm>>
    BY <1>4, <1>6, SymbolsDiffer DEF InputByte
  <2>2. z[1] = p[1] /\ z[2] = p[2] /\ p[2] # 0
    <3>1. p[2] # 0 /\ p[2] # Length + 1
      BY <1>4, <1>6, SymbolsDiffer
    <3>2. p[2] \in Escaped /\ p[3] = 0
      BY <1>1, <1>6, <3>1, SymbolsDiffer DEF Symbol
    <3> QED
      BY <1>1, <3>1, <3>2 DEF Following
  <2>3. FlagsBefore(z) = FlagsBefore(p)
    BY <2>2 DEF FlagsBefore
  <2>4. Spent(z, n)'
    BY <2>1, <2>2, <2>3 DEF Spent, Since
  <2> QED
    BY <1>1, <2>1, <2>4
<1>7. CASE x # Flag /\ x # Esc
  <2>1. p[2] # 0 /\ p[2] # Length + 1 /\ p[2] \in 1..Length /\ p[1] \in 1..Len(sends)
    <3>1. p[2] # 0 /\ p[2] # Length + 1
      BY <1>4, <1>7
    <3> QED
      BY <1>2, <3>1
  <2>2. ~(p[2] \in Escaped /\ p[3] = 0)
    BY <1>1, <1>7, <2>1 DEF Symbol
  <2>3. z[1] = p[1] /\ z[2] = p[2] + 1
    BY <1>1, <2>1, <2>2 DEF Following
  <2>4. PICK v \in BOOLEAN : x = Byte(sends[p[1]], p[2], v)
    BY <1>1, <2>1, <2>2 DEF Symbol
  <2>5. x \in Bytes /\ x[2] = p[2]
    <3>0. PICK f : f = sends[p[1]]
      OBVIOUS
    <3>1. PICK t \in Threads, j \in 1..Frames : sends[p[1]] = Frame(t, j)
      <4>1. f \in Threads \X (1..Frames)
        BY <2>1, <3>0
      <4>2. PICK t \in Threads, j \in 1..Frames : f = <<t, j>>
        BY <4>1
      <4> QED
        BY <3>0, <4>2 DEF Frame
    <3>2. x \in Bytes
      BY <2>1, <2>4, <3>1 DEF Bytes
    <3> QED
      BY <2>4, <3>2 DEF Byte
  <2>6. PICK y \in Bytes : SaveByte(y) /\ y[2] = p[2] /\ UNCHANGED alarm
    <3>1. PICK u : u = [x EXCEPT ![3] = ~@]
      OBVIOUS
    <3>2. u \in Bytes
      BY <2>5, <3>1, ToggledByte
    <3>3. u[2] = x[2]
      BY <2>4, <3>1 DEF Byte
    <3>4. SaveByte(IF next_escaped THEN u ELSE x) /\ UNCHANGED alarm
      BY <1>4, <1>7, <3>1 DEF InputByte
    <3>5. CASE next_escaped
      BY <2>5, <3>2, <3>3, <3>4, <3>5
    <3>6. CASE ~next_escaped
      BY <2>5, <3>4, <3>6
    <3> QED
      BY <3>5, <3>6
  <2>7. Spent(z, n)'
    BY <1>2, <1>3, <2>1, <2>3, <2>6, SpentSaved
  <2> QED
    BY <1>1, <2>6, <2>7
<1> QED
  BY <1>5, <1>6, <1>7

-----------------------------------------------------------------------------
(* The path                                                                *)

LEMMA ChainedStays ==
  ASSUME NEW T, NEW fs \in Seq(T), NEW x \in T, NEW q, NEW s, Len(s) \in Nat, Chained(fs, q, s)
  PROVE  Chained(Append(fs, x), q, s)
<1>1. ASSUME NEW i \in 1..Len(q)
      PROVE  At(Append(fs, x), q[i][1]) /\ Symbol(Append(fs, x), q[i][1]) = Symbol(fs, q[i][1])
  <2>1. PICK p : p = q[i][1]
    OBVIOUS
  <2>2. At(fs, p)
    BY <2>1 DEF Chained
  <2> QED
    BY <2>1, <2>2, SymbolStays
<1>2. \A i \in 1..Len(s) : i \in 1..Len(q)
  BY DEF Chained
<1> HIDE DEF Chained
<1> QED
  BY <1>1, <1>2 DEF Chained

\* One more symbol is sent, and arrives.
LEMMA ChainedAppend ==
  ASSUME NEW S, NEW s \in Seq(S), NEW x \in S, NEW fs, NEW q, Chained(fs, q, s),
         NEW w, NEW n \in Nat, w = q[Len(q)][1], n = q[Len(q)][2],
         x = Symbol(fs, w), NEW z, At(fs, z), z = Following(w)
  PROVE  /\ Chained(fs, Append(q, <<z, n>>), Append(s, x))
         /\ Append(q, <<z, n>>)[1] = q[1]
         /\ Append(q, <<z, n>>)[Len(Append(q, <<z, n>>))] = <<z, n>>
<1> DEFINE r == Append(q, <<z, n>>)
           t == Append(s, x)
           m == Len(s)
<1>1. q \in Seq(Places \X Nat) /\ <<z, n>> \in Places \X Nat /\ m \in Nat /\ Len(q) = m + 1
  BY DEF Chained, At
<1>2. /\ r \in Seq(Places \X Nat) /\ Len(r) = m + 2 /\ r[m + 2] = <<z, n>>
      /\ \A i \in 1..m + 1 : r[i] = q[i]
  <2>1. /\ r \in Seq(Places \X Nat) /\ Len(r) = Len(q) + 1
        /\ \A i \in 1..Len(q) : r[i] = q[i]
        /\ r[Len(q) + 1] = <<z, n>>
    BY <1>1, AppendProperties
  <2>2. (m + 1) + 1 = m + 2
    BY <1>1
  <2> HIDE DEF m, r
  <2> QED
    BY <1>1, <2>1, <2>2
<1>3. t \in Seq(S) /\ Len(t) = m + 1 /\ t[m + 1] = x /\ \A i \in 1..m : t[i] = s[i]
  BY AppendProperties
<1>4. /\ \A i \in 1..m + 1 : At(fs, q[i][1])
      /\ \A i \in 1..m : /\ s[i] = Symbol(fs, q[i][1])
                         /\ Gap(Following(q[i][1]), q[i][2], q[i + 1][1], q[i + 1][2])
  BY <1>1 DEF Chained
<1>5. q[m + 1][1] = w /\ q[m + 1][2] = n
  BY <1>1
<1> HIDE DEF r, t, m
<1>6. ASSUME NEW i \in 1..m + 2
      PROVE  At(fs, r[i][1])
  <2>1. CASE i \in 1..m + 1
    BY <1>2, <1>4, <2>1
  <2>2. CASE i = m + 2
    BY <1>2, <2>2
  <2> QED
    BY <1>1, <2>1, <2>2
<1>7. ASSUME NEW i \in 1..m + 1
      PROVE  /\ t[i] = Symbol(fs, r[i][1])
             /\ Gap(Following(r[i][1]), r[i][2], r[i + 1][1], r[i + 1][2])
  <2>1. CASE i \in 1..m
    <3>1. i \in 1..m + 1 /\ i + 1 \in 1..m + 1
      BY <1>1, <2>1
    <3> QED
      BY <1>2, <1>3, <1>4, <2>1, <3>1
  <2>2. CASE i = m + 1
    <3>1. i \in 1..m + 1 /\ i + 1 = m + 2
      BY <1>1, <2>2
    <3>2. r[i][1] = w /\ r[i][2] = n /\ r[i + 1][1] = z /\ r[i + 1][2] = n
      BY <1>2, <1>5, <2>2, <3>1
    <3>3. Gap(Following(w), n, z, n)
      <4>1. FlagsBefore(z) \in Nat
        BY FlagsStep DEF At
      <4> QED
        BY <4>1 DEF Gap
    <3> QED
      BY <1>3, <2>2, <3>2, <3>3
  <2> QED
    BY <1>1, <2>1, <2>2
<1>8. Chained(fs, r, t)
  <2>1. Len(r) = Len(t) + 1
    BY <1>1, <1>2, <1>3
  <2>2. Len(r) = m + 2 /\ Len(t) = m + 1 /\ r \in Seq(Places \X Nat)
    BY <1>2, <1>3
  <2> QED
    BY <1>6, <1>7, <2>1, <2>2 DEF Chained
<1>9. r[1] = q[1] /\ r[Len(r)] = <<z, n>>
  <2>1. 1 \in 1..m + 1
    BY <1>1
  <2> QED
    BY <1>2, <2>1
<1> QED
  BY <1>8, <1>9 DEF r, t

\* One more symbol is sent, and lost.
Skipped(fs, q, s, r, w, n, z) ==
  /\ Chained(fs, r, s) /\ r[Len(r)] = <<z, n + 1>>
  /\ s # <<>> => r[1] = q[1]
  /\ s = <<>> => r[1] = <<z, n + 1>> /\ q[1][1] = w /\ q[1][2] = n
  /\ w \in Places

LEMMA ChainedSkips ==
  ASSUME NEW S, NEW s \in Seq(S), NEW fs, NEW q, Chained(fs, q, s),
         NEW w, NEW n \in Nat, w = q[Len(q)][1], n = q[Len(q)][2],
         NEW z, At(fs, z), z = Following(w),
         NEW r, r = [q EXCEPT ![Len(q)] = <<z, n + 1>>]
  PROVE  Skipped(fs, q, s, r, w, n, z)
<1> DEFINE m == Len(s)
<1>1. /\ q \in Seq(Places \X Nat) /\ m \in Nat /\ Len(q) = m + 1
      /\ <<z, n + 1>> \in Places \X Nat
  BY DEF Chained, At
<1>2. /\ \A i \in 1..m + 1 : At(fs, q[i][1])
      /\ \A i \in 1..m : /\ s[i] = Symbol(fs, q[i][1])
                         /\ Gap(Following(q[i][1]), q[i][2], q[i + 1][1], q[i + 1][2])
  BY <1>1 DEF Chained
<1>3. q[m + 1][1] = w /\ q[m + 1][2] = n
  BY <1>1
<1>4. /\ r \in Seq(Places \X Nat) /\ Len(r) = m + 1 /\ r[m + 1] = <<z, n + 1>>
      /\ \A i \in 1..m : r[i] = q[i]
  <2> HIDE DEF m
  <2>1. r = [q EXCEPT ![m + 1] = <<z, n + 1>>] /\ m + 1 \in 1..Len(q)
    BY <1>1
  <2>2. /\ r \in Seq(Places \X Nat) /\ Len(r) = Len(q) /\ r[m + 1] = <<z, n + 1>>
        /\ \A i \in 1..Len(q) : i # m + 1 => r[i] = q[i]
    BY <1>1, <2>1, ExceptSeq
  <2>3. \A i \in 1..m : i \in 1..m + 1 /\ i # m + 1
    BY <1>1
  <2> QED
    BY <1>1, <2>2, <2>3
<1> HIDE DEF m
<1>5. ASSUME NEW i \in 1..m + 1
      PROVE  At(fs, r[i][1])
  <2>1. CASE i \in 1..m
    BY <1>2, <1>4, <2>1
  <2>2. CASE i = m + 1
    BY <1>4, <2>2
  <2> QED
    BY <1>1, <2>1, <2>2
<1>6. ASSUME NEW i \in 1..m
      PROVE  /\ s[i] = Symbol(fs, r[i][1])
             /\ Gap(Following(r[i][1]), r[i][2], r[i + 1][1], r[i + 1][2])
  <2>1. r[i] = q[i] /\ s[i] = Symbol(fs, q[i][1])
        /\ Gap(Following(q[i][1]), q[i][2], q[i + 1][1], q[i + 1][2])
    BY <1>2, <1>4
  <2>2. CASE i + 1 \in 1..m
    BY <1>4, <2>1, <2>2
  <2>3. CASE i = m
    <3>1. Gap(Following(q[i][1]), q[i][2], w, n) /\ r[i + 1][1] = z /\ r[i + 1][2] = n + 1
      BY <1>3, <1>4, <2>1, <2>3
    <3>2. PICK a, b : a = Following(q[i][1]) /\ b = q[i][2]
      OBVIOUS
    <3>3. a \in Places /\ b \in Nat /\ w \in Places
      <4>1. i \in 1..m + 1 /\ m + 1 \in 1..m + 1
        BY <1>1
      <4>2. q[i] \in Places \X Nat /\ q[m + 1] \in Places \X Nat
        BY <1>1, <4>1, ElementOfSeq
      <4>3. q[i][1] \in Places /\ q[i][2] \in Nat /\ q[m + 1][1] \in Places
        BY <4>2
      <4> QED
        BY <1>3, <3>2, <4>3, FollowingPlace
    <3>4. Gap(a, b, Following(w), n + 1)
      BY <3>1, <3>2, <3>3, GapGrows
    <3> QED
      BY <2>1, <3>1, <3>2, <3>4
  <2> QED
    BY <1>1, <2>2, <2>3
<1>7. Chained(fs, r, s)
  <2>1. Len(r) = Len(s) + 1
    BY <1>4 DEF m
  <2> QED
    BY <1>4, <1>5, <1>6, <2>1 DEF Chained, m
<1>8. r[Len(r)] = <<z, n + 1>>
  BY <1>4
<1>9. s # <<>> => r[1] = q[1]
  <2>1. s # <<>> => m # 0
    BY DEF m
  <2>2. m # 0 => 1 \in 1..m
    BY <1>1
  <2> QED
    BY <1>4, <2>1, <2>2
<1>10. s = <<>> => r[1] = <<z, n + 1>> /\ q[1][1] = w /\ q[1][2] = n
  <2>1. s = <<>> => m + 1 = 1
    BY DEF m
  <2> QED
    BY <1>3, <1>4, <2>1
<1>11. w \in Places
  <2>1. m + 1 \in 1..Len(q)
    BY <1>1
  <2>2. q[m + 1] \in Places \X Nat
    BY <1>1, <2>1, ElementOfSeq
  <2> QED
    BY <1>3, <2>2
<1> QED
  BY <1>7, <1>8, <1>9, <1>10, <1>11 DEF Skipped

\* One symbol is read.
Shorter(fs, q, s, r, u) ==
  /\ Chained(fs, r, u)
  /\ r[1] = q[2] /\ r[Len(r)] = q[Len(q)]
  /\ s[1] = Symbol(fs, q[1][1]) /\ At(fs, q[1][1]) /\ At(fs, q[2][1])
  /\ q[1][2] \in Nat /\ q[2][2] \in Nat
  /\ Gap(Following(q[1][1]), q[1][2], q[2][1], q[2][2])

LEMMA ChainedTail ==
  ASSUME NEW S, NEW s \in Seq(S), s # <<>>, NEW fs, NEW q, Chained(fs, q, s)
  PROVE  Shorter(fs, q, s, Tail(q), Tail(s))
<1> DEFINE r == Tail(q)
           t == Tail(s)
           n == Len(s)
<1>1. q \in Seq(Places \X Nat) /\ n \in Nat \ {0} /\ Len(q) = n + 1
  BY DEF Chained
<1>2. r \in Seq(Places \X Nat) /\ Len(r) = n /\ \A i \in 1..n : r[i] = q[i + 1]
  <2>1. q # <<>>
    BY <1>1
  <2>2. /\ r \in Seq(Places \X Nat) /\ Len(r) = Len(q) - 1
        /\ \A i \in 1..Len(r) : r[i] = q[i + 1]
    BY <1>1, <2>1, HeadTailProperties
  <2> HIDE DEF r, n
  <2> QED
    BY <1>1, <2>2
<1>3. t \in Seq(S) /\ Len(t) = n - 1 /\ \A i \in 1..n - 1 : t[i] = s[i + 1]
  BY HeadTailProperties
<1> HIDE DEF r, t, n
<1>4. /\ \A i \in 1..n + 1 : At(fs, q[i][1])
      /\ \A i \in 1..n : /\ s[i] = Symbol(fs, q[i][1])
                         /\ Gap(Following(q[i][1]), q[i][2], q[i + 1][1], q[i + 1][2])
  BY <1>1 DEF Chained, n
<1>5. Chained(fs, r, t)
  <2>1. ASSUME NEW i \in 1..n
        PROVE  At(fs, r[i][1])
    <3>1. i + 1 \in 1..n + 1
      BY <1>1
    <3> QED
      BY <1>2, <1>4, <3>1
  <2>2. ASSUME NEW i \in 1..n - 1
        PROVE  /\ t[i] = Symbol(fs, r[i][1])
               /\ Gap(Following(r[i][1]), r[i][2], r[i + 1][1], r[i + 1][2])
    <3>1. i \in 1..n /\ i + 1 \in 1..n
      BY <1>1
    <3> QED
      BY <1>2, <1>3, <1>4, <3>1
  <2>3. Len(r) = Len(t) + 1
    BY <1>1, <1>2, <1>3
  <2> QED
    BY <1>2, <1>3, <2>1, <2>2, <2>3 DEF Chained
<1>6. 1 \in 1..n /\ n \in 1..n /\ 1 \in 1..n + 1 /\ 2 \in 1..n + 1 /\ 1 + 1 = 2
  BY <1>1
<1>7. r[1] = q[2] /\ r[Len(r)] = q[Len(q)]
  BY <1>1, <1>2, <1>6
<1>8. /\ s[1] = Symbol(fs, q[1][1]) /\ At(fs, q[1][1]) /\ At(fs, q[2][1])
      /\ Gap(Following(q[1][1]), q[1][2], q[2][1], q[2][2])
  BY <1>4, <1>6
<1>9. q[1][2] \in Nat /\ q[2][2] \in Nat
  <2>1. q[1] \in Places \X Nat /\ q[2] \in Places \X Nat
    BY <1>1, <1>6, ElementOfSeq
  <2> QED
    BY <2>1
<1> QED
  BY <1>5, <1>7, <1>8, <1>9 DEF Shorter, r, t

\* What the decoder has does not depend on the frames to come.
LEMMA AffordsStays ==
  ASSUME NEW CONSTANT p, At(sends, p), NEW CONSTANT n, Affords(p, n), UNCHANGED decoder,
         NEW T, sends \in Seq(T), sends' = sends \/ \E x \in T : sends' = Append(sends, x)
  PROVE  Affords(p, n)'
<1>1. Len(sends) \in Nat /\ \A i \in 1..Len(sends) : sends'[i] = sends[i]
  OBVIOUS
<1>2. p[1] \in Nat \ {0} /\ p[1] - 1 <= Len(sends) /\ (p[2] # 0 => p[1] <= Len(sends))
  BY <1>1, PlacesType DEF At
<1>3. Within(p)' <=> Within(p)
  <2>1. CASE p[2] = 0
    <3>1. Beginning(sends'[p[1]], 0) = Beginning(sends[p[1]], 0)
      BY BeginningEnds
    <3> QED
      BY <2>1, <3>1 DEF Within, decoder
  <2>2. CASE p[2] # 0
    <3>1. sends'[p[1]] = sends[p[1]]
      BY <1>1, <1>2, <2>2
    <3> QED
      BY <2>2, <3>1 DEF Within, decoder
  <2> QED
    BY <2>1, <2>2
<1>4. Stale(p)' <=> Stale(p)
  BY DEF Stale, decoder
<1>5. Spoilt(p)' = Spoilt(p)
  BY <1>3, <1>4 DEF Spoilt
<1> QED
  BY <1>5 DEF Affords, decoder

-----------------------------------------------------------------------------
(* The steps                                                               *)

LEMMA SendLInv ==
  ASSUME IInv, TInv, Turns, LInv, Send
  PROVE  LInv'
<1>1. UNCHANGED <<ring, done, decoder>>
  BY DEF Send, SendStart, SendEscape, SendByte, SendEnd, rx_work
<1>2. Buffered /\ Buffered'
  BY <1>1 DEF LInv, Buffered, decoder
<1>0. lost' >= lost /\ lost \in Nat /\ lost' \in Nat
  <2>1. lost \in Nat
    BY HdlcAssumption DEF TInv, TypeOK
  <2>2. lost' = lost \/ lost' = lost + 1
    BY DEF Send, SendStart, SendEscape, SendByte, SendEnd, PollOut
  <2> QED
    BY <2>1, <2>2
<1>3. clash \/ Bearing
  BY DEF LInv
<1>20. clash => clash'
  BY DEF Send, SendStart, SendEscape, SendByte, SendEnd
<1> SUFFICES ASSUME ~clash', Bearing, alarm = "no" PROVE Course'
  <2>1. alarm' = alarm
    BY <1>1 DEF decoder
  <2>2. lost >= 4 => lost' >= 4
    BY <1>0
  <2> QED
    BY <1>2, <1>3, <1>20, <2>1, <2>2 DEF LInv, Bearing
<1>4. PICK q : /\ Chained(sends, q, Unread)
               /\ Writes(q[Len(q)][1]) /\ q[Len(q)][2] = lost
               /\ \A i \in 1..Len(q) : q[i][2] <= lost
               /\ Affords(q[1][1], q[1][2]) /\ InOrder(q[1][1]) /\ Spent(q[1][1], q[1][2])
  BY DEF Bearing, Course
<1>5. PICK s, w, n, p, l : /\ s = Unread /\ w = q[Len(q)][1] /\ n = lost
                           /\ p = q[1][1] /\ l = q[1][2]
  OBVIOUS
<1>6. PICK x, z : Sends(w, x, z)
  BY <1>4, <1>5, TurnSends
<1>7. /\ ring \in Seq(Line) /\ fifo \in Seq(Line) /\ done \in 0..Len(ring)
      /\ n \in Nat /\ sends \in Seq(Threads \X Nat)
  BY <1>5, HdlcAssumption DEF IInv, SenderOK, RingOK, TInv, TypeOK
<1>8. s \in Seq(Line) /\ Len(s) \in Nat
  BY <1>5, <1>7, ReadsElements, UnreadIs
<1>9. sends' = sends \/ \E f \in Threads \X Nat : sends' = Append(sends, f)
  BY <1>6 DEF Sends
<1>10. Chained(sends', q, s)
  <2>1. Chained(sends, q, s)
    BY <1>4, <1>5
  <2> QED
    BY <1>7, <1>8, <1>9, <2>1, ChainedStays
<1>11. Affords(p, l)'
  <2>1. At(sends, p)
    <3>1. 1 \in 1..Len(q)
      BY <1>4, <1>5, <1>8 DEF Chained
    <3> QED
      BY <1>4, <1>5, <3>1 DEF Chained
  <2>2. Affords(p, l)
    BY <1>4, <1>5
  <2>3. UNCHANGED decoder
    BY <1>1
  <2> QED
    BY <1>7, <1>9, <2>1, <2>2, <2>3, AffordsStays
<1>12. InOrder(p)'
  <2>1. InOrder(p) /\ UNCHANGED decoder
    BY <1>1, <1>4, <1>5
  <2> QED
    BY <1>7, <1>9, <2>1, OrderStays
<1>13. /\ x = Symbol(sends', w) /\ At(sends', z) /\ z = Following(w) /\ Writes(z)'
       /\ w = q[Len(q)][1] /\ n = q[Len(q)][2]
  BY <1>4, <1>5, <1>6 DEF Sends
<1>16. Spent(p, l)'
  BY <1>1, <1>4, <1>5 DEF Spent, decoder
<1>14. CASE fifo' = Append(fifo, x) /\ lost' = lost
  <2>1. PICK S : S = Line \cup {x}
    OBVIOUS
  <2>2. ring \in Seq(S) /\ fifo \in Seq(S) /\ s \in Seq(S) /\ x \in S
    BY <1>7, <1>8, <2>1, SeqMonotonic
  <2>3. Unread' = Append(s, x)
    <3>1. Unread' = Reads(ring, done, Append(fifo, x))
      BY <1>1, <1>14 DEF Unread, Reads
    <3>2. Reads(ring, done, Append(fifo, x)) = Append(Reads(ring, done, fifo), x)
      BY <1>7, <2>2, ReadsAppend
    <3> QED
      BY <1>5, <3>1, <3>2, UnreadIs
  <2>4. PICK r : r = Append(q, <<z, n>>)
    OBVIOUS
  <2>5. Chained(sends', r, Append(s, x)) /\ r[1] = q[1] /\ r[Len(r)] = <<z, n>>
    BY <1>7, <1>10, <1>13, <2>2, <2>4, ChainedAppend
  <2>6. r[Len(r)][1] = z /\ r[Len(r)][2] = lost' /\ r[1][1] = p /\ r[1][2] = l
    BY <1>5, <1>14, <2>5
  <2>7. Chained(sends', r, Unread')
    BY <2>3, <2>5
  <2>8. Writes(r[Len(r)][1])' /\ Affords(r[1][1], r[1][2])' /\ InOrder(r[1][1])'
        /\ Spent(r[1][1], r[1][2])'
    BY <1>11, <1>13, <1>12, <1>16, <2>6
  <2>9. \A i \in 1..Len(r) : r[i][2] <= lost'
    <3>1. q \in Seq(Places \X Nat) /\ <<z, n>> \in Places \X Nat
      BY <1>4, <1>7, <1>13 DEF Chained, At
    <3>2. /\ Len(r) = Len(q) + 1 /\ Len(q) \in Nat
          /\ \A i \in 1..Len(q) : r[i] = q[i]
      BY <2>4, <3>1, AppendProperties
    <3>3. \A i \in 1..Len(r) : i \in 1..Len(q) \/ i = Len(r)
      BY <3>2
    <3> QED
      BY <1>0, <1>4, <1>14, <2>6, <3>2, <3>3
  <2> QED
    BY <2>6, <2>7, <2>8, <2>9 DEF Course
<1>15. CASE fifo' = fifo /\ lost' = lost + 1
  <2>1. PICK r : r = [q EXCEPT ![Len(q)] = <<z, n + 1>>]
    OBVIOUS
  <2>2. /\ Chained(sends', r, s) /\ r[Len(r)] = <<z, n + 1>>
        /\ s # <<>> => r[1] = q[1]
        /\ s = <<>> => r[1] = <<z, n + 1>> /\ q[1][1] = w /\ q[1][2] = n
        /\ w \in Places
    <3>1. s \in Seq(Line) /\ n \in Nat
      BY <1>7, <1>8
    <3>2. At(sends', z) /\ z = Following(w) /\ w = q[Len(q)][1] /\ n = q[Len(q)][2]
      BY <1>13
    <3>3. Skipped(sends', q, s, r, w, n, z)
      BY <1>10, <2>1, <3>1, <3>2, ChainedSkips
    <3> QED
      BY <3>3 DEF Skipped
  <2>3. Unread' = s
    BY <1>1, <1>5, <1>15 DEF Unread
  <2>4. r[Len(r)][1] = z /\ r[Len(r)][2] = lost'
    BY <1>5, <1>15, <2>2
  <2>5. Affords(r[1][1], r[1][2])' /\ InOrder(r[1][1])' /\ Spent(r[1][1], r[1][2])'
    <3>1. CASE s # <<>>
      BY <1>5, <1>11, <1>12, <1>16, <2>2, <3>1
    <3>2. CASE s = <<>>
      <4>1. p = w /\ l = n /\ r[1][1] = z /\ r[1][2] = n + 1
        BY <1>5, <2>2, <3>2
      <4>2. PICK m : m = n + 1
        OBVIOUS
      <4>3. Gap(w, n, z, m)
        <5>1. PICK A, Z : A = FlagsBefore(w) /\ Z = FlagsBefore(z)
          OBVIOUS
        <5>2. A \in Nat /\ Z \in Nat /\ Z <= A + 1
          BY <1>13, <2>2, <5>1, FlagsStep
        <5>3. Z + n <= A + m
          BY <1>7, <4>2, <5>2
        <5>4. n <= m /\ m # n /\ m = n + 1 /\ ~(m > n + 1)
          BY <1>7, <4>2
        <5> QED
          BY <1>13, <5>1, <5>3, <5>4 DEF Gap
      <4>4. z \in Places /\ m \in Nat /\ Len(delivered') \in Nat /\ Affords(w, n)'
        <5>1. z \in Places
          BY <1>13 DEF At
        <5>2. m \in Nat
          BY <1>7, <4>2
        <5>3. Len(delivered') \in Nat
          BY <1>2 DEF Buffered
        <5> QED
          BY <1>11, <4>1, <5>1, <5>2, <5>3
      <4>5. Affords(z, m)'
        BY <1>7, <2>2, <4>3, <4>4, AffordsGap
      <4>6. InOrder(z)'
        <5>1. Later(w, z)
          BY <1>7, <2>2, <4>3, <4>4, GapLater
        <5>2. DOMAIN sends' \subseteq Nat
          BY <1>7, <1>9
        <5> QED
          BY <1>12, <2>2, <4>1, <4>4, <5>1, <5>2, LaterOrder
      <4>7. Spent(z, m)'
        <5>1. Spent(w, n)' /\ rx_buffer' \in Seq(Bytes)
          BY <1>1, <1>16, <4>1 DEF TInv, TypeOK, decoder
        <5> QED
          BY <1>7, <2>2, <4>3, <4>4, <5>1, SpentGap
      <4> QED
        BY <4>1, <4>2, <4>5, <4>6, <4>7
    <3> QED
      BY <3>1, <3>2
  <2>6. \A i \in 1..Len(r) : r[i][2] <= lost'
    <3>1. q \in Seq(Places \X Nat) /\ Len(q) \in Nat
      BY <1>4, <1>7 DEF Chained
    <3>2. ASSUME NEW i \in 1..Len(r)
          PROVE  r[i][2] <= lost'
      <4>1. DOMAIN r = DOMAIN q /\ i \in 1..Len(q) /\ Len(r) = Len(q)
        BY <2>1, <2>2, <3>1 DEF Chained
      <4>2. q[i][2] \in Nat
        <5>1. q[i] \in Places \X Nat
          BY <3>1, <4>1, ElementOfSeq
        <5> QED
          BY <5>1
      <4>3. CASE i = Len(q)
        BY <1>0, <2>4, <4>1, <4>3
      <4>4. CASE i # Len(q)
        <5>1. r[i] = q[i]
          <6>1. i \in DOMAIN q
            BY <3>1, <4>1
          <6> QED
            BY <2>1, <4>4, <6>1
        <5>2. q[i][2] <= lost
          BY <1>4, <4>1
        <5> QED
          BY <1>0, <1>15, <4>2, <5>1, <5>2
      <4> QED
        BY <4>3, <4>4
    <3> QED
      BY <3>2
  <2> QED
    BY <1>13, <2>2, <2>3, <2>4, <2>5, <2>6 DEF Course
<1> QED
  BY <1>6, <1>14, <1>15 DEF Sends, PollOut

\* Where symbols only move, nothing changes.
LEMMA CourseStays ==
  ASSUME Course, UNCHANGED <<sends, place, escape, lost, decoder>>, Unread' = Unread
  PROVE  Course'
<1>1. PICK q : /\ Chained(sends, q, Unread)
               /\ Writes(q[Len(q)][1]) /\ q[Len(q)][2] = lost
               /\ \A i \in 1..Len(q) : q[i][2] <= lost
               /\ Affords(q[1][1], q[1][2]) /\ InOrder(q[1][1]) /\ Spent(q[1][1], q[1][2])
  BY DEF Course
<1>2. Chained(sends', q, Unread') /\ q[Len(q)][2] = lost'
  BY <1>1
<1>3. Writes(q[Len(q)][1])'
  BY <1>1 DEF Writes, SentBy
<1>4. Affords(q[1][1], q[1][2])'
  BY <1>1 DEF Affords, Spoilt, Stale, Within, decoder
<1>5. InOrder(q[1][1])'
  <2>1. PICK p : p = q[1][1]
    OBVIOUS
  <2>2. InOrder(p) /\ UNCHANGED <<sends, delivered, rx_buffer, crc>>
    BY <1>1, <2>1 DEF decoder
  <2>3. \A g, k : (Behind(g, p) => Behind(g, p)') /\ (AtWork(g, k, p) => AtWork(g, k, p)')
    BY <2>2 DEF Behind, AtWork
  <2>4. BufferOf(crc)'
    BY <2>2 DEF InOrder, BufferOf
  <2> QED
    BY <2>1, <2>2, <2>3, <2>4 DEF InOrder
<1>6. Spent(q[1][1], q[1][2])' /\ \A i \in 1..Len(q) : q[i][2] <= lost'
  BY <1>1 DEF Spent, decoder
<1> QED
  BY <1>2, <1>3, <1>4, <1>5, <1>6 DEF Course

LEMMA RxByteLInv ==
  ASSUME IInv, TInv, Turns, LInv, RxByte
  PROVE  LInv'
<1>1. /\ ring \in Seq(Line) /\ fifo \in Seq(Line) /\ done \in 0..Len(ring)
      /\ claim \in 0..Len(ring) /\ done < claim /\ Len(sends) \in Nat
  BY DEF IInv, SenderOK, RingOK, TInv, TypeOK, RxByte
<1>2. done < Len(ring)
  BY <1>1
<1>3. UNCHANGED <<sends, place, escape, clash, lost>>
  BY DEF RxByte, sender, uart
<1>4. Buffered /\ DecoderOK /\ InputByte(ring[done + 1])
  BY DEF LInv, RxByte, TInv, TypeOK, DecoderOK
<1>5. Buffered'
  <2>1. PICK x : x = ring[done + 1]
    OBVIOUS
  <2>2. InputByte(x)
    BY <1>4, <2>1
  <2> QED
    BY <1>4, <2>2, FlagRead, OtherRead
<1>15. ASSUME alarm # "no"
       PROVE  alarm' # "no"
  <2>1. PICK x : x = ring[done + 1]
    OBVIOUS
  <2>2. InputByte(x)
    BY <1>4, <2>1
  <2> QED
    BY <1>15, <2>2, AlarmStays
<1> SUFFICES ASSUME ~clash', Bearing, alarm = "no"
             PROVE  (alarm' = "no" => Course') /\ (alarm' # "no" => lost' >= 4)
  BY <1>3, <1>5, <1>15 DEF LInv, Bearing
<1>6. PICK q : /\ Chained(sends, q, Unread)
               /\ Writes(q[Len(q)][1]) /\ q[Len(q)][2] = lost
               /\ \A i \in 1..Len(q) : q[i][2] <= lost
               /\ Affords(q[1][1], q[1][2]) /\ InOrder(q[1][1]) /\ Spent(q[1][1], q[1][2])
  BY DEF Bearing, Course
<1>7. PICK s, r : s = Unread /\ r = Tail(q)
  OBVIOUS
<1>8. s \in Seq(Line) /\ s # <<>> /\ s[1] = ring[done + 1]
  <2>1. Reads(ring, done, fifo) \in Seq(Line)
    BY <1>1, ReadsElements
  <2>2. Reads(ring, done, fifo) # <<>> /\ Reads(ring, done, fifo)[1] = ring[done + 1]
    BY <1>1, <1>2, ReadsTail
  <2> QED
    BY <1>7, <2>1, <2>2, UnreadIs
<1>9. Unread' = Tail(s)
  <2>1. Unread' = Reads(ring, done + 1, fifo)
    BY DEF Unread, Reads, RxByte, uart
  <2>2. Tail(Reads(ring, done, fifo)) = Reads(ring, done + 1, fifo)
    BY <1>1, <1>2, ReadsTail
  <2> QED
    BY <1>7, <2>1, <2>2, UnreadIs
<1>10. PICK p, l, b, n : p = q[1][1] /\ l = q[1][2] /\ b = q[2][1] /\ n = q[2][2]
  OBVIOUS
<1>11. /\ Chained(sends, r, Tail(s))
       /\ r[1] = q[2] /\ r[Len(r)] = q[Len(q)]
       /\ s[1] = Symbol(sends, p) /\ At(sends, p) /\ At(sends, b)
       /\ l \in Nat /\ n \in Nat /\ Gap(Following(p), l, b, n)
  <2>1. Chained(sends, q, s)
    BY <1>6, <1>7
  <2>2. s \in Seq(Line) /\ s # <<>>
    BY <1>8
  <2>3. Shorter(sends, q, s, Tail(q), Tail(s))
    BY <2>1, <2>2, ChainedTail
  <2>4. Shorter(sends, q, s, r, Tail(s))
    BY <1>7, <2>3
  <2> QED
    BY <1>10, <2>4 DEF Shorter
<1>12. /\ Spent(r[1][1], r[1][2])' /\ (alarm' # "no" => l >= 4)
       /\ alarm' = "no" => Affords(r[1][1], r[1][2])' /\ InOrder(r[1][1])'
  <2>1. InputByte(Symbol(sends, p)) /\ Affords(p, l) /\ InOrder(p) /\ Spent(p, l)
    <3>1. ring[done + 1] = Symbol(sends, p)
      BY <1>8, <1>11
    <3> QED
      BY <1>4, <1>6, <1>10, <3>1
  <2>2. Affords(Following(p), l)'
    BY <1>1, <1>3, <1>4, <1>11, <2>1, AffordsRead DEF Turns
  <2>3. PICK a : a = Following(p)
    OBVIOUS
  <2>4. a \in Places /\ b \in Places
    <3>1. p \in Places
      BY <1>11 DEF At
    <3> QED
      BY <1>11, <2>3, <3>1, FollowingPlace DEF At
  <2>5. Len(delivered') \in Nat
    BY <1>5 DEF Buffered
  <2>6. Affords(a, l)' /\ Gap(a, l, b, n)
    BY <1>11, <2>2, <2>3
  <2>7. Affords(b, n)'
    BY <1>11, <2>4, <2>5, <2>6, AffordsGap
  <2>8. ASSUME alarm' = "no"
        PROVE  InOrder(b)'
    <3>1. DOMAIN sends = 1..Len(sends)
      BY DEF IInv, SenderOK
    <3>2. InOrder(a)'
      BY <1>1, <2>8, <1>3, <1>4, <1>11, <2>1, <2>3, <3>1, OrderRead DEF Turns
    <3>3. Later(a, b)
      BY <1>11, <2>4, <2>6, GapLater
    <3>4. DOMAIN sends' \subseteq Nat
      BY <1>1, <1>3, <3>1
    <3> QED
      BY <2>4, <3>2, <3>3, <3>4, LaterOrder
  <2>9. Spent(a, l)' /\ (alarm' # "no" => l >= 4)
    BY <1>1, <1>4, <1>11, <2>1, <2>3, SpentRead DEF Turns
  <2>10. Spent(b, n)'
    <3>1. rx_buffer' \in Seq(Bytes)
      <4>1. done + 1 \in 1..Len(ring) /\ ring \in Seq(Symbols)
        BY <1>1, <1>2 DEF TInv, TypeOK
      <4>2. ring[done + 1] \in Symbols
        BY <4>1, ElementOfSeq
      <4>3. DecoderOK'
        BY <1>4, <4>2, InputByteTyped
      <4> QED
        BY <4>3 DEF DecoderOK
    <3> QED
      BY <1>11, <2>4, <2>6, <2>9, <3>1, SpentGap
  <2> QED
    BY <1>10, <1>11, <2>7, <2>8, <2>9, <2>10
<1>16. l <= lost' /\ \A i \in 1..Len(r) : r[i][2] <= lost'
  <2>1. q \in Seq(Places \X Nat) /\ Len(q) \in Nat /\ Len(q) >= 1
    <3>1. Len(s) \in Nat
      BY <1>8
    <3> QED
      BY <1>6, <1>7, <3>1 DEF Chained
  <2>2. q # <<>> /\ 1 \in 1..Len(q)
    BY <2>1
  <2>3. Len(r) = Len(q) - 1 /\ \A i \in 1..Len(r) : r[i] = q[i + 1]
    BY <1>7, <2>1, <2>2, HeadTailProperties
  <2>4. \A i \in 1..Len(r) : i + 1 \in 1..Len(q)
    BY <2>1, <2>3
  <2> QED
    BY <1>3, <1>6, <1>10, <2>2, <2>3, <2>4
<1>13. Writes(r[Len(r)][1])' /\ r[Len(r)][2] = lost'
  <2>1. Writes(r[Len(r)][1]) /\ r[Len(r)][2] = lost
    BY <1>6, <1>11
  <2> QED
    BY <1>3, <2>1 DEF Writes, SentBy
<1>14. Chained(sends', r, Unread')
  BY <1>3, <1>9, <1>11
<1>17. alarm' # "no" => lost' >= 4
  <2>1. lost' \in Nat
    BY <1>3, HdlcAssumption DEF TInv, TypeOK
  <2> QED
    BY <1>11, <1>12, <1>16, <2>1
<1> QED
  BY <1>12, <1>13, <1>14, <1>16, <1>17 DEF Course

LEMMA ReceiverLInv ==
  ASSUME IInv, TInv, Turns, LInv, Interrupt \/ Handler
  PROVE  LInv'
<1>1. UNCHANGED <<sender, lost>>
  BY DEF Interrupt, Receive, Handler, RxStart, RxByte, RxFinish, uart
<1>2. UNCHANGED <<sends, place, escape, clash, lost>>
  BY <1>1 DEF sender
<1>3. CASE RxByte
  BY <1>3, RxByteLInv
<1>4. CASE Unread' = Unread /\ UNCHANGED decoder
  <2>1. Buffered'
    BY <1>4 DEF LInv, Buffered, decoder
  <2>2. ASSUME Course
        PROVE  Course'
    BY <1>2, <1>4, <2>2, CourseStays
  <2>3. alarm' = alarm
    BY <1>4 DEF decoder
  <2> QED
    BY <1>2, <2>1, <2>2, <2>3 DEF LInv, Bearing
<1> QED
  BY <1>3, <1>4, MovesOnly

LEMMA InitLInv == Init => LInv
<1> SUFFICES ASSUME Init PROVE LInv
  OBVIOUS
<1> USE HdlcAssumption
<1>1. PICK w : w = <<1, 0, 0>>
  OBVIOUS
<1>2. w[1] = 1 /\ w[2] = 0 /\ w[3] = 0
  BY <1>1
<1>3. w \in Places
  <2>1. 1 \in Nat \ {0} /\ 0 \in 0..Length + 1 /\ 0 \in {0, 1}
    OBVIOUS
  <2> QED
    BY <1>1, <2>1 DEF Places
<1>4. /\ sends = <<>> /\ Len(sends) = 0 /\ lost = 0 /\ Unread = <<>>
      /\ delivered = <<>> /\ rx_buffer = <<>> /\ crc = <<>> /\ next_escaped = FALSE
  BY DEF Init, Unread
<1>5. Buffered
  BY <1>4 DEF Buffered
<1>6. At(sends, w)
  BY <1>2, <1>3, <1>4 DEF At
<1>7. Writes(w)
  BY <1>1, <1>4 DEF Writes, Init
<1>8. Affords(w, 0)
  <2>1. Within(w)
    <3>1. Beginning(sends[w[1]], 0) = <<>>
      BY BeginningEnds
    <3>2. (w[3] = 1) = FALSE
      BY <1>2
    <3> QED
      BY <1>2, <1>4, <3>1, <3>2 DEF Within
  <2>2. Spoilt(w) = 0
    BY <2>1 DEF Spoilt
  <2> QED
    BY <1>2, <1>4, <2>2 DEF Affords
<1>9. InOrder(w)
  <2>1. PICK g : g = [i \in {} |-> 0]
    OBVIOUS
  <2>2. DOMAIN delivered = {}
    BY <1>4
  <2>3. g \in [DOMAIN delivered -> DOMAIN sends] /\ DOMAIN g = {}
    BY <2>1, <2>2
  <2>4. Behind(g, w)
    BY <2>3 DEF Behind
  <2> QED
    BY <1>4, <2>4 DEF InOrder, BufferOf
<1>10. PICK q : q = << <<w, 0>> >>
  OBVIOUS
<1>11. q[1][1] = w /\ q[1][2] = 0 /\ Len(q) = 1 /\ q \in Seq(Places \X Nat)
  BY <1>3, <1>10
<1>12. Chained(sends, q, <<>>)
  <2>1. \A i \in 1..Len(q) : q[i][1] = w
    BY <1>11
  <2>2. Len(q) = Len(<<>>) + 1 /\ 1..Len(<<>>) = {}
    BY <1>11
  <2> QED
    BY <1>6, <1>11, <2>1, <2>2 DEF Chained
<1>13. Spent(w, 0)
  BY <1>4 DEF Spent
<1>14. \A i \in 1..Len(q) : q[i][2] <= lost
  BY <1>4, <1>11
<1>15. Course
  BY <1>4, <1>7, <1>8, <1>9, <1>11, <1>12, <1>13, <1>14 DEF Course
<1> QED
  BY <1>5, <1>15 DEF LInv, Bearing, Init

LEMMA NextLInv == IInv /\ TInv /\ SInv /\ LInv /\ [Next]_vars => LInv'
<1> SUFFICES ASSUME IInv, TInv, SInv, LInv, [Next]_vars
             PROVE  LInv'
  OBVIOUS
<1>1. Turns
  BY DEF SInv
<1>2. ASSUME UNCHANGED vars
      PROVE  LInv'
  <2>1. UNCHANGED <<sends, place, escape, lost, decoder, clash>> /\ Unread' = Unread
    BY <1>2 DEF vars, sender, uart, rx_work, Unread
  <2>2. Buffered'
    BY <2>1 DEF LInv, Buffered, decoder
  <2>3. alarm' = alarm
    BY <2>1 DEF decoder
  <2> QED
    BY <2>1, <2>2, <2>3, CourseStays DEF LInv, Bearing
<1> QED
  BY <1>1, <1>2, SendLInv, ReceiverLInv DEF Next

\* With nothing on its way and nothing begun, no frame is left to be dropped.
LEMMA CourseEnds ==
  ASSUME IInv, TInv, LInv
  PROVE  Resync
<1>1. ASSUME ~clash, alarm = "no"
      PROVE  HandedInOrder
  <2>1. PICK p, g : Behind(g, p)
    BY <1>1 DEF LInv, Bearing, Course, InOrder
  <2> QED
    BY <2>1 DEF Behind, HandedInOrder
<1> SUFFICES ASSUME ~clash, alarm = "no", Unread = <<>>, \A t \in Threads : place[t] = Idle
             PROVE  Len(delivered) + 2 * lost >= Len(sends)
  BY <1>1 DEF LInv, Bearing, Resync
<1>2. PICK q : /\ Chained(sends, q, Unread)
               /\ Writes(q[Len(q)][1]) /\ q[Len(q)][2] = lost
               /\ \A i \in 1..Len(q) : q[i][2] <= lost
               /\ Affords(q[1][1], q[1][2]) /\ InOrder(q[1][1]) /\ Spent(q[1][1], q[1][2])
  BY DEF LInv, Bearing, Course
<1>3. Len(q) = 1
  BY <1>2 DEF Chained
<1>4. PICK w : w = q[1][1]
  OBVIOUS
<1>5. Writes(w) /\ Affords(w, lost)
  BY <1>2, <1>3, <1>4
<1>6. w = <<Len(sends) + 1, 0, 0>>
  BY <1>5 DEF Writes
<1>7. Len(delivered) + 2 * lost >= (w[1] - 1) + Spoilt(w)
  BY <1>5 DEF Affords
<1>8. Len(sends) \in Nat /\ lost \in Nat /\ Len(delivered) \in Nat
  BY HdlcAssumption DEF IInv, SenderOK, TInv, TypeOK, LInv, Buffered
<1>9. Spoilt(w) \in 0..2
  BY SpoiltBounds
<1>10. w[1] = Len(sends) + 1
  BY <1>6
<1> QED
  BY <1>7, <1>8, <1>9, <1>10

(***************************************************************************)
(* Whatever the overruns of the UART lose, flags and escapes too, and      *)
(* however the losses bunch: as long as no two threads have sent at the    *)
(* same time, what hdlc_rx_handler has handed up are frames that           *)
(* hdlc_block_send_sync wrote, whole, in that order and none of them       *)
(* twice, and all of them but two for each symbol lost once everything     *)
(* sent has been read - or the assert on the control byte has failed       *)
(* (hdlc.c:78), and four symbols at least were lost before that.           *)
(***************************************************************************)
THEOREM ReceiverFindsBack == SafeSpec => []Resync
<1>1. Init => TInv /\ SInv /\ LInv
  BY InitTInv, InitSInv, InitLInv
<1>2. IInv /\ IInv' /\ TInv /\ SInv /\ LInv /\ [Next]_vars => TInv' /\ SInv' /\ LInv'
  BY NextSInv, NextLInv
<1>3. IInv /\ TInv /\ LInv => Resync
  BY CourseEnds
<1> QED
  BY <1>1, <1>2, <1>3, Invariance, PTL DEF SafeSpec
=============================================================================
