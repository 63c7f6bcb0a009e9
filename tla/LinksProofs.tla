---------------------------- MODULE LinksProofs ----------------------------
(***************************************************************************)
(* Theorems about Links, for any number of senders, writers, connections   *)
(* and messages, messages of any length and a ring and a pipe of any size. *)
(* Each link has an invariant of its own.                                  *)
(***************************************************************************)
EXTENDS Links, SequenceTheorems, TLAPS

-----------------------------------------------------------------------------
(* The SVC                                                                 *)

SvcFlags == {svc_intf, connected, waiting, helloed, late} \subseteq BOOLEAN
\* The semaphore is given by an answer to a hello: of this gb_svc_init, which then
\* still waits, or of an earlier one.
SvcLogic ==
  /\ svc_init > 0 => late \/ (helloed /\ waiting)
  /\ SvcReady
SvcOthers ==
  /\ svc_init \in 0..1 /\ result \in {"none", "ok", "EALREADY", "EAGAIN", "errno"}
  /\ to_ap \in Seq({"version", "hello", "module"})
  /\ inits \in 0..MaxInits /\ events \in 0..MaxEvents
SvcInv == SvcFlags /\ SvcOthers /\ SvcLogic

LEMMA InitSvc == SvcInit => SvcInv
<1> SUFFICES ASSUME SvcInit PROVE SvcInv
  OBVIOUS
<1>1. SvcFlags
  BY DEF SvcInit, SvcFlags
<1>2. SvcOthers
  BY SvcAssumption DEF SvcInit, SvcOthers
<1>3. SvcLogic
  BY DEF SvcInit, SvcLogic, SvcReady
<1> QED
  BY <1>1, <1>2, <1>3 DEF SvcInv

LEMMA NextSvc == SvcInv /\ SvcNext => SvcInv'
<1> SUFFICES ASSUME SvcInv, SvcNext PROVE SvcInv'
  OBVIOUS
<1>1. SvcFlags'
  <2>1. SvcFlags
    BY DEF SvcInv
  <2>2. CASE InitBegin \/ InitEnd
    BY <2>1, <2>2, Zenon DEF SvcFlags, InitBegin, InitEnd
  <2>3. CASE Deinit \/ ApbridgeDeinit \/ ModuleEvent
    BY <2>1, <2>3, Zenon DEF SvcFlags, Deinit, ApbridgeDeinit, ModuleEvent
  <2>4. CASE Response
    BY <2>1, <2>4, Zenon DEF SvcFlags, Response, VersionResponse, HelloResponse
  <2> QED
    BY <2>2, <2>3, <2>4 DEF SvcNext
<1>2. SvcOthers'
  <2>1. SvcOthers
    BY DEF SvcInv
  <2>2. CASE InitBegin
    BY <2>1, <2>2, SvcAssumption DEF SvcOthers, InitBegin
  <2>4. CASE InitEnd
    BY <2>1, <2>4 DEF SvcOthers, InitEnd
  <2>5. CASE Deinit \/ ApbridgeDeinit
    BY <2>1, <2>5 DEF SvcOthers, Deinit, ApbridgeDeinit
  <2>6. CASE ModuleEvent
    BY <2>1, <2>6, SvcAssumption DEF SvcOthers, ModuleEvent
  <2>3. CASE Response
    <3>1. to_ap # <<>> /\ Tail(to_ap) \in Seq({"version", "hello", "module"})
      BY <2>1, <2>3 DEF Response, Answering, SvcOthers
    <3>2. /\ UNCHANGED <<result, inits, events>>
          /\ to_ap' = Tail(to_ap) \/ to_ap' = Append(Tail(to_ap), "hello")
          /\ svc_init' = svc_init \/ svc_init' = 1
      BY <2>3 DEF Response, VersionResponse, HelloResponse
    <3>3. to_ap' \in Seq({"version", "hello", "module"})
      BY <3>1, <3>2
    <3> QED
      BY <2>1, <3>2, <3>3 DEF SvcOthers
  <2> QED
    BY <2>2, <2>3, <2>4, <2>5, <2>6 DEF SvcNext
<1>3. SvcLogic'
  <2>1. SvcLogic /\ SvcOthers
    BY DEF SvcInv
  <2>2. CASE InitBegin \/ InitEnd \/ Deinit \/ ApbridgeDeinit \/ ModuleEvent
    BY <2>1, <2>2 DEF SvcLogic, SvcOthers, SvcReady, InitBegin, InitEnd, Deinit, ApbridgeDeinit,
       ModuleEvent
  <2>3. CASE Response
    BY <2>1, <2>3, Zenon DEF SvcLogic, SvcReady, Response, VersionResponse, HelloResponse
  <2> QED
    BY <2>2, <2>3 DEF SvcNext
<1> QED
  BY <1>1, <1>2, <1>3 DEF SvcInv

-----------------------------------------------------------------------------
(* The I2C target                                                          *)

LEMMA LengthsType ==
  /\ Messages = 1..Len(Lengths) /\ Len(Lengths) \in Nat
  /\ \A m \in Messages : Lengths[m] \in Nat /\ Lengths[m] > 0
  BY I2cAssumption DEF Messages

\* A unit that goes out, and one that comes in.
OutUnit == Messages \X Nat
InUnit == {u \in Messages \X (Nat \ {0}) : u[2] <= Lengths[u[1]]}

LEMMA InUnits ==
  ASSUME NEW u \in InUnit
  PROVE  /\ u = <<u[1], u[2]>> /\ u[1] \in Messages /\ u[2] \in Nat /\ u[2] > 0
         /\ u[2] <= Lengths[u[1]] /\ Lengths[u[1]] \in Nat
  BY LengthsType DEF InUnit

\* The unit behind a unit that comes in.
Behind(u) == IF u[2] < Lengths[u[1]] THEN <<u[1], u[2] + 1>> ELSE <<u[1] + 1, 1>>

LEMMA BehindPair ==
  ASSUME NEW m, NEW l
  PROVE  Behind(<<m, l>>) = IF l < Lengths[m] THEN <<m, l + 1>> ELSE <<m + 1, 1>>
BY DEF Behind

\* s is a stretch of the stream that goes out which begins with first, and what follows.
After(s, first) == IF s = <<>> THEN first ELSE Follow(s[Len(s)])
Chain(s, first) == \A i \in 1..Len(s) : s[i] = IF i = 1 THEN first ELSE Follow(s[i - 1])

LEMMA ChainAppend ==
  ASSUME NEW T, NEW s \in Seq(T), NEW first, Chain(s, first), NEW u \in T, u = After(s, first)
  PROVE  Chain(Append(s, u), first) /\ After(Append(s, u), first) = Follow(u)
<1> DEFINE t == Append(s, u)
<1>1. t \in Seq(T) /\ Len(t) = Len(s) + 1 /\ Len(s) \in Nat /\ t[Len(t)] = u
      /\ \A i \in 1..Len(s) : t[i] = s[i]
  OBVIOUS
<1> HIDE DEF t
<1>2. ASSUME NEW i \in 1..Len(t)
      PROVE  t[i] = IF i = 1 THEN first ELSE Follow(t[i - 1])
  <2>1. CASE i <= Len(s)
    BY <1>1, <2>1 DEF Chain
  <2>2. CASE i = Len(s) + 1 /\ s = <<>>
    BY <1>1, <2>2 DEF After
  <2>3. CASE i = Len(s) + 1 /\ s # <<>>
    <3>1. Len(s) \in 1..Len(s) /\ i # 1 /\ i - 1 = Len(s)
      BY <1>1, <2>3
    <3> QED
      BY <1>1, <2>3, <3>1 DEF After
  <2> QED
    BY <1>1, <2>1, <2>2, <2>3
<1>3. After(t, first) = Follow(u)
  BY <1>1 DEF After
<1> QED
  BY <1>2, <1>3 DEF Chain, t

LEMMA ChainTail ==
  ASSUME NEW T, NEW s \in Seq(T), NEW first, Chain(s, first), s # <<>>
  PROVE  /\ Head(s) = first
         /\ Chain(Tail(s), Follow(first)) /\ After(Tail(s), Follow(first)) = After(s, first)
<1> DEFINE t == Tail(s)
<1>1. t \in Seq(T) /\ Len(t) = Len(s) - 1 /\ Len(s) \in Nat \ {0} /\ Head(s) = s[1]
      /\ \A i \in 1..Len(s) - 1 : t[i] = s[i + 1]
  OBVIOUS
<1> HIDE DEF t
<1>2. s[1] = first
  BY <1>1 DEF Chain
<1>3. ASSUME NEW i \in 1..Len(t)
      PROVE  t[i] = IF i = 1 THEN Follow(first) ELSE Follow(t[i - 1])
  <2>1. i + 1 \in 1..Len(s) /\ t[i] = s[i + 1] /\ i + 1 # 1 /\ (i + 1) - 1 = i
    BY <1>1
  <2>2. s[i + 1] = Follow(s[i])
    BY <2>1 DEF Chain
  <2>3. CASE i = 1
    BY <1>2, <2>1, <2>2, <2>3
  <2>4. CASE i # 1
    <3>1. i - 1 \in 1..Len(s) - 1 /\ (i - 1) + 1 = i
      BY <1>1, <2>4
    <3>2. t[i - 1] = s[i]
      BY <1>1, <3>1
    <3> QED
      BY <2>1, <2>2, <2>4, <3>2
  <2> QED
    BY <2>3, <2>4
<1>4. After(t, Follow(first)) = After(s, first)
  BY <1>1, <1>2 DEF After
<1> QED
  BY <1>1, <1>2, <1>3, <1>4 DEF Chain, t

\* The same of what comes in, with every unit of a message at its distance.
Runs(s) ==
  \A i, j \in 1..Len(s) :
    i <= j =>
      LET k == s[i][2] + (j - i)
      IN  /\ k <= Lengths[s[i][1]] => s[j] = <<s[i][1], k>>
          /\ k = Lengths[s[i][1]] + 1 => s[j] = <<s[i][1] + 1, 1>>

LEMMA RunsAppend ==
  ASSUME NEW s \in Seq(InUnit), Runs(s), NEW u \in InUnit,
         s # <<>> => u = Behind(s[Len(s)])
  PROVE  Runs(Append(s, u))
<1> DEFINE t == Append(s, u)
<1>1. t \in Seq(InUnit) /\ Len(t) = Len(s) + 1 /\ Len(s) \in Nat /\ t[Len(t)] = u
      /\ \A i \in 1..Len(s) : t[i] = s[i]
  OBVIOUS
<1> HIDE DEF t
<1>2. ASSUME NEW i \in 1..Len(t), NEW j \in 1..Len(t), i <= j
      PROVE  LET k == t[i][2] + (j - i)
             IN  /\ k <= Lengths[t[i][1]] => t[j] = <<t[i][1], k>>
                 /\ k = Lengths[t[i][1]] + 1 => t[j] = <<t[i][1] + 1, 1>>
  <2> DEFINE m == t[i][1]
             k == t[i][2] + (j - i)
             l == s[i][2] + ((j - 1) - i)
  <2>1. t[i] = <<m, t[i][2]>> /\ m \in Messages /\ t[i][2] \in Nat
        /\ t[i][2] <= Lengths[m] /\ Lengths[m] \in Nat
    BY <1>1, InUnits
  <2>2. CASE j <= Len(s)
    <3>1. i \in 1..Len(s) /\ j \in 1..Len(s) /\ t[i] = s[i] /\ t[j] = s[j]
      BY <1>1, <1>2, <2>2
    <3> QED
      BY <1>2, <3>1 DEF Runs
  <2>3. CASE i = j
    BY <2>1, <2>3
  <2>4. CASE j = Len(s) + 1 /\ i # j
    <3>1. i \in 1..Len(s) /\ Len(s) \in 1..Len(s) /\ i <= Len(s) /\ t[i] = s[i] /\ t[j] = u
          /\ j - 1 = Len(s) /\ s # <<>>
      BY <1>1, <1>2, <2>4
    <3>2. k = l + 1 /\ l \in Nat
      BY <2>1, <3>1
    <3>3. l <= Lengths[m] => s[Len(s)] = <<m, l>>
      BY <3>1 DEF Runs
    <3>4. u = Behind(s[Len(s)])
      BY <3>1
    <3> HIDE DEF k, l, m
    <3>5. l <= Lengths[m] => u = IF l < Lengths[m] THEN <<m, l + 1>> ELSE <<m + 1, 1>>
      BY <3>3, <3>4, BehindPair
    <3>6. /\ k <= Lengths[m] => l < Lengths[m]
          /\ k = Lengths[m] + 1 => l <= Lengths[m] /\ ~(l < Lengths[m])
          /\ l < Lengths[m] => l <= Lengths[m]
      BY <2>1, <3>2
    <3>7. (k <= Lengths[m] => t[j] = <<m, k>>) /\ (k = Lengths[m] + 1 => t[j] = <<m + 1, 1>>)
      BY <3>1, <3>2, <3>5, <3>6
    <3> QED
      BY <3>7 DEF k, m
  <2> QED
    BY <1>1, <1>2, <2>2, <2>3, <2>4
<1> QED
  BY <1>2 DEF Runs, t

LEMMA RunsRest ==
  ASSUME NEW s \in Seq(InUnit), Runs(s), NEW n \in 0..Len(s)
  PROVE  Runs(SubSeq(s, n + 1, Len(s)))
<1> DEFINE t == SubSeq(s, n + 1, Len(s))
<1>1. /\ Len(s) \in Nat /\ Len(t) = Len(s) - n
      /\ \A i \in 1..Len(s) - n : t[i] = s[i + n]
  OBVIOUS
<1> HIDE DEF t
<1>2. ASSUME NEW i \in 1..Len(t), NEW j \in 1..Len(t), i <= j
      PROVE  LET k == t[i][2] + (j - i)
             IN  /\ k <= Lengths[t[i][1]] => t[j] = <<t[i][1], k>>
                 /\ k = Lengths[t[i][1]] + 1 => t[j] = <<t[i][1] + 1, 1>>
  <2> DEFINE a == i + n
             b == j + n
  <2>1. /\ a \in 1..Len(s) /\ b \in 1..Len(s) /\ a <= b /\ b - a = j - i
        /\ i \in 1..Len(s) - n /\ j \in 1..Len(s) - n
    BY <1>1, <1>2
  <2>2. t[i] = s[a] /\ t[j] = s[b]
    BY <1>1, <2>1
  <2> HIDE DEF a, b
  <2>3. LET k == s[a][2] + (b - a)
        IN  /\ k <= Lengths[s[a][1]] => s[b] = <<s[a][1], k>>
            /\ k = Lengths[s[a][1]] + 1 => s[b] = <<s[a][1] + 1, 1>>
    BY <2>1 DEF Runs
  <2> QED
    BY <2>1, <2>2, <2>3
<1> QED
  BY <1>2 DEF Runs, t

\* At the head of the ring stands the first unit of message m: the next Lengths[m]
\* units are the rest of it, and the message behind follows.
LEMMA RunsHead ==
  ASSUME NEW s \in Seq(InUnit), Runs(s), NEW m, s # <<>>, s[1] = <<m, 1>>,
         Lengths[m] <= Len(s)
  PROVE  /\ SubSeq(s, 1, Lengths[m]) = Units(m, 1)
         /\ s[Lengths[m]] = <<m, Lengths[m]>>
         /\ Lengths[m] < Len(s) => s[Lengths[m] + 1] = <<m + 1, 1>>
<1> DEFINE n == Lengths[m]
           t == SubSeq(s, 1, n)
<1>1. 1 \in 1..Len(s) /\ Len(s) \in Nat /\ s[1] \in InUnit
  OBVIOUS
<1>2. m \in Messages /\ n \in Nat /\ n > 0
  BY <1>1, InUnits, LengthsType
<1>3. \A j \in 1..Len(s) : /\ j <= n => s[j] = <<m, j>>
                           /\ j = n + 1 => s[j] = <<m + 1, 1>>
  <2>1. TAKE j \in 1..Len(s)
  <2>2. s[1][1] = m /\ s[1][2] + (j - 1) = j
    OBVIOUS
  <2> QED
    BY <1>1, <2>2 DEF Runs
<1>4. Len(t) = n /\ t \in Seq(InUnit) /\ \A i \in 1..n : t[i] = s[i]
  BY <1>1, <1>2
<1>5. t = Units(m, 1)
  <2>1. Units(m, 1) = [i \in 1..n |-> <<m, i>>]
    BY <1>2 DEF Units
  <2>2. t = [i \in 1..n |-> t[i]]
    <3> HIDE DEF t, n
    <3>1. t \in [1..Len(t) -> InUnit]
      BY <1>4, LenProperties
    <3> QED
      BY <1>4, <3>1
  <2>3. \A i \in 1..n : t[i] = <<m, i>>
    BY <1>1, <1>2, <1>3, <1>4
  <2> HIDE DEF t, n
  <2> QED
    BY <2>1, <2>2, <2>3
<1> QED
  BY SMTT(20), <1>1, <1>2, <1>3, <1>5

LEMMA TakenAppend ==
  ASSUME NEW T, NEW s \in Seq(T), NEW x \in T, x = Units(Len(s) + 1, 1),
         \A i \in DOMAIN s : s[i] = Units(i, 1)
  PROVE  \A i \in DOMAIN Append(s, x) : Append(s, x)[i] = Units(i, 1)
  OBVIOUS

-----------------------------------------------------------------------------
NextTaken == <<Len(taken) + 1, 1>>
NextReceived == IF rx_buf = <<>> THEN NextTaken ELSE Behind(rx_buf[Len(rx_buf)])
Writing ==
  IF writing[1] \in Messages /\ writing[2] > Lengths[writing[1]]
  THEN <<writing[1] + 1, 1>> ELSE writing

\* Nothing of what has come is missing: the ring holds a stretch of the stream of the
\* master, from the message after the last that was taken to what is written next.
RxStream ==
  /\ \A i \in DOMAIN taken : taken[i] = Units(i, 1)
  /\ rx_buf # <<>> => rx_buf[1] = NextTaken
  /\ Runs(rx_buf)
  /\ Writing = NextReceived

NextRead == After(read, <<1, 0>>)
NextWrite == After(tx_pipe, NextRead)

\* What was read and what is in the pipe are one stream, and the only writer, if there
\* is one, has the next unit of it.
TxStream ==
  /\ Chain(read, <<1, 0>>) /\ Chain(tx_pipe, NextRead)
  /\ \A w \in Writers : unit[w] # NoUnit =>
       /\ unit[w] = NextWrite /\ unit[w][1] = given
       /\ \A v \in Writers : unit[v] # NoUnit => v = w
  /\ (\A w \in Writers : unit[w] = NoUnit) => NextWrite = <<given + 1, 0>>

I2cFlags == {dropped, work, running, collided} \subseteq BOOLEAN
RxTypes ==
  /\ stopped \in 0..Len(Lengths)
  /\ writing \in (1..Len(Lengths) + 1) \X (Nat \ {0})
  /\ rx_buf \in Seq(InUnit) /\ Len(rx_buf) <= PipeLen
  /\ taken \in Seq(Seq(InUnit))
TxTypes ==
  /\ given \in 0..Len(Lengths)
  /\ tx_pipe \in Seq(OutUnit) /\ Len(tx_pipe) <= PipeLen /\ read \in Seq(OutUnit)
  /\ unit \in [Writers -> {NoUnit} \cup {u \in OutUnit : u[2] <= Lengths[u[1]]}]

I2cInv ==
  I2cFlags /\ RxTypes /\ TxTypes /\ (dropped \/ RxStream) /\ (collided \/ TxStream)

LEMMA InitI2c == I2cInit => I2cInv
<1> SUFFICES ASSUME I2cInit PROVE I2cInv
  OBVIOUS
<1>1. I2cFlags
  BY DEF I2cInit, I2cFlags
<1>2. RxTypes
  BY I2cAssumption, LengthsType DEF I2cInit, RxTypes
<1>3. TxTypes
  BY I2cAssumption, LengthsType DEF I2cInit, TxTypes
<1>4. RxStream
  <2>1. rx_buf = <<>> /\ taken = <<>> /\ writing = <<1, 1>>
    BY DEF I2cInit
  <2>2. Writing = NextReceived
    BY <2>1, LengthsType DEF Writing, NextReceived, NextTaken
  <2> QED
    BY <2>1, <2>2 DEF RxStream, Runs
<1>5. TxStream
  BY DEF I2cInit, TxStream, NextWrite, NextRead, Chain, After
<1> QED
  BY <1>1, <1>2, <1>3, <1>4, <1>5 DEF I2cInv

LEMMA I2cFlagsStep ==
  ASSUME I2cFlags, I2cNext
  PROVE  I2cFlags'
<1>1. CASE WriteReceived \/ Stop \/ WorkBegin \/ TargetRead
  BY <1>1, Zenon DEF I2cFlags, WriteReceived, Stop, WorkBegin, TargetRead, i2c_tx, i2c_rx
<1>2. CASE WorkTake
  BY <1>2, Zenon DEF I2cFlags, WorkTake, Take, i2c_tx
<1>3. ASSUME NEW w \in Writers, SendBegin(w) \/ PipeWrite(w)
      PROVE  I2cFlags'
  BY <1>3, Zenon DEF I2cFlags, SendBegin, PipeWrite, i2c_rx
<1> QED
  BY <1>1, <1>2, <1>3 DEF I2cNext

\* The reception by itself.
RxInv == RxTypes /\ (dropped \/ RxStream)

LEMMA WriteReceivedInv ==
  ASSUME RxInv, WriteReceived
  PROVE  RxInv'
<1>1. /\ rx_buf \in Seq(InUnit) /\ Len(rx_buf) \in Nat /\ Len(rx_buf) <= PipeLen
      /\ PipeLen \in Nat
      /\ writing \in InUnit /\ writing' = <<writing[1], writing[2] + 1>> /\ taken' = taken
      /\ stopped' = stopped
  BY LengthsType, I2cAssumption DEF RxInv, RxTypes, WriteReceived, InUnit
<1>2. writing' \in (1..Len(Lengths) + 1) \X (Nat \ {0})
  BY <1>1 DEF RxInv, RxTypes, WriteReceived
<1>3. CASE Len(rx_buf) < PipeLen
  <2>1. rx_buf' = Append(rx_buf, writing) /\ dropped' = dropped
    BY <1>3 DEF WriteReceived
  <2>2. rx_buf' \in Seq(InUnit) /\ Len(rx_buf') <= PipeLen
        /\ rx_buf' # <<>> /\ rx_buf'[Len(rx_buf')] = writing
        /\ rx_buf'[1] = IF rx_buf = <<>> THEN writing ELSE rx_buf[1]
    BY <1>1, <1>3, <2>1
  <2>3. RxTypes'
    BY <1>1, <1>2, <2>2 DEF RxInv, RxTypes
  <2>4. ASSUME ~dropped
        PROVE  RxStream'
    <3>1. RxStream
      BY <2>4 DEF RxInv
    <3>2. writing = NextReceived
      BY <1>1, <3>1, InUnits DEF RxStream, Writing
    <3>3. Runs(rx_buf')
      BY <1>1, <2>1, <3>1, <3>2, RunsAppend DEF RxStream, NextReceived
    <3>4. NextReceived' = Behind(writing) /\ NextTaken' = NextTaken
      BY <1>1, <2>2 DEF NextReceived, NextTaken
    <3>5. Writing' = Behind(writing)
      BY <1>1, InUnits DEF Writing, Behind
    <3>6. rx_buf'[1] = NextTaken'
      BY <2>2, <3>1, <3>2, <3>4 DEF RxStream, NextReceived
    <3> QED
      BY <1>1, <3>1, <3>3, <3>4, <3>5, <3>6 DEF RxStream, Runs
  <2> QED
    BY <2>1, <2>3, <2>4 DEF RxInv
<1>4. CASE ~(Len(rx_buf) < PipeLen)
  <2>1. rx_buf' = rx_buf /\ dropped' = TRUE
    BY <1>4 DEF WriteReceived
  <2> QED
    BY <1>1, <1>2, <2>1 DEF RxInv, RxTypes
<1> QED
  BY <1>3, <1>4

LEMMA StopInv ==
  ASSUME RxInv, Stop
  PROVE  RxInv'
<1>1. UNCHANGED <<rx_buf, taken, dropped>>
  BY DEF Stop
<1>2. RxTypes'
  BY <1>1, LengthsType DEF RxInv, RxTypes, Stop
<1>3. Writing' = Writing
  <2>1. writing[1] \in Messages /\ writing[2] > Lengths[writing[1]]
        /\ writing' = <<writing[1] + 1, 1>>
    BY DEF Stop
  <2>2. ~(writing'[1] \in Messages /\ writing'[2] > Lengths[writing'[1]])
    BY <2>1, LengthsType
  <2> QED
    BY <2>1, <2>2 DEF Writing
<1> QED
  BY <1>1, <1>2, <1>3 DEF RxInv, RxStream, NextReceived, NextTaken

LEMMA TakeInv ==
  ASSUME RxInv, WorkTake
  PROVE  RxInv'
<1>1. UNCHANGED <<writing, stopped, dropped>> /\ rx_buf \in Seq(InUnit) /\ Len(rx_buf) \in Nat
      /\ taken \in Seq(Seq(InUnit)) /\ Len(taken) \in Nat /\ PipeLen \in Nat
      /\ Len(rx_buf) <= PipeLen
  BY I2cAssumption DEF WorkTake, RxInv, RxTypes
<1>2. CASE rx_buf' = rx_buf /\ taken' = taken
  <2>1. RxTypes'
    BY <1>1, <1>2 DEF RxInv, RxTypes
  <2> QED
    BY <1>1, <1>2, <2>1 DEF RxInv, RxStream, Writing, NextReceived, NextTaken
<1>3. ASSUME NEW n \in HeaderLengths, rx_buf # <<>>, n <= Len(rx_buf),
             rx_buf' = SubSeq(rx_buf, n + 1, Len(rx_buf)),
             taken' = Append(taken, SubSeq(rx_buf, 1, n))
      PROVE  RxInv'
  <2>1. rx_buf[1] \in InUnit
    BY <1>1, <1>3
  <2>2. n \in Nat /\ n > 0
    BY <1>1, <2>1, InUnits, LengthsType DEF HeaderLengths
  <2>3. /\ rx_buf' \in Seq(InUnit) /\ Len(rx_buf') = Len(rx_buf) - n
        /\ \A i \in 1..Len(rx_buf) - n : rx_buf'[i] = rx_buf[i + n]
    BY <1>1, <1>3, <2>2
  <2>4. SubSeq(rx_buf, 1, n) \in Seq(InUnit)
    BY <1>1, <1>3, <2>2
  <2>5. taken' \in Seq(Seq(InUnit)) /\ Len(taken') = Len(taken) + 1
        /\ taken'[Len(taken) + 1] = SubSeq(rx_buf, 1, n)
        /\ \A i \in 1..Len(taken) : taken'[i] = taken[i]
    <3> HIDE DEF InUnit
    <3> QED
      BY <1>1, <1>3, <2>4
  <2>6. RxTypes'
    BY <1>1, <2>2, <2>3, <2>5 DEF RxInv, RxTypes
  <2>7. ASSUME ~dropped
        PROVE  RxStream'
    <3> DEFINE m == Len(taken) + 1
    <3>1. RxStream
      BY <2>7 DEF RxInv
    <3>2. rx_buf[1] = <<m, 1>> /\ n = Lengths[m]
      BY <1>3, <3>1 DEF RxStream, NextTaken, HeaderLengths
    <3>3. /\ SubSeq(rx_buf, 1, n) = Units(m, 1)
          /\ rx_buf[n] = <<m, n>>
          /\ n < Len(rx_buf) => rx_buf[n + 1] = <<m + 1, 1>>
      <4> HIDE DEF m
      <4>1. Runs(rx_buf)
        BY <3>1 DEF RxStream
      <4> QED
        BY <1>1, <1>3, <3>2, <4>1, RunsHead
    <3>4. \A i \in DOMAIN taken' : taken'[i] = Units(i, 1)
      <4> DEFINE T == Seq(InUnit)
                 x == SubSeq(rx_buf, 1, n)
      <4>1. taken \in Seq(T) /\ x \in T /\ x = Units(Len(taken) + 1, 1) /\ taken' = Append(taken, x)
        BY <1>1, <1>3, <2>4, <3>3
      <4>2. \A i \in DOMAIN taken : taken[i] = Units(i, 1)
        BY <3>1 DEF RxStream
      <4> HIDE DEF T, x
      <4> QED
        BY <4>1, <4>2, TakenAppend
    <3>5. NextTaken' = <<m + 1, 1>>
      BY <2>5 DEF NextTaken
    <3>6. rx_buf' # <<>> => rx_buf'[1] = NextTaken'
      <4>1. ASSUME rx_buf' # <<>>
            PROVE  n < Len(rx_buf) /\ rx_buf'[1] = rx_buf[n + 1]
        <5>1. Len(rx_buf') # 0
          BY <2>3, <4>1
        <5> QED
          BY <1>1, <2>2, <2>3, <5>1
      <4> QED
        BY <3>3, <3>5, <4>1
    <3>7. Runs(rx_buf')
      BY <1>1, <1>3, <2>2, <3>1, RunsRest DEF RxStream
    <3>8. NextReceived' = NextReceived
      <4>1. CASE n = Len(rx_buf)
        <5>1. rx_buf' = <<>>
          BY <1>1, <2>3, <4>1
        <5>2. NextReceived = Behind(<<m, n>>)
          BY <1>3, <3>3, <4>1 DEF NextReceived
        <5> QED
          BY <2>2, <3>2, <3>5, <5>1, <5>2 DEF NextReceived, Behind
      <4>2. CASE n < Len(rx_buf)
        <5>1. rx_buf' # <<>> /\ rx_buf'[Len(rx_buf')] = rx_buf[Len(rx_buf)]
          BY <1>1, <2>2, <2>3, <4>2
        <5> QED
          BY <1>3, <5>1 DEF NextReceived
      <4> QED
        BY <1>1, <1>3, <2>2, <4>1, <4>2
    <3> QED
      BY <1>1, <3>1, <3>4, <3>6, <3>7, <3>8 DEF RxStream, Writing, Runs
  <2> QED
    BY <1>1, <2>6, <2>7 DEF RxInv
<1> QED
  BY <1>2, <1>3 DEF WorkTake, Take

\* The transmission by itself.
TxInv == TxTypes /\ (collided \/ TxStream)

LEMMA SendBeginInv ==
  ASSUME TxInv, NEW w \in Writers, SendBegin(w)
  PROVE  TxInv'
<1>1. /\ given \in Nat /\ given < Len(Lengths) /\ Len(Lengths) \in Nat /\ given' = given + 1
      /\ unit' = [unit EXCEPT ![w] = <<given + 1, 0>>] /\ UNCHANGED <<tx_pipe, read>>
  BY LengthsType DEF TxInv, TxTypes, SendBegin
<1>2. /\ unit'[w] = <<given + 1, 0>>
      /\ \A v \in Writers : v # w => unit'[v] = unit[v]
  BY <1>1 DEF TxInv, TxTypes
<1>3. <<given + 1, 0>> \in {u \in OutUnit : u[2] <= Lengths[u[1]]}
  BY <1>1, LengthsType DEF OutUnit
<1>4. TxTypes'
  <2> DEFINE U == {u \in OutUnit : u[2] <= Lengths[u[1]]}
  <2>1. unit \in [Writers -> {NoUnit} \cup U] /\ <<given + 1, 0>> \in U
    BY <1>3 DEF TxInv, TxTypes
  <2> HIDE DEF U
  <2>2. unit' \in [Writers -> {NoUnit} \cup U]
    BY <1>1, <2>1
  <2> QED
    BY <1>1, <2>2 DEF TxInv, TxTypes, U
<1>5. ASSUME ~collided'
      PROVE  TxStream'
  <2>1. ~collided /\ \A v \in Writers : unit[v] = NoUnit
    BY <1>5, Zenon DEF SendBegin
  <2>2. TxStream /\ NextWrite = <<given + 1, 0>>
    BY <2>1 DEF TxInv, TxStream
  <2>3. NextRead' = NextRead /\ NextWrite' = NextWrite
    BY <1>1 DEF NextRead, NextWrite
  <2>4. unit'[w] = NextWrite' /\ unit'[w] # NoUnit /\ unit'[w][1] = given'
        /\ \A v \in Writers : unit'[v] # NoUnit => v = w
    BY <1>1, <1>2, <2>1, <2>2, <2>3 DEF NoUnit
  <2>5. Chain(read', <<1, 0>>) /\ Chain(tx_pipe', NextRead')
    BY <1>1, <2>2, <2>3 DEF TxStream
  <2> QED
    BY <2>4, <2>5 DEF TxStream, Chain
<1> QED
  BY <1>4, <1>5 DEF TxInv

LEMMA PipeWriteInv ==
  ASSUME TxInv, NEW w \in Writers, PipeWrite(w)
  PROVE  TxInv'
<1> DEFINE u == unit[w]
           v == IF u[2] = Lengths[u[1]] THEN NoUnit ELSE <<u[1], u[2] + 1>>
           U == {x \in OutUnit : x[2] <= Lengths[x[1]]}
<1>1. u \in U /\ u \in OutUnit /\ u = <<u[1], u[2]>> /\ u[1] \in Messages /\ u[2] \in Nat
      /\ u[2] <= Lengths[u[1]] /\ Lengths[u[1]] \in Nat
  BY LengthsType DEF TxInv, TxTypes, PipeWrite, OutUnit
<1>2. /\ tx_pipe \in Seq(OutUnit) /\ read \in Seq(OutUnit) /\ Len(tx_pipe) \in Nat
      /\ Len(tx_pipe) < PipeLen /\ PipeLen \in Nat /\ tx_pipe' = Append(tx_pipe, u)
      /\ unit' = [unit EXCEPT ![w] = v] /\ UNCHANGED <<given, collided, read>>
  BY I2cAssumption DEF TxInv, TxTypes, PipeWrite
<1>3. unit \in [Writers -> {NoUnit} \cup U]
  BY DEF TxInv, TxTypes
<1>4. v \in {NoUnit} \cup U
  BY <1>1, LengthsType DEF OutUnit
<1> HIDE DEF U, v
<1>5. /\ unit' \in [Writers -> {NoUnit} \cup U] /\ unit'[w] = v
      /\ \A x \in Writers : x # w => unit'[x] = unit[x]
  BY <1>2, <1>3, <1>4
<1>6. TxTypes'
  <2>1. tx_pipe' \in Seq(OutUnit) /\ Len(tx_pipe') <= PipeLen
    BY <1>1, <1>2
  <2> QED
    BY <1>2, <1>5, <2>1 DEF TxInv, TxTypes, U
<1>7. ASSUME ~collided'
      PROVE  TxStream'
  <2>1. /\ TxStream /\ u = NextWrite /\ u[1] = given
        /\ \A x \in Writers : x # w => unit[x] = NoUnit
    BY <1>2, <1>7 DEF TxInv, TxStream, PipeWrite
  <2>2. NextRead' = NextRead /\ Chain(read', <<1, 0>>)
    BY <1>2, <2>1 DEF NextRead, TxStream
  <2>3. Chain(tx_pipe', NextRead') /\ NextWrite' = Follow(u)
    BY <1>1, <1>2, <2>1, <2>2, ChainAppend DEF TxStream, NextWrite
  <2>4. CASE u[2] = Lengths[u[1]]
    <3>1. Follow(u) = <<given' + 1, 0>>
      BY <1>2, <2>1, <2>4, <1>1 DEF Follow
    <3>2. \A x \in Writers : unit'[x] = NoUnit
      BY <1>5, <2>1, <2>4 DEF v
    <3> QED
      BY <2>2, <2>3, <3>1, <3>2 DEF TxStream, Chain
  <2>5. CASE u[2] # Lengths[u[1]]
    <3>1. v = Follow(u) /\ v # NoUnit /\ v[1] = given'
      BY <1>1, <1>2, <2>1, <2>5 DEF Follow, v, NoUnit
    <3> QED
      BY <1>5, <2>1, <2>2, <2>3, <3>1 DEF TxStream, Chain
  <2> QED
    BY <2>4, <2>5
<1> QED
  BY <1>6, <1>7 DEF TxInv

LEMMA TargetReadInv ==
  ASSUME TxInv, TargetRead
  PROVE  TxInv'
<1> DEFINE u == Head(tx_pipe)
<1>1. /\ tx_pipe \in Seq(OutUnit) /\ read \in Seq(OutUnit) /\ tx_pipe # <<>>
      /\ Len(tx_pipe) \in Nat /\ Len(tx_pipe) <= PipeLen /\ PipeLen \in Nat
      /\ u \in OutUnit /\ read' = Append(read, u) /\ tx_pipe' = Tail(tx_pipe)
      /\ UNCHANGED <<given, unit, collided>>
  BY I2cAssumption DEF TxInv, TxTypes, TargetRead
<1>2. TxTypes'
  <2>1. tx_pipe' \in Seq(OutUnit) /\ Len(tx_pipe') <= PipeLen /\ read' \in Seq(OutUnit)
    BY <1>1
  <2> QED
    BY <1>1, <2>1 DEF TxInv, TxTypes
<1>3. ASSUME ~collided'
      PROVE  TxStream'
  <2>1. TxStream
    BY <1>1, <1>3 DEF TxInv
  <2>2. u = NextRead /\ Chain(tx_pipe', Follow(u)) /\ After(tx_pipe', Follow(u)) = NextWrite
    BY <1>1, <2>1, ChainTail DEF TxStream, NextWrite
  <2>3. Chain(read', <<1, 0>>) /\ NextRead' = Follow(u)
    BY <1>1, <2>1, <2>2, ChainAppend DEF TxStream, NextRead
  <2>4. NextWrite' = NextWrite
    BY <2>2, <2>3 DEF NextWrite
  <2> QED
    BY <1>1, <2>1, <2>2, <2>3, <2>4 DEF TxStream, Chain
<1> QED
  BY <1>2, <1>3 DEF TxInv

LEMMA RxApart == RxInv /\ UNCHANGED i2c_rx => RxInv'
  BY SMTT(20) DEF i2c_rx, RxInv, RxTypes, RxStream, Runs, Writing, NextReceived, NextTaken
LEMMA TxApart == TxInv /\ UNCHANGED i2c_tx => TxInv'
  BY DEF i2c_tx, TxInv, TxTypes, TxStream, NextWrite, NextRead, Chain, After

LEMMA NextI2c == I2cInv /\ I2cNext => I2cInv'
<1> SUFFICES ASSUME I2cFlags, RxInv, TxInv, I2cNext PROVE RxInv' /\ TxInv'
  BY I2cFlagsStep DEF I2cInv, RxInv, TxInv
<1>1. CASE WriteReceived
  BY <1>1, WriteReceivedInv, TxApart DEF WriteReceived
<1>2. CASE Stop
  BY <1>2, StopInv, TxApart DEF Stop
<1>3. CASE WorkBegin
  <2>1. RxInv'
    BY <1>3 DEF WorkBegin, RxInv, RxTypes, RxStream, Runs, Writing, NextReceived, NextTaken
  <2> QED
    BY <1>3, <2>1, TxApart DEF WorkBegin
<1>4. CASE WorkTake
  BY <1>4, TakeInv, TxApart DEF WorkTake
<1>5. ASSUME NEW w \in Writers, SendBegin(w) \/ PipeWrite(w)
      PROVE  RxInv' /\ TxInv'
  BY <1>5, SendBeginInv, PipeWriteInv, RxApart DEF SendBegin, PipeWrite
<1>6. CASE TargetRead
  BY <1>6, TargetReadInv, RxApart DEF TargetRead
<1> QED
  BY <1>1, <1>2, <1>3, <1>4, <1>5, <1>6 DEF I2cNext

-----------------------------------------------------------------------------
(* TCP/IP                                                                  *)

Part == Nat \X (1..3)

\* Pieces of messages one behind the other, each from its first, in the order of their
\* numbers; the first and the last message may be cut off.
Ordered(s) ==
  \A i, j \in 1..Len(s) : i < j =>
    s[i][1] <= s[j][1] /\ (s[i][2] = 3 => s[i][1] < s[j][1])
Joined(s) ==
  \A i \in 1..Len(s) - 1 :
    IF s[i][2] = 3 THEN s[i + 1][2] = 1 ELSE s[i + 1] = <<s[i][1], s[i][2] + 1>>

LEMMA Parts ==
  ASSUME NEW s \in Seq(Part)
  PROVE  /\ Len(s) \in Nat
         /\ \A i \in 1..Len(s) : /\ s[i] \in Part /\ s[i] = <<s[i][1], s[i][2]>>
                                 /\ s[i][1] \in Nat /\ s[i][2] \in 1..3
  BY DEF Part

LEMMA StreamTail ==
  ASSUME NEW s \in Seq(Part), Ordered(s), Joined(s), s # <<>>
  PROVE  LET t == Tail(s)
         IN  /\ t \in Seq(Part) /\ Len(t) = Len(s) - 1 /\ Len(s) > 0
             /\ \A i \in 1..Len(t) : t[i] = s[i + 1] /\ i + 1 \in 1..Len(s)
             /\ Ordered(t) /\ Joined(t)
             /\ t # <<>> => IF s[1][2] = 3 THEN t[1][2] = 1 ELSE t[1] = <<s[1][1], s[1][2] + 1>>
             /\ s[1][2] = 3 => \A i \in 1..Len(t) : s[1][1] < t[i][1]
             /\ t # <<>> => t[Len(t)] = s[Len(s)]
<1> DEFINE t == Tail(s)
<1>1. /\ t \in Seq(Part) /\ Len(t) = Len(s) - 1 /\ Len(s) \in Nat \ {0}
      /\ \A i \in 1..Len(t) : t[i] = s[i + 1] /\ i + 1 \in 1..Len(s)
  OBVIOUS
<1> HIDE DEF t
<1>2. Ordered(t)
  <2>1. ASSUME NEW i \in 1..Len(t), NEW j \in 1..Len(t), i < j
        PROVE  t[i][1] <= t[j][1] /\ (t[i][2] = 3 => t[i][1] < t[j][1])
    <3>1. i + 1 \in 1..Len(s) /\ j + 1 \in 1..Len(s) /\ i + 1 < j + 1
          /\ t[i] = s[i + 1] /\ t[j] = s[j + 1]
      BY <1>1, <2>1
    <3> QED
      BY <3>1 DEF Ordered
  <2> QED
    BY <2>1 DEF Ordered
<1>3. Joined(t)
  <2>1. ASSUME NEW i \in 1..Len(t) - 1
        PROVE  IF t[i][2] = 3 THEN t[i + 1][2] = 1 ELSE t[i + 1] = <<t[i][1], t[i][2] + 1>>
    <3>1. i + 1 \in 1..Len(s) - 1 /\ t[i] = s[i + 1] /\ t[i + 1] = s[(i + 1) + 1]
      BY <1>1, <2>1
    <3> QED
      BY <3>1 DEF Joined
  <2> QED
    BY <2>1 DEF Joined
<1>4. ASSUME t # <<>>
      PROVE  IF s[1][2] = 3 THEN t[1][2] = 1 ELSE t[1] = <<s[1][1], s[1][2] + 1>>
  <2>1. 1 \in 1..Len(s) - 1 /\ t[1] = s[1 + 1]
    BY <1>1, <1>4
  <2> QED
    BY <2>1 DEF Joined
<1>5. ASSUME s[1][2] = 3, NEW i \in 1..Len(t)
      PROVE  s[1][1] < t[i][1]
  <2>1. 1 \in 1..Len(s) /\ i + 1 \in 1..Len(s) /\ 1 < i + 1 /\ t[i] = s[i + 1]
    BY <1>1
  <2> QED
    BY <1>5, <2>1 DEF Ordered
<1>6. t # <<>> => t[Len(t)] = s[Len(s)]
  BY <1>1
<1> QED
  BY <1>1, <1>2, <1>3, <1>4, <1>5, <1>6 DEF t

\* A new message behind whole ones.
Whole(s, p) ==
  /\ s \in Seq(Part) /\ Ordered(s) /\ Joined(s) /\ \A i \in 1..Len(s) : s[i][1] <= p
  /\ s # <<>> => s[Len(s)][2] = 3
Longer(t, s, p, n) ==
  /\ t \in Seq(Part) /\ Len(t) = Len(s) + n
  /\ \A i \in 1..Len(s) : t[i] = s[i]
  /\ \A i \in 1..Len(t) : i > Len(s) => t[i] = <<p + 1, i - Len(s)>>
  /\ Ordered(t) /\ Joined(t)

LEMMA StreamAppend ==
  ASSUME NEW p \in Nat, NEW s, Whole(s, p), NEW n \in 1..3
  PROVE  Longer(s \o Pieces(p + 1, n), s, p, n)
<1> s \in Seq(Part) /\ Ordered(s) /\ Joined(s) /\ (\A i \in 1..Len(s) : s[i][1] <= p)
    /\ (s # <<>> => s[Len(s)][2] = 3)
  BY DEF Whole
<1> DEFINE q == Pieces(p + 1, n)
           t == s \o q
<1>1. q \in Seq(Part) /\ Len(q) = n /\ \A i \in 1..n : q[i] = <<p + 1, i>>
  BY DEF Pieces, Part
<1> HIDE DEF q
<1>2. /\ t \in Seq(Part) /\ Len(t) = Len(s) + n /\ Len(s) \in Nat
      /\ \A i \in 1..Len(s) : t[i] = s[i]
      /\ \A i \in 1..Len(t) : i > Len(s) => t[i] = q[i - Len(s)] /\ i - Len(s) \in 1..n
  BY <1>1
<1> HIDE DEF t
<1>3. \A i \in 1..Len(t) : i > Len(s) => t[i] = <<p + 1, i - Len(s)>>
  BY <1>1, <1>2
<1>4. Ordered(t)
  <2>1. ASSUME NEW i \in 1..Len(t), NEW j \in 1..Len(t), i < j
        PROVE  t[i][1] <= t[j][1] /\ (t[i][2] = 3 => t[i][1] < t[j][1])
    <3>1. CASE j <= Len(s)
      <4>1. i \in 1..Len(s) /\ j \in 1..Len(s) /\ t[i] = s[i] /\ t[j] = s[j]
        BY <1>2, <2>1, <3>1
      <4> QED
        BY <2>1, <4>1 DEF Ordered
    <3>2. CASE i <= Len(s) /\ j > Len(s)
      <4>1. i \in 1..Len(s) /\ t[i] = s[i] /\ t[j] = <<p + 1, j - Len(s)>>
        BY <1>2, <1>3, <3>2
      <4>2. s[i][1] \in Nat /\ s[i][1] <= p
        BY <4>1, Parts
      <4> QED
        BY <4>1, <4>2
    <3>3. CASE i > Len(s)
      <4>1. t[i] = <<p + 1, i - Len(s)>> /\ t[j] = <<p + 1, j - Len(s)>>
            /\ i - Len(s) < 3
        BY <1>2, <1>3, <2>1, <3>3
      <4> QED
        BY <1>2, <4>1
    <3> QED
      BY <1>2, <3>1, <3>2, <3>3
  <2> QED
    BY <2>1 DEF Ordered
<1>5. Joined(t)
  <2>1. ASSUME NEW i \in 1..Len(t) - 1
        PROVE  IF t[i][2] = 3 THEN t[i + 1][2] = 1 ELSE t[i + 1] = <<t[i][1], t[i][2] + 1>>
    <3>1. CASE i < Len(s)
      <4>1. i \in 1..Len(s) - 1 /\ t[i] = s[i] /\ t[i + 1] = s[i + 1]
        BY <1>2, <2>1, <3>1
      <4> QED
        BY <4>1 DEF Joined
    <3>2. CASE i = Len(s)
      <4>1. s # <<>> /\ t[i] = s[Len(s)] /\ t[i + 1] = <<p + 1, 1>>
        BY <1>2, <1>3, <2>1, <3>2
      <4> QED
        BY <4>1
    <3>3. CASE i > Len(s)
      <4>1. t[i] = <<p + 1, i - Len(s)>> /\ t[i + 1] = <<p + 1, (i - Len(s)) + 1>>
            /\ i - Len(s) < 3
        BY <1>2, <1>3, <2>1, <3>3
      <4>2. t[i][1] = p + 1 /\ t[i][2] = i - Len(s) /\ t[i][2] # 3
        BY <1>2, <4>1
      <4> QED
        BY <4>1, <4>2
    <3> QED
      BY <1>2, <3>1, <3>2, <3>3
  <2> QED
    BY <2>1 DEF Joined
<1> QED
  BY <1>2, <1>3, <1>4, <1>5 DEF Longer, t, q

\* A cport, then its message, and so on.
Alternating(s) ==
  \A i \in 1..Len(s) : s[i] = <<s[IF i % 2 = 0 THEN i - 1 ELSE i][1],
                                IF i % 2 = 0 THEN "message" ELSE "cport">>

LEMMA Parity == \A n \in Nat : (n + 1) % 2 = 0 <=> n % 2 # 0
  OBVIOUS

LEMMA AlternatingAppend ==
  ASSUME NEW T, NEW s \in Seq(T), Alternating(s), NEW x \in T,
         x = IF Len(s) % 2 = 0 THEN <<x[1], "cport">> ELSE <<s[Len(s)][1], "message">>
  PROVE  Alternating(Append(s, x))
<1> DEFINE t == Append(s, x)
<1>1. Len(t) = Len(s) + 1 /\ Len(s) \in Nat /\ t[Len(t)] = x /\ \A i \in 1..Len(s) : t[i] = s[i]
  OBVIOUS
<1> HIDE DEF t
<1>2. ASSUME NEW i \in 1..Len(t)
      PROVE  t[i] = <<t[IF i % 2 = 0 THEN i - 1 ELSE i][1],
                      IF i % 2 = 0 THEN "message" ELSE "cport">>
  <2>1. CASE i <= Len(s)
    <3>1. i \in 1..Len(s) /\ (i % 2 = 0 => i - 1 \in 1..Len(s))
      BY <1>1, <2>1
    <3> QED
      BY <1>1, <3>1 DEF Alternating
  <2>2. CASE i = Len(s) + 1 /\ Len(s) % 2 = 0
    <3>1. i % 2 # 0
      BY <1>1, <2>2, Parity
    <3> QED
      BY <1>1, <2>2, <3>1
  <2>3. CASE i = Len(s) + 1 /\ Len(s) % 2 # 0
    <3>1. i % 2 = 0 /\ i - 1 = Len(s) /\ Len(s) \in 1..Len(s)
      BY <1>1, <2>3, Parity
    <3> QED
      BY <1>1, <2>3, <3>1
  <2> QED
    BY <1>1, <2>1, <2>2, <2>3
<1> QED
  BY <1>2 DEF Alternating, t
-----------------------------------------------------------------------------
OutPiece == (0..MaxSent) \X {"cport", "message"}
TcpTypes ==
  /\ made \in 0..MaxConnections /\ accepted \in 0..made /\ posted \in Nat
  /\ client_sock \in {NoSocket, accepted}
  /\ peer \in [Connections -> {"none", "open", "closed", "reset"}]
  /\ in \in [Connections -> Seq(Part)]
  /\ out \in [Connections -> Seq(OutPiece)]
  /\ got \in Seq(Part) /\ Len(got) <= 2
  /\ received \in Seq(Connections \X Seq(Part))
  /\ sent \in 0..MaxSent /\ torn \subseteq Connections
  /\ begun \in [Senders -> [message : 0..MaxSent, on : 0..MaxConnections]]

\* The connections are used one after the other.
Turns ==
  /\ \A c \in Connections :
       /\ c > made => peer[c] = "none" /\ in[c] = <<>>
       /\ peer[c] = "open" => c = made
       /\ c <= accepted /\ c # client_sock => in[c] = <<>> /\ peer[c] # "open"
  /\ client_sock = NoSocket => got = <<>>

\* An open connection that is not torn is between two sends or in the middle of one.
Between(c) ==
  IF Len(out[c]) % 2 = 0 THEN \A s \in Senders : begun[s].on # c
  ELSE \E s \in Senders :
         /\ begun[s] = [message |-> out[c][Len(out[c])][1], on |-> c]
         /\ \A t \in Senders : begun[t] # Idle => t = s
Outs ==
  /\ \A s \in Senders : begun[s].on <= accepted
  /\ \A c \in Connections : c > accepted => out[c] = <<>>
  /\ \A c \in Connections \ torn :
       Alternating(out[c]) /\ (c = client_sock /\ peer[c] = "open" => Between(c))

\* What is to be read of a connection: whole messages in order, the last perhaps cut
\* off if it is no longer open, the first perhaps begun.
Begins(c) ==
  in[c] # <<>> =>
    in[c][1] = IF c = client_sock /\ got # <<>> THEN <<got[1][1], Len(got) + 1>>
               ELSE <<in[c][1][1], 1>>
Ends(c) ==
  peer[c] = "open" =>
    /\ in[c] # <<>> => in[c][Len(in[c])][2] = 3
    /\ in[c] = <<>> /\ c = client_sock => got = <<>>
Streams ==
  \A c \in Connections :
    Ordered(in[c]) /\ Joined(in[c]) /\ (\A i \in 1..Len(in[c]) : in[c][i][1] <= posted)
Across ==
  \A c, d \in Connections : c < d =>
    \A i \in 1..Len(in[c]), j \in 1..Len(in[d]) : in[c][i][1] < in[d][j][1]
Received == got # <<>> => got = Pieces(got[1][1], Len(got)) /\ got[1][1] <= posted
Ins ==
  Streams /\ (\A c \in Connections : Begins(c) /\ Ends(c)) /\ Across /\ Received

\* The messages received come before all that is still to be read.
MessageOf(r) == r[2][1][1]
Handed ==
  \A i \in 1..Len(received) :
    /\ received[i][2] = Pieces(MessageOf(received[i]), 3)
    /\ MessageOf(received[i]) \in 0..posted
    /\ i > 1 => MessageOf(received[i - 1]) < MessageOf(received[i])
    /\ got # <<>> => MessageOf(received[i]) < got[1][1]
    /\ \A c \in Connections : \A j \in 1..Len(in[c]) : MessageOf(received[i]) < in[c][j][1]

TcpInv == TcpTypes /\ Turns /\ Outs /\ Ins /\ Handed

LEMMA ConnectionsType ==
  /\ MaxConnections \in Nat /\ Connections = 1..MaxConnections /\ Connections \subseteq Nat
  /\ NoSocket = 0 /\ NoSocket \notin Connections
  BY TcpAssumption DEF Connections, NoSocket

LEMMA InitTcp == TcpInit => TcpInv
<1> SUFFICES ASSUME TcpInit PROVE TcpInv
  OBVIOUS
<1>1. TcpTypes
  BY TcpAssumption, ConnectionsType DEF TcpInit, TcpTypes, Idle
<1>2. Turns
  BY ConnectionsType DEF TcpInit, Turns
<1>3. Outs
  BY ConnectionsType DEF TcpInit, Outs, Idle, Alternating
<1>4. Ins
  BY ConnectionsType
  DEF TcpInit, Ins, Streams, Ordered, Joined, Begins, Ends, Across, Received
<1>5. Handed
  BY DEF TcpInit, Handed
<1> QED
  BY <1>1, <1>2, <1>3, <1>4, <1>5 DEF TcpInv

\* Nothing is sent when the AP connects or leaves.
LEMMA LeftOuts ==
  ASSUME Outs, UNCHANGED <<client_sock, accepted, out, begun, sent, torn>>,
         client_sock \in Connections => (peer'[client_sock] = "open" => peer[client_sock] = "open")
  PROVE  Outs'
<1>1. ASSUME NEW c \in Connections \ torn'
      PROVE  /\ Alternating(out'[c])
             /\ c = client_sock' /\ peer'[c] = "open" => Between(c)'
  <2>1. Alternating(out[c]) /\ (c = client_sock /\ peer'[c] = "open" => Between(c))
    BY DEF Outs
  <2>2. Between(c) => Between(c)'
    BY DEF Between
  <2> QED
    BY <2>1, <2>2
<1> QED
  BY <1>1 DEF Outs

\* What stays of the incoming side when no piece comes or goes.
LEMMA StayIns ==
  ASSUME Streams, Across, Handed, Received, UNCHANGED <<in, posted, received>>,
         got' = got \/ got' = <<>>
  PROVE  Streams' /\ Across' /\ Handed' /\ Received'
<1>1. Streams'
  BY DEF Streams, Ordered, Joined
<1>2. Across'
  BY DEF Across
<1>3. Received'
  BY DEF Received
<1>4. Handed'
  BY DEF Handed
<1> QED
  BY <1>1, <1>2, <1>3, <1>4

LEMMA ConnectInv ==
  ASSUME TcpInv, ApConnect
  PROVE  TcpInv'
<1> USE ConnectionsType
<1>1. /\ made \in Nat /\ made < MaxConnections /\ made + 1 \in Connections /\ accepted \in 0..made
      /\ client_sock \in {NoSocket, accepted}
  BY DEF TcpInv, TcpTypes, ApConnect
<1>2. /\ made' = made + 1 /\ peer' = [peer EXCEPT ![made + 1] = "open"]
      /\ UNCHANGED <<in, posted, client_sock, accepted, got, received, out, begun, sent, torn>>
  BY DEF ApConnect, rx_vars, tx_vars
<1>3. TcpTypes'
  BY SMTT(30), <1>1, <1>2 DEF TcpInv, TcpTypes
<1>4. /\ peer'[made + 1] = "open" /\ in[made + 1] = <<>>
      /\ \A c \in Connections : c # made + 1 => peer'[c] = peer[c]
      /\ \A c \in Connections : c <= made => peer[c] # "open"
  <2>1. in[made + 1] = <<>>
    BY <1>1 DEF TcpInv, Turns
  <2>2. \A c \in Connections : c <= made => peer[c] # "open"
    BY <1>1 DEF TcpInv, Turns, ApConnect
  <2>3. peer \in [Connections -> {"none", "open", "closed", "reset"}]
    BY DEF TcpInv, TcpTypes
  <2> QED
    BY <1>1, <1>2, <2>1, <2>2, <2>3
<1>5. Turns'
  BY <1>1, <1>2, <1>4 DEF TcpInv, Turns
<1>6. Outs'
  <2>1. client_sock # made + 1
    BY <1>1
  <2>2. client_sock \in Connections => (peer'[client_sock] = "open" => peer[client_sock] = "open")
    BY <1>4, <2>1
  <2> QED
    BY <1>2, <2>2, LeftOuts DEF TcpInv
<1>7. Streams' /\ Across' /\ Handed' /\ Received'
  BY <1>2, StayIns DEF TcpInv, Ins
<1>8. ASSUME NEW c \in Connections
      PROVE  Begins(c)' /\ Ends(c)'
  <2>1. Begins(c) /\ Ends(c)
    BY DEF TcpInv, Ins
  <2>2. Begins(c)'
    BY <1>2, <2>1 DEF Begins
  <2>3. CASE c = made + 1
    BY <1>1, <1>2, <1>4, <2>2, <2>3 DEF Ends
  <2>4. CASE c # made + 1
    BY <1>2, <1>4, <2>1, <2>2, <2>4 DEF Ends
  <2> QED
    BY <2>2, <2>3, <2>4
<1>9. Ins'
  BY <1>7, <1>8 DEF Ins
<1> QED
  BY <1>3, <1>5, <1>6, <1>7, <1>9 DEF TcpInv

\* A message, or the beginning of one with which the AP ends the connection.
Gains(n) == in' = [in EXCEPT ![made] = @ \o Pieces(posted + 1, n)]

LEMMA PostInv ==
  ASSUME TcpInv, NEW n \in 1..3, made > 0, peer[made] = "open", posted' = posted + 1, Gains(n),
         UNCHANGED <<made, client_sock, accepted, got, received>>,
         \/ peer' = peer /\ n = 3
         \/ peer' = [peer EXCEPT ![made] = "closed"]
  PROVE  Turns' /\ Ins' /\ Handed' /\ in' \in [Connections -> Seq(Part)]
         /\ posted' \in Nat
<1> USE ConnectionsType
<1> DEFINE s == in[made]
           t == s \o Pieces(posted + 1, n)
<1>1. /\ made \in Connections /\ made \in Nat /\ posted \in Nat /\ s \in Seq(Part)
      /\ in \in [Connections -> Seq(Part)] /\ accepted \in 0..made
      /\ client_sock \in {NoSocket, accepted}
      /\ peer \in [Connections -> {"none", "open", "closed", "reset"}]
  BY DEF TcpInv, TcpTypes
<1>2. /\ Ordered(s) /\ Joined(s) /\ \A i \in 1..Len(s) : s[i][1] <= posted
      /\ s # <<>> => s[Len(s)][2] = 3
      /\ s = <<>> /\ made = client_sock => got = <<>>
      /\ s # <<>> => s[1] = IF made = client_sock /\ got # <<>> THEN <<got[1][1], Len(got) + 1>>
                            ELSE <<s[1][1], 1>>
  BY <1>1 DEF TcpInv, Ins, Streams, Begins, Ends
<1>3. /\ t \in Seq(Part) /\ Len(t) = Len(s) + n /\ Len(s) \in Nat
      /\ \A i \in 1..Len(s) : t[i] = s[i]
      /\ \A i \in 1..Len(t) : i > Len(s) => t[i] = <<posted + 1, i - Len(s)>>
      /\ Ordered(t) /\ Joined(t)
  <2>1. s \in Seq(Part) /\ Ordered(s) /\ Joined(s) /\ posted \in Nat
        /\ (\A i \in 1..Len(s) : s[i][1] <= posted) /\ (s # <<>> => s[Len(s)][2] = 3)
        /\ Len(s) \in Nat
    BY <1>1, <1>2
  <2> HIDE DEF s
  <2>2. Whole(s, posted)
    BY <2>1 DEF Whole
  <2>3. Longer(t, s, posted, n)
    BY <2>1, <2>2, StreamAppend
  <2> HIDE DEF t
  <2> QED
    BY <2>1, <2>3 DEF Longer
<1>4. /\ in'[made] = t /\ \A c \in Connections : c # made => in'[c] = in[c] /\ peer'[c] = peer[c]
      /\ in' \in [Connections -> Seq(Part)]
      /\ peer'[made] \in {"open", "closed"} /\ (peer'[made] = "open" => n = 3)
  <2>1. t \in Seq(Part)
    BY <1>3
  <2> HIDE DEF t
  <2> QED
    BY <1>1, <2>1 DEF t, Gains
<1> HIDE DEF s, t
<1>5. /\ t # <<>> /\ \A i \in 1..Len(t) : t[i][1] <= posted + 1
      /\ n = 3 => t[Len(t)][2] = 3
      /\ t[1] = IF made = client_sock /\ got # <<>> THEN <<got[1][1], Len(got) + 1>>
                ELSE <<t[1][1], 1>>
  <2>1. Len(t) # 0 /\ Len(t) \in 1..Len(t) /\ Len(t) > Len(s)
    BY <1>3
  <2>2. \A i \in 1..Len(t) : t[i][1] <= posted + 1
    <3> TAKE i \in 1..Len(t)
    <3>1. CASE i <= Len(s)
      <4>1. i \in 1..Len(s) /\ t[i] = s[i]
        BY <1>3, <3>1
      <4>2. s[i][1] \in Nat /\ s[i][1] <= posted
        BY <1>1, <1>2, <4>1, Parts
      <4> QED
        BY <1>1, <4>1, <4>2
    <3>2. CASE i > Len(s)
      BY <1>1, <1>3, <3>2
    <3> QED
      BY <1>3, <3>1, <3>2
  <2>3. n = 3 => t[Len(t)][2] = 3
    BY <1>3, <2>1
  <2>4. t[1] = IF made = client_sock /\ got # <<>> THEN <<got[1][1], Len(got) + 1>>
               ELSE <<t[1][1], 1>>
    <3>1. CASE s = <<>>
      BY SMTT(20), <1>2, <1>3, <3>1
    <3>2. CASE s # <<>>
      <4>1. Len(s) # 0
        BY <1>1, <3>2
      <4>2. t[1] = s[1]
        BY <1>3, <4>1
      <4> QED
        BY <1>2, <3>2, <4>2
    <3> QED
      BY <3>1, <3>2
  <2> QED
    BY <2>1, <2>2, <2>3, <2>4
<1>6. Turns'
  BY <1>1, <1>4 DEF TcpInv, Turns
<1>7. Streams' /\ \A c \in Connections : Begins(c)' /\ Ends(c)'
  <2>1. ASSUME NEW c \in Connections
        PROVE  /\ Ordered(in'[c]) /\ Joined(in'[c])
               /\ \A i \in 1..Len(in'[c]) : in'[c][i][1] <= posted'
               /\ Begins(c)' /\ Ends(c)'
    <3>1. CASE c = made
      BY <1>3, <1>4, <1>5, <3>1 DEF Begins, Ends
    <3>2. CASE c # made
      <4>1. \A i \in 1..Len(in[c]) : in[c][i][1] \in Nat /\ in[c][i][1] <= posted
        BY <1>1, Parts DEF TcpInv, Ins, Streams
      <4>2. \A i \in 1..Len(in'[c]) : in'[c][i][1] <= posted'
        BY SMTT(20), <1>1, <1>4, <3>2, <4>1
      <4>3. Ordered(in[c]) /\ Joined(in[c]) /\ Begins(c) /\ Ends(c)
        BY DEF TcpInv, Ins, Streams
      <4>4. Begins(c)' /\ Ends(c)'
        BY <1>1, <1>4, <3>2, <4>3 DEF Begins, Ends
      <4> QED
        BY <1>4, <3>2, <4>2, <4>3, <4>4
    <3> QED
      BY <3>1, <3>2
  <2> QED
    BY <2>1 DEF Streams
<1>8. ASSUME NEW c \in Connections, NEW d \in Connections, c < d,
             NEW i \in 1..Len(in'[c]), NEW j \in 1..Len(in'[d])
      PROVE  in'[c][i][1] < in'[d][j][1]
  <2>1. CASE c = made
    <3>1. d # made /\ in'[d] = in[d] /\ in[d] = <<>>
      BY <1>1, <1>4, <1>8, <2>1 DEF TcpInv, Turns
    <3> QED
      BY <3>1
  <2>2. CASE d = made
    <3>1. in'[c] = in[c] /\ in'[d] = t /\ i \in 1..Len(in[c])
      BY <1>4, <1>8, <2>2
    <3>2. CASE j <= Len(s)
      <4>1. j \in 1..Len(in[d]) /\ in'[d][j] = in[d][j]
        BY <1>3, <1>4, <2>2, <3>1, <3>2 DEF s
      <4>2. in[c][i][1] < in[d][j][1]
        BY <1>8, <3>1, <4>1 DEF TcpInv, Ins, Across
      <4> QED
        BY <3>1, <4>1, <4>2
    <3>3. CASE j > Len(s)
      <4>1. j \in 1..Len(t) /\ in'[d][j] = t[j]
        BY <1>8, <3>1
      <4>2. in'[d][j][1] = posted + 1
        <5> HIDE DEF s, t
        <5>1. t[j] = <<posted + 1, j - Len(s)>>
          BY <1>3, <3>3, <4>1
        <5> QED
          BY <4>1, <5>1
      <4>3. in[c][i][1] \in Nat /\ in[c][i][1] <= posted
        BY <1>1, <3>1, Parts DEF TcpInv, Ins, Across, Streams, Received
      <4>4. in'[c][i][1] = in[c][i][1]
        BY <3>1
      <4>5. in[c][i][1] < posted + 1
        BY SMTT(20), <1>1, <4>3
      <4> QED
        BY <4>2, <4>4, <4>5
    <3>4. j \in Nat /\ Len(s) \in Nat
      BY <1>3, <3>1
    <3> QED
      <4>1. j <= Len(s) \/ j > Len(s)
        BY <3>4
      <4> QED
        BY <3>2, <3>3, <4>1
  <2>3. CASE c # made /\ d # made
    <3>1. in'[c] = in[c] /\ in'[d] = in[d]
      BY <1>4, <2>3
    <3>2. i \in 1..Len(in[c]) /\ j \in 1..Len(in[d])
      BY <1>8, <3>1
    <3> QED
      BY <1>8, <3>1, <3>2 DEF TcpInv, Ins, Across
  <2> QED
    BY <2>1, <2>2, <2>3
<1>9. got' # <<>> => got' = Pieces(got'[1][1], Len(got')) /\ got'[1][1] <= posted'
  <2>1. got # <<>> => got[1][1] \in Nat
    BY SMTT(20), Parts DEF TcpInv, TcpTypes
  <2> QED
    BY <1>1, <2>1 DEF TcpInv, Ins, Across, Streams, Received
<1>10. Ins'
  BY <1>7, <1>8, <1>9 DEF Ins, Across, Received
<1>11. Handed'
  <2>1. ASSUME NEW i \in 1..Len(received), NEW c \in Connections, NEW j \in 1..Len(in'[c])
        PROVE  MessageOf(received[i]) < in'[c][j][1]
    <3>1. CASE c # made \/ j <= Len(s)
      <4>1. CASE c # made
        <5>1. in'[c] = in[c]
          BY <1>4, <4>1
        <5> QED
          BY <2>1, <5>1 DEF TcpInv, Handed
      <4>2. CASE c = made /\ j <= Len(s)
        <5>1. j \in 1..Len(s) /\ in'[c][j] = s[j]
          BY <1>3, <1>4, <2>1, <4>2
        <5> QED
          BY <4>2, <5>1 DEF TcpInv, Handed, s
      <4> QED
        BY <3>1, <4>1, <4>2
    <3>2. CASE c = made /\ j > Len(s)
      <4>0. j \in 1..Len(t) /\ in'[c][j] = t[j]
        BY <1>4, <2>1, <3>2
      <4>1. in'[c][j][1] = posted + 1
        <5> HIDE DEF s, t
        <5>1. t[j] = <<posted + 1, j - Len(s)>>
          BY <1>3, <3>2, <4>0
        <5> QED
          BY <4>0, <5>1
      <4>2. MessageOf(received[i]) \in 0..posted
        BY DEF TcpInv, Handed
      <4> QED
        BY <1>1, <4>1, <4>2
    <3>3. Len(in'[c]) \in Nat
      BY <1>4
    <3>4. j \in Nat /\ Len(s) \in Nat
      BY <1>3, <2>1, <3>3
    <3> QED
      BY <3>1, <3>2, <3>4
  <2>2. \A i \in 1..Len(received) : MessageOf(received[i]) \in 0..posted'
    BY <1>1 DEF TcpInv, Handed
  <2> QED
    BY <2>1, <2>2 DEF TcpInv, Handed
<1> QED
  BY <1>1, <1>4, <1>6, <1>10, <1>11

LEMMA ApSendInv ==
  ASSUME TcpInv, ApSend
  PROVE  TcpInv'
<1>1. /\ made > 0 /\ peer[made] = "open" /\ posted' = posted + 1
      /\ in' = [in EXCEPT ![made] = @ \o Pieces(posted + 1, 3)] /\ peer' = peer
      /\ UNCHANGED <<made, client_sock, accepted, got, received, out, begun, sent, torn>>
  BY DEF ApSend, rx_vars, tx_vars
<1>2. Turns' /\ Ins' /\ Handed' /\ in' \in [Connections -> Seq(Part)] /\ posted' \in Nat
  BY <1>1, PostInv DEF Gains
<1>3. Outs'
  BY <1>1, LeftOuts DEF TcpInv
<1>4. TcpTypes'
  BY <1>1, <1>2 DEF TcpInv, TcpTypes
<1> QED
  BY <1>2, <1>3, <1>4 DEF TcpInv

\* A connection that is no longer open, and of which nothing more comes.
LEMMA EndedIns ==
  ASSUME TcpInv, made > 0, peer[made] = "open", NEW e \in {"closed", "reset"},
         peer' = [peer EXCEPT ![made] = e],
         in' = in \/ in' = [in EXCEPT ![made] = <<>>],
         UNCHANGED <<made, client_sock, accepted, posted, got, received>>
  PROVE  Turns' /\ Ins' /\ Handed' /\ in' \in [Connections -> Seq(Part)]
<1> USE ConnectionsType
<1>1. /\ made \in Connections /\ in \in [Connections -> Seq(Part)]
      /\ peer \in [Connections -> {"none", "open", "closed", "reset"}]
  BY DEF TcpInv, TcpTypes
<1>2. /\ in' \in [Connections -> Seq(Part)]
      /\ \A c \in Connections : in'[c] = in[c] \/ in'[c] = <<>>
      /\ \A c \in Connections : peer'[c] = "open" => peer[c] = "open" /\ in'[c] = in[c]
      /\ \A c \in Connections : c # made => in'[c] = in[c] /\ peer'[c] = peer[c]
  <2>1. peer'[made] = e /\ e # "open" /\ \A c \in Connections : c # made => peer'[c] = peer[c]
    BY <1>1
  <2>2. /\ in' \in [Connections -> Seq(Part)]
        /\ \A c \in Connections : c # made => in'[c] = in[c]
        /\ in'[made] = in[made] \/ in'[made] = <<>>
    <3>1. CASE in' = in
      BY <1>1, <3>1
    <3>2. CASE in' = [in EXCEPT ![made] = <<>>]
      <4> DEFINE T == Seq(Part)
      <4>1. <<>> \in T
        OBVIOUS
      <4>2. in \in [Connections -> T]
        BY <1>1
      <4> HIDE DEF T
      <4>3. in' \in [Connections -> T]
        BY <1>1, <3>2, <4>1, <4>2
      <4> QED
        BY <1>1, <3>2, <4>3 DEF T
    <3> QED
      BY <3>1, <3>2
  <2> QED
    BY <2>1, <2>2
<1>3. Turns'
  BY <1>1, <1>2 DEF TcpInv, Turns
<1>4. Streams'
  <2>1. ASSUME NEW c \in Connections
        PROVE  /\ Ordered(in'[c]) /\ Joined(in'[c])
               /\ \A i \in 1..Len(in'[c]) : in'[c][i][1] <= posted'
    <3>1. CASE in'[c] = in[c]
      BY <3>1 DEF TcpInv, Ins, Streams
    <3>2. CASE in'[c] = <<>>
      BY <3>2 DEF Ordered, Joined
    <3> QED
      BY <1>2, <3>1, <3>2
  <2> QED
    BY <2>1 DEF Streams
<1>5. ASSUME NEW c \in Connections
      PROVE  Begins(c)' /\ Ends(c)'
  <2>1. Begins(c) /\ Ends(c)
    BY DEF TcpInv, Ins
  <2>2. Begins(c)'
    BY <1>2, <2>1 DEF Begins
  <2>3. Ends(c)'
    BY <1>2, <2>1 DEF Ends
  <2> QED
    BY <2>2, <2>3
<1>6. Across'
  <2>1. ASSUME NEW c \in Connections, NEW d \in Connections, c < d,
               NEW i \in 1..Len(in'[c]), NEW j \in 1..Len(in'[d])
        PROVE  in'[c][i][1] < in'[d][j][1]
    <3>1. in'[c] = in[c] /\ in'[d] = in[d]
      BY <1>2
    <3>2. i \in 1..Len(in[c]) /\ j \in 1..Len(in[d])
      BY <3>1
    <3> QED
      BY <2>1, <3>1, <3>2 DEF TcpInv, Ins, Across
  <2> QED
    BY <2>1 DEF Across
<1>7. Received'
  BY DEF TcpInv, Ins, Received
<1>8. Handed'
  <2>1. ASSUME NEW i \in 1..Len(received), NEW c \in Connections, NEW j \in 1..Len(in'[c])
        PROVE  MessageOf(received[i]) < in'[c][j][1]
    <3>1. in'[c] = in[c]
      BY <1>2
    <3> QED
      BY <3>1 DEF TcpInv, Handed
  <2> QED
    BY <2>1 DEF TcpInv, Handed
<1> QED
  BY <1>2, <1>3, <1>4, <1>5, <1>6, <1>7, <1>8 DEF Ins

LEMMA ApEndInv ==
  ASSUME TcpInv, ApClose \/ ApReset
  PROVE  TcpInv'
<1> USE ConnectionsType
<1>1. /\ made > 0 /\ peer[made] = "open" /\ made \in Connections
      /\ UNCHANGED <<made, client_sock, accepted, got, received, out, begun, sent, torn>>
      /\ peer \in [Connections -> {"none", "open", "closed", "reset"}]
  <2>1. /\ made > 0 /\ peer[made] = "open"
        /\ UNCHANGED <<made, client_sock, accepted, got, received, out, begun, sent, torn>>
    <3>1. CASE ApClose
      BY <3>1 DEF ApClose, rx_vars, tx_vars
    <3>2. CASE ApReset
      BY <3>2 DEF ApReset, rx_vars, tx_vars
    <3> QED
      BY <3>1, <3>2
  <2>2. made \in Connections /\ peer \in [Connections -> {"none", "open", "closed", "reset"}]
    BY <2>1 DEF TcpInv, TcpTypes
  <2> QED
    BY <2>1, <2>2
<1>2. \E e \in {"closed", "reset"} : peer' = [peer EXCEPT ![made] = e]
  BY DEF ApClose, ApReset
<1>3. Turns' /\ Ins' /\ Handed' /\ in' \in [Connections -> Seq(Part)] /\ posted' \in Nat
  <2>1. CASE \E n \in 1..2 : /\ in' = [in EXCEPT ![made] = @ \o Pieces(posted + 1, n)]
                             /\ posted' = posted + 1 /\ peer' = [peer EXCEPT ![made] = "closed"]
    <3>1. PICK n \in 1..2 : /\ in' = [in EXCEPT ![made] = @ \o Pieces(posted + 1, n)]
                            /\ posted' = posted + 1 /\ peer' = [peer EXCEPT ![made] = "closed"]
      BY <2>1
    <3>2. n \in 1..3
      OBVIOUS
    <3> QED
      BY <1>1, <3>1, <3>2, PostInv DEF Gains
  <2>2. CASE /\ in' = in \/ in' = [in EXCEPT ![made] = <<>>]
             /\ posted' = posted
    <3>1. PICK e \in {"closed", "reset"} : peer' = [peer EXCEPT ![made] = e]
      BY <1>2
    <3>2. posted' \in Nat
      BY <2>2 DEF TcpInv, TcpTypes
    <3> QED
      BY <1>1, <2>2, <3>1, <3>2, EndedIns
  <2> QED
    BY <2>1, <2>2 DEF ApClose, ApReset
<1>4. TcpTypes'
  BY <1>1, <1>2, <1>3 DEF TcpInv, TcpTypes
<1>5. Outs'
  <2>1. \A c \in Connections : peer'[c] = "open" => peer[c] = "open"
    BY <1>1, <1>2
  <2> QED
    BY <1>1, <2>1, LeftOuts DEF TcpInv
<1> QED
  BY <1>3, <1>4, <1>5 DEF TcpInv

LEMMA AcceptInv ==
  ASSUME TcpInv, Accept
  PROVE  TcpInv'
<1> USE ConnectionsType
<1>1. /\ client_sock = NoSocket /\ client_sock' = accepted + 1 /\ accepted' = accepted + 1
      /\ accepted \in Nat /\ made \in Nat /\ accepted < made /\ got = <<>>
      /\ UNCHANGED <<made, peer, in, posted, got, received, out, begun, sent, torn>>
      /\ accepted + 1 \in Connections
  BY DEF TcpInv, TcpTypes, Turns, Accept, ap_vars, tx_vars
<1>2. TcpTypes'
  BY <1>1 DEF TcpInv, TcpTypes
<1>3. Turns'
  BY <1>1 DEF TcpInv, Turns
<1>4. Streams' /\ Across' /\ Handed' /\ Received'
  BY <1>1, StayIns DEF TcpInv, Ins
<1>5. \A c \in Connections : Begins(c)' /\ Ends(c)'
  BY <1>1 DEF TcpInv, Ins, Begins, Ends
<1>6. Outs'
  <2>1. \A s \in Senders : begun'[s].on <= accepted'
    <3> TAKE s \in Senders
    <3>1. begun[s].on \in Nat /\ begun[s].on <= accepted
      BY DEF TcpInv, TcpTypes, Outs
    <3> QED
      BY <1>1, <3>1
  <2>2. \A c \in Connections : c > accepted' => out'[c] = <<>>
    BY <1>1 DEF TcpInv, Outs
  <2>3. ASSUME NEW c \in Connections \ torn'
        PROVE  Alternating(out'[c]) /\ (c = client_sock' /\ peer'[c] = "open" => Between(c)')
    <3>1. Alternating(out'[c])
      BY <1>1 DEF TcpInv, Outs
    <3>2. CASE c = accepted + 1
      <4>1. out[c] = <<>>
        BY <1>1, <3>2 DEF TcpInv, Outs
      <4>2. \A s \in Senders : begun[s].on # c
        <5> TAKE s \in Senders
        <5>1. begun[s].on \in Nat /\ begun[s].on <= accepted
          BY DEF TcpInv, TcpTypes, Outs
        <5> QED
          BY <1>1, <3>2, <5>1
      <4>3. Len(out'[c]) % 2 = 0
        BY <1>1, <4>1
      <4>4. Between(c)'
        BY <1>1, <4>2, <4>3 DEF Between
      <4> QED
        BY <3>1, <4>4
    <3> QED
      BY <1>1, <3>1, <3>2
  <2> QED
    BY <2>1, <2>2, <2>3 DEF Outs
<1> QED
  BY <1>2, <1>3, <1>4, <1>5, <1>6 DEF TcpInv, Ins

LEMMA PiecesAppend ==
  ASSUME NEW m, NEW n \in Nat
  PROVE  Append(Pieces(m, n), <<m, n + 1>>) = Pieces(m, n + 1)
  BY DEF Pieces

LEMMA PiecesFirst ==
  ASSUME NEW m, NEW n \in Nat \ {0}
  PROVE  Pieces(m, n)[1] = <<m, 1>> /\ Len(Pieces(m, n)) = n
  BY DEF Pieces

LEMMA UpToTwo ==
  /\ \A n \in Nat : n <= 2 => n \in 0..2
  /\ \A n \in 0..2 : n + 1 <= 3 /\ n + 1 # 0
  OBVIOUS

LEMMA StreamFirst ==
  ASSUME NEW s \in Seq(Part), s # <<>>
  PROVE  s[1] \in Part
  OBVIOUS

\* Nothing but what there is to read, has been read, and is handed up changes.
LEMMA SameTypes ==
  ASSUME TcpTypes, UNCHANGED <<made, peer, posted, client_sock, accepted, out, begun, sent, torn>>,
         in' \in [Connections -> Seq(Part)], got' \in Seq(Part), Len(got') <= 2,
         received' \in Seq(Connections \X Seq(Part))
  PROVE  TcpTypes'
  BY DEF TcpTypes

LEMMA ReadInv ==
  ASSUME TcpInv, Read
  PROVE  TcpInv'
<1> USE ConnectionsType
<1>0. /\ client_sock \in Connections /\ client_sock = accepted
      /\ got \in Seq(Part) /\ Len(got) \in 0..2 /\ posted \in Nat
      /\ in \in [Connections -> Seq(Part)] /\ received \in Seq(Connections \X Seq(Part))
      /\ in[client_sock] # <<>> /\ in' = [in EXCEPT ![client_sock] = Tail(@)]
      /\ UNCHANGED <<made, peer, posted, client_sock, accepted, out, begun, sent, torn>>
  <2>1. /\ client_sock # NoSocket /\ in[client_sock] # <<>>
        /\ in' = [in EXCEPT ![client_sock] = Tail(@)]
        /\ UNCHANGED <<made, peer, posted, client_sock, accepted, out, begun, sent, torn>>
    BY DEF Read, tx_vars
  <2>2. /\ client_sock = accepted /\ accepted \in 0..made /\ made \in 0..MaxConnections
        /\ got \in Seq(Part) /\ Len(got) <= 2 /\ posted \in Nat
        /\ in \in [Connections -> Seq(Part)] /\ received \in Seq(Connections \X Seq(Part))
    BY <2>1 DEF TcpInv, TcpTypes
  <2>3. client_sock \in Connections
    BY <2>1, <2>2
  <2>4. Len(got) \in 0..2
    <3>1. got \in Seq(Part) /\ Len(got) <= 2
      BY <2>2
    <3>2. Len(got) \in Nat
      BY <3>1
    <3> QED
      BY <3>1, <3>2, UpToTwo
  <2> QED
    BY <2>1, <2>2, <2>3, <2>4
<1> PICK c \in Connections : c = client_sock
  BY <1>0
<1> DEFINE s == in[c]
           t == Tail(s)
           m == s[1][1]
           whole == Append(got, Head(s))
<1>1. /\ c = client_sock /\ c = client_sock' /\ c = accepted /\ s \in Seq(Part) /\ s # <<>>
      /\ in' = [in EXCEPT ![c] = t]
      /\ got \in Seq(Part) /\ Len(got) \in 0..2 /\ posted \in Nat
      /\ in \in [Connections -> Seq(Part)] /\ received \in Seq(Connections \X Seq(Part))
      /\ UNCHANGED <<made, peer, posted, client_sock, accepted, out, begun, sent, torn>>
  BY <1>0
<1>2. /\ s[1] \in Part /\ s[1] = <<m, s[1][2]>> /\ m \in Nat /\ s[1][2] \in 1..3
      /\ Head(s) = s[1] /\ 1 \in 1..Len(s) /\ m <= posted
  <2>1. Len(s) \in Nat /\ Len(s) # 0 /\ Head(s) = s[1]
    BY <1>1
  <2>2. 1 \in 1..Len(s)
    BY <2>1
  <2>3. m <= posted
    BY <1>1, <2>2 DEF TcpInv, Ins, Streams
  <2> QED
    BY <1>1, <2>1, <2>2, <2>3, Parts
<1>3. /\ t \in Seq(Part) /\ Len(t) = Len(s) - 1 /\ Len(s) > 0
      /\ \A i \in 1..Len(t) : t[i] = s[i + 1] /\ i + 1 \in 1..Len(s)
      /\ Ordered(t) /\ Joined(t)
      /\ t # <<>> => IF s[1][2] = 3 THEN t[1][2] = 1 ELSE t[1] = <<s[1][1], s[1][2] + 1>>
      /\ s[1][2] = 3 => \A i \in 1..Len(t) : s[1][1] < t[i][1]
      /\ t # <<>> => t[Len(t)] = s[Len(s)]
  <2>1. Ordered(s) /\ Joined(s)
    BY <1>1 DEF TcpInv, Ins, Streams
  <2> HIDE DEF s
  <2> QED
    BY <1>1, <2>1, StreamTail
\* What has been read is the beginning of message m.
<1>4. whole = Pieces(m, Len(got) + 1) /\ s[1][2] = Len(got) + 1 /\ Len(whole) = Len(got) + 1
      /\ whole[1][1] = m /\ whole \in Seq(Part)
  <2>1. s[1] = <<m, Len(got) + 1>> /\ got = Pieces(m, Len(got))
    <3>1. CASE got = <<>>
      <4>1. s[1] = <<m, 1>>
        BY <1>1, <3>1 DEF TcpInv, Ins, Begins
      <4>2. Pieces(m, 0) = <<>>
        BY DEF Pieces
      <4> QED
        BY <3>1, <4>1, <4>2
    <3>2. CASE got # <<>>
      <4>1. s[1] = <<got[1][1], Len(got) + 1>> /\ got = Pieces(got[1][1], Len(got))
        BY <1>1, <3>2 DEF TcpInv, Ins, Begins, Received
      <4>2. m = got[1][1]
        BY <4>1
      <4> QED
        BY <4>1, <4>2
    <3> QED
      BY <3>1, <3>2
  <2>2. whole = Pieces(m, Len(got) + 1)
    <3>1. PICK n \in Nat : n = Len(got)
      BY <1>1
    <3>2. Append(Pieces(m, n), <<m, n + 1>>) = Pieces(m, n + 1)
      BY PiecesAppend
    <3>3. Append(Pieces(m, n), <<m, n + 1>>) = whole
      BY <1>2, <2>1, <3>1
    <3> QED
      BY <3>1, <3>2, <3>3
  <2>3. whole[1] = <<m, 1>>
    <3>1. Len(got) + 1 \in Nat \ {0}
      BY SMTT(20), <1>1
    <3> QED
      BY <2>2, <3>1, PiecesFirst
  <2>4. Len(whole) = Len(got) + 1 /\ whole \in Seq(Part)
    BY <1>1, <1>2
  <2> QED
    BY <2>1, <2>2, <2>3, <2>4
<1>5. in'[c] = t /\ (\A d \in Connections : d # c => in'[d] = in[d])
      /\ in' \in [Connections -> Seq(Part)]
  <2> HIDE DEF t
  <2> QED
    BY <1>1, <1>3
<1>6. IF Len(whole) = 3 THEN got' = <<>> /\ received' = Append(received, <<c, whole>>)
      ELSE got' = whole /\ received' = received
  BY DEF Read
<1> HIDE DEF whole, t, s, m
<1>7. ASSUME NEW d \in Connections, NEW j \in 1..Len(in'[d])
      PROVE  \E k \in 1..Len(in[d]) : in'[d][j] = in[d][k]
  <2>1. CASE d = c
    BY <1>3, <1>5, <1>7, <2>1 DEF s
  <2>2. CASE d # c
    BY <1>5, <1>7, <2>2
  <2> QED
    BY <2>1, <2>2
<1>8. Turns'
  <2>1. \A d \in Connections : in[d] = <<>> => in'[d] = <<>>
    BY <1>1, <1>5 DEF s
  <2> QED
    BY <1>1, <2>1 DEF TcpInv, Turns
<1>9. Outs'
  BY <1>1, LeftOuts DEF TcpInv
<1>10. Streams'
  <2>1. ASSUME NEW d \in Connections
        PROVE  /\ Ordered(in'[d]) /\ Joined(in'[d])
               /\ \A i \in 1..Len(in'[d]) : in'[d][i][1] <= posted'
    <3>1. Ordered(in'[d]) /\ Joined(in'[d])
      BY <1>3, <1>5 DEF TcpInv, Ins, Streams
    <3>2. ASSUME NEW i \in 1..Len(in'[d])
          PROVE  in'[d][i][1] <= posted'
      <4>1. PICK k \in 1..Len(in[d]) : in'[d][i] = in[d][k]
        BY <1>7
      <4>2. in[d][k][1] <= posted
        BY DEF TcpInv, Ins, Streams
      <4> QED
        BY <1>1, <4>1, <4>2
    <3> QED
      BY <3>1, <3>2
  <2> QED
    BY <2>1 DEF Streams
<1>11. Across'
  <2>1. ASSUME NEW d \in Connections, NEW e \in Connections, d < e,
               NEW i \in 1..Len(in'[d]), NEW j \in 1..Len(in'[e])
        PROVE  in'[d][i][1] < in'[e][j][1]
    <3>1. PICK k \in 1..Len(in[d]) : in'[d][i] = in[d][k]
      BY <1>7
    <3>2. PICK l \in 1..Len(in[e]) : in'[e][j] = in[e][l]
      BY <1>7
    <3>3. in[d][k][1] < in[e][l][1]
      BY <2>1 DEF TcpInv, Ins, Across
    <3> QED
      BY <3>1, <3>2, <3>3
  <2> QED
    BY <2>1 DEF Across
<1>12. \A d \in Connections : d # c => Begins(d)' /\ Ends(d)'
  BY <1>1, <1>5 DEF TcpInv, Ins, Begins, Ends
<1>13. peer[c] = "open" => s[Len(s)][2] = 3 /\ (t # <<>> => t[Len(t)][2] = 3)
  BY <1>1, <1>3 DEF TcpInv, Ins, Ends, s
<1>14. CASE Len(whole) = 3
  <2>1. got' = <<>> /\ received' = Append(received, <<c, whole>>) /\ s[1][2] = 3
        /\ whole = Pieces(m, 3)
    BY <1>1, <1>4, <1>6, <1>14
  <2>2. Begins(c)' /\ Ends(c)' /\ Received'
    <3>1. Received'
      BY <2>1 DEF Received
    <3>2. t # <<>> => t[1] = <<t[1][1], 1>>
      <4>1. t # <<>> => t[1] \in Part
        BY <1>3, StreamFirst
      <4> QED
        BY <1>3, <2>1, <4>1, Parts
    <3>3. Begins(c)'
      BY <1>5, <2>1, <3>2 DEF Begins
    <3>4. Ends(c)'
      BY <1>1, <1>5, <1>13, <2>1 DEF Ends
    <3> QED
      BY <3>1, <3>3, <3>4
  <2>3. Ins'
    BY <1>10, <1>11, <1>12, <2>2 DEF Ins
  <2>4. received' \in Seq(Connections \X Seq(Part)) /\ Len(received') = Len(received) + 1
        /\ Len(received) \in Nat /\ received'[Len(received) + 1] = <<c, whole>>
        /\ \A i \in 1..Len(received) : received'[i] = received[i]
    <3>1. <<c, whole>> \in Connections \X Seq(Part)
      BY <1>1, <1>4
    <3> DEFINE T == Connections \X Seq(Part)
    <3> HIDE DEF T
    <3>2. received \in Seq(T) /\ <<c, whole>> \in T
      BY <1>1, <3>1 DEF T
    <3>3. received' \in Seq(T) /\ Len(received') = Len(received) + 1
          /\ Len(received) \in Nat /\ received'[Len(received) + 1] = <<c, whole>>
          /\ \A i \in 1..Len(received) : received'[i] = received[i]
      BY <2>1, <3>2
    <3> QED
      BY <3>3 DEF T
  <2>5. MessageOf(<<c, whole>>) = m
    BY <1>4 DEF MessageOf
  <2>6. ASSUME NEW d \in Connections, NEW j \in 1..Len(in'[d])
        PROVE  m < in'[d][j][1]
    <3>1. CASE d = c
      BY <1>3, <1>5, <2>1, <2>6, <3>1 DEF m
    <3>2. CASE d < c
      <4>1. in[d] = <<>> /\ in'[d] = in[d]
        BY <1>1, <1>5, <3>2 DEF TcpInv, Turns
      <4> QED
        BY <4>1
    <3>3. CASE c < d
      <4>1. in'[d] = in[d] /\ j \in 1..Len(in[d])
        BY <1>5, <2>6, <3>3
      <4>2. in[c][1][1] < in[d][j][1]
        BY <1>1, <1>2, <3>3, <4>1 DEF TcpInv, Ins, Across, s
      <4> QED
        BY <4>1, <4>2 DEF m, s
    <3> QED
      BY <1>1, <3>1, <3>2, <3>3
  <2>7. ASSUME NEW i \in 1..Len(received')
        PROVE  /\ received'[i][2] = Pieces(MessageOf(received'[i]), 3)
               /\ MessageOf(received'[i]) \in 0..posted
               /\ i > 1 => MessageOf(received'[i - 1]) < MessageOf(received'[i])
               /\ \A d \in Connections : \A j \in 1..Len(in'[d]) :
                    MessageOf(received'[i]) < in'[d][j][1]
    <3>1. CASE i <= Len(received)
      <4>1. i \in 1..Len(received) /\ received'[i] = received[i]
            /\ (i > 1 => i - 1 \in 1..Len(received) /\ received'[i - 1] = received[i - 1])
        <5>1. i \in 1..Len(received) /\ (i > 1 => i - 1 \in 1..Len(received))
          BY <2>4, <3>1
        <5> QED
          BY <2>4, <5>1
      <4>2. \A d \in Connections : \A j \in 1..Len(in'[d]) :
              MessageOf(received[i]) < in'[d][j][1]
        <5>1. Handed
          BY DEF TcpInv
        <5>2. \A d \in Connections : \A j \in 1..Len(in[d]) :
                MessageOf(received[i]) < in[d][j][1]
          BY <4>1, <5>1 DEF Handed
        <5>3. ASSUME NEW d \in Connections, NEW j \in 1..Len(in'[d])
              PROVE  MessageOf(received[i]) < in'[d][j][1]
          <6>1. PICK l \in 1..Len(in[d]) : in'[d][j] = in[d][l]
            BY <1>7, <5>3
          <6> QED
            BY <5>2, <6>1
        <5> QED
          BY <5>3
      <4> QED
        BY <4>1, <4>2 DEF TcpInv, Handed
    <3>2. CASE i = Len(received) + 1
      <4>1. received'[i] = <<c, whole>> /\ MessageOf(received'[i]) = m
        BY <2>4, <2>5, <3>2
      <4>2. m \in 0..posted
        BY <1>1, <1>2
      <4>3. ASSUME i > 1
            PROVE  MessageOf(received'[i - 1]) < m
        <5>1. i - 1 \in 1..Len(received) /\ received'[i - 1] = received[i - 1]
          BY <2>4, <3>2, <4>3
        <5>2. MessageOf(received[i - 1]) < in[c][1][1]
          BY <1>1, <1>2, <5>1 DEF TcpInv, Handed, s
        <5> QED
          BY <5>1, <5>2 DEF m, s
      <4>4. received'[i][2] = Pieces(MessageOf(received'[i]), 3)
        BY <2>1, <4>1
      <4> QED
        BY <2>6, <4>1, <4>2, <4>3, <4>4
    <3> QED
      BY <2>4, <2>7, <3>1, <3>2
  <2>8. Handed'
    <3>1. received' = received' /\ posted' = posted /\ got' = <<>>
      BY <1>1, <2>1
    <3> QED
      BY <2>7, <3>1 DEF Handed
  <2>9. TcpTypes'
    <3>1. got' \in Seq(Part) /\ Len(got') <= 2
      BY <2>1
    <3> QED
      BY <1>1, <1>5, <2>4, <3>1, SameTypes DEF TcpInv
  <2> QED
    BY <1>8, <1>9, <2>3, <2>8, <2>9 DEF TcpInv
<1>15. CASE Len(whole) # 3
  <2>1. got' = whole /\ received' = received /\ s[1][2] # 3 /\ got' # <<>> /\ Len(got') <= 2
    <3>1. got' = whole /\ received' = received
      BY <1>6, <1>15
    <3>2. Len(got) + 1 # 3 /\ Len(got) + 1 <= 3 /\ Len(whole) # 0
      <4>1. Len(got) \in 0..2 /\ Len(whole) = Len(got) + 1
        BY <1>1, <1>4
      <4>2. Len(got) + 1 # 3
        BY <1>15, <4>1
      <4> QED
        BY <4>1, <4>2, UpToTwo
    <3>3. Len(whole) <= 2 /\ s[1][2] # 3
      BY <1>1, <1>4, <3>2
    <3>4. whole # <<>>
      BY <3>2
    <3> QED
      BY <3>1, <3>3, <3>4
  <2>2. t = <<>> => peer[c] # "open"
    <3>1. t = <<>> => Len(s) = 1
      BY <1>1, <1>3
    <3> QED
      BY <1>13, <2>1, <3>1
  <2>3. Begins(c)' /\ Ends(c)'
    <3>1. t # <<>> => t[1] = <<got'[1][1], Len(got') + 1>>
      BY <1>3, <1>4, <2>1 DEF m
    <3>2. Begins(c)'
      BY <1>1, <1>5, <2>1, <3>1 DEF Begins
    <3>3. Ends(c)'
      BY <1>1, <1>5, <1>13, <2>2 DEF Ends
    <3> QED
      BY <3>2, <3>3
  <2>4. Received'
    BY <1>1, <1>2, <1>4, <2>1 DEF Received
  <2>5. Ins'
    BY <1>10, <1>11, <1>12, <2>3, <2>4 DEF Ins
  <2>6. Handed'
    <3>1. ASSUME NEW i \in 1..Len(received)
          PROVE  /\ MessageOf(received[i]) < got'[1][1]
                 /\ \A d \in Connections : \A j \in 1..Len(in'[d]) :
                      MessageOf(received[i]) < in'[d][j][1]
      <4>1. MessageOf(received[i]) < in[c][1][1]
        BY <1>1, <1>2 DEF TcpInv, Handed, s
      <4>2. got'[1][1] = in[c][1][1]
        BY <1>4, <2>1 DEF m, s
      <4>3. \A d \in Connections : \A j \in 1..Len(in'[d]) :
              MessageOf(received[i]) < in'[d][j][1]
        <5> TAKE d \in Connections
        <5> TAKE j \in 1..Len(in'[d])
        <5>1. PICK k \in 1..Len(in[d]) : in'[d][j] = in[d][k]
          BY <1>7
        <5>2. MessageOf(received[i]) < in[d][k][1]
          BY DEF TcpInv, Handed
        <5> QED
          BY <5>1, <5>2
      <4> QED
        BY <4>1, <4>2, <4>3
    <3> QED
      <4>1. got' # <<>> /\ received' = received /\ posted' = posted
        BY <1>1, <1>2, <1>5, <2>1
      <4>2. Handed
        BY DEF TcpInv
      <4> QED
        BY SMTT(30), <3>1, <4>1, <4>2 DEF Handed
  <2>7. TcpTypes'
    <3>1. got' \in Seq(Part) /\ received' \in Seq(Connections \X Seq(Part))
      BY <1>1, <1>4, <2>1
    <3> QED
      BY <1>1, <1>5, <2>1, <3>1, SameTypes DEF TcpInv
  <2> QED
    BY <1>8, <1>9, <2>5, <2>6, <2>7 DEF TcpInv
<1> QED
  BY <1>14, <1>15

LEMMA EndReadInv ==
  ASSUME TcpInv, ReadEnd \/ ReadError
  PROVE  TcpInv'
<1> USE ConnectionsType
<1>1. /\ client_sock # NoSocket /\ in[client_sock] = <<>> /\ got' = <<>>
      /\ peer[client_sock] # "open"
      /\ UNCHANGED <<made, peer, in, posted, accepted, received, out, begun, sent, torn>>
      /\ client_sock' = NoSocket \/ client_sock' = client_sock
  <2>1. CASE ReadEnd
    BY <2>1 DEF ReadEnd, ap_vars, tx_vars
  <2>2. CASE ReadError
    BY <2>2 DEF ReadError, ap_vars, tx_vars
  <2> QED
    BY <2>1, <2>2
<1>2. TcpTypes'
  <2>1. got' \in Seq(Part) /\ Len(got') <= 2
    BY <1>1
  <2> QED
    BY <1>1, <2>1 DEF TcpInv, TcpTypes
<1>3. Turns'
  BY <1>1 DEF TcpInv, Turns
<1>4. Streams' /\ Across' /\ Handed' /\ Received'
  BY <1>1, StayIns DEF TcpInv, Ins
<1>5. \A c \in Connections : Begins(c)' /\ Ends(c)'
  <2> TAKE c \in Connections
  <2>1. Begins(c) /\ Ends(c)
    BY DEF TcpInv, Ins
  <2>2. Begins(c)'
    <3>1. CASE c = client_sock
      BY <1>1, <3>1 DEF Begins
    <3>2. CASE c # client_sock
      BY <1>1, <2>1, <3>2 DEF Begins
    <3> QED
      BY <3>1, <3>2
  <2>3. Ends(c)'
    BY <1>1, <2>1 DEF Ends
  <2> QED
    BY <2>2, <2>3
<1>6. Outs'
  <2>1. ASSUME NEW c \in Connections \ torn'
        PROVE  /\ Alternating(out'[c])
               /\ c = client_sock' /\ peer'[c] = "open" => Between(c)'
    <3>1. Alternating(out[c])
      BY <1>1 DEF TcpInv, Outs
    <3>2. ~(c = client_sock' /\ peer'[c] = "open")
      BY <1>1
    <3> QED
      BY <1>1, <3>1, <3>2
  <2> QED
    BY <1>1, <2>1 DEF TcpInv, Outs
<1> QED
  BY <1>2, <1>3, <1>4, <1>5, <1>6 DEF TcpInv, Ins

\* A send does not touch what comes in.
LEMMA SendStays ==
  ASSUME TcpInv, UNCHANGED <<made, peer, in, posted, client_sock, accepted, got, received>>
  PROVE  Turns' /\ Ins' /\ Handed'
<1>1. Turns'
  BY DEF TcpInv, Turns
<1>2. Streams' /\ Across' /\ Handed' /\ Received'
  BY StayIns DEF TcpInv, Ins
<1>3. \A c \in Connections : Begins(c)' /\ Ends(c)'
  BY DEF TcpInv, Ins, Begins, Ends
<1> QED
  BY <1>1, <1>2, <1>3 DEF Ins

LEMMA SendTypes ==
  ASSUME TcpTypes, UNCHANGED <<made, peer, in, posted, client_sock, accepted, got, received>>,
         out' \in [Connections -> Seq(OutPiece)],
         sent' \in 0..MaxSent, torn' \subseteq Connections,
         begun' \in [Senders -> [message : 0..MaxSent, on : 0..MaxConnections]]
  PROVE  TcpTypes'
  BY DEF TcpTypes

\* A write into the stream of the client.
LEMMA Written ==
  ASSUME TcpTypes, NEW CONSTANT c \in Connections, NEW x \in OutPiece,
         out' = [out EXCEPT ![c] = Append(@, x)]
  PROVE  /\ out' \in [Connections -> Seq(OutPiece)]
         /\ out'[c] = Append(out[c], x)
         /\ \A d \in Connections : d # c => out'[d] = out[d]
         /\ Len(out[c]) \in Nat /\ Len(out'[c]) = Len(out[c]) + 1
         /\ out'[c][Len(out'[c])] = x
<1>1. out \in [Connections -> Seq(OutPiece)] /\ x \in OutPiece
  BY DEF TcpTypes
<1>2. /\ out' \in [Connections -> Seq(OutPiece)] /\ out'[c] = Append(out[c], x)
      /\ \A d \in Connections : d # c => out'[d] = out[d]
      /\ out[c] \in Seq(OutPiece)
  BY <1>1
<1>3. /\ Len(out[c]) \in Nat /\ Len(Append(out[c], x)) = Len(out[c]) + 1
      /\ Append(out[c], x)[Len(out[c]) + 1] = x
  BY <1>1, <1>2
<1> QED
  BY <1>2, <1>3

\* Nobody reads what is sent now.
LEMMA UnreachedOuts ==
  ASSUME Outs, ~Reached, UNCHANGED <<client_sock, accepted, peer, out, torn>>,
         \A t \in Senders : begun'[t].on <= accepted
  PROVE  Outs'
<1>1. ASSUME NEW c \in Connections \ torn'
      PROVE  Alternating(out'[c]) /\ ~(c = client_sock' /\ peer'[c] = "open")
  <2>1. Alternating(out'[c])
    BY DEF Outs
  <2>2. c # NoSocket
    BY ConnectionsType
  <2> QED
    BY <2>1, <2>2 DEF Reached
<1> QED
  BY <1>1 DEF Outs

LEMMA SendCportInv ==
  ASSUME TcpInv, NEW s \in Senders, SendCport(s)
  PROVE  TcpInv'
<1> USE ConnectionsType
<1>1. /\ begun[s] = Idle /\ sent' = sent + 1 /\ sent < MaxSent
      /\ UNCHANGED <<made, peer, in, posted, client_sock, accepted, got, received>>
  BY DEF SendCport, ap_vars, rx_vars
<1>2. Turns' /\ Ins' /\ Handed'
  BY <1>1, SendStays
<1>3. /\ sent' \in 0..MaxSent /\ accepted \in 0..MaxConnections
      /\ client_sock \in {NoSocket, accepted}
      /\ begun \in [Senders -> [message : 0..MaxSent, on : 0..MaxConnections]]
      /\ torn \subseteq Connections
      /\ \A t \in Senders : begun[t].on \in 0..MaxConnections /\ begun[t].on <= accepted
  <2>1. sent \in 0..MaxSent /\ made \in 0..MaxConnections /\ accepted \in 0..made
        /\ client_sock \in {NoSocket, accepted} /\ torn \subseteq Connections
    BY DEF TcpInv, TcpTypes
  <2>2. begun \in [Senders -> [message : 0..MaxSent, on : 0..MaxConnections]]
    BY DEF TcpInv, TcpTypes
  <2>3. \A t \in Senders : begun[t].on <= accepted
    BY DEF TcpInv, Outs
  <2> QED
    BY <1>1, <2>1, <2>2, <2>3, TcpAssumption
\* A sender that has begun waits on the connection of now.
<1>4. ASSUME client_sock # NoSocket, begun' = [begun EXCEPT ![s] = [message |-> sent', on |-> client_sock]]
      PROVE  /\ begun' \in [Senders -> [message : 0..MaxSent, on : 0..MaxConnections]]
             /\ \A t \in Senders : begun'[t].on <= accepted
             /\ begun'[s] = [message |-> sent', on |-> client_sock]
             /\ \A t \in Senders : t # s => begun'[t] = begun[t]
  <2>1. client_sock = accepted /\ [message |-> sent', on |-> client_sock] \in [message : 0..MaxSent, on : 0..MaxConnections]
    BY <1>3, <1>4
  <2> QED
    BY <1>3, <1>4, <2>1
<1>5. CASE Reached /\ begun' = [begun EXCEPT ![s] = [message |-> sent', on |-> client_sock]]
           /\ out' = [out EXCEPT ![client_sock] = Append(@, <<sent', "cport">>)]
           /\ torn' = torn \cup {c \in {client_sock} : \E t \in Senders : begun[t] # Idle}
  <2>1. client_sock \in Connections /\ client_sock = accepted /\ client_sock # NoSocket
        /\ peer[client_sock] = "open"
    BY <1>3, <1>5 DEF Reached
  <2> PICK k \in Connections : k = client_sock
    BY <2>1
  <2>0. <<sent', "cport">> \in OutPiece
    BY <1>3 DEF OutPiece
  <2> PICK x \in OutPiece : x = <<sent', "cport">>
    BY <2>0
  <2>2. x = <<sent', "cport">> /\ x[1] = sent' /\ x = <<x[1], "cport">>
    OBVIOUS
  <2>3. /\ out' \in [Connections -> Seq(OutPiece)]
        /\ out'[k] = Append(out[k], x)
        /\ \A d \in Connections : d # k => out'[d] = out[d]
        /\ Len(out[k]) \in Nat /\ Len(out'[k]) = Len(out[k]) + 1
        /\ out'[k][Len(out'[k])] = x
    <3>1. out' = [out EXCEPT ![k] = Append(@, x)]
      BY <1>5
    <3>2. TcpTypes
      BY DEF TcpInv
    <3> QED
      BY <3>1, <3>2, Written, ZenonT(60)
  <2>4. torn' \subseteq Connections /\ torn \subseteq torn'
    BY <1>3, <1>5, <2>1
  <2>5. TcpTypes'
    BY <1>1, <1>3, <1>4, <1>5, <2>1, <2>3, <2>4, SendTypes DEF TcpInv
  <2>6. ASSUME k \notin torn'
        PROVE  Alternating(out'[k]) /\ Between(k)'
    <3>1. \A t \in Senders : begun[t] = Idle
      BY <1>5, <2>6
    <3>2. Alternating(out[k]) /\ Between(k)
      BY <2>1, <2>4, <2>6 DEF TcpInv, Outs
    <3>3. Idle.on = 0 /\ k # 0
      BY DEF Idle, NoSocket
    <3>4. Len(out[k]) % 2 = 0
      <4>1. \A t \in Senders : begun[t].on # k
        BY <3>1, <3>3
      <4>2. \A t \in Senders : begun[t] # [message |-> out[k][Len(out[k])][1], on |-> k]
        BY <4>1
      <4> QED
        BY <3>2, <4>2 DEF Between
    <3>5. Alternating(out'[k])
      <4>1. out[k] \in Seq(OutPiece) /\ x \in OutPiece
        BY <2>2 DEF TcpInv, TcpTypes
      <4>2. x = IF Len(out[k]) % 2 = 0 THEN <<x[1], "cport">>
                ELSE <<out[k][Len(out[k])][1], "message">>
        BY <2>2, <3>4
      <4>3. Alternating(Append(out[k], x))
        BY <3>2, <4>1, <4>2, AlternatingAppend
      <4> QED
        BY <2>3, <4>3
    <3>6. Len(out'[k]) % 2 # 0
      BY <2>3, <3>4, Parity
    <3>7. begun'[s] = [message |-> out'[k][Len(out'[k])][1], on |-> k]
      BY <1>4, <1>5, <2>1, <2>2, <2>3
    <3>8. \A t \in Senders : begun'[t] # Idle => t = s
      BY <1>4, <1>5, <2>1, <3>1
    <3>9. Between(k)'
      <4>1. \E u \in Senders :
              /\ begun'[u] = [message |-> out'[k][Len(out'[k])][1], on |-> k]
              /\ \A t \in Senders : begun'[t] # Idle => t = u
        BY <3>7, <3>8
      <4> QED
        BY <3>6, <4>1 DEF Between, Idle, NoSocket
    <3> QED
      BY <3>5, <3>9
  <2>7. Outs'
    <3>1. ASSUME NEW c \in Connections \ torn'
          PROVE  Alternating(out'[c]) /\ (c = client_sock' /\ peer'[c] = "open" => Between(c)')
      <4>1. CASE c = k
        BY <2>6, <4>1
      <4>2. CASE c # k
        <5>1. Alternating(out[c]) /\ out'[c] = out[c] /\ c # client_sock'
          BY <1>1, <2>1, <2>3, <2>4, <4>2 DEF TcpInv, Outs
        <5> QED
          BY <5>1
      <4> QED
        BY <4>1, <4>2
    <3>2. \A c \in Connections : c > accepted' => out'[c] = <<>>
      <4> TAKE c \in Connections
      <4>1. c > accepted => c # k
        BY <1>3, <2>1
      <4> QED
        BY <1>1, <2>3, <4>1 DEF TcpInv, Outs
    <3>3. \A t \in Senders : begun'[t].on <= accepted'
      BY <1>1, <1>4, <1>5, <2>1
    <3> QED
      BY <3>1, <3>2, <3>3 DEF Outs
  <2> QED
    BY <1>2, <2>5, <2>7 DEF TcpInv
<1>6. CASE /\ ~Reached /\ out' = out /\ torn' = torn
           /\ \/ begun' = begun
              \/ client_sock # NoSocket
                 /\ begun' = [begun EXCEPT ![s] = [message |-> sent', on |-> client_sock]]
  <2>1. begun' \in [Senders -> [message : 0..MaxSent, on : 0..MaxConnections]]
        /\ \A t \in Senders : begun'[t].on <= accepted
    BY <1>3, <1>4, <1>6
  <2>2. TcpTypes'
    <3>1. out \in [Connections -> Seq(OutPiece)]
      BY DEF TcpInv, TcpTypes
    <3> QED
      BY <1>1, <1>3, <1>6, <2>1, <3>1, SendTypes DEF TcpInv
  <2>3. Outs'
    BY <1>1, <1>6, <2>1, UnreachedOuts DEF TcpInv
  <2> QED
    BY <1>2, <2>2, <2>3 DEF TcpInv
<1> QED
  BY <1>5, <1>6 DEF SendCport

LEMMA SendMessageInv ==
  ASSUME TcpInv, NEW s \in Senders, SendMessage(s)
  PROVE  TcpInv'
<1> USE ConnectionsType
<1>1. /\ begun[s] # Idle /\ begun' = [begun EXCEPT ![s] = Idle]
      /\ UNCHANGED <<made, peer, in, posted, client_sock, accepted, got, received, sent>>
  BY DEF SendMessage, ap_vars, rx_vars
<1>2. Turns' /\ Ins' /\ Handed'
  BY <1>1, SendStays
<1>3. /\ sent \in 0..MaxSent /\ accepted \in 0..MaxConnections
      /\ client_sock \in {NoSocket, accepted}
      /\ begun \in [Senders -> [message : 0..MaxSent, on : 0..MaxConnections]]
      /\ torn \subseteq Connections
      /\ out \in [Connections -> Seq(OutPiece)]
      /\ \A t \in Senders : begun[t].on \in 0..MaxConnections /\ begun[t].on <= accepted
  <2>1. sent \in 0..MaxSent /\ made \in 0..MaxConnections /\ accepted \in 0..made
        /\ client_sock \in {NoSocket, accepted} /\ torn \subseteq Connections
        /\ out \in [Connections -> Seq(OutPiece)]
    BY DEF TcpInv, TcpTypes
  <2>2. begun \in [Senders -> [message : 0..MaxSent, on : 0..MaxConnections]]
    BY DEF TcpInv, TcpTypes
  <2>3. \A t \in Senders : begun[t].on <= accepted
    BY DEF TcpInv, Outs
  <2> QED
    BY <1>1, <2>1, <2>2, <2>3, TcpAssumption
<1>4. /\ begun' \in [Senders -> [message : 0..MaxSent, on : 0..MaxConnections]]
      /\ \A t \in Senders : begun'[t].on <= accepted
      /\ begun'[s] = Idle /\ \A t \in Senders : t # s => begun'[t] = begun[t]
  <2>1. Idle \in [message : 0..MaxSent, on : 0..MaxConnections] /\ Idle.on = 0
    BY TcpAssumption DEF Idle, NoSocket
  <2> QED
    BY <1>1, <1>3, <2>1
<1>5. CASE Reached /\ torn' = torn \cup ({client_sock} \ {begun[s].on})
           /\ out' = [out EXCEPT ![client_sock] = Append(@, <<begun[s].message, "message">>)]
  <2>1. client_sock \in Connections /\ client_sock = accepted /\ client_sock # NoSocket
        /\ peer[client_sock] = "open"
    BY <1>3, <1>5 DEF Reached
  <2> PICK k \in Connections : k = client_sock
    BY <2>1
  <2>0. <<begun[s].message, "message">> \in OutPiece
    BY <1>3 DEF OutPiece
  <2> PICK x \in OutPiece : x = <<begun[s].message, "message">>
    BY <2>0
  <2>2. x = <<begun[s].message, "message">> /\ x[1] = begun[s].message
        /\ x = <<x[1], "message">>
    OBVIOUS
  <2>3. /\ out' \in [Connections -> Seq(OutPiece)]
        /\ out'[k] = Append(out[k], x)
        /\ \A d \in Connections : d # k => out'[d] = out[d]
        /\ Len(out[k]) \in Nat /\ Len(out'[k]) = Len(out[k]) + 1
        /\ out'[k][Len(out'[k])] = x
    <3>1. out' = [out EXCEPT ![k] = Append(@, x)]
      BY <1>5
    <3>2. TcpTypes
      BY DEF TcpInv
    <3> QED
      BY <3>1, <3>2, Written, ZenonT(60)
  <2>4. torn' \subseteq Connections /\ torn \subseteq torn'
    BY <1>3, <1>5, <2>1
  <2>5. TcpTypes'
    BY <1>1, <1>3, <1>4, <2>3, <2>4, SendTypes DEF TcpInv
\* On a connection that is not torn, the sender is the one whose cport is the last.
  <2>6. ASSUME k \notin torn'
        PROVE  Alternating(out'[k]) /\ Between(k)'
    <3>1. Alternating(out[k]) /\ Between(k)
      BY <2>1, <2>4, <2>6 DEF TcpInv, Outs
    <3>2. begun[s].on = k
      BY <1>5, <2>6
    <3>3. /\ Len(out[k]) % 2 # 0
          /\ begun[s].message = out[k][Len(out[k])][1]
          /\ \A t \in Senders : begun[t] # Idle => t = s
      <4>1. Len(out[k]) % 2 # 0
        BY <3>1, <3>2 DEF Between
      <4>2. PICK u \in Senders :
              /\ begun[u] = [message |-> out[k][Len(out[k])][1], on |-> k]
              /\ \A t \in Senders : begun[t] # Idle => t = u
        BY <3>1, <4>1 DEF Between
      <4>3. u = s
        <5>1. begun[s] # Idle
          BY <1>1
        <5> QED
          BY <4>2, <5>1
      <4>4. begun[s].message = out[k][Len(out[k])][1]
        BY <4>2, <4>3
      <4>5. \A t \in Senders : begun[t] # Idle => t = s
        BY <4>2, <4>3
      <4> QED
        BY <4>1, <4>4, <4>5
    <3>4. Alternating(out'[k])
      <4>1. out[k] \in Seq(OutPiece) /\ x \in OutPiece
        BY <1>3, <2>2
      <4>2. x = IF Len(out[k]) % 2 = 0 THEN <<x[1], "cport">>
                ELSE <<out[k][Len(out[k])][1], "message">>
        BY <2>2, <3>3
      <4>3. Alternating(Append(out[k], x))
        BY <3>1, <4>1, <4>2, AlternatingAppend
      <4> QED
        BY <2>3, <4>3
    <3>5. Len(out'[k]) % 2 = 0
      BY <2>3, <3>3, Parity
    <3>6. \A t \in Senders : begun'[t].on # k
      <4>1. \A t \in Senders : begun'[t] = Idle
        BY <1>4, <3>3
      <4>2. Idle.on = 0 /\ k # 0
        BY DEF Idle, NoSocket
      <4> QED
        BY <4>1, <4>2
    <3> QED
      BY <3>4, <3>5, <3>6 DEF Between
  <2>7. Outs'
    <3>1. ASSUME NEW c \in Connections \ torn'
          PROVE  Alternating(out'[c]) /\ (c = client_sock' /\ peer'[c] = "open" => Between(c)')
      <4>1. CASE c = k
        BY <2>6, <4>1
      <4>2. CASE c # k
        <5>1. Alternating(out[c]) /\ out'[c] = out[c] /\ c # client_sock'
          BY <1>1, <2>1, <2>3, <2>4, <4>2 DEF TcpInv, Outs
        <5> QED
          BY <5>1
      <4> QED
        BY <4>1, <4>2
    <3>2. \A c \in Connections : c > accepted' => out'[c] = <<>>
      <4> TAKE c \in Connections
      <4>1. c > accepted => c # k
        BY <1>3, <2>1
      <4> QED
        BY <1>1, <2>3, <4>1 DEF TcpInv, Outs
    <3>3. \A t \in Senders : begun'[t].on <= accepted'
      BY <1>1, <1>4
    <3> QED
      BY <3>1, <3>2, <3>3 DEF Outs
  <2> QED
    BY <1>2, <2>5, <2>7 DEF TcpInv
<1>6. CASE ~Reached /\ out' = out /\ torn' = torn
  <2>1. TcpTypes'
    BY <1>1, <1>3, <1>4, <1>6, SendTypes DEF TcpInv
  <2>2. Outs'
    BY <1>1, <1>4, <1>6, UnreachedOuts DEF TcpInv
  <2> QED
    BY <1>2, <2>1, <2>2 DEF TcpInv
<1> QED
  BY <1>5, <1>6 DEF SendMessage

LEMMA NextTcp ==
  ASSUME TcpInv, TcpNext
  PROVE  TcpInv'
  BY ConnectInv, ApSendInv, ApEndInv, AcceptInv, ReadInv, EndReadInv, SendCportInv,
     SendMessageInv
  DEF TcpNext, RxThread

-----------------------------------------------------------------------------
(* The three links together                                                *)

\* What the others do leaves a link alone.
LEMMA TcpStays == TcpInv /\ UNCHANGED tcp_vars => TcpInv'
<1> SUFFICES ASSUME TcpInv, UNCHANGED tcp_vars PROVE TcpInv'
  OBVIOUS
<1>1. TcpTypes'
  BY DEF TcpInv, TcpTypes, tcp_vars
<1>2. Turns' /\ Ins' /\ Handed'
  BY SendStays DEF tcp_vars
<1>3. Outs'
  BY LeftOuts DEF TcpInv, tcp_vars
<1> QED
  BY <1>1, <1>2, <1>3 DEF TcpInv

LEMMA I2cStays == I2cInv /\ UNCHANGED i2c_vars => I2cInv'
<1> SUFFICES ASSUME I2cInv, UNCHANGED i2c_vars PROVE I2cInv'
  OBVIOUS
<1>1. I2cFlags'
  BY Zenon DEF I2cInv, I2cFlags, i2c_vars
<1>2. RxInv'
  BY RxApart DEF I2cInv, RxInv, i2c_rx, i2c_vars
<1>3. TxInv'
  BY TxApart DEF I2cInv, TxInv, i2c_tx, i2c_vars
<1> QED
  BY <1>1, <1>2, <1>3 DEF I2cInv, RxInv, TxInv

LEMMA SvcStays == SvcInv /\ UNCHANGED svc_vars => SvcInv'
<1> SUFFICES ASSUME SvcInv, UNCHANGED svc_vars PROVE SvcInv'
  OBVIOUS
<1>1. SvcFlags'
  BY Zenon DEF SvcInv, SvcFlags, svc_vars
<1>2. SvcOthers'
  BY DEF SvcInv, SvcOthers, svc_vars
<1>3. SvcLogic'
  BY Zenon DEF SvcInv, SvcLogic, SvcReady, svc_vars
<1> QED
  BY <1>1, <1>2, <1>3 DEF SvcInv

IInv == TcpInv /\ I2cInv /\ SvcInv

\* The invariant of each link holds always, whichever of them the build has.
THEOREM Invariance == Spec => []IInv
<1>1. Init => IInv
  BY InitTcp, InitI2c, InitSvc DEF Init, IInv
<1>2. IInv /\ [Next]_vars => IInv'
  <2> SUFFICES ASSUME IInv, [Next]_vars PROVE IInv'
    OBVIOUS
  <2>1. CASE TcpStep
    BY <2>1, NextTcp, I2cStays, SvcStays DEF TcpStep, IInv
  <2>2. CASE I2cStep
    BY <2>2, TcpStays, NextI2c, SvcStays DEF I2cStep, IInv
  <2>3. CASE SvcStep
    BY <2>3, TcpStays, I2cStays, NextSvc DEF SvcStep, IInv
  <2>4. CASE UNCHANGED vars
    BY <2>4, TcpStays, I2cStays, SvcStays DEF vars, IInv
  <2> QED
    BY <2>1, <2>2, <2>3, <2>4 DEF Next
<1> QED
  BY <1>1, <1>2, PTL DEF Spec

LEMMA TcpTypeCorrect == TcpInv => TcpTypeOK
<1> SUFFICES ASSUME TcpTypes PROVE TcpTypeOK
  BY DEF TcpInv
<1>1. /\ made \in 0..MaxConnections /\ accepted \in 0..made
      /\ client_sock \in {NoSocket, accepted}
  BY DEF TcpTypes
<1>2. client_sock \in {NoSocket} \cup Connections
  BY <1>1, ConnectionsType
<1>3. Len(got) \in 0..2
  <2>1. got \in Seq(Part) /\ Len(got) <= 2
    BY DEF TcpTypes
  <2>2. Len(got) \in Nat
    BY <2>1
  <2> QED
    BY <2>1, <2>2, UpToTwo
<1>4. /\ peer \in [Connections -> {"none", "open", "closed", "reset"}]
      /\ sent \in 0..MaxSent /\ torn \subseteq Connections
      /\ begun \in [Senders -> [message : 0..MaxSent, on : 0..MaxConnections]]
  BY DEF TcpTypes
<1> QED
  BY <1>1, <1>2, <1>3, <1>4 DEF TcpTypeOK

LEMMA I2cTypeCorrect == I2cInv => I2cTypeOK
<1> SUFFICES ASSUME I2cFlags, RxTypes, TxTypes PROVE I2cTypeOK
  BY DEF I2cInv
<1>1. dropped \in BOOLEAN /\ work \in BOOLEAN /\ running \in BOOLEAN /\ collided \in BOOLEAN
  BY Zenon DEF I2cFlags
<1>2. /\ stopped \in 0..Len(Lengths) /\ Len(rx_buf) <= PipeLen /\ Len(tx_pipe) <= PipeLen
      /\ given \in 0..Len(Lengths)
  BY DEF RxTypes, TxTypes
<1>3. ASSUME NEW w \in Writers
      PROVE  unit[w] = NoUnit \/ \E m \in Messages : unit[w] \in {m} \X (0..Lengths[m])
  <2>1. unit[w] \in {NoUnit} \cup {u \in OutUnit : u[2] <= Lengths[u[1]]}
    BY DEF TxTypes
  <2>2. CASE unit[w] # NoUnit
    <3>1. PICK m \in Messages, n \in Nat : unit[w] = <<m, n>> /\ n <= Lengths[m]
      BY <2>1, <2>2 DEF OutUnit
    <3>2. n \in 0..Lengths[m]
      BY <3>1, LengthsType
    <3> QED
      BY <3>1, <3>2
  <2> QED
    BY <2>2
<1> QED
  BY <1>1, <1>2, <1>3 DEF I2cTypeOK

LEMMA SvcTypeCorrect == SvcInv => SvcTypeOK
<1> SUFFICES ASSUME SvcFlags, SvcOthers PROVE SvcTypeOK
  BY DEF SvcInv
<1>1. svc_intf \in BOOLEAN /\ connected \in BOOLEAN /\ waiting \in BOOLEAN
      /\ helloed \in BOOLEAN /\ late \in BOOLEAN
  BY Zenon DEF SvcFlags
<1> QED
  BY <1>1 DEF SvcOthers, SvcTypeOK

\* Every variable of the three links keeps its type: a socket of a connection that
\* was made, a ring and a pipe that are never overfull, a semaphore of at most 1.
THEOREM TypeCorrect == Spec => []TypeOK
<1>1. IInv => TypeOK
  BY TcpTypeCorrect, I2cTypeCorrect, SvcTypeCorrect DEF IInv, TypeOK
<1> QED
  BY <1>1, Invariance, PTL

LEMMA TcpWhole == TcpInv => TcpIntact
<1> SUFFICES ASSUME TcpInv PROVE TcpIntact
  OBVIOUS
<1>1. ASSUME NEW c \in Connections \ torn, NEW i \in DOMAIN out[c]
      PROVE  out[c][i] = <<out[c][IF i % 2 = 0 THEN i - 1 ELSE i][1],
                           IF i % 2 = 0 THEN "message" ELSE "cport">>
  <2>1. out[c] \in Seq(OutPiece) /\ Alternating(out[c])
    BY DEF TcpInv, TcpTypes, Outs
  <2>2. DOMAIN out[c] = 1..Len(out[c])
    BY <2>1
  <2> QED
    BY <2>1, <2>2 DEF Alternating
<1>2. ASSUME NEW i \in DOMAIN received
      PROVE  /\ received[i][2] = Pieces(received[i][2][1][1], 3)
             /\ i > 1 => received[i - 1][2][1][1] < received[i][2][1][1]
  <2> DEFINE T == Connections \X Seq(Part)
  <2>1. received \in Seq(T)
    BY DEF TcpInv, TcpTypes
  <2> HIDE DEF T
  <2>2. DOMAIN received = 1..Len(received)
    BY <2>1
  <2> QED
    BY <2>2 DEF TcpInv, Handed, MessageOf
<1> QED
  BY <1>1, <1>2 DEF TcpIntact

LEMMA I2cWhole == I2cInv => I2cIntact
<1> SUFFICES ASSUME TxTypes, dropped \/ RxStream, collided \/ TxStream PROVE I2cIntact
  BY DEF I2cInv
<1>1. dropped \/ \A i \in DOMAIN taken : taken[i] = Units(i, 1)
  BY DEF RxStream
<1>2. collided \/ \A i \in DOMAIN read :
        read[i] = IF i = 1 THEN <<1, 0>> ELSE Follow(read[i - 1])
  <2>1. DOMAIN read = 1..Len(read)
    <3>1. read \in Seq(OutUnit)
      BY DEF TxTypes
    <3> QED
      BY <3>1
  <2> QED
    BY <2>1 DEF TxStream, Chain
<1> QED
  BY <1>1, <1>2, Zenon DEF I2cIntact

\* The links hand up whole messages in order and send whole messages out, whatever
\* the AP, its connections, the senders and the bus do, except on a connection that
\* two sends have torn, behind a ring that was full and after two writers have met.
THEOREM StreamsIntact == Spec => []MessagesIntact
<1>1. IInv => MessagesIntact
  BY TcpWhole, I2cWhole DEF IInv, MessagesIntact
<1> QED
  BY <1>1, Invariance, PTL

\* gb_svc_init reports success only for a hello that the AP has answered, or by the
\* late answer to an earlier one.
THEOREM ReadyOnlyWhenAnswered == Spec => []SvcReady
<1>1. IInv => SvcReady
  BY DEF IInv, SvcInv, SvcLogic
<1> QED
  BY <1>1, Invariance, PTL
=============================================================================
