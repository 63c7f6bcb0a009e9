-------------------------- MODULE FwDownloadProofs --------------------------
(***************************************************************************)
(* Theorems about firmware updates, for any images, any number of loads    *)
(* and any number of failures.  Those about the order of an image assume   *)
(* that a 16-bit offset can address it (SmallEnough), without which they   *)
(* fail.                                                                   *)
(***************************************************************************)
EXTENDS FwDownload, SequenceTheorems, TLAPS

SmallEnough == \A f \in Firmware : ImageSize[f] <= OffsetSpan

ApMessages ==
  [type : {"load"}, id : Nat, fw : Firmware, unipro : BOOLEAN]
    \cup [type : {"found"}, ok : BOOLEAN, fw : Firmware, size : Nat]
    \cup [type : {"data"}, ok : BOOLEAN, chunk : [fw : Firmware, k : Nat]]
    \cup [type : {"data"}, ok : {FALSE}]

(***************************************************************************)
(* Nothing is fetched before a first image has been found.                 *)
(***************************************************************************)
FoundFirst ==
  priv.id = None =>
    /\ \A i \in 1..Len(toAp) : toAp[i].type # "fetch"
    /\ \A i \in 1..Len(toNode) : toNode[i].type # "data"

Typed ==
  /\ TypeOK
  /\ toNode \in Seq(ApMessages)
  /\ nLoads \in Nat /\ disturbed \in BOOLEAN
  /\ FoundFirst

(***************************************************************************)
(* Where an undisturbed load is: at most one message is on its way in      *)
(* either direction, but for the acknowledgement before a find and the     *)
(* release before a report.                                                *)
(***************************************************************************)
Serving == load # None /\ load = nLoads /\ priv.req = load

Silent == toNode = <<>> /\ toAp = <<>>

Asked ==
  /\ load # None /\ load = nLoads /\ served = {}
  /\ toAp = <<>> /\ Len(toNode) = 1
  /\ toNode[1].type = "load" /\ toNode[1].id = load

Declined == load # None /\ served = {} /\ toNode = <<>> /\ toAp = <<Ack(FALSE)>>

Finding ==
  /\ Serving /\ served = {} /\ toNode = <<>>
  /\ \E f \in Firmware : toAp = <<Ack(TRUE), Find(f)>> \/ toAp = <<Find(f)>>

Found ==
  /\ Serving /\ toAp = <<>> /\ Len(toNode) = 1
  /\ toNode[1].type = "found"
  /\ toNode[1].ok => served = {toNode[1].fw} /\ toNode[1].size = ImageSize[toNode[1].fw]

\* The offset counts the chunks written.
InImage ==
  /\ Serving /\ priv.id \in Firmware /\ served = {priv.id}
  /\ priv.size = ImageSize[priv.id] /\ priv.offset = Len(flash)

Fetching ==
  /\ InImage /\ toNode = <<>>
  /\ priv.offset = 0 \/ priv.offset < priv.size
  /\ \E id \in Firmware \cup {None} : toAp = <<Fetch(id, priv.offset)>>

Answered ==
  /\ InImage /\ toAp = <<>> /\ Len(toNode) = 1
  /\ toNode[1].type = "data"
  /\ toNode[1].ok => toNode[1].chunk = Chunk(priv.id, priv.offset) /\ priv.offset < priv.size

Done ==
  /\ load # None /\ load \in Nat
  /\ toNode = <<>>
  /\ \E status \in {"validated", "failed"} :
       \/ served \subseteq {priv.id} /\ toAp = <<Release(priv.id), Loaded(load, status)>>
       \/ served = {} /\ toAp = <<Loaded(load, status)>>

Phase ==
  Silent \/ Asked \/ Declined \/ Finding \/ Found \/ Fetching \/ Answered \/ Done

IInv ==
  /\ Typed
  /\ ~disturbed => FlashInOrder /\ Phase /\ (load = None => served = {})

-----------------------------------------------------------------------------
(***************************************************************************)
(* Short sequences.                                                        *)
(***************************************************************************)
LEMMA Short ==
  ASSUME NEW a, NEW b
  PROVE  /\ Append(<<>>, a) = <<a>>
         /\ <<>> \o <<a, b>> = <<a, b>>
         /\ <<a>> \o <<b>> = <<a, b>>
         /\ <<a>> \o <<>> = <<a>>
         /\ Tail(<<a>>) = <<>> /\ Head(<<a>>) = a
         /\ Tail(<<a, b>>) = <<b>> /\ Head(<<a, b>>) = a
         /\ <<a>> # <<>> /\ <<a, b>> # <<>>
         /\ Len(<<a>>) = 1 /\ Len(<<a, b>>) = 2
<1> DEFINE S == {a, b}
<1>1. <<a>> \in Seq(S) /\ <<a, b>> \in Seq(S) /\ <<b>> \in Seq(S) /\ <<>> \in Seq(S)
  OBVIOUS
<1>2. Len(<<a>>) = 1 /\ Len(<<a, b>>) = 2 /\ Len(<<>>) = 0 /\ Len(<<b>>) = 1
  OBVIOUS
<1>3. <<a>> # <<>> /\ <<a, b>> # <<>>
  BY <1>2
<1>4. Append(<<>>, a) = <<a>>
  OBVIOUS
<1>5. <<>> \o <<a, b>> = <<a, b>> /\ <<a>> \o <<>> = <<a>>
  BY <1>1, ConcatEmptySeq
<1>6. <<a>> \o <<b>> = <<a, b>>
  <2>1. /\ <<a>> \o <<b>> \in Seq(S) /\ Len(<<a>> \o <<b>>) = 2
        /\ \A i \in 1..2 : (<<a>> \o <<b>>)[i] = IF i <= 1 THEN <<a>>[i] ELSE <<b>>[i - 1]
    BY <1>1, <1>2, ConcatProperties
  <2>2. \A i \in 1..2 : (<<a>> \o <<b>>)[i] = <<a, b>>[i]
    BY <2>1
  <2> QED
    BY <1>1, <1>2, <2>1, <2>2, SeqEqual
<1>7. Head(<<a>>) = a /\ Head(<<a, b>>) = a
  OBVIOUS
<1>8. Tail(<<a>>) = <<>>
  <2>1. Tail(<<a>>) \in Seq(S) /\ Len(Tail(<<a>>)) = 0
    BY <1>1, <1>2, <1>3, HeadTailProperties
  <2> QED
    BY <2>1, EmptySeq
<1>9. Tail(<<a, b>>) = <<b>>
  OBVIOUS
<1> QED
  BY <1>2, <1>3, <1>4, <1>5, <1>6, <1>7, <1>8, <1>9

LEMMA Lengths ==
  ASSUME NEW s, NEW a, NEW b
  PROVE  (s = <<a>> => Len(s) = 1) /\ (s = <<a, b>> => Len(s) = 2)
OBVIOUS

LEMMA OneLong ==
  ASSUME NEW S, NEW s \in Seq(S), Len(s) = 1
  PROVE  Head(s) = s[1] /\ Tail(s) = <<>> /\ s # <<>>
<1>1. s # <<>>
  OBVIOUS
<1>2. Tail(s) \in Seq(S) /\ Len(Tail(s)) = 0
  BY <1>1, HeadTailProperties
<1>3. Tail(s) = <<>>
  BY <1>2, EmptySeq
<1> QED
  BY <1>1, <1>3

LEMMA Fields ==
  ASSUME NEW m \in ApMessages
  PROVE  /\ m.type = "load" => m.id \in Nat /\ m.fw \in Firmware /\ m.unipro \in BOOLEAN
         /\ m.type = "found" => m.ok \in BOOLEAN /\ m.fw \in Firmware /\ m.size \in Nat
         /\ m.type = "data" =>
              m.ok \in BOOLEAN /\ (m.ok => m.chunk \in [fw : Firmware, k : Nat])
<1>1. CASE m \in [type : {"load"}, id : Nat, fw : Firmware, unipro : BOOLEAN]
  BY <1>1
<1>2. CASE m \in [type : {"found"}, ok : BOOLEAN, fw : Firmware, size : Nat]
  BY <1>2
<1>3. CASE m \in [type : {"data"}, ok : BOOLEAN, chunk : [fw : Firmware, k : Nat]]
  BY <1>3
<1>4. CASE m \in [type : {"data"}, ok : {FALSE}]
  BY <1>4
<1> QED
  BY <1>1, <1>2, <1>3, <1>4 DEF ApMessages

LEMMA NodeFields ==
  ASSUME NEW m \in NodeMessages
  PROVE  /\ m.type \in {"find", "release", "fetch"} => m.fw \in Firmware \cup {None}
         /\ m.type \in {"find", "release"} => m.fw \in Firmware
         /\ m.type = "fetch" => m.offset \in Nat
<1>1. CASE m \in [type : {"find", "release"}, fw : Firmware]
  BY <1>1
<1>2. CASE m \in [type : {"fetch"}, fw : Firmware \cup {None}, offset : Nat]
  BY <1>2
<1>3. CASE m \in [type : {"ack"}, ok : BOOLEAN]
  BY <1>3
<1>4. CASE m \in [type : {"loaded"}, id : Nat \cup {None}, status : {"validated", "failed"}]
  BY <1>4
<1> QED
  BY <1>1, <1>2, <1>3, <1>4 DEF NodeMessages

LEMMA Messages ==
  /\ \A f \in Firmware : Find(f) \in NodeMessages /\ Release(f) \in NodeMessages
  /\ \A ok \in BOOLEAN : Ack(ok) \in NodeMessages
  /\ \A id \in Nat \cup {None}, status \in {"validated", "failed"} :
       Loaded(id, status) \in NodeMessages
  /\ \A f \in Firmware \cup {None}, o \in Nat : Fetch(f, o) \in NodeMessages
<1>1. \A o \in Nat : o % OffsetSpan \in Nat
  BY FwAssumption
<1> QED
  BY <1>1 DEF Find, Release, Ack, Loaded, Fetch, NodeMessages

(***************************************************************************)
(* Taking the oldest message, in either direction.                         *)
(***************************************************************************)
LEMMA TakeNode ==
  ASSUME Typed, NEW type, Receive(type)
  PROVE  /\ Head(toNode) \in ApMessages /\ Head(toNode).type = type
         /\ Head(toNode) = toNode[1] /\ Len(toNode) \in Nat \ {0}
         /\ toNode' \in Seq(ApMessages)
         /\ Len(toNode') = Len(toNode) - 1
         /\ \A i \in 1..Len(toNode') : toNode'[i] = toNode[i + 1]
<1>1. toNode \in Seq(ApMessages) /\ toNode # <<>>
  BY DEF Typed, Receive
<1>2. Len(toNode) \in Nat \ {0}
  BY <1>1, EmptySeq
<1> QED
  BY <1>1, <1>2, HeadTailProperties DEF Receive

LEMMA TakeAp ==
  ASSUME Typed, NEW type, ApTake(type)
  PROVE  /\ Head(toAp) \in NodeMessages /\ Head(toAp).type = type
         /\ Head(toAp) = toAp[1] /\ Len(toAp) \in Nat \ {0}
         /\ toAp' \in Seq(NodeMessages)
         /\ Len(toAp') = Len(toAp) - 1
         /\ \A i \in 1..Len(toAp') : toAp'[i] = toAp[i + 1]
<1>1. toAp \in Seq(NodeMessages) /\ toAp # <<>>
  BY DEF Typed, TypeOK, ApTake
<1>2. Len(toAp) \in Nat \ {0}
  BY <1>1, EmptySeq
<1> QED
  BY <1>1, <1>2, HeadTailProperties DEF ApTake

(***************************************************************************)
(* What is received or taken leaves FoundFirst as it is.                   *)
(***************************************************************************)
LEMMA ReceiveFoundFirst ==
  ASSUME Typed, NEW type, Receive(type), UNCHANGED <<priv, toAp>>
  PROVE  FoundFirst'
<1>1. \A i \in 1..Len(toNode') : i + 1 \in 1..Len(toNode) /\ toNode'[i] = toNode[i + 1]
  <2>1. Len(toNode) \in Nat \ {0} /\ Len(toNode') = Len(toNode) - 1
        /\ \A i \in 1..Len(toNode') : toNode'[i] = toNode[i + 1]
    BY TakeNode
  <2> QED
    BY <2>1
<1> QED
  BY <1>1 DEF Typed, FoundFirst

LEMMA ConcatNoFetch ==
  ASSUME NEW s \in Seq(NodeMessages), NEW t \in Seq(NodeMessages),
         \A i \in 1..Len(s) : s[i].type # "fetch",
         \A i \in 1..Len(t) : t[i].type # "fetch"
  PROVE  /\ s \o t \in Seq(NodeMessages)
         /\ \A i \in 1..Len(s \o t) : (s \o t)[i].type # "fetch"
<1>1. /\ s \o t \in Seq(NodeMessages) /\ Len(s \o t) = Len(s) + Len(t)
      /\ \A i \in 1..Len(s) + Len(t) :
           (s \o t)[i] = IF i <= Len(s) THEN s[i] ELSE t[i - Len(s)]
  BY ConcatProperties
<1>2. Len(s) \in Nat /\ Len(t) \in Nat
  BY LenProperties
<1>3. ASSUME NEW i \in 1..Len(s \o t)
      PROVE  (s \o t)[i].type # "fetch"
  <2>1. CASE i <= Len(s)
    BY <1>1, <1>2, <2>1
  <2>2. CASE ~(i <= Len(s))
    <3>1. i - Len(s) \in 1..Len(t)
      BY <1>1, <1>2, <2>2
    <3> QED
      BY <1>1, <1>2, <2>2, <3>1
  <2> QED
    BY <2>1, <2>2
<1> QED
  BY <1>1, <1>3

LEMMA PairNoFetch ==
  ASSUME NEW a \in NodeMessages, NEW b \in NodeMessages
  PROVE  /\ <<a>> \in Seq(NodeMessages) /\ <<a, b>> \in Seq(NodeMessages)
         /\ a.type # "fetch" => \A i \in 1..Len(<<a>>) : <<a>>[i].type # "fetch"
         /\ a.type # "fetch" /\ b.type # "fetch" =>
              \A i \in 1..Len(<<a, b>>) : <<a, b>>[i].type # "fetch"
<1>1. <<a>> \in Seq(NodeMessages) /\ <<a, b>> \in Seq(NodeMessages)
  OBVIOUS
<1>2. Len(<<a>>) = 1 /\ Len(<<a, b>>) = 2
  BY Short
<1>3. <<a>>[1] = a /\ <<a, b>>[1] = a /\ <<a, b>>[2] = b
  OBVIOUS
<1>4. 1..1 = {1} /\ 1..2 = {1, 2}
  OBVIOUS
<1> QED
  BY <1>1, <1>2, <1>3, <1>4

-----------------------------------------------------------------------------
(* Type correctness.                                                       *)

LEMMA InitIInv == Init => IInv
<1> SUFFICES ASSUME Init PROVE IInv
  OBVIOUS
<1> USE FwAssumption DEF Init
<1>1. <<>> \in Seq(NodeMessages) /\ <<>> \in Seq(ApMessages)
      /\ <<>> \in Seq([fw : Firmware, k : Nat]) /\ Len(<<>>) = 0
  BY EmptySeq
<1>2. TypeOK
  BY <1>1 DEF TypeOK
<1>3. FoundFirst
  BY <1>1 DEF FoundFirst
<1>4. Typed
  BY <1>1, <1>2, <1>3 DEF Typed
<1>5. FlashInOrder
  BY <1>1 DEF FlashInOrder
<1> QED
  BY <1>4, <1>5 DEF IInv, Phase, Silent

LEMMA LoadAndValidateTyped ==
  ASSUME Typed, LoadAndValidate
  PROVE  Typed'
<1> DEFINE m == Head(toNode)
<1>1. /\ m \in ApMessages /\ m.type = "load" /\ toNode' \in Seq(ApMessages)
      /\ Len(toNode) \in Nat \ {0} /\ Len(toNode') = Len(toNode) - 1
      /\ \A i \in 1..Len(toNode') : toNode'[i] = toNode[i + 1]
  BY TakeNode DEF LoadAndValidate
<1>2. m.id \in Nat /\ m.fw \in Firmware
  BY <1>1, Fields
<1> DEFINE t == IF m.unipro THEN <<Ack(TRUE), Find(m.fw)>> ELSE <<Ack(FALSE)>>
<1>3. t \in Seq(NodeMessages) /\ \A i \in 1..Len(t) : t[i].type # "fetch"
  <2>1. Ack(TRUE) \in NodeMessages /\ Ack(FALSE) \in NodeMessages /\ Find(m.fw) \in NodeMessages
    BY <1>2, Messages
  <2>2. Ack(TRUE).type # "fetch" /\ Ack(FALSE).type # "fetch" /\ Find(m.fw).type # "fetch"
    BY DEF Ack, Find
  <2> QED
    BY <2>1, <2>2, PairNoFetch
<1>4. toAp' = toAp \o t
  <2>1. CASE m.unipro
    BY <2>1 DEF LoadAndValidate
  <2>2. CASE ~m.unipro
    <3>1. toAp \in Seq(NodeMessages) /\ Ack(FALSE) \in NodeMessages
      BY Messages DEF Typed, TypeOK
    <3> QED
      BY <2>2, <3>1, AppendIsConcat DEF LoadAndValidate
  <2> QED
    BY <2>1, <2>2
<1> HIDE DEF t
<1>5. toAp' \in Seq(NodeMessages)
  BY <1>3, <1>4, ConcatProperties DEF Typed, TypeOK
<1>6. /\ priv' \in [id : Firmware \cup {None}, size : Nat, offset : Nat, req : Nat \cup {None}]
      /\ priv'.offset <= priv'.size /\ priv'.id = priv.id
  BY <1>2 DEF Typed, TypeOK, LoadAndValidate
<1>7. TypeOK'
  BY <1>5, <1>6 DEF Typed, TypeOK, LoadAndValidate, apVars
<1>8. FoundFirst'
  <2>1. CASE priv.id = None
    <3>1. \A i \in 1..Len(toAp') : toAp'[i].type # "fetch"
      BY <1>3, <1>4, <2>1, ConcatNoFetch DEF Typed, TypeOK, FoundFirst
    <3>2. \A i \in 1..Len(toNode') : toNode'[i].type # "data"
      BY <1>1, <2>1 DEF Typed, FoundFirst
    <3> QED
      BY <3>1, <3>2 DEF FoundFirst
  <2> QED
    BY <1>6, <2>1 DEF FoundFirst
<1> QED
  BY <1>1, <1>7, <1>8 DEF Typed, LoadAndValidate, apVars

LEMMA FindResponseTyped ==
  ASSUME Typed, FindResponse
  PROVE  Typed'
<1> DEFINE m == Head(toNode)
<1>1. m \in ApMessages /\ m.type = "found" /\ toNode' \in Seq(ApMessages)
  BY TakeNode DEF FindResponse
<1>2. m.ok \in BOOLEAN /\ m.fw \in Firmware /\ m.size \in Nat
  BY <1>1, Fields
<1>3. CASE m.ok
  <2>1. PICK id \in Firmware \cup {None} : toAp' = Append(toAp, Fetch(id, 0))
    BY <1>3 DEF FindResponse
  <2>2. toAp' \in Seq(NodeMessages)
    BY <2>1, Messages, AppendProperties DEF Typed, TypeOK
  <2>3. flash' \in Seq([fw : Firmware, k : Nat])
    BY <1>3, EmptySeq DEF FindResponse
  <2>4. /\ priv' \in [id : Firmware \cup {None}, size : Nat, offset : Nat, req : Nat \cup {None}]
        /\ priv'.offset <= priv'.size /\ priv'.id \in Firmware
    <3>1. priv' = [priv EXCEPT !.id = m.fw, !.size = m.size, !.offset = 0]
      BY <1>3 DEF FindResponse
    <3>2. priv \in [id : Firmware \cup {None}, size : Nat, offset : Nat, req : Nat \cup {None}]
      BY DEF Typed, TypeOK
    <3> HIDE DEF m
    <3>3. priv' = [id |-> m.fw, size |-> m.size, offset |-> 0, req |-> priv.req]
      BY <3>1, <3>2
    <3> QED
      BY <1>2, <3>2, <3>3
  <2>5. TypeOK'
    BY <2>2, <2>3, <2>4 DEF Typed, TypeOK, FindResponse, apVars
  <2>6. FoundFirst'
    BY <2>4, FwAssumption DEF FoundFirst
  <2> QED
    BY <1>1, <2>5, <2>6 DEF Typed, FindResponse, apVars
<1>4. CASE ~m.ok
  <2>1. UNCHANGED <<priv, flash, toAp, apVars>>
    BY <1>4 DEF FindResponse
  <2>2. FoundFirst'
    BY <2>1, ReceiveFoundFirst DEF FindResponse
  <2>3. TypeOK'
    BY <2>1 DEF Typed, TypeOK, apVars
  <2> QED
    BY <1>1, <2>1, <2>2, <2>3 DEF Typed, apVars
<1> QED
  BY <1>3, <1>4

LEMMA FetchRefusedTyped ==
  ASSUME Typed, FetchRefused
  PROVE  Typed'
<1>1. toNode' \in Seq(ApMessages)
  BY TakeNode DEF FetchRefused
<1>2. FoundFirst'
  BY ReceiveFoundFirst DEF FetchRefused
<1> QED
  BY <1>1, <1>2 DEF Typed, TypeOK, FetchRefused, apVars

(***************************************************************************)
(* What is common to the two outcomes of a write.                          *)
(***************************************************************************)
LEMMA DataTyped ==
  ASSUME Typed, Receive("data"), Head(toNode).ok
  PROVE  /\ toNode' \in Seq(ApMessages)
         /\ priv.id \in Firmware
         /\ Head(toNode).chunk \in [fw : Firmware, k : Nat]
         /\ CurSize \in {0, 1} /\ priv.offset + CurSize \in Nat
         /\ priv.offset + CurSize <= priv.size
         /\ NextRequest \in NodeMessages /\ Release(priv.id) \in NodeMessages
<1>1. /\ Head(toNode) \in ApMessages /\ Head(toNode).type = "data"
      /\ Head(toNode) = toNode[1] /\ Len(toNode) \in Nat \ {0}
      /\ toNode' \in Seq(ApMessages)
  BY TakeNode
<1>2. Head(toNode).chunk \in [fw : Firmware, k : Nat]
  BY <1>1, Fields
<1>3. priv.id # None
  <2>1. 1 \in 1..Len(toNode)
    BY <1>1
  <2> QED
    BY <1>1, <2>1 DEF Typed, FoundFirst
<1>4. /\ priv.id \in Firmware \cup {None} /\ priv.size \in Nat /\ priv.offset \in Nat
      /\ priv.offset <= priv.size
  BY DEF Typed, TypeOK
<1>5. /\ CurSize \in {0, 1} /\ priv.offset + CurSize \in Nat
      /\ priv.offset + CurSize <= priv.size
  BY <1>4 DEF CurSize
<1>6. NextRequest \in NodeMessages /\ Release(priv.id) \in NodeMessages
  BY <1>3, <1>4, <1>5, Messages DEF NextRequest
<1> QED
  BY <1>1, <1>2, <1>3, <1>4, <1>5, <1>6

LEMMA FetchResponseTyped ==
  ASSUME Typed, FetchResponse
  PROVE  Typed'
<1>1. /\ toNode' \in Seq(ApMessages) /\ priv.id \in Firmware
      /\ Head(toNode).chunk \in [fw : Firmware, k : Nat]
      /\ CurSize \in {0, 1} /\ priv.offset + CurSize \in Nat
      /\ priv.offset + CurSize <= priv.size /\ NextRequest \in NodeMessages
  BY DataTyped DEF FetchResponse
<1>2. PICK status \in {"validated", "failed"} :
        toAp' = Append(toAp, NextRequest)
                  \o (IF IsFinal THEN <<Loaded(priv.req, status)>> ELSE <<>>)
  BY DEF FetchResponse
<1>3. Loaded(priv.req, status) \in NodeMessages
  BY Messages DEF Typed, TypeOK
<1> DEFINE t == IF IsFinal THEN <<Loaded(priv.req, status)>> ELSE <<>>
<1>4. t \in Seq(NodeMessages)
  BY <1>3, EmptySeq
<1>5. Append(toAp, NextRequest) \in Seq(NodeMessages)
  BY <1>1, AppendProperties DEF Typed, TypeOK
<1> HIDE DEF t
<1>6. toAp' \in Seq(NodeMessages)
  BY <1>2, <1>4, <1>5, ConcatProperties DEF t
<1>7. flash' \in Seq([fw : Firmware, k : Nat])
  BY <1>1, AppendProperties DEF FetchResponse, Typed, TypeOK
<1>8. /\ priv' \in [id : Firmware \cup {None}, size : Nat, offset : Nat, req : Nat \cup {None}]
      /\ priv'.offset <= priv'.size /\ priv'.id = priv.id
  BY <1>1 DEF FetchResponse, Typed, TypeOK
<1>9. TypeOK'
  BY <1>6, <1>7, <1>8 DEF Typed, TypeOK, FetchResponse, apVars
<1>10. FoundFirst'
  BY <1>1, <1>8, FwAssumption DEF FoundFirst
<1> QED
  BY <1>1, <1>9, <1>10 DEF Typed, FetchResponse, apVars

LEMMA FetchResponseWriteFailsTyped ==
  ASSUME Typed, FetchResponseWriteFails
  PROVE  Typed'
<1>1. /\ toNode' \in Seq(ApMessages) /\ priv.id \in Firmware
      /\ CurSize \in {0, 1} /\ priv.offset + CurSize \in Nat
      /\ priv.offset + CurSize <= priv.size /\ NextRequest \in NodeMessages
      /\ Release(priv.id) \in NodeMessages
  BY DataTyped DEF FetchResponseWriteFails
<1>2. PICK id \in 0..MaxLoads :
        toAp' = Append(toAp, NextRequest) \o <<Release(priv.id), Loaded(id, "failed")>>
  BY DEF FetchResponseWriteFails
<1>3. Loaded(id, "failed") \in NodeMessages
  BY Messages, FwAssumption
<1>4. <<Release(priv.id), Loaded(id, "failed")>> \in Seq(NodeMessages)
  BY <1>1, <1>3, PairNoFetch
<1>5. Append(toAp, NextRequest) \in Seq(NodeMessages)
  BY <1>1, AppendProperties DEF Typed, TypeOK
<1>6. toAp' \in Seq(NodeMessages)
  BY <1>2, <1>4, <1>5, ConcatProperties
<1>7. /\ priv' \in [id : Firmware \cup {None}, size : Nat, offset : Nat, req : Nat \cup {None}]
      /\ priv'.offset <= priv'.size /\ priv'.id = priv.id
  BY <1>1 DEF FetchResponseWriteFails, Typed, TypeOK
<1>8. TypeOK'
  BY <1>6, <1>7 DEF Typed, TypeOK, FetchResponseWriteFails
<1>9. FoundFirst'
  BY <1>1, <1>7, FwAssumption DEF FoundFirst
<1> QED
  BY <1>1, <1>8, <1>9 DEF Typed, FetchResponseWriteFails

(***************************************************************************)
(* A step of the AP changes neither priv_data nor the flash.               *)
(***************************************************************************)
LEMMA ApTyped ==
  ASSUME Typed, UNCHANGED <<priv, flash>>,
         toAp' \in Seq(NodeMessages), toNode' \in Seq(ApMessages),
         served' \subseteq Firmware, load' \in Nat \cup {None},
         nLoads' \in Nat, disturbed' \in BOOLEAN,
         \A i \in 1..Len(toAp') : \E j \in 1..Len(toAp) : toAp'[i] = toAp[j],
         \A i \in 1..Len(toNode') :
           \/ toNode'[i].type # "data" \/ priv.id # None
           \/ \E j \in 1..Len(toNode) : toNode'[i] = toNode[j]
  PROVE  Typed'
<1>1. TypeOK'
  BY DEF Typed, TypeOK
<1>2. FoundFirst'
  BY DEF Typed, FoundFirst
<1> QED
  BY <1>1, <1>2 DEF Typed

LEMMA TakenFrom ==
  ASSUME Typed, NEW type, ApTake(type)
  PROVE  \A i \in 1..Len(toAp') : \E j \in 1..Len(toAp) : toAp'[i] = toAp[j]
<1>1. Len(toAp) \in Nat \ {0} /\ Len(toAp') = Len(toAp) - 1
      /\ \A i \in 1..Len(toAp') : toAp'[i] = toAp[i + 1]
  BY TakeAp
<1>2. ASSUME NEW i \in 1..Len(toAp')
      PROVE  \E j \in 1..Len(toAp) : toAp'[i] = toAp[j]
  <2>1. i + 1 \in 1..Len(toAp)
    BY <1>1
  <2> QED
    BY <1>1, <2>1
<1> QED
  BY <1>2

LEMMA AddedTo ==
  ASSUME Typed, NEW m \in ApMessages, toNode' = Append(toNode, m)
  PROVE  /\ toNode' \in Seq(ApMessages)
         /\ \A i \in 1..Len(toNode') :
              toNode'[i] = m \/ \E j \in 1..Len(toNode) : toNode'[i] = toNode[j]
<1>1. toNode \in Seq(ApMessages) /\ Len(toNode) \in Nat
  BY LenProperties DEF Typed
<1>2. /\ toNode' \in Seq(ApMessages) /\ Len(toNode') = Len(toNode) + 1
      /\ \A i \in 1..Len(toNode) : toNode'[i] = toNode[i]
      /\ toNode'[Len(toNode) + 1] = m
  BY <1>1, AppendProperties
<1>3. ASSUME NEW i \in 1..Len(toNode')
      PROVE  toNode'[i] = m \/ \E j \in 1..Len(toNode) : toNode'[i] = toNode[j]
  <2>1. i \in 1..Len(toNode) \/ i = Len(toNode) + 1
    BY <1>1, <1>2
  <2> QED
    BY <1>2, <2>1
<1> QED
  BY <1>2, <1>3

LEMMA ApFindTyped ==
  ASSUME Typed, NEW ok \in BOOLEAN, ApFind(ok)
  PROVE  Typed'
<1> DEFINE f == Head(toAp).fw
           m == [type |-> "found", ok |-> ok, fw |-> f, size |-> ImageSize[f]]
<1>1. Head(toAp) \in NodeMessages /\ Head(toAp).type = "find" /\ toAp' \in Seq(NodeMessages)
  BY TakeAp DEF ApFind
<1>2. f \in Firmware
  BY <1>1, NodeFields
<1>3. m \in ApMessages /\ m.type = "found"
  BY <1>2, FwAssumption DEF ApMessages
<1>4. toNode' = Append(toNode, m)
  BY DEF ApFind, ApAnswers
<1>5. UNCHANGED <<priv, flash, load, nLoads, disturbed>> /\ served' \subseteq Firmware
  BY <1>2 DEF ApFind, Typed, TypeOK
<1> HIDE DEF m, f
<1>6. /\ toNode' \in Seq(ApMessages)
      /\ \A i \in 1..Len(toNode') :
           toNode'[i] = m \/ \E j \in 1..Len(toNode) : toNode'[i] = toNode[j]
  BY <1>3, <1>4, AddedTo
<1>7. \A i \in 1..Len(toNode') :
        \/ toNode'[i].type # "data" \/ priv.id # None
        \/ \E j \in 1..Len(toNode) : toNode'[i] = toNode[j]
  BY <1>3, <1>6
<1>8. \A i \in 1..Len(toAp') : \E j \in 1..Len(toAp) : toAp'[i] = toAp[j]
  BY TakenFrom DEF ApFind
<1>9. load \in Nat \cup {None} /\ nLoads \in Nat /\ disturbed \in BOOLEAN
  BY DEF Typed, TypeOK
<1> QED
  BY <1>1, <1>5, <1>6, <1>7, <1>8, <1>9, ApTyped

LEMMA ApFetchTyped ==
  ASSUME Typed, NEW ok \in BOOLEAN, ApFetch(ok)
  PROVE  Typed'
<1> DEFINE h == Head(toAp)
<1>1. /\ h \in NodeMessages /\ h.type = "fetch" /\ h = toAp[1] /\ Len(toAp) \in Nat \ {0}
      /\ toAp' \in Seq(NodeMessages)
  BY TakeAp DEF ApFetch
<1>2. h.offset \in Nat
  BY <1>1, NodeFields
<1>3. priv.id # None
  <2>1. 1 \in 1..Len(toAp)
    BY <1>1
  <2> QED
    BY <1>1, <2>1 DEF Typed, FoundFirst
<1>4. PICK m \in ApMessages : toNode' = Append(toNode, m)
  <2>1. CASE h.fw \in served /\ h.offset < ImageSize[h.fw]
    <3>1. h.fw \in Firmware
      BY <2>1 DEF Typed, TypeOK
    <3>2. Chunk(h.fw, h.offset) \in [fw : Firmware, k : Nat]
      BY <1>2, <3>1 DEF Chunk
    <3>3. [type |-> "data", ok |-> ok, chunk |-> Chunk(h.fw, h.offset)] \in ApMessages
      BY <3>2 DEF ApMessages
    <3> QED
      BY <2>1, <3>3 DEF ApFetch, ApAnswers
  <2>2. CASE ~(h.fw \in served /\ h.offset < ImageSize[h.fw])
    <3>1. [type |-> "data", ok |-> FALSE] \in ApMessages
      BY DEF ApMessages
    <3>2. toNode' = Append(toNode, [type |-> "data", ok |-> FALSE])
      BY <2>2 DEF ApFetch
    <3> QED
      BY <3>1, <3>2
  <2> QED
    BY <2>1, <2>2
<1>5. toNode' \in Seq(ApMessages)
  BY <1>4, AddedTo
<1>6. UNCHANGED <<priv, flash, load, nLoads, disturbed, served>>
  BY DEF ApFetch
<1>7. \A i \in 1..Len(toAp') : \E j \in 1..Len(toAp) : toAp'[i] = toAp[j]
  BY TakenFrom DEF ApFetch
<1>8. /\ load \in Nat \cup {None} /\ nLoads \in Nat /\ disturbed \in BOOLEAN
      /\ served \subseteq Firmware
  BY DEF Typed, TypeOK
<1> QED
  BY <1>1, <1>3, <1>5, <1>6, <1>7, <1>8, ApTyped

LEMMA ApTakesTyped ==
  ASSUME Typed, ApAck \/ ApRelease \/ ApLoaded
  PROVE  Typed'
<1>1. PICK type \in {"ack", "release", "loaded"} : ApTake(type)
  BY DEF ApAck, ApRelease, ApLoaded
<1>2. toAp' \in Seq(NodeMessages)
  BY <1>1, TakeAp
<1>3. \A i \in 1..Len(toAp') : \E j \in 1..Len(toAp) : toAp'[i] = toAp[j]
  BY <1>1, TakenFrom
<1>4. UNCHANGED <<priv, flash, toNode, nLoads, disturbed>>
  BY DEF ApAck, ApRelease, ApLoaded
<1>5. served' \subseteq Firmware /\ load' \in Nat \cup {None}
  BY DEF ApAck, ApRelease, ApLoaded, Typed, TypeOK
<1>6. \A i \in 1..Len(toNode') : \E j \in 1..Len(toNode) : toNode'[i] = toNode[j]
  BY <1>4
<1>7. toNode' \in Seq(ApMessages) /\ nLoads' \in Nat /\ disturbed' \in BOOLEAN
  BY <1>4 DEF Typed
<1> QED
  BY <1>2, <1>3, <1>4, <1>5, <1>6, <1>7, ApTyped

LEMMA ApLoadTyped ==
  ASSUME Typed, NEW f \in Firmware, NEW unipro \in BOOLEAN, ApLoad(f, unipro)
  PROVE  Typed'
<1> DEFINE m == [type |-> "load", id |-> nLoads', fw |-> f, unipro |-> unipro]
<1>1. nLoads' \in Nat /\ load' \in Nat
  BY DEF Typed, ApLoad
<1>2. m \in ApMessages /\ m.type = "load"
  BY <1>1 DEF ApMessages
<1>3. toNode' = Append(toNode, m)
  BY DEF ApLoad
<1> HIDE DEF m
<1>4. /\ toNode' \in Seq(ApMessages)
      /\ \A i \in 1..Len(toNode') :
           toNode'[i] = m \/ \E j \in 1..Len(toNode) : toNode'[i] = toNode[j]
  BY <1>2, <1>3, AddedTo
<1>5. UNCHANGED <<priv, flash, toAp, served, disturbed>>
  BY DEF ApLoad
<1>6. \A i \in 1..Len(toAp') : \E j \in 1..Len(toAp) : toAp'[i] = toAp[j]
  BY <1>5
<1>7. toAp' \in Seq(NodeMessages) /\ served' \subseteq Firmware /\ disturbed' \in BOOLEAN
  BY <1>5 DEF Typed, TypeOK
<1>8. \A i \in 1..Len(toNode') :
        \/ toNode'[i].type # "data" \/ priv.id # None
        \/ \E j \in 1..Len(toNode) : toNode'[i] = toNode[j]
  BY <1>2, <1>4
<1> QED
  BY <1>1, <1>4, <1>5, <1>6, <1>7, <1>8, ApTyped

LEMMA ApGivesUpTyped ==
  ASSUME Typed, ApGivesUp
  PROVE  Typed'
<1>1. disturbed' \in BOOLEAN
  BY DEF Typed, ApGivesUp
<1>2. UNCHANGED <<priv, flash, toAp, toNode, nLoads>> /\ served' = {} /\ load' = None
  BY DEF ApGivesUp
<1>3. TypeOK'
  BY <1>2 DEF Typed, TypeOK
<1> QED
  BY <1>1, <1>2, <1>3 DEF Typed, FoundFirst

-----------------------------------------------------------------------------
(* An undisturbed load goes from phase to phase.                           *)

Undisturbed == IInv /\ ~disturbed

Ordered == FlashInOrder /\ Phase /\ (load = None => served = {})

(***************************************************************************)
(* The message received tells the phase.                                   *)
(***************************************************************************)
LEMMA NodePhase ==
  ASSUME Undisturbed, NEW type, Receive(type)
  PROVE  /\ toAp = <<>> /\ toNode' = <<>> /\ Head(toNode) = toNode[1]
         /\ type = "load" => Asked
         /\ type = "found" => Found
         /\ type = "data" => Answered
<1>1. Typed /\ Phase /\ toNode # <<>> /\ Head(toNode).type = type /\ toNode' = Tail(toNode)
  BY DEF Undisturbed, IInv, Receive
<1>2. Asked \/ Found \/ Answered
  BY <1>1 DEF Phase, Silent, Declined, Finding, Fetching, Done
<1>3. toAp = <<>> /\ Len(toNode) = 1 /\ toNode[1].type \in {"load", "found", "data"}
  BY <1>2 DEF Asked, Found, Answered
<1>4. toNode \in Seq(ApMessages)
  BY <1>1 DEF Typed
<1>5. Head(toNode) = toNode[1] /\ toNode' = <<>>
  BY <1>1, <1>3, <1>4, OneLong
<1>6. /\ Asked => type = "load"
      /\ Found => type = "found"
      /\ Answered => type = "data"
  BY <1>1, <1>5 DEF Asked, Found, Answered
<1> QED
  BY <1>2, <1>3, <1>5, <1>6

LEMMA ApPhase ==
  ASSUME Undisturbed, NEW type, ApTake(type)
  PROVE  /\ toNode = <<>>
         /\ type = "ack" => Declined \/ Finding
         /\ type = "find" => Finding
         /\ type = "fetch" => Fetching
         /\ type \in {"release", "loaded"} => Done
<1>1. Phase /\ toAp # <<>> /\ Head(toAp).type = type
  BY DEF Undisturbed, IInv, ApTake
<1>2. Declined \/ Finding \/ Fetching \/ Done
  BY <1>1 DEF Phase, Silent, Asked, Found, Answered
<1>3. Declined => type = "ack"
  <2>1. Declined => Head(toAp) = Ack(FALSE)
    BY Short DEF Declined
  <2> QED
    BY <1>1, <2>1 DEF Ack
<1>4. Finding => type \in {"ack", "find"}
  <2>1. Finding => \E f \in Firmware : Head(toAp) = Ack(TRUE) \/ Head(toAp) = Find(f)
    <3>1. Head(<<Ack(TRUE)>>) = Ack(TRUE) /\ \A f \in Firmware : /\ Head(<<Find(f)>>) = Find(f)
                                                              /\ Head(<<Ack(TRUE), Find(f)>>) = Ack(TRUE)
      BY Short
    <3> QED
      BY <3>1 DEF Finding
  <2>2. Ack(TRUE).type = "ack" /\ \A f \in Firmware : Find(f).type = "find"
    BY DEF Ack, Find
  <2> QED
    BY <1>1, <2>1, <2>2
<1>5. Fetching => type = "fetch"
  <2>1. Fetching => \E id \in Firmware \cup {None} : Head(toAp) = Fetch(id, priv.offset)
    BY Short DEF Fetching
  <2> QED
    BY <1>1, <2>1 DEF Fetch
<1>6. Done => type \in {"release", "loaded"}
  <2>1. Done => \E st \in {"validated", "failed"} :
                  Head(toAp) \in {Release(priv.id), Loaded(load, st)}
    BY Short DEF Done
  <2> QED
    BY <1>1, <2>1 DEF Release, Loaded
<1>7. toNode = <<>>
  BY <1>2 DEF Declined, Finding, Fetching, Done
<1> QED
  BY <1>2, <1>3, <1>4, <1>5, <1>6, <1>7

LEMMA LoadAndValidateOrdered ==
  ASSUME Undisturbed, LoadAndValidate
  PROVE  Ordered' /\ (Finding \/ Declined)'
<1>1. Asked /\ toAp = <<>> /\ toNode' = <<>> /\ Head(toNode) = toNode[1]
  BY NodePhase DEF LoadAndValidate
<1>2. /\ Head(toNode) \in ApMessages /\ Head(toNode).type = "load"
  BY TakeNode DEF LoadAndValidate, Undisturbed, IInv
<1>3. Head(toNode).fw \in Firmware /\ Head(toNode).id = load
  BY <1>1, <1>2, Fields DEF Asked
<1>4. UNCHANGED <<flash, served, load, nLoads>>
  BY DEF LoadAndValidate, apVars
<1>5. /\ priv \in [id : Firmware \cup {None}, size : Nat, offset : Nat, req : Nat \cup {None}]
  BY DEF Undisturbed, IInv, Typed, TypeOK
<1>6. (Finding \/ Declined)'
  <2>1. CASE Head(toNode).unipro
    <3>1. toAp' = <<Ack(TRUE), Find(Head(toNode).fw)>>
      <4>1. toAp' = <<>> \o <<Ack(TRUE), Find(Head(toNode).fw)>>
        BY <1>1, <2>1 DEF LoadAndValidate
      <4> QED
        BY <4>1, Short
    <3>2. priv'.req = load
      BY <1>3, <1>5, <2>1 DEF LoadAndValidate
    <3>3. Finding'
      BY <1>1, <1>3, <1>4, <3>1, <3>2 DEF Asked, Finding, Serving
    <3> QED
      BY <3>3
  <2>2. CASE ~Head(toNode).unipro
    <3>1. toAp' = <<Ack(FALSE)>>
      BY <1>1, <2>2, Short DEF LoadAndValidate
    <3>2. Declined'
      BY <1>1, <1>4, <3>1 DEF Asked, Declined, Ack
    <3> QED
      BY <3>2
  <2> QED
    BY <2>1, <2>2
<1>7. priv'.id = priv.id
  BY <1>5 DEF LoadAndValidate
<1>8. FlashInOrder'
  BY <1>4, <1>7 DEF Undisturbed, IInv, FlashInOrder, Chunk
<1> QED
  BY <1>1, <1>4, <1>6, <1>8 DEF Ordered, Phase, Asked

LEMMA FindResponseOrdered ==
  ASSUME Undisturbed, FindResponse
  PROVE  Ordered' /\ (Fetching \/ Silent)'
<1> DEFINE m == Head(toNode)
<1>1. Found /\ toAp = <<>> /\ toNode' = <<>> /\ m = toNode[1]
  BY NodePhase DEF FindResponse
<1>2. m \in ApMessages /\ m.type = "found"
  BY TakeNode DEF FindResponse, Undisturbed, IInv
<1>3. m.fw \in Firmware /\ m.ok \in BOOLEAN
  BY <1>2, Fields
<1>4. UNCHANGED <<served, load, nLoads>>
  BY DEF FindResponse, apVars
<1>5. load # None
  BY <1>1 DEF Found, Serving
<1>6. CASE m.ok
  <2>1. /\ priv' = [priv EXCEPT !.id = m.fw, !.size = m.size, !.offset = 0]
        /\ flash' = <<>>
    BY <1>6 DEF FindResponse
  <2>2. priv \in [id : Firmware \cup {None}, size : Nat, offset : Nat, req : Nat \cup {None}]
    BY DEF Undisturbed, IInv, Typed, TypeOK
  <2>3. served = {m.fw} /\ m.size = ImageSize[m.fw]
    BY <1>1, <1>6 DEF Found
  <2>4. PICK id \in Firmware \cup {None} : toAp' = Append(toAp, Fetch(id, 0))
    BY <1>6 DEF FindResponse
  <2>5. toAp' = <<Fetch(id, 0)>>
    BY <1>1, <2>4, Short
  <2> HIDE DEF m
  <2>6. priv' = [id |-> m.fw, size |-> m.size, offset |-> 0, req |-> priv.req]
    BY <2>1, <2>2
  <2>7. InImage'
    BY <1>1, <1>3, <1>4, <2>1, <2>3, <2>6 DEF InImage, Found, Serving
  <2>8. Fetching'
    BY <1>1, <2>5, <2>6, <2>7 DEF Fetching
  <2>9. FlashInOrder'
    BY <2>1 DEF FlashInOrder
  <2> QED
    BY <1>4, <1>5, <2>8, <2>9 DEF Ordered, Phase
<1>7. CASE ~m.ok
  <2>1. UNCHANGED <<priv, flash, toAp>>
    BY <1>7 DEF FindResponse
  <2>2. Silent'
    BY <1>1, <2>1 DEF Silent
  <2>3. FlashInOrder'
    BY <2>1 DEF Undisturbed, IInv, FlashInOrder, Chunk
  <2> QED
    BY <1>4, <1>5, <2>2, <2>3 DEF Ordered, Phase
<1> QED
  BY <1>3, <1>6, <1>7

LEMMA FetchRefusedOrdered ==
  ASSUME Undisturbed, FetchRefused
  PROVE  Ordered'
<1>1. Answered /\ toAp = <<>> /\ toNode' = <<>>
  BY NodePhase DEF FetchRefused
<1>2. UNCHANGED <<priv, flash, toAp, served, load, nLoads>>
  BY DEF FetchRefused, apVars
<1>3. Silent'
  BY <1>1, <1>2 DEF Silent
<1>4. FlashInOrder'
  BY <1>2 DEF Undisturbed, IInv, FlashInOrder, Chunk
<1> QED
  BY <1>1, <1>2, <1>3, <1>4 DEF Ordered, Phase, Answered, InImage, Serving

LEMMA FetchResponseOrdered ==
  ASSUME Undisturbed, FetchResponse
  PROVE  /\ Ordered' /\ InImage
         /\ IsFinal => Done' /\ Len(flash') = ImageSize[priv.id]
         /\ ~IsFinal => Fetching'
<1> DEFINE m == Head(toNode)
<1>1. Answered /\ toAp = <<>> /\ toNode' = <<>> /\ m = toNode[1] /\ m.ok
  BY NodePhase DEF FetchResponse
<1>2. InImage /\ m.chunk = Chunk(priv.id, priv.offset) /\ priv.offset < priv.size
  BY <1>1 DEF Answered
<1>3. UNCHANGED <<served, load, nLoads>>
  BY DEF FetchResponse, apVars
<1>4. /\ priv \in [id : Firmware \cup {None}, size : Nat, offset : Nat, req : Nat \cup {None}]
      /\ flash \in Seq([fw : Firmware, k : Nat]) /\ load \in Nat \cup {None}
      /\ priv.id \in Firmware /\ load # None /\ load \in Nat /\ priv.req = load
  BY <1>2 DEF Undisturbed, IInv, Typed, TypeOK, InImage, Serving
<1>5. CurSize = 1
  BY <1>2 DEF CurSize
<1>6. flash' = Append(flash, Chunk(priv.id, priv.offset)) /\ priv.offset = Len(flash)
  BY <1>2, <1>5 DEF FetchResponse, InImage
<1>7. Chunk(priv.id, priv.offset) \in [fw : Firmware, k : Nat]
  BY <1>4 DEF Chunk
<1>8. /\ Len(flash) \in Nat /\ Len(flash') = priv.offset + 1
      /\ \A k \in 1..Len(flash) : flash'[k] = flash[k]
      /\ flash'[Len(flash) + 1] = Chunk(priv.id, priv.offset)
  BY <1>4, <1>6, <1>7, AppendProperties, LenProperties
<1>9. priv' = [id |-> priv.id, size |-> priv.size, offset |-> priv.offset + 1,
               req |-> IF IsFinal THEN None ELSE priv.req]
  BY <1>4, <1>5 DEF FetchResponse
<1>10. FlashInOrder'
  <2>1. \A k \in 1..Len(flash) : flash[k] = Chunk(priv.id, k - 1)
    BY DEF Undisturbed, IInv, FlashInOrder
  <2>2. ASSUME NEW k \in 1..Len(flash')
        PROVE  flash'[k] = Chunk(priv.id, k - 1)
    <3>1. CASE k \in 1..Len(flash)
      BY <1>8, <2>1, <3>1
    <3>2. CASE k = Len(flash) + 1
      BY <1>6, <1>8, <3>2
    <3> QED
      BY <1>6, <1>8, <3>1, <3>2
  <2> QED
    BY <1>9, <2>2 DEF FlashInOrder, Chunk
<1>11. PICK status \in {"validated", "failed"} :
         toAp' = Append(toAp, NextRequest)
                   \o (IF IsFinal THEN <<Loaded(priv.req, status)>> ELSE <<>>)
  BY DEF FetchResponse
<1>12. Append(toAp, NextRequest) = <<NextRequest>>
  BY <1>1, Short
<1>13. CASE IsFinal
  <2>1. NextRequest = Release(priv.id)
    BY <1>13 DEF NextRequest
  <2>2. toAp' = <<Release(priv.id)>> \o <<Loaded(load, status)>>
    BY <1>4, <1>11, <1>12, <1>13, <2>1
  <2>3. toAp' = <<Release(priv.id), Loaded(load, status)>>
    BY <2>2, Short
  <2>4. Done'
    BY <1>1, <1>2, <1>3, <1>4, <1>9, <2>3 DEF Done, InImage, Release, Loaded
  <2>5. Len(flash') = ImageSize[priv.id]
    BY <1>2, <1>4, <1>5, <1>8, <1>13 DEF IsFinal, InImage
  <2>6. load' # None /\ Phase'
    BY <1>3, <1>4, <2>4 DEF Phase
  <2>7. Ordered'
    BY <1>10, <2>6 DEF Ordered
  <2> QED
    BY <1>2, <1>13, <2>4, <2>5, <2>7
<1>14. CASE ~IsFinal
  <2>1. NextRequest = Fetch(priv.id, priv.offset + 1) /\ priv.offset + 1 < priv.size
    BY <1>4, <1>5, <1>14 DEF NextRequest, IsFinal
  <2>2. toAp' = <<NextRequest>>
    BY <1>11, <1>12, <1>14, Short
  <2>3. InImage'
    BY <1>2, <1>3, <1>8, <1>9, <1>14 DEF InImage, Serving
  <2>4. \E id \in Firmware \cup {None} : toAp' = <<Fetch(id, priv.offset + 1)>>
    BY <1>4, <2>1, <2>2
  <2>5. Fetching'
    BY <1>1, <1>9, <2>1, <2>3, <2>4 DEF Fetching, Fetch
  <2> QED
    BY <1>2, <1>3, <1>4, <1>10, <1>14, <2>5 DEF Ordered, Phase
<1> QED
  BY <1>13, <1>14

LEMMA ApFindOrdered ==
  ASSUME Undisturbed, NEW ok \in BOOLEAN, ApFind(ok)
  PROVE  Ordered'
<1>1. Finding /\ toNode = <<>>
  BY ApPhase DEF ApFind
<1>2. PICK f \in Firmware : toAp = <<Ack(TRUE), Find(f)>> \/ toAp = <<Find(f)>>
  BY <1>1 DEF Finding
<1>3. toAp = <<Find(f)>>
  <2>1. Head(toAp).type = "find"
    BY DEF ApFind, ApTake
  <2>2. toAp = <<Ack(TRUE), Find(f)>> => Head(toAp) = Ack(TRUE)
    BY Short
  <2>3. Ack(TRUE).type = "ack"
    BY DEF Ack
  <2> QED
    BY <1>2, <2>1, <2>2, <2>3
<1>4. Head(toAp) = Find(f) /\ toAp' = <<>>
  BY <1>3, Short DEF ApFind, ApTake
<1>5. Head(toAp).fw = f
  BY <1>4 DEF Find
<1> DEFINE m == [type |-> "found", ok |-> ok, fw |-> f, size |-> ImageSize[f]]
<1>6. toNode' = Append(toNode, m)
  BY <1>5 DEF ApFind, ApAnswers
<1> HIDE DEF m
<1>7. toNode' = <<m>>
  BY <1>1, <1>6, Short
<1>8. UNCHANGED <<priv, flash, load, nLoads>> /\ served' = IF ok THEN served \cup {f} ELSE served
  BY <1>5 DEF ApFind
<1>9. m.type = "found" /\ m.ok = ok /\ m.fw = f /\ m.size = ImageSize[f]
  BY DEF m
<1>10. Len(toNode') = 1 /\ toNode'[1] = m
  BY <1>7, Short
<1>11. Found'
  BY <1>1, <1>4, <1>8, <1>9, <1>10 DEF Found, Finding, Serving
<1>12. FlashInOrder'
  BY <1>8 DEF Undisturbed, IInv, FlashInOrder, Chunk
<1> QED
  BY <1>1, <1>8, <1>11, <1>12 DEF Ordered, Phase, Finding, Serving

(***************************************************************************)
(* The AP answers with the chunk it is asked for, whose offset has not     *)
(* wrapped.                                                                *)
(***************************************************************************)
LEMMA ApFetchOrdered ==
  ASSUME SmallEnough, Undisturbed, NEW ok \in BOOLEAN, ApFetch(ok)
  PROVE  Ordered'
<1>1. Fetching /\ toNode = <<>>
  BY ApPhase DEF ApFetch
<1>2. PICK id \in Firmware \cup {None} : toAp = <<Fetch(id, priv.offset)>>
  BY <1>1 DEF Fetching
<1>3. Head(toAp) = Fetch(id, priv.offset) /\ toAp' = <<>>
  BY <1>2, Short DEF ApFetch, ApTake
<1>4. /\ priv.id \in Firmware /\ priv.offset \in Nat /\ priv.size = ImageSize[priv.id]
      /\ ImageSize[priv.id] \in Nat /\ ImageSize[priv.id] <= OffsetSpan
      /\ served = {priv.id}
  BY <1>1, FwAssumption DEF Fetching, InImage, Undisturbed, IInv, Typed, TypeOK, SmallEnough
<1>5. priv.offset % OffsetSpan = priv.offset
  <2>1. priv.offset \in 0..OffsetSpan - 1
    BY <1>1, <1>4, FwAssumption DEF Fetching
  <2> QED
    BY <2>1, FwAssumption
<1>6. Head(toAp).fw = id /\ Head(toAp).offset = priv.offset
  BY <1>3, <1>5 DEF Fetch
<1>7. PICK m : /\ toNode' = Append(toNode, m) /\ m.type = "data"
               /\ m.ok => m.chunk = Chunk(priv.id, priv.offset) /\ priv.offset < priv.size
  <2>1. CASE id \in served /\ priv.offset < ImageSize[id]
    <3>1. id = priv.id
      BY <1>4, <2>1
    <3>2. toNode' = Append(toNode, [type |-> "data", ok |-> ok, chunk |-> Chunk(priv.id, priv.offset)])
      BY <1>6, <2>1, <3>1 DEF ApFetch, ApAnswers
    <3> QED
      BY <1>4, <2>1, <3>1, <3>2
  <2>2. CASE ~(id \in served /\ priv.offset < ImageSize[id])
    <3>1. toNode' = Append(toNode, [type |-> "data", ok |-> FALSE])
      BY <1>6, <2>2 DEF ApFetch
    <3> QED
      BY <3>1
  <2> QED
    BY <2>1, <2>2
<1>8. toNode' = <<m>> /\ Len(toNode') = 1 /\ toNode'[1] = m
  BY <1>1, <1>7, Short
<1>9. UNCHANGED <<priv, flash, served, load, nLoads>>
  BY DEF ApFetch
<1>10. Answered'
  BY <1>1, <1>3, <1>7, <1>8, <1>9 DEF Answered, Fetching, InImage, Serving, Chunk
<1>11. FlashInOrder'
  BY <1>9 DEF Undisturbed, IInv, FlashInOrder, Chunk
<1> QED
  BY <1>1, <1>9, <1>10, <1>11 DEF Ordered, Phase, Fetching, InImage, Serving

LEMMA ApAckOrdered ==
  ASSUME Undisturbed, ApAck
  PROVE  Ordered'
<1>1. Declined \/ Finding
  BY ApPhase DEF ApAck
<1>2. UNCHANGED <<priv, flash, toNode, served, nLoads>>
  BY DEF ApAck
<1>3. FlashInOrder'
  BY <1>2 DEF Undisturbed, IInv, FlashInOrder, Chunk
<1>4. toAp' = Tail(toAp) /\ Head(toAp).type = "ack"
      /\ load' = IF Head(toAp).ok THEN load ELSE None
  BY DEF ApAck, ApTake
<1>5. CASE Declined
  <2>1. Head(toAp) = Ack(FALSE) /\ toAp' = <<>>
    BY <1>4, <1>5, Short DEF Declined
  <2>2. load' = None
    BY <1>4, <2>1 DEF Ack
  <2> QED
    BY <1>2, <1>3, <1>5, <2>1, <2>2 DEF Ordered, Phase, Silent, Declined
<1>6. CASE Finding
  <2>1. PICK f \in Firmware : toAp = <<Ack(TRUE), Find(f)>> \/ toAp = <<Find(f)>>
    BY <1>6 DEF Finding
  <2>2. toAp # <<Find(f)>>
    <3>1. toAp = <<Find(f)>> => Head(toAp) = Find(f)
      BY Short
    <3>2. Find(f).type = "find"
      BY DEF Find
    <3> QED
      BY <1>4, <3>1, <3>2
  <2>3. Head(toAp) = Ack(TRUE) /\ toAp' = <<Find(f)>>
    <3>1. toAp = <<Ack(TRUE), Find(f)>>
      BY <2>1, <2>2
    <3>2. Head(<<Ack(TRUE), Find(f)>>) = Ack(TRUE) /\ Tail(<<Ack(TRUE), Find(f)>>) = <<Find(f)>>
      BY Short
    <3> QED
      BY <1>4, <3>1, <3>2
  <2>4. load' = load
    BY <1>4, <2>3 DEF Ack
  <2>5. Finding'
    BY <1>2, <1>6, <2>3, <2>4 DEF Finding, Serving, Find
  <2> QED
    BY <1>3, <1>6, <2>4, <2>5 DEF Ordered, Phase, Finding, Serving
<1> QED
  BY <1>1, <1>5, <1>6

LEMMA ApReleaseOrdered ==
  ASSUME Undisturbed, ApRelease
  PROVE  Ordered'
<1>1. Done
  BY ApPhase DEF ApRelease
<1>2. UNCHANGED <<priv, flash, toNode, load, nLoads>>
  BY DEF ApRelease
<1>3. PICK st \in {"validated", "failed"} :
        \/ served \subseteq {priv.id} /\ toAp = <<Release(priv.id), Loaded(load, st)>>
        \/ served = {} /\ toAp = <<Loaded(load, st)>>
  BY <1>1 DEF Done
<1>4. Head(toAp).type = "release" /\ toAp' = Tail(toAp) /\ served' = served \ {Head(toAp).fw}
  BY DEF ApRelease, ApTake
<1>5. toAp # <<Loaded(load, st)>>
  <2>1. toAp = <<Loaded(load, st)>> => Head(toAp) = Loaded(load, st)
    BY Short
  <2>2. Loaded(load, st).type = "loaded"
    BY DEF Loaded
  <2> QED
    BY <1>4, <2>1, <2>2
<1>6. Head(toAp) = Release(priv.id) /\ toAp' = <<Loaded(load, st)>>
  <2> DEFINE s == <<Release(priv.id), Loaded(load, st)>>
  <2>1. toAp = s
    BY <1>3, <1>5
  <2>2. Head(s) = Release(priv.id) /\ Tail(s) = <<Loaded(load, st)>>
    BY Short
  <2> QED
    BY <1>4, <2>1, <2>2
<1>7. served' = {}
  BY <1>3, <1>4, <1>5, <1>6 DEF Release
<1>8. Done'
  BY <1>1, <1>2, <1>6, <1>7 DEF Done, Loaded, Release
<1>9. FlashInOrder'
  BY <1>2 DEF Undisturbed, IInv, FlashInOrder, Chunk
<1> QED
  BY <1>7, <1>8, <1>9 DEF Ordered, Phase

LEMMA ApLoadedOrdered ==
  ASSUME Undisturbed, ApLoaded
  PROVE  Ordered'
<1>1. Done
  BY ApPhase DEF ApLoaded
<1>2. UNCHANGED <<priv, flash, toNode, served, nLoads>>
  BY DEF ApLoaded
<1>3. PICK st \in {"validated", "failed"} :
        \/ served \subseteq {priv.id} /\ toAp = <<Release(priv.id), Loaded(load, st)>>
        \/ served = {} /\ toAp = <<Loaded(load, st)>>
  BY <1>1 DEF Done
<1>4. /\ Head(toAp).type = "loaded" /\ toAp' = Tail(toAp)
      /\ load' = IF Head(toAp).id = load THEN None ELSE load
  BY DEF ApLoaded, ApTake
<1>5. toAp # <<Release(priv.id), Loaded(load, st)>>
  <2>1. toAp = <<Release(priv.id), Loaded(load, st)>> => Head(toAp) = Release(priv.id)
    BY Short
  <2>2. Release(priv.id).type = "release"
    BY DEF Release
  <2> QED
    BY <1>4, <2>1, <2>2
<1>6. Head(toAp) = Loaded(load, st) /\ toAp' = <<>> /\ served = {}
  BY <1>3, <1>4, <1>5, Short
<1>7. Silent'
  BY <1>1, <1>2, <1>6 DEF Done, Silent
<1>8. FlashInOrder'
  BY <1>2 DEF Undisturbed, IInv, FlashInOrder, Chunk
<1> QED
  BY <1>2, <1>6, <1>7, <1>8 DEF Ordered, Phase

LEMMA ApLoadOrdered ==
  ASSUME Undisturbed, NEW f \in Firmware, NEW unipro \in BOOLEAN, ApLoad(f, unipro)
  PROVE  Ordered'
<1> DEFINE m == [type |-> "load", id |-> nLoads', fw |-> f, unipro |-> unipro]
<1>1. load = None /\ nLoads' \in Nat /\ load' = nLoads' /\ load' # None
  BY FwAssumption DEF ApLoad, Undisturbed, IInv, Typed
<1>2. Silent /\ served = {}
  <2>1. Silent
    BY <1>1 DEF Undisturbed, IInv, Phase, Asked, Declined, Finding, Found, Fetching,
                Answered, Done, InImage, Serving
  <2> QED
    BY <1>1, <2>1 DEF Undisturbed, IInv
<1>3. UNCHANGED <<priv, flash, toAp, served>> /\ toNode' = Append(toNode, m)
  BY DEF ApLoad
<1>4. m.type = "load" /\ m.id = nLoads'
  OBVIOUS
<1> HIDE DEF m
<1>5. toNode' = <<m>> /\ Len(toNode') = 1 /\ toNode'[1] = m
  BY <1>2, <1>3, Short DEF Silent
<1>6. Asked'
  BY <1>1, <1>2, <1>3, <1>4, <1>5 DEF Asked, Silent
<1>7. FlashInOrder'
  BY <1>3 DEF Undisturbed, IInv, FlashInOrder, Chunk
<1> QED
  BY <1>2, <1>3, <1>6, <1>7 DEF Ordered, Phase

LEMMA ApGivesUpOrdered ==
  ASSUME Undisturbed, ApGivesUp, ~disturbed'
  PROVE  Ordered'
<1>1. UNCHANGED <<priv, flash, toNode, toAp>> /\ toNode = <<>> /\ toAp = <<>> /\ served' = {}
  BY DEF ApGivesUp, Undisturbed
<1>2. Silent'
  BY <1>1 DEF Silent
<1>3. FlashInOrder'
  BY <1>1 DEF Undisturbed, IInv, FlashInOrder, Chunk
<1> QED
  BY <1>1, <1>2, <1>3 DEF Ordered, Phase

(***************************************************************************)
(* Every step keeps the types, and the order of an undisturbed load.       *)
(***************************************************************************)
LEMMA NextTyped == Typed /\ [Next]_vars => Typed'
<1> SUFFICES ASSUME Typed, [Next]_vars PROVE Typed'
  OBVIOUS
<1>1. CASE Node
  BY <1>1, LoadAndValidateTyped, FindResponseTyped, FetchRefusedTyped, FetchResponseTyped,
     FetchResponseWriteFailsTyped DEF Node
<1>2. CASE ApServes
  BY <1>2, ApFindTyped, ApFetchTyped, ApTakesTyped DEF ApServes
<1>3. CASE ApGivesUp
  BY <1>3, ApGivesUpTyped
<1>4. ASSUME NEW f \in Firmware, NEW unipro \in BOOLEAN, ApLoad(f, unipro)
      PROVE  Typed'
  BY <1>4, ApLoadTyped
<1>5. CASE UNCHANGED vars
  BY <1>5 DEF vars, Typed, TypeOK, FoundFirst
<1> QED
  BY <1>1, <1>2, <1>3, <1>4, <1>5 DEF Next

LEMMA NextOrdered ==
  ASSUME SmallEnough, Undisturbed, [Next]_vars, ~disturbed'
  PROVE  Ordered'
<1>1. CASE Node
  <2>1. ~FetchResponseWriteFails
    BY DEF FetchResponseWriteFails
  <2> QED
    BY <1>1, <2>1, LoadAndValidateOrdered, FindResponseOrdered, FetchRefusedOrdered,
       FetchResponseOrdered DEF Node
<1>2. CASE ApServes
  BY <1>2, ApFindOrdered, ApFetchOrdered, ApAckOrdered, ApReleaseOrdered, ApLoadedOrdered
     DEF ApServes
<1>3. CASE ApGivesUp
  BY <1>3, ApGivesUpOrdered
<1>4. ASSUME NEW f \in Firmware, NEW unipro \in BOOLEAN, ApLoad(f, unipro)
      PROVE  Ordered'
  BY <1>4, ApLoadOrdered
<1>5. CASE UNCHANGED vars
  <2>1. UNCHANGED <<priv, flash, toNode, toAp, served, load, nLoads, disturbed>>
    BY <1>5 DEF vars
  <2>2. Phase'
    BY <2>1 DEF Undisturbed, IInv, Phase, Silent, Asked, Declined, Finding, Found, Fetching,
                Answered, Done, InImage, Serving, Ack, Find, Fetch, Release, Loaded, Chunk
  <2> QED
    BY <2>1, <2>2 DEF Undisturbed, IInv, Ordered, FlashInOrder, Chunk
<1> QED
  BY <1>1, <1>2, <1>3, <1>4, <1>5 DEF Next

LEMMA NextIInv == SmallEnough /\ IInv /\ [Next]_vars => IInv'
<1> SUFFICES ASSUME SmallEnough, IInv, [Next]_vars PROVE IInv'
  OBVIOUS
<1>1. Typed'
  BY NextTyped DEF IInv
<1>2. ASSUME ~disturbed' PROVE Ordered'
  <2>1. ~disturbed
    <3>1. disturbed => disturbed'
      BY DEF Next, Node, ApServes, LoadAndValidate, FindResponse, FetchRefused, FetchResponse,
             FetchResponseWriteFails, ApFind, ApFetch, ApAck, ApRelease, ApLoaded, ApGivesUp,
             ApLoad, apVars, vars
    <3> QED
      BY <1>2, <3>1
  <2> QED
    BY <1>2, <2>1, NextOrdered DEF Undisturbed
<1> QED
  BY <1>1, <1>2 DEF IInv, Ordered

-----------------------------------------------------------------------------
(* Theorems                                                                *)

(***************************************************************************)
(* Variables keep their types, whatever fails or is given up: the offset   *)
(* stays within the image, and nothing is fetched for no firmware.         *)
(***************************************************************************)
THEOREM TypeCorrect == Spec => []TypeOK
<1>1. Init => Typed
  BY InitIInv DEF IInv
<1>2. Typed /\ [Next]_vars => Typed'
  BY NextTyped
<1>3. Typed => TypeOK
  BY DEF Typed
<1> QED
  BY <1>1, <1>2, <1>3, PTL DEF Spec, SafeSpec

(***************************************************************************)
(* Every reachable state of a load that nothing disturbed is in a phase.   *)
(***************************************************************************)
THEOREM Invariance ==
  ASSUME SmallEnough
  PROVE  Spec => []IInv
<1>1. Init => IInv
  BY InitIInv
<1>2. IInv /\ [Next]_vars => IInv'
  BY SmallEnough, NextIInv
<1> QED
  BY <1>1, <1>2, PTL DEF Spec, SafeSpec

(***************************************************************************)
(* The chunks of an image reach the flash in order and belong to the image *)
(* being fetched, for images of any size that a 16-bit offset can address. *)
(***************************************************************************)
THEOREM ChunksInOrder ==
  ASSUME SmallEnough
  PROVE  Spec => []FlashInOrder
<1>1. IInv => FlashInOrder
  BY DEF IInv, FlashInOrder
<1>2. Spec => []IInv
  BY SmallEnough, Invariance
<1> QED
  BY <1>1, <1>2, PTL

(***************************************************************************)
(* The node asks for nothing after the release of a firmware.              *)
(***************************************************************************)
THEOREM NothingAfterRelease ==
  ASSUME SmallEnough
  PROVE  Spec => []ReleaseIsLast
<1>1. IInv => ReleaseIsLast
  <2> SUFFICES ASSUME IInv, ~disturbed, NEW i \in 1..Len(toAp), NEW j \in 1..Len(toAp),
                      i < j, toAp[i].type = "release"
               PROVE  toAp[j].type = "loaded" /\ toAp[j].id # None
    BY DEF ReleaseIsLast
  <2>1. Phase
    BY DEF IInv
  <2>2. Len(toAp) >= 2 /\ Len(toAp) # 1 /\ toAp # <<>>
    <3>1. Len(toAp) \in Nat /\ Len(<<>>) = 0
      BY LenProperties, EmptySeq DEF IInv, Typed, TypeOK
    <3>2. Len(toAp) >= 2
      BY <3>1
    <3>3. toAp = <<>> => Len(toAp) = 0
      BY <3>1, Zenon
    <3>4. Len(toAp) # 0 /\ Len(toAp) # 1
      BY SMTT(20), <3>1, <3>2
    <3> QED
      BY <3>2, <3>3, <3>4, Zenon
  <2>3. Finding \/ Done
    <3>1. Declined => FALSE
      BY <2>2, Lengths DEF Declined
    <3>2. Fetching => FALSE
      BY <2>2, Lengths DEF Fetching
    <3> QED
      BY <2>1, <2>2, <3>1, <3>2 DEF Phase, Silent, Asked, Found, Answered
  <2>4. CASE Finding
    <3>1. PICK f \in Firmware : toAp = <<Ack(TRUE), Find(f)>> \/ toAp = <<Find(f)>>
      BY <2>4 DEF Finding
    <3>2. toAp = <<Ack(TRUE), Find(f)>>
      BY <2>2, <3>1, Lengths
    <3>3. Len(toAp) = 2
      BY <3>2, Lengths
    <3>4. toAp[1].type = "ack" /\ toAp[2].type = "find"
      BY <3>2 DEF Ack, Find
    <3>5. i = 1
      BY <3>3
    <3> QED
      BY <3>4, <3>5
  <2>5. CASE Done
    <3>1. PICK st \in {"validated", "failed"} :
            toAp = <<Release(priv.id), Loaded(load, st)>> \/ toAp = <<Loaded(load, st)>>
      BY <2>5 DEF Done
    <3>2. toAp = <<Release(priv.id), Loaded(load, st)>>
      BY <2>2, <3>1, Lengths
    <3>3. toAp[2].type = "loaded" /\ toAp[2].id = load
      BY <3>2 DEF Loaded
    <3>4. Len(toAp) = 2
      BY <3>2, Lengths
    <3>5. j = 2
      BY <3>4
    <3> QED
      BY <2>5, <3>3, <3>5 DEF Done
  <2> QED
    BY <2>3, <2>4, <2>5
<1>2. Spec => []IInv
  BY SmallEnough, Invariance
<1> QED
  BY <1>1, <1>2, PTL

(***************************************************************************)
(* Only the last chunk of an image brings a report, and then the flash     *)
(* holds the whole image.                                                  *)
(***************************************************************************)
LEMMA NoReport ==
  ASSUME (Silent \/ Declined \/ Finding \/ Fetching)',
         NEW i \in 1..Len(toAp')
  PROVE  toAp'[i].type # "loaded"
<1>1. CASE Silent'
  <2>1. toAp' = <<>> => Len(toAp') = 0
    BY EmptySeq, Zenon
  <2>2. Len(toAp') = 0
    BY <1>1, <2>1 DEF Silent
  <2> QED
    BY <2>2
<1>2. CASE Declined'
  <2>1. toAp' = <<Ack(FALSE)>>
    BY <1>2 DEF Declined, Ack
  <2>2. Len(toAp') = 1 /\ toAp'[1] = Ack(FALSE)
    BY <2>1, Lengths
  <2>3. i = 1
    BY <2>2
  <2> QED
    BY <2>2, <2>3 DEF Ack
<1>3. CASE Finding'
  <2>1. PICK f \in Firmware : toAp' = <<Ack(TRUE), Find(f)>> \/ toAp' = <<Find(f)>>
    BY <1>3 DEF Finding, Ack, Find
  <2>2. Ack(TRUE).type = "ack" /\ Find(f).type = "find"
    BY DEF Ack, Find
  <2>3. CASE toAp' = <<Ack(TRUE), Find(f)>>
    <3>1. Len(toAp') = 2 /\ toAp'[1] = Ack(TRUE) /\ toAp'[2] = Find(f)
      BY <2>3, Lengths
    <3>2. i \in {1, 2}
      BY <3>1
    <3> QED
      BY <2>2, <3>1, <3>2
  <2>4. CASE toAp' = <<Find(f)>>
    <3>1. Len(toAp') = 1 /\ toAp'[1] = Find(f)
      BY <2>4, Lengths
    <3>2. i = 1
      BY <3>1
    <3> QED
      BY <2>2, <3>1, <3>2
  <2> QED
    BY <2>1, <2>3, <2>4
<1>4. CASE Fetching'
  <2>1. PICK id \in Firmware \cup {None} : toAp' = <<Fetch(id, priv'.offset)>>
    BY <1>4 DEF Fetching, Fetch
  <2>2. Len(toAp') = 1 /\ toAp'[1] = Fetch(id, priv'.offset)
    BY <2>1, Lengths
  <2>3. i = 1
    BY <2>2
  <2> QED
    BY <2>2, <2>3 DEF Fetch
<1> QED
  BY <1>1, <1>2, <1>3, <1>4

LEMMA ReportIsWhole ==
  ASSUME Undisturbed, FetchResponse, IsFinal, Typed',
         NEW i \in 1..Len(toAp'), toAp'[i].type = "loaded"
  PROVE  /\ toAp'[i].id = priv.req /\ toAp'[i].id = nLoads
         /\ flash' = Image(priv.id)
<1>1. Done' /\ Ordered' /\ Len(flash') = ImageSize[priv.id] /\ InImage
  BY FetchResponseOrdered
<1>2. /\ Serving /\ priv.id \in Firmware /\ ImageSize[priv.id] \in Nat
      /\ UNCHANGED <<load, nLoads>> /\ priv'.id = priv.id
  BY <1>1, FwAssumption
     DEF InImage, FetchResponse, apVars, Undisturbed, IInv, Typed, TypeOK
<1>3. PICK st \in {"validated", "failed"} :
        toAp' = <<Release(priv.id), Loaded(load, st)>> \/ toAp' = <<Loaded(load, st)>>
  BY <1>1, <1>2 DEF Done, Release, Loaded
<1>4. toAp'[i].id = load
  <2>1. CASE toAp' = <<Release(priv.id), Loaded(load, st)>>
    <3>1. Len(toAp') = 2 /\ toAp'[1] = Release(priv.id) /\ toAp'[2] = Loaded(load, st)
      BY <2>1, Lengths
    <3>2. toAp'[1].type = "release" /\ toAp'[2].id = load
      BY <3>1 DEF Release, Loaded
    <3>3. i \in {1, 2}
      BY <3>1
    <3> QED
      BY <3>2, <3>3
  <2>2. CASE toAp' = <<Loaded(load, st)>>
    <3>1. Len(toAp') = 1 /\ toAp'[1] = Loaded(load, st)
      BY <2>2, Lengths
    <3>2. i = 1
      BY <3>1
    <3> QED
      BY <3>1, <3>2 DEF Loaded
  <2> QED
    BY <1>3, <2>1, <2>2
<1>5. flash' = Image(priv.id)
  <2>1. flash' \in [1..ImageSize[priv.id] -> [fw : Firmware, k : Nat]]
    BY <1>1, LenProperties DEF Typed, TypeOK
  <2>2. \A k \in 1..ImageSize[priv.id] : flash'[k] = Chunk(priv.id, k - 1)
    <3>1. ~disturbed'
      BY DEF Undisturbed, FetchResponse, apVars
    <3> QED
      BY <1>1, <1>2, <3>1 DEF Ordered, FlashInOrder, Chunk
  <2> QED
    BY <2>1, <2>2 DEF Image
<1> QED
  BY <1>2, <1>4, <1>5 DEF Serving

\* The body of ValidatedIsWhole.
Whole ==
  Len(toAp') > Len(toAp) /\ ~disturbed' =>
    \A m \in Reports : m.status = "validated" =>
      m.id = priv.req /\ m.id = nLoads /\ flash' = Image(priv.id)

LEMMA OnlyTheNodeSends ==
  ASSUME Typed, Next, Len(toAp') > Len(toAp)
  PROVE  Node
<1>1. Len(toAp) \in Nat
  BY LenProperties DEF Typed, TypeOK
<1>2. ASSUME NEW type, ApTake(type)
      PROVE  FALSE
  <2>1. Len(toAp') = Len(toAp) - 1
    BY <1>2, TakeAp
  <2> QED
    BY <1>1, <2>1
<1>3. ~ApServes
  BY <1>2 DEF ApServes, ApFind, ApFetch, ApAck, ApRelease, ApLoaded
<1>4. toAp' # toAp
  BY <1>1
<1>5. ~ApGivesUp /\ \A f \in Firmware, unipro \in BOOLEAN : ~ApLoad(f, unipro)
  BY <1>4 DEF ApGivesUp, ApLoad
<1> QED
  BY <1>3, <1>5 DEF Next

LEMMA WholeStep ==
  ASSUME SmallEnough, IInv, IInv', Next
  PROVE  Whole
<1> SUFFICES ASSUME Len(toAp') > Len(toAp), ~disturbed', NEW m \in Reports,
                    m.status = "validated"
             PROVE  m.id = priv.req /\ m.id = nLoads /\ flash' = Image(priv.id)
  BY DEF Whole
<1>1. Node
  BY OnlyTheNodeSends DEF IInv
<1>2. ~FetchResponseWriteFails
  BY DEF FetchResponseWriteFails
<1>3. Undisturbed
  <2>1. disturbed' = disturbed
    BY <1>1, <1>2 DEF Node, LoadAndValidate, FindResponse, FetchRefused, FetchResponse, apVars
  <2> QED
    BY <2>1 DEF Undisturbed
<1>4. toAp = <<>>
  BY <1>1, <1>2, <1>3, NodePhase
     DEF Node, LoadAndValidate, FindResponse, FetchRefused, FetchResponse
<1>5. PICK i \in 1..Len(toAp') : m = toAp'[i] /\ toAp'[i].type = "loaded"
  <2>1. Len(toAp) = 0
    <3>1. toAp = <<>> => Len(toAp) = 0
      BY EmptySeq, Zenon
    <3> QED
      BY <1>4, <3>1
  <2>2. Sent = toAp'
    BY <2>1, SubSeqFull DEF Sent, IInv, Typed, TypeOK
  <2> QED
    BY <2>2 DEF Reports
<1>6. ~(Silent \/ Declined \/ Finding \/ Fetching)'
  BY <1>5, NoReport
<1>7. FetchResponse /\ IsFinal
  <2>1. ~LoadAndValidate
    BY <1>3, <1>6, LoadAndValidateOrdered
  <2>2. ~FindResponse
    BY <1>3, <1>6, FindResponseOrdered
  <2>3. ~FetchRefused
    <3>1. FetchRefused => toAp' = toAp
      BY DEF FetchRefused
    <3>2. Len(toAp) \in Nat
      BY LenProperties DEF IInv, Typed, TypeOK
    <3>3. toAp' # toAp
      BY <3>2
    <3> QED
      BY <3>1, <3>3
  <2>4. FetchResponse
    BY <1>1, <1>2, <2>1, <2>2, <2>3 DEF Node
  <2> QED
    BY <1>3, <1>6, <2>4, FetchResponseOrdered
<1>8. Typed'
  BY DEF IInv
<1> QED
  BY <1>3, <1>5, <1>7, <1>8, ReportIsWhole

(***************************************************************************)
(* "Validated" is only reported when the flash holds the whole image, once *)
(* and in order, and for the request that is being served.                 *)
(***************************************************************************)
THEOREM ValidatedWhole ==
  ASSUME SmallEnough
  PROVE  Spec => ValidatedIsWhole
<1>1. IInv /\ IInv' /\ [Next]_vars => [Whole]_vars
  BY SmallEnough, WholeStep
<1>2. Spec => []IInv
  BY SmallEnough, Invariance
<1>3. []IInv /\ [][Next]_vars => [][Whole]_vars
  BY <1>1, PTL
<1>4. [][Whole]_vars <=> ValidatedIsWhole
  BY DEF Whole, ValidatedIsWhole
<1> QED
  BY <1>2, <1>3, <1>4, PTL DEF Spec, SafeSpec
=============================================================================
