------------------------------ MODULE HidProofs ------------------------------
(***************************************************************************)
(* Theorems about the nodes and the reports of the HID driver, for any     *)
(* number of nodes, of reports and of openings.                            *)
(***************************************************************************)
EXTENDS Hid, FiniteSetTheorems, SequenceTheorems, TLAPS

-----------------------------------------------------------------------------
(* Queues of nodes.                                                        *)

In(n, queue) == \E i \in 1..Len(queue) : queue[i] = n
Distinct(queue) == \A i, j \in 1..Len(queue) : queue[i] = queue[j] => i = j

LEMMA EmptyQueue ==
  /\ <<>> \in Seq(Nodes) /\ Len(<<>>) = 0
  /\ Distinct(<<>>) /\ \A n : ~In(n, <<>>)
<1>1. <<>> \in Seq(Nodes) /\ Len(<<>>) = 0
  BY EmptySeq
<1> QED
  BY <1>1 DEF Distinct, In

LEMMA Dequeue ==
  ASSUME NEW q \in Seq(Nodes)
  PROVE  /\ Dequeued(q) \in Nodes \cup {NoNode} /\ Rest(q) \in Seq(Nodes)
         /\ q = <<>> <=> Dequeued(q) = NoNode
         /\ \A n \in Nodes : In(n, q) <=> n = Dequeued(q) \/ In(n, Rest(q))
         /\ Distinct(q) => Distinct(Rest(q)) /\ ~In(Dequeued(q), Rest(q))
<1>1. CASE q = <<>>
  <2>1. Dequeued(q) = NoNode /\ Rest(q) = <<>>
    BY <1>1 DEF Dequeued, Rest
  <2>2. \A n \in Nodes : n # NoNode
    BY HidAssumption
  <2> QED
    BY <1>1, <2>1, <2>2, EmptyQueue, Zenon
<1>2. CASE q # <<>>
  <2>1. Dequeued(q) = Head(q) /\ Rest(q) = Tail(q)
    BY <1>2 DEF Dequeued, Rest
  <2>2. /\ Head(q) \in Nodes /\ Tail(q) \in Seq(Nodes) /\ Head(q) = q[1]
        /\ Len(Tail(q)) = Len(q) - 1 /\ Len(q) \in Nat \ {0}
        /\ \A i \in 1..Len(Tail(q)) : Tail(q)[i] = q[i + 1]
    BY <1>2, HeadTailProperties, EmptySeq
  <2>3. Dequeued(q) # NoNode
    BY <2>1, <2>2, HidAssumption
  <2> DEFINE t == Tail(q)
  <2>4. /\ t \in Seq(Nodes) /\ Len(t) = Len(q) - 1
        /\ \A i \in 1..Len(t) : i + 1 \in 1..Len(q) /\ t[i] = q[i + 1]
    BY <2>2
  <2> HIDE DEF t
  <2>5. ASSUME NEW n \in Nodes
        PROVE  In(n, q) <=> n = q[1] \/ In(n, t)
    <3>1. ASSUME In(n, q) PROVE n = q[1] \/ In(n, t)
      <4>1. PICK i \in 1..Len(q) : q[i] = n
        BY <3>1 DEF In
      <4>2. CASE i = 1
        BY <4>1, <4>2
      <4>3. CASE i # 1
        <5>1. i - 1 \in 1..Len(t) /\ t[i - 1] = q[(i - 1) + 1] /\ (i - 1) + 1 = i
          BY <2>2, <2>4, <4>3
        <5> QED
          BY <4>1, <5>1 DEF In
      <4> QED
        BY <4>2, <4>3
    <3>2. ASSUME n = q[1] PROVE In(n, q)
      BY <2>2, <3>2 DEF In
    <3>3. ASSUME In(n, t) PROVE In(n, q)
      BY <2>4, <3>3 DEF In
    <3> QED
      BY <3>1, <3>2, <3>3
  <2>6. ASSUME Distinct(q)
        PROVE  Distinct(t) /\ ~In(q[1], t)
    <3>1. ASSUME NEW i \in 1..Len(t), NEW j \in 1..Len(t), t[i] = t[j] PROVE i = j
      <4>1. i + 1 \in 1..Len(q) /\ j + 1 \in 1..Len(q) /\ q[i + 1] = q[j + 1]
        BY <2>4, <3>1
      <4>2. i + 1 = j + 1
        BY <2>6, <4>1 DEF Distinct
      <4> QED
        BY <4>2
    <3>2. ASSUME NEW i \in 1..Len(t), t[i] = q[1] PROVE FALSE
      <4>1. i + 1 \in 1..Len(q) /\ 1 \in 1..Len(q) /\ q[i + 1] = q[1]
        BY <2>2, <2>4, <3>2
      <4>2. i + 1 = 1
        BY <2>6, <4>1 DEF Distinct
      <4> QED
        BY <4>2
    <3> QED
      BY <3>1, <3>2 DEF Distinct, In
  <2> QED
    BY <1>2, <2>1, <2>2, <2>3, <2>5, <2>6 DEF t
<1> QED
  BY <1>1, <1>2

LEMMA Enqueue ==
  ASSUME NEW q \in Seq(Nodes), NEW m \in Nodes
  PROVE  /\ Append(q, m) \in Seq(Nodes)
         /\ \A n : In(n, Append(q, m)) <=> In(n, q) \/ n = m
         /\ Distinct(q) /\ ~In(m, q) => Distinct(Append(q, m))
<1> DEFINE a == Append(q, m)
<1>1. /\ a \in Seq(Nodes) /\ Len(q) \in Nat /\ Len(a) = Len(q) + 1
      /\ \A i \in 1..Len(q) : a[i] = q[i]
      /\ a[Len(q) + 1] = m
  BY AppendProperties, LenProperties
<1> HIDE DEF a
<1>2. \A i \in 1..Len(a) : i \in 1..Len(q) \/ i = Len(q) + 1
  BY <1>1
<1>3. ASSUME NEW n PROVE In(n, a) <=> In(n, q) \/ n = m
  BY <1>1, <1>2 DEF In
<1>4. ASSUME Distinct(q), ~In(m, q) PROVE Distinct(a)
  BY <1>1, <1>2, <1>4 DEF Distinct, In
<1> QED
  BY <1>1, <1>3, <1>4 DEF a

(***************************************************************************)
(* gb_hid_init queues every node once.                                     *)
(***************************************************************************)
LEMMA AllNodes ==
  /\ SetToSeq(Nodes) \in Seq(Nodes) /\ Distinct(SetToSeq(Nodes))
  /\ \A n \in Nodes : In(n, SetToSeq(Nodes))
<1> DEFINE N == Cardinality(Nodes)
           q == SetToSeq(Nodes)
<1>1. N \in Nat /\ ExistsBijection(1..N, Nodes)
  BY HidAssumption, FS_CardinalityType
<1>2. \E f \in [1..N -> Nodes] : IsInjective(f)
  BY <1>1 DEF ExistsBijection, Bijection, Injection
<1>3. q \in [1..N -> Nodes] /\ IsInjective(q)
  BY <1>2 DEF SetToSeq
<1> HIDE DEF q
<1>4. q \in Seq(Nodes) /\ Len(q) = N /\ DOMAIN q = 1..N
  BY <1>1, <1>3
<1>5. q \in Injection(1..N, Nodes)
  BY <1>3 DEF Injection
<1>6. q \in Surjection(1..N, Nodes)
  <2>1. IsFiniteSet(1..N) /\ Cardinality(1..N) = N
    BY <1>1, FS_Interval
  <2> QED
    BY <1>5, <2>1, HidAssumption, FS_Injection
<1>7. Distinct(q)
  BY <1>3, <1>4 DEF Distinct, IsInjective
<1>8. \A n \in Nodes : In(n, q)
  BY <1>4, <1>6 DEF In, Surjection
<1> QED
  BY <1>4, <1>7, <1>8 DEF q

-----------------------------------------------------------------------------
(* The invariant.                                                          *)

(***************************************************************************)
(* The thread asks for a node only while the interrupt has none, and holds *)
(* one only while it sends it or hands it over: without that, ThreadAssign *)
(* could overwrite the node that the interrupt is about to fill.           *)
(***************************************************************************)
Control ==
  /\ stage = "closed" <=> pc = "none"
  /\ stage = "starting" =>
       /\ pc = "wait" /\ active_sem = 0 /\ ~node_request
       /\ report_node = NoNode /\ data_queue = <<>>
  /\ pc \in {"send", "requeue"} => node \in Nodes
  /\ pc \notin {"send", "requeue", "assign"} => node = NoNode
  /\ stage # "closed" /\ node_request /\ pc # "clear" => report_node = NoNode
  /\ pc = "assign" => node_request

\* Every node is in one place, and in it once.
Apart ==
  stage # "closed" =>
    /\ Distinct(free_queue) /\ Distinct(data_queue)
    /\ \A n \in Nodes :
         /\ In(n, free_queue) \/ In(n, data_queue) \/ n = report_node \/ n = node
         /\ In(n, free_queue) => ~In(n, data_queue) /\ n # report_node /\ n # node
         /\ In(n, data_queue) => n # report_node /\ n # node
         /\ n = report_node => n # node

\* The reports that were taken are those that were sent, the one in the
\* thread's hands and those in the data queue, in this order.
Taken == IF pc = "send" THEN 1 ELSE 0
Content ==
  stage # "closed" =>
    /\ Len(accepted) = Len(sent) + Taken + Len(data_queue)
    /\ pc = "send" => accepted[Len(sent) + 1] = buffer[node]
    /\ \A i \in 1..Len(data_queue) : accepted[Len(sent) + Taken + i] = buffer[data_queue[i]]

Prefix ==
  /\ Len(sent) <= Len(accepted)
  /\ \A i \in 1..Len(sent) : sent[i] = accepted[i]

Leaks == leaked + (IF stage = "closed" THEN 0 ELSE 1) <= opens

IInv == TypeOK /\ Control /\ Apart /\ Content /\ Prefix /\ Leaks

LEMMA InitIInv == Init => IInv
<1> SUFFICES ASSUME Init PROVE IInv
  OBVIOUS
<1> USE HidAssumption DEF Init
<1>1. <<>> \in Seq(Nodes) /\ <<>> \in Seq(1..MaxReports) /\ Len(<<>>) = 0
  BY EmptySeq
<1>2. TypeOK
  <2>1. buffer \in [Nodes -> 0..MaxReports] /\ produced \in 0..MaxReports /\ opens \in 0..MaxOpens
    OBVIOUS
  <2>2. node_request \in BOOLEAN /\ thread_stop \in BOOLEAN /\ overtaken \in BOOLEAN
    OBVIOUS
  <2> QED
    BY <1>1, <2>1, <2>2 DEF TypeOK
<1>3. Control /\ Apart /\ Content /\ Leaks
  BY DEF Control, Apart, Content, Leaks
<1>4. Prefix
  BY <1>1 DEF Prefix
<1> QED
  BY <1>2, <1>3, <1>4 DEF IInv

-----------------------------------------------------------------------------
(* Opening and closing.                                                    *)

LEMMA HidInitIInv ==
  ASSUME IInv, HidInit
  PROVE  IInv'
<1> DEFINE q == SetToSeq(Nodes)
<1>1. /\ stage = "closed" /\ opens < MaxOpens /\ stage' = "starting" /\ opens' = opens + 1
      /\ free_queue' = q /\ data_queue' = <<>> /\ active_sem' = 0 /\ thread_stop' = FALSE
      /\ pc' = "wait" /\ node' = NoNode /\ report_node' = NoNode /\ node_request' = FALSE
      /\ accepted' = <<>> /\ sent' = <<>> /\ overtaken' = FALSE
      /\ UNCHANGED <<buffer, produced, leaked>>
  BY DEF HidInit
<1>2. q \in Seq(Nodes) /\ Distinct(q) /\ \A n \in Nodes : In(n, q)
  BY AllNodes
<1> HIDE DEF q
<1>3. <<>> \in Seq(Nodes) /\ <<>> \in Seq(1..MaxReports) /\ Len(<<>>) = 0
  BY EmptySeq
<1>4. TypeOK'
  <2>1. opens' \in 0..MaxOpens
    BY <1>1, HidAssumption DEF IInv, TypeOK
  <2>2. /\ node_request' \in BOOLEAN /\ thread_stop' \in BOOLEAN /\ overtaken' \in BOOLEAN
        /\ report_node' \in Nodes \cup {NoNode} /\ node' \in Nodes \cup {NoNode}
    BY <1>1
  <2>3. buffer' \in [Nodes -> 0..MaxReports] /\ produced' \in 0..MaxReports /\ leaked' \in Nat
    BY <1>1 DEF IInv, TypeOK
  <2> QED
    BY <1>1, <1>2, <1>3, <2>1, <2>2, <2>3 DEF TypeOK
<1>5. Control'
  BY <1>1 DEF Control
<1>6. Apart'
  <2>1. Distinct(<<>>) /\ \A n \in Nodes : ~In(n, <<>>) /\ n # NoNode
    BY EmptyQueue, HidAssumption
  <2> QED
    BY <1>1, <1>2, <2>1 DEF Apart
<1>7. Content' /\ Prefix'
  BY <1>1, <1>3 DEF Content, Taken, Prefix
<1>8. Leaks'
  BY <1>1, HidAssumption DEF IInv, TypeOK, Leaks
<1> QED
  BY <1>4, <1>5, <1>6, <1>7, <1>8 DEF IInv

LEMMA HidRegisterIInv ==
  ASSUME IInv, HidRegister
  PROVE  IInv'
<1>1. /\ stage = "starting" /\ stage' \in {"open", "joining"}
      /\ report_node' = Dequeued(free_queue) /\ free_queue' = Rest(free_queue)
      /\ active_sem' \in {active_sem, active_sem + 1} /\ thread_stop' \in {thread_stop, TRUE}
      /\ UNCHANGED <<opens, data_queue, node_request, pc, node, buffer,
                     produced, accepted, sent, overtaken, leaked>>
  BY DEF HidRegister, thread, history
<1>2. /\ Dequeued(free_queue) \in Nodes \cup {NoNode} /\ Rest(free_queue) \in Seq(Nodes)
      /\ \A n \in Nodes : In(n, free_queue) <=>
           n = Dequeued(free_queue) \/ In(n, Rest(free_queue))
      /\ Distinct(free_queue) =>
           Distinct(Rest(free_queue)) /\ ~In(Dequeued(free_queue), Rest(free_queue))
  BY Dequeue DEF IInv, TypeOK
<1>3. TypeOK'
  <2>1. thread_stop' \in BOOLEAN /\ node_request' \in BOOLEAN /\ overtaken' \in BOOLEAN
    BY <1>1, Zenon DEF IInv, TypeOK
  <2>2. active_sem' \in Nat
    BY <1>1 DEF IInv, TypeOK
  <2>3. report_node' \in Nodes \cup {NoNode} /\ free_queue' \in Seq(Nodes)
    BY <1>1, <1>2
  <2> QED
    BY <1>1, <2>1, <2>2, <2>3 DEF IInv, TypeOK
<1>4. Control'
  BY <1>1 DEF IInv, Control
<1>5. Apart'
  <2>1. pc = "wait" /\ node = NoNode /\ report_node = NoNode
    BY <1>1 DEF IInv, Control
  <2>2. \A n \in Nodes : n # NoNode
    BY HidAssumption
  <2>3. Distinct(free_queue) /\ Distinct(data_queue)
    BY <1>1 DEF IInv, Apart
  <2>4. ASSUME NEW n \in Nodes
        PROVE  /\ In(n, free_queue) \/ In(n, data_queue) \/ n = report_node \/ n = node
               /\ In(n, free_queue) => ~In(n, data_queue) /\ n # report_node /\ n # node
               /\ In(n, data_queue) => n # report_node /\ n # node
    BY <1>1 DEF IInv, Apart
  <2> QED
    BY <1>1, <1>2, <2>1, <2>2, <2>3, <2>4 DEF Apart
<1>6. Content' /\ Prefix' /\ Leaks'
  BY <1>1 DEF IInv, Content, Taken, Prefix, Leaks
<1> QED
  BY <1>3, <1>4, <1>5, <1>6 DEF IInv

LEMMA HidExitIInv ==
  ASSUME IInv, HidExit
  PROVE  IInv'
<1>1. /\ stage = "open" /\ stage' = "joining"
      /\ thread_stop' = TRUE /\ active_sem' = active_sem + 1
      /\ UNCHANGED <<opens, free_queue, data_queue, report_node, node_request, pc, node, buffer,
                     produced, accepted, sent, overtaken, leaked>>
  BY DEF HidExit, queues, thread, history
<1>2. TypeOK'
  BY <1>1 DEF IInv, TypeOK
<1>3. Control' /\ Apart'
  BY <1>1 DEF IInv, Control, Apart
<1>4. Content' /\ Prefix' /\ Leaks'
  BY <1>1 DEF IInv, Content, Taken, Prefix, Leaks
<1> QED
  BY <1>2, <1>3, <1>4 DEF IInv

(***************************************************************************)
(* What is in neither queue when the thread has ended is the node the      *)
(* interrupt was to fill, or nothing.                                      *)
(***************************************************************************)
LEMMA HidJoinedIInv ==
  ASSUME IInv, HidJoined
  PROVE  IInv'
<1> DEFINE L == Nodes \ (Range(free_queue) \cup Range(data_queue))
<1>1. /\ stage = "joining" /\ pc = "ended" /\ stage' = "closed" /\ pc' = "none"
      /\ leaked' = leaked + Cardinality(L)
      /\ free_queue' = <<>> /\ data_queue' = <<>>
      /\ UNCHANGED <<opens, report_node, node_request, active_sem, thread_stop, node, buffer,
                     produced, accepted, sent, overtaken>>
  BY DEF HidJoined, history
<1>2. L \subseteq {report_node}
  <2>1. node = NoNode
    BY <1>1 DEF IInv, Control
  <2>2. ASSUME NEW n \in L PROVE n = report_node
    <3>1. n \in Nodes /\ n # NoNode
      BY HidAssumption
    <3>2. ~In(n, free_queue) /\ ~In(n, data_queue)
      BY SMTT(20) DEF In, Range, IInv, TypeOK
    <3>3. In(n, free_queue) \/ In(n, data_queue) \/ n = report_node \/ n = node
      BY <1>1, <3>1 DEF IInv, Apart
    <3> QED
      BY <2>1, <3>1, <3>2, <3>3
  <2> QED
    BY <2>2
<1>3. Cardinality(L) \in Nat /\ Cardinality(L) <= 1
  <2>1. IsFiniteSet({report_node}) /\ Cardinality({report_node}) = 1
    BY FS_Singleton
  <2> QED
    BY <1>2, <2>1, FS_Subset, FS_CardinalityType
<1> HIDE DEF L
<1>4. <<>> \in Seq(Nodes)
  OBVIOUS
<1>5. TypeOK'
  BY <1>1, <1>3, <1>4 DEF IInv, TypeOK
<1>6. Control' /\ Apart' /\ Content' /\ Prefix'
  BY <1>1 DEF IInv, Control, Apart, Content, Prefix
<1>7. Leaks'
  BY <1>1, <1>3 DEF IInv, TypeOK, Leaks
<1> QED
  BY <1>5, <1>6, <1>7 DEF IInv

-----------------------------------------------------------------------------
(* The interrupt.                                                          *)

LEMMA ReportRefusedIInv ==
  ASSUME IInv, ReportRefused
  PROVE  IInv'
<1>1. /\ stage = "open" /\ produced < MaxReports /\ produced' = produced + 1
      /\ active_sem' \in {active_sem, active_sem + 1}
      /\ UNCHANGED <<stage, opens, free_queue, data_queue, report_node, node_request, thread_stop,
                     pc, node, buffer, accepted, sent, overtaken, leaked>>
  BY DEF ReportRefused, queues, thread
<1>2. TypeOK'
  <2>1. produced' \in 0..MaxReports /\ active_sem' \in Nat
    BY <1>1, HidAssumption DEF IInv, TypeOK
  <2> QED
    BY <1>1, <2>1 DEF IInv, TypeOK
<1>3. Control' /\ Apart'
  BY <1>1 DEF IInv, Control, Apart
<1>4. Content' /\ Prefix' /\ Leaks'
  BY <1>1 DEF IInv, Content, Taken, Prefix, Leaks
<1> QED
  BY <1>2, <1>3, <1>4 DEF IInv

LEMMA ReportTakenIInv ==
  ASSUME IInv, ReportTaken
  PROVE  IInv'
<1>1. /\ stage = "open" /\ produced < MaxReports /\ report_node # NoNode
      /\ produced' = produced + 1 /\ accepted' = Append(accepted, produced')
      /\ buffer' = [buffer EXCEPT ![report_node] = produced']
      /\ data_queue' = Append(data_queue, report_node)
      /\ report_node' = Dequeued(free_queue) /\ free_queue' = Rest(free_queue)
      /\ node_request' = (node_request \/ free_queue = <<>>)
      /\ overtaken' = (overtaken \/ (free_queue = <<>> /\ pc \in {"check", "clear"}))
      /\ active_sem' = active_sem + 1
      /\ UNCHANGED <<stage, opens, thread_stop, pc, node, sent, leaked>>
  BY DEF ReportTaken, thread
<1>2. /\ Dequeued(free_queue) \in Nodes \cup {NoNode} /\ Rest(free_queue) \in Seq(Nodes)
      /\ free_queue = <<>> <=> Dequeued(free_queue) = NoNode
      /\ \A n \in Nodes : In(n, free_queue) <=>
           n = Dequeued(free_queue) \/ In(n, Rest(free_queue))
      /\ Distinct(free_queue) =>
           Distinct(Rest(free_queue)) /\ ~In(Dequeued(free_queue), Rest(free_queue))
  BY Dequeue DEF IInv, TypeOK
<1>3. report_node \in Nodes
  BY <1>1 DEF IInv, TypeOK
<1>4. /\ data_queue' \in Seq(Nodes)
      /\ \A n : In(n, data_queue') <=> In(n, data_queue) \/ n = report_node
      /\ Distinct(data_queue) /\ ~In(report_node, data_queue) => Distinct(data_queue')
  BY <1>1, <1>3, Enqueue DEF IInv, TypeOK
<1>5. produced' \in 1..MaxReports /\ produced' \in 0..MaxReports
  BY <1>1, HidAssumption DEF IInv, TypeOK
<1>6. /\ accepted' \in Seq(1..MaxReports) /\ Len(accepted) \in Nat
      /\ Len(accepted') = Len(accepted) + 1
      /\ \A i \in 1..Len(accepted) : accepted'[i] = accepted[i]
      /\ accepted'[Len(accepted) + 1] = produced'
  BY <1>1, <1>5, AppendProperties, LenProperties DEF IInv, TypeOK
<1>7. TypeOK'
  <2>1. buffer' \in [Nodes -> 0..MaxReports]
    BY <1>1, <1>3, <1>5 DEF IInv, TypeOK
  <2>2. node_request' \in BOOLEAN /\ overtaken' \in BOOLEAN /\ thread_stop' \in BOOLEAN
    BY <1>1, Zenon DEF IInv, TypeOK
  <2>3. active_sem' \in Nat
    BY <1>1 DEF IInv, TypeOK
  <2>4. report_node' \in Nodes \cup {NoNode} /\ free_queue' \in Seq(Nodes)
    BY <1>1, <1>2
  <2> QED
    BY <1>1, <1>4, <1>5, <1>6, <2>1, <2>2, <2>3, <2>4 DEF IInv, TypeOK
<1>8. Control'
  <2>1. node_request' /\ pc # "clear" => report_node' = NoNode
    <3>1. node_request => pc = "clear"
      BY <1>1 DEF IInv, Control
    <3> QED
      BY <1>1, <1>2, <3>1
  <2>2. pc = "assign" => node_request'
    BY <1>1 DEF IInv, Control
  <2> QED
    BY <1>1, <2>1, <2>2 DEF IInv, Control
<1>9. /\ Distinct(free_queue) /\ Distinct(data_queue)
      /\ \A n \in Nodes :
           /\ In(n, free_queue) \/ In(n, data_queue) \/ n = report_node \/ n = node
           /\ In(n, free_queue) => ~In(n, data_queue) /\ n # report_node /\ n # node
           /\ In(n, data_queue) => n # report_node /\ n # node
           /\ n = report_node => n # node
  BY <1>1 DEF IInv, Apart
<1>10. Apart'
  <2>1. ~In(report_node, data_queue) /\ ~In(report_node, free_queue) /\ report_node # node
    BY <1>3, <1>9
  <2>2. Distinct(free_queue') /\ Distinct(data_queue')
    BY <1>1, <1>2, <1>4, <1>9, <2>1
  <2>3. ASSUME NEW n \in Nodes
        PROVE  /\ In(n, free_queue') \/ In(n, data_queue') \/ n = report_node' \/ n = node'
               /\ In(n, free_queue') => ~In(n, data_queue') /\ n # report_node' /\ n # node'
               /\ In(n, data_queue') => n # report_node' /\ n # node'
               /\ n = report_node' => n # node'
    BY <1>1, <1>2, <1>4, <1>9, <2>1
  <2> QED
    BY <2>2, <2>3 DEF Apart
<1>11. Content'
  <2>1. /\ Len(accepted) = Len(sent) + Taken + Len(data_queue)
        /\ pc = "send" => accepted[Len(sent) + 1] = buffer[node]
        /\ \A i \in 1..Len(data_queue) :
             accepted[Len(sent) + Taken + i] = buffer[data_queue[i]]
    BY <1>1 DEF IInv, Content
  <2>2. /\ Len(sent) \in Nat /\ Len(data_queue) \in Nat /\ Len(data_queue') = Len(data_queue) + 1
        /\ \A i \in 1..Len(data_queue) : data_queue'[i] = data_queue[i]
        /\ data_queue'[Len(data_queue) + 1] = report_node
    BY <1>1, <1>3, AppendProperties, LenProperties DEF IInv, TypeOK
  <2>3. /\ \A n \in Nodes : n # report_node => buffer'[n] = buffer[n]
        /\ buffer'[report_node] = produced'
    BY <1>1, <1>3 DEF IInv, TypeOK
  <2>4. Taken \in {0, 1} /\ Taken' = Taken /\ (pc = "send" => Taken = 1)
    BY <1>1 DEF Taken
  <2>5. Len(accepted') = Len(sent') + Taken' + Len(data_queue')
    BY <1>1, <1>6, <2>1, <2>2, <2>4
  <2>6. pc' = "send" => accepted'[Len(sent') + 1] = buffer'[node']
    <3>1. SUFFICES ASSUME pc = "send"
                   PROVE  accepted'[Len(sent) + 1] = buffer'[node]
      BY <1>1
    <3>2. Len(sent) + 1 \in 1..Len(accepted)
      BY <2>1, <2>2, <2>4, <3>1
    <3>3. node \in Nodes /\ node # report_node
      BY <1>9, <3>1 DEF IInv, Control
    <3> QED
      BY <1>6, <2>1, <2>3, <3>1, <3>2, <3>3
  <2>7. ASSUME NEW i \in 1..Len(data_queue')
        PROVE  accepted'[Len(sent') + Taken' + i] = buffer'[data_queue'[i]]
    <3>1. CASE i \in 1..Len(data_queue)
      <4>1. Len(sent) + Taken + i \in 1..Len(accepted)
        BY <2>1, <2>2, <2>4, <3>1
      <4>2. data_queue[i] \in Nodes /\ data_queue[i] # report_node
        BY <1>9, <3>1 DEF In, IInv, TypeOK
      <4>3. accepted'[Len(sent) + Taken + i] = accepted[Len(sent) + Taken + i]
        BY <1>6, <4>1
      <4>4. data_queue'[i] = data_queue[i] /\ buffer'[data_queue[i]] = buffer[data_queue[i]]
        BY <2>2, <2>3, <3>1, <4>2
      <4>5. accepted[Len(sent) + Taken + i] = buffer[data_queue[i]]
        BY <2>1, <3>1
      <4>6. sent' = sent /\ Taken' = Taken
        BY <1>1, <2>4
      <4> QED
        BY <4>3, <4>4, <4>5, <4>6
    <3>2. CASE i = Len(data_queue) + 1
      <4>1. Len(sent') + Taken' + i = Len(accepted) + 1
        BY <1>1, <2>1, <2>2, <2>4, <3>2
      <4> QED
        BY <1>6, <2>2, <2>3, <3>2, <4>1
    <3> QED
      BY <2>2, <3>1, <3>2
  <2> QED
    BY <2>5, <2>6, <2>7 DEF Content
<1>12. Prefix' /\ Leaks'
  <2>1. Len(sent) \in Nat
    BY LenProperties DEF IInv, TypeOK
  <2>2. \A i \in 1..Len(sent) : i \in 1..Len(accepted) /\ sent[i] = accepted[i]
    BY <1>6, <2>1 DEF IInv, Prefix
  <2>3. Prefix'
    BY <1>1, <1>6, <2>1, <2>2 DEF IInv, Prefix
  <2> QED
    BY <1>1, <2>3 DEF IInv, Leaks
<1> QED
  BY <1>7, <1>8, <1>10, <1>11, <1>12 DEF IInv

-----------------------------------------------------------------------------
(* The thread.                                                             *)

\* Steps of the thread that move no report: the types of what they change,
\* and where the nodes are, is left to show.
LEMMA ThreadKeeps ==
  ASSUME IInv, pc # "send", pc' # "send", (pc = "none") = (pc' = "none"),
         UNCHANGED <<stage, opens, data_queue, buffer, produced, accepted, sent, leaked>>
  PROVE  Content' /\ Prefix' /\ Leaks'
BY DEF IInv, Content, Taken, Prefix, Leaks

LEMMA ThreadWakeIInv ==
  ASSUME IInv, ThreadWake
  PROVE  IInv'
<1>1. /\ pc = "wait" /\ active_sem > 0 /\ active_sem' = active_sem - 1
      /\ pc' \in {"ended", "take"}
      /\ UNCHANGED <<stage, opens, free_queue, data_queue, report_node, node_request, thread_stop,
                     node, buffer, produced, accepted, sent, overtaken, leaked>>
  BY DEF ThreadWake, queues, history
<1>2. TypeOK'
  BY <1>1 DEF IInv, TypeOK
<1>3. Control' /\ Apart'
  BY <1>1 DEF IInv, Control, Apart
<1> QED
  BY <1>1, <1>2, <1>3, ThreadKeeps DEF IInv

LEMMA ThreadCheckIInv ==
  ASSUME IInv, ThreadCheck
  PROVE  IInv'
<1>1. /\ pc = "check" /\ pc' \in {"assign", "wait"}
      /\ pc' = "assign" => node_request /\ node' = Dequeued(free_queue)
                           /\ free_queue' = Rest(free_queue)
      /\ pc' = "wait" => node' = node /\ free_queue' = free_queue
      /\ UNCHANGED <<stage, opens, data_queue, report_node, node_request, active_sem, thread_stop,
                     buffer, produced, accepted, sent, overtaken, leaked>>
  BY DEF ThreadCheck, history
<1>2. /\ Dequeued(free_queue) \in Nodes \cup {NoNode} /\ Rest(free_queue) \in Seq(Nodes)
      /\ \A n \in Nodes : In(n, free_queue) <=>
           n = Dequeued(free_queue) \/ In(n, Rest(free_queue))
      /\ Distinct(free_queue) =>
           Distinct(Rest(free_queue)) /\ ~In(Dequeued(free_queue), Rest(free_queue))
  BY Dequeue DEF IInv, TypeOK
<1>3. node = NoNode /\ stage # "closed" /\ stage # "starting"
  BY <1>1 DEF IInv, Control
<1>4. TypeOK'
  <2>1. node' \in Nodes \cup {NoNode} /\ free_queue' \in Seq(Nodes)
    BY <1>1, <1>2 DEF IInv, TypeOK
  <2> QED
    BY <1>1, <2>1 DEF IInv, TypeOK
<1>5. Control'
  BY <1>1, <1>3 DEF IInv, Control
<1>6. Apart'
  <2>1. CASE pc' = "wait"
    BY <1>1, <2>1 DEF IInv, Apart
  <2>2. CASE pc' = "assign"
    <3>1. \A n \in Nodes : n # NoNode
      BY HidAssumption
    <3>2. Distinct(free_queue) /\ Distinct(data_queue)
      BY <1>3 DEF IInv, Apart
    <3>3. ASSUME NEW n \in Nodes
          PROVE  /\ In(n, free_queue) \/ In(n, data_queue) \/ n = report_node \/ n = node
                 /\ In(n, free_queue) => ~In(n, data_queue) /\ n # report_node /\ n # node
                 /\ In(n, data_queue) => n # report_node /\ n # node
                 /\ n = report_node => n # node
      BY <1>3 DEF IInv, Apart
    <3> QED
      BY <1>1, <1>2, <1>3, <2>2, <3>1, <3>2, <3>3 DEF Apart
  <2> QED
    BY <1>1, <2>1, <2>2
<1> QED
  BY <1>1, <1>4, <1>5, <1>6, ThreadKeeps DEF IInv

(***************************************************************************)
(* The interrupt has no node, so that none is overwritten.                 *)
(***************************************************************************)
LEMMA ThreadAssignIInv ==
  ASSUME IInv, ThreadAssign
  PROVE  IInv'
<1>1. /\ pc = "assign" /\ pc' = "clear" /\ report_node' = node /\ node' = NoNode
      /\ UNCHANGED <<stage, opens, free_queue, data_queue, node_request, active_sem, thread_stop,
                     buffer, produced, accepted, sent, overtaken, leaked>>
  BY DEF ThreadAssign, history
<1>2. report_node = NoNode /\ stage # "closed" /\ stage # "starting"
  BY <1>1 DEF IInv, Control
<1>3. TypeOK'
  BY <1>1 DEF IInv, TypeOK
<1>4. Control'
  BY <1>1, <1>2 DEF IInv, Control
<1>5. Apart'
  <2>1. \A n \in Nodes : n # NoNode
    BY HidAssumption
  <2> QED
    BY <1>1, <1>2, <2>1 DEF IInv, Apart
<1> QED
  BY <1>1, <1>3, <1>4, <1>5, ThreadKeeps DEF IInv

LEMMA ThreadClearIInv ==
  ASSUME IInv, ThreadClear
  PROVE  IInv'
<1>1. /\ pc = "clear" /\ pc' = "wait" /\ node_request' = FALSE
      /\ UNCHANGED <<stage, opens, free_queue, data_queue, report_node, active_sem, thread_stop,
                     node, buffer, produced, accepted, sent, overtaken, leaked>>
  BY DEF ThreadClear, history
<1>2. TypeOK'
  BY <1>1 DEF IInv, TypeOK
<1>3. Control' /\ Apart'
  BY <1>1 DEF IInv, Control, Apart
<1> QED
  BY <1>1, <1>2, <1>3, ThreadKeeps DEF IInv

LEMMA ThreadRequeueIInv ==
  ASSUME IInv, ThreadRequeue
  PROVE  IInv'
<1>1. /\ pc = "requeue" /\ pc' = "check"
      /\ free_queue' = Append(free_queue, node) /\ node' = NoNode
      /\ UNCHANGED <<stage, opens, data_queue, report_node, node_request, active_sem, thread_stop,
                     buffer, produced, accepted, sent, overtaken, leaked>>
  BY DEF ThreadRequeue, history
<1>2. node \in Nodes /\ stage # "closed" /\ stage # "starting"
  BY <1>1 DEF IInv, Control
<1>3. /\ free_queue' \in Seq(Nodes)
      /\ \A n : In(n, free_queue') <=> In(n, free_queue) \/ n = node
      /\ Distinct(free_queue) /\ ~In(node, free_queue) => Distinct(free_queue')
  BY <1>1, <1>2, Enqueue DEF IInv, TypeOK
<1>4. TypeOK'
  BY <1>1, <1>3 DEF IInv, TypeOK
<1>5. Control'
  BY <1>1, <1>2 DEF IInv, Control
<1>6. Apart'
  <2>1. \A n \in Nodes : n # NoNode
    BY HidAssumption
  <2>2. Distinct(free_queue) /\ Distinct(data_queue) /\ ~In(node, free_queue)
    BY <1>2 DEF IInv, Apart
  <2>3. ASSUME NEW n \in Nodes
        PROVE  /\ In(n, free_queue) \/ In(n, data_queue) \/ n = report_node \/ n = node
               /\ In(n, free_queue) => ~In(n, data_queue) /\ n # report_node /\ n # node
               /\ In(n, data_queue) => n # report_node /\ n # node
               /\ n = report_node => n # node
    BY <1>2 DEF IInv, Apart
  <2> QED
    BY <1>1, <1>2, <1>3, <2>1, <2>2, <2>3 DEF Apart
<1> QED
  BY <1>1, <1>4, <1>5, <1>6, ThreadKeeps DEF IInv

LEMMA ThreadTakeIInv ==
  ASSUME IInv, ThreadTake
  PROVE  IInv'
<1>1. /\ pc = "take" /\ node' = Dequeued(data_queue) /\ data_queue' = Rest(data_queue)
      /\ pc' = IF data_queue = <<>> THEN "check" ELSE "send"
      /\ UNCHANGED <<stage, opens, free_queue, report_node, node_request, active_sem, thread_stop,
                     buffer, produced, accepted, sent, overtaken, leaked>>
  BY DEF ThreadTake, history
<1>2. /\ Dequeued(data_queue) \in Nodes \cup {NoNode} /\ Rest(data_queue) \in Seq(Nodes)
      /\ data_queue = <<>> <=> Dequeued(data_queue) = NoNode
      /\ \A n \in Nodes : In(n, data_queue) <=>
           n = Dequeued(data_queue) \/ In(n, Rest(data_queue))
      /\ Distinct(data_queue) =>
           Distinct(Rest(data_queue)) /\ ~In(Dequeued(data_queue), Rest(data_queue))
  BY Dequeue DEF IInv, TypeOK
<1>3. node = NoNode /\ stage # "closed" /\ stage # "starting"
  BY <1>1 DEF IInv, Control
<1>4. TypeOK'
  BY <1>1, <1>2 DEF IInv, TypeOK
<1>5. Control'
  BY <1>1, <1>2, <1>3 DEF IInv, Control
<1>6. Apart'
  <2>1. \A n \in Nodes : n # NoNode
    BY HidAssumption
  <2>2. Distinct(free_queue) /\ Distinct(data_queue)
    BY <1>3 DEF IInv, Apart
  <2>3. ASSUME NEW n \in Nodes
        PROVE  /\ In(n, free_queue) \/ In(n, data_queue) \/ n = report_node \/ n = node
               /\ In(n, free_queue) => ~In(n, data_queue) /\ n # report_node /\ n # node
               /\ In(n, data_queue) => n # report_node /\ n # node
               /\ n = report_node => n # node
    BY <1>3 DEF IInv, Apart
  <2> QED
    BY <1>1, <1>2, <1>3, <2>1, <2>2, <2>3 DEF Apart
<1>7. Prefix' /\ Leaks'
  BY <1>1 DEF IInv, Prefix, Leaks
<1>8. /\ Len(accepted) = Len(sent) + Len(data_queue)
      /\ \A i \in 1..Len(data_queue) : accepted[Len(sent) + i] = buffer[data_queue[i]]
      /\ Len(sent) \in Nat /\ Len(data_queue) \in Nat
  <2>1. Taken = 0 /\ Len(sent) \in Nat /\ Len(data_queue) \in Nat
    BY <1>1, LenProperties DEF Taken, IInv, TypeOK
  <2> QED
    BY <1>3, <2>1 DEF IInv, Content
<1>9. CASE data_queue = <<>>
  <2>1. pc' = "check" /\ data_queue' = data_queue
    BY <1>1, <1>9 DEF Rest
  <2>2. Content'
    BY <1>1, <1>8, <2>1 DEF Content, Taken
  <2> QED
    BY <1>4, <1>5, <1>6, <1>7, <2>2 DEF IInv
<1>10. CASE data_queue # <<>>
  <2>1. pc' = "send" /\ node' = Head(data_queue) /\ data_queue' = Tail(data_queue)
    BY <1>1, <1>10 DEF Dequeued, Rest
  <2>2. /\ node' = data_queue[1] /\ Len(data_queue) >= 1
        /\ Len(data_queue') = Len(data_queue) - 1
        /\ \A i \in 1..Len(data_queue') :
             i + 1 \in 1..Len(data_queue) /\ data_queue'[i] = data_queue[i + 1]
    <3>1. data_queue \in Seq(Nodes)
      BY DEF IInv, TypeOK
    <3>2. /\ Len(data_queue') = Len(data_queue) - 1
          /\ \A i \in 1..Len(data_queue') : data_queue'[i] = data_queue[i + 1]
          /\ Len(data_queue) >= 1 /\ Head(data_queue) = data_queue[1]
      BY <1>8, <1>10, <2>1, <3>1, HeadTailProperties, EmptySeq
    <3> QED
      BY <1>8, <2>1, <3>2
  <2>3. Len(accepted') = Len(sent') + 1 + Len(data_queue')
    BY <1>1, <1>8, <2>2
  <2>4. accepted'[Len(sent') + 1] = buffer'[node']
    BY <1>1, <1>8, <2>2
  <2>5. ASSUME NEW i \in 1..Len(data_queue')
        PROVE  accepted'[Len(sent') + 1 + i] = buffer'[data_queue'[i]]
    <3>1. Len(sent) + 1 + i = Len(sent) + (i + 1)
      BY <1>8, <2>2
    <3>2. accepted[Len(sent) + (i + 1)] = buffer[data_queue[i + 1]]
      BY <1>8, <2>2
    <3> QED
      BY <1>1, <2>2, <3>1, <3>2
  <2>6. Content'
    BY <2>1, <2>3, <2>4, <2>5 DEF Content, Taken
  <2> QED
    BY <1>4, <1>5, <1>6, <1>7, <2>6 DEF IInv
<1> QED
  BY <1>9, <1>10

(***************************************************************************)
(* The report sent is the next one taken.                                  *)
(***************************************************************************)
LEMMA ThreadSendIInv ==
  ASSUME IInv, ThreadSend
  PROVE  IInv'
<1>1. /\ pc = "send" /\ pc' = "requeue" /\ sent' = Append(sent, buffer[node])
      /\ UNCHANGED <<stage, opens, free_queue, data_queue, report_node, node_request, active_sem,
                     thread_stop, node, buffer, produced, accepted, overtaken, leaked>>
  BY DEF ThreadSend, queues
<1>2. stage # "closed" /\ stage # "starting"
  BY <1>1 DEF IInv, Control
<1>3. /\ Len(accepted) = Len(sent) + 1 + Len(data_queue)
      /\ accepted[Len(sent) + 1] = buffer[node]
      /\ \A i \in 1..Len(data_queue) : accepted[Len(sent) + 1 + i] = buffer[data_queue[i]]
  BY <1>1, <1>2 DEF IInv, Content, Taken
<1>4. Len(sent) \in Nat /\ Len(data_queue) \in Nat /\ accepted \in Seq(1..MaxReports)
  BY LenProperties DEF IInv, TypeOK
<1>5. buffer[node] \in 1..MaxReports
  <2>1. Len(sent) + 1 \in 1..Len(accepted)
    BY <1>3, <1>4
  <2> QED
    BY <1>3, <1>4, <2>1, ElementOfSeq
<1>6. /\ sent' \in Seq(1..MaxReports) /\ Len(sent') = Len(sent) + 1
      /\ \A i \in 1..Len(sent) : sent'[i] = sent[i]
      /\ sent'[Len(sent) + 1] = buffer[node]
  BY <1>1, <1>5, AppendProperties DEF IInv, TypeOK
<1>7. TypeOK'
  BY <1>1, <1>6 DEF IInv, TypeOK
<1>8. Control' /\ Apart'
  BY <1>1, <1>2 DEF IInv, Control, Apart
<1>9. Content'
  BY <1>1, <1>3, <1>4, <1>6 DEF Content, Taken
<1>10. Prefix'
  <2>1. \A i \in 1..Len(sent') : i \in 1..Len(sent) \/ i = Len(sent) + 1
    BY <1>4, <1>6
  <2>2. Len(sent') <= Len(accepted')
    BY <1>1, <1>3, <1>4, <1>6
  <2>3. \A i \in 1..Len(sent) : sent[i] = accepted[i]
    BY DEF IInv, Prefix
  <2> QED
    BY <1>1, <1>3, <1>6, <2>1, <2>2, <2>3 DEF Prefix
<1>11. Leaks'
  BY <1>1 DEF IInv, Leaks
<1> QED
  BY <1>7, <1>8, <1>9, <1>10, <1>11 DEF IInv

-----------------------------------------------------------------------------
(* Theorems                                                                *)

LEMMA NextIInv == IInv /\ [Next]_vars => IInv'
<1> SUFFICES ASSUME IInv, [Next]_vars PROVE IInv'
  OBVIOUS
<1>1. CASE Worker
  BY <1>1, HidInitIInv, HidRegisterIInv, HidExitIInv, HidJoinedIInv DEF Worker
<1>2. CASE Device
  BY <1>2, ReportTakenIInv, ReportRefusedIInv DEF Device
<1>3. CASE Thread
  BY <1>3, ThreadWakeIInv, ThreadTakeIInv, ThreadSendIInv, ThreadRequeueIInv, ThreadCheckIInv,
     ThreadAssignIInv, ThreadClearIInv DEF Thread
<1>4. CASE UNCHANGED vars
  BY <1>4 DEF vars, queues, thread, history, IInv, TypeOK, Control, Apart, Content, Taken,
              Prefix, Leaks
<1> QED
  BY <1>1, <1>2, <1>3, <1>4 DEF Next

(***************************************************************************)
(* Every reachable state satisfies the inductive invariant.                *)
(***************************************************************************)
THEOREM Invariance == Spec => []IInv
<1>1. Init => IInv
  BY InitIInv
<1>2. IInv /\ [Next]_vars => IInv'
  BY NextIInv
<1> QED
  BY <1>1, <1>2, PTL DEF Spec

(***************************************************************************)
(* Types: the queues hold nodes only, and a node holds a report that the   *)
(* device has produced, however interrupt, thread and worker interleave.   *)
(***************************************************************************)
THEOREM TypeCorrect == Spec => []TypeOK
<1>1. IInv => TypeOK
  BY DEF IInv
<1> QED
  BY <1>1, Invariance, PTL

(***************************************************************************)
(* In a queue without duplicates a node has one place or none.             *)
(***************************************************************************)
LEMMA PlacesInQueue ==
  ASSUME NEW q \in Seq(Nodes), Distinct(q), NEW n
  PROVE  Cardinality({i \in DOMAIN q : q[i] = n}) = IF In(n, q) THEN 1 ELSE 0
<1>1. DOMAIN q = 1..Len(q)
  BY LenProperties
<1>2. CASE In(n, q)
  <2>1. PICK i \in 1..Len(q) : q[i] = n
    BY <1>2 DEF In
  <2>2. {j \in DOMAIN q : q[j] = n} = {i}
    BY <1>1, <2>1 DEF Distinct
  <2> QED
    BY <1>2, <2>2, FS_Singleton
<1>3. CASE ~In(n, q)
  <2>1. {j \in DOMAIN q : q[j] = n} = {}
    BY <1>1, <1>3 DEF In
  <2> QED
    BY <1>3, <2>1, FS_EmptySet
<1> QED
  BY <1>2, <1>3

(***************************************************************************)
(* No node is in two places or lost while the driver is open, and closing  *)
(* it loses one node at most.                                              *)
(***************************************************************************)
THEOREM NoNodeTwice == Spec => []NodesConserved
<1>1. IInv => NodesConserved
  <2> SUFFICES ASSUME IInv PROVE NodesConserved
    OBVIOUS
  <2>1. leaked <= opens
    BY DEF IInv, TypeOK, Leaks
  <2>2. ASSUME stage # "closed", NEW n \in Nodes
        PROVE  Places(n) = 1
    <3> DEFINE v == {<<"next", report_node>>, <<"hand", node>>}
               h == {x \in v : x[2] = n}
    <3>1. /\ Cardinality({i \in DOMAIN free_queue : free_queue[i] = n})
               = IF In(n, free_queue) THEN 1 ELSE 0
          /\ Cardinality({i \in DOMAIN data_queue : data_queue[i] = n})
               = IF In(n, data_queue) THEN 1 ELSE 0
      BY <2>2, PlacesInQueue DEF IInv, TypeOK, Apart
    <3>2. Cardinality(h) = IF n = report_node \/ n = node THEN 1 ELSE 0
      <4>1. CASE n = report_node
        <5>1. n # node
          BY <2>2, <4>1 DEF IInv, Apart
        <5>2. h = {<<"next", report_node>>}
          BY <4>1, <5>1
        <5> QED
          BY <4>1, <5>2, FS_Singleton
      <4>2. CASE n = node /\ n # report_node
        <5>1. h = {<<"hand", node>>}
          BY <4>2
        <5> QED
          BY <4>2, <5>1, FS_Singleton
      <4>3. CASE n # node /\ n # report_node
        <5>1. h = {}
          BY <4>3
        <5> QED
          BY <4>3, <5>1, FS_EmptySet
      <4> QED
        BY <4>1, <4>2, <4>3
    <3>3. Places(n) = (IF In(n, free_queue) THEN 1 ELSE 0)
                      + (IF In(n, data_queue) THEN 1 ELSE 0)
                      + (IF n = report_node \/ n = node THEN 1 ELSE 0)
      BY <3>1, <3>2 DEF Places
    <3>4. /\ In(n, free_queue) \/ In(n, data_queue) \/ n = report_node \/ n = node
          /\ In(n, free_queue) => ~In(n, data_queue) /\ n # report_node /\ n # node
          /\ In(n, data_queue) => n # report_node /\ n # node
      BY <2>2 DEF IInv, Apart
    <3> QED
      BY <3>3, <3>4
  <2> QED
    BY <2>1, <2>2 DEF NodesConserved
<1> QED
  BY <1>1, Invariance, PTL

(***************************************************************************)
(* The reports sent are the first of those taken, unchanged and in order.  *)
(***************************************************************************)
THEOREM SentInOrder == Spec => []ReportsInOrder
<1>1. IInv => ReportsInOrder
  <2> SUFFICES ASSUME IInv PROVE ReportsInOrder
    OBVIOUS
  <2>1. sent \in Seq(1..MaxReports) /\ accepted \in Seq(1..MaxReports)
        /\ Len(sent) \in Nat /\ Len(accepted) \in Nat /\ Len(sent) <= Len(accepted)
    BY LenProperties DEF IInv, TypeOK, Prefix
  <2> DEFINE p == SubSeq(accepted, 1, Len(sent))
  <2>2. SubSeq(sent, 1, Len(sent)) = sent
    BY <2>1, SubSeqFull
  <2>3. ASSUME NEW i \in 1..Len(sent)
        PROVE  accepted[i] \in 1..MaxReports
    <3>1. i \in 1..Len(accepted)
      BY <2>1
    <3> QED
      BY <2>1, <3>1, ElementOfSeq
  <2>4. /\ p \in Seq(1..MaxReports)
        /\ Len(p) = IF 1 <= Len(sent) THEN Len(sent) - 1 + 1 ELSE 0
        /\ \A i \in 1..Len(sent) - 1 + 1 : p[i] = accepted[1 + i - 1]
    BY <2>1, <2>3, SubSeqProperties
  <2>5. Len(p) = Len(sent) /\ \A i \in 1..Len(sent) : p[i] = accepted[i]
    BY <2>1, <2>4
  <2>6. p = sent
    BY <2>1, <2>4, <2>5, SeqEqual DEF IInv, Prefix
  <2> QED
    BY <2>1, <2>2, <2>6 DEF ReportsInOrder, IsPrefix
<1> QED
  BY <1>1, Invariance, PTL
=============================================================================
