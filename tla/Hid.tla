-------------------------------- MODULE Hid --------------------------------
(***************************************************************************)
(* The HID driver (hid.c): the device's interrupt fills operation nodes    *)
(* that a thread sends to the AP and gives back.  A node is in the free    *)
(* queue, in the data queue, the one the interrupt fills next              *)
(* (report_node) or in the thread's hands.                                 *)
(*                                                                         *)
(* The queues are changed with interrupts locked, everything else is not:  *)
(* the interrupt may come between any two steps of the thread and of the   *)
(* worker that opens and closes the driver.  A report is its number.       *)
(***************************************************************************)
EXTENDS Naturals, Sequences, FiniteSets, SequencesExt

CONSTANTS
  Nodes,      \* MAX_REPORT_OPERATIONS
  MaxReports, \* bound on the reports of the device
  MaxOpens    \* bound on the calls of gb_hid_init

NoNode == "none"

ASSUME HidAssumption ==
  /\ IsFiniteSet(Nodes) /\ Nodes # {} /\ NoNode \notin Nodes
  /\ MaxReports \in Nat /\ MaxOpens \in Nat

VARIABLES
  stage,                    \* of gb_hid_init and gb_hid_exit
  opens,
  free_queue, data_queue,
  report_node, node_request,
  active_sem, thread_stop,
  pc, node,                 \* report_proc_thread, and the node it holds
  buffer,                   \* the report in each node
  produced, accepted, sent, \* reports: how many there were, taken, sent
  leaked,                   \* how many nodes nobody will release
  overtaken                 \* the interrupt took the last node while the thread gave one

queues == <<free_queue, data_queue, report_node, node_request>>
thread == <<pc, node>>
history == <<produced, accepted, sent, overtaken>>
vars == <<stage, opens, queues, active_sem, thread_stop, thread, buffer,
          history, leaked>>

Dequeued(queue) == IF queue = <<>> THEN NoNode ELSE Head(queue)
Rest(queue) == IF queue = <<>> THEN <<>> ELSE Tail(queue)

Init ==
  /\ stage = "closed" /\ opens = 0
  /\ free_queue = <<>> /\ data_queue = <<>>
  /\ report_node = NoNode /\ node_request = FALSE
  /\ active_sem = 0 /\ thread_stop = FALSE
  /\ pc = "none" /\ node = NoNode
  /\ buffer = [n \in Nodes |-> 0]
  /\ produced = 0 /\ accepted = <<>> /\ sent = <<>>
  /\ leaked = 0 /\ overtaken = FALSE

-----------------------------------------------------------------------------
(* gb_hid_init, gb_hid_exit                                                *)

\* The nodes are allocated, the semaphore and the thread created.
HidInit ==
  /\ stage = "closed" /\ opens < MaxOpens
  /\ stage' = "starting" /\ opens' = opens + 1
  /\ free_queue' = SetToSeq(Nodes) /\ data_queue' = <<>>
  /\ active_sem' = 0 /\ thread_stop' = FALSE
  /\ pc' = "wait" /\ node' = NoNode
  /\ report_node' = NoNode /\ node_request' = FALSE
  /\ accepted' = <<>> /\ sent' = <<>> /\ overtaken' = FALSE
  /\ UNCHANGED <<buffer, produced, leaked>>

\* The first node to fill is taken; then the device has the callback, or
\* refuses it and everything is undone.
HidRegister ==
  /\ stage = "starting"
  /\ report_node' = Dequeued(free_queue) /\ free_queue' = Rest(free_queue)
  /\ \/ stage' = "open" /\ UNCHANGED <<active_sem, thread_stop>>
     \/ stage' = "joining" /\ thread_stop' = TRUE /\ active_sem' = active_sem + 1
  /\ UNCHANGED <<opens, data_queue, node_request, thread, buffer, history, leaked>>

\* gb_hid_exit: the callback is unregistered and the thread told to stop.
HidExit ==
  /\ stage = "open"
  /\ stage' = "joining"
  /\ thread_stop' = TRUE /\ active_sem' = active_sem + 1
  /\ UNCHANGED <<opens, queues, thread, buffer, history, leaked>>

\* Mutant: only the nodes that are not in use are released.
HidJoinedFreeOnly ==
  /\ stage = "joining" /\ pc = "ended"
  /\ stage' = "closed" /\ pc' = "none"
  /\ leaked' = leaked + Cardinality(Nodes \ Range(free_queue))
  /\ free_queue' = <<>> /\ data_queue' = <<>>
  /\ UNCHANGED <<opens, report_node, node_request, active_sem, thread_stop, node,
                 buffer, history>>

\* hid_receiver_callback_deinit behind pthread_join: the nodes of both queues
\* are released.
HidJoined ==
  /\ stage = "joining" /\ pc = "ended"
  /\ stage' = "closed" /\ pc' = "none"
  /\ leaked' = leaked + Cardinality(Nodes \ (Range(free_queue) \cup Range(data_queue)))
  /\ free_queue' = <<>> /\ data_queue' = <<>>
  /\ UNCHANGED <<opens, report_node, node_request, active_sem, thread_stop, node,
                 buffer, history>>

-----------------------------------------------------------------------------
(* hid_event_callback_routine                                              *)

\* A report that is not as long as the longest is refused; without a node it
\* is lost, and the thread is woken.
ReportRefused ==
  /\ stage = "open" /\ produced < MaxReports
  /\ produced' = produced + 1
  /\ \/ report_node = NoNode /\ active_sem' = active_sem + 1
     \/ report_node # NoNode /\ UNCHANGED active_sem
  /\ UNCHANGED <<stage, opens, queues, thread_stop, thread, buffer, accepted, sent,
                 overtaken, leaked>>

\* Mutant: a report is put before those that wait to be sent.
ReportTakenFirst ==
  /\ stage = "open" /\ produced < MaxReports
  /\ report_node # NoNode
  /\ produced' = produced + 1
  /\ accepted' = Append(accepted, produced')
  /\ buffer' = [buffer EXCEPT ![report_node] = produced']
  /\ data_queue' = <<report_node>> \o data_queue
  /\ report_node' = Dequeued(free_queue) /\ free_queue' = Rest(free_queue)
  /\ node_request' = (node_request \/ free_queue = <<>>)
  /\ overtaken' = (overtaken \/ (free_queue = <<>> /\ pc \in {"check", "clear"}))
  /\ active_sem' = active_sem + 1
  /\ UNCHANGED <<stage, opens, thread_stop, thread, sent, leaked>>

\* Mutant: the thread is not asked for a node.
ReportTakenSilently ==
  /\ stage = "open" /\ produced < MaxReports
  /\ report_node # NoNode
  /\ produced' = produced + 1
  /\ accepted' = Append(accepted, produced')
  /\ buffer' = [buffer EXCEPT ![report_node] = produced']
  /\ data_queue' = Append(data_queue, report_node)
  /\ report_node' = Dequeued(free_queue) /\ free_queue' = Rest(free_queue)
  /\ node_request' = node_request
  /\ overtaken' = (overtaken \/ (free_queue = <<>> /\ pc \in {"check", "clear"}))
  /\ active_sem' = active_sem + 1
  /\ UNCHANGED <<stage, opens, thread_stop, thread, sent, leaked>>

\* The report is queued and the next node taken; without one the thread is asked.
ReportTaken ==
  /\ stage = "open" /\ produced < MaxReports
  /\ report_node # NoNode
  /\ produced' = produced + 1
  /\ accepted' = Append(accepted, produced')
  /\ buffer' = [buffer EXCEPT ![report_node] = produced']
  /\ data_queue' = Append(data_queue, report_node)
  /\ report_node' = Dequeued(free_queue) /\ free_queue' = Rest(free_queue)
  /\ node_request' = (node_request \/ free_queue = <<>>)
  /\ overtaken' = (overtaken \/ (free_queue = <<>> /\ pc \in {"check", "clear"}))
  /\ active_sem' = active_sem + 1
  /\ UNCHANGED <<stage, opens, thread_stop, thread, sent, leaked>>

-----------------------------------------------------------------------------
(* report_proc_thread                                                      *)

ThreadWake ==
  /\ pc = "wait" /\ active_sem > 0
  /\ active_sem' = active_sem - 1
  /\ pc' = IF thread_stop THEN "ended" ELSE "take"
  /\ UNCHANGED <<stage, opens, queues, thread_stop, node, buffer, history, leaked>>

ThreadTake ==
  /\ pc = "take"
  /\ node' = Dequeued(data_queue) /\ data_queue' = Rest(data_queue)
  /\ pc' = IF data_queue = <<>> THEN "check" ELSE "send"
  /\ UNCHANGED <<stage, opens, free_queue, report_node, node_request, active_sem,
                 thread_stop, buffer, history, leaked>>

\* gb_operation_send_request, whether it succeeds or not.
ThreadSend ==
  /\ pc = "send"
  /\ sent' = Append(sent, buffer[node])
  /\ pc' = "requeue"
  /\ UNCHANGED <<stage, opens, queues, active_sem, thread_stop, node, buffer,
                 produced, accepted, overtaken, leaked>>

ThreadRequeue ==
  /\ pc = "requeue"
  /\ free_queue' = Append(free_queue, node) /\ node' = NoNode
  /\ pc' = "check"
  /\ UNCHANGED <<stage, opens, data_queue, report_node, node_request, active_sem,
                 thread_stop, buffer, history, leaked>>

\* Without a request for a node the thread waits again.
ThreadCheck ==
  /\ pc = "check"
  /\ \/ /\ node_request
        /\ node' = Dequeued(free_queue) /\ free_queue' = Rest(free_queue)
        /\ pc' = "assign"
     \/ /\ ~node_request
        /\ pc' = "wait"
        /\ UNCHANGED <<node, free_queue>>
  /\ UNCHANGED <<stage, opens, data_queue, report_node, node_request, active_sem,
                 thread_stop, buffer, history, leaked>>

ThreadAssign ==
  /\ pc = "assign"
  /\ report_node' = node /\ node' = NoNode
  /\ pc' = "clear"
  /\ UNCHANGED <<stage, opens, free_queue, data_queue, node_request, active_sem,
                 thread_stop, buffer, history, leaked>>

ThreadClear ==
  /\ pc = "clear"
  /\ node_request' = FALSE
  /\ pc' = "wait"
  /\ UNCHANGED <<stage, opens, free_queue, data_queue, report_node, active_sem,
                 thread_stop, node, buffer, history, leaked>>

Thread ==
  \/ ThreadWake \/ ThreadTake \/ ThreadSend \/ ThreadRequeue
  \/ ThreadCheck \/ ThreadAssign \/ ThreadClear
Device == ReportTaken \/ ReportRefused
Worker == HidInit \/ HidRegister \/ HidExit \/ HidJoined
Next == Worker \/ Device \/ Thread
Spec == Init /\ [][Next]_vars /\ WF_vars(Thread) /\ WF_vars(HidJoined)

-----------------------------------------------------------------------------
TypeOK ==
  /\ stage \in {"closed", "starting", "open", "joining"} /\ opens \in 0..MaxOpens
  /\ free_queue \in Seq(Nodes) /\ data_queue \in Seq(Nodes)
  /\ report_node \in Nodes \cup {NoNode} /\ node_request \in BOOLEAN
  /\ active_sem \in Nat /\ thread_stop \in BOOLEAN
  /\ pc \in {"none", "wait", "take", "send", "requeue", "check", "assign", "clear",
             "ended"}
  /\ node \in Nodes \cup {NoNode}
  /\ buffer \in [Nodes -> 0..MaxReports]
  /\ produced \in 0..MaxReports
  /\ accepted \in Seq(1..MaxReports) /\ sent \in Seq(1..MaxReports)
  /\ leaked \in Nat /\ overtaken \in BOOLEAN

\* A node is in one place at a time, whatever the interrupt does between the
\* steps of the thread, and closing the driver loses no node but the one the
\* interrupt was to fill next (hid.c:630).
Places(n) ==
  Cardinality({i \in DOMAIN free_queue : free_queue[i] = n}) +
  Cardinality({i \in DOMAIN data_queue : data_queue[i] = n}) +
  Cardinality({v \in {<<"next", report_node>>, <<"hand", node>>} : v[2] = n})
NodesConserved ==
  /\ stage # "closed" => \A n \in Nodes : Places(n) = 1
  /\ leaked <= opens

\* Reports leave in the order in which the interrupt took them, none twice and
\* none changed under the thread that sends it (hid.c:440, 485).
ReportsInOrder == IsPrefix(sent, accepted)

\* The driver always gets a node for the next report again, and sends all it has
\* taken, unless the interrupt took the last free node between the requeue and the
\* end of the thread's round, which then cancels the request for a node although
\* it has none, or has given one already: from then on all reports are lost
\* (hid.c:489-495).
ReportsFlow ==
  /\ (stage = "open" /\ report_node = NoNode) ~>
       (report_node # NoNode \/ stage # "open" \/ overtaken)
  /\ (stage = "open" /\ accepted # <<>>) ~> (stage # "open" \/ sent = accepted)
=============================================================================
