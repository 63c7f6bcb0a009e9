---------------------------- MODULE GreybusCore ----------------------------
(***************************************************************************)
(* The receive path of the Greybus core: transports allocate a message     *)
(* from the common heap and hand it to greybus_rx_handler, which queues it *)
(* on gb_rx_msgq; one worker thread takes the messages off the queue and   *)
(* runs the handler of the cport, which answers and releases them.  Other  *)
(* threads (log, raw, audio, a UART's credits) take messages of their own  *)
(* from the same heap.                                                     *)
(*                                                                         *)
(* The heap is a set of blocks, one message per block: a pointer is a      *)
(* block, so that a message used after its release, released twice or      *)
(* never released shows.  Every allocation and every queue operation       *)
(* blocks its thread (K_FOREVER).                                          *)
(***************************************************************************)
EXTENDS Naturals, Sequences

CONSTANTS
  Requests,    \* the messages the peer sends: operations, and the answers
               \* to the node's own requests
  Receivers,   \* threads that run a transport's receive loop
  Events,      \* threads that send requests of their own
  Forgetful,   \* those of them that never release what they sent
  Blocks,      \* the messages the heap has room for
  QueueLen,    \* capacity of gb_rx_msgq (two messages per cport)
  Handler,     \* what the cport's driver does with each request
  Free,        \* content of a block that is not allocated
  None         \* the null pointer

(***************************************************************************)
(* The shapes of op_handler, by what they allocate, answer and release.    *)
(***************************************************************************)
Shapes == {"none", "empty", "payload", "keep", "undo", "silent", "credits", "formats",
           "scratch", "load", "found", "last", "failed", "failedLast"}

(***************************************************************************)
(* What the firmware handlers do.  Requests of their own are allocated,    *)
(* sent and released.                                                      *)
(*   "load"        answer, then ask the AP to find the image               *)
(*   "found"       release the response, then read the id in it for the    *)
(*                 first fetch, which is sent from the stack               *)
(*   "last"        the last chunk: release the firmware, write, release    *)
(*                 the response, report                                    *)
(*   "failed"      a chunk that cannot be written: release the firmware,   *)
(*                 report, release the response                            *)
(*   "failedLast"  the last chunk cannot be written                        *)
(***************************************************************************)
FwProgram(shape) ==
  CASE shape = "load" -> <<"reply", "release", "alloc", "free">>
    [] shape = "found" -> <<"release", "read">>
    [] shape = "last" -> <<"alloc", "free", "release", "alloc", "free">>
    [] shape = "failed" -> <<"alloc", "free", "alloc", "free", "release">>
    [] OTHER -> <<"alloc", "free", "alloc", "free", "alloc", "free", "release">>

(***************************************************************************)
(* What the other drivers do.                                              *)
(*   "empty"    reply from the stack (or from the request, loopback), then *)
(*              release the request                                        *)
(*   "payload"  allocate a reply, send it, release request and reply       *)
(*   "keep"     allocate a reply, send and release it; the request is      *)
(*              never released (get_manifest of control, i2c transfer)     *)
(*   "undo"     allocate a reply, fail, release it, reply from the stack,  *)
(*              release the request (i2c transfer whose bus access fails)  *)
(*   "silent"   release the message without a reply (an answer to a        *)
(*              request of the node; a chunk but the last)                 *)
(*   "credits"  reply, send a request of its own, release the request      *)
(*              (data for a UART)                                          *)
(*   "formats"  "payload", with memory of its own to build the reply in    *)
(*              (camera)                                                   *)
(*   "scratch"  memory of its own that is released before the reply        *)
(*              (lights; camera when the device refuses)                   *)
(***************************************************************************)
Program(shape) ==
  CASE shape = "none" -> <<>>
    [] shape = "empty" -> <<"reply", "release">>
    [] shape = "payload" -> <<"alloc", "reply", "release", "free">>
    [] shape = "keep" -> <<"alloc", "reply", "free">>
    [] shape = "undo" -> <<"alloc", "free", "reply", "release">>
    [] shape = "silent" -> <<"release">>
    [] shape = "credits" -> <<"reply", "alloc", "free", "release">>
    [] shape = "formats" -> <<"scratch", "alloc", "reply", "release", "free", "discard">>
    [] shape = "scratch" -> <<"scratch", "discard", "reply", "release">>
    [] OTHER -> FwProgram(shape)

\* The step of the program after which the peer owes or is owed nothing more.
Serves(shape) ==
  IF \E i \in 1..Len(Program(shape)) : Program(shape)[i] = "reply"
  THEN "reply" ELSE "release"

ASSUME CoreAssumption ==
  /\ QueueLen \in Nat \ {0}
  /\ Handler \in [Requests -> Shapes]
  /\ None \notin Blocks
  /\ None \notin Requests
  /\ Free \notin [kind : {"req", "out", "tmp"}, op : Requests]
  /\ Free \notin [kind : {"evt"}, op : Events]

VARIABLES
  heap,      \* what each block holds
  arrived,   \* the requests whose header a receiver has read
  rx,        \* each receiver: pc, operation being received, message
  msgq,      \* gb_rx_msgq: pointers to the queued messages
  worker,    \* the pending message worker, see below
  event,     \* each event thread: pc, message
  replies    \* the operations whose reply went to the transport, in order

vars == <<heap, arrived, rx, msgq, worker, event, replies>>

Message == [kind : {"req", "out", "tmp"}, op : Requests]
             \cup [kind : {"evt"}, op : Events]

IdleRx == [pc |-> "idle", op |-> None, msg |-> None]
IdleEvent == [pc |-> "idle", msg |-> None]

\* The worker: the operation it handles, the next step of the handler's
\* program, and its pointers to the request, to a message it has made and to
\* other memory of its own.
IdleWorker == [op |-> None, at |-> 0, req |-> None, out |-> None, tmp |-> None]

Init ==
  /\ heap = [b \in Blocks |-> Free]
  /\ arrived = {}
  /\ rx = [t \in Receivers |-> IdleRx]
  /\ msgq = <<>>
  /\ worker = IdleWorker
  /\ event = [e \in Events |-> IdleEvent]
  /\ replies = <<>>

(***************************************************************************)
(* gb_alloc takes a free block, and is disabled (its thread waits) when    *)
(* there is none.  gb_free gives it back.                                  *)
(***************************************************************************)
Alloc(b, m) == heap[b] = Free /\ heap' = [heap EXCEPT ![b] = m]
Dealloc(b) == heap' = [heap EXCEPT ![b] = Free]

-----------------------------------------------------------------------------
(* A transport's receive loop. *)

\* The header of the next message is read; its memory is asked for.
RxHeader(t, r) ==
  /\ rx[t].pc = "idle"
  /\ r \notin arrived
  /\ arrived' = arrived \cup {r}
  /\ rx' = [rx EXCEPT ![t] = [pc |-> "alloc", op |-> r, msg |-> None]]
  /\ UNCHANGED <<heap, msgq, worker, event, replies>>

\* The memory is there; the payload is read into it.
RxAlloc(t, b) ==
  /\ rx[t].pc = "alloc"
  /\ Alloc(b, [kind |-> "req", op |-> rx[t].op])
  /\ rx' = [rx EXCEPT ![t].pc = "handler", ![t].msg = b]
  /\ UNCHANGED <<arrived, msgq, worker, event, replies>>

\* All is read; greybus_rx_handler, no driver: the message is released.
RxReject(t) ==
  /\ rx[t].pc = "handler"
  /\ Handler[heap[rx[t].msg].op] = "none"
  /\ Dealloc(rx[t].msg)
  /\ rx' = [rx EXCEPT ![t] = IdleRx]
  /\ UNCHANGED <<arrived, msgq, worker, event, replies>>

\* The payload cannot be read, or not all of it: the message is released.
\* The peer may send it again.
RxFail(t) ==
  /\ rx[t].pc = "handler"
  /\ Dealloc(rx[t].msg)
  /\ rx' = [rx EXCEPT ![t] = IdleRx]
  /\ arrived' = arrived \ {rx[t].op}
  /\ UNCHANGED <<msgq, worker, event, replies>>

\* Mutant: the queue does not bound what it takes.
RxPutUnbounded(t) ==
  /\ rx[t].pc = "handler"
  /\ Handler[heap[rx[t].msg].op] # "none"
  /\ msgq' = Append(msgq, rx[t].msg)
  /\ rx' = [rx EXCEPT ![t] = IdleRx]
  /\ UNCHANGED <<heap, arrived, worker, event, replies>>

\* Mutant: the receiver takes the queued message for refused and tries again.
RxPutRetried(t) ==
  /\ rx[t].pc = "handler"
  /\ Handler[heap[rx[t].msg].op] # "none"
  /\ Len(msgq) < QueueLen
  /\ msgq' = Append(msgq, rx[t].msg)
  /\ UNCHANGED <<heap, arrived, rx, worker, event, replies>>

\* Mutant: k_msgq_put with K_NO_WAIT, the message dropped when it fails.
RxPutNoWait(t) ==
  /\ rx[t].pc = "handler"
  /\ Handler[heap[rx[t].msg].op] # "none"
  /\ IF Len(msgq) < QueueLen
     THEN msgq' = Append(msgq, rx[t].msg) /\ UNCHANGED heap
     ELSE Dealloc(rx[t].msg) /\ UNCHANGED msgq
  /\ rx' = [rx EXCEPT ![t] = IdleRx]
  /\ UNCHANGED <<arrived, worker, event, replies>>

\* All is read; greybus_rx_handler: k_msgq_put waits for a place in the queue.
RxPut(t) ==
  /\ rx[t].pc = "handler"
  /\ Handler[heap[rx[t].msg].op] # "none"
  /\ Len(msgq) < QueueLen
  /\ msgq' = Append(msgq, rx[t].msg)
  /\ rx' = [rx EXCEPT ![t] = IdleRx]
  /\ UNCHANGED <<heap, arrived, worker, event, replies>>

-----------------------------------------------------------------------------
(* gb_pending_message_worker and the handler it runs. *)

Script == Program(Handler[worker.op])
Doing(step) == worker.op # None /\ Script[worker.at] = step

\* The worker w after a step of the program: at the next, or back at the queue.
Then(w) == IF w.at = Len(Script) THEN IdleWorker ELSE [w EXCEPT !.at = w.at + 1]

\* Mutant: k_msgq_peek, which leaves the message in the queue.
WorkerPeek ==
  /\ worker.op = None
  /\ msgq # <<>>
  /\ worker' = [IdleWorker EXCEPT !.op = heap[Head(msgq)].op, !.at = 1, !.req = Head(msgq)]
  /\ UNCHANGED <<heap, arrived, rx, msgq, event, replies>>

WorkerGet ==
  /\ worker.op = None
  /\ msgq # <<>>
  /\ worker' = [IdleWorker EXCEPT !.op = heap[Head(msgq)].op, !.at = 1, !.req = Head(msgq)]
  /\ msgq' = Tail(msgq)
  /\ UNCHANGED <<heap, arrived, rx, event, replies>>

\* A reply, or a request of the node.
WorkerAlloc(b) ==
  /\ Doing("alloc")
  /\ Alloc(b, [kind |-> "out", op |-> worker.op])
  /\ worker' = Then([worker EXCEPT !.out = b])
  /\ UNCHANGED <<arrived, rx, msgq, event, replies>>

\* Memory that is not a message.
WorkerScratch(b) ==
  /\ Doing("scratch")
  /\ Alloc(b, [kind |-> "tmp", op |-> worker.op])
  /\ worker' = Then([worker EXCEPT !.tmp = b])
  /\ UNCHANGED <<arrived, rx, msgq, event, replies>>

\* Mutant: the reply is sent with the helper that releases the request, and
\* the handler releases it again.
WorkerSendAndFree ==
  /\ Doing("reply")
  /\ replies' = Append(replies, heap[worker.req].op)
  /\ Dealloc(worker.req)
  /\ worker' = Then(worker)
  /\ UNCHANGED <<arrived, rx, msgq, event>>

\* The reply goes to the transport, whose result is ignored; its id is the one
\* in the request.
WorkerReply ==
  /\ Doing("reply")
  /\ replies' = Append(replies, heap[worker.req].op)
  /\ worker' = Then(worker)
  /\ UNCHANGED <<heap, arrived, rx, msgq, event>>

WorkerRelease ==
  /\ Doing("release")
  /\ Dealloc(worker.req)
  /\ worker' = Then(worker)
  /\ UNCHANGED <<arrived, rx, msgq, event, replies>>

\* The firmware id is read through the pointer to the released response.
WorkerRead ==
  /\ Doing("read")
  /\ worker' = Then(worker)
  /\ UNCHANGED <<heap, arrived, rx, msgq, event, replies>>

\* Mutant: the message the worker has made is forgotten.
WorkerFreeForgets ==
  /\ Doing("free")
  /\ worker' = Then([worker EXCEPT !.out = None])
  /\ UNCHANGED <<heap, arrived, rx, msgq, event, replies>>

WorkerFree ==
  /\ Doing("free")
  /\ Dealloc(worker.out)
  /\ worker' = Then([worker EXCEPT !.out = None])
  /\ UNCHANGED <<arrived, rx, msgq, event, replies>>

WorkerDiscard ==
  /\ Doing("discard")
  /\ Dealloc(worker.tmp)
  /\ worker' = Then([worker EXCEPT !.tmp = None])
  /\ UNCHANGED <<arrived, rx, msgq, event, replies>>

-----------------------------------------------------------------------------
(* A thread that sends a request of its own: allocate, send, release. *)

EventStart(e) ==
  /\ event[e].pc = "idle"
  /\ event' = [event EXCEPT ![e].pc = "alloc"]
  /\ UNCHANGED <<heap, arrived, rx, msgq, worker, replies>>

EventAlloc(e, b) ==
  /\ event[e].pc = "alloc"
  /\ Alloc(b, [kind |-> "evt", op |-> e])
  /\ event' = [event EXCEPT ![e] = [pc |-> "sent", msg |-> b]]
  /\ UNCHANGED <<arrived, rx, msgq, worker, replies>>

\* log, raw, UART.
EventFree(e) ==
  /\ event[e].pc = "sent"
  /\ e \notin Forgetful
  /\ Dealloc(event[e].msg)
  /\ event' = [event EXCEPT ![e] = IdleEvent]
  /\ UNCHANGED <<arrived, rx, msgq, worker, replies>>

\* The jack and button events of audio return what the send returns, and
\* nobody releases the message.
EventForget(e) ==
  /\ event[e].pc = "sent"
  /\ e \in Forgetful
  /\ event' = [event EXCEPT ![e] = IdleEvent]
  /\ UNCHANGED <<heap, arrived, rx, msgq, worker, replies>>

-----------------------------------------------------------------------------
Receive(t) ==
  \/ \E b \in Blocks : RxAlloc(t, b)
  \/ RxReject(t)
  \/ RxPut(t)

Work ==
  \/ WorkerGet
  \/ \E b \in Blocks : WorkerAlloc(b) \/ WorkerScratch(b)
  \/ WorkerReply
  \/ WorkerRelease
  \/ WorkerRead
  \/ WorkerFree
  \/ WorkerDiscard

SendEvent(e) ==
  \/ \E b \in Blocks : EventAlloc(e, b)
  \/ EventFree(e)
  \/ EventForget(e)

Next ==
  \/ Work
  \/ \E t \in Receivers :
       Receive(t) \/ RxFail(t) \/ \E r \in Requests : RxHeader(t, r)
  \/ \E e \in Events : EventStart(e) \/ SendEvent(e)

(***************************************************************************)
(* The threads are Zephyr threads that run when they can: a step that      *)
(* stays enabled is taken.  Nothing obliges the peer to send, a read to    *)
(* fail, nor an event to happen.                                           *)
(***************************************************************************)
Fairness ==
  /\ WF_vars(Work)
  /\ \A t \in Receivers : WF_vars(Receive(t))
  /\ \A e \in Events : WF_vars(SendEvent(e))

SafeSpec == Init /\ [][Next]_vars
Spec == SafeSpec /\ Fairness

-----------------------------------------------------------------------------
(* Properties *)

TypeOK ==
  /\ heap \in [Blocks -> Message \cup {Free}]
  /\ arrived \subseteq Requests
  /\ rx \in [Receivers -> [pc : {"idle", "alloc", "handler"},
                           op : Requests \cup {None}, msg : Blocks \cup {None}]]
  /\ msgq \in Seq(Blocks)
  /\ Len(msgq) <= QueueLen
  /\ worker \in [op : Requests \cup {None}, at : 0..7, req : Blocks \cup {None},
                 out : Blocks \cup {None}, tmp : Blocks \cup {None}]
  /\ event \in [Events -> [pc : {"idle", "alloc", "sent"}, msg : Blocks \cup {None}]]
  /\ replies \in Seq(Requests)

\* Before step i of a program: first is done, and last not again since.
Since(shape, i, first, last) ==
  \E j \in 1..(i - 1) : /\ Program(shape)[j] = first
                       /\ \A k \in (j + 1)..(i - 1) : Program(shape)[k] # last

\* Before step i of a program: that step is done.
Done(shape, i, step) == \E j \in 1..(i - 1) : Program(shape)[j] = step

Released == Done(Handler[worker.op], worker.at, "release")

(***************************************************************************)
(* What each thread holds at each of its steps: with the two invariants    *)
(* below, the inductive strengthening of the theorems.                     *)
(***************************************************************************)
PcOK ==
  /\ \A t \in Receivers :
       /\ rx[t].pc = "idle" <=> rx[t].op = None
       /\ rx[t].pc = "handler" <=> rx[t].msg # None
       /\ rx[t].op # None => rx[t].op \in arrived
       /\ \A u \in Receivers : u # t /\ rx[t].op # None => rx[u].op # rx[t].op
  /\ \A i \in 1..Len(msgq) : Handler[heap[msgq[i]].op] # "none"
  /\ worker.op = None => worker = IdleWorker
  /\ worker.op # None =>
       /\ worker.at \in 1..Len(Script)
       /\ worker.req # None
       /\ worker.out # None <=> Since(Handler[worker.op], worker.at, "alloc", "free")
       /\ worker.tmp # None <=> Since(Handler[worker.op], worker.at, "scratch", "discard")
  /\ \A e \in Events : event[e].pc = "sent" <=> event[e].msg # None

Queued == {msgq[i] : i \in 1..Len(msgq)}

\* The messages the worker has to release, or to forget.
Holding ==
  IF worker.op = None THEN {}
  ELSE {worker.out, worker.tmp} \cup (IF Released THEN {} ELSE {worker.req})

(***************************************************************************)
(* Every message has one owner: the receiver that allocated it, one place  *)
(* of the queue, the worker or an event thread.  Passing a pointer on from *)
(* greybus_rx_handler to the queue and from there to the handler never     *)
(* leaves a second user behind, so that no release frees another's message.*)
(***************************************************************************)
OneOwner ==
  /\ \A i, j \in 1..Len(msgq) : i # j => msgq[i] # msgq[j]
  /\ \A i \in 1..Len(msgq) :
       /\ msgq[i] \notin Holding
       /\ \A t \in Receivers : rx[t].msg # msgq[i]
       /\ \A e \in Events : event[e].msg # msgq[i]
  /\ worker.op # None /\ ~Released => worker.req \notin {worker.out, worker.tmp}
  /\ worker.out # None => worker.out # worker.tmp
  /\ \A t \in Receivers : rx[t].msg # None =>
       /\ rx[t].msg \notin Holding
       /\ \A u \in Receivers : u # t => rx[u].msg # rx[t].msg
       /\ \A e \in Events : event[e].msg # rx[t].msg
  /\ \A e \in Events : event[e].msg # None =>
       /\ event[e].msg \notin Holding
       /\ \A f \in Events : f # e => event[f].msg # event[e].msg

(***************************************************************************)
(* No thread uses a pointer to released memory: what the queue refers to,  *)
(* what a handler answers and releases and what it has made are the        *)
(* messages they were when the pointer was taken, until the handler itself *)
(* releases them.  One access is not covered, because it does use released *)
(* memory: the step "read" of the handler of a find response               *)
(* (fw_download.c:75).                                                     *)
(***************************************************************************)
NoUseAfterFree ==
  /\ \A i \in 1..Len(msgq) : heap[msgq[i]] \in [kind : {"req"}, op : Requests]
  /\ worker.op # None =>
       /\ ~Released \/ Doing("reply") \/ Doing("release") =>
            heap[worker.req] = [kind |-> "req", op |-> worker.op]
       /\ worker.out # None \/ Doing("free") =>
            heap[worker.out] = [kind |-> "out", op |-> worker.op]
       /\ worker.tmp # None \/ Doing("discard") =>
            heap[worker.tmp] = [kind |-> "tmp", op |-> worker.op]
  /\ \A t \in Receivers : rx[t].msg # None =>
       heap[rx[t].msg] = [kind |-> "req", op |-> rx[t].op]
  /\ \A e \in Events : event[e].msg # None =>
       heap[event[e].msg] = [kind |-> "evt", op |-> e]

Owned == Queued \cup Holding \cup {rx[t].msg : t \in Receivers}
           \cup {event[e].msg : e \in Events}

(***************************************************************************)
(* The only memory that is lost are the requests of handlers that never    *)
(* release them (get_manifest of control-gpb.c, a transfer of i2c.c that   *)
(* succeeds), and only once they have been answered, and the jack and      *)
(* button events of audio.c: every other path through the receiver, the    *)
(* queue, the handlers and the event threads gives its blocks back.        *)
(***************************************************************************)
OnlyKeptLeak ==
  \A b \in Blocks \ Owned : heap[b] # Free =>
    \/ /\ heap[b].kind = "req"
       /\ Handler[heap[b].op] = "keep"
       /\ \E i \in 1..Len(replies) : replies[i] = heap[b].op
    \/ /\ heap[b].kind = "evt"
       /\ heap[b].op \in Forgetful

(***************************************************************************)
(* The core implements an in-order server: what greybus_rx_handler queues  *)
(* is answered once and in the order of queueing, whichever receiver it    *)
(* came from, and the worker always gets on with it.                       *)
(***************************************************************************)
Served(shape, i) == Done(shape, i, Serves(shape))
Accepted == {r \in arrived : Handler[r] # "none" /\ \A t \in Receivers : rx[t].op # r}
Serving == IF worker.op # None /\ ~Served(Handler[worker.op], worker.at)
           THEN <<worker.op>> ELSE <<>>
QueuedOps == [i \in 1..Len(msgq) |-> heap[msgq[i]].op]
Pending == Serving \o QueuedOps

Server == INSTANCE InOrderServer WITH
  Silent <- {r \in Requests : Serves(Handler[r]) = "release"},
  accepted <- Accepted, pending <- Pending, replies <- replies

ImplementsServer == Server!Spec

(***************************************************************************)
(* Every request the peer sends to a cport whose driver answers is         *)
(* answered, whatever the order of the threads, the queue length and the   *)
(* requests lost to the heap before it, as long as the heap has room and   *)
(* the transport delivers the whole of it.                                 *)
(***************************************************************************)
AllAnswered ==
  \A r \in Requests : Serves(Handler[r]) = "reply" =>
    (r \in arrived ~> r \notin arrived \/ \E i \in 1..Len(replies) : replies[i] = r)

(***************************************************************************)
(* A handler that cannot get memory for its reply drops the reply and goes *)
(* on (greybus_transport.h, "Choosing to drop for now"): there is no state *)
(* in which the worker waits for memory that only the worker can release.  *)
(***************************************************************************)
WorkerNeverWedged ==
  ~ /\ Doing("alloc")
    /\ \A b \in Blocks : heap[b] # Free
    /\ \A e \in Events : event[e].msg = None
    /\ \A t \in Receivers : rx[t].msg # None => Handler[rx[t].op] # "none"
=============================================================================
