------------------------- MODULE GreybusCoreProofs -------------------------
(***************************************************************************)
(* Theorems about GreybusCore, for any number of requests, receivers,      *)
(* event threads and heap blocks and any queue length, and about the ids   *)
(* of the requests that its threads send, for any number of threads and    *)
(* any width of the id.                                                    *)
(***************************************************************************)
EXTENDS GreybusCore, OperationId, SequenceTheorems, TLAPS

(***************************************************************************)
(* The programs of the handlers, by enumeration: what they take they give  *)
(* back, and they release and answer the request at most once, the answer  *)
(* first.                                                                  *)
(***************************************************************************)
Steps == {"alloc", "free", "scratch", "discard", "reply", "release", "read"}

LEMMA ProgramSteps ==
  ASSUME NEW s \in Shapes
  PROVE  /\ Len(Program(s)) \in 0..7
         /\ s # "none" => Len(Program(s)) > 0
         /\ s = "none" => Len(Program(s)) = 0
         /\ \A i \in 1..Len(Program(s)) : Program(s)[i] \in Steps
BY DEF Shapes, Program, FwProgram, Steps

LEMMA ServesAs ==
  ASSUME NEW s \in Shapes
  PROVE  Serves(s) = IF s \in {"none", "silent", "found", "last", "failed", "failedLast"}
                     THEN "release" ELSE "reply"
<1>1. CASE s = "none"
  BY <1>1 DEF Program, FwProgram, Serves
<1>2. CASE s = "empty"
  BY <1>2 DEF Program, FwProgram, Serves
<1>3. CASE s = "payload"
  BY <1>3 DEF Program, FwProgram, Serves
<1>4. CASE s = "keep"
  BY <1>4 DEF Program, FwProgram, Serves
<1>5. CASE s = "undo"
  BY <1>5 DEF Program, FwProgram, Serves
<1>6. CASE s = "silent"
  BY <1>6 DEF Program, FwProgram, Serves
<1>7. CASE s = "credits"
  BY <1>7 DEF Program, FwProgram, Serves
<1>8. CASE s = "formats"
  BY <1>8 DEF Program, FwProgram, Serves
<1>9. CASE s = "scratch"
  BY <1>9 DEF Program, FwProgram, Serves
<1>10. CASE s = "load"
  BY <1>10 DEF Program, FwProgram, Serves
<1>11. CASE s = "found"
  BY <1>11 DEF Program, FwProgram, Serves
<1>12. CASE s = "last"
  BY <1>12 DEF Program, FwProgram, Serves
<1>13. CASE s = "failed"
  BY <1>13 DEF Program, FwProgram, Serves
<1>14. CASE s = "failedLast"
  BY <1>14 DEF Program, FwProgram, Serves
<1> QED
  BY <1>1, <1>2, <1>3, <1>4, <1>5, <1>6, <1>7, <1>8, <1>9, <1>10, <1>11, <1>12, <1>13, <1>14
     DEF Shapes

LEMMA MessageTakenOnce ==
  ASSUME NEW s \in Shapes, NEW i \in 1..Len(Program(s))
  PROVE  /\ Program(s)[i] = "alloc" => ~Since(s, i, "alloc", "free")
         /\ Program(s)[i] = "free" => Since(s, i, "alloc", "free")
<1>1. CASE s = "none"
  BY <1>1 DEF Program, FwProgram, Since
<1>2. CASE s = "empty"
  BY <1>2 DEF Program, FwProgram, Since
<1>3. CASE s = "payload"
  BY <1>3 DEF Program, FwProgram, Since
<1>4. CASE s = "keep"
  BY <1>4 DEF Program, FwProgram, Since
<1>5. CASE s = "undo"
  BY <1>5 DEF Program, FwProgram, Since
<1>6. CASE s = "silent"
  BY <1>6 DEF Program, FwProgram, Since
<1>7. CASE s = "credits"
  BY <1>7 DEF Program, FwProgram, Since
<1>8. CASE s = "formats"
  BY <1>8 DEF Program, FwProgram, Since
<1>9. CASE s = "scratch"
  BY <1>9 DEF Program, FwProgram, Since
<1>10. CASE s = "load"
  BY <1>10 DEF Program, FwProgram, Since
<1>11. CASE s = "found"
  BY <1>11 DEF Program, FwProgram, Since
<1>12. CASE s = "last"
  BY <1>12 DEF Program, FwProgram, Since
<1>13. CASE s = "failed"
  BY <1>13 DEF Program, FwProgram, Since
<1>14. CASE s = "failedLast"
  BY <1>14 DEF Program, FwProgram, Since
<1> QED
  BY <1>1, <1>2, <1>3, <1>4, <1>5, <1>6, <1>7, <1>8, <1>9, <1>10, <1>11, <1>12, <1>13, <1>14
     DEF Shapes

LEMMA ScratchTakenOnce ==
  ASSUME NEW s \in Shapes, NEW i \in 1..Len(Program(s))
  PROVE  /\ Program(s)[i] = "scratch" => ~Since(s, i, "scratch", "discard")
         /\ Program(s)[i] = "discard" => Since(s, i, "scratch", "discard")
BY DEF Shapes, Program, FwProgram, Since

LEMMA ReleasedLast ==
  ASSUME NEW s \in Shapes, NEW i \in 1..Len(Program(s))
  PROVE  Program(s)[i] \in {"release", "reply"} => ~Done(s, i, "release")
BY DEF Shapes, Program, FwProgram, Done

LEMMA ServedOnce ==
  ASSUME NEW s \in Shapes, NEW i \in 1..Len(Program(s))
  PROVE  /\ Program(s)[i] = "reply" => Serves(s) = "reply"
         /\ Program(s)[i] = Serves(s) => ~Done(s, i, Serves(s))
BY ServesAs DEF Shapes, Program, FwProgram, Done

\* At the end of a program nothing is held, but by "keep" the request.
LEMMA AllGivenBack ==
  ASSUME NEW s \in Shapes \ {"none"}
  PROVE  LET n == Len(Program(s)) + 1 IN
         /\ ~Since(s, n, "alloc", "free")
         /\ ~Since(s, n, "scratch", "discard")
         /\ Done(s, n, Serves(s))
         /\ Done(s, n, "release") \/ s = "keep"
<1>1. CASE s = "empty"
  BY ServesAs, <1>1 DEF Program, FwProgram, Done, Since
<1>2. CASE s = "payload"
  BY ServesAs, <1>2 DEF Program, FwProgram, Done, Since
<1>3. CASE s = "keep"
  BY ServesAs, <1>3 DEF Program, FwProgram, Done, Since
<1>4. CASE s = "undo"
  BY ServesAs, <1>4 DEF Program, FwProgram, Done, Since
<1>5. CASE s = "silent"
  BY ServesAs, <1>5 DEF Program, FwProgram, Done, Since
<1>6. CASE s = "credits"
  BY ServesAs, <1>6 DEF Program, FwProgram, Done, Since
<1>7. CASE s = "formats"
  BY ServesAs, <1>7 DEF Program, FwProgram, Done, Since
<1>8. CASE s = "scratch"
  BY ServesAs, <1>8 DEF Program, FwProgram, Done, Since
<1>9. CASE s = "load"
  BY ServesAs, <1>9 DEF Program, FwProgram, Done, Since
<1>10. CASE s = "found"
  BY ServesAs, <1>10 DEF Program, FwProgram, Done, Since
<1>11. CASE s = "last"
  BY ServesAs, <1>11 DEF Program, FwProgram, Done, Since
<1>12. CASE s = "failed"
  BY ServesAs, <1>12 DEF Program, FwProgram, Done, Since
<1>13. CASE s = "failedLast"
  BY ServesAs, <1>13 DEF Program, FwProgram, Done, Since
<1> QED
  BY <1>1, <1>2, <1>3, <1>4, <1>5, <1>6, <1>7, <1>8, <1>9, <1>10, <1>11, <1>12, <1>13 DEF Shapes

\* One step more.
LEMMA DoneNext ==
  ASSUME NEW s \in Shapes, NEW i \in 1..Len(Program(s)), NEW x
  PROVE  Done(s, i + 1, x) <=> Done(s, i, x) \/ Program(s)[i] = x
<1>1. Len(Program(s)) \in 0..7
  BY ProgramSteps
<1> QED
  BY <1>1 DEF Done

LEMMA SinceNext ==
  ASSUME NEW s \in Shapes, NEW i \in 1..Len(Program(s)), NEW x, NEW y
  PROVE  Since(s, i + 1, x, y) <=>
           Program(s)[i] = x \/ (Since(s, i, x, y) /\ Program(s)[i] # y)
<1>1. Len(Program(s)) \in 0..7
  BY ProgramSteps
<1>2. CASE Program(s)[i] = x
  BY <1>1, <1>2 DEF Since
<1>3. CASE Program(s)[i] # x /\ Program(s)[i] = y
  BY <1>1, <1>3 DEF Since
<1>4. CASE Program(s)[i] # x /\ Program(s)[i] # y
  <2>1. Since(s, i + 1, x, y) => Since(s, i, x, y)
    BY <1>1, <1>4 DEF Since
  <2>2. Since(s, i, x, y) => Since(s, i + 1, x, y)
    BY <1>1, <1>4 DEF Since
  <2> QED
    BY <1>4, <2>1, <2>2
<1> QED
  BY <1>2, <1>3, <1>4

(***************************************************************************)
(* The inductive invariant.  TypeOK alone is not inductive: the worker     *)
(* reads the operation through its pointer, which needs the message to be  *)
(* there (NoUseAfterFree), which needs that nobody else releases it        *)
(* (OneOwner), which needs to know which steps hold a message (PcOK).      *)
(***************************************************************************)
IInv == TypeOK /\ PcOK /\ OneOwner /\ NoUseAfterFree

(***************************************************************************)
(* Initially no thread holds anything and no block is allocated.           *)
(***************************************************************************)
LEMMA InitIInv == Init => IInv
<1> SUFFICES ASSUME Init PROVE IInv
  OBVIOUS
<1> USE CoreAssumption DEF Init, IdleRx, IdleWorker, IdleEvent
<1>1. TypeOK
  BY DEF TypeOK
<1>2. PcOK
  BY DEF PcOK
<1>3. OneOwner
  BY DEF OneOwner, Holding
<1>4. NoUseAfterFree
  BY DEF NoUseAfterFree
<1> QED
  BY <1>1, <1>2, <1>3, <1>4 DEF IInv

(***************************************************************************)
(* A handler at work is at a step of its program.                          *)
(***************************************************************************)
LEMMA AtStep ==
  ASSUME TypeOK, PcOK, worker.op # None
  PROVE  /\ worker.op \in Requests
         /\ Handler[worker.op] \in Shapes \ {"none"}
         /\ worker.at \in 1..Len(Program(Handler[worker.op]))
         /\ Script = Program(Handler[worker.op])
         /\ Script[worker.at] \in Steps
         /\ Len(Script) \in 1..7
<1>1. worker.op \in Requests
  BY DEF TypeOK
<1>2. Handler[worker.op] \in Shapes
  BY <1>1, CoreAssumption
<1>3. worker.at \in 1..Len(Program(Handler[worker.op]))
  BY DEF PcOK, Script
<1> QED
  BY <1>1, <1>2, <1>3, ProgramSteps DEF Script

(***************************************************************************)
(* A block that gb_alloc may take is held by nobody.                       *)
(***************************************************************************)
LEMMA FreeIsUnheld ==
  ASSUME IInv, NEW b \in Blocks, heap[b] = Free
  PROVE  /\ \A i \in 1..Len(msgq) : msgq[i] # b
         /\ b \notin Holding
         /\ b # worker.out /\ b # worker.tmp
         /\ worker.op # None /\ ~Released => b # worker.req
         /\ \A t \in Receivers : rx[t].msg # b
         /\ \A e \in Events : event[e].msg # b
<1> USE CoreAssumption DEF IInv
<1>1. b # None
  OBVIOUS
<1>2. \A m : \/ m \in [kind : {"req"}, op : Requests]
             \/ m \in [kind : {"out"}, op : Requests]
             \/ m \in [kind : {"tmp"}, op : Requests] => m # Free
  OBVIOUS
<1>3. \A i \in 1..Len(msgq) : msgq[i] # b
  BY <1>2 DEF NoUseAfterFree
<1>4. /\ b # worker.out /\ b # worker.tmp
      /\ worker.op # None /\ ~Released => b # worker.req
  <2>1. CASE worker.op = None
    BY <1>1, <2>1 DEF PcOK, IdleWorker
  <2>2. CASE worker.op # None
    <3>1. worker.op \in Requests
      BY <2>2 DEF TypeOK
    <3>2. /\ [kind |-> "req", op |-> worker.op] # Free
          /\ [kind |-> "out", op |-> worker.op] # Free
          /\ [kind |-> "tmp", op |-> worker.op] # Free
      BY <1>2, <3>1
    <3>3. /\ worker.out # None => heap[worker.out] # Free
          /\ worker.tmp # None => heap[worker.tmp] # Free
          /\ ~Released => heap[worker.req] # Free
      BY <2>2, <3>2 DEF NoUseAfterFree
    <3> QED
      BY <1>1, <3>3
  <2> QED
    BY <2>1, <2>2
<1>5. ASSUME NEW t \in Receivers PROVE rx[t].msg # b
  <2>1. rx[t].msg # None => rx[t].op \in Requests
    <3>1. rx[t].pc \in {"idle", "alloc", "handler"} /\ rx[t].op \in Requests \cup {None}
      BY DEF TypeOK
    <3>2. rx[t].msg # None => rx[t].pc = "handler"
      BY DEF PcOK
    <3>3. rx[t].pc = "handler" => rx[t].op # None
      BY DEF PcOK
    <3> QED
      BY <3>1, <3>2, <3>3
  <2>2. rx[t].msg # None => heap[rx[t].msg] = [kind |-> "req", op |-> rx[t].op]
    BY DEF NoUseAfterFree
  <2>3. rx[t].op \in Requests =>
          [kind |-> "req", op |-> rx[t].op] \in [kind : {"req"}, op : Requests]
    OBVIOUS
  <2> QED
    BY <1>1, <1>2, <2>1, <2>2, <2>3
<1>6. ASSUME NEW e \in Events PROVE event[e].msg # b
  <2>1. event[e].msg # None => heap[event[e].msg] \in [kind : {"evt"}, op : Events]
    <3> SUFFICES ASSUME event[e].msg # None
                 PROVE  heap[event[e].msg] \in [kind : {"evt"}, op : Events]
      OBVIOUS
    <3>1. heap[event[e].msg] = [kind |-> "evt", op |-> e]
      BY DEF NoUseAfterFree
    <3>2. [kind |-> "evt", op |-> e] \in [kind : {"evt"}, op : Events]
      OBVIOUS
    <3> QED
      BY <3>1, <3>2
  <2> QED
    BY <1>1, <2>1
<1> QED
  BY <1>1, <1>3, <1>4, <1>5, <1>6 DEF Holding

(***************************************************************************)
(* What the worker holds and does, unchanged.                              *)
(***************************************************************************)
LEMMA SameWorker ==
  ASSUME worker' = worker
  PROVE  /\ Holding' = Holding
         /\ Released' <=> Released
         /\ Script' = Script
         /\ \A x : Doing(x)' = Doing(x)
  BY DEF Holding, Released, Script, Doing

(***************************************************************************)
(* What the worker uses is what it holds: a step of another thread that    *)
(* leaves the worker and what it holds alone disturbs nothing it uses.     *)
(***************************************************************************)
WorkerUses ==
  worker.op # None =>
    /\ ~Released \/ Doing("reply") \/ Doing("release") =>
         heap[worker.req] = [kind |-> "req", op |-> worker.op]
    /\ worker.out # None \/ Doing("free") =>
         heap[worker.out] = [kind |-> "out", op |-> worker.op]
    /\ worker.tmp # None \/ Doing("discard") =>
         heap[worker.tmp] = [kind |-> "tmp", op |-> worker.op]

LEMMA UsesWhatItHolds ==
  ASSUME TypeOK, PcOK, worker.op # None
  PROVE  /\ Doing("reply") \/ Doing("release") => ~Released
         /\ Doing("free") => worker.out # None
         /\ Doing("discard") => worker.tmp # None
         /\ Doing("alloc") => worker.out = None
         /\ Doing("scratch") => worker.tmp = None
         /\ worker.req # None
<1> USE AtStep
<1>1. Doing("reply") \/ Doing("release") => ~Released
  BY ReleasedLast DEF Doing, Released
<1>2. /\ Doing("free") => Since(Handler[worker.op], worker.at, "alloc", "free")
      /\ Doing("alloc") => ~Since(Handler[worker.op], worker.at, "alloc", "free")
  BY MessageTakenOnce DEF Doing
<1>3. /\ Doing("discard") => Since(Handler[worker.op], worker.at, "scratch", "discard")
      /\ Doing("scratch") => ~Since(Handler[worker.op], worker.at, "scratch", "discard")
  BY ScratchTakenOnce DEF Doing
<1> QED
  BY <1>1, <1>2, <1>3 DEF PcOK

\* The same after a step.
HoldsWhatItUses ==
  worker.op # None =>
    /\ Doing("reply") \/ Doing("release") => ~Released
    /\ Doing("free") => worker.out # None
    /\ Doing("discard") => worker.tmp # None

LEMMA UsesAfter == (TypeOK /\ PcOK => HoldsWhatItUses)'
<1>1. TypeOK /\ PcOK => HoldsWhatItUses
  BY UsesWhatItHolds DEF HoldsWhatItUses
<1> QED
  BY <1>1, PTL

LEMMA WorkerUndisturbed ==
  ASSUME IInv, worker' = worker,
         \A c \in Blocks : c \in Holding => heap'[c] = heap[c]
  PROVE  WorkerUses'
<1> SUFFICES ASSUME worker.op # None PROVE WorkerUses'
  BY DEF WorkerUses
<1>1. WorkerUses
  BY DEF IInv, NoUseAfterFree, WorkerUses
<1>2. /\ worker.req # None
      /\ Doing("reply") \/ Doing("release") => ~Released
      /\ Doing("free") => worker.out # None
      /\ Doing("discard") => worker.tmp # None
  BY UsesWhatItHolds DEF IInv
<1>3. /\ worker.req \in Blocks
      /\ worker.out # None => worker.out \in Blocks
      /\ worker.tmp # None => worker.tmp \in Blocks
  BY <1>2 DEF IInv, TypeOK
<1>4. /\ worker.out \in Holding /\ worker.tmp \in Holding
      /\ ~Released => worker.req \in Holding
  BY DEF Holding
<1>5. /\ Released' = Released
      /\ Doing("reply")' = Doing("reply") /\ Doing("release")' = Doing("release")
      /\ Doing("free")' = Doing("free") /\ Doing("discard")' = Doing("discard")
  BY DEF Released, Script, Doing
<1>6. ~Released \/ Doing("reply") \/ Doing("release") => heap'[worker.req] = heap[worker.req]
  BY <1>2, <1>3, <1>4
<1>7. worker.out # None \/ Doing("free") => heap'[worker.out] = heap[worker.out]
  BY <1>2, <1>3, <1>4
<1>8. worker.tmp # None \/ Doing("discard") => heap'[worker.tmp] = heap[worker.tmp]
  BY <1>2, <1>3, <1>4
<1> QED
  BY <1>1, <1>5, <1>6, <1>7, <1>8 DEF WorkerUses

(***************************************************************************)
(* The same of the worker's steps, in two parts.                           *)
(***************************************************************************)
WorkerPc ==
  /\ worker.op = None => worker = IdleWorker
  /\ worker.op # None =>
       /\ worker.at \in 1..Len(Script)
       /\ worker.req # None
       /\ worker.out # None <=> Since(Handler[worker.op], worker.at, "alloc", "free")
       /\ worker.tmp # None <=> Since(Handler[worker.op], worker.at, "scratch", "discard")

LEMMA SameWorkerPc ==
  ASSUME WorkerPc, worker' = worker
  PROVE  WorkerPc'
  BY DEF WorkerPc, Script

(***************************************************************************)
(* A receiver's steps preserve the inductive invariant.                    *)
(***************************************************************************)
LEMMA RxHeaderIInv ==
  ASSUME IInv, NEW t \in Receivers, NEW r \in Requests, RxHeader(t, r)
  PROVE  IInv'
<1> USE CoreAssumption DEF IInv, RxHeader
<1>1. TypeOK'
  BY DEF TypeOK
<1>2. PcOK'
  <2>1. WorkerPc'
    BY SameWorkerPc DEF PcOK, WorkerPc
  <2> QED
    BY <2>1 DEF TypeOK, PcOK, WorkerPc
<1>3. OneOwner'
  BY SameWorker DEF TypeOK, PcOK, OneOwner
<1>4. NoUseAfterFree'
  <2>1. WorkerUses'
    BY WorkerUndisturbed
  <2> QED
    BY <2>1 DEF TypeOK, PcOK, NoUseAfterFree, WorkerUses
<1> QED
  BY <1>1, <1>2, <1>3, <1>4

LEMMA RxAllocIInv ==
  ASSUME IInv, NEW t \in Receivers, NEW b \in Blocks, RxAlloc(t, b)
  PROVE  IInv'
<1> USE CoreAssumption DEF IInv, RxAlloc, Alloc
<1>0. /\ \A i \in 1..Len(msgq) : msgq[i] # b
      /\ b \notin Holding
      /\ \A u \in Receivers : rx[u].msg # b
      /\ \A e \in Events : event[e].msg # b
  BY FreeIsUnheld
<1>1. TypeOK'
  BY DEF TypeOK, PcOK, Message
<1>2. PcOK'
  <2>1. WorkerPc'
    BY SameWorkerPc DEF PcOK, WorkerPc
  <2> QED
    BY <1>0, <2>1 DEF TypeOK, PcOK, WorkerPc
<1>3. OneOwner'
  <2>1. \A u \in Receivers : rx'[u].msg = IF u = t THEN b ELSE rx[u].msg
    BY DEF TypeOK
  <2>2. Holding' = Holding /\ (Released' <=> Released) /\ UNCHANGED <<msgq, worker, event>>
    BY SameWorker
  <2> HIDE DEF RxAlloc, Alloc
  <2> QED
    BY <1>0, <2>1, <2>2 DEF OneOwner
<1>4. NoUseAfterFree'
  <2>1. WorkerUses'
    BY <1>0, WorkerUndisturbed DEF TypeOK
  <2> QED
    BY <1>0, <2>1 DEF TypeOK, PcOK, NoUseAfterFree, WorkerUses
<1> QED
  BY <1>1, <1>2, <1>3, <1>4

\* A receiver that releases its message, rejected or not received whole.
LEMMA RxReleaseIInv ==
  ASSUME IInv, NEW t \in Receivers, RxReject(t) \/ RxFail(t)
  PROVE  IInv'
<1> DEFINE b == rx[t].msg
<1>0. /\ b \in Blocks /\ b # None
      /\ heap' = [heap EXCEPT ![b] = Free]
      /\ rx' = [rx EXCEPT ![t] = IdleRx]
      /\ arrived' \in {arrived, arrived \ {rx[t].op}}
      /\ rx[t].op # None
      /\ UNCHANGED <<msgq, worker, event, replies>>
  BY DEF IInv, TypeOK, PcOK, RxReject, RxFail, Dealloc
<1>1. /\ \A i \in 1..Len(msgq) : msgq[i] # b
      /\ b \notin Holding
      /\ \A u \in Receivers : u # t => rx[u].msg # b
      /\ \A e \in Events : event[e].msg # b
  BY <1>0 DEF IInv, OneOwner
<1> HIDE DEF b
<1> USE CoreAssumption DEF IInv, IdleRx
<1>2. TypeOK'
  BY <1>0 DEF TypeOK
<1>3. PcOK'
  <2>1. WorkerPc'
    BY <1>0, SameWorkerPc DEF PcOK, WorkerPc
  <2>2. \A u \in Receivers : rx'[u] = IF u = t THEN IdleRx ELSE rx[u]
    BY <1>0 DEF TypeOK
  <2>3. \A u \in Receivers : u # t /\ rx[u].op # None => rx[u].op \in arrived'
    BY <1>0 DEF PcOK
  <2>4. \A i \in 1..Len(msgq') : Handler[heap'[msgq'[i]].op] # "none"
    BY <1>0, <1>1 DEF TypeOK, PcOK
  <2> QED
    BY <1>0, <2>1, <2>2, <2>3, <2>4 DEF PcOK, WorkerPc
<1>4. OneOwner'
  BY <1>0, SameWorker DEF TypeOK, OneOwner
<1>5. NoUseAfterFree'
  <2>1. WorkerUses'
    BY <1>0, <1>1, WorkerUndisturbed DEF TypeOK
  <2> QED
    BY <1>0, <1>1, <2>1 DEF TypeOK, NoUseAfterFree, WorkerUses
<1> QED
  BY <1>2, <1>3, <1>4, <1>5

LEMMA RxPutIInv ==
  ASSUME IInv, NEW t \in Receivers, RxPut(t)
  PROVE  IInv'
<1> USE CoreAssumption DEF IInv, RxPut, IdleRx
<1>1. rx[t].msg \in Blocks
  BY DEF TypeOK, PcOK
<1>2. TypeOK'
  BY <1>1 DEF TypeOK
<1>3. PcOK'
  <2>1. WorkerPc'
    BY SameWorkerPc DEF PcOK, WorkerPc
  <2> QED
    BY <2>1 DEF TypeOK, PcOK, WorkerPc
<1>4. /\ Len(msgq') = Len(msgq) + 1
      /\ \A i \in 1..Len(msgq) : msgq'[i] = msgq[i]
      /\ msgq'[Len(msgq')] = rx[t].msg
  BY <1>1 DEF TypeOK
<1>5. OneOwner'
  BY <1>1, <1>4, SameWorker DEF TypeOK, PcOK, OneOwner
<1>6. NoUseAfterFree'
  <2>0. rx[t].op \in Requests /\ rx[t].msg # None
    <3>1. rx[t].op \in Requests \cup {None}
      BY DEF TypeOK
    <3>2. rx[t].op # None /\ rx[t].msg # None
      BY DEF PcOK
    <3> QED
      BY <3>1, <3>2
  <2>1. heap[rx[t].msg] \in [kind : {"req"}, op : Requests]
    <3>1. heap[rx[t].msg] = [kind |-> "req", op |-> rx[t].op]
      BY <2>0 DEF NoUseAfterFree
    <3>2. [kind |-> "req", op |-> rx[t].op] \in [kind : {"req"}, op : Requests]
      BY <2>0
    <3> QED
      BY <3>1, <3>2
  <2>2. \A i \in 1..Len(msgq') : i \in 1..Len(msgq) \/ i = Len(msgq')
    BY <1>4 DEF TypeOK
  <2>3. \A i \in 1..Len(msgq') : heap[msgq'[i]] \in [kind : {"req"}, op : Requests]
    BY <1>4, <2>1, <2>2 DEF NoUseAfterFree
  <2>4. \A u \in Receivers : rx'[u] = IF u = t THEN IdleRx ELSE rx[u]
    BY DEF TypeOK
  <2>5. \A u \in Receivers : rx'[u].msg # None =>
          heap[rx'[u].msg] = [kind |-> "req", op |-> rx'[u].op]
    BY <2>4 DEF NoUseAfterFree
  <2>6. UNCHANGED <<heap, worker, event>>
    OBVIOUS
  <2>7. WorkerUses'
    BY WorkerUndisturbed
  <2> QED
    BY <2>3, <2>5, <2>6, <2>7 DEF NoUseAfterFree, WorkerUses
<1> QED
  BY <1>2, <1>3, <1>5, <1>6

(***************************************************************************)
(* The steps of an event thread preserve the inductive invariant.          *)
(***************************************************************************)
LEMMA EventAllocIInv ==
  ASSUME IInv, NEW e \in Events, NEW b \in Blocks, EventAlloc(e, b)
  PROVE  IInv'
<1> USE CoreAssumption DEF IInv, EventAlloc, Alloc
<1>0. /\ \A i \in 1..Len(msgq) : msgq[i] # b
      /\ \A t \in Receivers : rx[t].msg # b
      /\ \A f \in Events : event[f].msg # b
      /\ b \notin Holding
  BY FreeIsUnheld
<1>1. TypeOK'
  BY DEF TypeOK, Message
<1>2. PcOK'
  <2>1. WorkerPc'
    BY SameWorkerPc DEF PcOK, WorkerPc
  <2> QED
    BY <1>0, <2>1 DEF TypeOK, PcOK, WorkerPc
<1>3. OneOwner'
  <2>1. \A f \in Events : event'[f].msg = IF f = e THEN b ELSE event[f].msg
    BY DEF TypeOK
  <2> QED
    BY <1>0, <2>1, SameWorker DEF OneOwner
<1>4. NoUseAfterFree'
  <2>1. WorkerUses'
    BY <1>0, WorkerUndisturbed DEF TypeOK
  <2> QED
    BY <1>0, <2>1 DEF TypeOK, PcOK, NoUseAfterFree, WorkerUses
<1> QED
  BY <1>1, <1>2, <1>3, <1>4

LEMMA EventFreeIInv ==
  ASSUME IInv, NEW e \in Events, EventFree(e)
  PROVE  IInv'
<1> USE CoreAssumption DEF IInv, EventFree, Dealloc, IdleEvent
<1>0. event[e].msg \in Blocks /\ event[e].msg # None
  BY DEF TypeOK, PcOK
<1>1. /\ \A i \in 1..Len(msgq) : msgq[i] # event[e].msg
      /\ event[e].msg \notin Holding
  BY <1>0 DEF OneOwner
<1>2. TypeOK'
  BY DEF TypeOK
<1>3. PcOK'
  <2>1. WorkerPc'
    BY SameWorkerPc DEF PcOK, WorkerPc
  <2> QED
    BY <1>0, <1>1, <2>1 DEF TypeOK, PcOK, WorkerPc
<1>4. OneOwner'
  BY SameWorker DEF TypeOK, OneOwner
<1>5. NoUseAfterFree'
  <2>1. WorkerUses'
    BY <1>0, <1>1, WorkerUndisturbed DEF TypeOK
  <2> QED
    BY <1>0, <1>1, <2>1 DEF TypeOK, OneOwner, NoUseAfterFree, WorkerUses
<1> QED
  BY <1>2, <1>3, <1>4, <1>5

\* Starting, and forgetting what was sent, touch no memory.
LEMMA EventOtherIInv ==
  ASSUME IInv, NEW e \in Events, EventStart(e) \/ EventForget(e)
  PROVE  IInv'
<1> USE CoreAssumption DEF IInv, EventStart, EventForget, IdleEvent
<1>1. /\ UNCHANGED <<heap, arrived, rx, msgq, worker, replies>>
      /\ \A f \in Events : f # e => event'[f] = event[f]
      /\ event'[e].pc \in {"idle", "alloc"} /\ event'[e].msg = None
  BY DEF TypeOK, PcOK
<1>2. TypeOK'
  BY <1>1 DEF TypeOK
<1>3. PcOK'
  <2>1. WorkerPc'
    BY <1>1, SameWorkerPc DEF PcOK, WorkerPc
  <2> QED
    BY <1>1, <2>1 DEF PcOK, WorkerPc
<1>4. OneOwner'
  <2>1. Holding' = Holding /\ (Released' <=> Released)
    BY <1>1, SameWorker
  <2>2. \A f \in Events : event'[f].msg = IF f = e THEN None ELSE event[f].msg
    BY <1>1
  <2>3. UNCHANGED <<msgq, rx, worker>>
    BY <1>1
  <2> HIDE DEF EventStart, EventForget
  <2> QED
    BY <2>1, <2>2, <2>3 DEF TypeOK, OneOwner
<1>5. NoUseAfterFree'
  <2>1. WorkerUses'
    BY <1>1, WorkerUndisturbed
  <2> QED
    BY <1>1, <2>1 DEF NoUseAfterFree, WorkerUses
<1> QED
  BY <1>2, <1>3, <1>4, <1>5

(***************************************************************************)
(* The worker takes a message: the handler is at its first step and holds  *)
(* the request only.                                                       *)
(***************************************************************************)
LEMMA WorkerGetIInv ==
  ASSUME IInv, WorkerGet
  PROVE  IInv'
<1> USE CoreAssumption DEF IInv
<1> DEFINE r == heap[msgq[1]].op
<1>1. /\ Len(msgq) > 0 /\ Len(msgq') = Len(msgq) - 1
      /\ \A i \in 1..Len(msgq') : msgq'[i] = msgq[i + 1] /\ i + 1 \in 1..Len(msgq)
      /\ msgq[1] \in Blocks
      /\ msgq' \in Seq(Blocks)
      /\ worker.op = None
      /\ worker' = [IdleWorker EXCEPT !.op = r, !.at = 1, !.req = msgq[1]]
      /\ UNCHANGED <<heap, arrived, rx, event, replies>>
  BY DEF TypeOK, WorkerGet
<1>2. /\ r \in Requests /\ r # None
      /\ Handler[r] \in Shapes \ {"none"}
      /\ heap[msgq[1]] = [kind |-> "req", op |-> r]
  <2>1. heap[msgq[1]] \in [kind : {"req"}, op : Requests]
    BY <1>1 DEF NoUseAfterFree
  <2>2. Handler[r] # "none"
    BY <1>1 DEF PcOK
  <2> QED
    BY <2>1, <2>2
<1> HIDE DEF r
<1>3. worker' = [op |-> r, at |-> 1, req |-> msgq[1], out |-> None, tmp |-> None]
  BY <1>1 DEF IdleWorker
<1>4. TypeOK'
  <2>1. worker' \in [op : Requests \cup {None}, at : 0..7, req : Blocks \cup {None},
                     out : Blocks \cup {None}, tmp : Blocks \cup {None}]
    <3>1. msgq[1] \in Blocks
      BY <1>1
    <3> HIDE <1>1
    <3> QED
      BY <1>2, <1>3, <3>1
  <2>2. Len(msgq') <= QueueLen
    BY <1>1 DEF TypeOK
  <2> QED
    BY <1>1, <2>1, <2>2 DEF TypeOK
<1>5. WorkerPc'
  <2>1. Script' = Program(Handler[r])
    BY <1>3 DEF Script
  <2>2. Len(Program(Handler[r])) \in Nat /\ Len(Program(Handler[r])) > 0
    BY <1>2, ProgramSteps
  <2>3. ~Since(Handler[r], 1, "alloc", "free") /\ ~Since(Handler[r], 1, "scratch", "discard")
    BY DEF Since
  <2>4. msgq[1] # None
    BY <1>1
  <2> QED
    BY <1>2, <1>3, <2>1, <2>2, <2>3, <2>4 DEF WorkerPc
<1>6. Holding' = {None, msgq[1]} /\ ~Released'
  <2>1. ~Released'
    BY <1>3 DEF Released, Done
  <2> QED
    BY <1>2, <1>3, <2>1 DEF Holding
<1>7. PcOK'
  <2>1. \A i \in 1..Len(msgq') : Handler[heap'[msgq'[i]].op] # "none"
    BY <1>1 DEF PcOK
  <2> QED
    BY <1>1, <1>5, <2>1 DEF PcOK, WorkerPc
<1>8. OneOwner'
  <2>1. /\ UNCHANGED <<rx, event>>
        /\ \A i \in 1..Len(msgq') : msgq'[i] = msgq[i + 1] /\ i + 1 \in 1..Len(msgq) /\ i + 1 # 1
        /\ 1 \in 1..Len(msgq)
        /\ \A i, j \in 1..Len(msgq') : i # j => i + 1 # j + 1
    BY <1>1 DEF TypeOK
  <2>2. msgq[1] # None /\ \A i \in 1..Len(msgq) : msgq[i] # None
    <3>1. \A i \in 1..Len(msgq) : msgq[i] \in Blocks
      BY DEF TypeOK
    <3> QED
      BY <1>1, <3>1
  <2>3. worker'.req = msgq[1] /\ worker'.out = None /\ worker'.tmp = None
    BY <1>3
  <2>4. \A i \in 1..Len(msgq') : msgq'[i] \notin Holding'
    BY <1>6, <2>1, <2>2 DEF OneOwner
  <2>5. /\ \A t \in Receivers : rx[t].msg # None => rx[t].msg \notin Holding'
        /\ \A e \in Events : event[e].msg # None => event[e].msg \notin Holding'
    BY <1>6, <2>1, <2>2 DEF OneOwner
  <2>6. \A i, j \in 1..Len(msgq') : i # j => msgq'[i] # msgq'[j]
    BY <2>1 DEF OneOwner
  <2> QED
    BY <2>1, <2>2, <2>3, <2>4, <2>5, <2>6 DEF OneOwner
<1>9. NoUseAfterFree'
  <2>1. WorkerUses'
    <3>1. /\ Doing("free")' => worker'.out # None
          /\ Doing("discard")' => worker'.tmp # None
      BY <1>2, <1>3, <1>4, <1>7, UsesAfter DEF HoldsWhatItUses
    <3>2. /\ worker'.op = r /\ worker'.req = msgq[1]
          /\ worker'.out = None /\ worker'.tmp = None
          /\ heap' = heap
      <4>1. heap' = heap
        BY <1>1
      <4> HIDE <1>1
      <4> QED
        BY <1>3, <4>1
    <3> QED
      BY <1>2, <3>1, <3>2 DEF WorkerUses
  <2>2. \A i \in 1..Len(msgq') : heap'[msgq'[i]] \in [kind : {"req"}, op : Requests]
    BY <1>1 DEF NoUseAfterFree
  <2> QED
    BY <1>1, <2>1, <2>2 DEF NoUseAfterFree, WorkerUses
<1> QED
  BY <1>4, <1>7, <1>8, <1>9

(***************************************************************************)
(* What a step of the handler does to the worker, whatever it takes or     *)
(* gives back: w is the worker with the new pointers.                      *)
(***************************************************************************)
Takes(w) ==
  /\ w = [worker EXCEPT !.out = w.out, !.tmp = w.tmp]
  /\ w.out \in Blocks \cup {None} /\ w.tmp \in Blocks \cup {None}
  /\ w.out # None <=> Doing("alloc") \/ (worker.out # None /\ ~Doing("free"))
  /\ w.tmp # None <=> Doing("scratch") \/ (worker.tmp # None /\ ~Doing("discard"))
  /\ w.out \notin {None, worker.out} => Doing("alloc")
  /\ w.tmp \notin {None, worker.tmp} => Doing("scratch")

LEMMA WorkerGoesOn ==
  ASSUME IInv, worker.op # None, NEW w, Takes(w), worker' = Then(w)
  PROVE  /\ worker' \in [op : Requests \cup {None}, at : 0..7, req : Blocks \cup {None},
                         out : Blocks \cup {None}, tmp : Blocks \cup {None}]
         /\ WorkerPc'
         /\ worker'.out = w.out /\ worker'.tmp = w.tmp
         /\ worker'.op # None =>
              /\ worker'.op = worker.op
              /\ worker'.req = worker.req
              /\ worker'.at = worker.at + 1
              /\ Released' <=> Released \/ Doing("release")
         /\ worker'.op = None =>
              /\ Served(Handler[worker.op], worker.at) \/ Doing(Serves(Handler[worker.op]))
              /\ Released \/ Doing("release") \/ Handler[worker.op] = "keep"
<1> DEFINE s == Handler[worker.op]
           i == worker.at
<1>1. /\ worker.op \in Requests
      /\ s \in Shapes \ {"none"}
      /\ i \in 1..Len(Program(s))
      /\ Script = Program(s)
      /\ Len(Script) \in 1..7
  BY AtStep DEF IInv
<1>2. \A x : Doing(x) <=> Program(s)[i] = x
  BY <1>1 DEF Doing
<1>3. /\ worker \in [op : Requests \cup {None}, at : 0..7, req : Blocks \cup {None},
                     out : Blocks \cup {None}, tmp : Blocks \cup {None}]
      /\ worker.out # None <=> Since(s, i, "alloc", "free")
      /\ worker.tmp # None <=> Since(s, i, "scratch", "discard")
      /\ worker.req # None
  BY DEF IInv, TypeOK, PcOK
<1>4. /\ w.out # None <=> Since(s, i + 1, "alloc", "free")
      /\ w.tmp # None <=> Since(s, i + 1, "scratch", "discard")
  BY <1>1, <1>2, <1>3, SinceNext DEF Takes
<1>5. /\ w \in [op : Requests \cup {None}, at : 0..7, req : Blocks \cup {None},
                out : Blocks \cup {None}, tmp : Blocks \cup {None}]
      /\ w.op = worker.op /\ w.at = i /\ w.req = worker.req
  BY <1>3 DEF Takes
<1>6. /\ Done(s, i + 1, "release") <=> Released \/ Doing("release")
      /\ Done(s, i + 1, Serves(s)) <=> Served(s, i) \/ Doing(Serves(s))
  BY <1>1, <1>2, DoneNext DEF Released, Served
<1> HIDE DEF s, i
<1>7. CASE i = Len(Script)
  <2>1. worker' = IdleWorker
    BY <1>5, <1>7 DEF Then
  <2>2. w.out = None /\ w.tmp = None
    BY <1>1, <1>4, <1>7, AllGivenBack
  <2>3. /\ Done(s, i + 1, Serves(s))
        /\ Done(s, i + 1, "release") \/ s = "keep"
    BY <1>1, <1>7, AllGivenBack
  <2> QED
    BY <1>1, <1>6, <2>1, <2>2, <2>3 DEF IdleWorker, WorkerPc, s, i
<1>8. CASE i # Len(Script)
  <2>1. worker' = [w EXCEPT !.at = i + 1]
    BY <1>5, <1>8 DEF Then
  <2>2. /\ worker' \in [op : Requests \cup {None}, at : 0..7, req : Blocks \cup {None},
                        out : Blocks \cup {None}, tmp : Blocks \cup {None}]
        /\ worker'.op = worker.op /\ worker'.at = i + 1 /\ worker'.req = worker.req
        /\ worker'.out = w.out /\ worker'.tmp = w.tmp
    <3>1. i \in 1..7 /\ i + 1 \in 0..7
      <4>1. i \in 1..Len(Script) /\ Len(Script) \in 1..7
        BY <1>1
      <4>2. \A n \in 1..7 : \A k \in 1..n : k # n => k \in 1..7 /\ k + 1 \in 0..7
        OBVIOUS
      <4> QED
        BY <1>8, <4>1, <4>2
    <3> QED
      BY <1>5, <2>1, <3>1
  <2>3. Script' = Script
    BY <2>2 DEF Script
  <2>4. Released' <=> Released \/ Doing("release")
    BY <1>6, <2>2 DEF Released, s
  <2>5. WorkerPc'
    BY <1>1, <1>3, <1>4, <1>8, <2>2, <2>3 DEF WorkerPc, s
  <2> QED
    BY <1>1, <2>2, <2>4, <2>5, CoreAssumption DEF i
<1> QED
  BY <1>7, <1>8

(***************************************************************************)
(* A step of the handler that takes block b of the heap, for a message or  *)
(* for other memory.                                                       *)
(***************************************************************************)
LEMMA WorkerTakesIInv ==
  ASSUME IInv, NEW b \in Blocks, WorkerAlloc(b) \/ WorkerScratch(b)
  PROVE  IInv'
<1> USE DEF IInv
<1> DEFINE w == IF Doing("alloc") THEN [worker EXCEPT !.out = b] ELSE [worker EXCEPT !.tmp = b]
           k == IF Doing("alloc") THEN "out" ELSE "tmp"
<1>1. /\ worker.op # None /\ heap[b] = Free
      /\ heap' = [heap EXCEPT ![b] = [kind |-> k, op |-> worker.op]]
      /\ worker' = Then(w)
      /\ Doing("alloc") \/ Doing("scratch")
      /\ UNCHANGED <<arrived, rx, msgq, event, replies>>
  BY DEF WorkerAlloc, WorkerScratch, Alloc, Doing
<1>2. /\ ~Doing("free") /\ ~Doing("discard") /\ ~Doing("release")
      /\ Doing("alloc") <=> ~Doing("scratch")
  BY <1>1 DEF Doing
<1>3. /\ \A i \in 1..Len(msgq) : msgq[i] # b
      /\ b \notin Holding
      /\ b # worker.out /\ b # worker.tmp
      /\ ~Released => b # worker.req
      /\ \A t \in Receivers : rx[t].msg # b
      /\ \A e \in Events : event[e].msg # b
  BY <1>1, FreeIsUnheld
<1>4. b # None
  BY CoreAssumption
<1>5. /\ w.out = IF Doing("alloc") THEN b ELSE worker.out
      /\ w.tmp = IF Doing("alloc") THEN worker.tmp ELSE b
      /\ Takes(w)
  BY <1>2, <1>4 DEF TypeOK, Takes
<1> HIDE DEF w
<1>6. /\ worker' \in [op : Requests \cup {None}, at : 0..7, req : Blocks \cup {None},
                      out : Blocks \cup {None}, tmp : Blocks \cup {None}]
      /\ WorkerPc'
      /\ worker'.out = w.out /\ worker'.tmp = w.tmp
      /\ worker'.op # None =>
           /\ worker'.op = worker.op /\ worker'.req = worker.req
           /\ Released' <=> Released
  BY <1>1, <1>2, <1>5, WorkerGoesOn
<1>7. worker.op \in Requests
  BY <1>1, AtStep
<1>8. TypeOK'
  <2>1. k \in {"out", "tmp"}
    OBVIOUS
  <2>2. [kind |-> k, op |-> worker.op] \in Message
    BY <1>7, <2>1 DEF Message
  <2>3. heap' \in [Blocks -> Message \cup {Free}]
    BY <1>1, <2>2 DEF TypeOK
  <2> QED
    BY <1>1, <1>6, <2>3 DEF TypeOK
<1>9. PcOK'
  <2>1. \A i \in 1..Len(msgq') : Handler[heap'[msgq'[i]].op] # "none"
    BY <1>1, <1>3 DEF TypeOK, PcOK
  <2> QED
    BY <1>1, <1>6, <2>1 DEF PcOK, WorkerPc
<1>10. Holding' \subseteq Holding \cup {b}
  <2>1. CASE worker'.op = None
    BY <2>1 DEF Holding
  <2>2. CASE worker'.op # None
    BY <1>1, <1>5, <1>6, <2>2 DEF Holding
  <2> QED
    BY <2>1, <2>2
<1>11. OneOwner'
  <2>1. worker'.out # None => worker'.out # worker'.tmp
    BY <1>2, <1>3, <1>5, <1>6 DEF OneOwner
  <2>2. worker'.op # None /\ ~Released' => worker'.req \notin {worker'.out, worker'.tmp}
    BY <1>1, <1>3, <1>5, <1>6 DEF OneOwner
  <2>3. UNCHANGED <<rx, msgq, event>>
    BY <1>1
  <2> QED
    BY <1>3, <1>10, <2>1, <2>2, <2>3 DEF OneOwner
<1>12. NoUseAfterFree'
  <2>1. WorkerUses'
    <3> SUFFICES ASSUME worker'.op # None PROVE WorkerUses'
      BY DEF WorkerUses
    <3>1. /\ Doing("reply")' \/ Doing("release")' => ~Released'
          /\ Doing("free")' => worker'.out # None
          /\ Doing("discard")' => worker'.tmp # None
      BY <1>8, <1>9, UsesAfter DEF HoldsWhatItUses
    <3>2. /\ \A c \in Blocks : c # b => heap'[c] = heap[c]
          /\ heap'[b] = [kind |-> k, op |-> worker.op]
      BY <1>1 DEF TypeOK
    <3>3. ~Released => heap[worker.req] = [kind |-> "req", op |-> worker.op]
                       /\ worker.req \in Blocks
      BY <1>1, UsesWhatItHolds DEF NoUseAfterFree, TypeOK
    <3>4. /\ worker.out # None => heap[worker.out] = [kind |-> "out", op |-> worker.op]
                                  /\ worker.out \in Blocks
          /\ worker.tmp # None => heap[worker.tmp] = [kind |-> "tmp", op |-> worker.op]
                                  /\ worker.tmp \in Blocks
      BY <1>1 DEF NoUseAfterFree, TypeOK
    <3>5. ~Released' => heap'[worker'.req] = [kind |-> "req", op |-> worker'.op]
      BY <1>3, <1>6, <3>2, <3>3
    <3>6. worker'.out # None => heap'[worker'.out] = [kind |-> "out", op |-> worker'.op]
      BY <1>3, <1>5, <1>6, <3>2, <3>4
    <3>7. worker'.tmp # None => heap'[worker'.tmp] = [kind |-> "tmp", op |-> worker'.op]
      BY <1>3, <1>5, <1>6, <3>2, <3>4
    <3> QED
      BY <3>1, <3>5, <3>6, <3>7 DEF WorkerUses
  <2>2. \A c \in Blocks : c # b => heap'[c] = heap[c]
    BY <1>1 DEF TypeOK
  <2>3. \A i \in 1..Len(msgq') : heap'[msgq'[i]] \in [kind : {"req"}, op : Requests]
    BY <1>1, <1>3, <2>2 DEF TypeOK, NoUseAfterFree
  <2>4. \A t \in Receivers : rx'[t].msg # None =>
          heap'[rx'[t].msg] = [kind |-> "req", op |-> rx'[t].op]
    BY <1>1, <1>3, <2>2 DEF TypeOK, NoUseAfterFree
  <2>5. \A e \in Events : event'[e].msg # None =>
          heap'[event'[e].msg] = [kind |-> "evt", op |-> e]
    BY <1>1, <1>3, <2>2 DEF TypeOK, NoUseAfterFree
  <2> QED
    BY <2>1, <2>3, <2>4, <2>5 DEF NoUseAfterFree, WorkerUses
<1> QED
  BY <1>8, <1>9, <1>11, <1>12

(***************************************************************************)
(* A step of the handler that gives back what it holds, or that leaves the *)
(* heap alone: gone are the blocks it gives back, w is the worker without  *)
(* its pointers to them.                                                   *)
(***************************************************************************)
Gives(w, gone) ==
  /\ worker.op # None
  /\ Takes(w)
  /\ ~Doing("alloc") /\ ~Doing("scratch")
  /\ worker' = Then(w)
  /\ gone \subseteq Holding
  /\ \A c \in Blocks : c \notin gone => heap'[c] = heap[c]
  /\ heap' \in [Blocks -> Message \cup {Free}]
  /\ w.out # None => w.out \notin gone
  /\ w.tmp # None => w.tmp \notin gone
  /\ ~Released /\ ~Doing("release") => worker.req \notin gone
  /\ UNCHANGED <<arrived, rx, msgq, event>>
  /\ replies' \in Seq(Requests)

LEMMA WorkerGivesIInv ==
  ASSUME IInv, NEW w, NEW gone, Gives(w, gone)
  PROVE  IInv'
<1> USE DEF IInv, Gives
<1>1. /\ worker' \in [op : Requests \cup {None}, at : 0..7, req : Blocks \cup {None},
                      out : Blocks \cup {None}, tmp : Blocks \cup {None}]
      /\ WorkerPc'
      /\ worker'.out = w.out /\ worker'.tmp = w.tmp
      /\ worker'.op # None =>
           /\ worker'.op = worker.op /\ worker'.req = worker.req
           /\ Released' <=> Released \/ Doing("release")
  BY WorkerGoesOn
<1>2. /\ w.out # None => w.out = worker.out
      /\ w.tmp # None => w.tmp = worker.tmp
  BY DEF Takes
<1>3. /\ \A i \in 1..Len(msgq) : msgq[i] \notin gone
      /\ \A t \in Receivers : rx[t].msg # None => rx[t].msg \notin gone
      /\ \A e \in Events : event[e].msg # None => event[e].msg \notin gone
  BY DEF OneOwner
<1>4. TypeOK'
  BY <1>1 DEF TypeOK
<1>5. PcOK'
  <2>1. \A i \in 1..Len(msgq') : Handler[heap'[msgq'[i]].op] # "none"
    BY <1>3 DEF TypeOK, PcOK
  <2> QED
    BY <1>1, <2>1 DEF PcOK, WorkerPc
<1>6. \A c \in Blocks : c \in Holding' => c \in Holding
  <2>1. CASE worker'.op = None
    BY <2>1 DEF Holding
  <2>2. CASE worker'.op # None
    BY <1>1, <1>2, <2>2, CoreAssumption DEF Holding
  <2> QED
    BY <2>1, <2>2
<1>7. OneOwner'
  <2>1. worker'.out # None => worker'.out # worker'.tmp
    BY <1>1, <1>2 DEF OneOwner
  <2>2. worker'.op # None /\ ~Released' => worker'.req \notin {worker'.out, worker'.tmp}
    <3>1. worker.req # None
      BY UsesWhatItHolds
    <3> QED
      BY <1>1, <1>2, <3>1 DEF OneOwner
  <2>3. UNCHANGED <<rx, msgq, event>>
    OBVIOUS
  <2>4. /\ \A i \in 1..Len(msgq) : msgq[i] \in Blocks
        /\ \A t \in Receivers : rx[t].msg # None => rx[t].msg \in Blocks
        /\ \A e \in Events : event[e].msg # None => event[e].msg \in Blocks
    BY DEF TypeOK
  <2> HIDE DEF Gives
  <2> QED
    BY <1>6, <2>1, <2>2, <2>3, <2>4 DEF OneOwner
<1>8. NoUseAfterFree'
  <2>1. WorkerUses'
    <3> SUFFICES ASSUME worker'.op # None PROVE WorkerUses'
      BY DEF WorkerUses
    <3>1. /\ Doing("reply")' \/ Doing("release")' => ~Released'
          /\ Doing("free")' => worker'.out # None
          /\ Doing("discard")' => worker'.tmp # None
      BY <1>4, <1>5, UsesAfter DEF HoldsWhatItUses
    <3>2. ~Released => heap[worker.req] = [kind |-> "req", op |-> worker.op]
                       /\ worker.req \in Blocks
      BY UsesWhatItHolds DEF NoUseAfterFree, TypeOK
    <3>3. /\ worker.out # None => heap[worker.out] = [kind |-> "out", op |-> worker.op]
                                  /\ worker.out \in Blocks
          /\ worker.tmp # None => heap[worker.tmp] = [kind |-> "tmp", op |-> worker.op]
                                  /\ worker.tmp \in Blocks
      BY DEF NoUseAfterFree, TypeOK
    <3>4. ~Released' => heap'[worker'.req] = [kind |-> "req", op |-> worker'.op]
      BY <1>1, <3>2
    <3>5. worker'.out # None => heap'[worker'.out] = [kind |-> "out", op |-> worker'.op]
      BY <1>1, <1>2, <3>3
    <3>6. worker'.tmp # None => heap'[worker'.tmp] = [kind |-> "tmp", op |-> worker'.op]
      BY <1>1, <1>2, <3>3
    <3> QED
      BY <3>1, <3>4, <3>5, <3>6 DEF WorkerUses
  <2>2. \A i \in 1..Len(msgq') : heap'[msgq'[i]] \in [kind : {"req"}, op : Requests]
    BY <1>3 DEF TypeOK, NoUseAfterFree
  <2>3. \A t \in Receivers : rx'[t].msg # None =>
          heap'[rx'[t].msg] = [kind |-> "req", op |-> rx'[t].op]
    BY <1>3 DEF TypeOK, NoUseAfterFree
  <2>4. \A e \in Events : event'[e].msg # None =>
          heap'[event'[e].msg] = [kind |-> "evt", op |-> e]
    BY <1>3 DEF TypeOK, NoUseAfterFree
  <2> QED
    BY <2>1, <2>2, <2>3, <2>4 DEF NoUseAfterFree, WorkerUses
<1> QED
  BY <1>4, <1>5, <1>7, <1>8

\* Which blocks the steps of the worker give back.
LEMMA WorkerReleaseGives ==
  ASSUME IInv, WorkerRelease
  PROVE  Gives(worker, {worker.req}) /\ heap' = [heap EXCEPT ![worker.req] = Free]
<1> USE DEF IInv
<1>1. /\ worker.op # None
      /\ heap' = [heap EXCEPT ![worker.req] = Free]
      /\ worker' = Then(worker)
      /\ UNCHANGED <<arrived, rx, msgq, event, replies>>
      /\ Doing("release")
  BY DEF WorkerRelease, Dealloc, Doing
<1>2. /\ ~Released /\ worker.req # None
      /\ ~Doing("alloc") /\ ~Doing("scratch") /\ ~Doing("free") /\ ~Doing("discard")
  BY <1>1, UsesWhatItHolds DEF Doing
<1>3. Takes(worker)
  BY <1>2 DEF TypeOK, Takes
<1>4. worker.req \notin {worker.out, worker.tmp}
  BY <1>1, <1>2 DEF OneOwner
<1> QED
  BY <1>1, <1>2, <1>3, <1>4 DEF Gives, Holding, TypeOK

LEMMA WorkerFreeGives ==
  ASSUME IInv, WorkerFree
  PROVE  /\ Gives([worker EXCEPT !.out = None], {worker.out})
         /\ heap' = [heap EXCEPT ![worker.out] = Free]
<1> USE DEF IInv
<1> DEFINE w == [worker EXCEPT !.out = None]
<1>1. /\ worker.op # None
      /\ heap' = [heap EXCEPT ![worker.out] = Free]
      /\ worker' = Then(w)
      /\ UNCHANGED <<arrived, rx, msgq, event, replies>>
      /\ Doing("free")
  BY DEF WorkerFree, Dealloc, Doing
<1>2. /\ worker.out # None
      /\ ~Doing("alloc") /\ ~Doing("scratch") /\ ~Doing("release") /\ ~Doing("discard")
  BY <1>1, UsesWhatItHolds DEF Doing
<1>3. Takes(w) /\ w.out = None /\ w.tmp = worker.tmp
  BY <1>1, <1>2 DEF TypeOK, Takes
<1>4. /\ ~Released => worker.req # worker.out
      /\ worker.out # worker.tmp
  BY <1>1, <1>2 DEF OneOwner
<1> HIDE DEF w
<1>5. Gives(w, {worker.out})
  BY <1>1, <1>2, <1>3, <1>4 DEF Gives, Holding, TypeOK
<1> QED
  BY <1>1, <1>5 DEF w

LEMMA WorkerDiscardGives ==
  ASSUME IInv, WorkerDiscard
  PROVE  /\ Gives([worker EXCEPT !.tmp = None], {worker.tmp})
         /\ heap' = [heap EXCEPT ![worker.tmp] = Free]
<1> USE DEF IInv
<1> DEFINE w == [worker EXCEPT !.tmp = None]
<1>1. /\ worker.op # None
      /\ heap' = [heap EXCEPT ![worker.tmp] = Free]
      /\ worker' = Then(w)
      /\ UNCHANGED <<arrived, rx, msgq, event, replies>>
      /\ Doing("discard")
  BY DEF WorkerDiscard, Dealloc, Doing
<1>2. /\ worker.tmp # None
      /\ ~Doing("alloc") /\ ~Doing("scratch") /\ ~Doing("release") /\ ~Doing("free")
  BY <1>1, UsesWhatItHolds DEF Doing
<1>3. Takes(w) /\ w.tmp = None /\ w.out = worker.out
  BY <1>1, <1>2 DEF TypeOK, Takes
<1>4. /\ ~Released => worker.req # worker.tmp
      /\ worker.out # None => worker.out # worker.tmp
  BY <1>1, <1>2 DEF OneOwner
<1> HIDE DEF w
<1>5. Gives(w, {worker.tmp})
  BY <1>1, <1>2, <1>3, <1>4 DEF Gives, Holding, TypeOK
<1> QED
  BY <1>1, <1>5 DEF w

LEMMA WorkerKeepsAll ==
  ASSUME IInv, WorkerReply \/ WorkerRead
  PROVE  Gives(worker, {}) /\ heap' = heap
<1> USE DEF IInv
<1>1. /\ worker.op # None
      /\ heap' = heap
      /\ worker' = Then(worker)
      /\ UNCHANGED <<arrived, rx, msgq, event>>
      /\ Doing("reply") \/ (Doing("read") /\ replies' = replies)
      /\ Doing("reply") => replies' = Append(replies, heap[worker.req].op)
  BY DEF WorkerReply, WorkerRead, Doing
<1>2. ~Doing("alloc") /\ ~Doing("scratch") /\ ~Doing("free") /\ ~Doing("discard")
  BY <1>1 DEF Doing
<1>3. Takes(worker)
  BY <1>2 DEF TypeOK, Takes
<1>4. Doing("reply") => heap[worker.req].op \in Requests
  BY <1>1, AtStep DEF NoUseAfterFree
<1>5. replies' \in Seq(Requests)
  <2>1. replies \in Seq(Requests)
    BY DEF TypeOK
  <2>2. CASE Doing("reply")
    <3>1. replies' = Append(replies, heap[worker.req].op)
      BY <1>1, <2>2
    <3> HIDE <1>1, <1>4
    <3>2. heap[worker.req].op \in Requests
      BY <1>4, <2>2
    <3> QED
      BY <2>1, <3>1, <3>2
  <2>3. CASE Doing("read") /\ replies' = replies
    BY <2>1, <2>3
  <2> QED
    BY <1>1, <2>2, <2>3
<1> QED
  BY <1>1, <1>2, <1>3, <1>5 DEF Gives, TypeOK

LEMMA WorkerStepIInv ==
  ASSUME IInv, WorkerReply \/ WorkerRelease \/ WorkerRead \/ WorkerFree \/ WorkerDiscard
  PROVE  IInv'
  BY WorkerGivesIInv, WorkerReleaseGives, WorkerFreeGives, WorkerDiscardGives, WorkerKeepsAll

(***************************************************************************)
(* Every step preserves the inductive invariant.                           *)
(***************************************************************************)
LEMMA NextIInv == IInv /\ [Next]_vars => IInv'
<1> SUFFICES ASSUME IInv, [Next]_vars PROVE IInv'
  OBVIOUS
<1>1. CASE Work
  BY <1>1, WorkerGetIInv, WorkerTakesIInv, WorkerStepIInv DEF Work
<1>2. CASE \E t \in Receivers :
             Receive(t) \/ RxFail(t) \/ \E r \in Requests : RxHeader(t, r)
  BY <1>2, RxHeaderIInv, RxAllocIInv, RxReleaseIInv, RxPutIInv DEF Receive
<1>3. CASE \E e \in Events : EventStart(e) \/ SendEvent(e)
  BY <1>3, EventAllocIInv, EventFreeIInv, EventOtherIInv DEF SendEvent
<1>4. CASE UNCHANGED vars
  <2>1. WorkerUses' /\ WorkerPc'
    BY <1>4, WorkerUndisturbed, SameWorkerPc DEF vars, IInv, PcOK, WorkerPc
  <2>2. Holding' = Holding /\ (Released' <=> Released)
    BY <1>4, SameWorker DEF vars
  <2>3. TypeOK' /\ PcOK'
    BY <1>4, <2>1 DEF vars, IInv, TypeOK, PcOK, WorkerPc
  <2>4. OneOwner'
    BY <1>4, <2>2 DEF vars, IInv, OneOwner
  <2>5. NoUseAfterFree'
    BY <1>4, <2>1 DEF vars, IInv, NoUseAfterFree, WorkerUses
  <2> QED
    BY <2>3, <2>4, <2>5 DEF IInv
<1> QED
  BY <1>1, <1>2, <1>3, <1>4 DEF Next

(***************************************************************************)
(* The inductive invariant holds in every reachable state.                 *)
(***************************************************************************)
THEOREM Invariance == SafeSpec => []IInv
BY InitIInv, NextIInv, PTL DEF SafeSpec

(***************************************************************************)
(* Type correctness of the receive path: what queue, threads and heap hold *)
(* is well formed, and gb_rx_msgq never exceeds its capacity.              *)
(***************************************************************************)
THEOREM TypeCorrect == SafeSpec => []TypeOK
<1>1. IInv => TypeOK
  BY DEF IInv
<1> QED
  BY <1>1, Invariance, PTL

(***************************************************************************)
(* Every message has one owner, whatever the interleaving of receivers,    *)
(* worker and event threads.                                               *)
(***************************************************************************)
THEOREM SingleOwnership == SafeSpec => []OneOwner
<1>1. IInv => OneOwner
  BY DEF IInv
<1> QED
  BY <1>1, Invariance, PTL

(***************************************************************************)
(* No thread reads, answers, sends or releases memory that was released,   *)
(* but for the one read of the handler of a find response                  *)
(* (fw_download.c:75), which the formula leaves out.                       *)
(***************************************************************************)
THEOREM MemorySafe == SafeSpec => []NoUseAfterFree
<1>1. IInv => NoUseAfterFree
  BY DEF IInv
<1> QED
  BY <1>1, Invariance, PTL


-----------------------------------------------------------------------------
(***************************************************************************)
(* What a step of the handler does, whatever the step: w is the worker     *)
(* with its new pointers.  Blocks change only where they are taken or      *)
(* given back, and what the worker drops it gives back, but for the        *)
(* request, which only "release" gives back.                               *)
(***************************************************************************)
HandlerStep(w) ==
  /\ worker.op # None
  /\ Takes(w)
  /\ worker' = Then(w)
  /\ UNCHANGED <<arrived, rx, msgq, event>>
  /\ Doing("reply") => replies' = Append(replies, worker.op)
  /\ ~Doing("reply") => replies' = replies
  /\ \A c \in Blocks : \/ heap'[c] = heap[c]
                       \/ c \in {w.out, w.tmp} /\ heap[c] = Free
                       \/ c \in Holding /\ heap'[c] = Free
  /\ \A c \in Holding \cap Blocks :
       \/ c \in {w.out, w.tmp}
       \/ heap'[c] = Free
       \/ (c = worker.req /\ ~Released /\ ~Doing("release"))

LEMMA TakingStep ==
  ASSUME IInv, NEW b \in Blocks, WorkerAlloc(b) \/ WorkerScratch(b)
  PROVE  \E w : HandlerStep(w)
<1> USE DEF IInv
<1> DEFINE w == IF Doing("alloc") THEN [worker EXCEPT !.out = b] ELSE [worker EXCEPT !.tmp = b]
           k == IF Doing("alloc") THEN "out" ELSE "tmp"
<1>1. /\ worker.op # None /\ heap[b] = Free
      /\ heap' = [heap EXCEPT ![b] = [kind |-> k, op |-> worker.op]]
      /\ worker' = Then(w)
      /\ Doing("alloc") \/ Doing("scratch")
      /\ UNCHANGED <<arrived, rx, msgq, event, replies>>
  BY DEF WorkerAlloc, WorkerScratch, Alloc, Doing
<1>2. /\ ~Doing("free") /\ ~Doing("discard") /\ ~Doing("release") /\ ~Doing("reply")
      /\ Doing("alloc") <=> ~Doing("scratch")
  BY <1>1 DEF Doing
<1>3. /\ Doing("alloc") => worker.out = None
      /\ Doing("scratch") => worker.tmp = None
  BY <1>1, UsesWhatItHolds
<1>4. /\ w.out = IF Doing("alloc") THEN b ELSE worker.out
      /\ w.tmp = IF Doing("alloc") THEN worker.tmp ELSE b
      /\ Takes(w)
  BY <1>2, CoreAssumption DEF TypeOK, Takes
<1>5. \A c \in Blocks : c # b => heap'[c] = heap[c]
  BY <1>1 DEF TypeOK
<1>6. \A c \in Holding \cap Blocks : c \in {w.out, w.tmp} \/ (c = worker.req /\ ~Released)
  BY <1>1, <1>2, <1>3, <1>4, CoreAssumption DEF Holding
<1> HIDE DEF w, k
<1>7. HandlerStep(w)
  BY <1>1, <1>2, <1>4, <1>5, <1>6 DEF HandlerStep
<1> QED
  BY <1>7

LEMMA GivingStep ==
  ASSUME IInv, WorkerReply \/ WorkerRelease \/ WorkerRead \/ WorkerFree \/ WorkerDiscard
  PROVE  \E w : HandlerStep(w)
<1> USE DEF IInv
<1>1. CASE WorkerReply \/ WorkerRead
  <2>1. Gives(worker, {}) /\ heap' = heap
    BY <1>1, WorkerKeepsAll
  <2>2. /\ Doing("reply") => replies' = Append(replies, heap[worker.req].op)
        /\ ~Doing("reply") => replies' = replies
        /\ ~Doing("release")
    BY <1>1 DEF WorkerReply, WorkerRead, Doing
  <2>3. Doing("reply") => heap[worker.req].op = worker.op
    BY DEF NoUseAfterFree, Doing
  <2>4. \A c \in Holding \cap Blocks :
          c \in {worker.out, worker.tmp} \/ (c = worker.req /\ ~Released)
    BY DEF Holding
  <2> QED
    BY <2>1, <2>2, <2>3, <2>4 DEF Gives, HandlerStep
<1>2. CASE WorkerRelease
  <2>1. Gives(worker, {worker.req}) /\ heap' = [heap EXCEPT ![worker.req] = Free]
    BY <1>2, WorkerReleaseGives
  <2>2. replies' = replies /\ ~Doing("reply")
    BY <1>2 DEF WorkerRelease, Doing
  <2>3. /\ worker.req \in Holding
        /\ \A c \in Blocks : c = worker.req => heap'[c] = Free
        /\ \A c \in Blocks : c # worker.req => heap'[c] = heap[c]
    BY <2>1 DEF Gives, TypeOK
  <2>4. \A c \in Holding \cap Blocks :
          c \in {worker.out, worker.tmp} \/ (c = worker.req /\ ~Released)
    BY DEF Holding
  <2> QED
    BY <2>1, <2>2, <2>3, <2>4 DEF Gives, HandlerStep
<1>3. CASE WorkerFree
  <2> DEFINE w == [worker EXCEPT !.out = None]
  <2>1. Gives(w, {worker.out}) /\ heap' = [heap EXCEPT ![worker.out] = Free]
    BY <1>3, WorkerFreeGives
  <2>2. replies' = replies /\ ~Doing("reply") /\ ~Doing("release")
    BY <1>3 DEF WorkerFree, Doing
  <2>3. /\ worker.out \in Holding
        /\ \A c \in Blocks : c = worker.out => heap'[c] = Free
        /\ \A c \in Blocks : c # worker.out => heap'[c] = heap[c]
    BY <2>1 DEF Gives, TypeOK
  <2>4. w.tmp = worker.tmp
    BY DEF TypeOK
  <2> HIDE DEF w
  <2>5. \A c \in Holding \cap Blocks :
          c \in {w.out, w.tmp} \/ (c = worker.req /\ ~Released) \/ c = worker.out
    BY <2>4 DEF Holding
  <2> QED
    BY <2>1, <2>2, <2>3, <2>5 DEF Gives, HandlerStep
<1>4. CASE WorkerDiscard
  <2> DEFINE w == [worker EXCEPT !.tmp = None]
  <2>1. Gives(w, {worker.tmp}) /\ heap' = [heap EXCEPT ![worker.tmp] = Free]
    BY <1>4, WorkerDiscardGives
  <2>2. replies' = replies /\ ~Doing("reply") /\ ~Doing("release")
    BY <1>4 DEF WorkerDiscard, Doing
  <2>3. /\ worker.tmp \in Holding
        /\ \A c \in Blocks : c = worker.tmp => heap'[c] = Free
        /\ \A c \in Blocks : c # worker.tmp => heap'[c] = heap[c]
    BY <2>1 DEF Gives, TypeOK
  <2>4. w.out = worker.out
    BY DEF TypeOK
  <2> HIDE DEF w
  <2>5. \A c \in Holding \cap Blocks :
          c \in {w.out, w.tmp} \/ (c = worker.req /\ ~Released) \/ c = worker.tmp
    BY <2>4 DEF Holding
  <2> QED
    BY <2>1, <2>2, <2>3, <2>5 DEF Gives, HandlerStep
<1> QED
  BY <1>1, <1>2, <1>3, <1>4

LEMMA WorkIsHandlerStep ==
  ASSUME IInv, Work
  PROVE  WorkerGet \/ \E w : HandlerStep(w)
BY TakingStep, GivingStep DEF Work

(***************************************************************************)
(* Memory: a step that neither forgets a block nor fills one that nobody   *)
(* owns loses nothing.                                                     *)
(***************************************************************************)
ForgetsNothing ==
  \A b \in Blocks : b \notin Owned' /\ heap'[b] # Free =>
    b \notin Owned /\ heap'[b] = heap[b]

\* The operations answered in a sequence of replies.
RepliedTo(q) == {q[i] : i \in 1..Len(q)}

LEMMA NoNewLeak ==
  ASSUME OnlyKeptLeak, ForgetsNothing, replies' = replies
  PROVE  OnlyKeptLeak'
  BY DEF OnlyKeptLeak, ForgetsNothing

LEMMA ReceiveForgetsNothing ==
  ASSUME IInv, NEW t \in Receivers,
         Receive(t) \/ RxFail(t) \/ \E r \in Requests : RxHeader(t, r)
  PROVE  ForgetsNothing /\ replies' = replies /\ worker' = worker
<1> USE DEF IInv
<1>1. ASSUME NEW r \in Requests, RxHeader(t, r)
      PROVE  ForgetsNothing /\ replies' = replies /\ worker' = worker
  <2>1. \A u \in Receivers : rx'[u].msg = rx[u].msg
    BY <1>1 DEF RxHeader, TypeOK, PcOK
  <2>2. Owned' = Owned
    BY <1>1, <2>1 DEF Owned, Queued, Holding, Released, Script, RxHeader
  <2> QED
    BY <1>1, <2>2 DEF ForgetsNothing, RxHeader
<1>2. ASSUME NEW b \in Blocks, RxAlloc(t, b)
      PROVE  ForgetsNothing /\ replies' = replies /\ worker' = worker
  <2>1. /\ rx'[t].msg = b
        /\ \A u \in Receivers : u # t => rx'[u].msg = rx[u].msg
        /\ rx[t].msg = None
    BY <1>2 DEF RxAlloc, TypeOK, PcOK
  <2>2. \A c \in Blocks : c # b => heap'[c] = heap[c]
    BY <1>2 DEF RxAlloc, Alloc, TypeOK
  <2>3. b \in Owned'
    BY <2>1 DEF Owned
  <2>4. ASSUME NEW c \in Blocks, c \in Owned
        PROVE  c \in Owned'
    <3>1. \A u \in Receivers : rx[u].msg = c => rx'[u].msg = c
      BY <2>1, CoreAssumption
    <3> QED
      BY <1>2, <2>4, <3>1 DEF Owned, Queued, Holding, Released, Script, RxAlloc
  <2> QED
    BY <1>2, <2>2, <2>3, <2>4 DEF ForgetsNothing, RxAlloc
<1>3. CASE RxReject(t) \/ RxFail(t)
  <2>1. \A u \in Receivers : u # t => rx'[u].msg = rx[u].msg
    BY <1>3 DEF RxReject, RxFail, IdleRx, TypeOK
  <2>2. rx[t].msg \in Blocks
    BY <1>3 DEF RxReject, RxFail, IdleRx, TypeOK, PcOK
  <2>3. /\ heap'[rx[t].msg] = Free
        /\ \A c \in Blocks : c # rx[t].msg => heap'[c] = heap[c]
    BY <1>3, <2>2 DEF RxReject, RxFail, Dealloc, TypeOK
  <2>4. \A c \in Blocks : c \in Owned /\ c # rx[t].msg => c \in Owned'
    BY <1>3, <2>1 DEF Owned, Queued, Holding, Released, Script, RxReject, RxFail
  <2> QED
    BY <1>3, <2>3, <2>4 DEF ForgetsNothing, RxReject, RxFail
<1>4. CASE RxPut(t)
  <2>1. \A u \in Receivers : u # t => rx'[u].msg = rx[u].msg
    BY <1>4 DEF RxPut, TypeOK
  <2>2. /\ rx[t].msg \in Blocks
        /\ msgq \in Seq(Blocks)
        /\ msgq' = Append(msgq, rx[t].msg)
    BY <1>4 DEF RxPut, TypeOK, PcOK
  <2>3. Queued' = Queued \cup {rx[t].msg}
    <3>1. /\ Len(msgq) \in Nat
          /\ Len(msgq') = Len(msgq) + 1
          /\ \A i \in 1..Len(msgq) : msgq'[i] = msgq[i]
          /\ msgq'[Len(msgq) + 1] = rx[t].msg
      BY <2>2
    <3> QED
      BY <3>1 DEF Queued
  <2>4. \A c \in Blocks : c \in Owned => c \in Owned'
    BY <1>4, <2>1, <2>3 DEF Owned, Holding, Released, Script, RxPut
  <2> QED
    BY <1>4, <2>4 DEF ForgetsNothing, RxPut
<1> QED
  BY <1>1, <1>2, <1>3, <1>4 DEF Receive

LEMMA EventForgetsNothing ==
  ASSUME IInv, NEW e \in Events, EventStart(e) \/ SendEvent(e), ~EventForget(e)
  PROVE  ForgetsNothing /\ replies' = replies /\ worker' = worker
<1> USE DEF IInv
<1>1. CASE EventStart(e)
  <2>1. \A f \in Events : event'[f].msg = event[f].msg
    BY <1>1 DEF EventStart, TypeOK
  <2>2. Owned' = Owned
    BY <1>1, <2>1 DEF Owned, Queued, Holding, Released, Script, EventStart
  <2> QED
    BY <1>1, <2>2 DEF ForgetsNothing, EventStart
<1>2. ASSUME NEW b \in Blocks, EventAlloc(e, b)
      PROVE  ForgetsNothing /\ replies' = replies /\ worker' = worker
  <2>1. /\ event'[e].msg = b
        /\ \A f \in Events : f # e => event'[f].msg = event[f].msg
        /\ event[e].msg = None
    BY <1>2 DEF EventAlloc, TypeOK, PcOK
  <2>2. \A c \in Blocks : c # b => heap'[c] = heap[c]
    BY <1>2 DEF EventAlloc, Alloc, TypeOK
  <2>3. b \in Owned'
    BY <2>1 DEF Owned
  <2>4. \A c \in Blocks : c \in Owned => c \in Owned'
    BY <1>2, <2>1, CoreAssumption DEF Owned, Queued, Holding, Released, Script, EventAlloc
  <2> QED
    BY <1>2, <2>2, <2>3, <2>4 DEF ForgetsNothing, EventAlloc
<1>3. CASE EventFree(e)
  <2>1. \A f \in Events : f # e => event'[f].msg = event[f].msg
    BY <1>3 DEF EventFree, TypeOK
  <2>2. event[e].msg \in Blocks
    BY <1>3 DEF EventFree, TypeOK, PcOK
  <2>3. /\ heap'[event[e].msg] = Free
        /\ \A c \in Blocks : c # event[e].msg => heap'[c] = heap[c]
    BY <1>3, <2>2 DEF EventFree, Dealloc, TypeOK
  <2>4. \A c \in Blocks : c \in Owned /\ c # event[e].msg => c \in Owned'
    BY <1>3, <2>1 DEF Owned, Queued, Holding, Released, Script, EventFree
  <2> QED
    BY <1>3, <2>3, <2>4 DEF ForgetsNothing, EventFree
<1> QED
  BY <1>1, <1>2, <1>3 DEF SendEvent

(***************************************************************************)
(* The event of a thread that never releases it is lost.                   *)
(***************************************************************************)
LEMMA EventForgetLeaks ==
  ASSUME IInv, OnlyKeptLeak, NEW e \in Events, EventForget(e)
  PROVE  OnlyKeptLeak'
<1>1. /\ event[e].msg # None
      /\ heap[event[e].msg] = [kind |-> "evt", op |-> e]
      /\ e \in Forgetful
  BY DEF IInv, PcOK, NoUseAfterFree, EventForget
<1>2. \A f \in Events : f # e => event'[f].msg = event[f].msg
  BY DEF EventForget, IInv, TypeOK
<1>3. \A c \in Blocks : c \in Owned /\ c # event[e].msg => c \in Owned'
  BY <1>2 DEF Owned, Queued, Holding, Released, Script, EventForget
<1>4. heap' = heap /\ replies' = replies
  BY DEF EventForget
<1> QED
  BY <1>1, <1>3, <1>4 DEF OnlyKeptLeak

(***************************************************************************)
(* A handler that has answered its request has: what "keep" forgets at its *)
(* last step is answered.                                                  *)
(***************************************************************************)
AnsweredInv ==
  worker.op # None /\ Done(Handler[worker.op], worker.at, "reply") =>
    worker.op \in RepliedTo(replies)

\* Replies are only ever added.
LEMMA RepliesGrow ==
  ASSUME IInv, NEW w, HandlerStep(w)
  PROVE  /\ RepliedTo(replies) \subseteq RepliedTo(replies')
         /\ Doing("reply") => worker.op \in RepliedTo(replies')
<1>1. CASE Doing("reply")
  <2>1. /\ replies \in Seq(Requests)
        /\ worker.op \in Requests
        /\ replies' = Append(replies, worker.op)
    BY <1>1, AtStep DEF IInv, TypeOK, HandlerStep
  <2>2. /\ Len(replies) \in Nat
        /\ Len(replies') = Len(replies) + 1
        /\ \A i \in 1..Len(replies) : replies'[i] = replies[i]
        /\ replies'[Len(replies) + 1] = worker.op
    BY <2>1
  <2> QED
    BY <2>2 DEF RepliedTo
<1>2. CASE ~Doing("reply")
  BY <1>2 DEF HandlerStep, RepliedTo
<1> QED
  BY <1>1, <1>2

LEMMA HandlerLeak ==
  ASSUME IInv, IInv', OnlyKeptLeak, AnsweredInv, NEW w, HandlerStep(w)
  PROVE  OnlyKeptLeak' /\ AnsweredInv'
<1> DEFINE s == Handler[worker.op]
<1>1. /\ worker.op \in Requests /\ worker.op # None
      /\ s \in Shapes \ {"none"}
      /\ worker.at \in 1..Len(Program(s))
      /\ Script = Program(s)
  BY AtStep DEF IInv, HandlerStep
<1>2. /\ worker'.out = w.out /\ worker'.tmp = w.tmp
      /\ worker'.op # None =>
           /\ worker'.op = worker.op
           /\ worker'.req = worker.req
           /\ worker'.at = worker.at + 1
           /\ Released' <=> Released \/ Doing("release")
      /\ worker'.op = None =>
           /\ Served(s, worker.at) \/ Doing(Serves(s))
           /\ Released \/ Doing("release") \/ s = "keep"
      /\ WorkerPc'
  BY WorkerGoesOn DEF HandlerStep
<1>3. Doing("reply") <=> Program(s)[worker.at] = "reply"
  BY <1>1 DEF Doing
<1>4. AnsweredInv'
  <2>1. Done(s, worker.at + 1, "reply") <=>
          Done(s, worker.at, "reply") \/ Program(s)[worker.at] = "reply"
    BY <1>1, DoneNext
  <2> QED
    BY <1>1, <1>2, <1>3, <2>1, RepliesGrow DEF AnsweredInv
<1>5. ASSUME NEW c \in Blocks, c \in {w.out, w.tmp}
      PROVE  c \in Owned'
  <2>1. worker'.op # None
    BY <1>2, <1>5, CoreAssumption DEF WorkerPc, IdleWorker
  <2> QED
    BY <1>2, <1>5, <2>1 DEF Owned, Holding
<1>6. ASSUME NEW c \in Blocks, c \in Owned, c \notin Owned', heap'[c] # Free
      PROVE  c = worker.req /\ s = "keep" /\ heap'[c] = [kind |-> "req", op |-> worker.op]
             /\ worker.op \in RepliedTo(replies')
  <2>1. c \in Holding
    BY <1>6 DEF HandlerStep, Owned, Queued
  <2>2. c = worker.req /\ ~Doing("release") /\ ~Released
    BY <1>5, <1>6, <2>1 DEF HandlerStep
  <2>3. worker'.op = None
    <3>1. worker'.op # None => c \in Holding'
      BY <1>2, <2>2 DEF Holding
    <3> QED
      BY <1>6, <3>1 DEF Owned
  <2>4. s = "keep"
    BY <1>2, <2>2, <2>3
  <2>5. Done(s, worker.at, "reply") \/ Doing("reply")
    BY <1>1, <1>2, <2>3, <2>4, ServesAs DEF Served
  <2>6. worker.op \in RepliedTo(replies')
    BY <1>1, <2>5, RepliesGrow DEF AnsweredInv
  <2>7. heap[c] = [kind |-> "req", op |-> worker.op]
    BY <1>1, <2>2 DEF IInv, NoUseAfterFree
  <2>8. heap'[c] = heap[c]
    BY <1>5, <1>6, <2>2 DEF HandlerStep
  <2> QED
    BY <2>2, <2>4, <2>6, <2>7, <2>8
<1>7. ASSUME NEW c \in Blocks, c \notin Owned, c \notin Owned', heap'[c] # Free
      PROVE  heap'[c] = heap[c]
  BY <1>5, <1>7 DEF HandlerStep
<1>8. OnlyKeptLeak'
  <2>1. ASSUME NEW c \in Blocks, c \notin Owned', heap'[c] # Free
        PROVE  \/ /\ heap'[c].kind = "req"
                  /\ Handler[heap'[c].op] = "keep"
                  /\ heap'[c].op \in RepliedTo(replies')
               \/ /\ heap'[c].kind = "evt"
                  /\ heap'[c].op \in Forgetful
    <3>1. CASE c \in Owned
      BY <1>6, <2>1, <3>1
    <3>2. CASE c \notin Owned
      <4>1. heap'[c] = heap[c]
        BY <1>7, <2>1, <3>2
      <4>2. \/ /\ heap[c].kind = "req"
               /\ Handler[heap[c].op] = "keep"
               /\ heap[c].op \in RepliedTo(replies)
            \/ /\ heap[c].kind = "evt"
               /\ heap[c].op \in Forgetful
        BY <2>1, <3>2, <4>1 DEF OnlyKeptLeak, RepliedTo
      <4> QED
        BY <4>1, <4>2, RepliesGrow
    <3> QED
      BY <3>1, <3>2
  <2> QED
    BY <2>1 DEF OnlyKeptLeak, RepliedTo
<1> QED
  BY <1>4, <1>8

LEMMA WorkerGetLeak ==
  ASSUME IInv, OnlyKeptLeak, WorkerGet
  PROVE  OnlyKeptLeak' /\ AnsweredInv'
<1> USE DEF IInv
<1>1. Queued = Queued' \cup {Head(msgq)}
  <2>1. /\ Len(msgq) \in Nat \ {0}
        /\ Head(msgq) = msgq[1]
        /\ Len(msgq') = Len(msgq) - 1
        /\ \A i \in 1..Len(msgq') : msgq'[i] = msgq[i + 1]
    BY DEF WorkerGet, TypeOK
  <2>2. \A i \in 1..Len(msgq) : i = 1 \/ (i - 1 \in 1..Len(msgq') /\ i = (i - 1) + 1)
    BY <2>1
  <2>3. \A c \in Queued : c = Head(msgq) \/ c \in Queued'
    <3>1. ASSUME NEW i \in 1..Len(msgq), i # 1
          PROVE  msgq[i] \in Queued'
      <4>1. i - 1 \in 1..Len(msgq') /\ msgq'[i - 1] = msgq[i]
        BY <2>1, <2>2, <3>1
      <4> QED
        BY <4>1 DEF Queued
    <3> QED
      BY <2>1, <3>1 DEF Queued
  <2>4. \A i \in 1..Len(msgq') : i + 1 \in 1..Len(msgq)
    BY <2>1
  <2>5. Queued' \subseteq Queued
    BY <2>1, <2>4 DEF Queued
  <2>6. Head(msgq) \in Queued
    BY <2>1 DEF Queued
  <2> QED
    BY <2>3, <2>5, <2>6
<1>2. Head(msgq) # None /\ heap[Head(msgq)].op # None
  <2>1. Head(msgq) = msgq[1] /\ 1 \in 1..Len(msgq)
    BY DEF WorkerGet, TypeOK
  <2>2. Head(msgq) \in Blocks /\ heap[Head(msgq)] \in [kind : {"req"}, op : Requests]
    BY <2>1 DEF TypeOK, NoUseAfterFree
  <2> QED
    BY <2>2, CoreAssumption
<1>3. /\ worker'.req = Head(msgq) /\ worker'.at = 1
      /\ worker'.op # None
      /\ Holding = {}
  BY <1>2 DEF WorkerGet, IdleWorker, Holding
<1>4. ~Released' /\ AnsweredInv'
  BY <1>3 DEF Released, Done, AnsweredInv
<1>5. Head(msgq) \in Holding'
  BY <1>3, <1>4 DEF Holding
<1>6. \A c \in Blocks : c \in Owned => c \in Owned'
  BY <1>1, <1>3, <1>5 DEF Owned, WorkerGet
<1>7. OnlyKeptLeak'
  BY <1>6 DEF OnlyKeptLeak, WorkerGet
<1> QED
  BY <1>4, <1>7

LEMMA NextLeak ==
  IInv /\ IInv' /\ OnlyKeptLeak /\ AnsweredInv /\ [Next]_vars => OnlyKeptLeak' /\ AnsweredInv'
<1> SUFFICES ASSUME IInv, IInv', OnlyKeptLeak, AnsweredInv, [Next]_vars
             PROVE  OnlyKeptLeak' /\ AnsweredInv'
  OBVIOUS
<1>1. CASE Work
  BY <1>1, WorkIsHandlerStep, WorkerGetLeak, HandlerLeak
<1>2. ASSUME replies' = replies, worker' = worker PROVE AnsweredInv'
  BY <1>2 DEF AnsweredInv
<1>3. ASSUME NEW t \in Receivers,
             Receive(t) \/ RxFail(t) \/ \E r \in Requests : RxHeader(t, r)
      PROVE  OnlyKeptLeak' /\ AnsweredInv'
  BY <1>2, <1>3, ReceiveForgetsNothing, NoNewLeak
<1>4. ASSUME NEW e \in Events, EventStart(e) \/ SendEvent(e)
      PROVE  OnlyKeptLeak' /\ AnsweredInv'
  <2>1. CASE EventForget(e)
    BY <1>2, <2>1, EventForgetLeaks DEF EventForget
  <2>2. CASE ~EventForget(e)
    BY <1>2, <1>4, <2>2, EventForgetsNothing, NoNewLeak
  <2> QED
    BY <2>1, <2>2
<1>5. CASE UNCHANGED vars
  BY <1>2, <1>5 DEF vars, OnlyKeptLeak, Owned, Queued, Holding, Released, Script
<1> QED
  BY <1>1, <1>3, <1>4, <1>5 DEF Next

(***************************************************************************)
(* The only memory the core ever loses are requests of handlers that do    *)
(* not release them (get_manifest, control-gpb.c; a transfer that          *)
(* succeeds, i2c.c), once they are answered, and the events of threads     *)
(* that do not release them (audio.c).                                     *)
(***************************************************************************)
THEOREM NoOtherLeak == SafeSpec => []OnlyKeptLeak
<1>1. Init => OnlyKeptLeak /\ AnsweredInv
  BY DEF Init, OnlyKeptLeak, AnsweredInv, IdleWorker
<1> QED
  BY <1>1, NextLeak, Invariance, PTL DEF SafeSpec

-----------------------------------------------------------------------------
(***************************************************************************)
(* GreybusCore implements InOrderServer: each step of a thread is one step *)
(* of the server or none.  RxPut accepts a request, the step of the        *)
(* handler that Serves names replies or consumes, everything else stutters.*)
(***************************************************************************)
\* The operations of the messages that the pointers q refer to.
Ops(q, h) == [i \in 1..Len(q) |-> h[q[i]].op]

(***************************************************************************)
(* The queue as the server sees it is a sequence of requests.              *)
(***************************************************************************)
LEMMA OpsSeq ==
  ASSUME NEW q \in Seq(Blocks), NEW h,
         \A i \in 1..Len(q) : h[q[i]] \in [kind : {"req"}, op : Requests]
  PROVE  /\ Ops(q, h) \in Seq(Requests)
         /\ Len(Ops(q, h)) = Len(q)
         /\ \A i \in 1..Len(q) : Ops(q, h)[i] = h[q[i]].op
<1>1. Len(q) \in Nat
  OBVIOUS
<1>2. Ops(q, h) \in [1..Len(q) -> Requests]
  BY DEF Ops
<1> QED
  BY <1>1, <1>2, LenProperties, SeqDef DEF Ops

LEMMA QueuedOpsSeq ==
  ASSUME IInv
  PROVE  /\ QueuedOps \in Seq(Requests)
         /\ Len(QueuedOps) = Len(msgq)
         /\ \A i \in 1..Len(msgq) : QueuedOps[i] = heap[msgq[i]].op
<1>1. msgq \in Seq(Blocks)
  BY DEF IInv, TypeOK
<1>2. \A i \in 1..Len(msgq) : heap[msgq[i]] \in [kind : {"req"}, op : Requests]
  BY DEF IInv, NoUseAfterFree
<1>3. QueuedOps = Ops(msgq, heap)
  BY DEF QueuedOps, Ops
<1> QED
  BY <1>1, <1>2, <1>3, OpsSeq

\* A sequence with one more element in front.
LEMMA HeadOfCons ==
  ASSUME NEW a \in Requests, NEW q \in Seq(Requests)
  PROVE  /\ <<a>> \o q # <<>>
         /\ Head(<<a>> \o q) = a
         /\ Tail(<<a>> \o q) = q
<1>1. /\ <<a>> \in Seq(Requests)
      /\ Len(<<a>>) = 1
      /\ <<a>>[1] = a
  OBVIOUS
<1> DEFINE s == <<a>> \o q
<1>2. /\ s \in Seq(Requests)
      /\ Len(s) = 1 + Len(q)
      /\ \A i \in 1..(1 + Len(q)) : s[i] = IF i <= 1 THEN <<a>>[i] ELSE q[i - 1]
  BY <1>1, ConcatProperties
<1> HIDE DEF s
<1>3. Len(q) \in Nat
  BY LenProperties
<1>4. s # <<>>
  BY <1>2, <1>3, EmptySeq
<1>5. s[1] = a
  BY <1>1, <1>2, <1>3
<1>6. Head(s) = a
  BY <1>2, <1>4, <1>5
<1>7. /\ Tail(s) \in Seq(Requests)
      /\ Len(Tail(s)) = Len(s) - 1
      /\ \A i \in 1..Len(Tail(s)) : Tail(s)[i] = s[i + 1]
  BY <1>2, <1>4, HeadTailProperties
<1>8. Len(Tail(s)) = Len(q)
  BY <1>2, <1>3, <1>7
<1>9. ASSUME NEW i \in 1..Len(q)
      PROVE  Tail(s)[i] = q[i]
  <2>1. Tail(s)[i] = s[i + 1]
    BY <1>7, <1>8
  <2>2. s[i + 1] = q[i]
    BY <1>2, <1>3
  <2> QED
    BY <2>1, <2>2
<1>10. Tail(s) = q
  BY <1>7, <1>8, <1>9, SeqEqual
<1> QED
  BY <1>4, <1>6, <1>10 DEF s

\* The same of the queue after a step.
LEMMA QueuedOpsSeqNext ==
  ASSUME IInv'
  PROVE  /\ QueuedOps' \in Seq(Requests)
         /\ Len(QueuedOps') = Len(msgq')
         /\ \A i \in 1..Len(msgq') : QueuedOps'[i] = heap'[msgq'[i]].op
<1>1. msgq' \in Seq(Blocks)
  BY DEF IInv, TypeOK
<1>2. \A i \in 1..Len(msgq') : heap'[msgq'[i]] \in [kind : {"req"}, op : Requests]
  BY DEF IInv, NoUseAfterFree
<1>3. QueuedOps' = Ops(msgq', heap')
  BY DEF QueuedOps, Ops
<1> QED
  BY <1>1, <1>2, <1>3, OpsSeq

(***************************************************************************)
(* What the worker is serving, as a sequence of at most one request.       *)
(***************************************************************************)
LEMMA ServingSeq ==
  ASSUME IInv
  PROVE  Serving \in Seq(Requests)
<1>1. worker.op # None => worker.op \in Requests
  BY DEF IInv, TypeOK
<1> QED
  BY <1>1 DEF Serving

(***************************************************************************)
(* A step that touches neither the queue nor the messages in it leaves the *)
(* server's queue as it is.                                                *)
(***************************************************************************)
LEMMA SameQueuedOps ==
  ASSUME IInv, msgq' = msgq,
         \A i \in 1..Len(msgq) : heap'[msgq[i]] = heap[msgq[i]]
  PROVE  QueuedOps' = QueuedOps
  BY DEF QueuedOps

(***************************************************************************)
(* A step that leaves the worker alone leaves what the server is serving   *)
(* as it is.                                                               *)
(***************************************************************************)
LEMMA SameServing ==
  ASSUME worker' = worker
  PROVE  Serving' = Serving
  BY DEF Serving

(***************************************************************************)
(* A block that gb_alloc takes, or that somebody else than the worker and  *)
(* the queue releases, holds nothing the server knows of.                  *)
(***************************************************************************)
LEMMA HeapStutter ==
  ASSUME IInv, NEW b, NEW m, heap' = [heap EXCEPT ![b] = m],
         \A i \in 1..Len(msgq) : msgq[i] # b,
         worker' = worker, msgq' = msgq
  PROVE  Serving' = Serving /\ QueuedOps' = QueuedOps
<1>1. \A i \in 1..Len(msgq) : heap'[msgq[i]] = heap[msgq[i]]
  BY DEF IInv, TypeOK
<1> QED
  BY <1>1, SameQueuedOps, SameServing

(***************************************************************************)
(* The receivers' steps before the message is queued do not show.          *)
(***************************************************************************)
LEMMA RxHeaderStutters ==
  ASSUME IInv, NEW t \in Receivers, NEW r \in Requests, RxHeader(t, r)
  PROVE  UNCHANGED Server!vars
<1>1. Serving' = Serving /\ QueuedOps' = QueuedOps
  BY SameQueuedOps, SameServing DEF RxHeader
<1>2. /\ rx[t].op = None
      /\ rx'[t].op = r
      /\ \A u \in Receivers : u # t => rx'[u].op = rx[u].op
  BY DEF RxHeader, IInv, TypeOK, PcOK
<1>3. r \notin arrived /\ arrived' = arrived \cup {r} /\ None \notin arrived
  BY CoreAssumption DEF RxHeader, IInv, TypeOK
<1>4. ASSUME NEW q
      PROVE  q \in Accepted' <=> q \in Accepted
  <2>1. q # r => (q \in arrived' <=> q \in arrived)
    BY <1>3
  <2>2. q # r /\ q # None => \A u \in Receivers : rx'[u].op = q <=> rx[u].op = q
    BY <1>2
  <2>3. r \notin Accepted' /\ r \notin Accepted
    BY <1>2, <1>3 DEF Accepted
  <2> QED
    BY <1>3, <2>1, <2>2, <2>3 DEF Accepted
<1>5. Accepted' = Accepted
  BY <1>4
<1> QED
  BY <1>1, <1>5 DEF Server!vars, Pending, RxHeader

LEMMA RxAllocStutters ==
  ASSUME IInv, NEW t \in Receivers, NEW b \in Blocks, RxAlloc(t, b)
  PROVE  UNCHANGED Server!vars
<1>1. Serving' = Serving /\ QueuedOps' = QueuedOps
  BY HeapStutter, FreeIsUnheld DEF RxAlloc, Alloc
<1>2. \A u \in Receivers : rx'[u].op = rx[u].op
  BY DEF RxAlloc, IInv, TypeOK
<1>3. Accepted' = Accepted
  BY <1>2 DEF Accepted, RxAlloc
<1> QED
  BY <1>1, <1>3 DEF Server!vars, Pending, RxAlloc

\* What a receiver in greybus_rx_handler holds.
LEMMA RxHandlerHolds ==
  ASSUME IInv, NEW t \in Receivers, rx[t].pc = "handler"
  PROVE  /\ rx[t].op \in arrived
         /\ rx[t].op # None
         /\ rx[t].msg \in Blocks
         /\ heap[rx[t].msg].op = rx[t].op
         /\ \A i \in 1..Len(msgq) : msgq[i] # rx[t].msg
<1>1. rx[t].msg # None /\ rx[t].op # None /\ rx[t].op \in arrived
  BY DEF IInv, PcOK
<1>2. rx[t].msg \in Blocks
  BY <1>1 DEF IInv, TypeOK
<1>3. heap[rx[t].msg] = [kind |-> "req", op |-> rx[t].op]
  BY <1>1 DEF IInv, NoUseAfterFree
<1> QED
  BY <1>1, <1>2, <1>3 DEF IInv, OneOwner

LEMMA RxRejectStutters ==
  ASSUME IInv, NEW t \in Receivers, RxReject(t)
  PROVE  UNCHANGED Server!vars
<1>1. Serving' = Serving /\ QueuedOps' = QueuedOps
  BY HeapStutter, RxHandlerHolds DEF RxReject, Dealloc
<1>2. Handler[rx[t].op] = "none"
  BY RxHandlerHolds DEF RxReject
<1>3. /\ rx'[t].op = None
      /\ \A u \in Receivers : u # t => rx'[u].op = rx[u].op
  BY DEF RxReject, IInv, TypeOK, IdleRx
<1>4. None \notin arrived
  BY CoreAssumption DEF IInv, TypeOK
<1>5. Accepted' = Accepted
  BY <1>2, <1>3, <1>4 DEF Accepted, RxReject
<1> QED
  BY <1>1, <1>5 DEF Server!vars, Pending, RxReject

\* What has not been queued was not accepted.
LEMMA RxFailStutters ==
  ASSUME IInv, NEW t \in Receivers, RxFail(t)
  PROVE  UNCHANGED Server!vars
<1>1. Serving' = Serving /\ QueuedOps' = QueuedOps
  BY HeapStutter, RxHandlerHolds DEF RxFail, Dealloc
<1>2. /\ rx'[t].op = None
      /\ \A u \in Receivers : u # t => rx'[u].op = rx[u].op
  BY DEF RxFail, IInv, TypeOK, IdleRx
<1>3. None \notin arrived /\ arrived' = arrived \ {rx[t].op}
  BY CoreAssumption DEF RxFail, IInv, TypeOK
<1>4. ASSUME NEW q
      PROVE  q \in Accepted' <=> q \in Accepted
  <2>1. rx[t].op \notin Accepted /\ rx[t].op \notin Accepted'
    BY <1>3 DEF Accepted
  <2>2. q # rx[t].op /\ q # None => \A u \in Receivers : rx'[u].op = q <=> rx[u].op = q
    BY <1>2
  <2> QED
    BY <1>3, <2>1, <2>2 DEF Accepted
<1>5. Accepted' = Accepted
  BY <1>4
<1> QED
  BY <1>1, <1>5 DEF Server!vars, Pending, RxFail

(***************************************************************************)
(* Queueing a message is the server accepting its request.                 *)
(***************************************************************************)
LEMMA RxPutAccepts ==
  ASSUME IInv, IInv', NEW t \in Receivers, RxPut(t)
  PROVE  \E r \in Requests : Server!Accept(r)
<1> DEFINE r == rx[t].op
<1>1. /\ r \in Requests
      /\ r \in arrived
      /\ r # None
      /\ Handler[r] # "none"
      /\ heap[rx[t].msg].op = r
  <2>1. rx[t].pc = "handler"
    BY DEF RxPut
  <2> QED
    BY <2>1, RxHandlerHolds DEF RxPut, IInv, TypeOK
<1>2. /\ rx'[t].op = None
      /\ \A u \in Receivers : u # t => rx'[u].op = rx[u].op
  BY DEF RxPut, IInv, TypeOK, IdleRx
<1>3. \A u \in Receivers : u # t => rx[u].op # r
  BY <1>1 DEF IInv, PcOK
<1>4. r \notin Accepted
  BY DEF Accepted
<1>5. Accepted' = Accepted \cup {r}
  <2>1. arrived' = arrived /\ None \notin arrived
    BY CoreAssumption DEF RxPut, IInv, TypeOK
  <2>2. ASSUME NEW q
        PROVE  q \in Accepted' <=> q \in Accepted \cup {r}
    <3> HIDE DEF r
    <3>1. q # r /\ q # None => \A u \in Receivers : rx'[u].op = q <=> rx[u].op = q
      BY <1>2 DEF r
    <3>2. r \in Accepted'
      BY <1>1, <1>2, <1>3, <2>1 DEF Accepted
    <3> QED
      BY <2>1, <3>1, <3>2 DEF Accepted
  <2> QED
    BY <2>2
<1>6. Serving' = Serving
  BY SameServing DEF RxPut
<1>7. QueuedOps' = Append(QueuedOps, r)
  <2>1. /\ msgq \in Seq(Blocks)
        /\ rx[t].msg \in Blocks
        /\ msgq' = Append(msgq, rx[t].msg)
        /\ heap' = heap
    BY RxHandlerHolds DEF RxPut, IInv, TypeOK
  <2>2. /\ Len(msgq) \in Nat
        /\ Len(msgq') = Len(msgq) + 1
        /\ \A i \in 1..Len(msgq) : msgq'[i] = msgq[i]
        /\ msgq'[Len(msgq) + 1] = rx[t].msg
    BY <2>1, AppendProperties
  <2>3. /\ QueuedOps \in Seq(Requests)
        /\ Len(QueuedOps) = Len(msgq)
        /\ \A i \in 1..Len(msgq) : QueuedOps[i] = heap[msgq[i]].op
    BY QueuedOpsSeq
  <2>4. /\ QueuedOps' \in Seq(Requests)
        /\ Len(QueuedOps') = Len(msgq')
        /\ \A i \in 1..Len(msgq') : QueuedOps'[i] = heap'[msgq'[i]].op
    BY QueuedOpsSeqNext
  <2>5. /\ Append(QueuedOps, r) \in Seq(Requests)
        /\ Len(Append(QueuedOps, r)) = Len(msgq) + 1
        /\ \A i \in 1..Len(msgq) : Append(QueuedOps, r)[i] = QueuedOps[i]
        /\ Append(QueuedOps, r)[Len(msgq) + 1] = r
    BY <1>1, <2>3, AppendProperties
  <2>6. ASSUME NEW i \in 1..Len(msgq')
        PROVE  QueuedOps'[i] = Append(QueuedOps, r)[i]
    <3> HIDE DEF r
    <3>1. i \in 1..Len(msgq) \/ i = Len(msgq) + 1
      BY <2>2
    <3>2. CASE i \in 1..Len(msgq)
      BY <2>1, <2>2, <2>3, <2>4, <2>5, <3>2
    <3>3. CASE i = Len(msgq) + 1
      BY <1>1, <2>1, <2>2, <2>4, <2>5, <3>3
    <3> QED
      BY <3>1, <3>2, <3>3
  <2> QED
    BY <2>2, <2>4, <2>5, <2>6, SeqEqual
<1>8. Pending' = Append(Pending, r)
  <2>1. Serving \in Seq(Requests) /\ QueuedOps \in Seq(Requests) /\ <<r>> \in Seq(Requests)
    BY <1>1, ServingSeq, QueuedOpsSeq
  <2>2. Append(QueuedOps, r) = QueuedOps \o <<r>>
    BY <1>1, <2>1, AppendIsConcat
  <2>3. Append(Serving \o QueuedOps, r) = (Serving \o QueuedOps) \o <<r>>
    BY <1>1, <2>1, ConcatProperties, AppendIsConcat
  <2> QED
    BY <1>6, <1>7, <2>1, <2>2, <2>3, ConcatAssociative DEF Pending
<1>9. replies' = replies
  BY DEF RxPut
<1> QED
  BY <1>1, <1>4, <1>5, <1>8, <1>9 DEF Server!Accept

(***************************************************************************)
(* The worker takes over the oldest message: the server's queue is the     *)
(* same sequence, cut at another place.                                    *)
(***************************************************************************)
LEMMA WorkerGetStutters ==
  ASSUME IInv, IInv', WorkerGet
  PROVE  UNCHANGED Server!vars
<1> DEFINE r == heap[Head(msgq)].op
<1>1. /\ msgq \in Seq(Blocks)
      /\ msgq # <<>>
      /\ msgq' = Tail(msgq)
      /\ heap' = heap
  BY DEF WorkerGet, IInv, TypeOK
<1>2. /\ Len(msgq) \in Nat \ {0}
      /\ Head(msgq) = msgq[1]
      /\ Len(msgq') = Len(msgq) - 1
      /\ \A i \in 1..Len(msgq') : msgq'[i] = msgq[i + 1]
  BY <1>1, HeadTailProperties
<1>3. r \in Requests /\ Handler[r] # "none"
  BY <1>2 DEF IInv, NoUseAfterFree, PcOK
<1>4. Serving = <<>>
  BY DEF Serving, WorkerGet
<1>5. Serving' = <<r>>
  <2>1. worker'.op = r /\ worker'.at = 1
    BY DEF WorkerGet, IdleWorker
  <2>2. ~Served(Handler[r], 1) /\ r # None
    BY <1>3, CoreAssumption DEF Served, Done
  <2> HIDE DEF r
  <2> QED
    BY <2>1, <2>2 DEF Serving
<1>6. QueuedOps = <<r>> \o QueuedOps'
  <2> HIDE DEF r
  <2>1. /\ QueuedOps \in Seq(Requests)
        /\ Len(QueuedOps) = Len(msgq)
        /\ \A i \in 1..Len(msgq) : QueuedOps[i] = heap[msgq[i]].op
    BY QueuedOpsSeq
  <2>2. /\ QueuedOps' \in Seq(Requests)
        /\ Len(QueuedOps') = Len(msgq')
        /\ \A i \in 1..Len(msgq') : QueuedOps'[i] = heap'[msgq'[i]].op
    BY QueuedOpsSeqNext
  <2>3. /\ <<r>> \in Seq(Requests)
        /\ Len(<<r>>) = 1
        /\ <<r>>[1] = r
    BY <1>3
  <2>4. /\ <<r>> \o QueuedOps' \in Seq(Requests)
        /\ Len(<<r>> \o QueuedOps') = 1 + Len(msgq')
        /\ \A i \in 1..(1 + Len(msgq')) : (<<r>> \o QueuedOps')[i] =
              IF i <= 1 THEN <<r>>[i] ELSE QueuedOps'[i - 1]
    BY <2>2, <2>3, ConcatProperties
  <2>5. ASSUME NEW i \in 1..Len(msgq)
        PROVE  QueuedOps[i] = (<<r>> \o QueuedOps')[i]
    <3>1. CASE i = 1
      BY <1>2, <2>1, <2>3, <2>4, <3>1 DEF r
    <3>2. CASE i # 1
      <4>1. i - 1 \in 1..Len(msgq') /\ i \in 1..(1 + Len(msgq'))
        BY <1>2, <3>2
      <4>2. (<<r>> \o QueuedOps')[i] = heap'[msgq'[i - 1]].op
        BY SMTT(20), <2>2, <2>4, <3>2, <4>1
      <4>3. msgq'[i - 1] = msgq[i]
        BY <1>2, <4>1
      <4> QED
        BY <1>1, <2>1, <4>2, <4>3
    <3> QED
      BY <3>1, <3>2
  <2>6. Len(<<r>> \o QueuedOps') = Len(QueuedOps)
    BY <1>2, <2>1, <2>4
  <2> QED
    BY <2>1, <2>4, <2>5, <2>6, SeqEqual
<1>7. Pending' = Pending
  BY <1>4, <1>5, <1>6, QueuedOpsSeq, ConcatEmptySeq DEF Pending
<1>8. Accepted' = Accepted
  BY DEF Accepted, WorkerGet
<1> QED
  BY <1>7, <1>8 DEF Server!vars, WorkerGet

(***************************************************************************)
(* A step of the handler is the server's reply to the oldest request when  *)
(* it hands the reply to the transport, the server consuming that request  *)
(* when a silent handler releases it, and does not show otherwise.         *)
(***************************************************************************)
LEMMA HandlerServes ==
  ASSUME IInv, NEW w, HandlerStep(w)
  PROVE  Server!Serve \/ UNCHANGED Server!vars
<1> DEFINE s == Handler[worker.op]
           i == worker.at
<1>1. /\ worker.op \in Requests /\ worker.op # None
      /\ s \in Shapes \ {"none"}
      /\ i \in 1..Len(Program(s))
      /\ \A x : Doing(x) <=> Program(s)[i] = x
  BY AtStep DEF IInv, HandlerStep, Doing
<1>2. /\ worker'.op # None => worker'.op = worker.op /\ worker'.at = i + 1
      /\ worker'.op = None => Served(s, i) \/ Doing(Serves(s))
  BY WorkerGoesOn DEF HandlerStep
<1>3. Served(s, i + 1) <=> Served(s, i) \/ Doing(Serves(s))
  BY <1>1, DoneNext DEF Served
<1>4. /\ Doing("reply") => Serves(s) = "reply"
      /\ Doing(Serves(s)) => ~Served(s, i)
  BY <1>1, ServedOnce DEF Served
<1>5. QueuedOps' = QueuedOps
  <2>1. \A j \in 1..Len(msgq) : msgq[j] \in Blocks /\ msgq[j] \notin Holding
    BY DEF IInv, TypeOK, OneOwner
  <2>2. \A j \in 1..Len(msgq) : heap[msgq[j]] # Free
    BY <2>1, FreeIsUnheld
  <2>3. /\ msgq' = msgq
        /\ \A j \in 1..Len(msgq) : heap'[msgq[j]] = heap[msgq[j]]
    BY <2>1, <2>2 DEF HandlerStep
  <2> QED
    BY <2>3, SameQueuedOps
<1>6. Accepted' = Accepted
  BY DEF Accepted, HandlerStep
<1> HIDE DEF s, i
<1>7. CASE Doing(Serves(s))
  <2>1. Serving = <<worker.op>>
    BY <1>1, <1>4, <1>7 DEF Serving, s, i
  <2>2. Serving' = <<>>
    BY <1>2, <1>3, <1>7 DEF Serving, s
  <2>3. /\ Pending # <<>>
        /\ Head(Pending) = worker.op
        /\ Tail(Pending) = QueuedOps
    BY <1>1, <2>1, QueuedOpsSeq, HeadOfCons DEF Pending
  <2>4. Pending' = Tail(Pending)
    BY <1>5, <2>2, <2>3, QueuedOpsSeq, ConcatEmptySeq DEF Pending
  <2>5. CASE Serves(s) = "reply"
    <3>1. replies' = Append(replies, worker.op)
      BY <1>7, <2>5 DEF HandlerStep
    <3> QED
      BY <1>6, <2>3, <2>4, <2>5, <3>1 DEF Server!Serve, Server!Reply, s
  <2>6. CASE Serves(s) # "reply"
    <3>1. replies' = replies
      BY <1>4, <2>6 DEF HandlerStep
    <3>2. Serves(s) = "release"
      BY <2>6 DEF Serves
    <3> QED
      BY <1>1, <1>6, <2>3, <2>4, <3>1, <3>2 DEF Server!Serve, Server!Consume, s
  <2> QED
    BY <2>5, <2>6
<1>8. CASE ~Doing(Serves(s))
  <2>1. Serving' = Serving
    BY <1>1, <1>2, <1>3, <1>8 DEF Serving, s, i
  <2>2. ~Doing("reply")
    BY <1>4, <1>8
  <2>3. replies' = replies
    BY <2>2 DEF HandlerStep
  <2> QED
    BY <1>5, <1>6, <2>1, <2>3 DEF Server!vars, Pending
<1> QED
  BY <1>7, <1>8

\* Event threads use memory of their own only.
LEMMA EventStutters ==
  ASSUME IInv, NEW e \in Events, EventStart(e) \/ SendEvent(e)
  PROVE  UNCHANGED Server!vars
<1>1. CASE EventStart(e)
  <2>1. Serving' = Serving /\ QueuedOps' = QueuedOps
    BY <1>1, SameQueuedOps, SameServing DEF EventStart
  <2> QED
    BY <1>1, <2>1 DEF Server!vars, Pending, Accepted, EventStart
<1>2. ASSUME NEW b \in Blocks, EventAlloc(e, b)
      PROVE  UNCHANGED Server!vars
  <2>1. Serving' = Serving /\ QueuedOps' = QueuedOps
    BY <1>2, HeapStutter, FreeIsUnheld DEF EventAlloc, Alloc
  <2> QED
    BY <1>2, <2>1 DEF Server!vars, Pending, Accepted, EventAlloc
<1>3. CASE EventFree(e)
  <2>1. event[e].msg # None
    BY <1>3 DEF EventFree, IInv, PcOK
  <2>2. \A i \in 1..Len(msgq) : msgq[i] # event[e].msg
    BY <2>1 DEF IInv, OneOwner
  <2>3. Serving' = Serving /\ QueuedOps' = QueuedOps
    BY <1>3, <2>2, HeapStutter DEF EventFree, Dealloc
  <2> QED
    BY <1>3, <2>3 DEF Server!vars, Pending, Accepted, EventFree
<1>4. CASE EventForget(e)
  <2>1. Serving' = Serving /\ QueuedOps' = QueuedOps
    BY <1>4, SameQueuedOps, SameServing DEF EventForget
  <2> QED
    BY <1>4, <2>1 DEF Server!vars, Pending, Accepted, EventForget
<1> QED
  BY <1>1, <1>2, <1>3, <1>4 DEF SendEvent

(***************************************************************************)
(* Initially nothing is accepted, pending or answered.                     *)
(***************************************************************************)
LEMMA InitServer == Init => Server!Init
<1> SUFFICES ASSUME Init PROVE Server!Init
  OBVIOUS
<1>1. IInv
  BY InitIInv
<1>2. Serving = <<>>
  BY DEF Init, IdleWorker, Serving
<1>3. QueuedOps = <<>>
  <2>1. QueuedOps \in Seq(Requests) /\ Len(QueuedOps) = 0
    BY <1>1, QueuedOpsSeq DEF Init
  <2> QED
    BY <2>1, EmptySeq
<1>4. Pending = <<>>
  BY <1>2, <1>3 DEF Pending
<1>5. Accepted = {} /\ replies = <<>>
  BY DEF Init, Accepted
<1> QED
  BY <1>4, <1>5 DEF Server!Init

LEMMA NextServer == IInv /\ IInv' /\ [Next]_vars => [Server!Next]_(Server!vars)
<1> SUFFICES ASSUME IInv, IInv', [Next]_vars
             PROVE  Server!Next \/ UNCHANGED Server!vars
  OBVIOUS
<1>1. CASE Work
  BY <1>1, WorkIsHandlerStep, WorkerGetStutters, HandlerServes DEF Server!Next
<1>2. ASSUME NEW t \in Receivers,
             Receive(t) \/ RxFail(t) \/ \E r \in Requests : RxHeader(t, r)
      PROVE  Server!Next \/ UNCHANGED Server!vars
  BY <1>2, RxHeaderStutters, RxAllocStutters, RxRejectStutters, RxFailStutters,
     RxPutAccepts DEF Receive, Server!Next
<1>3. ASSUME NEW e \in Events, EventStart(e) \/ SendEvent(e)
      PROVE  UNCHANGED Server!vars
  BY <1>3, EventStutters
<1>4. CASE UNCHANGED vars
  <2>1. Serving' = Serving /\ QueuedOps' = QueuedOps /\ Accepted' = Accepted
    BY <1>4, SameQueuedOps, SameServing DEF vars, Accepted
  <2> QED
    BY <1>4, <2>1 DEF vars, Server!vars, Pending
<1> QED
  BY <1>1, <1>2, <1>3, <1>4 DEF Next

(***************************************************************************)
(* Whatever the interleaving of receivers, worker and event threads, the   *)
(* core answers what it accepts once and in the order of acceptance        *)
(* (greybus_rx_handler and gb_pending_message_worker, greybus-core.c).     *)
(***************************************************************************)
THEOREM Refinement == SafeSpec => Server!SafeSpec
  BY InitServer, NextServer, Invariance, PTL DEF SafeSpec, Server!SafeSpec

-----------------------------------------------------------------------------
(***************************************************************************)
(* OperationId.  The calls since the counter was last set back number      *)
(* counter - 1, whether or not somebody has still to set it back: a call   *)
(* that overtook nobody has the place of its call in its cycle for an id,  *)
(* and a call of an earlier cycle lies further back than that.             *)
(***************************************************************************)
Base == calls - (counter - 1)

Cycle ==
  \A t \in Threads : id[t] # NoId =>
    /\ when[t] \in 1..calls
    /\ \A u \in Threads \ {t} : id[u] # NoId => when[u] # when[t]
    /\ ~late[t] =>
         /\ id[t] \in 1..MaxId
         /\ when[t] > Base => id[t] = when[t] - Base
         /\ when[t] <= Base => id[t] >= when[t] - Base + MaxId

IdInv == IdTypeOK /\ OneWrap /\ Cycle /\ IdsUnique

\* Truncation gives an id of the type's range, and keeps what is in it.
LEMMA TruncateRange ==
  ASSUME NEW n \in Nat
  PROVE  Truncate(n) \in 0..MaxId /\ (n <= MaxId => Truncate(n) = n)
  BY IdAssumption DEF Truncate

LEMMA InitIdInv == IdInit => IdInv
  BY IdAssumption DEF IdInit, IdInv, IdTypeOK, OneWrap, Wrapping, START, Cycle, IdsUnique

\* The counter and who sets it back.
LEMMA IncOneWrap ==
  ASSUME IdInv, NEW t \in Threads, Inc(t)
  PROVE  OneWrap'
<1>1. counter \in Nat /\ counter' = counter + 1
  BY DEF IdInv, IdTypeOK, Inc
<1>2. CASE counter = MaxId
  \* This thread meets the last id: nobody else was wrapping.
  <2>1. Wrapping = {}
    BY <1>2, IdAssumption DEF IdInv, OneWrap
  <2>2. Wrapping' = {t}
    BY <1>2, <2>1 DEF Wrapping, Inc, IdInv, IdTypeOK
  <2>3. counter' > MaxId
    BY <1>1, <1>2
  <2> QED
    BY <2>2, <2>3 DEF OneWrap
<1>3. CASE counter # MaxId
  <2>1. Wrapping' = Wrapping
    BY <1>3 DEF Wrapping, Inc, IdInv, IdTypeOK
  <2>2. counter' > MaxId <=> counter > MaxId
    BY <1>1, <1>3, IdAssumption
  <2> QED
    BY <2>1, <2>2 DEF IdInv, OneWrap
<1> QED
  BY <1>2, <1>3

LEMMA IncIdInv ==
  ASSUME IdInv, NEW t \in Threads, Inc(t)
  PROVE  IdInv'
<1> USE DEF IdInv
<1>1. /\ counter \in Nat \ {0} /\ calls \in Nat /\ MaxId \in Nat \ {0} /\ NoId \notin Nat
      /\ counter' = counter + 1 /\ calls' = calls + 1
      /\ Base' = Base /\ Base = calls - (counter - 1)
  BY IdAssumption DEF IdTypeOK, Inc, Note, Base
<1>2. /\ id' = [id EXCEPT ![t] = Truncate(counter)]
      /\ when' = [when EXCEPT ![t] = calls + 1]
      /\ late' = [late EXCEPT ![t] = Wrapping # {}]
  BY DEF Inc, Note
<1>3. /\ \A u \in Threads \ {t} : id'[u] = id[u] /\ when'[u] = when[u] /\ (late'[u] <=> late[u])
      /\ id'[t] = Truncate(counter) /\ when'[t] = calls + 1 /\ (late'[t] <=> Wrapping # {})
  BY <1>2 DEF IdTypeOK
<1>4. Truncate(counter) \in 0..MaxId
  BY <1>1, TruncateRange
<1>5. IdTypeOK'
  <2>1. when' \in [Threads -> 0..calls']
    BY <1>1, <1>2 DEF IdTypeOK
  <2>2. id' \in [Threads -> 0..MaxId \cup {NoId}]
    BY <1>2, <1>4 DEF IdTypeOK
  <2> QED
    BY <1>1, <1>2, <2>1, <2>2 DEF IdTypeOK, Inc
<1>6. ~late'[t] => id'[t] = counter /\ counter \in 1..MaxId
  <2>1. ~late'[t] => Wrapping = {}
    BY <1>3
  <2>2. ~late'[t] => counter <= MaxId
    BY <1>1, <2>1 DEF OneWrap
  <2>3. counter <= MaxId => Truncate(counter) = counter
    BY <1>1, TruncateRange
  <2>4. counter <= MaxId => counter \in 1..MaxId
    BY <1>1
  <2> QED
    BY <1>3, <2>2, <2>3, <2>4
<1>7. Cycle'
  <2>1. ASSUME NEW u \in Threads \ {t}, id[u] # NoId
        PROVE  when[u] \in 1..calls' /\ when[u] # calls + 1
    BY <1>1, <2>1 DEF Cycle
  <2>2. ASSUME NEW u \in Threads \ {t}, id[u] # NoId, ~late[u]
        PROVE  /\ id[u] \in 1..MaxId
               /\ when[u] > Base' => id[u] = when[u] - Base'
               /\ when[u] <= Base' => id[u] >= when[u] - Base' + MaxId
    BY <1>1, <2>2 DEF Cycle
  <2>3. calls + 1 \in 1..calls'
    BY <1>1
  <2>4. ~late'[t] => /\ id'[t] \in 1..MaxId
                     /\ calls + 1 > Base' => id'[t] = calls + 1 - Base'
                     /\ calls + 1 <= Base' => id'[t] >= calls + 1 - Base' + MaxId
    <3>1. counter = calls + 1 - Base /\ calls + 1 > Base
      BY <1>1
    <3> QED
      BY <1>1, <1>6, <3>1
  <2>5. \A u, v \in Threads \ {t} : u # v /\ id[u] # NoId /\ id[v] # NoId => when[u] # when[v]
    BY DEF Cycle
  <2>6. ASSUME NEW u \in Threads, id'[u] # NoId
        PROVE  /\ when'[u] \in 1..calls'
               /\ \A v \in Threads \ {u} : id'[v] # NoId => when'[v] # when'[u]
               /\ ~late'[u] =>
                    /\ id'[u] \in 1..MaxId
                    /\ when'[u] > Base' => id'[u] = when'[u] - Base'
                    /\ when'[u] <= Base' => id'[u] >= when'[u] - Base' + MaxId
    <3>1. CASE u = t
      <4>1. /\ when'[u] = calls + 1 /\ id'[u] = id'[t] /\ (late'[u] <=> late'[t])
            /\ \A v \in Threads \ {u} : id'[v] # NoId => when'[v] # when'[u]
        BY <1>3, <2>1, <3>1
      <4> QED
        BY <1>1, <1>4, <2>3, <2>4, <3>1, <4>1, <1>3
    <3>2. CASE u # t
      <4>1. when'[u] = when[u] /\ id'[u] = id[u] /\ (late'[u] <=> late[u]) /\ id[u] # NoId
        BY <1>3, <2>6, <3>2
      <4>2. \A v \in Threads \ {u} : id'[v] # NoId => when'[v] # when'[u]
        BY <1>3, <2>1, <2>5, <3>2, <4>1
      <4> QED
        BY <2>1, <2>2, <3>2, <4>1, <4>2
    <3> QED
      BY <3>1, <3>2
  <2> QED
    BY <2>6 DEF Cycle
<1>8. IdsUnique'
  <2>1. ASSUME NEW u \in Threads \ {t}, id'[u] = id'[t], ~late'[u], ~late'[t]
        PROVE  when'[t] - when'[u] >= MaxId
    <3>1. id'[u] = id[u] /\ when'[u] = when[u] /\ ~late[u]
      BY <1>3, <2>1
    <3>2. id[u] = counter /\ counter \in 1..MaxId
      BY <1>6, <2>1, <3>1
    <3>3. id[u] # NoId
      BY <1>1, <3>2
    <3>4. /\ when[u] \in 1..calls
          /\ when[u] > Base => id[u] = when[u] - Base
          /\ when[u] <= Base => id[u] >= when[u] - Base + MaxId
      BY <3>1, <3>3 DEF Cycle
    <3>5. when[u] <= Base
      BY <1>1, <3>2, <3>4
    <3>6. calls + 1 - when[u] >= MaxId
      BY <1>1, <3>2, <3>4, <3>5
    <3>7. when'[t] - when'[u] = calls + 1 - when[u]
      <4>1. when'[t] = calls + 1 /\ when'[u] = when[u]
        BY <1>3, <3>1
      <4>2. calls \in Int /\ when[u] \in Int
        BY <1>1, <3>4
      <4> QED
        BY <4>1, <4>2
    <3> QED
      BY <3>6, <3>7
  <2>2. ~late'[t] => id'[t] # 0
    BY <1>6
  <2>3. ASSUME NEW u \in Threads \ {t}, id[u] # NoId, ~late[u]
        PROVE  /\ id[u] # 0
               /\ \A v \in Threads \ {t, u} : id[v] = id[u] /\ ~late[v] =>
                    when[u] - when[v] >= MaxId \/ when[v] - when[u] >= MaxId
    BY <2>3 DEF IdsUnique
  <2>4. ASSUME NEW u \in Threads, id'[u] # NoId, ~late'[u]
        PROVE  /\ id'[u] # 0
               /\ \A v \in Threads \ {u} : id'[v] = id'[u] /\ ~late'[v] =>
                    when'[u] - when'[v] >= MaxId \/ when'[v] - when'[u] >= MaxId
    <3>1. CASE u = t
      <4> QED
        BY <2>1, <2>2, <2>4, <3>1
    <3>2. CASE u # t
      <4>1. when'[u] = when[u] /\ id'[u] = id[u] /\ (late'[u] <=> late[u]) /\ id[u] # NoId
        BY <1>3, <2>4, <3>2
      <4>2. id'[t] = id'[u] /\ ~late'[t] => when'[t] - when'[u] >= MaxId
        BY <2>1, <2>4, <3>2
      <4>3. \A v \in Threads \ {t, u} : id'[v] = id'[u] /\ ~late'[v] =>
              when'[u] - when'[v] >= MaxId \/ when'[v] - when'[u] >= MaxId
        BY <1>3, <2>3, <2>4, <3>2, <4>1
      <4> QED
        BY <2>3, <2>4, <3>2, <4>1, <4>2, <4>3
    <3> QED
      BY <3>1, <3>2
  <2> QED
    BY <2>4 DEF IdsUnique
<1> QED
  BY <1>5, <1>7, <1>8, IncOneWrap

LEMMA ResetIdInv ==
  ASSUME IdInv, NEW t \in Threads, Reset(t)
  PROVE  IdInv'
<1> USE DEF IdInv
<1>1. IdTypeOK'
  BY DEF IdTypeOK, Reset, START
<1>2. OneWrap'
  <2>1. Wrapping' = Wrapping \ {t}
    BY DEF Wrapping, Reset, IdTypeOK
  <2>2. Wrapping = {t}
    BY DEF OneWrap, Wrapping, Reset
  <2>3. counter' = 1 /\ ~(counter' > MaxId)
    BY IdAssumption DEF Reset, START
  <2> QED
    BY <2>1, <2>2, <2>3 DEF OneWrap
<1>3. /\ UNCHANGED <<id, calls, when, late>>
      /\ calls \in Nat /\ counter \in Nat /\ MaxId \in Nat
      /\ counter > MaxId
      /\ Base' = calls
      /\ Base = calls - (counter - 1)
  BY IdAssumption DEF Reset, START, Base, IdTypeOK, OneWrap, Wrapping
<1>4. Cycle'
  <2>1. ASSUME NEW u \in Threads, id[u] # NoId, ~late[u]
        PROVE  /\ when[u] <= Base'
               /\ id[u] >= when[u] - Base' + MaxId
    <3>1. /\ when[u] \in 1..calls
          /\ id[u] \in 1..MaxId
          /\ when[u] > Base => id[u] = when[u] - Base
          /\ when[u] <= Base => id[u] >= when[u] - Base + MaxId
      BY <2>1 DEF Cycle
    <3> QED
      BY <1>3, <3>1
  <2>2. /\ \A u \in Threads : when[u] \in Int
        /\ Base' \in Int
    BY <1>3 DEF IdTypeOK
  <2> QED
    BY <1>3, <2>1, <2>2 DEF Cycle
<1>5. IdsUnique'
  BY <1>3 DEF IdsUnique
<1> QED
  BY <1>1, <1>2, <1>4, <1>5

\* Sending and answers leave the counter and the wrapping thread alone.
LEMMA OtherIdInv ==
  ASSUME IdInv, NEW t \in Threads, Send(t) \/ Answered(t)
  PROVE  IdInv'
<1> USE DEF IdInv
<1>1. IdTypeOK'
  BY DEF IdTypeOK, Send, Answered
<1>2. OneWrap'
  <2>1. Wrapping' = Wrapping
    BY DEF Wrapping, Send, Answered, IdTypeOK
  <2> QED
    BY <2>1 DEF OneWrap, Send, Answered
<1>3. /\ UNCHANGED <<counter, calls, when, late>>
      /\ \A u \in Threads : id'[u] \in {id[u], NoId}
      /\ Base' = Base
  BY DEF Send, Answered, IdTypeOK, Base
<1>4. Cycle'
  BY <1>3 DEF Cycle
<1>5. IdsUnique'
  BY <1>3 DEF IdsUnique
<1> QED
  BY <1>1, <1>2, <1>4, <1>5

(***************************************************************************)
(* Of the ids under way none is 0, and two are equal only a whole cycle of *)
(* ids apart, but for the calls that overtake a thread between its         *)
(* increment and its reset (new_operation_id, greybus_messages.c:19-24):   *)
(* for any number of threads, any width of the id, and any interleaving.   *)
(***************************************************************************)
THEOREM UniqueIds == IdSpec => []IdsUnique
<1>1. IdInv /\ [IdNext]_idVars => IdInv'
  <2>1. ASSUME IdInv, IdNext
        PROVE  IdInv'
    BY <2>1, IncIdInv, ResetIdInv, OtherIdInv DEF IdNext
  <2>2. ASSUME IdInv, UNCHANGED idVars
        PROVE  IdInv'
    BY <2>2 DEF idVars, IdInv, IdTypeOK, OneWrap, Wrapping, Cycle, Base, IdsUnique
  <2> QED
    BY <2>1, <2>2
<1>2. IdInv => IdsUnique
  BY DEF IdInv
<1> QED
  BY InitIdInv, <1>1, <1>2, PTL DEF IdSpec
=============================================================================
