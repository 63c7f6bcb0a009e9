---------------------------- MODULE CameraProofs ----------------------------
(***************************************************************************)
(* Theorems about Camera, for any number of buffers, any pool and any      *)
(* limit on the frames of a capture.                                       *)
(***************************************************************************)
EXTENDS Camera, TLAPS

(***************************************************************************)
(* What the two threads know of each other.  An idle stream leaves nothing *)
(* of frame_work behind but its last return; only one run of it is         *)
(* scheduled, and none beside a run that could schedule another; while     *)
(* stop_stream is at work nobody starts the stream.                        *)
(***************************************************************************)
Phases ==
  /\ stream = "idle" => ~pending /\ wpc \in {"idle", "last"}
  /\ stream = "stopping" => hpc \in {"cancel", "wait"}
  /\ pending => wpc \in {"idle", "last"}
  /\ canceling => hpc = "wait"
  /\ hpc = "buffers" => stream = "idle"
  /\ hpc = "schedule" => stream = "streaming" /\ ~pending /\ wpc \in {"idle", "last"}
  /\ hpc \in {"cancel", "wait"} => stream # "streaming"
  /\ hpc = "wait" => canceling /\ ~pending
  /\ stream = "streaming" => sent <= frame_id

IInv == TypeOK /\ Phases /\ QuietAfterFlush /\ NeverStalls /\ AtMostTarget

LEMMA InitIInv == Init => IInv
<1> SUFFICES ASSUME Init PROVE IInv
  OBVIOUS
<1> USE CameraAssumption DEF Init
<1>1. TypeOK
  <2>1. 0 \in 0..MaxTarget /\ 0 \in 0..MaxTarget + 1 /\ 0 \in 0..NumBuffers /\ 0 \in 0..Fragments
    OBVIOUS
  <2>2. FALSE \in BOOLEAN
    OBVIOUS
  <2>3. 0 + 0 + Pool + Held <= Pool
    BY DEF Held
  <2> QED
    BY <2>1, <2>2, <2>3 DEF TypeOK
<1>2. Phases /\ QuietAfterFlush /\ NeverStalls /\ AtMostTarget
  BY DEF Phases, QuietAfterFlush, Quiet, NeverStalls, AtMostTarget
<1> QED
  BY <1>1, <1>2 DEF IInv

(***************************************************************************)
(* A request is taken, or answered at once.                                *)
(***************************************************************************)
LEMMA RequestIInv ==
  ASSUME IInv, Request
  PROVE  IInv'
<1> USE CameraAssumption DEF IInv, TypeOK, Held, Phases, QuietAfterFlush, Quiet, NeverStalls,
        AtMostTarget, frag, handler, work, buffers
<1>1. CASE Connected
  <2>1. UNCHANGED <<target, sent, op, hpc, left, wpc, fragment, on, inq, outq, free>>
    BY <1>1 DEF Connected
  <2>2. info' = "unconfigured" /\ stream' = "idle" /\ frame_id' \in 0..MaxTarget + 1
    BY <1>1 DEF Connected
  <2>3. pending' \in BOOLEAN /\ canceling' \in BOOLEAN
    BY <1>1 DEF Connected
  <2>4. inq' + outq' + free' + Held' <= Pool
    BY <2>1
  <2>5. TypeOK'
    BY <2>1, <2>2, <2>3, <2>4
  <2>6. Phases'
    BY <1>1 DEF Connected
  <2>7. QuietAfterFlush' /\ NeverStalls' /\ AtMostTarget'
    BY <1>1 DEF Connected
  <2> QED
    BY <2>5, <2>6, <2>7
<1>2. CASE Disconnected
  BY <1>2 DEF Disconnected
<1>3. CASE ConfigureStreams
  BY <1>3 DEF ConfigureStreams
<1>4. CASE Flush
  BY <1>4 DEF Flush
<1>5. ASSUME NEW n \in 0..MaxTarget, Capture(n)
      PROVE  IInv'
  BY <1>5 DEF Capture
<1> QED
  BY <1>1, <1>2, <1>3, <1>4, <1>5 DEF Request

(***************************************************************************)
(* The handler goes on.                                                    *)
(***************************************************************************)
LEMMA HandleIInv ==
  ASSUME IInv, Handle
  PROVE  IInv'
<1> USE CameraAssumption DEF IInv, TypeOK, Held, Phases, QuietAfterFlush, Quiet, NeverStalls,
        AtMostTarget, frag, handler, work, buffers
<1>1. CASE Enqueue
  BY <1>1 DEF Enqueue
<1>2. CASE EnqueueFails
  BY <1>2 DEF EnqueueFails, Reply
<1>3. CASE SetStreaming
  BY <1>3 DEF SetStreaming, Goto
<1>4. CASE ScheduleFirst
  BY <1>4 DEF ScheduleFirst, Goto, Schedule
<1>5. CASE StreamStart
  BY <1>5 DEF StreamStart, Reply
<1>6. CASE StreamStartFails
  BY <1>6 DEF StreamStartFails, Goto
<1>7. CASE StopIdle
  BY <1>7 DEF StopIdle, AfterStop, Goto, Reply
<1>8. CASE StopStream
  BY <1>8 DEF StopStream, Goto
<1>9. CASE Cancel
  BY <1>9 DEF Cancel, Goto
<1>10. CASE Canceled
  <2>1. TypeOK'
    <3>1. UNCHANGED <<info, target, frame_id, sent, wpc, fragment, pending, on, inq, outq, free>>
      BY <1>10 DEF Canceled
    <3>2. stream' = "idle" /\ canceling' \in BOOLEAN
      BY <1>10 DEF Canceled
    <3>3. op' \in {"none", "capture", "flush"} /\ hpc' \in {"idle", "streamStop"} /\ left' \in 0..NumBuffers
      BY <1>10 DEF Canceled, AfterStop, Goto, Reply
    <3> QED
      BY <3>1, <3>2, <3>3
  <2>2. Phases'
    BY <1>10 DEF Canceled, AfterStop, Goto, Reply
  <2>3. QuietAfterFlush' /\ NeverStalls' /\ AtMostTarget'
    BY <1>10 DEF Canceled, AfterStop, Goto, Reply
  <2> QED
    BY <2>1, <2>2, <2>3
<1>11. CASE StreamStop
  BY <1>11 DEF StreamStop, Goto
<1>12. CASE FlushFails
  BY <1>12 DEF FlushFails, Reply
<1>13. CASE DriverFlush
  BY <1>13 DEF DriverFlush, Reply
<1> QED
  BY <1>1, <1>2, <1>3, <1>4, <1>5, <1>6, <1>7, <1>8, <1>9, <1>10, <1>11, <1>12, <1>13 DEF Handle

(***************************************************************************)
(* The buffer frame_work gives back was its own.                           *)
(***************************************************************************)
LEMMA LastBuffer ==
  ASSUME TypeOK, EnqueueLast
  PROVE  inq' \in Nat /\ inq' + outq' + free' + Held' <= Pool
<1>1. inq \in Nat /\ outq \in Nat /\ free \in Nat /\ Pool \in Nat
  BY CameraAssumption DEF TypeOK
<1>2. inq + outq + free + 1 <= Pool
  BY DEF TypeOK, EnqueueLast, Held
<1>3. Held' = 0 /\ outq' = outq /\ free' = free
  BY DEF EnqueueLast, Held
<1>4. inq' = inq \/ inq' = inq + 1
  BY DEF EnqueueLast
<1> QED
  BY <1>1, <1>2, <1>3, <1>4

(***************************************************************************)
(* frame_work takes a step.                                                *)
(***************************************************************************)
LEMMA FrameWorkIInv ==
  ASSUME IInv, FrameWork
  PROVE  IInv'
<1> USE CameraAssumption DEF IInv, TypeOK, Held, Phases, QuietAfterFlush, Quiet, NeverStalls,
        AtMostTarget, frag, handler, work, buffers
<1>1. CASE WorkStart
  BY <1>1 DEF WorkStart
<1>2. CASE NoFrame
  BY <1>2 DEF NoFrame
<1>3. CASE Dequeue
  BY <1>3 DEF Dequeue, AtTarget, Count
<1>4. CASE TargetReached
  BY <1>4 DEF TargetReached
<1>5. CASE EnqueueLast
  <2>1. inq' \in Nat /\ inq' + outq' + free' + Held' <= Pool
    BY <1>5, LastBuffer
  <2>2. UNCHANGED <<info, stream, target, frame_id, sent, op, hpc, left, fragment, pending,
                    canceling, on, outq, free>>
    BY <1>5 DEF EnqueueLast
  <2>3. wpc' = "idle"
    BY <1>5 DEF EnqueueLast
  <2>5. TypeOK'
    BY <2>1, <2>2, <2>3
  <2>6. Phases' /\ QuietAfterFlush' /\ NeverStalls' /\ AtMostTarget'
    BY <1>5 DEF EnqueueLast
  <2> QED
    BY <2>5, <2>6
<1>6. CASE SendFragment
  BY <1>6 DEF SendFragment
<1>7. CASE FrameEnds
  BY <1>7 DEF FrameEnds
<1>8. CASE Recycle
  BY <1>8 DEF Recycle
<1>9. CASE Recheck
  BY <1>9 DEF Recheck
<1>10. CASE Reschedule
  <2>1. wpc = "reschedule" /\ wpc' = "idle"
    BY <1>10 DEF Reschedule
  <2>2. pending' \in BOOLEAN
    BY <1>10 DEF Reschedule, Schedule
  <2>3. UNCHANGED <<info, stream, target, frame_id, sent, op, hpc, left, fragment, canceling,
                    on, inq, outq, free>>
    BY <1>10 DEF Reschedule
  <2>4. stream # "idle" /\ ~pending
    BY <2>1
  <2>5. stream = "streaming" => ~canceling /\ hpc # "wait"
    OBVIOUS
  <2>6. canceling => ~pending'
    BY <1>10, <2>4 DEF Reschedule, Schedule
  <2>7. ~canceling => pending'
    BY <1>10 DEF Reschedule, Schedule
  <2>8. TypeOK'
    BY <2>1, <2>2, <2>3
  <2>9. hpc' = "wait" => ~pending'
    BY <2>3, <2>6
  <2>10. Phases'
    BY <2>1, <2>3, <2>4, <2>9
  <2>11. QuietAfterFlush' /\ NeverStalls' /\ AtMostTarget'
    BY <2>1, <2>3, <2>4, <2>5, <2>7
  <2> QED
    BY <2>8, <2>10, <2>11
<1> QED
  BY <1>1, <1>2, <1>3, <1>4, <1>5, <1>6, <1>7, <1>8, <1>9, <1>10 DEF FrameWork

(***************************************************************************)
(* The device fills a buffer.                                              *)
(***************************************************************************)
LEMMA FillIInv ==
  ASSUME IInv, Fill
  PROVE  IInv'
<1>1. UNCHANGED <<info, stream, target, frame_id, sent, op, hpc, left, wpc, fragment, pending,
                  canceling, on, free>>
  BY DEF Fill, frag, handler, work
<1>2. inq' \in Nat /\ outq' \in Nat /\ inq' + outq' + free + Held <= Pool
  BY DEF Fill, IInv, TypeOK, Held
<1>3. TypeOK'
  <2>1. Held' = Held
    BY <1>1 DEF Held
  <2>2. inq' + outq' + free' + Held' <= Pool
    BY <1>1, <1>2, <2>1
  <2> QED
    BY <1>1, <1>2, <2>2 DEF IInv, TypeOK
<1>4. Phases' /\ QuietAfterFlush' /\ NeverStalls' /\ AtMostTarget'
  BY <1>1 DEF IInv, Phases, QuietAfterFlush, Quiet, NeverStalls, AtMostTarget
<1> QED
  BY <1>3, <1>4 DEF IInv

LEMMA StutterIInv ==
  ASSUME IInv, UNCHANGED vars
  PROVE  IInv'
<1> USE DEF vars, frag, handler, work, buffers
<1>1. TypeOK'
  BY DEF IInv, TypeOK, Held
<1>2. Phases' /\ QuietAfterFlush' /\ NeverStalls' /\ AtMostTarget'
  BY DEF IInv, Phases, QuietAfterFlush, Quiet, NeverStalls, AtMostTarget
<1> QED
  BY <1>1, <1>2 DEF IInv

(***************************************************************************)
(* The invariant holds in every reachable state, whatever is scheduled.    *)
(***************************************************************************)
THEOREM Invariance == Spec => []IInv
<1>1. Init => IInv
  BY InitIInv
<1>2. IInv /\ [Next]_vars => IInv'
  BY RequestIInv, HandleIInv, FrameWorkIInv, FillIInv, StutterIInv DEF Next
<1> QED
  BY <1>1, <1>2, PTL DEF Spec

(***************************************************************************)
(* The variables keep their types, and no buffer is ever in two places:    *)
(* what the device, the driver and the pool hold never exceeds the pool.   *)
(***************************************************************************)
THEOREM TypeCorrect == Spec => []TypeOK
<1>1. IInv => TypeOK
  BY DEF IInv
<1> QED
  BY <1>1, Invariance, PTL

(***************************************************************************)
(* A flush answered with success is final: no frame is sent after the      *)
(* reply until the host captures again (gb_camera_flush).                  *)
(***************************************************************************)
THEOREM FlushIsFinal == Spec => []QuietAfterFlush
<1>1. IInv => QuietAfterFlush
  BY DEF IInv
<1> QED
  BY <1>1, Invariance, PTL

(***************************************************************************)
(* While the stream runs somebody is bound to look at it again: the races  *)
(* of start, target and stop with frame_work's own rescheduling lose no    *)
(* wakeup (gb_camera_frame_worker).                                        *)
(***************************************************************************)
THEOREM StreamNeverStalls == Spec => []NeverStalls
<1>1. IInv => NeverStalls
  BY DEF IInv
<1> QED
  BY <1>1, Invariance, PTL

(***************************************************************************)
(* The frames of a capture never exceed num_frames, though the target and  *)
(* the frame number are kept by different threads.                         *)
(***************************************************************************)
THEOREM WithinTarget == Spec => []AtMostTarget
<1>1. IInv => AtMostTarget
  BY DEF IInv
<1> QED
  BY <1>1, Invariance, PTL
=============================================================================
