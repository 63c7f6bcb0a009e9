------------------------------ MODULE Camera ------------------------------
(***************************************************************************)
(* The camera driver (camera.c, camera_data.c): requests are handled on    *)
(* the worker thread of the core, frames are sent by frame_work on the     *)
(* system work queue, and the video device (drivers/video/fake_camera.c)   *)
(* fills buffers from a timer.  data_lock is taken by frame_work alone and *)
(* left out.                                                               *)
(*                                                                         *)
(* The host is external: it configures streams only of a connected cport   *)
(* (camera.c:179 asks for less: that the camera does not stream), and      *)
(* disconnects it only when the camera does not stream.                    *)
(***************************************************************************)
EXTENDS Naturals

CONSTANTS
  NumBuffers, \* GB_CAMERA_NUM_BUFFERS
  Pool,       \* buffers of the video pool
  MaxTarget,  \* bound on num_frames of a capture
  Fragments   \* messages of a frame

ASSUME CameraAssumption ==
  /\ NumBuffers \in Nat \ {0}
  /\ Pool \in Nat
  /\ MaxTarget \in Nat
  /\ Fragments \in Nat \ {0}

VARIABLES
  info,       \* info.state; "removed" while the cport is not connected
  stream,     \* stream_state
  target,     \* frag_state.target_frames
  frame_id,   \* frag_state.frame_id, up to MaxTarget + 1
  sent,       \* frames sent since the stream was started, up to MaxTarget + 1
  op, hpc,    \* the request being handled, and where its handler is
  left,       \* buffers start_stream has still to hand to the device
  wpc,        \* where frame_work is, "idle" when it does not run
  fragment,   \* messages of the frame sent so far
  pending,    \* frame_work is scheduled
  canceling,  \* k_work_cancel_delayable_sync waits for it
  on,         \* the device streams
  inq, outq,  \* buffers the device has to fill and has filled
  free        \* buffers in the pool

frag == <<target, frame_id, sent>>
handler == <<op, hpc, left>>
work == <<wpc, fragment, pending, canceling>>
buffers == <<inq, outq, free>>
vars == <<info, stream, frag, handler, work, on, buffers>>

Init ==
  /\ info = "removed" /\ stream = "idle"
  /\ target = 0 /\ frame_id = 0 /\ sent = 0
  /\ op = "none" /\ hpc = "idle" /\ left = 0
  /\ wpc = "idle" /\ fragment = 0 /\ pending = FALSE /\ canceling = FALSE
  /\ on = FALSE
  /\ inq = 0 /\ outq = 0 /\ free = Pool

\* Counting up to a bound above every target.
Count(n) == IF n > MaxTarget THEN n ELSE n + 1

-----------------------------------------------------------------------------
(* gb_camera_connected, gb_camera_disconnected, gb_camera_configure_streams *)

Connected ==
  /\ hpc = "idle" /\ info = "removed"
  /\ info' = "unconfigured"
  /\ stream' = "idle"
  /\ frame_id' = 0
  /\ pending' = FALSE /\ canceling' = FALSE
  /\ UNCHANGED <<target, sent, handler, wpc, fragment, on, buffers>>

Disconnected ==
  /\ hpc = "idle" /\ info \in {"unconfigured", "configured"}
  /\ info' = "removed"
  /\ UNCHANGED <<stream, frag, handler, work, on, buffers>>

\* The streams are valid and the device takes the format; otherwise, or
\* while streaming, the request is refused.
ConfigureStreams ==
  /\ hpc = "idle" /\ info \in {"unconfigured", "configured"}
  /\ info' = "configured"
  /\ UNCHANGED <<stream, frag, handler, work, on, buffers>>

-----------------------------------------------------------------------------
(* gb_camera_capture, with gb_camera_data_start_stream                     *)

Goto(pc) == hpc' = pc /\ UNCHANGED <<op, left>>
Reply == op' = "none" /\ hpc' = "idle" /\ left' = 0

\* A capture of num_frames, 0 for no limit.  While the stream runs
\* num_frames is ignored and the reply is a success (-EALREADY).
Capture(num_frames) ==
  /\ hpc = "idle" /\ info \in {"configured", "streaming"}
  /\ op' = "capture"
  /\ \/ /\ stream = "streaming"
        /\ hpc' = "streamStart" /\ left' = 0
        /\ UNCHANGED target
     \/ /\ stream # "streaming"
        /\ hpc' = "buffers" /\ left' = NumBuffers
        /\ target' = num_frames
  /\ UNCHANGED <<info, stream, frame_id, sent, work, on, buffers>>

Enqueue ==
  /\ hpc = "buffers" /\ left > 0 /\ free > 0
  /\ free' = free - 1 /\ inq' = inq + 1
  /\ left' = left - 1
  /\ UNCHANGED <<info, stream, frag, op, hpc, work, on, outq>>

\* No buffer in the pool, or the device refuses it and it is released: the
\* buffers enqueued before stay with the device.
EnqueueFails ==
  /\ hpc = "buffers" /\ left > 0
  /\ Reply
  /\ UNCHANGED <<info, stream, frag, work, on, buffers>>

SetStreaming ==
  /\ hpc = "buffers" /\ left = 0
  /\ stream' = "streaming"
  /\ sent' = 0
  /\ Goto("schedule")
  /\ UNCHANGED <<info, target, frame_id, work, on, buffers>>

\* k_work_schedule: nothing when the work is scheduled or being cancelled.
Schedule == pending' = (pending \/ ~canceling)

ScheduleFirst ==
  /\ hpc = "schedule"
  /\ Schedule
  /\ Goto("streamStart")
  /\ UNCHANGED <<info, stream, frag, wpc, fragment, canceling, on, buffers>>

StreamStart ==
  /\ hpc = "streamStart"
  /\ info' = "streaming"
  /\ on' = (on \/ info # "streaming")
  /\ Reply
  /\ UNCHANGED <<stream, frag, work, buffers>>

StreamStartFails ==
  /\ hpc = "streamStart" /\ info # "streaming"
  /\ Goto("stop")
  /\ UNCHANGED <<info, stream, frag, work, on, buffers>>

-----------------------------------------------------------------------------
(* gb_camera_data_stop_stream                                              *)

AfterStop == IF op = "flush" THEN Goto("streamStop") ELSE Reply

\* -EALREADY, which no caller looks at.
StopIdle ==
  /\ hpc = "stop" /\ stream = "idle"
  /\ AfterStop
  /\ UNCHANGED <<info, stream, frag, work, on, buffers>>

StopStream ==
  /\ hpc = "stop" /\ stream # "idle"
  /\ stream' = "stopping"
  /\ Goto("cancel")
  /\ UNCHANGED <<info, frag, work, on, buffers>>

\* Mutant: cancelled, but not waited for (k_work_cancel_delayable).
CancelOnly ==
  /\ hpc = "cancel"
  /\ pending' = FALSE /\ canceling' = FALSE
  /\ stream' = "idle"
  /\ AfterStop
  /\ UNCHANGED <<info, frag, wpc, fragment, on, buffers>>

\* k_work_cancel_delayable_sync ...
Cancel ==
  /\ hpc = "cancel"
  /\ pending' = FALSE /\ canceling' = TRUE
  /\ Goto("wait")
  /\ UNCHANGED <<info, stream, frag, wpc, fragment, on, buffers>>

\* ... returns when frame_work has.
Canceled ==
  /\ hpc = "wait" /\ wpc = "idle"
  /\ canceling' = FALSE
  /\ stream' = "idle"
  /\ AfterStop
  /\ UNCHANGED <<info, frag, wpc, fragment, pending, on, buffers>>

-----------------------------------------------------------------------------
(* gb_camera_flush                                                         *)

Flush ==
  /\ hpc = "idle" /\ info = "streaming"
  /\ op' = "flush" /\ hpc' = "stop" /\ left' = 0
  /\ UNCHANGED <<info, stream, frag, work, on, buffers>>

StreamStop ==
  /\ hpc = "streamStop"
  /\ on' = FALSE
  /\ Goto("driverFlush")
  /\ UNCHANGED <<info, stream, frag, work, buffers>>

\* video_stream_stop or video_driver_flush fails: the camera stays in
\* STATE_STREAMING.
FlushFails ==
  /\ hpc \in {"streamStop", "driverFlush"}
  /\ Reply
  /\ UNCHANGED <<info, stream, frag, work, on, buffers>>

DriverFlush ==
  /\ hpc = "driverFlush"
  /\ info' = "configured"
  /\ Reply
  /\ UNCHANGED <<stream, frag, work, on, buffers>>

-----------------------------------------------------------------------------
(* gb_camera_frame_worker on the system work queue                         *)

\* It returns at once when the stream is not running.
WorkStart ==
  /\ pending /\ wpc = "idle"
  /\ pending' = FALSE
  /\ wpc' = IF stream = "streaming" THEN "dequeue" ELSE "idle"
  /\ UNCHANGED <<info, stream, frag, handler, fragment, canceling, on, buffers>>

\* Mutant: frame_work is not scheduled again.
NoFrameReturns ==
  /\ wpc = "dequeue" /\ outq = 0
  /\ wpc' = "idle"
  /\ UNCHANGED <<info, stream, frag, handler, fragment, pending, canceling, on, buffers>>

NoFrame ==
  /\ wpc = "dequeue" /\ outq = 0
  /\ wpc' = "recheck"
  /\ UNCHANGED <<info, stream, frag, handler, fragment, pending, canceling, on, buffers>>

\* Mutant: a limit of one frame is taken for none.
AtTargetLate == target > 1 /\ frame_id' > target

AtTarget == target > 0 /\ frame_id' > target

\* Mutant: the frame is not counted.
DequeueNoCount ==
  /\ wpc = "dequeue" /\ outq > 0
  /\ outq' = outq - 1
  /\ frame_id' = frame_id
  /\ fragment' = 0
  /\ \/ /\ AtTarget
        /\ wpc' = "target"
        /\ UNCHANGED sent
     \/ /\ ~AtTarget
        /\ wpc' = "send"
        /\ sent' = Count(sent)
  /\ UNCHANGED <<info, stream, target, handler, pending, canceling, on, inq, free>>

Dequeue ==
  /\ wpc = "dequeue" /\ outq > 0
  /\ outq' = outq - 1
  /\ frame_id' = Count(frame_id)
  /\ fragment' = 0
  /\ \/ /\ AtTarget
        /\ wpc' = "target"
        /\ UNCHANGED sent
     \/ /\ ~AtTarget
        /\ wpc' = "send"
        /\ sent' = Count(sent)
  /\ UNCHANGED <<info, stream, target, handler, pending, canceling, on, inq, free>>

TargetReached ==
  /\ wpc = "target"
  /\ stream' = "idle"
  /\ wpc' = "last"
  /\ UNCHANGED <<info, frag, handler, fragment, pending, canceling, on, buffers>>

\* The buffer of the frame beyond the target goes back to the device, which
\* may refuse it: nobody looks, and the buffer is lost.
EnqueueLast ==
  /\ wpc = "last"
  /\ inq' \in {inq, inq + 1}
  /\ wpc' = "idle"
  /\ UNCHANGED <<info, stream, frag, handler, fragment, pending, canceling, on, outq, free>>

\* Mutant: when a fragment is refused the frame starts again.
SendFragmentRestarts ==
  /\ wpc = "send"
  /\ \/ fragment < Fragments /\ fragment' = fragment + 1
     \/ fragment > 0 /\ fragment' = 0
  /\ UNCHANGED <<info, stream, frag, handler, wpc, pending, canceling, on, buffers>>

SendFragment ==
  /\ wpc = "send" /\ fragment < Fragments
  /\ fragment' = fragment + 1
  /\ UNCHANGED <<info, stream, frag, handler, wpc, pending, canceling, on, buffers>>

\* All fragments are sent, or the transport refused one.
FrameEnds ==
  /\ wpc = "send"
  /\ wpc' = "recycle"
  /\ UNCHANGED <<info, stream, frag, handler, fragment, pending, canceling, on, buffers>>

\* Mutant: the buffer is released although the device took it.
RecycleReleases ==
  /\ wpc = "recycle"
  /\ inq' = inq + 1 /\ free' = free + 1
  /\ wpc' = "recheck"
  /\ UNCHANGED <<info, stream, frag, handler, fragment, pending, canceling, on, outq>>

Recycle ==
  /\ wpc = "recycle"
  /\ \/ inq' = inq + 1 /\ UNCHANGED free
     \/ free' = free + 1 /\ UNCHANGED inq  \* refused, and released
  /\ wpc' = "recheck"
  /\ UNCHANGED <<info, stream, frag, handler, fragment, pending, canceling, on, outq>>

Recheck ==
  /\ wpc = "recheck"
  /\ wpc' = IF stream = "streaming" THEN "reschedule" ELSE "idle"
  /\ UNCHANGED <<info, stream, frag, handler, fragment, pending, canceling, on, buffers>>

Reschedule ==
  /\ wpc = "reschedule"
  /\ Schedule
  /\ wpc' = "idle"
  /\ UNCHANGED <<info, stream, frag, handler, fragment, canceling, on, buffers>>

\* frame_timer_handler of the video device.
Fill ==
  /\ on /\ inq > 0
  /\ inq' = inq - 1 /\ outq' = outq + 1
  /\ UNCHANGED <<info, stream, frag, handler, work, on, free>>

-----------------------------------------------------------------------------
Request ==
  \/ Connected \/ Disconnected \/ ConfigureStreams \/ Flush
  \/ \E n \in 0..MaxTarget : Capture(n)

Handle ==
  \/ Enqueue \/ EnqueueFails \/ SetStreaming \/ ScheduleFirst
  \/ StreamStart \/ StreamStartFails
  \/ StopIdle \/ StopStream \/ Cancel \/ Canceled
  \/ StreamStop \/ FlushFails \/ DriverFlush

FrameWork ==
  \/ WorkStart \/ NoFrame \/ Dequeue \/ TargetReached \/ EnqueueLast
  \/ SendFragment \/ FrameEnds \/ Recycle \/ Recheck \/ Reschedule

Next == Request \/ Handle \/ FrameWork \/ Fill

\* Both threads are scheduled, and the timer of a streaming device ticks.
Fairness == WF_vars(Handle) /\ WF_vars(FrameWork) /\ WF_vars(Fill)

Spec == Init /\ [][Next]_vars /\ Fairness

-----------------------------------------------------------------------------
(* Properties *)

\* The buffer frame_work has dequeued.
Held == IF wpc \in {"target", "last", "send", "recycle"} THEN 1 ELSE 0

TypeOK ==
  /\ info \in {"removed", "unconfigured", "configured", "streaming"}
  /\ stream \in {"idle", "streaming", "stopping"}
  /\ target \in 0..MaxTarget
  /\ frame_id \in 0..MaxTarget + 1 /\ sent \in 0..MaxTarget + 1
  /\ op \in {"none", "capture", "flush"}
  /\ hpc \in {"idle", "buffers", "schedule", "streamStart", "stop", "cancel", "wait",
              "streamStop", "driverFlush"}
  /\ left \in 0..NumBuffers
  /\ wpc \in {"idle", "dequeue", "target", "last", "send", "recycle", "recheck", "reschedule"}
  /\ fragment \in 0..Fragments
  /\ pending \in BOOLEAN /\ canceling \in BOOLEAN /\ on \in BOOLEAN
  /\ inq \in Nat /\ outq \in Nat /\ free \in Nat
  /\ inq + outq + free + Held <= Pool

(***************************************************************************)
(* Once a flush has been answered with success, and as long as no capture  *)
(* follows, frame_work is not scheduled and sends nothing: neither after   *)
(* the reply nor while the device is being stopped.  This is what          *)
(* gb_camera_data_stop_stream waits for.                                   *)
(***************************************************************************)
Quiet == ~pending /\ wpc \in {"idle", "last"} /\ stream = "idle"

QuietAfterFlush ==
  \/ hpc = "idle" /\ info # "streaming"
  \/ hpc \in {"streamStop", "driverFlush"}
  => Quiet

(***************************************************************************)
(* A running stream does not stall: frame_work is scheduled, or it runs    *)
(* and will look at the stream again, or the handler is about to schedule  *)
(* it.  Start, end at the target and stop race with its own rescheduling.  *)
(***************************************************************************)
NeverStalls ==
  stream = "streaming" =>
    \/ pending
    \/ wpc \notin {"idle", "last"}
    \/ hpc = "schedule"

(***************************************************************************)
(* A capture never yields more frames than the host asked for.             *)
(***************************************************************************)
AtMostTarget == stream = "streaming" /\ target > 0 => sent <= target

(***************************************************************************)
(* Captures and flushes are answered: the handler waits for frame_work,    *)
(* and frame_work never for the handler.                                   *)
(***************************************************************************)
RequestAnswered == hpc # "idle" ~> hpc = "idle"

(***************************************************************************)
(* A capture of a number of frames ends by itself, unless the device is    *)
(* stopped or has refused back all its buffers.                            *)
(***************************************************************************)
CaptureEnds ==
  stream = "streaming" /\ target > 0 /\ on
    ~> stream # "streaming" \/ ~on \/ inq + outq + Held = 0
=============================================================================
