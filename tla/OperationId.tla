---------------------------- MODULE OperationId ----------------------------
(***************************************************************************)
(* Operation ids of the requests the node itself sends.  new_operation_id  *)
(* (greybus_messages.c) increments a shared counter atomically and, when   *)
(* it was at its last value, sets it back in a second atomic step; the log *)
(* backend, applications (raw.c, audio.c), the SVC and the worker all call *)
(* it, each from its own thread.                                           *)
(***************************************************************************)
EXTENDS Integers

CONSTANTS
  Threads,   \* threads that send requests
  MaxId,     \* UINT16_MAX
  MaxCalls,  \* bound: calls of new_operation_id
  NoId       \* before and after a request

ASSUME IdAssumption ==
  /\ MaxId \in Nat \ {0}
  /\ MaxCalls \in Nat
  /\ NoId \notin Nat

VARIABLES
  counter,  \* operation_id_counter
  pc,       \* per thread: idle, reset (temp = MaxId), send, wait
  id,       \* per thread: the id of its request
  calls,    \* calls so far
  when,     \* history, per thread: the number of its call
  late      \* history, per thread: its call came while another was between
            \* its increment and its reset

idVars == <<counter, pc, id, calls, when, late>>

START == 1

\* Mutant: the id keeps the width of the counter.
TruncateNot(temp) == temp

\* The return type is uint16_t.
Truncate(temp) == temp % (MaxId + 1)

IdInit ==
  /\ counter = START
  /\ pc = [t \in Threads |-> "idle"]
  /\ id = [t \in Threads |-> NoId]
  /\ calls = 0
  /\ when = [t \in Threads |-> 0]
  /\ late = [t \in Threads |-> FALSE]

\* A thread between its increment and its reset.
Wrapping == {t \in Threads : pc[t] = "reset"}

Note(t) ==
  /\ calls < MaxCalls /\ calls' = calls + 1
  /\ when' = [when EXCEPT ![t] = calls + 1]
  /\ late' = [late EXCEPT ![t] = Wrapping # {}]

\* Mutant: the counter is set back once the last id is passed.
IncTestsLate(t) ==
  /\ pc[t] = "idle"
  /\ Note(t)
  /\ counter' = counter + 1
  /\ id' = [id EXCEPT ![t] = Truncate(counter)]
  /\ pc' = [pc EXCEPT ![t] = IF counter > MaxId THEN "reset" ELSE "send"]

\* atomic_inc and the test of its result.
Inc(t) ==
  /\ pc[t] = "idle"
  /\ Note(t)
  /\ counter' = counter + 1
  /\ id' = [id EXCEPT ![t] = Truncate(counter)]
  /\ pc' = [pc EXCEPT ![t] = IF counter = MaxId THEN "reset" ELSE "send"]

\* atomic_set.
Reset(t) ==
  /\ pc[t] = "reset"
  /\ counter' = START
  /\ pc' = [pc EXCEPT ![t] = "send"]
  /\ UNCHANGED <<id, calls, when, late>>

\* The message goes out with its id (gb_message_request_alloc and the send).
Send(t) ==
  /\ pc[t] = "send"
  /\ pc' = [pc EXCEPT ![t] = "wait"]
  /\ UNCHANGED <<counter, id, calls, when, late>>

\* The peer has answered the request, or given it up.
Answered(t) ==
  /\ pc[t] = "wait"
  /\ pc' = [pc EXCEPT ![t] = "idle"]
  /\ id' = [id EXCEPT ![t] = NoId]
  /\ UNCHANGED <<counter, calls, when, late>>

IdNext == \E t \in Threads : Inc(t) \/ Reset(t) \/ Send(t) \/ Answered(t)

IdSpec == IdInit /\ [][IdNext]_idVars

-----------------------------------------------------------------------------
(* Properties *)

IdTypeOK ==
  /\ counter \in Nat \ {0}
  /\ pc \in [Threads -> {"idle", "reset", "send", "wait"}]
  /\ id \in [Threads -> 0..MaxId \cup {NoId}]
  /\ calls \in Nat
  /\ when \in [Threads -> 0..calls]
  /\ late \in [Threads -> BOOLEAN]

\* The counter passes MaxId only while a thread is about to set it back, and
\* only one thread does: part of the inductive invariant of IdsUnique.
OneWrap ==
  /\ counter > MaxId <=> Wrapping # {}
  /\ \A t, u \in Wrapping : t = u

(***************************************************************************)
(* Of the ids of the requests under way, none is 0, the id of              *)
(* unidirectional messages, and two are equal only when all ids have been  *)
(* handed out between them, unless the call that got one of them overtook  *)
(* a thread that had still to set the counter back: what is left of        *)
(* "unique operation id" (new_operation_id).                               *)
(***************************************************************************)
IdsUnique ==
  \A t \in Threads : id[t] # NoId /\ ~late[t] =>
    /\ id[t] # 0
    /\ \A u \in Threads \ {t} : id[u] = id[t] /\ ~late[u] =>
         when[t] - when[u] >= MaxId \/ when[u] - when[t] >= MaxId
=============================================================================
