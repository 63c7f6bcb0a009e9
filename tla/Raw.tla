--------------------------------- MODULE Raw ---------------------------------
(***************************************************************************)
(* The drivers without a device: raw (raw.c), whose slots threads of the   *)
(* application take, log (log.c) and loopback (loopback.c).                *)
(*                                                                         *)
(* A slot is two words that are written one after the other, without a     *)
(* lock; the worker reads them for every message.                          *)
(***************************************************************************)
EXTENDS Operations

CONSTANTS
  Slots,   \* GREYBUS_RAW_CPORT_COUNT
  Threads  \* threads of the application, each of which registers once

\* A thread is at the slot it looks at; "cb" is its callback and "priv" its private
\* data.  called is the pair the worker has called last.
RawInit ==
  [cb |-> [i \in 1..Slots |-> "NULL"], cb_priv |-> [i \in 1..Slots |-> "NULL"],
   pc |-> [t \in Threads |-> "test"], at |-> [t \in Threads |-> 1], called |-> <<"NULL", "NULL">>]
Owners == Threads \cup {"NULL"}
RawStates ==
  [cb : [1..Slots -> Owners], cb_priv : [1..Slots -> Owners],
   pc : [Threads -> {"test", "cb", "priv", "done", "ENODEV"}],
   at : [Threads -> 1..Slots + 1], called : Owners \X Owners]

\* The slot is free, or the next one is looked at, or there are no more.
RegisterTest(s, t) ==
  CASE s.at[t] > Slots -> [s EXCEPT !.pc[t] = "ENODEV"]
    [] s.at[t] <= Slots /\ s.cb[s.at[t]] = "NULL" -> [s EXCEPT !.pc[t] = "cb"]
    [] OTHER -> [s EXCEPT !.at[t] = @ + 1]
RegisterCb(s, t) == [s EXCEPT !.cb[s.at[t]] = t, !.pc[t] = "priv"]
RegisterPriv(s, t) == [s EXCEPT !.cb_priv[s.at[t]] = t, !.pc[t] = "done"]

\* greybus_raw_send_data: the message is released whether it was sent or not.
RawSteps(s) ==
  {<<RegisterTest(s, t), Nothing>> : t \in {u \in Threads : s.pc[u] = "test"}} \cup
  {<<RegisterCb(s, t), Nothing>> : t \in {u \in Threads : s.pc[u] = "cb"}} \cup
  {<<RegisterPriv(s, t), Nothing>> : t \in {u \in Threads : s.pc[u] = "priv"}} \cup
  {<<s, Event(<<"send">>, 0)>> : t \in {u \in Threads : s.pc[u] = "done"}}

RawRequests == [type : {"send", "unknown"}, slot : 1..Slots]
RawResponses(s) ==
  [type : {"send response"}, slot : {s.at[t] : t \in {u \in Threads : s.pc[u] = "done"}}]

\* What the callback returns is the result.
RawHandle(s, r) ==
  CASE s.cb[r.slot] = "NULL" -> Unchanged(s, Internal)
    [] s.cb[r.slot] # "NULL" /\ r.type = "send" ->
         LET t == [s EXCEPT !.called = <<s.cb[r.slot], s.cb_priv[r.slot]>>]
         IN  {<<t, Reply(Ok)>>, <<t, Reply(Failure)>>}
    [] s.cb[r.slot] # "NULL" /\ r.type = "send response" -> {<<s, Consume>>}
    [] OTHER -> Unchanged(s, ProtocolBad)

\* Unless two threads are in the same slot at the same time, a callback is called
\* with its own data, or with none while its thread is still registering it.
Collided(s) ==
  \E t, u \in Threads :
    t # u /\ s.at[t] = s.at[u] /\ s.pc[t] \in {"priv", "done"} /\ s.pc[u] \in {"cb", "priv", "done"}
RawCallsMatch(s) ==
  Collided(s) \/ s.called[2] \in {s.called[1], "NULL"}

-----------------------------------------------------------------------------
(* Log and loopback: nothing is kept.                                      *)

LogRequests == [type : {"unknown"}]
LogResponses == [type : {"send_log response"}]
LogHandle(s, r) ==
  IF r.type = "send_log response" THEN {<<s, Consume>>} ELSE Unchanged(s, ProtocolBad)

\* gb_log_send_log, without memory: nothing is sent.
LogEvents(s) == {<<s, Event(<<"send_log">>, 0)>>, <<s, Nothing>>}

\* The request of a transfer is sent back as its own answer.
LoopbackRequests == [type : {"ping", "transfer", "sink", "unknown"}]
LoopbackHandle(s, r) == Unchanged(s, IF r.type = "unknown" THEN Invalid ELSE Ok)
=============================================================================
