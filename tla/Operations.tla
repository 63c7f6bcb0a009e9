----------------------------- MODULE Operations -----------------------------
(***************************************************************************)
(* What a driver's op_handler does with the message it is given, as far as *)
(* the core and the AP can tell: the answers it sends, how often it        *)
(* releases the message, the memory it keeps, and the requests of its own  *)
(* that it sends on the way (greybus_transport.h, greybus_messages.c).     *)
(*                                                                         *)
(* The handlers run to completion on the worker.  A driver is a set of     *)
(* operators: its state at first, the requests, what a request makes of    *)
(* the state as a set of <<state, outcome>>, one for each way in which the *)
(* device can fail, and what the device then shows.  What is to show is a  *)
(* function from features, <<name, index>>, to values.                     *)
(***************************************************************************)
EXTENDS Naturals, Sequences, FiniteSets

\* gb_errno_to_op_result tells some errors apart; no handler depends on which.
Ok == "GB_OP_SUCCESS"
Invalid == "GB_OP_INVALID"
ProtocolBad == "GB_OP_PROTOCOL_BAD"
Internal == "GB_OP_INTERNAL"
Failure == "errno"
Unknown == "GB_OP_UNKNOWN_ERROR"
Results == {Ok, Invalid, ProtocolBad, Internal, Failure, Unknown}

Outcome(answers, released, kept, requests) ==
  [answers |-> answers, released |-> released, kept |-> kept, requests |-> requests]

\* gb_transport_message_empty_response_send, and
\* gb_transport_message_response_success_send, whose response is released too.
Reply(result) == Outcome(<<result>>, 1, 0, <<>>)

\* gb_message_dealloc of a message that needs no answer.
Consume == Outcome(<<>>, 1, 0, <<>>)

\* gb_message_alloc, gb_transport_message_send and gb_message_dealloc of the
\* response only: the request stays allocated.
ReplyAndKeep(result) == Outcome(<<result>>, 0, 1, <<>>)

\* Messages sent outside of any handler, with the memory they keep.
Event(requests, kept) == Outcome(<<>>, 0, kept, requests)
Nothing == Event(<<>>, 0)

\* The driver is as it was, and the request answered.
Unchanged(s, result) == {<<s, Reply(result)>>}

\* A device that refuses stays as it is; result is what the AP is told then.
Configured(s, t, result) == {<<s, Reply(result)>>, <<t, Reply(Ok)>>}

NoSettings == <<>>
Only(feature, value) == [f \in {feature} |-> value]
Over(f, g) == [x \in DOMAIN f \cup DOMAIN g |-> IF x \in DOMAIN f THEN f[x] ELSE g[x]]
=============================================================================
