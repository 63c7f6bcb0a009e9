--------------------------- MODULE InOrderServer ---------------------------
(***************************************************************************)
(* What the Greybus core promises to the peer, without threads, queue or   *)
(* heap: requests are accepted in some order, each is served exactly once  *)
(* and in that order, and serving a request either hands one reply to the  *)
(* transport or, for the operations that are silent, none.                 *)
(***************************************************************************)
EXTENDS Sequences

CONSTANTS
  Requests,   \* the operations the peer may issue
  Silent      \* those whose handler consumes the message without a reply

VARIABLES
  accepted,   \* the requests accepted so far
  pending,    \* those not served yet, oldest first
  replies     \* the requests answered, in the order of the answers

vars == <<accepted, pending, replies>>

Init ==
  /\ accepted = {}
  /\ pending = <<>>
  /\ replies = <<>>

Accept(r) ==
  /\ r \notin accepted
  /\ accepted' = accepted \cup {r}
  /\ pending' = Append(pending, r)
  /\ UNCHANGED replies

Reply ==
  /\ pending # <<>>
  /\ Head(pending) \notin Silent
  /\ replies' = Append(replies, Head(pending))
  /\ pending' = Tail(pending)
  /\ UNCHANGED accepted

Consume ==
  /\ pending # <<>>
  /\ Head(pending) \in Silent
  /\ pending' = Tail(pending)
  /\ UNCHANGED <<accepted, replies>>

Serve == Reply \/ Consume

Next == Serve \/ \E r \in Requests : Accept(r)

SafeSpec == Init /\ [][Next]_vars

(***************************************************************************)
(* The server never stops serving while something is pending.              *)
(***************************************************************************)
Spec == SafeSpec /\ WF_vars(Serve)
=============================================================================
