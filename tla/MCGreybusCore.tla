--------------------------- MODULE MCGreybusCore ---------------------------
(***************************************************************************)
(* Instances of GreybusCore for TLC.                                       *)
(***************************************************************************)
EXTENDS GreybusCore, TLC

CONSTANTS r1, r2, r3, r4, r5

\* A request that is never released, one answered with memory of its own, a
\* find response, one for a cport without a driver, one answered early.
MixedHandler == (r1 :> "keep") @@ (r2 :> "formats") @@ (r3 :> "found")
                  @@ (r4 :> "none") @@ (r5 :> "load")

\* A request that is never released, one without a reply, after which the
\* handler sends a request of its own, and one with.
LiveHandler == (r1 :> "keep") @@ (r2 :> "last") @@ (r3 :> "payload")

\* Replies that all need memory.
PayloadHandler == [r \in Requests |-> "payload"]

Symmetry == Permutations(Blocks)
=============================================================================
