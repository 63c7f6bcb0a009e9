------------------------------- MODULE MCLinks -------------------------------
(* An instance of Links for TLC. *)
EXTENDS Links

\* A short message and one as long as the ring.
SmallLengths == <<2, 3>>
=============================================================================
