---------------------------- MODULE MCOperationId ----------------------------
(* Instances of OperationId for TLC. *)
EXTENDS OperationId, TLC

CONSTANTS t1, t2, t3

\* Threads differ in nothing.
Symmetry == Permutations({t1, t2, t3})
=============================================================================
