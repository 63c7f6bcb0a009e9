----------------------------- MODULE MCApbridge -----------------------------
(* Instances of Apbridge for TLC. *)
EXTENDS Apbridge, TLC

CONSTANTS n1, n2

\* The nodes differ in nothing.
Symmetry == Permutations({n1, n2})
=============================================================================
