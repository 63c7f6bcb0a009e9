---------------------------- MODULE MCFwDownload ----------------------------
(* Instances of FwDownload for TLC. *)
EXTENDS FwDownload, TLC

CONSTANTS f1, f2

\* An image of one chunk and one that takes several fetches.
SmallImages == (f1 :> 1) @@ (f2 :> 3)
=============================================================================
