------------------------------- MODULE MCHdlc -------------------------------
(***************************************************************************)
(* Instances of Hdlc for TLC.                                              *)
(***************************************************************************)
EXTENDS Hdlc

\* The last byte of every frame is escaped: a checksum may be.
LastEscaped == {Length}
=============================================================================
