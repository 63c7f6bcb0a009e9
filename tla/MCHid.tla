-------------------------------- MODULE MCHid --------------------------------
(* An instance of Hid for TLC: reports go around three nodes, twice. *)
EXTENDS Hid

=============================================================================
