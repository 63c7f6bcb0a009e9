------------------------------ MODULE MCCamera ------------------------------
(* Instance of Camera for TLC: room for one capture and a buffer, as in the *)
(* configuration of the camera tests but with smaller numbers.              *)
EXTENDS Camera
=============================================================================
