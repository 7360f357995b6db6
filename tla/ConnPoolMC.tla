----------------------------- MODULE ConnPoolMC -----------------------------
(***************************************************************************)
(* Instances of ConnPool for TLC: the poller and one upload.               *)
(***************************************************************************)
EXTENDS ConnPool
CONSTANTS u1, r1, r2
=============================================================================
