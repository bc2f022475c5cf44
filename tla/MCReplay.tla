------------------------------ MODULE MCReplay ------------------------------
(* Model checking of Replay. *)
EXTENDS Replay
=============================================================================
