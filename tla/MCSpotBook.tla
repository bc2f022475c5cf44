------------------------------ MODULE MCSpotBook ------------------------------
(* A small venue for model checking SpotBook. *)
EXTENDS SpotBook
=============================================================================
