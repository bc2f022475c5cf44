-------------------------- MODULE MCSegmentWriter --------------------------
(* A small instance of SegmentWriter for TLC. *)
EXTENDS SegmentWriter, TLC

HourSymmetry == Permutations(Hours)
=============================================================================
