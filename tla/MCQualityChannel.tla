-------------------------- MODULE MCQualityChannel --------------------------
(* A small instance of QualityChannel for TLC. *)
EXTENDS QualityChannel
=============================================================================
