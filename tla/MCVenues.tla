------------------------------ MODULE MCVenues ------------------------------
(***************************************************************************)
(* The two runners of the other venues that need a model of their own, in  *)
(* one run: a behaviour is one of Bybit's quality channel (BybitQuality)   *)
(* or of OKX's raw capture (OkxCapture), the other at rest.                *)
(***************************************************************************)
EXTENDS BybitQuality, OkxCapture

VARIABLE which

MCInit == which \in {"bybit", "okx"} /\ Init /\ CaptureInit

Bybit(action) == which = "bybit" /\ action /\ UNCHANGED <<which, capture>>

MCNext == \/ Bybit(Next)
          \/ which = "okx" /\ CaptureNext /\ UNCHANGED <<which, vars>>

MCSpec == MCInit /\ [][MCNext]_<<vars, capture, which>> /\ WF_<<vars, which>>(Bybit(Work))
=============================================================================
