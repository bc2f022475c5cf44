--------------------------- MODULE MCCollectorStop ---------------------------
(* Two websocket clients for model checking CollectorStop. *)
EXTENDS CollectorStop
=============================================================================
