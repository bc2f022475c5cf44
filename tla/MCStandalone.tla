---------------------------- MODULE MCStandalone ----------------------------
(* The three standalone runners for model checking StandaloneRunner. *)
EXTENDS StandaloneRunner

MCMaxFaults == [BYBIT |-> 1, OKX |-> 2, BINANCE_SPOT |-> 2]
=============================================================================
