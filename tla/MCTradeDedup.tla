--------------------------- MODULE MCTradeDedup ---------------------------
(* A small instance of TradeDedup for TLC. *)
EXTENDS TradeDedup
=============================================================================
