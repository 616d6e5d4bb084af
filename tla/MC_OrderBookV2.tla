--------------------------- MODULE MC_OrderBookV2 ---------------------------
(* Three prices for two levels, of which one is hot. *)
EXTENDS OrderBookV2
=============================================================================
