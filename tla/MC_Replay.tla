------------------------------ MODULE MC_Replay ------------------------------
(* Ticks of two units and orders of four, as 64 and 128 bytes; room for one order. *)
EXTENDS Replay

TwoTypes == {"tick", "order"}
Sizes == [t \in TwoTypes |-> IF t = "tick" THEN 2 ELSE 4]
=============================================================================
