--------------------------- MODULE MC_GridStrategy ---------------------------
(* Mid prices for a grid with levels at 400, 440 and 480 (20.0, 22.0 and 24.0):
   between two levels, one of them off the tick. *)
EXTENDS GridStrategy

TwoMids == {421, 460}
=============================================================================
