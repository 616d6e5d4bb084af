----------------------------- MODULE MC_Trading -----------------------------
(* Two symbols, three orders of one or two lots, a limit that one order can *)
(* reach and two exceed, and a fill queue that two late fills overflow.     *)
EXTENDS Trading, TLC
Symmetry == Permutations(Symbols)
=============================================================================
