---------------------------- MODULE MC_RiskParams ----------------------------
(***************************************************************************)
(* Small instances of RiskParams for TLC.  The parameters are copied and   *)
(* read in any order and the readers run the same code, so both are        *)
(* symmetric.                                                              *)
(***************************************************************************)
EXTENDS RiskParams, TLC

Symmetry == Permutations(Fields) \cup Permutations(Readers) \cup Permutations(ColdReaders)
=============================================================================
