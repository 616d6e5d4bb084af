---------------------------- MODULE MC_MPMCQueue ----------------------------
(***************************************************************************)
(* Small instances of MPMCQueue for TLC.  Threads and values are model     *)
(* values: the code treats all producers, all consumers, all observers and *)
(* all values alike, which makes the symmetry sound for the safety runs.   *)
(***************************************************************************)
EXTENDS MPMCQueue, TLC

Symmetry == Permutations(Producers) \cup Permutations(Consumers)
            \cup Permutations(Observers) \cup Permutations(Values)
=============================================================================
