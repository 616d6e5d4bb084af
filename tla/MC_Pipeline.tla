----------------------------- MODULE MC_Pipeline -----------------------------
(* The three modes of the program, and queues of one or two elements, so that
   every queue is full at times. *)
EXTENDS Pipeline

AllModes == {[live |-> FALSE, simulated |-> TRUE], [live |-> TRUE, simulated |-> TRUE],
             [live |-> TRUE, simulated |-> FALSE]}
=============================================================================
