----------------------------- MODULE AtomicParams -----------------------------
(***************************************************************************)
(* What a consistent read of the risk parameters promises: the parameters  *)
(* change as a whole, and a read returns all of them as they are at one    *)
(* moment.  A parameter set is named by the number of its update.          *)
(***************************************************************************)
EXTENDS Integers

CONSTANTS Fields,      \* the parameters
          Readers      \* the threads that check orders

VARIABLES current,     \* the update in force
          snap         \* the update each parameter of a reader's copy is from

vars == <<current, snap>>

Init == /\ current = 0
        /\ snap = [r \in Readers |-> [f \in Fields |-> 0]]

Publish == /\ current' = current + 1
           /\ UNCHANGED snap

Read(r) == /\ snap' = [snap EXCEPT ![r] = [f \in Fields |-> current]]
           /\ UNCHANGED current

Next == Publish \/ \E r \in Readers : Read(r)

Spec == Init /\ [][Next]_vars
=============================================================================
