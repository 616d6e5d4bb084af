----------------------------- MODULE BoundedFifo -----------------------------
(***************************************************************************)
(* What a bounded queue shared by several threads promises: each accepted  *)
(* element enters at one end in one atomic step, each taken element leaves *)
(* at the other end in one atomic step, nothing is lost, duplicated,       *)
(* overtaken or overwritten, and there are never more than Capacity of     *)
(* them.  MPMCQueue is shown to implement it.                              *)
(***************************************************************************)
EXTENDS Integers, Sequences

CONSTANTS Capacity,    \* the number of elements the queue can hold
          Consumers,   \* the threads that take elements
          Values,      \* the elements
          NoValue      \* what a consumer holds before its first element

VARIABLES items,       \* the accepted elements, oldest first
          out          \* the element each consumer took last

vars == <<items, out>>

Init == /\ items = <<>>
        /\ out = [c \in Consumers |-> NoValue]

Put(v) == /\ Len(items) < Capacity
          /\ items' = Append(items, v)
          /\ UNCHANGED out

Take(c) == /\ items # <<>>
           /\ out' = [out EXCEPT ![c] = Head(items)]
           /\ items' = Tail(items)

Next == \/ \E v \in Values : Put(v)
        \/ \E c \in Consumers : Take(c)

Spec == Init /\ [][Next]_vars
=============================================================================
