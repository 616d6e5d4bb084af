------------------------------ MODULE MPMCQueue ------------------------------
(***************************************************************************)
(* utils/mpmc_queue.hpp: the bounded lock-free queue every thread of the   *)
(* engine talks through.  A ticket is a value of the unbounded counter     *)
(* head (producers) or tail (consumers); ticket t uses slot t % N, which   *)
(* is pos & (N - 1) for the powers of two the static_assert admits.  The   *)
(* sequence number of a slot says whose turn it is: t when producer ticket *)
(* t may write it, t + 1 when consumer ticket t may read it, t + N when    *)
(* the consumer has let it go.                                             *)
(*                                                                         *)
(* One action per atomic access: a load, a compare-exchange, a store, and  *)
(* the memcpy of an element.  Accesses to slot sequence numbers are        *)
(* acquire/release in the code and sequentially consistent here.  The      *)
(* counters are accessed relaxed; with RelaxedLoads a load (and a failed   *)
(* compare-exchange) may answer any value between the newest one the       *)
(* thread has seen and the current one.                                    *)
(***************************************************************************)
EXTENDS Integers, Sequences, FiniteSets

CONSTANTS N,             \* capacity (template parameter)
          Producers,     \* threads that call try_push
          Consumers,     \* threads that call try_pop
          Observers,     \* threads that call size or empty
          Values,        \* the elements
          NoValue,       \* what an unwritten slot or variable holds
          RelaxedLoads,  \* TRUE: counter loads may be stale
          SizeWord,      \* 2^64 in the program: the range of size_t
          TicketBound    \* bound of the model: tickets handed to producers

ASSUME CapacityAssumption == N \in Nat \ {0}
ASSUME ThreadAssumption == /\ Producers \cap Consumers = {}
                           /\ Producers \cap Observers = {}
                           /\ Consumers \cap Observers = {}
ASSUME ValueAssumption == NoValue \notin Values
ASSUME RelaxedAssumption == RelaxedLoads \in BOOLEAN
ASSUME WordAssumption == SizeWord \in Nat \ {0}

VARIABLES
    head,   \* the next producer ticket
    tail,   \* the next consumer ticket
    seq,    \* the sequence number of each slot
    data,   \* the element in each slot
    pc,     \* where each thread is in its operation
    pos,    \* each thread's local pos: the ticket it tries for, or has
    val,    \* a producer's argument, a consumer's result
    obs     \* an observer's loaded counters and the answer of its size()

vars == <<head, tail, seq, data, pc, pos, val, obs>>

Workers == Producers \cup Consumers
Slots == 0..(N - 1)
Slot(t) == t % N

\* The values a relaxed load of a counter may return to a thread that has seen x.
Loads(x, counter) == IF RelaxedLoads THEN x..counter ELSE {counter}

Init == /\ head = 0
        /\ tail = 0
        /\ seq = [i \in Slots |-> i]
        /\ data = [i \in Slots |-> NoValue]
        /\ pc = [w \in Workers \cup Observers |-> "idle"]
        /\ pos = [w \in Workers |-> 0]
        /\ val = [w \in Workers |-> NoValue]
        /\ obs = [o \in Observers |-> [head |-> 0, tail |-> 0, size |-> 0]]

Goto(w, from, to) == pc[w] = from /\ pc' = [pc EXCEPT ![w] = to]

LoadCounter(w, counter) ==
    \E x \in Loads(pos[w], counter) : pos' = [pos EXCEPT ![w] = x]

-----------------------------------------------------------------------------
(* Faults: variants of the operations below with the slips one makes in such
   code.  No specification uses them; each property names one that breaks it. *)

\* seq.store(pos) for seq.store(pos + 1): the slot is never handed on.
PushPublishSameSeq(p) == /\ Goto(p, "publish", "idle")
                         /\ pos' = [pos EXCEPT ![p] = @ + 1]
                         /\ UNCHANGED <<head, tail, seq, data, val, obs>>

\* diff <= 0 for diff == 0: a full slot is written to.
PushSeesFreeOrFull(p) == /\ seq[Slot(pos[p])] <= pos[p]
                         /\ Goto(p, "slot", "cas")
                         /\ UNCHANGED <<head, tail, seq, data, pos, val, obs>>

\* diff <= 0 for diff < 0: a free slot is answered as full.
PushFullOrFree(p) == /\ seq[Slot(pos[p])] <= pos[p]
                     /\ Goto(p, "slot", "idle")
                     /\ UNCHANGED <<head, tail, seq, data, pos, val, obs>>

\* A store of head for the compare-exchange: two producers win one ticket.
PushClaimByStore(p) == /\ Goto(p, "cas", "copy")
                       /\ head' = pos[p] + 1
                       /\ UNCHANGED <<tail, seq, data, pos, val, obs>>

\* The missing reload of line 74: the loop looks at the same slot for ever.
PushReloadNothing(p) == /\ Goto(p, "reload", "slot")
                        /\ UNCHANGED <<head, tail, seq, data, pos, val, obs>>

\* diff <= 0 for diff < 0: an item that is there is answered as empty.
PopEmptyOrItem(c) == /\ seq[Slot(pos[c])] <= pos[c] + 1
                     /\ Goto(c, "slot", "idle")
                     /\ UNCHANGED <<head, tail, seq, data, pos, val, obs>>

\* pos + N - 1 for pos + N: the slot is handed to the wrong ticket.
PopReleaseEarlyTicket(c) == /\ Goto(c, "publish", "idle")
                            /\ seq' = [seq EXCEPT ![Slot(pos[c])] = pos[c] + N - 1]
                            /\ pos' = [pos EXCEPT ![c] = @ + 1]
                            /\ UNCHANGED <<head, tail, data, val, obs>>

\* A signed difference for size_t.
SizeOfSigned(h, t) == h - t

-----------------------------------------------------------------------------
(* try_push *)

\* Bound of the model: tickets already out, or that a push in progress may take.
PushesStarted == head + Cardinality({p \in Producers : pc[p] \in {"slot", "cas", "reload"}})

PushStart(p, v) == /\ PushesStarted < TicketBound
                   /\ Goto(p, "idle", "slot")
                   /\ LoadCounter(p, head)
                   /\ val' = [val EXCEPT ![p] = v]
                   /\ UNCHANGED <<head, tail, seq, data, obs>>

PushSeesFree(p) == /\ seq[Slot(pos[p])] = pos[p]
                   /\ Goto(p, "slot", "cas")
                   /\ UNCHANGED <<head, tail, seq, data, pos, val, obs>>

PushFull(p) == /\ seq[Slot(pos[p])] < pos[p]
               /\ Goto(p, "slot", "idle")
               /\ UNCHANGED <<head, tail, seq, data, pos, val, obs>>

PushSeesTaken(p) == /\ seq[Slot(pos[p])] > pos[p]
                    /\ Goto(p, "slot", "reload")
                    /\ UNCHANGED <<head, tail, seq, data, pos, val, obs>>

PushReload(p) == /\ Goto(p, "reload", "slot")
                 /\ LoadCounter(p, head)
                 /\ UNCHANGED <<head, tail, seq, data, val, obs>>

PushClaim(p) == /\ head = pos[p]
                /\ Goto(p, "cas", "copy")
                /\ head' = pos[p] + 1
                /\ UNCHANGED <<tail, seq, data, pos, val, obs>>

\* compare_exchange_weak may fail although head = pos.
PushCasFails(p) == /\ Goto(p, "cas", "slot")
                   /\ LoadCounter(p, head)
                   /\ UNCHANGED <<head, tail, seq, data, val, obs>>

PushCopy(p) == /\ Goto(p, "copy", "publish")
               /\ data' = [data EXCEPT ![Slot(pos[p])] = val[p]]
               /\ UNCHANGED <<head, tail, seq, pos, val, obs>>

\* The thread has seen head = pos + 1: the floor of its later relaxed loads.
PushPublish(p) == /\ Goto(p, "publish", "idle")
                  /\ seq' = [seq EXCEPT ![Slot(pos[p])] = pos[p] + 1]
                  /\ pos' = [pos EXCEPT ![p] = @ + 1]
                  /\ UNCHANGED <<head, tail, data, val, obs>>

PushStep(p) == \/ PushSeesFree(p) \/ PushFull(p) \/ PushSeesTaken(p) \/ PushReload(p)
               \/ PushClaim(p) \/ PushCasFails(p) \/ PushCopy(p) \/ PushPublish(p)

-----------------------------------------------------------------------------
(* try_pop *)

PopStart(c) == /\ Goto(c, "idle", "slot")
               /\ LoadCounter(c, tail)
               /\ UNCHANGED <<head, tail, seq, data, val, obs>>

PopSeesItem(c) == /\ seq[Slot(pos[c])] = pos[c] + 1
                  /\ Goto(c, "slot", "cas")
                  /\ UNCHANGED <<head, tail, seq, data, pos, val, obs>>

PopEmpty(c) == /\ seq[Slot(pos[c])] < pos[c] + 1
               /\ Goto(c, "slot", "idle")
               /\ UNCHANGED <<head, tail, seq, data, pos, val, obs>>

PopSeesTaken(c) == /\ seq[Slot(pos[c])] > pos[c] + 1
                   /\ Goto(c, "slot", "reload")
                   /\ UNCHANGED <<head, tail, seq, data, pos, val, obs>>

PopReload(c) == /\ Goto(c, "reload", "slot")
                /\ LoadCounter(c, tail)
                /\ UNCHANGED <<head, tail, seq, data, val, obs>>

PopClaim(c) == /\ tail = pos[c]
               /\ Goto(c, "cas", "copy")
               /\ tail' = pos[c] + 1
               /\ UNCHANGED <<head, seq, data, pos, val, obs>>

PopCasFails(c) == /\ Goto(c, "cas", "slot")
                  /\ LoadCounter(c, tail)
                  /\ UNCHANGED <<head, tail, seq, data, val, obs>>

PopCopy(c) == /\ Goto(c, "copy", "publish")
              /\ val' = [val EXCEPT ![c] = data[Slot(pos[c])]]
              /\ UNCHANGED <<head, tail, seq, data, pos, obs>>

PopRelease(c) == /\ Goto(c, "publish", "idle")
                 /\ seq' = [seq EXCEPT ![Slot(pos[c])] = pos[c] + N]
                 /\ pos' = [pos EXCEPT ![c] = @ + 1]
                 /\ UNCHANGED <<head, tail, data, val, obs>>

PopStep(c) == \/ PopSeesItem(c) \/ PopEmpty(c) \/ PopSeesTaken(c) \/ PopReload(c)
              \/ PopClaim(c) \/ PopCasFails(c) \/ PopCopy(c) \/ PopRelease(c)

-----------------------------------------------------------------------------
(* size and empty *)

\* h - t on size_t.
SizeOf(h, t) == (h - t) % SizeWord

SizeLoadHead(o) == /\ Goto(o, "idle", "size")
                   /\ \E h \in Loads(obs[o].head, head) :
                        obs' = [obs EXCEPT ![o].head = h]
                   /\ UNCHANGED <<head, tail, seq, data, pos, val>>

SizeLoadTail(o) == /\ Goto(o, "size", "idle")
                   /\ \E t \in Loads(obs[o].tail, tail) :
                        obs' = [obs EXCEPT ![o].tail = t,
                                           ![o].size = SizeOf(obs[o].head, t)]
                   /\ UNCHANGED <<head, tail, seq, data, pos, val>>

Next == \/ \E p \in Producers : PushStep(p) \/ \E v \in Values : PushStart(p, v)
        \/ \E c \in Consumers : PopStart(c) \/ PopStep(c)
        \/ \E o \in Observers : SizeLoadHead(o) \/ SizeLoadTail(o)

Spec == Init /\ [][Next]_vars
-----------------------------------------------------------------------------
(* Fairness: every thread that runs is scheduled (a thread between its claim and
   its publication included), the engine's consumers poll in a loop
   (dispatch loop, md_bridge, gateway), stores become visible in the end (a
   thread that keeps reloading reads the current counter), and
   compare_exchange_weak does not fail for ever without contention. *)

Fairness ==
    /\ \A p \in Producers : /\ WF_vars(PushStep(p))
                            /\ SF_vars(PushClaim(p))
                            /\ SF_vars(PushReload(p) /\ pos'[p] = head)
    /\ \A c \in Consumers : /\ WF_vars(PopStart(c))
                            /\ WF_vars(PopStep(c))
                            /\ SF_vars(PopClaim(c))
                            /\ SF_vars(PopReload(c) /\ pos'[c] = tail)

FairSpec == Spec /\ Fairness

-----------------------------------------------------------------------------
(* Properties *)

WorkerPC == {"idle", "slot", "cas", "reload", "copy", "publish"}
Elements == Values \cup {NoValue}

\* The state has the shape the declarations of the class give it.
TypeOK == /\ head \in Nat
          /\ tail \in Nat
          /\ seq \in [Slots -> Nat]
          /\ data \in [Slots -> Elements]
          /\ pc \in [Workers \cup Observers -> WorkerPC \cup {"size"}]
          /\ pos \in [Workers -> Nat]
          /\ val \in [Workers -> Elements]
          /\ obs \in [Observers -> [head : Nat, tail : Nat, size : 0..(SizeWord - 1)]]

\* A thread that has won its ticket and not yet handed the slot on.
Owns(w) == pc[w] \in {"copy", "publish"}

\* Two threads never touch the element of one slot at the same time: the
\* memcpys of lines 65 and 91 are not atomic, and need no lock because of this.
ExclusiveSlot ==
    \A w1, w2 \in Workers :
        (w1 # w2 /\ Owns(w1) /\ Owns(w2)) => Slot(pos[w1]) # Slot(pos[w2])

\* Tickets run ahead of each other by no more than the capacity.
CounterInv == tail <= head /\ head <= tail + N

\* What the sequence number of a slot says, for the tickets the slots wait for.
SlotInv == \A t \in tail..(tail + N - 1) :
              IF t < head
              THEN seq[Slot(t)] \in {t, t + 1}
              ELSE seq[Slot(t)] \in {t, t - N + 1}

\* What a producer knows of its slot at each point of try_push.
ProducerInv ==
    \A p \in Producers :
        /\ pos[p] <= head
        /\ pc[p] = "cas" => seq[Slot(pos[p])] >= pos[p]
        /\ Owns(p) => /\ tail <= pos[p] /\ pos[p] < head
                      /\ seq[Slot(pos[p])] = pos[p]
                      /\ \A q \in Producers : (q # p /\ Owns(q)) => pos[q] # pos[p]

\* What a consumer knows of its slot at each point of try_pop.
ConsumerInv ==
    \A c \in Consumers :
        /\ pos[c] <= tail
        /\ pc[c] = "cas" => seq[Slot(pos[c])] >= pos[c] + 1
        /\ Owns(c) => /\ head <= pos[c] + N /\ pos[c] < tail
                      /\ seq[Slot(pos[c])] = pos[c] + 1
                      /\ \A d \in Consumers : (d # c /\ Owns(d)) => pos[d] # pos[c]

\* The ticket protocol of lines 57-103: the counters, the slots and the threads
\* agree on who may use which slot next.
TicketInv == CounterInv /\ SlotInv /\ ProducerInv /\ ConsumerInv

Publishing(t) == \E p \in Producers : Owns(p) /\ pos[p] = t
Releasing(t) == \E c \in Consumers : Owns(c) /\ pos[c] = t

\* A slot whose turn has not been handed on has a thread that will hand it on:
\* no ticket is ever forgotten between the compare-exchange and the store.
NoOrphanTicket ==
    \A t \in tail..(tail + N - 1) :
        /\ (t < head /\ seq[Slot(t)] = t) => Publishing(t)
        /\ (t >= head /\ seq[Slot(t)] # t) => Releasing(t - N)

\* try_push answers false (line 72) only when every slot is taken by an
\* element or by a consumer still copying one out of the slot it wants.
FullIsJustified ==
    [][\A p \in Producers :
          PushFull(p) => /\ head = pos[p]
                         /\ head - tail = N \/ Releasing(pos[p] - N)]_vars

\* try_pop answers false (line 98) only when no element is accepted, or when
\* the oldest accepted one is still being copied in by its producer.
EmptyIsJustified ==
    [][\A c \in Consumers :
          PopEmpty(c) => /\ tail = pos[c]
                         /\ head = tail \/ Publishing(tail)]_vars

\* Every ticket a producer wins reaches a consumer (lines 64-66, 90-92), however
\* the threads interleave, as long as consumers keep calling try_pop.
Delivered == \A t \in 0..(TicketBound - 1) : (head > t) ~> (tail > t)

\* Lock freedom: with no more tickets to lose a race for, every call returns
\* (the loops of lines 59-76 and 85-102 end).
CallsReturn == \A w \in Workers : (pc[w] # "idle") ~> (pc[w] = "idle")

-----------------------------------------------------------------------------
(* The queue as a BoundedFifo: an element is accepted when its producer wins its
   ticket, and taken when a consumer wins it. *)

Copying(p, t) == pc[p] = "copy" /\ pos[p] = t

Content(t) == IF \E p \in Producers : Copying(p, t)
              THEN val[CHOOSE p \in Producers : Copying(p, t)]
              ELSE data[Slot(t)]

itemsBar == [i \in 1..(head - tail) |-> Content(tail + i - 1)]
outBar == [c \in Consumers |-> IF pc[c] = "copy" THEN data[Slot(pos[c])] ELSE val[c]]

Fifo == INSTANCE BoundedFifo WITH Capacity <- N, items <- itemsBar, out <- outBar

\* try_push and try_pop implement a bounded FIFO queue: nothing lost,
\* duplicated, reordered or overwritten, never more than N elements.
ImplementsFifo == Fifo!Spec

=============================================================================
