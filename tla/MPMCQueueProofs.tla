--------------------------- MODULE MPMCQueueProofs ---------------------------
(***************************************************************************)
(* Proofs about MPMCQueue, for every capacity, every set of threads and    *)
(* values, with and without stale counter loads.  The safety theorems need *)
(* N >= 2: with one slot the sequence number pos + 1 that publishes an     *)
(* element is also the one that frees the slot for the next ticket.        *)
(***************************************************************************)
EXTENDS MPMCQueue, SequenceTheorems, TLAPS

-----------------------------------------------------------------------------
(* Slots *)

LEMMA Division ==
    ASSUME NEW a \in Nat
    PROVE  a \div N \in Nat /\ a % N \in 0..(N - 1) /\ a = N * (a \div N) + (a % N)
BY CapacityAssumption

LEMMA MultiplesAreApart ==
    ASSUME NEW k \in Int, k >= 1
    PROVE  N * k >= N
BY CapacityAssumption

\* A ticket has a slot.
LEMMA SlotInSlots == ASSUME NEW t \in Nat PROVE Slot(t) \in Slots
BY Division DEF Slot, Slots

\* Fewer than N tickets in a row use different slots.
LEMMA WindowSlotsDiffer ==
    ASSUME NEW a \in Nat, NEW b \in Nat, a < b, b < a + N
    PROVE  Slot(a) # Slot(b)
<1> DEFINE qa == a \div N
           qb == b \div N
<1>1. /\ qa \in Nat /\ a = N * qa + (a % N)
      /\ qb \in Nat /\ b = N * qb + (b % N)
  BY Division
<1>2. SUFFICES ASSUME a % N = b % N PROVE FALSE
  BY DEF Slot
<1>3. b - a = N * (qb - qa)
  BY <1>1, <1>2, CapacityAssumption
<1>4. CASE qb - qa <= 0
  <2>1. N * (qb - qa) <= 0 BY <1>4, <1>1, CapacityAssumption
  <2> QED BY <2>1, <1>3
<1>5. CASE qb - qa >= 1
  <2>1. N * (qb - qa) >= N BY <1>5, <1>1, MultiplesAreApart
  <2> QED BY <2>1, <1>3, CapacityAssumption
<1> QED BY <1>4, <1>5, <1>1

\* A slot is used again every N tickets.
LEMMA SlotIsPeriodic ==
    ASSUME NEW a \in Nat, NEW m \in Nat
    PROVE  a + N * m \in Nat /\ Slot(a + N * m) = Slot(a)
<1> DEFINE q == a \div N
           r == a % N
           q2 == (a + N * m) \div N
           r2 == (a + N * m) % N
<1>0. N * m \in Nat
  BY CapacityAssumption
<1>1. q \in Nat /\ r \in 0..(N - 1) /\ a = N * q + r
  BY Division
<1>2. q2 \in Nat /\ r2 \in 0..(N - 1) /\ a + N * m = N * q2 + r2
  <2>1. a + N * m \in Nat BY <1>0
  <2> QED BY <2>1, Division
<1>3. PICK k \in Int : k = q + m - q2
  BY <1>1, <1>2
<1> SUFFICES r2 = r
  BY <1>0 DEF Slot
<1> HIDE DEF q, r, q2, r2
<1>4. r2 - r = N * k
  <2>1. N * k = N * q + N * m - N * q2 BY <1>1, <1>2, <1>3, CapacityAssumption
  <2> QED BY <1>0, <1>1, <1>2, <2>1, CapacityAssumption
<1>5. r2 - r < N /\ r2 - r > -N
  BY <1>1, <1>2, CapacityAssumption
<1>6. CASE k >= 1
  <2>1. N * k >= N BY <1>6, MultiplesAreApart
  <2> QED BY <2>1, <1>1, <1>2, <1>4, <1>5, CapacityAssumption
<1>7. CASE k <= -1
  <2>1. N * (-k) >= N BY <1>7, MultiplesAreApart
  <2>2. N * (-k) = -(N * k) BY CapacityAssumption
  <2> QED BY <2>1, <2>2, <1>4, <1>5, <1>1, <1>2, CapacityAssumption
<1>8. CASE k = 0
  <2>1. N * k = 0 BY <1>8, CapacityAssumption
  <2> QED BY <2>1, <1>4, <1>1, <1>2
<1> QED BY <1>6, <1>7, <1>8

LEMMA SlotComesAround == ASSUME NEW a \in Nat PROVE Slot(a + N) = Slot(a)
<1>1. N * 1 = N BY CapacityAssumption
<1> QED BY <1>1, SlotIsPeriodic

\* Every slot waits for exactly one of N tickets in a row.
LEMMA WindowCoversSlots ==
    ASSUME NEW a \in Nat, NEW b \in Nat, a < b
    PROVE  \E t \in b..(b + N - 1) : t >= a + N /\ Slot(t) = Slot(a)
<1> DEFINE d == b - a
           m == d \div N
           r == d % N
<1>1. d \in Nat /\ m \in Nat /\ r \in 0..(N - 1) /\ d = N * m + r
  <2>1. d \in Nat OBVIOUS
  <2> QED BY <2>1, Division
<1> HIDE DEF m, r
<1>2. CASE r = 0
  <2>1. b = a + N * m BY <1>1, <1>2, CapacityAssumption
  <2>2. m >= 1
    <3>1. m # 0 BY <1>1, <1>2, CapacityAssumption
    <3> QED BY <3>1, <1>1
  <2>3. N * m >= N BY <2>2, <1>1, MultiplesAreApart
  <2>4. Slot(a + N * m) = Slot(a) BY <1>1, SlotIsPeriodic
  <2>5. b >= a + N
    <3> DEFINE x == N * m
    <3>1. x >= N /\ b = a + x BY <2>1, <2>3
    <3>2. x \in Int BY <1>1, CapacityAssumption
    <3> HIDE DEF x
    <3> QED BY <3>1, <3>2, CapacityAssumption
  <2> QED BY <2>1, <2>4, <2>5, CapacityAssumption
<1>3. CASE r # 0
  <2>1. N * (m + 1) = N * m + N /\ N * m \in Nat BY <1>1, CapacityAssumption
  <2>2. m + 1 \in Nat /\ m + 1 >= 1 BY <1>1
  <2>3. N * (m + 1) >= N BY <2>2, MultiplesAreApart
  <2>4. Slot(a + N * (m + 1)) = Slot(a) BY <2>2, SlotIsPeriodic
  <2>5. a + N * (m + 1) \in b..(b + N - 1) /\ a + N * (m + 1) >= a + N
    <3> DEFINE x == N * m
    <3>1. x \in Nat /\ N * (m + 1) = x + N /\ b = a + x + r BY <2>1, <1>1
    <3> HIDE DEF x
    <3> QED BY <3>1, <2>3, <1>1, <1>3, CapacityAssumption
  <2> QED BY <2>4, <2>5
<1> QED BY <1>2, <1>3

-----------------------------------------------------------------------------
(* Type correctness *)

LEMMA LoadIsTicket ==
    ASSUME TypeOK, NEW w \in Workers, NEW counter \in Nat, LoadCounter(w, counter)
    PROVE  /\ pos' \in [Workers -> Nat]
           /\ pos'[w] <= counter \/ pos'[w] = pos[w] \/ pos'[w] = counter
           /\ \A v \in Workers : v # w => pos'[v] = pos[v]
BY DEF LoadCounter, Loads, TypeOK

\* No operation leaves the types: in particular the answer of size() is a size_t.
THEOREM TypeCorrect == Spec => []TypeOK
<1>1. Init => TypeOK
  BY CapacityAssumption, WordAssumption, ThreadAssumption
     DEF Init, TypeOK, Slots, Elements, WorkerPC, Workers
<1>2. TypeOK /\ [Next]_vars => TypeOK'
  <2> SUFFICES ASSUME TypeOK, [Next]_vars PROVE TypeOK'
    OBVIOUS
  <2> USE CapacityAssumption, WordAssumption DEF TypeOK
  <2>1. ASSUME NEW p \in Producers, NEW v \in Values, PushStart(p, v) PROVE TypeOK'
    BY <2>1, LoadIsTicket DEF PushStart, Goto, WorkerPC, Elements, Workers
  <2>2. ASSUME NEW p \in Producers, PushSeesFree(p) PROVE TypeOK'
    BY <2>2 DEF PushSeesFree, Goto, WorkerPC
  <2>3. ASSUME NEW p \in Producers, PushFull(p) PROVE TypeOK'
    BY <2>3 DEF PushFull, Goto, WorkerPC
  <2>4. ASSUME NEW p \in Producers, PushSeesTaken(p) PROVE TypeOK'
    BY <2>4 DEF PushSeesTaken, Goto, WorkerPC
  <2>5. ASSUME NEW p \in Producers, PushReload(p) PROVE TypeOK'
    BY <2>5, LoadIsTicket DEF PushReload, Goto, WorkerPC, Workers
  <2>6. ASSUME NEW p \in Producers, PushClaim(p) PROVE TypeOK'
    BY <2>6 DEF PushClaim, Goto, WorkerPC, Workers
  <2>7. ASSUME NEW p \in Producers, PushCasFails(p) PROVE TypeOK'
    BY <2>7, LoadIsTicket DEF PushCasFails, Goto, WorkerPC, Workers
  <2>8. ASSUME NEW p \in Producers, PushCopy(p) PROVE TypeOK'
    BY <2>8 DEF PushCopy, Goto, WorkerPC, Workers
  <2>9. ASSUME NEW p \in Producers, PushPublish(p) PROVE TypeOK'
    <3>1. pos[p] \in Nat /\ pos[p] + 1 \in Nat BY DEF Workers
    <3>2. pos' \in [Workers -> Nat] BY <2>9, <3>1 DEF PushPublish
    <3>3. seq' \in [Slots -> Nat] BY <2>9, <3>1 DEF PushPublish
    <3> QED BY <2>9, <3>2, <3>3 DEF PushPublish, Goto, WorkerPC
  <2>11. ASSUME NEW c \in Consumers, PopStart(c) PROVE TypeOK'
    BY <2>11, LoadIsTicket DEF PopStart, Goto, WorkerPC, Workers
  <2>12. ASSUME NEW c \in Consumers, PopSeesItem(c) PROVE TypeOK'
    BY <2>12 DEF PopSeesItem, Goto, WorkerPC
  <2>13. ASSUME NEW c \in Consumers, PopEmpty(c) PROVE TypeOK'
    BY <2>13 DEF PopEmpty, Goto, WorkerPC
  <2>14. ASSUME NEW c \in Consumers, PopSeesTaken(c) PROVE TypeOK'
    BY <2>14 DEF PopSeesTaken, Goto, WorkerPC
  <2>15. ASSUME NEW c \in Consumers, PopReload(c) PROVE TypeOK'
    BY <2>15, LoadIsTicket DEF PopReload, Goto, WorkerPC, Workers
  <2>16. ASSUME NEW c \in Consumers, PopClaim(c) PROVE TypeOK'
    BY <2>16 DEF PopClaim, Goto, WorkerPC, Workers
  <2>17. ASSUME NEW c \in Consumers, PopCasFails(c) PROVE TypeOK'
    BY <2>17, LoadIsTicket DEF PopCasFails, Goto, WorkerPC, Workers
  <2>18. ASSUME NEW c \in Consumers, PopCopy(c) PROVE TypeOK'
    <3>1. data[Slot(pos[c])] \in Elements
      BY SlotInSlots DEF Workers
    <3> QED BY <3>1, <2>18 DEF PopCopy, Goto, WorkerPC, Workers
  <2>19. ASSUME NEW c \in Consumers, PopRelease(c) PROVE TypeOK'
    <3>1. pos[c] + N \in Nat /\ pos[c] + 1 \in Nat BY DEF Workers
    <3>2. pos' \in [Workers -> Nat] BY <2>19, <3>1 DEF PopRelease
    <3>3. seq' \in [Slots -> Nat] BY <2>19, <3>1 DEF PopRelease
    <3> QED BY <2>19, <3>2, <3>3 DEF PopRelease, Goto, WorkerPC
  <2>21. ASSUME NEW o \in Observers, SizeLoadHead(o) PROVE TypeOK'
    BY <2>21 DEF SizeLoadHead, Loads, Goto, WorkerPC
  <2>22. ASSUME NEW o \in Observers, SizeLoadTail(o) PROVE TypeOK'
    <3>1. \A h, t \in Nat : SizeOf(h, t) \in 0..(SizeWord - 1)
      BY DEF SizeOf
    <3>2. PICK t \in Loads(obs[o].tail, tail) :
            obs' = [obs EXCEPT ![o].tail = t, ![o].size = SizeOf(obs[o].head, t)]
      BY <2>22 DEF SizeLoadTail
    <3>3. t \in Nat BY <3>2 DEF Loads
    <3>4. SizeOf(obs[o].head, t) \in 0..(SizeWord - 1) BY <3>1, <3>3
    <3> HIDE DEF SizeOf
    <3>5. obs' \in [Observers -> [head : Nat, tail : Nat, size : 0..(SizeWord - 1)]]
      BY <3>2, <3>3, <3>4
    <3> QED BY <3>5, <2>22 DEF SizeLoadTail, Goto, WorkerPC
  <2>23. CASE UNCHANGED vars
    BY <2>23 DEF vars
  <2> QED
    BY <2>1, <2>2, <2>3, <2>4, <2>5, <2>6, <2>7, <2>8, <2>9, <2>11, <2>12, <2>13, <2>14,
       <2>15, <2>16, <2>17, <2>18, <2>19, <2>21, <2>22, <2>23
       DEF Next, PushStep, PopStep
<1> QED BY <1>1, <1>2, PTL DEF Spec

-----------------------------------------------------------------------------
(* The ticket protocol *)

\* A step of one thread that moves no counter and no sequence number, and wins
\* no ticket, leaves the protocol intact.
LEMMA LocalStep ==
    ASSUME TypeOK, TicketInv, NEW w \in Workers,
           UNCHANGED <<head, tail, seq>>,
           \A v \in Workers : v # w => pos'[v] = pos[v] /\ pc'[v] = pc[v],
           w \in Producers => pos'[w] <= head,
           w \in Consumers => pos'[w] <= tail,
           w \in Producers /\ pc'[w] = "cas" => seq[Slot(pos'[w])] >= pos'[w],
           w \in Consumers /\ pc'[w] = "cas" => seq[Slot(pos'[w])] >= pos'[w] + 1,
           pc'[w] \in {"copy", "publish"} => Owns(w) /\ pos'[w] = pos[w]
    PROVE  TicketInv'
<1> USE DEF Workers
<1>1. CounterInv' BY DEF CounterInv, TicketInv
<1>2. SlotInv' BY DEF SlotInv, Slot, TicketInv
<1>3. ProducerInv'
  <2> SUFFICES ASSUME NEW p \in Producers
               PROVE  /\ pos'[p] <= head
                      /\ pc'[p] = "cas" => seq[Slot(pos'[p])] >= pos'[p]
                      /\ pc'[p] \in {"copy", "publish"} =>
                           /\ tail <= pos'[p] /\ pos'[p] < head
                           /\ seq[Slot(pos'[p])] = pos'[p]
                           /\ \A q \in Producers : (q # p /\ pc'[q] \in {"copy", "publish"})
                                                      => pos'[q] # pos'[p]
    BY DEF ProducerInv, Owns, Slot
  <2> QED BY DEF TicketInv, ProducerInv, Owns
<1>4. ConsumerInv'
  <2> SUFFICES ASSUME NEW c \in Consumers
               PROVE  /\ pos'[c] <= tail
                      /\ pc'[c] = "cas" => seq[Slot(pos'[c])] >= pos'[c] + 1
                      /\ pc'[c] \in {"copy", "publish"} =>
                           /\ head <= pos'[c] + N /\ pos'[c] < tail
                           /\ seq[Slot(pos'[c])] = pos'[c] + 1
                           /\ \A d \in Consumers : (d # c /\ pc'[d] \in {"copy", "publish"})
                                                      => pos'[d] # pos'[c]
    BY DEF ConsumerInv, Owns, Slot
  <2> QED BY DEF TicketInv, ConsumerInv, Owns
<1> QED BY <1>1, <1>2, <1>3, <1>4 DEF TicketInv

\* A producer that wins the ticket head owns a slot that was waiting for it.
LEMMA PushClaimKeepsTickets ==
    ASSUME TypeOK, TicketInv, N >= 2, NEW p \in Producers, PushClaim(p)
    PROVE  TicketInv'
<1> USE CapacityAssumption DEF Workers
<1>1. /\ pc[p] = "cas" /\ pos[p] = head /\ head' = head + 1
      /\ pos' = pos /\ seq' = seq /\ tail' = tail
      /\ pc' = [pc EXCEPT ![p] = "copy"]
      /\ head \in Nat /\ tail \in Nat
  BY DEF PushClaim, Goto, TypeOK
<1>2. tail <= head /\ head <= tail + N
  BY DEF TicketInv, CounterInv
<1>3. seq[Slot(head)] >= head /\ seq[Slot(head)] \in Nat
  BY <1>1, SlotInSlots DEF TicketInv, ProducerInv, TypeOK
<1>4. head < tail + N
  <2> SUFFICES ASSUME head = tail + N PROVE FALSE BY <1>1, <1>2
  <2>1. Slot(head) = Slot(tail) BY SlotComesAround, <1>1
  <2>2. seq[Slot(tail)] \in {tail, tail + 1}
    BY <1>1 DEF TicketInv, SlotInv
  <2> QED BY <2>1, <2>2, <1>1, <1>3
<1>5. seq[Slot(head)] = head
  <2>1. seq[Slot(head)] \in {head, head - N + 1}
    BY <1>1, <1>2, <1>4 DEF TicketInv, SlotInv
  <2> QED BY <2>1, <1>3, <1>1
<1>6. CounterInv' BY <1>1, <1>2, <1>4 DEF CounterInv
<1>7. SlotInv'
  <2> SUFFICES ASSUME NEW t \in tail..(tail + N - 1)
               PROVE  IF t < head + 1 THEN seq[Slot(t)] \in {t, t + 1}
                                      ELSE seq[Slot(t)] \in {t, t - N + 1}
    BY <1>1 DEF SlotInv, Slot
  <2> QED BY <1>1, <1>5 DEF TicketInv, SlotInv
<1>8. ProducerInv'
  <2> SUFFICES ASSUME NEW q \in Producers
               PROVE  /\ pos[q] <= head + 1
                      /\ pc'[q] = "cas" => seq[Slot(pos[q])] >= pos[q]
                      /\ pc'[q] \in {"copy", "publish"} =>
                           /\ tail <= pos[q] /\ pos[q] < head + 1
                           /\ seq[Slot(pos[q])] = pos[q]
                           /\ \A r \in Producers : (r # q /\ pc'[r] \in {"copy", "publish"})
                                                      => pos[r] # pos[q]
    BY <1>1 DEF ProducerInv, Owns, Slot
  <2>1. pos[q] \in Nat BY DEF TypeOK
  <2> QED BY <1>1, <1>2, <1>5, <2>1 DEF TicketInv, ProducerInv, Owns, TypeOK
<1>9. ConsumerInv'
  <2> SUFFICES ASSUME NEW c \in Consumers
               PROVE  /\ pos[c] <= tail
                      /\ pc[c] = "cas" => seq[Slot(pos[c])] >= pos[c] + 1
                      /\ Owns(c) =>
                           /\ head + 1 <= pos[c] + N /\ pos[c] < tail
                           /\ seq[Slot(pos[c])] = pos[c] + 1
                           /\ \A d \in Consumers : (d # c /\ Owns(d)) => pos[d] # pos[c]
    BY <1>1, ThreadAssumption DEF ConsumerInv, Owns, Slot, TypeOK
  <2>1. pos[c] \in Nat BY DEF TypeOK
  <2>2. ASSUME Owns(c), head = pos[c] + N PROVE FALSE
    <3>1. Slot(head) = Slot(pos[c]) BY <2>1, <2>2, SlotComesAround
    <3>2. seq[Slot(pos[c])] = pos[c] + 1 BY <2>2 DEF TicketInv, ConsumerInv
    <3> QED BY <3>1, <3>2, <1>5, <2>1, <2>2
  <2> QED BY <1>1, <2>1, <2>2 DEF TicketInv, ConsumerInv
<1> QED BY <1>6, <1>7, <1>8, <1>9 DEF TicketInv

\* A consumer that wins the ticket tail owns a slot with an element for it.
LEMMA PopClaimKeepsTickets ==
    ASSUME TypeOK, TicketInv, N >= 2, NEW c \in Consumers, PopClaim(c)
    PROVE  TicketInv'
<1> USE CapacityAssumption DEF Workers
<1>1. /\ pc[c] = "cas" /\ pos[c] = tail /\ tail' = tail + 1
      /\ pos' = pos /\ seq' = seq /\ head' = head
      /\ pc' = [pc EXCEPT ![c] = "copy"]
      /\ head \in Nat /\ tail \in Nat
  BY DEF PopClaim, Goto, TypeOK
<1>2. tail <= head /\ head <= tail + N
  BY DEF TicketInv, CounterInv
<1>3. seq[Slot(tail)] >= tail + 1 /\ seq[Slot(tail)] \in Nat
  BY <1>1, SlotInSlots DEF TicketInv, ConsumerInv, TypeOK
<1>4. tail < head /\ seq[Slot(tail)] = tail + 1
  <2>1. IF tail < head THEN seq[Slot(tail)] \in {tail, tail + 1}
                       ELSE seq[Slot(tail)] \in {tail, tail - N + 1}
    BY <1>1 DEF TicketInv, SlotInv
  <2> QED BY <2>1, <1>1, <1>2, <1>3
<1>5. CounterInv' BY <1>1, <1>2, <1>4 DEF CounterInv
<1>6. SlotInv'
  <2> SUFFICES ASSUME NEW t \in (tail + 1)..(tail + N)
               PROVE  IF t < head THEN seq[Slot(t)] \in {t, t + 1}
                                  ELSE seq[Slot(t)] \in {t, t - N + 1}
    BY <1>1 DEF SlotInv, Slot
  <2>1. CASE t = tail + N
    <3>1. Slot(t) = Slot(tail) BY <2>1, <1>1, SlotComesAround
    <3> QED BY <3>1, <2>1, <1>1, <1>2, <1>4
  <2>2. CASE t # tail + N
    <3>1. t \in tail..(tail + N - 1) BY <2>2, <1>1
    <3> QED BY <3>1 DEF TicketInv, SlotInv
  <2> QED BY <2>1, <2>2
<1>7. ProducerInv'
  <2> SUFFICES ASSUME NEW p \in Producers
               PROVE  /\ pos[p] <= head
                      /\ pc[p] = "cas" => seq[Slot(pos[p])] >= pos[p]
                      /\ Owns(p) =>
                           /\ tail + 1 <= pos[p] /\ pos[p] < head
                           /\ seq[Slot(pos[p])] = pos[p]
                           /\ \A q \in Producers : (q # p /\ Owns(q)) => pos[q] # pos[p]
    BY <1>1, ThreadAssumption DEF ProducerInv, Owns, Slot, TypeOK
  <2>1. pos[p] \in Nat BY DEF TypeOK
  <2> QED BY <1>1, <1>4, <2>1 DEF TicketInv, ProducerInv
<1>8. ConsumerInv'
  <2> SUFFICES ASSUME NEW d \in Consumers
               PROVE  /\ pos[d] <= tail + 1
                      /\ pc'[d] = "cas" => seq[Slot(pos[d])] >= pos[d] + 1
                      /\ pc'[d] \in {"copy", "publish"} =>
                           /\ head <= pos[d] + N /\ pos[d] < tail + 1
                           /\ seq[Slot(pos[d])] = pos[d] + 1
                           /\ \A e \in Consumers : (e # d /\ pc'[e] \in {"copy", "publish"})
                                                      => pos[e] # pos[d]
    BY <1>1 DEF ConsumerInv, Owns, Slot
  <2>1. pos[d] \in Nat BY DEF TypeOK
  <2> QED BY <1>1, <1>2, <1>4, <2>1 DEF TicketInv, ConsumerInv, Owns, TypeOK
<1> QED BY <1>5, <1>6, <1>7, <1>8 DEF TicketInv

\* A thread that hands its slot on changes what no other owner relies on.
LEMMA PushPublishKeepsTickets ==
    ASSUME TypeOK, TicketInv, N >= 2, NEW p \in Producers, PushPublish(p)
    PROVE  TicketInv'
<1> USE CapacityAssumption DEF Workers
<1> DEFINE s == Slot(pos[p])
<1>1. /\ Owns(p) /\ seq' = [seq EXCEPT ![s] = pos[p] + 1]
      /\ pos' = [pos EXCEPT ![p] = pos[p] + 1]
      /\ head' = head /\ tail' = tail
      /\ pc' = [pc EXCEPT ![p] = "idle"]
      /\ head \in Nat /\ tail \in Nat /\ pos[p] \in Nat
  BY DEF PushPublish, Goto, TypeOK, Owns
<1>2. tail <= head /\ head <= tail + N
  BY DEF TicketInv, CounterInv
<1>3. tail <= pos[p] /\ pos[p] < head /\ seq[s] = pos[p] /\ s \in Slots
  BY <1>1, SlotInSlots DEF TicketInv, ProducerInv
<1>4. \A i \in Slots : seq'[i] = (IF i = s THEN pos[p] + 1 ELSE seq[i]) /\ seq'[i] >= seq[i]
  BY <1>1, <1>3 DEF TypeOK
<1> HIDE DEF s
<1>5. CounterInv' BY <1>1, <1>2 DEF CounterInv
<1>6. SlotInv'
  <2> SUFFICES ASSUME NEW t \in tail..(tail + N - 1)
               PROVE  IF t < head THEN seq'[Slot(t)] \in {t, t + 1}
                                  ELSE seq'[Slot(t)] \in {t, t - N + 1}
    BY <1>1 DEF SlotInv, Slot
  <2>1. CASE t = pos[p]
    BY <2>1, <1>1, <1>3, <1>4 DEF s
  <2>2. CASE t # pos[p]
    <3>1. Slot(t) # s
      BY <2>2, <1>1, <1>2, <1>3, WindowSlotsDiffer DEF s
    <3>2. Slot(t) \in Slots BY <1>1, SlotInSlots
    <3> QED BY <3>1, <3>2, <1>4 DEF TicketInv, SlotInv
  <2> QED BY <2>1, <2>2
<1>7. ASSUME NEW w \in Workers, w # p, Owns(w), Slot(pos[w]) = s PROVE FALSE
  <2>1. CASE w \in Producers
    <3>1. seq[s] = pos[w] /\ pos[w] # pos[p]
      BY <2>1, <1>1, <1>7 DEF TicketInv, ProducerInv
    <3> QED BY <3>1, <1>3
  <2>2. CASE w \in Consumers
    <3>1. seq[s] = pos[w] + 1 /\ pos[w] \in Nat
      BY <2>2, <1>7 DEF TicketInv, ConsumerInv, TypeOK
    <3>2. Slot(pos[w]) # Slot(pos[p])
      BY <3>1, <1>1, <1>3, WindowSlotsDiffer
    <3> QED BY <3>2, <1>7 DEF s
  <2> QED BY <2>1, <2>2
<1>8. ProducerInv'
  <2> SUFFICES ASSUME NEW q \in Producers
               PROVE  /\ pos'[q] <= head
                      /\ pc'[q] = "cas" => seq'[Slot(pos'[q])] >= pos'[q]
                      /\ pc'[q] \in {"copy", "publish"} =>
                           /\ tail <= pos'[q] /\ pos'[q] < head
                           /\ seq'[Slot(pos'[q])] = pos'[q]
                           /\ \A r \in Producers : (r # q /\ pc'[r] \in {"copy", "publish"})
                                                      => pos'[r] # pos'[q]
    BY <1>1 DEF ProducerInv, Owns, Slot
  <2>1. CASE q = p
    BY <2>1, <1>1, <1>3 DEF TypeOK
  <2>2. CASE q # p
    <3>1. /\ pos'[q] = pos[q] /\ pc'[q] = pc[q] /\ pos[q] \in Nat /\ Slot(pos[q]) \in Slots
          /\ seq[Slot(pos[q])] \in Nat /\ seq'[Slot(pos[q])] \in Nat
      BY <2>2, <1>1, <1>4, SlotInSlots DEF TypeOK
    <3>2. seq'[Slot(pos[q])] >= seq[Slot(pos[q])] BY <3>1, <1>4
    <3>3. Owns(q) => seq'[Slot(pos[q])] = seq[Slot(pos[q])]
      BY <2>2, <3>1, <1>4, <1>7
    <3>4. \A r \in Producers : pc'[r] \in {"copy", "publish"} => Owns(r) /\ pos'[r] = pos[r]
      BY <1>1 DEF Owns, TypeOK
    <3> QED BY <3>1, <3>2, <3>3, <3>4 DEF TicketInv, ProducerInv, Owns
  <2> QED BY <2>1, <2>2
<1>9. ConsumerInv'
  <2> SUFFICES ASSUME NEW c \in Consumers
               PROVE  /\ pos'[c] <= tail
                      /\ pc'[c] = "cas" => seq'[Slot(pos'[c])] >= pos'[c] + 1
                      /\ pc'[c] \in {"copy", "publish"} =>
                           /\ head <= pos'[c] + N /\ pos'[c] < tail
                           /\ seq'[Slot(pos'[c])] = pos'[c] + 1
                           /\ \A d \in Consumers : (d # c /\ pc'[d] \in {"copy", "publish"})
                                                      => pos'[d] # pos'[c]
    BY <1>1 DEF ConsumerInv, Owns, Slot
  <2>1. \A d \in Consumers : d # p /\ pos'[d] = pos[d] /\ pc'[d] = pc[d]
    BY <1>1, ThreadAssumption DEF TypeOK
  <2>2. /\ pos[c] \in Nat /\ Slot(pos[c]) \in Slots
        /\ seq[Slot(pos[c])] \in Nat /\ seq'[Slot(pos[c])] \in Nat
    BY <1>1, <1>4, SlotInSlots DEF TypeOK
  <2>3. seq'[Slot(pos[c])] >= seq[Slot(pos[c])] BY <2>2, <1>4
  <2>4. Owns(c) => seq'[Slot(pos[c])] = seq[Slot(pos[c])]
    BY <2>1, <2>2, <1>4, <1>7
  <2> QED BY <2>1, <2>2, <2>3, <2>4 DEF TicketInv, ConsumerInv, Owns
<1> QED BY <1>5, <1>6, <1>8, <1>9 DEF TicketInv

LEMMA PopReleaseKeepsTickets ==
    ASSUME TypeOK, TicketInv, N >= 2, NEW c \in Consumers, PopRelease(c)
    PROVE  TicketInv'
<1> USE CapacityAssumption DEF Workers
<1> DEFINE s == Slot(pos[c])
<1>1. /\ Owns(c) /\ seq' = [seq EXCEPT ![s] = pos[c] + N]
      /\ pos' = [pos EXCEPT ![c] = pos[c] + 1]
      /\ head' = head /\ tail' = tail
      /\ pc' = [pc EXCEPT ![c] = "idle"]
      /\ head \in Nat /\ tail \in Nat /\ pos[c] \in Nat
  BY DEF PopRelease, Goto, TypeOK, Owns
<1>2. tail <= head /\ head <= tail + N
  BY DEF TicketInv, CounterInv
<1>3. head <= pos[c] + N /\ pos[c] < tail /\ seq[s] = pos[c] + 1 /\ s \in Slots
  BY <1>1, SlotInSlots DEF TicketInv, ConsumerInv
<1>4. \A i \in Slots : seq'[i] = (IF i = s THEN pos[c] + N ELSE seq[i]) /\ seq'[i] >= seq[i]
  BY <1>1, <1>3 DEF TypeOK
<1>s. Slot(pos[c] + N) = s BY <1>1, SlotComesAround
<1> HIDE DEF s
<1>5. CounterInv' BY <1>1, <1>2 DEF CounterInv
<1>6. SlotInv'
  <2> SUFFICES ASSUME NEW t \in tail..(tail + N - 1)
               PROVE  IF t < head THEN seq'[Slot(t)] \in {t, t + 1}
                                  ELSE seq'[Slot(t)] \in {t, t - N + 1}
    BY <1>1 DEF SlotInv, Slot
  <2>1. CASE t = pos[c] + N
    BY <2>1, <1>1, <1>3, <1>4, <1>s
  <2>2. CASE t # pos[c] + N
    <3>1. Slot(t) # s
      BY <2>2, <1>1, <1>2, <1>3, <1>s, WindowSlotsDiffer
    <3>2. Slot(t) \in Slots BY <1>1, SlotInSlots
    <3> QED BY <3>1, <3>2, <1>4 DEF TicketInv, SlotInv
  <2> QED BY <2>1, <2>2
<1>7. ASSUME NEW w \in Workers, w # c, Owns(w), Slot(pos[w]) = s PROVE FALSE
  <2>1. CASE w \in Consumers
    <3>1. seq[s] = pos[w] + 1 /\ pos[w] # pos[c] /\ pos[w] \in Nat
      BY <2>1, <1>1, <1>7 DEF TicketInv, ConsumerInv, TypeOK
    <3> QED BY <3>1, <1>1, <1>3
  <2>2. CASE w \in Producers
    <3>1. seq[s] = pos[w] /\ pos[w] \in Nat
      BY <2>2, <1>7 DEF TicketInv, ProducerInv, TypeOK
    <3>2. Slot(pos[c]) # Slot(pos[w])
      BY <3>1, <1>1, <1>3, WindowSlotsDiffer
    <3> QED BY <3>2, <1>7 DEF s
  <2> QED BY <2>1, <2>2
<1>8. ProducerInv'
  <2> SUFFICES ASSUME NEW p \in Producers
               PROVE  /\ pos'[p] <= head
                      /\ pc'[p] = "cas" => seq'[Slot(pos'[p])] >= pos'[p]
                      /\ pc'[p] \in {"copy", "publish"} =>
                           /\ tail <= pos'[p] /\ pos'[p] < head
                           /\ seq'[Slot(pos'[p])] = pos'[p]
                           /\ \A q \in Producers : (q # p /\ pc'[q] \in {"copy", "publish"})
                                                      => pos'[q] # pos'[p]
    BY <1>1 DEF ProducerInv, Owns, Slot
  <2>1. \A q \in Producers : q # c /\ pos'[q] = pos[q] /\ pc'[q] = pc[q]
    BY <1>1, ThreadAssumption DEF TypeOK
  <2>2. /\ pos[p] \in Nat /\ Slot(pos[p]) \in Slots
        /\ seq[Slot(pos[p])] \in Nat /\ seq'[Slot(pos[p])] \in Nat
    BY <1>1, <1>4, SlotInSlots DEF TypeOK
  <2>3. seq'[Slot(pos[p])] >= seq[Slot(pos[p])] BY <2>2, <1>4
  <2>4. Owns(p) => seq'[Slot(pos[p])] = seq[Slot(pos[p])]
    BY <2>1, <2>2, <1>4, <1>7
  <2> QED BY <2>1, <2>2, <2>3, <2>4 DEF TicketInv, ProducerInv, Owns
<1>9. ConsumerInv'
  <2> SUFFICES ASSUME NEW d \in Consumers
               PROVE  /\ pos'[d] <= tail
                      /\ pc'[d] = "cas" => seq'[Slot(pos'[d])] >= pos'[d] + 1
                      /\ pc'[d] \in {"copy", "publish"} =>
                           /\ head <= pos'[d] + N /\ pos'[d] < tail
                           /\ seq'[Slot(pos'[d])] = pos'[d] + 1
                           /\ \A e \in Consumers : (e # d /\ pc'[e] \in {"copy", "publish"})
                                                      => pos'[e] # pos'[d]
    BY <1>1 DEF ConsumerInv, Owns, Slot
  <2>1. CASE d = c
    BY <2>1, <1>1, <1>3 DEF TypeOK
  <2>2. CASE d # c
    <3>1. /\ pos'[d] = pos[d] /\ pc'[d] = pc[d] /\ pos[d] \in Nat /\ Slot(pos[d]) \in Slots
          /\ seq[Slot(pos[d])] \in Nat /\ seq'[Slot(pos[d])] \in Nat
      BY <2>2, <1>1, <1>4, SlotInSlots DEF TypeOK
    <3>2. seq'[Slot(pos[d])] >= seq[Slot(pos[d])] BY <3>1, <1>4
    <3>3. Owns(d) => seq'[Slot(pos[d])] = seq[Slot(pos[d])]
      BY <2>2, <3>1, <1>4, <1>7
    <3>4. \A e \in Consumers : pc'[e] \in {"copy", "publish"} => Owns(e) /\ pos'[e] = pos[e]
      BY <1>1 DEF Owns, TypeOK
    <3> QED BY <3>1, <3>2, <3>3, <3>4 DEF TicketInv, ConsumerInv, Owns
  <2> QED BY <2>1, <2>2
<1> QED BY <1>5, <1>6, <1>8, <1>9 DEF TicketInv

\* The ticket protocol of try_push and try_pop (lines 57-103) holds for every
\* capacity of at least two and any number of threads.
THEOREM TicketProtocol == N >= 2 => (Spec => []TicketInv)
<1> SUFFICES ASSUME N >= 2 PROVE Spec => []TicketInv
  OBVIOUS
<1>1. Init => TicketInv
  <2> SUFFICES ASSUME Init PROVE TicketInv OBVIOUS
  <2> USE CapacityAssumption
  <2>1. \A t \in 0..(N - 1) : Slot(t) = t BY DEF Slot
  <2>2. \A w \in Workers : pc[w] = "idle" /\ pos[w] = 0 BY DEF Init
  <2>3. CounterInv /\ SlotInv BY <2>1 DEF Init, CounterInv, SlotInv, Slots
  <2>4. ProducerInv /\ ConsumerInv
    BY <2>2 DEF Init, ProducerInv, ConsumerInv, Owns, Workers
  <2> QED BY <2>3, <2>4 DEF TicketInv
<1>2. TypeOK /\ TicketInv /\ [Next]_vars => TicketInv'
  <2> SUFFICES ASSUME TypeOK, TicketInv, [Next]_vars PROVE TicketInv' OBVIOUS
  <2>p. ASSUME NEW p \in Producers PROVE p \in Workers /\ p \notin Consumers
    BY ThreadAssumption DEF Workers
  <2>c. ASSUME NEW c \in Consumers PROVE c \in Workers /\ c \notin Producers
    BY ThreadAssumption DEF Workers
  <2>l. /\ head \in Nat /\ tail \in Nat /\ pos \in [Workers -> Nat]
        /\ \A p \in Producers : pos[p] <= head
        /\ \A c \in Consumers : pos[c] <= tail
    BY DEF TypeOK, TicketInv, ProducerInv, ConsumerInv
  <2>t. pc \in [Workers \cup Observers -> WorkerPC \cup {"size"}]
    BY DEF TypeOK
  <2>1. ASSUME NEW p \in Producers, NEW v \in Values, PushStart(p, v) PROVE TicketInv'
    BY <2>1, <2>p, <2>l, <2>t, LoadIsTicket, LocalStep DEF PushStart, Goto
  <2>2. ASSUME NEW p \in Producers, PushSeesFree(p) PROVE TicketInv'
    BY <2>2, <2>p, <2>l, <2>t, LocalStep DEF PushSeesFree, Goto
  <2>3. ASSUME NEW p \in Producers, PushFull(p) PROVE TicketInv'
    BY <2>3, <2>p, <2>l, <2>t, LocalStep DEF PushFull, Goto
  <2>4. ASSUME NEW p \in Producers, PushSeesTaken(p) PROVE TicketInv'
    BY <2>4, <2>p, <2>l, <2>t, LocalStep DEF PushSeesTaken, Goto
  <2>5. ASSUME NEW p \in Producers, PushReload(p) PROVE TicketInv'
    BY <2>5, <2>p, <2>l, <2>t, LoadIsTicket, LocalStep DEF PushReload, Goto
  <2>6. ASSUME NEW p \in Producers, PushClaim(p) PROVE TicketInv'
    BY <2>6, PushClaimKeepsTickets
  <2>7. ASSUME NEW p \in Producers, PushCasFails(p) PROVE TicketInv'
    BY <2>7, <2>p, <2>l, <2>t, LoadIsTicket, LocalStep DEF PushCasFails, Goto
  <2>8. ASSUME NEW p \in Producers, PushCopy(p) PROVE TicketInv'
    BY <2>8, <2>p, <2>l, <2>t, LocalStep DEF PushCopy, Goto, Owns
  <2>9. ASSUME NEW p \in Producers, PushPublish(p) PROVE TicketInv'
    BY <2>9, PushPublishKeepsTickets
  <2>11. ASSUME NEW c \in Consumers, PopStart(c) PROVE TicketInv'
    BY <2>11, <2>c, <2>l, <2>t, LoadIsTicket, LocalStep DEF PopStart, Goto
  <2>12. ASSUME NEW c \in Consumers, PopSeesItem(c) PROVE TicketInv'
    BY <2>12, <2>c, <2>l, <2>t, LocalStep DEF PopSeesItem, Goto
  <2>13. ASSUME NEW c \in Consumers, PopEmpty(c) PROVE TicketInv'
    BY <2>13, <2>c, <2>l, <2>t, LocalStep DEF PopEmpty, Goto
  <2>14. ASSUME NEW c \in Consumers, PopSeesTaken(c) PROVE TicketInv'
    BY <2>14, <2>c, <2>l, <2>t, LocalStep DEF PopSeesTaken, Goto
  <2>15. ASSUME NEW c \in Consumers, PopReload(c) PROVE TicketInv'
    BY <2>15, <2>c, <2>l, <2>t, LoadIsTicket, LocalStep DEF PopReload, Goto
  <2>16. ASSUME NEW c \in Consumers, PopClaim(c) PROVE TicketInv'
    BY <2>16, PopClaimKeepsTickets
  <2>17. ASSUME NEW c \in Consumers, PopCasFails(c) PROVE TicketInv'
    BY <2>17, <2>c, <2>l, <2>t, LoadIsTicket, LocalStep DEF PopCasFails, Goto
  <2>18. ASSUME NEW c \in Consumers, PopCopy(c) PROVE TicketInv'
    BY <2>18, <2>c, <2>l, <2>t, LocalStep DEF PopCopy, Goto, Owns
  <2>19. ASSUME NEW c \in Consumers, PopRelease(c) PROVE TicketInv'
    BY <2>19, PopReleaseKeepsTickets
  <2>21. ASSUME UNCHANGED <<head, tail, seq, pos>>,
                \A w \in Workers : pc'[w] = pc[w]
         PROVE  TicketInv'
    <3>1. CounterInv' /\ SlotInv' BY <2>21 DEF TicketInv, CounterInv, SlotInv, Slot
    <3>2. ProducerInv' BY <2>21 DEF TicketInv, ProducerInv, Owns, Slot, Workers
    <3>3. ConsumerInv' BY <2>21 DEF TicketInv, ConsumerInv, Owns, Slot, Workers
    <3> QED BY <3>1, <3>2, <3>3 DEF TicketInv
  <2>22. ASSUME NEW o \in Observers, SizeLoadHead(o) \/ SizeLoadTail(o) PROVE TicketInv'
    <3>1. \A w \in Workers : pc'[w] = pc[w]
      BY <2>22, <2>t, ThreadAssumption DEF SizeLoadHead, SizeLoadTail, Goto, Workers
    <3> QED BY <3>1, <2>21, <2>22 DEF SizeLoadHead, SizeLoadTail
  <2>23. CASE UNCHANGED vars
    BY <2>21, <2>23 DEF vars
  <2> QED
    BY <2>1, <2>2, <2>3, <2>4, <2>5, <2>6, <2>7, <2>8, <2>9, <2>11, <2>12, <2>13, <2>14,
       <2>15, <2>16, <2>17, <2>18, <2>19, <2>22, <2>23
       DEF Next, PushStep, PopStep
<1> QED BY <1>1, <1>2, TypeCorrect, PTL DEF Spec

-----------------------------------------------------------------------------
(* What follows from the protocol *)

LEMMA TicketsExclude ==
    ASSUME TypeOK, TicketInv, N >= 2
    PROVE  ExclusiveSlot
<1> SUFFICES ASSUME NEW w1 \in Workers, NEW w2 \in Workers, w1 # w2,
                    Owns(w1), Owns(w2), Slot(pos[w1]) = Slot(pos[w2])
             PROVE  FALSE
  BY DEF ExclusiveSlot
<1> USE CapacityAssumption DEF Workers, TicketInv, ProducerInv, ConsumerInv
<1>1. pos[w1] \in Nat /\ pos[w2] \in Nat
  BY DEF TypeOK
<1>2. CASE w1 \in Producers /\ w2 \in Producers
  <2>1. seq[Slot(pos[w1])] = pos[w1] /\ seq[Slot(pos[w2])] = pos[w2] /\ pos[w1] # pos[w2]
    BY <1>2
  <2> QED BY <2>1
<1>3. CASE w1 \in Consumers /\ w2 \in Consumers
  <2>1. /\ seq[Slot(pos[w1])] = pos[w1] + 1 /\ seq[Slot(pos[w2])] = pos[w2] + 1
        /\ pos[w1] # pos[w2]
    BY <1>3
  <2> QED BY <2>1, <1>1
<1>4. ASSUME NEW p \in Producers, NEW c \in Consumers, Owns(p), Owns(c),
             pos[p] \in Nat, pos[c] \in Nat, Slot(pos[p]) = Slot(pos[c])
      PROVE  FALSE
  <2>1. seq[Slot(pos[p])] = pos[p] /\ seq[Slot(pos[c])] = pos[c] + 1
    BY <1>4
  <2>2. Slot(pos[c]) # Slot(pos[p])
    BY <1>4, <2>1, WindowSlotsDiffer
  <2> QED BY <2>2, <1>4
<1> QED BY <1>1, <1>2, <1>3, <1>4

\* No two threads are inside the memcpy of one slot (lines 65 and 91): the
\* elements need no lock.
THEOREM ElementsAreExclusive == N >= 2 => (Spec => []ExclusiveSlot)
<1> SUFFICES ASSUME N >= 2 PROVE Spec => []ExclusiveSlot
  OBVIOUS
<1>1. TypeOK /\ TicketInv => ExclusiveSlot BY TicketsExclude
<1>2. Spec => []TicketInv BY TicketProtocol
<1> QED BY <1>1, <1>2, TypeCorrect, PTL

\* The duty to hand a slot on stays with its owner through a step that changes
\* neither the owners nor the slots.
LEMMA SameOwners ==
    ASSUME NoOrphanTicket, UNCHANGED <<head, tail, seq>>,
           \A w \in Workers : Owns(w) => pc'[w] \in {"copy", "publish"} /\ pos'[w] = pos[w]
    PROVE  NoOrphanTicket'
BY DEF NoOrphanTicket, Publishing, Releasing, Owns, Slot, Workers

LEMMA NoOrphanStep ==
    ASSUME TypeOK, TicketInv, N >= 2, NoOrphanTicket, [Next]_vars
    PROVE  NoOrphanTicket'
<1> USE CapacityAssumption
<1>t. /\ pc \in [Workers \cup Observers -> WorkerPC \cup {"size"}]
      /\ pos \in [Workers -> Nat] /\ head \in Nat /\ tail \in Nat
  BY DEF TypeOK
<1>w. Producers \subseteq Workers /\ Consumers \subseteq Workers BY DEF Workers
<1>1. ASSUME NEW p \in Producers,
             \/ \E v \in Values : PushStart(p, v)
             \/ PushSeesFree(p) \/ PushFull(p) \/ PushSeesTaken(p) \/ PushReload(p)
             \/ PushCasFails(p) \/ PushCopy(p)
      PROVE  NoOrphanTicket'
  <2>1. /\ UNCHANGED <<head, tail, seq>>
        /\ \A w \in Workers : Owns(w) => pc'[w] \in {"copy", "publish"} /\ pos'[w] = pos[w]
    BY <1>1, <1>t, <1>w
       DEF PushStart, PushSeesFree, PushFull, PushSeesTaken, PushReload, PushCasFails,
           PushCopy, Goto, LoadCounter, Owns
  <2> QED BY <2>1, SameOwners
<1>2. ASSUME NEW c \in Consumers,
             \/ PopStart(c) \/ PopSeesItem(c) \/ PopEmpty(c) \/ PopSeesTaken(c)
             \/ PopReload(c) \/ PopCasFails(c) \/ PopCopy(c)
      PROVE  NoOrphanTicket'
  <2>1. /\ UNCHANGED <<head, tail, seq>>
        /\ \A w \in Workers : Owns(w) => pc'[w] \in {"copy", "publish"} /\ pos'[w] = pos[w]
    BY <1>2, <1>t, <1>w
       DEF PopStart, PopSeesItem, PopEmpty, PopSeesTaken, PopReload, PopCasFails,
           PopCopy, Goto, LoadCounter, Owns
  <2> QED BY <2>1, SameOwners
<1>3. ASSUME NEW p \in Producers, PushClaim(p) PROVE NoOrphanTicket'
  <2>1. /\ pos[p] = head /\ head' = head + 1 /\ UNCHANGED <<tail, seq, pos>>
        /\ pc' = [pc EXCEPT ![p] = "copy"] /\ ~Owns(p)
    BY <1>3 DEF PushClaim, Goto, Owns
  <2>2. \A w \in Workers : Owns(w) => pc'[w] \in {"copy", "publish"}
    BY <2>1, <1>t, <1>w DEF Owns
  <2>3. pc'[p] \in {"copy", "publish"} BY <2>1, <1>t, <1>w
  <2> SUFFICES ASSUME NEW t \in tail..(tail + N - 1)
               PROVE  /\ (t < head + 1 /\ seq[Slot(t)] = t) => Publishing(t)'
                      /\ (t >= head + 1 /\ seq[Slot(t)] # t) => Releasing(t - N)'
    BY <2>1 DEF NoOrphanTicket, Slot
  <2>4. Publishing(t) => Publishing(t)' BY <2>1, <2>2, <1>w DEF Publishing, Owns
  <2>5. Releasing(t - N) => Releasing(t - N)' BY <2>1, <2>2, <1>w DEF Releasing, Owns
  <2>6. CASE t = head
    <3>1. Publishing(t)' BY <2>1, <2>3, <2>6 DEF Publishing, Owns
    <3> QED BY <3>1, <2>6, <1>t
  <2>7. CASE t # head
    BY <2>4, <2>5, <2>7, <1>t DEF NoOrphanTicket
  <2> QED BY <2>6, <2>7
<1>4. ASSUME NEW c \in Consumers, PopClaim(c) PROVE NoOrphanTicket'
  <2>1. /\ pos[c] = tail /\ tail' = tail + 1 /\ UNCHANGED <<head, seq, pos>>
        /\ pc' = [pc EXCEPT ![c] = "copy"] /\ ~Owns(c)
    BY <1>4 DEF PopClaim, Goto, Owns
  <2>2. \A w \in Workers : Owns(w) => pc'[w] \in {"copy", "publish"}
    BY <2>1, <1>t, <1>w DEF Owns
  <2>3. pc'[c] \in {"copy", "publish"} BY <2>1, <1>t, <1>w
  <2>h. TicketInv' /\ head <= tail + N
    BY <1>4, PopClaimKeepsTickets DEF TicketInv, CounterInv
  <2>e. (tail + 1)..(tail + 1 + N - 1) = (tail + 1)..(tail + N)
    BY <1>t
  <2> SUFFICES ASSUME NEW t \in (tail + 1)..(tail + N)
               PROVE  /\ (t < head /\ seq[Slot(t)] = t) => Publishing(t)'
                      /\ (t >= head /\ seq[Slot(t)] # t) => Releasing(t - N)'
    BY <2>1, <2>e DEF NoOrphanTicket, Slot
  <2>4. Publishing(t) => Publishing(t)' BY <2>1, <2>2, <1>w DEF Publishing, Owns
  <2>5. Releasing(t - N) => Releasing(t - N)' BY <2>1, <2>2, <1>w DEF Releasing, Owns
  <2>6. CASE t = tail + N
    <3>1. t - N = tail BY <2>6, <1>t
    <3>2. Releasing(t - N)' BY <3>1, <2>1, <2>3 DEF Releasing, Owns
    <3> QED BY <3>1, <3>2, <2>6, <2>h, <1>t
  <2>7. CASE t # tail + N
    <3>1. t \in tail..(tail + N - 1) BY <2>7, <1>t
    <3> QED BY <3>1, <2>4, <2>5 DEF NoOrphanTicket
  <2> QED BY <2>6, <2>7
<1>5. ASSUME NEW p \in Producers, PushPublish(p) PROVE NoOrphanTicket'
  <2> DEFINE s == Slot(pos[p])
  <2>1. /\ UNCHANGED <<head, tail>> /\ pos[p] \in Nat
        /\ pos' = [pos EXCEPT ![p] = pos[p] + 1] /\ pc' = [pc EXCEPT ![p] = "idle"]
        /\ seq' = [seq EXCEPT ![s] = pos[p] + 1] /\ seq \in [Slots -> Nat]
        /\ tail <= pos[p] /\ pos[p] < head /\ head <= tail + N
    BY <1>5, <1>t, <1>w DEF PushPublish, Goto, TicketInv, ProducerInv, CounterInv, Owns, TypeOK
  <2> SUFFICES ASSUME NEW t \in tail..(tail + N - 1)
               PROVE  /\ (t < head /\ seq'[Slot(t)] = t) => Publishing(t)'
                      /\ (t >= head /\ seq'[Slot(t)] # t) => Releasing(t - N)'
    BY <2>1, <1>t DEF NoOrphanTicket, Slot
  <2>2. t \in Nat /\ Slot(t) \in Slots BY <1>t, SlotInSlots
  <2>3. CASE t = pos[p]
    <3>1. seq'[Slot(t)] = t + 1 BY <2>1, <2>2, <2>3
    <3> QED BY <3>1, <2>1, <2>2, <2>3, <1>t
  <2>4. CASE t # pos[p]
    <3>1. Slot(t) # s BY <2>1, <2>2, <2>4, <1>t, WindowSlotsDiffer
    <3>2. seq'[Slot(t)] = seq[Slot(t)] BY <3>1, <2>1, <2>2
    <3>3. Publishing(t) => Publishing(t)'
      BY <2>1, <2>4, <1>t, <1>w DEF Publishing, Owns
    <3>4. Releasing(t - N) => Releasing(t - N)'
      BY <2>1, <1>t, <1>w, ThreadAssumption DEF Releasing, Owns
    <3> QED BY <3>2, <3>3, <3>4 DEF NoOrphanTicket
  <2> QED BY <2>3, <2>4
<1>6. ASSUME NEW c \in Consumers, PopRelease(c) PROVE NoOrphanTicket'
  <2> DEFINE s == Slot(pos[c])
  <2>1. /\ UNCHANGED <<head, tail>> /\ pos[c] \in Nat
        /\ pos' = [pos EXCEPT ![c] = pos[c] + 1] /\ pc' = [pc EXCEPT ![c] = "idle"]
        /\ seq' = [seq EXCEPT ![s] = pos[c] + N] /\ seq \in [Slots -> Nat]
        /\ head <= pos[c] + N /\ pos[c] < tail /\ head <= tail + N /\ tail <= head
    BY <1>6, <1>t, <1>w DEF PopRelease, Goto, TicketInv, ConsumerInv, CounterInv, Owns, TypeOK
  <2>s. Slot(pos[c] + N) = s BY <2>1, SlotComesAround
  <2> SUFFICES ASSUME NEW t \in tail..(tail + N - 1)
               PROVE  /\ (t < head /\ seq'[Slot(t)] = t) => Publishing(t)'
                      /\ (t >= head /\ seq'[Slot(t)] # t) => Releasing(t - N)'
    BY <2>1, <1>t DEF NoOrphanTicket, Slot
  <2>2. t \in Nat /\ Slot(t) \in Slots BY <1>t, SlotInSlots
  <2>3. CASE t = pos[c] + N
    <3>1. seq'[Slot(t)] = t BY <2>1, <2>2, <2>3, <2>s
    <3> QED BY <3>1, <2>1, <2>2, <2>3, <1>t
  <2>4. CASE t # pos[c] + N
    <3>1. Slot(t) # Slot(pos[c] + N)
      <4>1. pos[c] + N \in Nat /\ pos[c] + N < t + N /\ t < pos[c] + N + N
        BY <2>1, <2>2, <1>t
      <4> QED BY <4>1, <2>2, <2>4, WindowSlotsDiffer
    <3>2. seq'[Slot(t)] = seq[Slot(t)] BY <3>1, <2>1, <2>2, <2>s
    <3>3. Publishing(t) => Publishing(t)'
      BY <2>1, <1>t, <1>w, ThreadAssumption DEF Publishing, Owns
    <3>4. Releasing(t - N) => Releasing(t - N)'
      BY <2>1, <2>4, <1>t, <1>w DEF Releasing, Owns
    <3> QED BY <3>2, <3>3, <3>4 DEF NoOrphanTicket
  <2> QED BY <2>3, <2>4
<1>7. ASSUME NEW o \in Observers, SizeLoadHead(o) \/ SizeLoadTail(o) PROVE NoOrphanTicket'
  <2>1. /\ UNCHANGED <<head, tail, seq>>
        /\ \A w \in Workers : Owns(w) => pc'[w] \in {"copy", "publish"} /\ pos'[w] = pos[w]
    BY <1>7, <1>t, ThreadAssumption DEF SizeLoadHead, SizeLoadTail, Goto, Owns, Workers
  <2> QED BY <2>1, SameOwners
<1>8. CASE UNCHANGED vars
  BY <1>8, SameOwners DEF vars, Owns
<1> QED
  BY <1>1, <1>2, <1>3, <1>4, <1>5, <1>6, <1>7, <1>8 DEF Next, PushStep, PopStep

\* Between the compare-exchange and the store of the sequence number a ticket
\* always has a thread that will hand its slot on (lines 64-66 and 90-92).
THEOREM TicketsHaveOwners == N >= 2 => (Spec => []NoOrphanTicket)
<1> SUFFICES ASSUME N >= 2 PROVE Spec => []NoOrphanTicket
  OBVIOUS
<1>1. Init => NoOrphanTicket
  <2>1. \A t \in 0..(N - 1) : Slot(t) = t BY CapacityAssumption DEF Slot
  <2> QED BY <2>1, CapacityAssumption DEF Init, NoOrphanTicket, Slots
<1>2. TypeOK /\ TicketInv /\ NoOrphanTicket /\ [Next]_vars => NoOrphanTicket'
  BY NoOrphanStep
<1>3. Spec => []TicketInv BY TicketProtocol
<1> QED BY <1>1, <1>2, <1>3, TypeCorrect, PTL DEF Spec

\* A slot never falls behind the tickets consumers have won.
LEMMA PassedSlots ==
    ASSUME TypeOK, TicketInv, NEW t \in Nat, t < tail
    PROVE  seq[Slot(t)] > t
<1>1. PICK u \in tail..(tail + N - 1) : u >= t + N /\ Slot(u) = Slot(t)
  BY WindowCoversSlots DEF TypeOK
<1>2. seq[Slot(u)] \in {u, u + 1, u - N + 1}
  BY <1>1 DEF TicketInv, SlotInv
<1> QED BY <1>1, <1>2, CapacityAssumption DEF TypeOK

\* An answer of false from try_push (line 72) has a reason: N elements are in
\* the queue, or a consumer still holds the slot of the next ticket.
THEOREM FullJustified == N >= 2 => (Spec => FullIsJustified)
<1> SUFFICES ASSUME N >= 2 PROVE Spec => FullIsJustified
  OBVIOUS
<1> DEFINE Full == \A p \in Producers :
                      PushFull(p) => /\ head = pos[p]
                                     /\ head - tail = N \/ Releasing(pos[p] - N)
<1>1. TypeOK /\ TicketInv /\ NoOrphanTicket => Full
  <2> SUFFICES ASSUME TypeOK, TicketInv, NoOrphanTicket, NEW p \in Producers, PushFull(p)
               PROVE  head = pos[p] /\ (head - tail = N \/ Releasing(pos[p] - N))
    OBVIOUS
  <2> USE CapacityAssumption
  <2>1. /\ pos[p] \in Nat /\ head \in Nat /\ tail \in Nat
        /\ seq[Slot(pos[p])] < pos[p] /\ pos[p] <= head
        /\ tail <= head /\ head <= tail + N
    BY DEF PushFull, TypeOK, TicketInv, ProducerInv, CounterInv, Workers
  <2>2. seq[Slot(pos[p])] \in Nat BY <2>1, SlotInSlots DEF TypeOK
  <2>3. pos[p] >= tail BY <2>1, <2>2, PassedSlots
  <2>4. head = pos[p]
    <3> SUFFICES ASSUME pos[p] < head PROVE FALSE BY <2>1
    <3>1. pos[p] \in tail..(tail + N - 1) BY <2>1, <2>3
    <3>2. seq[Slot(pos[p])] \in {pos[p], pos[p] + 1} BY <3>1 DEF TicketInv, SlotInv
    <3> QED BY <3>2, <2>1
  <2>5. CASE head # tail + N
    <3>1. pos[p] \in tail..(tail + N - 1) BY <2>1, <2>3, <2>4, <2>5
    <3> QED BY <3>1, <2>1, <2>2, <2>4 DEF NoOrphanTicket
  <2> QED BY <2>1, <2>4, <2>5
<1>2. Spec => []TicketInv BY TicketProtocol
<1>3. Spec => []NoOrphanTicket BY TicketsHaveOwners
<1> QED BY <1>1, <1>2, <1>3, TypeCorrect, PTL DEF FullIsJustified

\* An answer of false from try_pop (line 98) has a reason: no element is
\* accepted, or the producer of the oldest one has yet to publish it.
THEOREM EmptyJustified == N >= 2 => (Spec => EmptyIsJustified)
<1> SUFFICES ASSUME N >= 2 PROVE Spec => EmptyIsJustified
  OBVIOUS
<1> DEFINE Empty == \A c \in Consumers :
                       PopEmpty(c) => /\ tail = pos[c]
                                      /\ head = tail \/ Publishing(tail)
<1>1. TypeOK /\ TicketInv /\ NoOrphanTicket => Empty
  <2> SUFFICES ASSUME TypeOK, TicketInv, NoOrphanTicket, NEW c \in Consumers, PopEmpty(c)
               PROVE  tail = pos[c] /\ (head = tail \/ Publishing(tail))
    OBVIOUS
  <2> USE CapacityAssumption
  <2>1. /\ pos[c] \in Nat /\ head \in Nat /\ tail \in Nat
        /\ seq[Slot(pos[c])] < pos[c] + 1 /\ pos[c] <= tail
        /\ tail <= head /\ head <= tail + N
    BY DEF PopEmpty, TypeOK, TicketInv, ConsumerInv, CounterInv, Workers
  <2>2. seq[Slot(pos[c])] \in Nat BY <2>1, SlotInSlots DEF TypeOK
  <2>3. tail = pos[c] BY <2>1, <2>2, PassedSlots
  <2>4. CASE tail < head
    <3>1. tail \in tail..(tail + N - 1) BY <2>1
    <3>2. seq[Slot(tail)] \in {tail, tail + 1}
      BY <3>1, <2>4 DEF TicketInv, SlotInv
    <3>3. seq[Slot(tail)] = tail BY <3>2, <2>1, <2>3
    <3>4. Publishing(tail) BY <3>1, <3>3, <2>4 DEF NoOrphanTicket
    <3> QED BY <3>4, <2>3
  <2> QED BY <2>1, <2>3, <2>4
<1>2. Spec => []TicketInv BY TicketProtocol
<1>3. Spec => []NoOrphanTicket BY TicketsHaveOwners
<1> QED BY <1>1, <1>2, <1>3, TypeCorrect, PTL DEF EmptyIsJustified

-----------------------------------------------------------------------------
(* The queue implements a bounded FIFO queue *)

\* A producer pushes an element.
ArgumentInv == \A p \in Producers : pc[p] # "idle" => val[p] \in Values

LEMMA ArgumentsAreValues == Spec => []ArgumentInv
<1>1. Init => ArgumentInv
  BY DEF Init, ArgumentInv, Workers
<1>2. TypeOK /\ ArgumentInv /\ [Next]_vars => ArgumentInv'
  <2> SUFFICES ASSUME TypeOK, ArgumentInv, [Next]_vars PROVE ArgumentInv'
    OBVIOUS
  <2>t. /\ pc \in [Workers \cup Observers -> WorkerPC \cup {"size"}]
        /\ val \in [Workers -> Elements]
    BY DEF TypeOK
  <2> USE <2>t, ThreadAssumption DEF ArgumentInv, Goto, Workers
  <2>1. ASSUME NEW p \in Producers, NEW v \in Values, PushStart(p, v) PROVE ArgumentInv'
    BY <2>1 DEF PushStart
  <2>2. ASSUME NEW p \in Producers, PushStep(p) PROVE ArgumentInv'
    BY <2>2 DEF PushStep, PushSeesFree, PushFull, PushSeesTaken, PushReload, PushClaim,
                PushCasFails, PushCopy, PushPublish
  <2>3. ASSUME NEW c \in Consumers, PopStart(c) \/ PopStep(c) PROVE ArgumentInv'
    BY <2>3 DEF PopStart, PopStep, PopSeesItem, PopEmpty, PopSeesTaken, PopReload,
                PopClaim, PopCasFails, PopCopy, PopRelease
  <2>4. ASSUME NEW o \in Observers, SizeLoadHead(o) \/ SizeLoadTail(o) PROVE ArgumentInv'
    BY <2>4 DEF SizeLoadHead, SizeLoadTail
  <2>5. CASE UNCHANGED vars
    BY <2>5 DEF vars
  <2> QED BY <2>1, <2>2, <2>3, <2>4, <2>5 DEF Next
<1> QED BY <1>1, <1>2, TypeCorrect, PTL DEF Spec

\* The invariant the step simulation needs.
SimInv == TypeOK /\ TicketInv /\ ArgumentInv

\* The element of a ticket whose producer is copying is that producer's.
LEMMA ContentOfCopier ==
    ASSUME TicketInv, NEW p \in Producers, NEW t, Copying(p, t)
    PROVE  Content(t) = val[p]
<1>1. \A q \in Producers : Copying(q, t) => q = p
  BY DEF TicketInv, ProducerInv, Owns, Copying
<1>2. (CHOOSE q \in Producers : Copying(q, t)) = p
  BY <1>1
<1> QED BY <1>2 DEF Content

LEMMA ContentOfCopierNext ==
    ASSUME TicketInv', NEW p \in Producers, NEW t, pc'[p] = "copy", pos'[p] = t
    PROVE  Content(t)' = val'[p]
<1>1. \A q \in Producers : (pc'[q] = "copy" /\ pos'[q] = t) => q = p
  BY DEF TicketInv, ProducerInv, Owns
<1>2. (CHOOSE q \in Producers : pc'[q] = "copy" /\ pos'[q] = t) = p
  BY <1>1
<1> QED BY <1>2 DEF Content, Copying

\* A step keeps the element of a ticket when it keeps its copier, or keeps it
\* without one and leaves the slot alone.
LEMMA SameContent ==
    ASSUME TicketInv, TicketInv', NEW t,
           \A p \in Producers : Copying(p, t) <=> (pc'[p] = "copy" /\ pos'[p] = t),
           \A p \in Producers : Copying(p, t) => val'[p] = val[p],
           data'[Slot(t)] = data[Slot(t)]
    PROVE  Content(t)' = Content(t)
<1>1. CASE \E p \in Producers : Copying(p, t)
  BY <1>1, ContentOfCopier, ContentOfCopierNext
<1>2. CASE ~\E p \in Producers : Copying(p, t)
  BY <1>2 DEF Content, Copying, Slot
<1> QED BY <1>1, <1>2

\* A step that moves no counter and no element is invisible to the fifo.
LEMMA Invisible ==
    ASSUME UNCHANGED <<head, tail>>,
           \A t \in tail..(head - 1) : Content(t)' = Content(t),
           outBar' = outBar, head \in Nat, tail \in Nat
    PROVE  UNCHANGED Fifo!vars
<1>1. itemsBar' = itemsBar
  <2>1. \A i \in 1..(head - tail) : Content(tail + i - 1)' = Content(tail + i - 1)
    OBVIOUS
  <2> QED BY <2>1 DEF itemsBar
<1> QED BY <1>1 DEF Fifo!vars

\* Steps of a thread that is not copying, before or after, are invisible.
LEMMA QuietStep ==
    ASSUME SimInv, SimInv', NEW w \in Workers, UNCHANGED <<head, tail, data>>,
           \A v \in Workers : v # w => pc'[v] = pc[v] /\ pos'[v] = pos[v] /\ val'[v] = val[v],
           pc[w] # "copy", pc'[w] # "copy",
           w \in Consumers => val'[w] = val[w]
    PROVE  UNCHANGED Fifo!vars
<1>1. \A t \in tail..(head - 1) : Content(t)' = Content(t)
  BY SameContent DEF SimInv, Copying, Workers
<1>2. outBar' = outBar
  <2>1. \A c \in Consumers : /\ pc'[c] = "copy" <=> pc[c] = "copy"
                             /\ pc[c] = "copy" => pos'[c] = pos[c]
                             /\ val'[c] = val[c]
    BY DEF Workers
  <2> QED BY <2>1 DEF outBar, Slot
<1> QED BY <1>1, <1>2, Invisible DEF SimInv, TypeOK

\* Copying an element into the slot of a ticket keeps the ticket's element.
LEMMA PushCopyIsInvisible ==
    ASSUME SimInv, SimInv', N >= 2, NEW p \in Producers, PushCopy(p)
    PROVE  UNCHANGED Fifo!vars
<1>0. /\ TypeOK /\ TicketInv /\ TicketInv' /\ Owns(p) /\ pc[p] = "copy"
      /\ pc' = [pc EXCEPT ![p] = "publish"] /\ UNCHANGED <<head, tail, seq, pos, val>>
      /\ data' = [data EXCEPT ![Slot(pos[p])] = val[p]]
  BY DEF SimInv, PushCopy, Goto, Owns
<1>1. /\ head \in Nat /\ tail \in Nat /\ head <= tail + N
      /\ pos \in [Workers -> Nat] /\ data \in [Slots -> Elements]
      /\ pc \in [Workers \cup Observers -> WorkerPC \cup {"size"}]
      /\ p \in Workers /\ Consumers \subseteq Workers /\ Producers \subseteq Workers
      /\ tail <= pos[p] /\ pos[p] < head /\ Slot(pos[p]) \in Slots
  BY <1>0, SlotInSlots DEF TypeOK, TicketInv, CounterInv, ProducerInv, Workers
<1>2. ASSUME NEW t \in tail..(head - 1) PROVE Content(t)' = Content(t)
  <2>1. CASE t = pos[p]
    <3>1. Content(t) = val[p] BY <2>1, <1>0, ContentOfCopier DEF Copying
    <3>2. ~\E q \in Producers : pc'[q] = "copy" /\ pos'[q] = t
      BY <2>1, <1>0, <1>1 DEF TicketInv, ProducerInv, Owns
    <3>3. Content(t)' = data'[Slot(t)] BY <3>2 DEF Content, Copying, Slot
    <3>4. data'[Slot(t)] = val[p] BY <2>1, <1>0, <1>1
    <3> QED BY <3>1, <3>3, <3>4
  <2>2. CASE t # pos[p]
    <3>1. Slot(t) # Slot(pos[p])
      <4>1. t \in Nat /\ pos[p] \in Nat /\ t < pos[p] + N /\ pos[p] < t + N
        BY <1>1, CapacityAssumption
      <4> QED BY <4>1, <2>2, WindowSlotsDiffer
    <3>2. t \in Nat /\ Slot(t) \in Slots BY <1>1, SlotInSlots
    <3>3. data'[Slot(t)] = data[Slot(t)] BY <3>1, <3>2, <1>0, <1>1
    <3>4. \A q \in Producers : Copying(q, t) <=> (pc'[q] = "copy" /\ pos'[q] = t)
      BY <2>2, <1>0, <1>1 DEF Copying
    <3> QED BY <3>3, <3>4, <1>0, SameContent
  <2> QED BY <2>1, <2>2
<1>3. outBar' = outBar
  <2>1. ASSUME NEW c \in Consumers, pc[c] = "copy"
        PROVE  data'[Slot(pos[c])] = data[Slot(pos[c])]
    <3>1. Slot(pos[c]) # Slot(pos[p])
      BY <2>1, <1>0, <1>1, TicketsExclude, ThreadAssumption DEF ExclusiveSlot, Owns
    <3>2. Slot(pos[c]) \in Slots BY <1>1, SlotInSlots
    <3> QED BY <3>1, <3>2, <1>0, <1>1
  <2>2. \A c \in Consumers : pc'[c] = pc[c] BY <1>0, <1>1, ThreadAssumption
  <2> QED BY <2>1, <2>2, <1>0 DEF outBar, Slot
<1> QED BY <1>0, <1>1, <1>2, <1>3, Invisible

\* Copying an element out gives the consumer the element it took.
LEMMA PopCopyIsInvisible ==
    ASSUME SimInv, SimInv', NEW c \in Consumers, PopCopy(c)
    PROVE  UNCHANGED Fifo!vars
<1>0. /\ TypeOK /\ TicketInv /\ TicketInv' /\ pc[c] = "copy"
      /\ pc' = [pc EXCEPT ![c] = "publish"] /\ UNCHANGED <<head, tail, seq, pos, data>>
      /\ val' = [val EXCEPT ![c] = data[Slot(pos[c])]]
  BY DEF SimInv, PopCopy, Goto
<1>1. /\ head \in Nat /\ tail \in Nat /\ val \in [Workers -> Elements]
      /\ pc \in [Workers \cup Observers -> WorkerPC \cup {"size"}]
      /\ Consumers \subseteq Workers /\ Producers \subseteq Workers
      /\ c \notin Producers
  BY <1>0, ThreadAssumption DEF TypeOK, Workers
<1>2. \A t \in tail..(head - 1) : Content(t)' = Content(t)
  BY <1>0, <1>1, SameContent DEF Copying
<1>3. outBar' = outBar
  <2> SUFFICES ASSUME NEW d \in Consumers
               PROVE  (IF pc'[d] = "copy" THEN data'[Slot(pos'[d])] ELSE val'[d])
                        = (IF pc[d] = "copy" THEN data[Slot(pos[d])] ELSE val[d])
    BY DEF outBar, Slot
  <2> QED BY <1>0, <1>1
<1> QED BY <1>1, <1>0, <1>2, <1>3, Invisible

\* What the fifo holds, as a sequence.
LEMMA ItemsAreSequence ==
    ASSUME SimInv
    PROVE  /\ itemsBar \in Seq(Elements)
           /\ Len(itemsBar) = head - tail
           /\ \A i \in 1..(head - tail) : itemsBar[i] = Content(tail + i - 1)
<1>1. /\ head \in Nat /\ tail \in Nat /\ tail <= head
      /\ data \in [Slots -> Elements] /\ val \in [Workers -> Elements]
  BY DEF SimInv, TypeOK, TicketInv, CounterInv
<1>2. ASSUME NEW t \in tail..(head - 1) PROVE Content(t) \in Elements
  <2>1. CASE \E p \in Producers : Copying(p, t)
    <3>1. PICK p \in Producers : Copying(p, t) BY <2>1
    <3>2. Content(t) = val[p] BY <3>1, ContentOfCopier DEF SimInv
    <3> QED BY <3>2, <1>1 DEF Workers
  <2>2. CASE ~\E p \in Producers : Copying(p, t)
    <3>1. t \in Nat BY <1>1
    <3> QED BY <3>1, <2>2, <1>1, SlotInSlots DEF Content
  <2> QED BY <2>1, <2>2
<1>3. head - tail \in Nat BY <1>1
<1>4. itemsBar \in [1..(head - tail) -> Elements]
  <2>1. \A i \in 1..(head - tail) : tail + i - 1 \in tail..(head - 1) BY <1>1
  <2> QED BY <2>1, <1>2 DEF itemsBar
<1> QED BY <1>3, <1>4 DEF itemsBar

\* Winning a producer ticket puts the element at the end of the queue.
LEMMA PushClaimPuts ==
    ASSUME SimInv, SimInv', N >= 2, NEW p \in Producers, PushClaim(p)
    PROVE  Fifo!Put(val[p])
<1>0. /\ TypeOK /\ TicketInv /\ TicketInv' /\ pc[p] = "cas" /\ pos[p] = head
      /\ pc' = [pc EXCEPT ![p] = "copy"] /\ UNCHANGED <<tail, seq, pos, val, data>>
      /\ head' = head + 1
  BY DEF SimInv, PushClaim, Goto
<1>1. /\ head \in Nat /\ tail \in Nat /\ tail <= head /\ head + 1 <= tail + N
      /\ pc \in [Workers \cup Observers -> WorkerPC \cup {"size"}]
      /\ Consumers \subseteq Workers /\ Producers \subseteq Workers
      /\ p \notin Consumers
  BY <1>0, ThreadAssumption DEF TypeOK, TicketInv, CounterInv, Workers
<1>2. \A t \in tail..(head - 1) : Content(t)' = Content(t)
  BY <1>0, <1>1, SameContent DEF Copying
<1>3. \A t : t = head => Content(t)' = val[p]
  <2>1. pc'[p] = "copy" /\ pos'[p] = head /\ val'[p] = val[p] BY <1>0, <1>1
  <2> QED BY <2>1, <1>0, ContentOfCopierNext
<1>4. itemsBar' = Append(itemsBar, val[p])
  <2> DEFINE L == head - tail
  <2>1. /\ itemsBar \in Seq(Elements) /\ Len(itemsBar) = L
        /\ \A i \in 1..L : itemsBar[i] = Content(tail + i - 1)
    BY ItemsAreSequence
  <2>2. L \in Nat /\ head + 1 - tail = L + 1 BY <1>1
  <2>3. itemsBar' = [i \in 1..(L + 1) |-> Content(tail + i - 1)']
    <3>1. head' - tail' = L + 1 BY <1>0, <1>1
    <3> HIDE DEF L
    <3> QED BY <1>0, <3>1 DEF itemsBar
  <2>4. ASSUME NEW i \in 1..(L + 1)
        PROVE  Content(tail + i - 1)' = (IF i <= L THEN itemsBar[i] ELSE val[p])
    <3>1. CASE i <= L
      <4>1. i \in 1..L /\ tail + i - 1 \in tail..(head - 1) BY <3>1, <1>1, <2>2
      <4>2. \A t : t = tail + i - 1 => Content(t)' = Content(t) BY <4>1, <1>2
      <4>3. Content(tail + i - 1)' = Content(tail + i - 1) BY <4>2, <1>0
      <4> QED BY <4>1, <4>3, <2>1, <3>1
    <3>2. CASE ~(i <= L)
      <4>1. tail + i - 1 = head BY <3>2, <1>1, <2>2
      <4>2. Content(tail + i - 1)' = val[p] BY <4>1, <1>0, <1>3
      <4> QED BY <4>2, <3>2
    <3> QED BY <3>1, <3>2
  <2>5. itemsBar' = [i \in 1..(L + 1) |-> IF i <= L THEN itemsBar[i] ELSE val[p]]
    BY <2>3, <2>4
  <2> HIDE DEF L
  <2>6. Append(itemsBar, val[p]) = [i \in 1..(L + 1) |-> IF i <= L THEN itemsBar[i] ELSE val[p]]
    BY <2>1, <2>2
  <2> QED BY <2>5, <2>6
<1>5. outBar' = outBar
  <2>1. \A c \in Consumers : pc'[c] = pc[c] BY <1>0, <1>1
  <2> QED BY <2>1, <1>0 DEF outBar, Slot
<1>6. Len(itemsBar) < N BY <1>1, ItemsAreSequence, CapacityAssumption
<1> QED BY <1>4, <1>5, <1>6 DEF Fifo!Put

\* Winning a consumer ticket takes the element at the front of the queue.
LEMMA PopClaimTakes ==
    ASSUME SimInv, SimInv', N >= 2, NEW c \in Consumers, PopClaim(c)
    PROVE  Fifo!Take(c)
<1>0. /\ TypeOK /\ TicketInv /\ TicketInv' /\ pc[c] = "cas" /\ pos[c] = tail
      /\ pc' = [pc EXCEPT ![c] = "copy"] /\ UNCHANGED <<head, seq, pos, val, data>>
      /\ tail' = tail + 1
  BY DEF SimInv, PopClaim, Goto
<1>1. /\ head \in Nat /\ tail \in Nat /\ tail + 1 <= head
      /\ pc \in [Workers \cup Observers -> WorkerPC \cup {"size"}]
      /\ Consumers \subseteq Workers /\ Producers \subseteq Workers
      /\ c \notin Producers
  BY <1>0, ThreadAssumption DEF TypeOK, TicketInv, CounterInv, Workers
<1>2. \A t \in tail..(head - 1) : Content(t)' = Content(t)
  BY <1>0, <1>1, SameContent DEF Copying
<1> DEFINE L == head - tail
<1>3. /\ itemsBar \in Seq(Elements) /\ Len(itemsBar) = L
      /\ \A i \in 1..L : itemsBar[i] = Content(tail + i - 1)
      /\ L \in Nat /\ L >= 1
  BY <1>1, ItemsAreSequence
<1>4. itemsBar # <<>> /\ Head(itemsBar) = Content(tail)
  <2>1. itemsBar[1] = Content(tail) BY <1>1, <1>3
  <2> QED BY <2>1, <1>3
<1>5. Content(tail) = data[Slot(tail)]
  <2>1. seq[Slot(tail)] >= tail + 1 BY <1>0 DEF TicketInv, ConsumerInv
  <2>2. ~\E p \in Producers : Copying(p, tail)
    BY <2>1, <1>1 DEF TicketInv, ProducerInv, Owns, Copying, SimInv
  <2> QED BY <2>2 DEF Content
<1>6. itemsBar' = Tail(itemsBar)
  <2>1. head - (tail + 1) = L - 1 BY <1>1
  <2>2. itemsBar' = [i \in 1..(L - 1) |-> Content(tail + i - 1)']
    BY <1>0, <2>1 DEF itemsBar
  <2>3. ASSUME NEW i \in 1..(L - 1)
        PROVE  Content(tail + i - 1)' = itemsBar[i + 1]
    <3>1. /\ i + 1 \in 1..L /\ tail + i \in tail..(head - 1)
          /\ (tail + 1) + i - 1 = tail + i /\ tail + (i + 1) - 1 = tail + i
      BY <1>1, <1>3
    <3>2. \A t : t = tail + i => Content(t)' = Content(t) BY <3>1, <1>2
    <3>3. Content(tail + i - 1)' = Content(tail + i)
      BY <3>1, <3>2, <1>0
    <3> QED BY <3>1, <3>3, <1>3
  <2>4. itemsBar' = [i \in 1..(L - 1) |-> itemsBar[i + 1]] BY <2>2, <2>3
  <2> HIDE DEF L
  <2>5. Tail(itemsBar) = [i \in 1..(L - 1) |-> itemsBar[i + 1]]
    <3>1. /\ Tail(itemsBar) \in Seq(Elements) /\ Len(Tail(itemsBar)) = L - 1
          /\ \A i \in 1..(L - 1) : Tail(itemsBar)[i] = itemsBar[i + 1]
      BY <1>3, <1>4, HeadTailProperties
    <3>2. Tail(itemsBar) \in [1..(L - 1) -> Elements] BY <3>1, LenProperties
    <3> QED BY <3>1, <3>2
  <2> QED BY <2>4, <2>5
<1>7. outBar' = [outBar EXCEPT ![c] = Head(itemsBar)]
  <2> SUFFICES ASSUME NEW d \in Consumers
               PROVE  (IF pc'[d] = "copy" THEN data'[Slot(pos'[d])] ELSE val'[d])
                        = IF d = c THEN Head(itemsBar)
                          ELSE IF pc[d] = "copy" THEN data[Slot(pos[d])] ELSE val[d]
    BY DEF outBar, Slot
  <2> QED BY <1>0, <1>1, <1>4, <1>5
<1> QED BY <1>4, <1>6, <1>7 DEF Fifo!Take

\* try_push and try_pop implement a bounded FIFO queue (lines 57-103): the
\* compare-exchanges are the points where an element is accepted and taken.
THEOREM QueueImplementsFifo == N >= 2 => (Spec => ImplementsFifo)
<1> SUFFICES ASSUME N >= 2 PROVE Spec => ImplementsFifo
  OBVIOUS
<1>1. Init => Fifo!Init
  <2> SUFFICES ASSUME Init PROVE itemsBar = <<>> /\ outBar = [c \in Consumers |-> NoValue]
    BY DEF Fifo!Init
  <2>1. itemsBar = <<>> BY DEF Init, itemsBar
  <2>2. outBar = [c \in Consumers |-> NoValue]
    BY DEF Init, outBar, Workers
  <2> QED BY <2>1, <2>2
<1>2. SimInv /\ SimInv' /\ [Next]_vars => [Fifo!Next]_(Fifo!vars)
  <2> SUFFICES ASSUME SimInv, SimInv', [Next]_vars
               PROVE  Fifo!Next \/ UNCHANGED Fifo!vars
    OBVIOUS
  <2>t. /\ pc \in [Workers \cup Observers -> WorkerPC \cup {"size"}]
        /\ pos \in [Workers -> Nat] /\ val \in [Workers -> Elements]
        /\ Producers \subseteq Workers /\ Consumers \subseteq Workers
        /\ head \in Nat /\ tail \in Nat
    BY DEF SimInv, TypeOK, Workers
  <2>p. ASSUME NEW p \in Producers PROVE p \in Workers /\ p \notin Consumers
    BY ThreadAssumption DEF Workers
  <2>1. ASSUME NEW p \in Producers,
               \/ \E v \in Values : PushStart(p, v)
               \/ PushSeesFree(p) \/ PushFull(p) \/ PushSeesTaken(p) \/ PushReload(p)
               \/ PushCasFails(p) \/ PushPublish(p)
        PROVE  UNCHANGED Fifo!vars
    <3>1. /\ UNCHANGED <<head, tail, data>> /\ pc[p] # "copy" /\ pc'[p] # "copy"
          /\ \A v \in Workers : v # p => pc'[v] = pc[v] /\ pos'[v] = pos[v] /\ val'[v] = val[v]
      BY <2>1, <2>t
         DEF PushStart, PushSeesFree, PushFull, PushSeesTaken, PushReload, PushCasFails,
             PushPublish, Goto, LoadCounter
    <3> QED BY <3>1, <2>p, QuietStep
  <2>2. ASSUME NEW c \in Consumers,
               \/ PopStart(c) \/ PopSeesItem(c) \/ PopEmpty(c) \/ PopSeesTaken(c)
               \/ PopReload(c) \/ PopCasFails(c) \/ PopRelease(c)
        PROVE  UNCHANGED Fifo!vars
    <3>1. /\ UNCHANGED <<head, tail, data, val>> /\ pc[c] # "copy" /\ pc'[c] # "copy"
          /\ \A v \in Workers : v # c => pc'[v] = pc[v] /\ pos'[v] = pos[v] /\ val'[v] = val[v]
      BY <2>2, <2>t
         DEF PopStart, PopSeesItem, PopEmpty, PopSeesTaken, PopReload, PopCasFails,
             PopRelease, Goto, LoadCounter
    <3> QED BY <3>1, <2>t, QuietStep
  <2>3. ASSUME NEW p \in Producers, PushClaim(p) PROVE Fifo!Next
    <3>1. val[p] \in Values BY <2>3 DEF SimInv, ArgumentInv, PushClaim, Goto
    <3> QED BY <3>1, <2>3, PushClaimPuts DEF Fifo!Next
  <2>4. ASSUME NEW c \in Consumers, PopClaim(c) PROVE Fifo!Next
    BY <2>4, PopClaimTakes DEF Fifo!Next
  <2>5. ASSUME UNCHANGED <<head, tail, data, pos, val>>,
               \A w \in Workers : pc'[w] = pc[w]
        PROVE  UNCHANGED Fifo!vars
    <3>1. \A t \in tail..(head - 1) : Content(t)' = Content(t)
      BY <2>5, <2>t, SameContent DEF SimInv, Copying
    <3>2. outBar' = outBar BY <2>5, <2>t DEF outBar, Slot
    <3> QED BY <3>1, <3>2, <2>5, <2>t, Invisible
  <2>6. ASSUME NEW o \in Observers, SizeLoadHead(o) \/ SizeLoadTail(o)
        PROVE  UNCHANGED Fifo!vars
    <3>1. \A w \in Workers : pc'[w] = pc[w]
      BY <2>6, <2>t, ThreadAssumption DEF SizeLoadHead, SizeLoadTail, Goto, Workers
    <3> QED BY <3>1, <2>5, <2>6 DEF SizeLoadHead, SizeLoadTail
  <2>7. CASE UNCHANGED vars
    BY <2>5, <2>7 DEF vars
  <2> QED
    BY <2>1, <2>2, <2>3, <2>4, <2>6, <2>7, PushCopyIsInvisible, PopCopyIsInvisible
       DEF Next, PushStep, PopStep
<1>3. Spec => []SimInv
  <2>1. Spec => []TicketInv BY TicketProtocol
  <2> QED BY <2>1, TypeCorrect, ArgumentsAreValues, PTL DEF SimInv
<1> QED BY <1>1, <1>2, <1>3, PTL DEF Spec, ImplementsFifo, Fifo!Spec
=============================================================================
