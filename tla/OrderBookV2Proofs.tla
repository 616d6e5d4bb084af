-------------------------- MODULE OrderBookV2Proofs --------------------------
(***************************************************************************)
(* Proofs about OrderBookV2, for any prices, depths, readers and number of *)
(* updates, and whichever of them rebuild the hot data: a read returns     *)
(* what one rebuild made, and no array is written past its end.            *)
(***************************************************************************)
EXTENDS OrderBookV2, FiniteSetTheorems, WellFoundedInduction, TLAPS

-----------------------------------------------------------------------------
(* Positions in a side *)

Ahead(s, D, x) == {q \in D : Better(s, q, x)}
Best(s, D, n) == {x \in D : Cardinality(Ahead(s, D, x)) < n}

\* Better orders the prices of a side, best first.
LEMMA BetterOrders ==
    ASSUME NEW s \in Sides, NEW p \in Int, NEW q \in Int, NEW x \in Int
    PROVE  /\ Better(s, q, p) /\ (Better(s, p, x) \/ p = x) => Better(s, q, x)
           /\ Better(s, p, q) => ~Better(s, q, p) /\ p # q
           /\ Better(s, p, q) \/ Better(s, q, p) \/ p = q
BY DEF Better

\* What rebuildHotData copies, as a restriction to the best levels.
LEMMA TopIs ==
    ASSUME NEW s, NEW levels, NEW n
    PROVE  Top(s, levels, n) = [x \in Best(s, DOMAIN levels, n) |-> levels[x]]
<1>1. DOMAIN levels \cap {p \in DOMAIN levels : Position(s, levels, p) < n}
        = Best(s, DOMAIN levels, n)
  BY DEF Position, Best, Ahead
<1> QED BY <1>1 DEF Top, Keep

\* Position counts a finite set.
LEMMA AheadCount ==
    ASSUME NEW s, NEW D, IsFiniteSet(D), NEW x
    PROVE  IsFiniteSet(Ahead(s, D, x)) /\ Cardinality(Ahead(s, D, x)) \in Nat
BY FS_Subset, FS_CardinalityType DEF Ahead

-----------------------------------------------------------------------------
(* What an update leaves *)

IsLevels(levels) == DOMAIN levels \subseteq Prices /\ IsFiniteSet(DOMAIN levels)

\* update, of one side.
NewLevels(s, levels, p, q) == IF q = 0 THEN Remove(levels, p) ELSE Insert(s, levels, p, q)

\* update keeps a side a finite map from prices.
LEMMA NewIsLevels ==
    ASSUME NEW s \in Sides, NEW levels, IsLevels(levels), NEW p \in Prices, NEW q \in Quantities
    PROVE  IsLevels(NewLevels(s, levels, p, q))
<1> DEFINE D == DOMAIN levels
           wide == [x \in D \cup {p} |-> IF x = p THEN q ELSE levels[x]]
<1>1. CASE q = 0
  <2>1. NewLevels(s, levels, p, q) = [x \in D \cap (D \ {p}) |-> levels[x]]
    BY <1>1 DEF NewLevels, Remove, Keep
  <2>2. IsFiniteSet(D \cap (D \ {p})) BY FS_Subset DEF IsLevels
  <2> QED BY <2>1, <2>2 DEF IsLevels
<1>2. CASE q # 0
  <2>1. NewLevels(s, levels, p, q) = [x \in Best(s, D \cup {p}, MaxDepth) |-> wide[x]]
    <3>1. NewLevels(s, levels, p, q) = Top(s, wide, MaxDepth) BY <1>2 DEF NewLevels, Insert
    <3>2. DOMAIN wide = D \cup {p} OBVIOUS
    <3> HIDE DEF wide
    <3> QED BY <3>1, <3>2, TopIs
  <2>2. IsFiniteSet(D \cup {p}) BY FS_AddElement DEF IsLevels
  <2>3. Best(s, D \cup {p}, MaxDepth) \in SUBSET (D \cup {p}) BY DEF Best
  <2>4. IsFiniteSet(Best(s, D \cup {p}, MaxDepth)) BY <2>2, <2>3, FS_Subset
  <2> QED BY <2>1, <2>3, <2>4 DEF IsLevels
<1> QED BY <1>1, <1>2

-----------------------------------------------------------------------------
(* The writer *)

Shapes ==
    /\ light \in 0..1 /\ version \in Nat
    /\ wpc \in {"idle", "odd", "copy", "swap"} /\ wtodo \subseteq Sides
    /\ DOMAIN cold = 0..1
    /\ \A b \in 0..1 : DOMAIN cold[b] = Sides /\ \A s \in Sides : IsLevels(cold[b][s])
    /\ hot = [s \in Sides |-> hot[s]]

\* Outside the copy the hot data are those of the last rebuild; inside it, a side
\* that is done is that of the book to come, and the version is odd.
HotInv == /\ wpc # "copy" => hot = rebuilt
          /\ wpc = "copy" => \A s \in Sides \ wtodo : hot[s] = Top(s, cold[Dark][s], HotDepth)
          /\ version % 2 = 0 <=> wpc # "copy"

BookInv == Shapes /\ HotInv

\* A cleared side is a finite map from prices.
LEMMA EmptyBook == DOMAIN Empty = Sides /\ \A s \in Sides : IsLevels(Empty[s])
<1>1. ASSUME NEW s \in Sides PROVE IsLevels(Empty[s])
  <2>1. Empty[s] = << >> BY DEF Empty
  <2>2. DOMAIN << >> = {} OBVIOUS
  <2> QED BY <2>1, <2>2, FS_EmptySet DEF IsLevels
<1> QED BY <1>1 DEF Empty

\* The book begins empty.
LEMMA BookInit == Init => BookInv
<1> SUFFICES ASSUME Init PROVE BookInv OBVIOUS
<1>1. /\ wpc = "idle" /\ light = 0 /\ hot = Empty /\ version = 0 /\ wtodo = {}
      /\ cold = [b \in 0..1 |-> Empty] /\ rebuilt = Empty
  BY DEF Init
<1>2. Shapes BY <1>1, EmptyBook DEF Shapes, Empty
<1> QED BY <1>1, <1>2 DEF BookInv, HotInv

\* Whatever levels are written into the dark buffer, with or without a rebuild.
LEMMA WrittenKeepsBook ==
    ASSUME BookInv, NEW buffer, Written(buffer),
           DOMAIN buffer = Sides, \A s \in Sides : IsLevels(buffer[s])
    PROVE  BookInv'
<1>1. /\ wpc = "idle" /\ wpc' \in {"odd", "swap"} /\ cold' = [cold EXCEPT ![Dark] = buffer]
      /\ UNCHANGED <<light, hot, version, wtodo, rebuilt>>
  BY DEF Written
<1>2. /\ light \in 0..1 /\ Dark \in 0..1 /\ light # Dark
      /\ \A b \in 0..1 : b = light \/ b = Dark
  BY DEF BookInv, Shapes, Dark
<1>3. cold'[light] = cold[light] /\ cold'[Dark] = buffer /\ DOMAIN cold' = 0..1
  BY <1>1, <1>2 DEF BookInv, Shapes
<1>4. Shapes' BY <1>1, <1>2, <1>3 DEF BookInv, Shapes
<1> QED BY <1>1, <1>4 DEF BookInv, HotInv

\* update: one side of the light buffer's book becomes another one.
LEMMA UpdateWrites ==
    ASSUME BookInv, NEW s \in Sides, NEW p \in Prices, NEW q \in Quantities, UpdateLevels(s, p, q)
    PROVE  LET next == [cold[light] EXCEPT ![s] = NewLevels(s, cold[light][s], p, q)]
           IN  /\ Written(next)
               /\ DOMAIN next = Sides /\ \A t \in Sides : IsLevels(next[t])
<1> DEFINE new == NewLevels(s, cold[light][s], p, q)
<1>1. Written([cold[light] EXCEPT ![s] = new]) BY DEF UpdateLevels, NewLevels
<1>2. light \in 0..1 /\ DOMAIN cold[light] = Sides /\ \A t \in Sides : IsLevels(cold[light][t])
  BY DEF BookInv, Shapes
<1>3. IsLevels(new) BY <1>2, NewIsLevels
<1> HIDE DEF new
<1>4. \A t \in Sides : IsLevels([cold[light] EXCEPT ![s] = new][t]) BY <1>2, <1>3
<1> QED BY <1>1, <1>2, <1>4 DEF new

\* rebuildHotData and swapColdBuffers.
LEMMA FinishKeepsBook == ASSUME BookInv, Finish PROVE BookInv'
<1> USE DEF BookInv, Shapes, HotInv
<1>1. light \in 0..1 /\ Dark \in 0..1 /\ 1 - Dark = light BY DEF Dark
<1>2. CASE StoreOdd BY <1>2 DEF StoreOdd, Dark
<1>3. ASSUME NEW s \in Sides, CopySide(s) PROVE BookInv' BY <1>3 DEF CopySide, Dark
<1>4. CASE StoreEven
  <2>1. /\ wpc = "copy" /\ wtodo = {} /\ wpc' = "swap" /\ version' = version + 1
        /\ rebuilt' = HotOf(cold[Dark]) /\ UNCHANGED <<cold, light, hot, wtodo>>
    BY <1>4 DEF StoreEven
  <2>2. hot = HotOf(cold[Dark]) BY <2>1 DEF HotOf
  <2> QED BY <2>1, <2>2
<1>5. CASE SwapColdBuffers BY <1>1, <1>5 DEF SwapColdBuffers
<1> QED BY <1>2, <1>3, <1>4, <1>5 DEF Finish

-----------------------------------------------------------------------------
(* The readers *)

ReaderShapes ==
    /\ rpc \in [Readers -> {"idle", "load", "read", "return"}]
    /\ before \in [Readers -> Nat] /\ rtodo \in [Readers -> SUBSET Sides]
    /\ DOMAIN got = Readers /\ DOMAIN since = Readers
    /\ \A r \in Readers : got[r] = [s \in Sides |-> got[r][s]]

\* While the version a read began with is still there nothing was written; the
\* rebuilds it may return are those since it began, the last one included.
ReaderInv(r) ==
    /\ rpc[r] # "idle" /\ wpc # "copy" => hot \in since[r]
    /\ rpc[r] = "read" => before[r] <= version /\ before[r] % 2 = 0
    /\ rpc[r] = "read" /\ before[r] = version => \A s \in Sides \ rtodo[r] : got[r][s] = hot[s]
    /\ rpc[r] = "return" => got[r] \in since[r]

ReadersInv == ReaderShapes /\ \A r \in Readers : ReaderInv(r)

\* What a step of the writer must respect.
LEMMA WriterKeepsReads ==
    ASSUME BookInv, BookInv', ReadersInv, UNCHANGED reader,
           \/ version' = version /\ hot' = hot
           \/ version' = version /\ version % 2 = 1
           \/ version' = version + 1 /\ hot' = hot,
           DOMAIN since' = Readers, \A r \in Readers : since[r] \subseteq since'[r],
           wpc = "copy" /\ wpc' # "copy" =>
               \A r \in Readers : rpc[r] # "idle" => hot' \in since'[r],
           wpc # "copy" => hot' = hot
    PROVE  ReadersInv'
<1>1. UNCHANGED <<rpc, before, rtodo, got>> BY DEF reader
<1>2. ReaderShapes' BY <1>1 DEF ReadersInv, ReaderShapes
<1>3. SUFFICES ASSUME NEW r \in Readers PROVE ReaderInv(r)' BY <1>2 DEF ReadersInv
<1>4. ReaderInv(r) BY DEF ReadersInv
<1>5. /\ version \in Nat /\ before[r] \in Nat
  BY DEF BookInv, Shapes, ReadersInv, ReaderShapes
<1>6. rpc'[r] # "idle" /\ wpc' # "copy" => hot' \in since'[r]
  <2>1. CASE wpc = "copy" BY <1>1, <2>1
  <2>2. CASE wpc # "copy" BY <1>1, <1>4, <2>2 DEF ReaderInv
  <2> QED BY <2>1, <2>2
<1>7. rpc'[r] = "read" => before'[r] <= version' /\ before'[r] % 2 = 0
  BY <1>1, <1>4, <1>5 DEF ReaderInv
<1>8. rpc'[r] = "read" /\ before'[r] = version' => \A s \in Sides \ rtodo'[r] : got'[r][s] = hot'[s]
  <2> SUFFICES ASSUME rpc[r] = "read", before[r] = version' PROVE version' = version /\ hot' = hot
    BY <1>1, <1>4 DEF ReaderInv
  <2>1. before[r] <= version /\ before[r] % 2 = 0 BY <1>4 DEF ReaderInv
  <2> QED BY <1>5, <2>1
<1>9. rpc'[r] = "return" => got'[r] \in since'[r] BY <1>1, <1>4 DEF ReaderInv
<1> QED BY <1>6, <1>7, <1>8, <1>9 DEF ReaderInv

\* Every step of the writer respects it.
LEMMA WriterKeepsReaders ==
    ASSUME BookInv, BookInv', ReadersInv,
           \/ \E s \in Sides, p \in Prices, q \in Quantities : UpdateLevels(s, p, q)
           \/ Clear \/ Finish
    PROVE  ReadersInv'
<1>1. DOMAIN since = Readers BY DEF ReadersInv, ReaderShapes
<1>2. CASE \E s \in Sides, p \in Prices, q \in Quantities : UpdateLevels(s, p, q)
  <2>1. wpc = "idle" /\ UNCHANGED <<reader, since, version, hot>>
    BY <1>2 DEF UpdateLevels, Written
  <2> QED BY <1>1, <2>1, WriterKeepsReads
<1>3. CASE Clear BY <1>1, <1>3, WriterKeepsReads DEF Clear, Written
<1>4. CASE StoreOdd BY <1>1, <1>4, WriterKeepsReads DEF StoreOdd
<1>5. CASE SwapColdBuffers BY <1>1, <1>5, WriterKeepsReads DEF SwapColdBuffers
<1>6. CASE \E s \in Sides : CopySide(s)
  <2>1. wpc = "copy" /\ wpc' = "copy" /\ UNCHANGED <<reader, since, version>>
    BY <1>6 DEF CopySide
  <2>2. version % 2 = 1 BY <2>1 DEF BookInv, HotInv, Shapes
  <2> QED BY <1>1, <2>1, <2>2, WriterKeepsReads
<1>7. CASE StoreEven
  <2>1. /\ wpc = "copy" /\ wpc' = "swap" /\ version' = version + 1 /\ hot' = hot
        /\ UNCHANGED reader /\ since' = Seen
    BY <1>7 DEF StoreEven
  <2>2. rebuilt' = hot' BY <2>1 DEF BookInv, HotInv
  <2>3. DOMAIN since' = Readers /\ \A r \in Readers :
          since[r] \subseteq since'[r] /\ (rpc[r] # "idle" => hot' \in since'[r])
    BY <2>1, <2>2 DEF Seen
  <2> QED BY <2>1, <2>3, WriterKeepsReads
<1> QED BY <1>2, <1>3, <1>4, <1>5, <1>6, <1>7 DEF Finish

\* The steps of readHotDataOptimistic, of one reader among the others.
LEMMA ReaderKeepsReaders ==
    ASSUME BookInv, ReadersInv, NEW r \in Readers, ReadStart(r) \/ ReadStep(r)
    PROVE  ReadersInv' /\ UNCHANGED writer
<1> USE DEF ReadersInv, ReaderShapes
<1>0. UNCHANGED writer
  BY DEF ReadStart, ReadStep, LoadBefore, ReadSide, LoadAfter, Return
<1>1. UNCHANGED <<hot, version, wpc>> BY <1>0 DEF writer
<1>2. ReaderInv(r) OBVIOUS
<1>3. \A q \in Readers \ {r} : UNCHANGED <<rpc[q], before[q], rtodo[q], got[q], since[q]>>
  BY DEF ReadStart, ReadStep, LoadBefore, ReadSide, LoadAfter, Return
<1>4. \A q \in Readers \ {r} : ReaderInv(q)' BY <1>1, <1>3 DEF ReaderInv
<1>5. ReaderShapes'
  <2>1. CASE ReadStart(r) BY <2>1 DEF ReadStart
  <2>2. CASE LoadBefore(r) BY <2>2 DEF LoadBefore, BookInv, Shapes
  <2>3. ASSUME NEW s \in Sides, ReadSide(r, s) PROVE ReaderShapes' BY <2>3 DEF ReadSide
  <2>4. CASE LoadAfter(r) BY <2>4 DEF LoadAfter
  <2>5. CASE Return(r) BY <2>5 DEF Return, Empty
  <2> QED BY <2>1, <2>2, <2>3, <2>4, <2>5 DEF ReadStep
<1>6. ReaderInv(r)'
  <2>1. CASE ReadStart(r)
    <3>1. rpc'[r] = "load" /\ since'[r] = {rebuilt} BY <2>1 DEF ReadStart
    <3>2. wpc # "copy" => hot = rebuilt BY DEF BookInv, HotInv
    <3> QED BY <1>1, <3>1, <3>2 DEF ReaderInv
  <2>2. CASE LoadBefore(r)
    <3>1. /\ rpc[r] = "load" /\ rpc'[r] = "read" /\ before'[r] = version /\ version % 2 = 0
          /\ rtodo'[r] = Sides /\ since' = since
      BY <2>2 DEF LoadBefore
    <3> QED BY <1>1, <1>2, <3>1 DEF ReaderInv, BookInv, Shapes
  <2>3. ASSUME NEW s \in Sides, ReadSide(r, s) PROVE ReaderInv(r)'
    <3>1. /\ rpc[r] = "read" /\ got'[r] = [got[r] EXCEPT ![s] = hot[s]]
          /\ rtodo'[r] = rtodo[r] \ {s} /\ UNCHANGED <<rpc, before, since>>
      BY <2>3 DEF ReadSide
    <3>2. got'[r][s] = hot[s] /\ \A t \in Sides \ {s} : got'[r][t] = got[r][t]
      BY <3>1
    <3> QED BY <1>1, <1>2, <3>1, <3>2 DEF ReaderInv
  <2>4. CASE LoadAfter(r)
    <3>1. /\ rpc[r] = "read" /\ rtodo[r] = {} /\ UNCHANGED <<before, rtodo, got, since>>
          /\ rpc'[r] = IF version = before[r] THEN "return" ELSE "load"
      BY <2>4 DEF LoadAfter
    <3>2. CASE version = before[r]
      <4>1. \A s \in Sides : got[r][s] = hot[s] BY <1>2, <3>1, <3>2 DEF ReaderInv
      <4>2. got[r] = hot BY <4>1 DEF BookInv, Shapes
      <4>3. wpc # "copy" BY <1>2, <3>1, <3>2 DEF ReaderInv, BookInv, HotInv
      <4> QED BY <1>1, <1>2, <3>1, <3>2, <4>2, <4>3 DEF ReaderInv
    <3>3. CASE version # before[r] BY <1>1, <1>2, <3>1, <3>3 DEF ReaderInv
    <3> QED BY <3>2, <3>3
  <2>5. CASE Return(r)
    <3>1. rpc'[r] = "idle" BY <2>5 DEF Return
    <3> QED BY <3>1 DEF ReaderInv
  <2> QED BY <2>1, <2>2, <2>3, <2>4, <2>5 DEF ReadStep
<1> QED BY <1>0, <1>4, <1>5, <1>6

-----------------------------------------------------------------------------
(* Theorems *)

\* The invariant of the writer and the readers.
LEMMA BookStaysConsistent == Spec => [](BookInv /\ ReadersInv)
<1>1. Init => BookInv /\ ReadersInv
  <2>1. Init => ReadersInv BY DEF Init, ReadersInv, ReaderShapes, ReaderInv, Empty
  <2> QED BY <2>1, BookInit
<1>2. BookInv /\ ReadersInv /\ [Next]_vars => (BookInv /\ ReadersInv)'
  <2> SUFFICES ASSUME BookInv, ReadersInv, [Next]_vars PROVE BookInv' /\ ReadersInv'
    OBVIOUS
  <2>1. ASSUME UNCHANGED writer PROVE BookInv'
    BY <2>1 DEF writer, BookInv, Shapes, HotInv, Dark
  <2>2. CASE UNCHANGED vars
    BY <2>1, <2>2 DEF vars, writer, reader, ReadersInv, ReaderShapes, ReaderInv
  <2>3. CASE Quiet BY <2>2, <2>3 DEF Quiet
  <2>4. ASSUME NEW r \in Readers, ReadStart(r) \/ ReadStep(r) PROVE BookInv' /\ ReadersInv'
    BY <2>1, <2>4, ReaderKeepsReaders
  <2>5. CASE \/ \E s \in Sides, p \in Prices, q \in Quantities : UpdateLevels(s, p, q)
             \/ Clear \/ Finish
    <3>1. ASSUME NEW s \in Sides, NEW p \in Prices, NEW q \in Quantities, UpdateLevels(s, p, q)
          PROVE  BookInv'
      BY <3>1, UpdateWrites, WrittenKeepsBook
    <3>2. Clear => BookInv' BY EmptyBook, WrittenKeepsBook DEF Clear
    <3>3. BookInv' BY <2>5, <3>1, <3>2, FinishKeepsBook
    <3> QED BY <2>5, <3>3, WriterKeepsReaders
  <2> QED BY <2>2, <2>3, <2>4, <2>5 DEF Next
<1> QED BY <1>1, <1>2, PTL DEF Spec

\* "read was consistent" (line 226): without reordering, a read that passes the
\* version test returns both sides as one rebuild made them, and that rebuild was
\* the last complete one at some moment of the read.
THEOREM ReadsAreConsistent == Spec => []ReturnedIsOneRebuild
<1>1. ReadersInv => ReturnedIsOneRebuild BY DEF ReadersInv, ReaderInv, ReturnedIsOneRebuild
<1> QED BY <1>1, BookStaysConsistent, PTL

-----------------------------------------------------------------------------
(* The sizes of the arrays *)

\* Every set of numbers has a least one.
LEMMA Least ==
    ASSUME NEW S, S \subseteq Nat, S # {}
    PROVE  \E m \in S : \A n \in S : m <= n
<1> DEFINE R == OpToRel(<, Nat)
<1>1. IsWellFoundedOn(R, Nat) BY NatLessThanWellFounded
<1>2. \A m, n \in Nat : m < n => <<m, n>> \in R BY DEF OpToRel
<1> HIDE DEF R
<1>3. PICK m \in S : \A n \in S : ~(<<n, m>> \in R) BY <1>1, WFMin
<1>4. \A n \in S : ~(n < m) BY <1>2, <1>3
<1> QED BY <1>3, <1>4

\* Of a worse price, one more level is ahead: the better price itself.
LEMMA OneMoreAhead ==
    ASSUME NEW s \in Sides, NEW D \in SUBSET Int, IsFiniteSet(D), NEW p \in D, NEW x \in D,
           Better(s, p, x)
    PROVE  Cardinality(Ahead(s, D, p)) < Cardinality(Ahead(s, D, x))
<1>1. IsFiniteSet(Ahead(s, D, p)) /\ Cardinality(Ahead(s, D, p)) \in Nat
      /\ IsFiniteSet(Ahead(s, D, x)) /\ Cardinality(Ahead(s, D, x)) \in Nat
  BY AheadCount
<1>2. p \notin Ahead(s, D, p)
  <2>1. p \in Int BY DEF Sides
  <2> QED BY <2>1 DEF Ahead, Better
<1>3. Ahead(s, D, p) \cup {p} \subseteq Ahead(s, D, x)
  <2>1. ASSUME NEW q \in Ahead(s, D, p) PROVE q \in Ahead(s, D, x)
    <3>1. q \in D /\ q \in Int /\ p \in Int /\ x \in Int /\ Better(s, q, p) BY DEF Ahead
    <3>2. Better(s, q, x) BY <3>1, BetterOrders
    <3> QED BY <3>1, <3>2 DEF Ahead
  <2> QED BY <2>1 DEF Ahead
<1>4. Cardinality(Ahead(s, D, p) \cup {p}) = Cardinality(Ahead(s, D, p)) + 1
      /\ IsFiniteSet(Ahead(s, D, p) \cup {p})
  BY <1>1, <1>2, FS_AddElement
<1>5. Cardinality(Ahead(s, D, p) \cup {p}) <= Cardinality(Ahead(s, D, x)) BY <1>1, <1>3, FS_Subset
<1> QED BY <1>1, <1>4, <1>5

\* At most n levels have fewer than n ahead of them.
LEMMA BestAreFew ==
    ASSUME NEW s \in Sides, NEW D \in SUBSET Int, IsFiniteSet(D), NEW n \in Nat
    PROVE  Cardinality(Best(s, D, n)) <= n
<1> DEFINE B == Best(s, D, n)
           C(x) == Cardinality(Ahead(s, D, x))
<1>1. /\ B \subseteq D /\ B \subseteq Int /\ IsFiniteSet(B)
      /\ \A x \in B : C(x) < n
      /\ \A x \in D : C(x) \in Nat
  <2>1. B \in SUBSET D /\ \A x \in B : C(x) < n BY DEF Best
  <2> QED BY <2>1, FS_Subset, AheadCount
<1>2. CASE B = {}
  <2>1. Cardinality(B) = 0 BY <1>2, FS_EmptySet
  <2> QED BY <2>1
<1>3. CASE B # {}
  <2> DEFINE K == {n - C(x) : x \in B}
  <2>1. K \subseteq Nat /\ K # {}
    <3>1. \A x \in B : n - C(x) \in Nat BY <1>1
    <3> QED BY <1>3, <3>1
  <2> HIDE DEF C
  <2>2. PICK w \in B : \A x \in B : n - C(w) <= n - C(x)
    <3>1. \E m \in K : \A k \in K : m <= k
      <4> HIDE DEF K
      <4> QED BY <2>1, Least
    <3> QED BY <3>1
  <2>3. \A x \in B : C(x) <= C(w) BY <1>1, <2>2
  <2>4. ASSUME NEW x \in B \ {w} PROVE x \in Ahead(s, D, w)
    <3>1. x \in D /\ w \in D /\ x \in Int /\ w \in Int BY <1>1
    <3>2. ~Better(s, w, x)
      <4>1. Better(s, w, x) => C(w) < C(x) BY <3>1, OneMoreAhead DEF C
      <4> QED BY <1>1, <2>3, <4>1
    <3>3. Better(s, x, w) BY <3>1, <3>2, BetterOrders
    <3> QED BY <3>1, <3>3 DEF Ahead
  <2>5. /\ IsFiniteSet(B \ {w}) /\ Cardinality(B \ {w}) = Cardinality(B) - 1
        /\ Cardinality(B) \in Nat
    <3>1. IsFiniteSet(B) BY <1>1
    <3> HIDE DEF B
    <3> QED BY <2>2, <3>1, FS_RemoveElement, FS_CardinalityType
  <2>6. IsFiniteSet(Ahead(s, D, w)) BY AheadCount
  <2>7. Cardinality(B \ {w}) <= C(w)
    <3> HIDE DEF B
    <3>1. B \ {w} \in SUBSET Ahead(s, D, w) BY <2>4
    <3> QED BY <2>6, <3>1, FS_Subset DEF C
  <2>8. C(w) \in Nat /\ C(w) < n BY <1>1
  <2> HIDE DEF B
  <2>9. Cardinality(B) <= n BY <2>5, <2>7, <2>8
  <2> QED BY <2>9 DEF B
<1> QED BY <1>2, <1>3

\* What is copied or kept fits its array.
LEMMA TopFits ==
    ASSUME NEW s \in Sides, NEW levels, IsLevels(levels), NEW n \in Nat
    PROVE  Fits(Top(s, levels, n), n)
<1> DEFINE D == DOMAIN levels
<1>1. D \in SUBSET Int /\ D \subseteq Prices /\ IsFiniteSet(D) BY BookAssumption DEF IsLevels
<1> HIDE DEF D
<1>2. Cardinality(Best(s, D, n)) <= n /\ Best(s, D, n) \subseteq Prices
  BY <1>1, BestAreFew DEF Best
<1>3. Top(s, levels, n) = [x \in Best(s, D, n) |-> levels[x]] BY TopIs DEF D
<1>4. DOMAIN Top(s, levels, n) = Best(s, D, n) BY <1>3
<1> QED BY <1>2, <1>4 DEF Fits

\* insert drops the level that finds no place, remove only takes one away.
LEMMA NewLevelsFit ==
    ASSUME NEW s \in Sides, NEW levels, IsLevels(levels), Fits(levels, MaxDepth),
           NEW p \in Prices, NEW q \in Quantities
    PROVE  Fits(NewLevels(s, levels, p, q), MaxDepth)
<1> DEFINE D == DOMAIN levels
           wide == [x \in D \cup {p} |-> IF x = p THEN q ELSE levels[x]]
<1>1. CASE q = 0
  <2>1. DOMAIN NewLevels(s, levels, p, q) = D \cap (D \ {p})
    BY <1>1 DEF NewLevels, Remove, Keep
  <2>2. IsFiniteSet(D) /\ Cardinality(D) <= MaxDepth /\ D \subseteq Prices /\ Cardinality(D) \in Nat
    BY FS_CardinalityType DEF IsLevels, Fits
  <2>3. /\ Cardinality(D \cap (D \ {p})) <= Cardinality(D)
        /\ Cardinality(D \cap (D \ {p})) \in Nat
    <3>1. D \cap (D \ {p}) \in SUBSET D OBVIOUS
    <3> QED BY <2>2, <3>1, FS_Subset, FS_CardinalityType
  <2>4. MaxDepth \in Nat BY BookAssumption
  <2>5. Cardinality(D \cap (D \ {p})) <= MaxDepth BY <2>2, <2>3, <2>4
  <2> QED BY <2>1, <2>2, <2>5 DEF Fits
<1>2. CASE q # 0
  <2>1. NewLevels(s, levels, p, q) = Top(s, wide, MaxDepth) BY <1>2 DEF NewLevels, Insert
  <2>2. IsLevels(wide)
    <3>1. DOMAIN wide = D \cup {p} OBVIOUS
    <3> QED BY <3>1, FS_AddElement DEF IsLevels
  <2>3. MaxDepth \in Nat BY BookAssumption
  <2> HIDE DEF wide
  <2> QED BY <2>1, <2>2, <2>3, TopFits
<1> QED BY <1>1, <1>2

SizesInv == /\ \A b \in 0..1, s \in Sides : Fits(cold[b][s], MaxDepth)
            /\ \A s \in Sides : Fits(hot[s], HotDepth)
            /\ updates \in 0..UpdateBound

\* An empty side fits everywhere.
LEMMA EmptyFits == \A s \in Sides, n \in Nat : Fits(Empty[s], n)
<1>1. \A s \in Sides : DOMAIN Empty[s] = {} BY DEF Empty
<1> QED BY <1>1, FS_EmptySet DEF Fits

\* Only the writer's steps change what is in the arrays.
LEMMA SizesStep ==
    ASSUME BookInv, SizesInv, [Next]_vars
    PROVE  SizesInv'
<1>1. CASE UNCHANGED <<cold, hot, updates>> BY <1>1 DEF SizesInv
<1>2. /\ light \in 0..1 /\ Dark \in 0..1 /\ light # Dark /\ UpdateBound \in Nat
      /\ MaxDepth \in Nat /\ HotDepth \in Nat /\ DOMAIN cold = 0..1
      /\ \A b \in 0..1 : b = light \/ b = Dark
  BY BookAssumption DEF BookInv, Shapes, Dark
<1>3. ASSUME NEW next, cold' = [cold EXCEPT ![Dark] = next],
             \A s \in Sides : Fits(next[s], MaxDepth),
             hot' = hot, updates < UpdateBound, updates' = updates + 1
      PROVE  SizesInv'
  <2>1. cold'[Dark] = next /\ cold'[light] = cold[light] BY <1>2, <1>3
  <2>2. ASSUME NEW b \in 0..1, NEW s \in Sides PROVE Fits(cold'[b][s], MaxDepth)
    <3>1. CASE b = Dark BY <1>3, <2>1, <3>1
    <3>2. CASE b = light BY <1>2, <2>1, <3>2 DEF SizesInv
    <3> QED BY <1>2, <3>1, <3>2
  <2>3. updates' \in 0..UpdateBound BY <1>2, <1>3 DEF SizesInv
  <2> QED BY <1>3, <2>2, <2>3 DEF SizesInv
<1>4. ASSUME NEW s \in Sides, NEW p \in Prices, NEW q \in Quantities, UpdateLevels(s, p, q)
      PROVE  SizesInv'
  <2> DEFINE new == NewLevels(s, cold[light][s], p, q)
             next == [cold[light] EXCEPT ![s] = new]
  <2>1. /\ cold' = [cold EXCEPT ![Dark] = next] /\ hot' = hot
        /\ updates < UpdateBound /\ updates' = updates + 1
    BY <1>4, UpdateWrites DEF Written
  <2>2. Fits(new, MaxDepth)
    <3>1. IsLevels(cold[light][s]) /\ Fits(cold[light][s], MaxDepth)
      BY <1>2 DEF BookInv, Shapes, SizesInv
    <3> QED BY <3>1, NewLevelsFit
  <2>3. \A t \in Sides : Fits(cold[light][t], MaxDepth) BY <1>2 DEF SizesInv
  <2>4. DOMAIN cold[light] = Sides BY <1>2 DEF BookInv, Shapes
  <2> HIDE DEF new
  <2>5. \A t \in Sides : Fits(next[t], MaxDepth) BY <2>2, <2>3, <2>4
  <2> HIDE DEF next
  <2> QED BY <1>3, <2>1, <2>5
<1>5. CASE Clear
  <2>1. /\ cold' = [cold EXCEPT ![Dark] = Empty] /\ hot' = hot
        /\ updates < UpdateBound /\ updates' = updates + 1
    BY <1>5 DEF Clear, Written
  <2> QED BY <1>2, <1>3, <2>1, EmptyFits
<1>6. ASSUME NEW s \in Sides, CopySide(s) PROVE SizesInv'
  <2>1. UNCHANGED <<cold, updates>> /\ hot' = [hot EXCEPT ![s] = Top(s, cold[Dark][s], HotDepth)]
    BY <1>6 DEF CopySide
  <2>2. Fits(Top(s, cold[Dark][s], HotDepth), HotDepth)
    <3>1. IsLevels(cold[Dark][s]) BY <1>2 DEF BookInv, Shapes
    <3> QED BY <1>2, <3>1, TopFits
  <2>3. DOMAIN hot = Sides BY DEF BookInv, Shapes
  <2>4. \A t \in Sides : Fits(hot'[t], HotDepth) BY <2>1, <2>2, <2>3 DEF SizesInv
  <2> QED BY <2>1, <2>4 DEF SizesInv
<1> QED BY <1>1, <1>4, <1>5, <1>6
       DEF Next, Finish, StoreOdd, StoreEven, SwapColdBuffers, ReadStart, ReadStep, LoadBefore,
           ReadSide, LoadAfter, Return, Quiet, vars, writer

\* Lines 87-92 and 138-142: with any number of levels, none is written past the
\* end of an array, neither MAX_DEPTH cold levels nor HOT_DEPTH hot ones.
THEOREM ArraysHold == Spec => []TypeOK
<1>1. Init => SizesInv
  <2>1. UpdateBound \in Nat /\ MaxDepth \in Nat /\ HotDepth \in Nat BY BookAssumption
  <2> QED BY <2>1, EmptyFits DEF Init, SizesInv
<1>2. BookInv /\ SizesInv /\ [Next]_vars => SizesInv' BY SizesStep
<1>3. BookInv /\ ReadersInv /\ SizesInv => TypeOK
  BY DEF BookInv, Shapes, ReadersInv, ReaderShapes, SizesInv, TypeOK
<1> QED BY <1>1, <1>2, <1>3, BookStaysConsistent, PTL DEF Spec
=============================================================================
