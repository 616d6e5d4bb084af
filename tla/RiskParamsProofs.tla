--------------------------- MODULE RiskParamsProofs ---------------------------
(***************************************************************************)
(* Proofs about RiskParams for any set of parameters, any number of        *)
(* readers, any MAX_RETRIES and any number of updates.  What depends on    *)
(* the order of plain and version accesses is proved for builds that keep  *)
(* it (~WeakMemory).                                                       *)
(***************************************************************************)
EXTENDS RiskParams, TLAPS

-----------------------------------------------------------------------------
(* Type correctness *)

\* The update path keeps the types: write_idx_ stays an index of the two
\* buffers, the version a counter.
LEMMA PublishKeepsTypes ==
    ASSUME TypeOK, Publish
    PROVE  TypeOK'
<1> USE DEF TypeOK, Params, Buffers, WriterPC
<1>1. UNCHANGED <<reader, coldReader>>
  BY DEF Publish, UpdateParameters, BuildHot, BuildDone, StoreOdd, CopyHot, StoreEven,
         SwapPointer, SyncDark
<1>2. /\ rpc \in [Readers -> ReaderPC] /\ UNCHANGED <<rpc, v1, retry, rtodo, got, snap>>
      /\ UNCHANGED <<cptr, ctodo, cgot>>
  BY <1>1 DEF reader, coldReader
<1>3. CASE UpdateParameters BY <1>2, <1>3 DEF UpdateParameters
<1>4. ASSUME NEW f \in Fields, BuildHot(f) PROVE TypeOK' BY <1>2, <1>4 DEF BuildHot
<1>5. CASE BuildDone BY <1>2, <1>5 DEF BuildDone
<1>6. CASE StoreOdd BY <1>2, <1>6 DEF StoreOdd
<1>7. ASSUME NEW f \in Fields, CopyHot(f) PROVE TypeOK' BY <1>2, <1>7 DEF CopyHot
<1>8. CASE StoreEven BY <1>2, <1>8 DEF StoreEven
<1>9. CASE SwapPointer BY <1>2, <1>9 DEF SwapPointer
<1>10. ASSUME NEW f \in Fields, SyncDark(f) PROVE TypeOK' BY <1>2, <1>10 DEF SyncDark
<1> QED BY <1>3, <1>4, <1>5, <1>6, <1>7, <1>8, <1>9, <1>10 DEF Publish

\* A read in progress keeps the types.
LEMMA ReadKeepsTypes ==
    ASSUME TypeOK, NEW r \in Readers, ReadStart(r) \/ ReadStep(r)
    PROVE  TypeOK'
<1> USE DEF TypeOK, Params, ReaderPC, Finished, Reading
<1>1. UNCHANGED <<writer, coldReader>>
  BY DEF ReadStart, ReadStep, LoadFirst, ReadParam, LoadSecond, Accept, Reject, LastResort,
         ReturnUnchecked
<1>2. /\ UNCHANGED <<hot, version, cold, active, writeIdx, update, wpc, wtodo>>
      /\ UNCHANGED <<cptr, ctodo, cgot>>
  BY <1>1 DEF writer, coldReader
<1>3. CASE ReadStart(r) BY <1>2, <1>3 DEF ReadStart
<1>4. CASE LoadFirst(r)
  <2>1. v1' \in [Readers -> Nat] BY <1>4 DEF LoadFirst
  <2>2. rpc' \in [Readers -> ReaderPC] /\ retry' \in [Readers -> Nat]
    <3>1. \/ /\ rpc' = [rpc EXCEPT ![r] = "first"]
             /\ retry' = [retry EXCEPT ![r] = @ + 1]
          \/ rpc' = [rpc EXCEPT ![r] = "read"] /\ retry' = retry
      BY <1>4 DEF LoadFirst, Retry
    <3>2. rpc' \in [Readers -> ReaderPC] BY <3>1
    <3>3. retry[r] + 1 \in Nat OBVIOUS
    <3>4. retry' \in [Readers -> Nat] BY <3>1, <3>3
    <3> QED BY <3>2, <3>4
  <2>3. rtodo' \in [Readers -> SUBSET Fields] BY <1>4 DEF LoadFirst
  <2> QED BY <1>2, <1>4, <2>1, <2>2, <2>3 DEF LoadFirst
<1>5. ASSUME NEW f \in Fields, ReadParam(r, f) PROVE TypeOK'
  BY <1>2, <1>5 DEF ReadParam
<1>6. CASE LoadSecond(r) BY <1>2, <1>6 DEF LoadSecond
<1>7. CASE Accept(r) BY <1>2, <1>7 DEF Accept
<1>8. CASE Reject(r) BY <1>2, <1>8 DEF Reject, Retry
<1>9. CASE LastResort(r) BY <1>2, <1>9 DEF LastResort
<1>10. CASE ReturnUnchecked(r) BY <1>2, <1>10 DEF ReturnUnchecked
<1> QED BY <1>3, <1>4, <1>5, <1>6, <1>7, <1>8, <1>9, <1>10 DEF ReadStep

\* publishParams, readHotParamsOptimistic and getReadBuffer keep the types.
THEOREM TypeCorrect == Spec => []TypeOK
<1>1. Init => TypeOK
  BY DEF Init, TypeOK, FromUpdate, Params, Buffers, WriterPC, ReaderPC, Finished
<1>2. TypeOK /\ [Next]_vars => TypeOK'
  <2> SUFFICES ASSUME TypeOK, [Next]_vars PROVE TypeOK' OBVIOUS
  <2>1. ASSUME NEW c \in ColdReaders, GetReadBuffer(c) PROVE TypeOK'
    BY <2>1 DEF TypeOK, GetReadBuffer, writer, reader
  <2>2. ASSUME NEW c \in ColdReaders, NEW f \in Fields, ReadCold(c, f) PROVE TypeOK'
    BY <2>2 DEF TypeOK, Params, ReadCold, writer, reader
  <2>3. CASE UNCHANGED vars BY <2>3 DEF TypeOK, vars
  <2> QED BY <2>1, <2>2, <2>3, PublishKeepsTypes, ReadKeepsTypes DEF Next
<1> QED BY <1>1, <1>2, PTL DEF Spec

-----------------------------------------------------------------------------
(* The seqlock *)

LEMMA WriterStep ==
    ASSUME TypeOK, WriterInv, ~WeakMemory, Publish
    PROVE  WriterInv'
<1> USE DEF TypeOK, Params, Buffers, WriterPC, WriterInv
<1>1. CASE UpdateParameters
  <2>1. /\ update' = update + 1 /\ wtodo' = Fields /\ wpc = "idle" /\ wpc' = "build"
        /\ UNCHANGED <<hot, version, cold, active, writeIdx>>
    BY <1>1 DEF UpdateParameters
  <2>2. /\ writeIdx = 1 - active /\ version = 2 * update
        /\ \A f \in Fields : /\ hot[f] = update /\ cold[active][f] = update
                             /\ cold[writeIdx][f] = update
    BY <2>1
  <2>3. update' - 1 = update /\ update' >= 1
    <3>1. update \in Nat OBVIOUS
    <3> HIDE DEF WriterInv, TypeOK
    <3> QED BY <2>1, <3>1
  <2> QED BY <2>1, <2>2, <2>3
<1>2. ASSUME NEW f \in Fields, BuildHot(f) PROVE WriterInv' BY <1>2 DEF BuildHot
<1>3. CASE BuildDone BY <1>3 DEF BuildDone
<1>4. CASE StoreOdd BY <1>4 DEF StoreOdd
<1>5. ASSUME NEW f \in Fields, CopyHot(f) PROVE WriterInv' BY <1>5 DEF CopyHot
<1>6. CASE StoreEven BY <1>6 DEF StoreEven
<1>7. CASE SwapPointer BY <1>7 DEF SwapPointer
<1>8. ASSUME NEW f \in Fields, SyncDark(f) PROVE WriterInv' BY <1>8 DEF SyncDark
<1> QED BY <1>1, <1>2, <1>3, <1>4, <1>5, <1>6, <1>7, <1>8 DEF Publish

\* What the updater does to the shared parameters shows in the version.
LEMMA VersionTellsHot ==
    ASSUME TypeOK, WriterInv, version % 2 = 0, NEW f \in Fields
    PROVE  hot[f] = version \div 2
<1>1. /\ update \in Nat /\ wpc \in WriterPC
      /\ hot[f] = (IF wpc \in {"build", "odd"} \/ (wpc = "copy" /\ f \in wtodo)
                   THEN update - 1 ELSE update)
      /\ version = CASE wpc \in {"build", "odd"} -> 2 * (update - 1)
                     [] wpc = "copy" -> 2 * update - 1
                     [] OTHER -> 2 * update
  BY DEF TypeOK, WriterInv
<1>2. CASE wpc \in {"build", "odd"}
  <2>1. hot[f] = update - 1 /\ version = 2 * (update - 1) BY <1>1, <1>2
  <2> QED BY <1>1, <2>1
<1>3. CASE wpc = "copy"
  <2>1. version = 2 * update - 1 BY <1>1, <1>3
  <2> QED BY <1>1, <2>1
<1>4. CASE wpc \notin {"build", "odd", "copy"}
  <2>1. hot[f] = update /\ version = 2 * update BY <1>1, <1>4
  <2> QED BY <1>1, <2>1
<1> QED BY <1>2, <1>3, <1>4

\* An updater's step either moves the version on, or leaves an even version's
\* parameters alone.
LEMMA VersionGuardsHot ==
    ASSUME TypeOK, WriterInv, ~WeakMemory, Publish
    PROVE  /\ UNCHANGED <<reader, coldReader>>
           /\ version' = version \/ version' = version + 1
           /\ version % 2 = 0 /\ version' = version => hot' = hot
<1> USE DEF TypeOK, WriterInv, WriterPC
<1>1. UNCHANGED <<reader, coldReader>>
  BY DEF Publish, UpdateParameters, BuildHot, BuildDone, StoreOdd, CopyHot, StoreEven,
         SwapPointer, SyncDark
<1>2. version' = version \/ version' = version + 1
  BY DEF Publish, UpdateParameters, BuildHot, BuildDone, StoreOdd, CopyHot, StoreEven,
         SwapPointer, SyncDark
<1>3. ASSUME NEW f \in Fields, CopyHot(f) PROVE version % 2 = 1
  <2>1. version = 2 * update - 1 BY <1>3 DEF CopyHot
  <2> QED BY <2>1
<1>4. version % 2 = 0 => hot' = hot
  <2> SUFFICES ASSUME version % 2 = 0 PROVE hot' = hot OBVIOUS
  <2>1. ~\E f \in Fields : CopyHot(f) BY <1>3
  <2> QED BY <2>1 DEF Publish, UpdateParameters, BuildHot, BuildDone, StoreOdd, StoreEven,
                      SwapPointer, SyncDark
<1> QED BY <1>1, <1>2, <1>4

LEMMA PublishKeepsReads ==
    ASSUME TypeOK, SeqlockInv, ~WeakMemory, Publish
    PROVE  ReaderInv'
<1>1. /\ UNCHANGED <<rpc, v1, retry, rtodo, got, snap>>
      /\ version' = version \/ version' = version + 1
      /\ version \in Nat
  BY VersionGuardsHot DEF SeqlockInv, reader, TypeOK
<1>2. v1 \in [Readers -> Nat] BY DEF TypeOK
<1> QED BY <1>1, <1>2 DEF SeqlockInv, ReaderInv

LEMMA ReadKeepsReads ==
    ASSUME TypeOK, SeqlockInv, ~WeakMemory, NEW r \in Readers, ReadStart(r) \/ ReadStep(r)
    PROVE  ReaderInv'
<1> DEFINE Good(q) ==
             /\ rpc[q] \in {"read", "same"} => v1[q] <= version /\ v1[q] % 2 = 0
             /\ rpc[q] = "read" /\ v1[q] = version =>
                  \A f \in Fields \ rtodo[q] : got[q][f] = v1[q] \div 2
             /\ rpc[q] = "same" => rtodo[q] = {} /\ \A f \in Fields : got[q][f] = v1[q] \div 2
             /\ rpc[q] = "accepted" => \A f, g \in Fields : got[q][f] = got[q][g]
<1>0. Good(r) BY DEF SeqlockInv, ReaderInv
<1>1. SUFFICES Good(r)'
  <2>1. /\ version' = version
        /\ \A q \in Readers : q # r => /\ rpc'[q] = rpc[q] /\ v1'[q] = v1[q]
                                       /\ rtodo'[q] = rtodo[q] /\ got'[q] = got[q]
    BY DEF ReadStart, ReadStep, LoadFirst, ReadParam, LoadSecond, Accept, Reject, LastResort,
           ReturnUnchecked, Retry, writer, TypeOK
  <2> QED BY <2>1 DEF SeqlockInv, ReaderInv
<1> USE DEF TypeOK, Params
<1>2. CASE ReadStart(r) BY <1>2 DEF ReadStart
<1>3. CASE LoadFirst(r) BY <1>3 DEF LoadFirst, Retry, writer
<1>4. ASSUME NEW f \in Fields, ReadParam(r, f) PROVE Good(r)'
  <2>1. /\ rpc' = rpc /\ v1' = v1 /\ version' = version /\ f \in rtodo[r]
        /\ rtodo'[r] = rtodo[r] \ {f}
        /\ \A g \in Fields : got'[r][g] = IF g = f THEN hot[f] ELSE got[r][g]
        /\ rpc[r] \in Reading
    BY <1>4 DEF ReadParam, writer
  <2>2. rpc[r] # "same" /\ rpc[r] # "accepted" BY <2>1, <1>0 DEF Reading
  <2>3. rpc[r] = "read" /\ v1[r] = version => hot[f] = v1[r] \div 2
    BY <1>0, VersionTellsHot DEF SeqlockInv
  <2> QED BY <2>1, <2>2, <2>3, <1>0
<1>5. CASE LoadSecond(r)
  <2>1. /\ rpc[r] = "read" /\ rtodo[r] = {} /\ UNCHANGED <<v1, rtodo, got, version>>
        /\ rpc'[r] = IF version = v1[r] THEN "same" ELSE "differs"
    BY <1>5 DEF LoadSecond, writer
  <2> QED BY <2>1, <1>0
<1>6. CASE Accept(r) BY <1>0, <1>6 DEF Accept
<1>7. CASE Reject(r) BY <1>7 DEF Reject, Retry
<1>8. CASE LastResort(r) BY <1>8 DEF LastResort
<1>9. CASE ReturnUnchecked(r) BY <1>9 DEF ReturnUnchecked
<1> QED BY <1>2, <1>3, <1>4, <1>5, <1>6, <1>7, <1>8, <1>9 DEF ReadStep

\* The seqlock protocol of publishParams (lines 181-198) and
\* readHotParamsOptimistic (lines 209-226), on builds that keep program order.
THEOREM SeqlockProtocol == ~WeakMemory => (Spec => []SeqlockInv)
<1> SUFFICES ASSUME ~WeakMemory PROVE Spec => []SeqlockInv
  OBVIOUS
<1>1. Init => SeqlockInv
  BY DEF Init, SeqlockInv, WriterInv, ReaderInv, FromUpdate, Buffers
<1>2. TypeOK /\ SeqlockInv /\ [Next]_vars => SeqlockInv'
  <2> SUFFICES ASSUME TypeOK, SeqlockInv, [Next]_vars PROVE SeqlockInv' OBVIOUS
  <2>1. CASE Publish
    BY <2>1, WriterStep, PublishKeepsReads DEF SeqlockInv
  <2>2. ASSUME NEW r \in Readers, ReadStart(r) \/ ReadStep(r) PROVE SeqlockInv'
    <3>1. UNCHANGED writer
      BY <2>2 DEF ReadStart, ReadStep, LoadFirst, ReadParam, LoadSecond, Accept, Reject,
                  LastResort, ReturnUnchecked
    <3>2. WriterInv' BY <3>1 DEF SeqlockInv, WriterInv, writer
    <3> QED BY <2>2, <3>2, ReadKeepsReads DEF SeqlockInv
  <2>3. ASSUME UNCHANGED <<writer, reader>> PROVE SeqlockInv'
    BY <2>3 DEF SeqlockInv, WriterInv, ReaderInv, writer, reader
  <2>4. ASSUME NEW c \in ColdReaders, GetReadBuffer(c) \/ \E f \in Fields : ReadCold(c, f)
        PROVE  SeqlockInv'
    BY <2>3, <2>4 DEF GetReadBuffer, ReadCold
  <2>5. CASE UNCHANGED vars BY <2>3, <2>5 DEF vars, writer, reader
  <2> QED BY <2>1, <2>2, <2>4, <2>5 DEF Next
<1> QED BY <1>1, <1>2, TypeCorrect, PTL DEF Spec

\* A result returned at line 222 is never a mixture of two updates, on builds
\* that keep program order.
THEOREM AcceptedReadsAreConsistent == ~WeakMemory => (Spec => []AcceptedIsConsistent)
<1>1. SeqlockInv => AcceptedIsConsistent
  BY DEF SeqlockInv, ReaderInv, AcceptedIsConsistent, Consistent
<1> QED BY <1>1, SeqlockProtocol, PTL

-----------------------------------------------------------------------------
(* Reads that pass the check are atomic *)

\* Reads that pass the version check are linearizable, on builds that keep
\* program order: the update takes effect at the even store (line 193), the
\* read at its second load (line 221).
THEOREM ReadsLinearizable == ~WeakMemory => (Spec => ReadsAreAtomic)
<1> SUFFICES ASSUME ~WeakMemory PROVE Spec => ReadsAreAtomic
  OBVIOUS
<1>1. Init => Atomic!Init
  BY DEF Init, Atomic!Init, currentBar, snapBar, FromUpdate
<1>2. TypeOK /\ SeqlockInv /\ [Next]_vars => [Atomic!Next]_(Atomic!vars)
  <2> SUFFICES ASSUME TypeOK, SeqlockInv, [Next]_vars
               PROVE  Atomic!Next \/ UNCHANGED Atomic!vars
    OBVIOUS
  <2>1. CASE Publish
    <3>1. UNCHANGED <<rpc, got, snap>> BY <2>1, VersionGuardsHot DEF SeqlockInv, reader
    <3>2. snapBar' = snapBar BY <3>1 DEF snapBar
    <3>3. version \in Nat /\ (version' = version \/ version' = version + 1)
      BY <2>1, VersionGuardsHot DEF SeqlockInv, TypeOK
    <3>4. currentBar' = currentBar \/ currentBar' = currentBar + 1
      BY <3>3 DEF currentBar
    <3> QED BY <3>2, <3>4 DEF Atomic!Next, Atomic!Publish, Atomic!vars
  <2>2. ASSUME NEW r \in Readers, LoadSecond(r), version = v1[r] PROVE Atomic!Read(r)
    <3>1. /\ rpc[r] = "read" /\ rpc' = [rpc EXCEPT ![r] = "same"] /\ rtodo[r] = {}
          /\ UNCHANGED <<got, snap, version>> /\ rpc \in [Readers -> ReaderPC]
          /\ got \in [Readers -> Params]
      BY <2>2 DEF LoadSecond, writer, TypeOK
    <3>2. \A f \in Fields : got[r][f] = version \div 2
      BY <3>1, <2>2 DEF SeqlockInv, ReaderInv
    <3>3. got[r] = [f \in Fields |-> version \div 2] BY <3>1, <3>2 DEF Params
    <3>4. snapBar' = [snapBar EXCEPT ![r] = [f \in Fields |-> version \div 2]]
      BY <3>1, <3>3 DEF snapBar
    <3> QED BY <3>1, <3>4 DEF Atomic!Read, currentBar
  <2>3. ASSUME NEW r \in Readers,
               \/ ReadStart(r) \/ LoadFirst(r) \/ Accept(r) \/ Reject(r) \/ LastResort(r)
               \/ ReturnUnchecked(r) \/ (LoadSecond(r) /\ version # v1[r])
               \/ \E f \in Fields : ReadParam(r, f)
        PROVE  UNCHANGED Atomic!vars
    <3>1. /\ version' = version /\ rpc \in [Readers -> ReaderPC]
          /\ got \in [Readers -> Params] /\ snap \in [Readers -> Params]
      BY <2>3 DEF ReadStart, LoadFirst, Accept, Reject, LastResort, ReturnUnchecked, LoadSecond,
                  ReadParam, writer, TypeOK
    <3>2. CASE Accept(r) BY <3>1, <3>2 DEF Accept, snapBar, currentBar, Atomic!vars
    <3>3. ASSUME NEW f \in Fields, ReadParam(r, f) PROVE UNCHANGED Atomic!vars
      <4>1. rpc[r] # "same" BY <3>3 DEF ReadParam, SeqlockInv, ReaderInv
      <4> QED BY <3>1, <3>3, <4>1 DEF ReadParam, snapBar, currentBar, Atomic!vars
    <3>4. CASE ~Accept(r) /\ ~\E f \in Fields : ReadParam(r, f)
      <4>1. /\ UNCHANGED <<got, snap>> /\ rpc[r] # "same" /\ rpc'[r] # "same"
            /\ \A q \in Readers : q # r => rpc'[q] = rpc[q]
        BY <2>3, <3>1, <3>4
           DEF ReadStart, LoadFirst, Retry, Reject, LastResort, ReturnUnchecked, LoadSecond,
               Finished
      <4> QED BY <3>1, <4>1 DEF snapBar, currentBar, Atomic!vars
    <3> QED BY <3>2, <3>3, <3>4
  <2>4. ASSUME UNCHANGED <<writer, reader>> PROVE UNCHANGED Atomic!vars
    BY <2>4 DEF writer, reader, snapBar, currentBar, Atomic!vars
  <2>5. ASSUME NEW c \in ColdReaders, GetReadBuffer(c) \/ \E f \in Fields : ReadCold(c, f)
        PROVE  UNCHANGED Atomic!vars
    BY <2>4, <2>5 DEF GetReadBuffer, ReadCold
  <2>6. CASE UNCHANGED vars BY <2>4, <2>6 DEF vars, writer, reader
  <2>7. ASSUME NEW r \in Readers, ReadStart(r) \/ ReadStep(r)
        PROVE  Atomic!Next \/ UNCHANGED Atomic!vars
    <3>1. CASE LoadSecond(r) /\ version = v1[r] BY <3>1, <2>2 DEF Atomic!Next
    <3>2. CASE ~(LoadSecond(r) /\ version = v1[r])
      <4>1. \/ ReadStart(r) \/ LoadFirst(r) \/ Accept(r) \/ Reject(r) \/ LastResort(r)
            \/ ReturnUnchecked(r) \/ (LoadSecond(r) /\ version # v1[r])
            \/ \E f \in Fields : ReadParam(r, f)
        BY <3>2, <2>7 DEF ReadStep
      <4>2. UNCHANGED Atomic!vars BY <4>1, <2>3
      <4> QED BY <4>2
    <3> QED BY <3>1, <3>2
  <2> QED BY <2>1, <2>5, <2>6, <2>7 DEF Next
<1> QED BY <1>1, <1>2, TypeCorrect, SeqlockProtocol, PTL DEF Spec, ReadsAreAtomic, Atomic!Spec

-----------------------------------------------------------------------------
(* The two buffers *)

\* Between updates hot_params_ and both cold buffers are one parameter set
\* (lines 175-178): an inductive WriterInv gives the contents of each.
THEOREM BuffersInStep == ~WeakMemory /\ Spec => []BuffersAgree
<1>1. TypeOK /\ SeqlockInv => BuffersAgree
  <2> SUFFICES ASSUME TypeOK, SeqlockInv, wpc = "idle", NEW b \in Buffers
               PROVE  cold[b] = hot
    BY DEF BuffersAgree
  <2>1. hot \in Params /\ cold[b] \in Params BY DEF TypeOK
  <2>2. b = active \/ b = writeIdx BY DEF TypeOK, SeqlockInv, WriterInv, Buffers
  <2>3. \A f \in Fields : cold[b][f] = hot[f] BY <2>2 DEF SeqlockInv, WriterInv
  <2> QED BY <2>1, <2>3 DEF Params
<1> QED BY <1>1, TypeCorrect, SeqlockProtocol, PTL DEF Spec

\* A step of publishParams writes the dark buffer only: a reader that follows
\* active_cold_ finds the buffer as it was (lines 174-178).
THEOREM ActiveUntouched == ~WeakMemory /\ Spec => ActiveNeverWritten
<1>1. TypeOK /\ SeqlockInv /\ [Next]_vars => [cold'[active] = cold[active]]_vars
  <2> SUFFICES ASSUME TypeOK, SeqlockInv, Next PROVE cold'[active] = cold[active]
    OBVIOUS
  <2>1. active # writeIdx /\ active \in Buffers /\ writeIdx \in Buffers
    BY DEF SeqlockInv, WriterInv, TypeOK, Buffers
  <2>2. CASE Publish
    <3>1. \/ cold' = cold
          \/ \E params : cold' = [cold EXCEPT ![writeIdx] = params]
      BY <2>2 DEF Publish, UpdateParameters, BuildHot, BuildDone, StoreOdd, CopyHot, StoreEven,
                 SwapPointer, SyncDark
    <3> QED BY <2>1, <3>1 DEF TypeOK
  <2>3. ASSUME NEW r \in Readers, ReadStart(r) \/ ReadStep(r) PROVE cold' = cold
    BY <2>3 DEF ReadStart, ReadStep, LoadFirst, ReadParam, LoadSecond, Accept, Reject, LastResort,
                ReturnUnchecked, writer
  <2>4. ASSUME NEW c \in ColdReaders, GetReadBuffer(c) \/ \E f \in Fields : ReadCold(c, f)
        PROVE  cold' = cold
    BY <2>4 DEF GetReadBuffer, ReadCold, writer
  <2> QED BY <2>2, <2>3, <2>4 DEF Next
<1> QED BY <1>1, TypeCorrect, SeqlockProtocol, PTL DEF Spec, ActiveNeverWritten
=============================================================================
