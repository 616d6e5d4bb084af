------------------------------ MODULE RiskParams ------------------------------
(***************************************************************************)
(* risk/risk_engine.hpp: how RiskEngine publishes its parameters.          *)
(* hot_params_ is guarded by a version counter (a seqlock, odd while it is *)
(* written); the two cold buffers are swapped under active_cold_.  One     *)
(* thread updates (updateParameters, whose body is in the library, hands   *)
(* its argument to publishParams); checking threads read hot_params_       *)
(* through readHotParamsOptimistic, others read the buffer getReadBuffer   *)
(* returns.                                                                *)
(*                                                                         *)
(* A parameter's value is the number of the update it comes from.  memcpy  *)
(* and the reader's function touch one parameter at a time, in any order.  *)
(* With WeakMemory, plain accesses move as an arm64 build lets them: the   *)
(* copies of line 192 before the release store of line 189, the reads of   *)
(* line 219 after the acquire load of line 221.                            *)
(***************************************************************************)
EXTENDS Integers

CONSTANTS Fields,        \* the parameters of HotParams
          Readers,       \* threads in readHotParamsOptimistic
          ColdReaders,   \* threads that use getReadBuffer
          MaxRetries,    \* MAX_RETRIES, 100 in the program
          WeakMemory,    \* TRUE: plain accesses may pass the version accesses
          UpdateBound    \* bound of the model: updates published

ASSUME RetriesAssumption == MaxRetries \in Nat
ASSUME MemoryAssumption == WeakMemory \in BOOLEAN
ASSUME UpdateAssumption == UpdateBound \in Nat

VARIABLES
    hot,       \* hot_params_, by parameter
    version,   \* hot_params_.version
    cold,      \* the hot member of the two cold buffers
    active,    \* the buffer active_cold_ points to
    writeIdx,  \* write_idx_
    update,    \* the number of the update in progress, or of the last one
    wpc,       \* where the updating thread is
    wtodo,     \* the parameters its current memcpy has left
    rpc,       \* where each reader is
    v1,        \* the version each reader loaded first
    retry,     \* the reader's loop counter
    rtodo,     \* the parameters its function has left to read
    got,       \* the parameters it has read
    snap,      \* the last result returned at line 222
    cptr,      \* the buffer each cold reader holds
    ctodo,     \* the parameters it has left to read
    cgot       \* the parameters it has read

writer == <<hot, version, cold, active, writeIdx, update, wpc, wtodo>>
reader == <<rpc, v1, retry, rtodo, got, snap>>
coldReader == <<cptr, ctodo, cgot>>
vars == <<hot, version, cold, active, writeIdx, update, wpc, wtodo,
          rpc, v1, retry, rtodo, got, snap, cptr, ctodo, cgot>>

Buffers == {0, 1}
FromUpdate(n) == [f \in Fields |-> n]

Init == /\ hot = FromUpdate(0) /\ version = 0
        /\ cold = [b \in Buffers |-> FromUpdate(0)]
        /\ active = 0 /\ writeIdx = 1
        /\ update = 0 /\ wpc = "idle" /\ wtodo = {}
        /\ rpc = [r \in Readers |-> "idle"]
        /\ v1 = [r \in Readers |-> 0]
        /\ retry = [r \in Readers |-> 0]
        /\ rtodo = [r \in Readers |-> {}]
        /\ got = [r \in Readers |-> FromUpdate(0)]
        /\ snap = [r \in Readers |-> FromUpdate(0)]
        /\ cptr = [c \in ColdReaders |-> 0]
        /\ ctodo = [c \in ColdReaders |-> {}]
        /\ cgot = [c \in ColdReaders |-> FromUpdate(0)]

-----------------------------------------------------------------------------
(* Faults, used by no specification. *)

\* No test for an odd version at line 217.
LoadFirstAny(r) == /\ rpc[r] = "first" /\ retry[r] < MaxRetries
                   /\ v1' = [v1 EXCEPT ![r] = version]
                   /\ rpc' = [rpc EXCEPT ![r] = "read"]
                   /\ rtodo' = [rtodo EXCEPT ![r] = Fields]
                   /\ UNCHANGED <<writer, retry, got, snap, coldReader>>

\* A retry that is not counted.
RetryUncounted(r) == rpc' = [rpc EXCEPT ![r] = "first"] /\ UNCHANGED retry

\* write_idx_ flipped and the buffer refreshed before the pointer is stored.
SwapPointerLate == /\ wpc = "swap"
                   /\ writeIdx' = 1 - writeIdx
                   /\ wtodo' = Fields /\ wpc' = "sync"
                   /\ UNCHANGED <<hot, version, cold, active, update, reader, coldReader>>

\* The refresh of line 178 left out.
SyncNothing(f) == /\ wpc = "sync" /\ f \in wtodo
                  /\ wtodo' = wtodo \ {f}
                  /\ wpc' = IF wtodo' = {} THEN "idle" ELSE "sync"
                  /\ UNCHANGED <<hot, version, cold, active, writeIdx, update>>
                  /\ UNCHANGED <<reader, coldReader>>

-----------------------------------------------------------------------------
(* publishParams *)

UpdateParameters == /\ wpc = "idle" /\ update < UpdateBound
                    /\ update' = update + 1
                    /\ wtodo' = Fields /\ wpc' = "build"
                    /\ UNCHANGED <<hot, version, cold, active, writeIdx, reader, coldReader>>

BuildHot(f) == /\ wpc = "build" /\ f \in wtodo
               /\ cold' = [cold EXCEPT ![writeIdx][f] = update]
               /\ wtodo' = wtodo \ {f}
               /\ UNCHANGED <<hot, version, active, writeIdx, update, wpc, reader, coldReader>>

BuildDone == /\ wpc = "build" /\ wtodo = {}
             /\ wtodo' = Fields /\ wpc' = "odd"
             /\ UNCHANGED <<hot, version, cold, active, writeIdx, update, reader, coldReader>>

StoreOdd == /\ wpc = "odd"
            /\ version' = version + 1
            /\ wpc' = "copy"
            /\ UNCHANGED <<hot, cold, active, writeIdx, update, wtodo, reader, coldReader>>

CopyHot(f) == /\ wpc = "copy" \/ (WeakMemory /\ wpc = "odd")
              /\ f \in wtodo
              /\ hot' = [hot EXCEPT ![f] = cold[writeIdx][f]]
              /\ wtodo' = wtodo \ {f}
              /\ UNCHANGED <<version, cold, active, writeIdx, update, wpc, reader, coldReader>>

StoreEven == /\ wpc = "copy" /\ wtodo = {}
             /\ version' = version + 1
             /\ wpc' = "swap"
             /\ UNCHANGED <<hot, cold, active, writeIdx, update, wtodo, reader, coldReader>>

\* swapColdBuffers: publish the dark buffer, then refresh the one left behind.
SwapPointer == /\ wpc = "swap"
               /\ active' = writeIdx
               /\ writeIdx' = 1 - writeIdx
               /\ wtodo' = Fields /\ wpc' = "sync"
               /\ UNCHANGED <<hot, version, cold, update, reader, coldReader>>

SyncDark(f) == /\ wpc = "sync" /\ f \in wtodo
               /\ cold' = [cold EXCEPT ![writeIdx][f] = hot[f]]
               /\ wtodo' = wtodo \ {f}
               /\ wpc' = IF wtodo' = {} THEN "idle" ELSE "sync"
               /\ UNCHANGED <<hot, version, active, writeIdx, update, reader, coldReader>>

Publish == \/ UpdateParameters \/ BuildDone \/ StoreOdd \/ StoreEven \/ SwapPointer
           \/ \E f \in Fields : BuildHot(f) \/ CopyHot(f) \/ SyncDark(f)

-----------------------------------------------------------------------------
(* readHotParamsOptimistic *)

Finished == {"idle", "accepted", "unchecked"}

ReadStart(r) == /\ rpc[r] \in Finished
                /\ rpc' = [rpc EXCEPT ![r] = "first"]
                /\ retry' = [retry EXCEPT ![r] = 0]
                /\ UNCHANGED <<writer, v1, rtodo, got, snap, coldReader>>

Retry(r) == /\ rpc' = [rpc EXCEPT ![r] = "first"]
            /\ retry' = [retry EXCEPT ![r] = @ + 1]

LoadFirst(r) == /\ rpc[r] = "first" /\ retry[r] < MaxRetries
                /\ v1' = [v1 EXCEPT ![r] = version]
                /\ \/ /\ version % 2 = 1
                      /\ Retry(r)
                      /\ UNCHANGED rtodo
                   \/ /\ version % 2 = 0
                      /\ rpc' = [rpc EXCEPT ![r] = "read"]
                      /\ rtodo' = [rtodo EXCEPT ![r] = Fields]
                      /\ UNCHANGED retry
                /\ UNCHANGED <<writer, got, snap, coldReader>>

\* "same" and "differs": the second load has been done, the reads may not be.
Reading == {"read", "same", "differs", "last"}

ReadParam(r, f) == /\ rpc[r] \in Reading /\ f \in rtodo[r]
                   /\ got' = [got EXCEPT ![r][f] = hot[f]]
                   /\ rtodo' = [rtodo EXCEPT ![r] = @ \ {f}]
                   /\ UNCHANGED <<writer, rpc, v1, retry, snap, coldReader>>

LoadSecond(r) == /\ rpc[r] = "read"
                 /\ WeakMemory \/ rtodo[r] = {}
                 /\ rpc' = [rpc EXCEPT ![r] = IF version = v1[r] THEN "same" ELSE "differs"]
                 /\ UNCHANGED <<writer, v1, retry, rtodo, got, snap, coldReader>>

Accept(r) == /\ rpc[r] = "same" /\ rtodo[r] = {}
             /\ rpc' = [rpc EXCEPT ![r] = "accepted"]
             /\ snap' = [snap EXCEPT ![r] = got[r]]
             /\ UNCHANGED <<writer, v1, retry, rtodo, got, coldReader>>

Reject(r) == /\ rpc[r] = "differs" /\ rtodo[r] = {}
             /\ Retry(r)
             /\ UNCHANGED <<writer, v1, rtodo, got, snap, coldReader>>

\* Line 225: read without looking at the version.
LastResort(r) == /\ rpc[r] = "first" /\ retry[r] >= MaxRetries
                 /\ rpc' = [rpc EXCEPT ![r] = "last"]
                 /\ rtodo' = [rtodo EXCEPT ![r] = Fields]
                 /\ UNCHANGED <<writer, v1, retry, got, snap, coldReader>>

ReturnUnchecked(r) == /\ rpc[r] = "last" /\ rtodo[r] = {}
                      /\ rpc' = [rpc EXCEPT ![r] = "unchecked"]
                      /\ UNCHANGED <<writer, v1, retry, rtodo, got, snap, coldReader>>

ReadStep(r) == \/ LoadFirst(r) \/ LoadSecond(r) \/ Accept(r) \/ Reject(r)
               \/ LastResort(r) \/ ReturnUnchecked(r)
               \/ \E f \in Fields : ReadParam(r, f)

-----------------------------------------------------------------------------
(* getReadBuffer and the use of the buffer it returns *)

GetReadBuffer(c) == /\ ctodo[c] = {}
                    /\ cptr' = [cptr EXCEPT ![c] = active]
                    /\ ctodo' = [ctodo EXCEPT ![c] = Fields]
                    /\ UNCHANGED <<writer, reader, cgot>>

ReadCold(c, f) == /\ f \in ctodo[c]
                  /\ cgot' = [cgot EXCEPT ![c][f] = cold[cptr[c]][f]]
                  /\ ctodo' = [ctodo EXCEPT ![c] = @ \ {f}]
                  /\ UNCHANGED <<writer, reader, cptr>>

Next == \/ Publish
        \/ \E r \in Readers : ReadStart(r) \/ ReadStep(r)
        \/ \E c \in ColdReaders : GetReadBuffer(c) \/ \E f \in Fields : ReadCold(c, f)

Spec == Init /\ [][Next]_vars

\* A thread inside the read loop is scheduled.  Nothing is asked of the updates.
FairSpec == Spec /\ \A r \in Readers : WF_vars(ReadStep(r))

-----------------------------------------------------------------------------
(* Properties *)

WriterPC == {"idle", "build", "odd", "copy", "swap", "sync"}
ReaderPC == Finished \cup Reading \cup {"first"}
Params == [Fields -> Nat]

\* The members have the types of the class.
TypeOK == /\ hot \in Params /\ version \in Nat
          /\ cold \in [Buffers -> Params]
          /\ active \in Buffers /\ writeIdx \in Buffers
          /\ update \in Nat /\ wpc \in WriterPC /\ wtodo \in SUBSET Fields
          /\ rpc \in [Readers -> ReaderPC]
          /\ v1 \in [Readers -> Nat] /\ retry \in [Readers -> Nat]
          /\ rtodo \in [Readers -> SUBSET Fields]
          /\ got \in [Readers -> Params] /\ snap \in [Readers -> Params]
          /\ cptr \in [ColdReaders -> Buffers]
          /\ ctodo \in [ColdReaders -> SUBSET Fields]
          /\ cgot \in [ColdReaders -> Params]

\* What hot_params_ and the buffers hold at each point of publishParams
\* (lines 181-198).
WriterInv ==
    /\ writeIdx = 1 - active
    /\ \A f \in Fields :
         /\ hot[f] = (IF wpc \in {"build", "odd"} \/ (wpc = "copy" /\ f \in wtodo)
                      THEN update - 1 ELSE update)
         /\ cold[active][f] = (IF wpc \in {"idle", "sync"} THEN update ELSE update - 1)
         /\ cold[writeIdx][f] = (IF wpc \in {"build", "sync"} /\ f \in wtodo
                                 THEN update - 1 ELSE update)
    /\ version = CASE wpc \in {"build", "odd"} -> 2 * (update - 1)
                   [] wpc = "copy" -> 2 * update - 1
                   [] OTHER -> 2 * update
    /\ wpc \notin {"idle", "sync"} => update >= 1
    /\ wpc = "odd" => wtodo = Fields

\* What a reader has read belongs to the version it loaded first, as long as
\* that version stands (lines 215-223).
ReaderInv ==
    \A r \in Readers :
        /\ rpc[r] \in {"read", "same"} => v1[r] <= version /\ v1[r] % 2 = 0
        /\ rpc[r] = "read" /\ v1[r] = version =>
             \A f \in Fields \ rtodo[r] : got[r][f] = v1[r] \div 2
        /\ rpc[r] = "same" => rtodo[r] = {} /\ \A f \in Fields : got[r][f] = v1[r] \div 2
        /\ rpc[r] = "accepted" => \A f, g \in Fields : got[r][f] = got[r][g]

\* The seqlock: the updater and the readers agree on what a version stands for.
SeqlockInv == WriterInv /\ ReaderInv

Consistent(params) == \A f, g \in Fields : params[f] = params[g]

\* Line 222: "consistent read".  What the reader returns there was in force as
\* a whole, not a mixture of two updates.
AcceptedIsConsistent == \A r \in Readers : rpc[r] = "accepted" => Consistent(got[r])

\* Line 224: "Fallback: read anyway (reader won't see corruption, just possibly
\* stale)": the parameters returned at line 225 are those of some update.
FallbackIsConsistent == \A r \in Readers : rpc[r] = "unchecked" => Consistent(got[r])

\* The buffer active_cold_ points to is never written: line 174 comes before
\* lines 175-178.
ActiveNeverWritten == [][cold'[active] = cold[active]]_vars

\* Between updates hot_params_ and both cold buffers hold the same parameters:
\* the dark buffer starts the next update from the ones in force (line 178).
BuffersAgree == wpc = "idle" => \A b \in Buffers : cold[b] = hot

\* An update is in force from the even store; a read that passes happens at its
\* second load.
currentBar == version \div 2
snapBar == [r \in Readers |-> IF rpc[r] = "same" THEN got[r] ELSE snap[r]]

Atomic == INSTANCE AtomicParams WITH current <- currentBar, snap <- snapBar

\* Reads that pass the version check (line 222) are linearizable: each returns
\* the parameters in force at one moment of the call, whatever update runs.

ReadsAreAtomic == Atomic!Spec

\* A reader is never held up by updates: at most MAX_RETRIES rounds (line 213).
ReadReturns == \A r \in Readers : (rpc[r] \notin Finished) ~> (rpc[r] \in Finished)
=============================================================================
