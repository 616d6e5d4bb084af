---------------------------- MODULE OrderBookV2 ----------------------------
(***************************************************************************)
(* src/include/chronos/market_data/orderbook_v2.hpp: one side of a book is *)
(* a function from its prices to their quantities, which determines the    *)
(* sorted array of the code.  The writer's helpers are declared in the     *)
(* header with what they do and defined in the library; the readers' loop, *)
(* readHotDataOptimistic, is all there.  Its func reads parts of the hot   *)
(* data one after the other: here, the two sides in any order.  Which      *)
(* updates set hot_data_dirty_ is decided in the library: here, any may.   *)
(*                                                                         *)
(* rebuilt and since are not in the code: rebuilt is what the last rebuild *)
(* put in the hot data, and since collects, for a read that is running,    *)
(* the values rebuilt has had since it began.                              *)
(***************************************************************************)
EXTENDS Integers, FiniteSets

CONSTANTS Prices, Quantities,  \* quantities of a tick; 0 removes the level
          MaxDepth, HotDepth,  \* MAX_DEPTH and HOT_DEPTH
          Readers,             \* the threads that read the hot data
          UpdateBound          \* how many updates are looked at

ASSUME BookAssumption == /\ Prices \subseteq Int /\ Quantities \subseteq Nat
                         /\ HotDepth \in Nat \ {0} /\ MaxDepth \in Nat /\ HotDepth <= MaxDepth
                         /\ UpdateBound \in Nat

VARIABLES
    cold, light,     \* cold_buffers_, and the one active_cold_buffer_ points to
    hot, version,    \* hot_data_
    wpc, wtodo,      \* the writer's place, and the sides it still has to copy
    updates,
    rpc, before, rtodo, got,  \* the readers: version_before, sides to read, result
    rebuilt, since

writer == <<cold, light, hot, version, wpc, wtodo, updates, rebuilt>>
reader == <<rpc, before, rtodo, got>>
vars == <<writer, reader, since>>

Sides == {"bid", "ask"}
Empty == [s \in Sides |-> << >>]
Dark == 1 - light

Better(s, p, q) == IF s = "bid" THEN p > q ELSE p < q
Position(s, levels, p) == Cardinality({q \in DOMAIN levels : Better(s, q, p)})
Keep(levels, ps) == [p \in DOMAIN levels \cap ps |-> levels[p]]
Top(s, levels, n) == Keep(levels, {p \in DOMAIN levels : Position(s, levels, p) < n})
HotOf(buffer) == [s \in Sides |-> Top(s, buffer[s], HotDepth)]

Init == /\ cold = [b \in 0..1 |-> Empty] /\ light = 0
        /\ hot = Empty /\ version = 0
        /\ wpc = "idle" /\ wtodo = {} /\ updates = 0
        /\ rpc = [r \in Readers |-> "idle"] /\ before = [r \in Readers |-> 0]
        /\ rtodo = [r \in Readers |-> {}] /\ got = [r \in Readers |-> Empty]
        /\ rebuilt = Empty /\ since = [r \in Readers |-> {}]

-----------------------------------------------------------------------------
(* Faults, used by no specification *)

InsertAtEnd(s, levels, p, q) == [x \in DOMAIN levels \cup {p} |-> IF x = p THEN q ELSE levels[x]]
LoadBeforeAny(r) == /\ rpc[r] = "load"
                    /\ before' = [before EXCEPT ![r] = version]
                    /\ rpc' = [rpc EXCEPT ![r] = "read"]
                    /\ rtodo' = [rtodo EXCEPT ![r] = Sides]
                    /\ UNCHANGED <<writer, got, since>>
StoreEvenNot == /\ wpc = "copy" /\ wtodo = {} /\ wpc' = "swap"
                /\ UNCHANGED <<cold, light, hot, version, wtodo, updates, rebuilt, reader, since>>

-----------------------------------------------------------------------------
(* update and clear *)

\* insertBidLevel, insertAskLevel: a level that comes after MAX_DEPTH others is dropped.
Insert(s, levels, p, q) ==
    Top(s, [x \in DOMAIN levels \cup {p} |-> IF x = p THEN q ELSE levels[x]], MaxDepth)

Remove(levels, p) == Keep(levels, DOMAIN levels \ {p})

\* The dark buffer becomes the light one's next state; hot_data_dirty_ (line 194)
\* then says whether the hot data are rebuilt before the buffers are swapped.
Written(buffer) == /\ wpc = "idle" /\ updates < UpdateBound
                   /\ updates' = updates + 1
                   /\ cold' = [cold EXCEPT ![Dark] = buffer]
                   /\ wpc' \in {"odd", "swap"}
                   /\ UNCHANGED <<light, hot, version, wtodo, rebuilt, reader, since>>

UpdateLevels(s, p, q) ==
    LET levels == cold[light][s]
        new == IF q = 0 THEN Remove(levels, p) ELSE Insert(s, levels, p, q)
    IN  Written([cold[light] EXCEPT ![s] = new])

Clear == Written(Empty)

\* rebuildHotData, inside an odd version.
StoreOdd == /\ wpc = "odd" /\ wpc' = "copy"
            /\ version' = version + 1 /\ wtodo' = Sides
            /\ UNCHANGED <<cold, light, hot, updates, rebuilt, reader, since>>

CopySide(s) == /\ wpc = "copy" /\ s \in wtodo
               /\ hot' = [hot EXCEPT ![s] = Top(s, cold[Dark][s], HotDepth)]
               /\ wtodo' = wtodo \ {s}
               /\ UNCHANGED <<cold, light, version, wpc, updates, rebuilt, reader, since>>

Seen == [r \in Readers |-> since[r] \cup (IF rpc[r] = "idle" THEN {} ELSE {rebuilt'})]

StoreEven == /\ wpc = "copy" /\ wtodo = {} /\ wpc' = "swap"
             /\ version' = version + 1
             /\ rebuilt' = HotOf(cold[Dark])
             /\ UNCHANGED <<cold, light, hot, wtodo, updates, reader>>
             /\ since' = Seen

SwapColdBuffers == /\ wpc = "swap" /\ wpc' = "idle"
                   /\ light' = Dark
                   /\ UNCHANGED <<cold, hot, version, wtodo, updates, rebuilt, reader, since>>

Finish == StoreOdd \/ StoreEven \/ SwapColdBuffers \/ \E s \in Sides : CopySide(s)

-----------------------------------------------------------------------------
(* readHotDataOptimistic *)

ReadStart(r) == /\ rpc[r] = "idle"
                /\ rpc' = [rpc EXCEPT ![r] = "load"]
                /\ since' = [since EXCEPT ![r] = {rebuilt}]
                /\ UNCHANGED <<writer, before, rtodo, got>>

\* An odd version is loaded again, for as long as it takes.
LoadBefore(r) == /\ rpc[r] = "load"
                 /\ version % 2 = 0
                 /\ before' = [before EXCEPT ![r] = version]
                 /\ rpc' = [rpc EXCEPT ![r] = "read"]
                 /\ rtodo' = [rtodo EXCEPT ![r] = Sides]
                 /\ UNCHANGED <<writer, got, since>>

ReadSide(r, s) == /\ rpc[r] = "read" /\ s \in rtodo[r]
                  /\ got' = [got EXCEPT ![r][s] = hot[s]]
                  /\ rtodo' = [rtodo EXCEPT ![r] = @ \ {s}]
                  /\ UNCHANGED <<writer, rpc, before, since>>

LoadAfter(r) == /\ rpc[r] = "read" /\ rtodo[r] = {}
                /\ rpc' = [rpc EXCEPT ![r] = IF version = before[r] THEN "return" ELSE "load"]
                /\ UNCHANGED <<writer, before, rtodo, got, since>>

Return(r) == /\ rpc[r] = "return"
             /\ rpc' = [rpc EXCEPT ![r] = "idle"]
             /\ before' = [before EXCEPT ![r] = 0] /\ got' = [got EXCEPT ![r] = Empty]
             /\ since' = [since EXCEPT ![r] = {}]
             /\ UNCHANGED <<writer, rtodo>>

ReadStep(r) == LoadBefore(r) \/ LoadAfter(r) \/ Return(r) \/ \E s \in Sides : ReadSide(r, s)

\* The market may have no further ticks.
Quiet == updates = UpdateBound /\ wpc = "idle" /\ UNCHANGED vars

Next == \/ \E s \in Sides, p \in Prices, q \in Quantities : UpdateLevels(s, p, q)
        \/ Clear \/ Finish \/ Quiet
        \/ \E r \in Readers : ReadStart(r) \/ ReadStep(r)

Spec == Init /\ [][Next]_vars

\* The writer finishes the update it has begun and readers run on; the updates
\* themselves end (UpdateBound), as the loop's return needs.
FairSpec == Spec /\ WF_vars(Finish) /\ \A r \in Readers : WF_vars(ReadStep(r))

-----------------------------------------------------------------------------
(* What must hold *)

Fits(side, depth) == DOMAIN side \subseteq Prices /\ Cardinality(DOMAIN side) <= depth
\* No array is written past its end (lines 87-92 and 138-142).
TypeOK == /\ light \in 0..1 /\ version \in Nat /\ updates \in 0..UpdateBound
          /\ wpc \in {"idle", "odd", "copy", "swap"} /\ wtodo \subseteq Sides
          /\ \A b \in 0..1, s \in Sides : Fits(cold[b][s], MaxDepth)
          /\ \A s \in Sides : Fits(hot[s], HotDepth)
          /\ rpc \in [Readers -> {"idle", "load", "read", "return"}]
          /\ before \in [Readers -> Nat] /\ rtodo \in [Readers -> SUBSET Sides]

\* Line 226, "read was consistent": what a read returns is what one rebuild made
\* of both sides together, the last one complete at some moment of the call.
ReturnedIsOneRebuild == \A r \in Readers : rpc[r] = "return" => got[r] \in since[r]

\* The loop of line 203 has no bound: every read ends once the updates do.
ReadReturns == \A r \in Readers : rpc[r] = "load" ~> rpc[r] = "return"
=============================================================================
