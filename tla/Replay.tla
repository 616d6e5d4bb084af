------------------------------- MODULE Replay -------------------------------
(***************************************************************************)
(* src/include/chronos/backtest/time_replayer.hpp and the replay loop of   *)
(* src/src/main.cpp: logs are opened, perhaps while the same directory is  *)
(* still being written to, and merged by the timestamps of their heads.    *)
(* The heap has at most one entry per stream, so it is the set of streams  *)
(* that have one; among equal timestamps it pops any.                      *)
(***************************************************************************)
EXTENDS TickLog, FiniteSets

VARIABLES
    streams, log,     \* the logs added, and the records of each as mapped
    pos, heap,        \* the position in each stream, the streams on the heap
    processed, now,   \* events_processed_, current_time_
    delivered,        \* what the callbacks have been given, per stream
    signalled,        \* ~g_running
    rpc               \* where main is

replayer == <<streams, log, pos, heap, processed, now, delivered>>
vars == <<logVars, replayer, signalled, rpc>>

Init == /\ LogInit
        /\ streams = {} /\ log = [t \in Types |-> << >>]
        /\ pos = [t \in Types |-> 0] /\ heap = {}
        /\ processed = 0 /\ now = 0
        /\ delivered = [t \in Types |-> << >>]
        /\ signalled = FALSE /\ rpc = "record"

Valid(r) == r.valid
Stamp(t) == log[t][pos[t]].stamp
Events == UNION {{t} \X DOMAIN log[t] : t \in streams}
TotalEvents == Cardinality(Events)
IsExhausted == processed >= TotalEvents

-----------------------------------------------------------------------------
(* Faults, used by no specification *)

NextPosSkips(records, p) ==
    IF p + 2 <= Len(records) /\ records[p + 2].valid THEN p + 2 ELSE Len(records) + 1
AnyHead(t) == t \in heap
NoEventGoesOn == heap = {} /\ rpc' = "test" /\ UNCHANGED <<logVars, replayer>>

-----------------------------------------------------------------------------
(* The log is written by a live session or by generate_demo_logs *)

Produce == /\ \E t \in Types, r \in Records : Write(t, r)
           /\ UNCHANGED <<replayer, signalled, rpc>>

Session == (\E t \in Types : FlushBuffer(t)) \/ FlushAndStop \/ Crash

LogSession == Session /\ UNCHANGED <<replayer, signalled, rpc>>

-----------------------------------------------------------------------------
(* TimeReplayer and the replay loop *)

\* openLogDirectory maps the files; each can be empty or have a partial record.
OpenLogDirectory == /\ rpc = "record" /\ rpc' = "add"
                    /\ log' = [t \in Types |-> ReadLog(disk[t], t)]
                    /\ UNCHANGED <<logVars, streams, pos, heap, processed, now, delivered, signalled>>

\* advanceStream: the next valid record behind p, or one past the end.
NextPos(records, p) ==
    LET after == {i \in p + 1..Len(records) : records[i].valid}
    IN  IF after = {} THEN Len(records) + 1 ELSE CHOOSE i \in after : \A j \in after : i <= j

AdvanceStream(t) ==
    LET next == NextPos(log[t], pos[t])
    IN  /\ pos' = [pos EXCEPT ![t] = next]
        /\ heap' = IF next > Len(log[t]) THEN heap \ {t} ELSE heap \cup {t}

AddStream(t) == /\ rpc = "add" /\ t \notin streams
                /\ streams' = streams \cup {t}
                /\ AdvanceStream(t)
                /\ UNCHANGED <<logVars, log, processed, now, delivered, signalled, rpc>>

StartLoop == /\ rpc = "add" /\ streams # {} /\ rpc' = "test"
             /\ UNCHANGED <<logVars, replayer, signalled>>

\* The condition of the loop.
TestLoop == /\ rpc = "test"
            /\ rpc' = IF signalled \/ IsExhausted THEN "done" ELSE "advance"
            /\ UNCHANGED <<logVars, replayer, signalled>>

IsNext(t) == t \in heap /\ \A u \in heap : Stamp(t) <= Stamp(u)

\* The tick callback does nothing once the signal is there, and logs the tick if
\* the writer runs: in the same directory, perhaps.
Callback(t) ==
    /\ delivered' = IF signalled THEN delivered
                    ELSE [delivered EXCEPT ![t] = Append(@, pos[t])]
    /\ \/ UNCHANGED logVars
       \/ t = "tick" /\ ~signalled /\ Write(t, log[t][pos[t]])

\* advanceToNextEvent answers false, which ends the loop (line 276).
NoEventRemains == heap = {} /\ rpc' = "done" /\ UNCHANGED <<logVars, replayer>>

AdvanceToNextEvent ==
    /\ rpc = "advance"
    /\ \/ NoEventRemains
       \/ \E t \in Types : /\ IsNext(t)
                           /\ rpc' = "test"
                           /\ now' = Stamp(t) /\ processed' = processed + 1
                           /\ Callback(t)
                           /\ AdvanceStream(t)
                           /\ UNCHANGED <<streams, log>>
    /\ UNCHANGED signalled

Signal == /\ rpc \in {"test", "advance"} /\ ~signalled /\ signalled' = TRUE
          /\ UNCHANGED <<logVars, replayer, rpc>>

Done == rpc = "done" /\ UNCHANGED vars

Loop == TestLoop \/ AdvanceToNextEvent
Next == \/ Produce \/ LogSession \/ OpenLogDirectory \/ StartLoop \/ Loop \/ Signal \/ Done
        \/ \E t \in Types : AddStream(t)

Spec == Init /\ [][Next]_vars

\* The main thread runs on in its loop.
FairSpec == Spec /\ WF_vars(Loop)

-----------------------------------------------------------------------------
(* What must hold *)

\* The replayer's members have their types, and the log its sizes.
TypeOK == /\ LogTypeOK
          /\ streams \subseteq Types /\ heap \subseteq streams
          /\ \A t \in Types : pos[t] \in 0..Len(log[t]) + 1
          /\ processed \in 0..TotalEvents
          /\ rpc \in {"record", "add", "test", "advance", "done"}

Ordered(s) == \A i, j \in DOMAIN s : i < j => s[i].stamp <= s[j].stamp

\* time_replayer.hpp:19, "deliver events in strict timestamp order": virtual
\* time never goes back, if none of the logs does.  (It may where a log does,
\* since ticks are logged as they arrive.)
TimeMovesOn == [][(\A t \in streams : Ordered(log[t])) => now' >= now]_vars

\* A replay that is not interrupted gives the callbacks every valid record of
\* every stream, in the order of its log, once: isExhausted counts the invalid
\* ones too (lines 51-58), so that it is "no event remains" that ends the loop.
AllValidDelivered ==
    /\ \A t \in streams : \A i, j \in DOMAIN delivered[t] : i < j => delivered[t][i] < delivered[t][j]
    /\ rpc = "done" /\ ~signalled =>
         \A t \in streams : \A i \in DOMAIN log[t] :
             log[t][i].valid <=> \E k \in DOMAIN delivered[t] : delivered[t][k] = i

\* The loop ends, also if what it writes makes the file it replays longer.
ReplayEnds == (rpc = "test") ~> (rpc = "done")
=============================================================================
