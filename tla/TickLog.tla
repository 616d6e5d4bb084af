------------------------------ MODULE TickLog ------------------------------
(***************************************************************************)
(* src/include/chronos/logging/log_writer.hpp and log_reader.hpp: records  *)
(* of a fixed size are copied into one buffer per type, appended to files  *)
(* by a background thread, and read back from a mapping of the file as it  *)
(* is when it is opened.                                                   *)
(*                                                                         *)
(* Bytes are counted in units, so that a record is Size[t] units and a     *)
(* crash can leave part of one.  A record is a timestamp and whether       *)
(* validateRecord passes it.  The bodies of flushBuffer, stop and open are *)
(* in the library: they are here as the headers describe them.             *)
(***************************************************************************)
EXTENDS Integers, Sequences

CONSTANTS Types, Size,   \* the log types, and their record sizes in units
          Capacity,      \* units in a buffer: LogConfig::buffer_size
          Stamps,        \* timestamps of records
          RecordBound    \* how many records of a type are accepted

ASSUME LogAssumption == /\ Size \in [Types -> Nat \ {0}] /\ Capacity \in Nat
                        /\ RecordBound \in Nat /\ Stamps \subseteq Nat

Records == [stamp : Stamps, valid : BOOLEAN]

VARIABLES
    running,    \* the writer's running_
    buf, disk,  \* the units in each buffer and each file
    accepted    \* the records of each type that a write has taken

logVars == <<running, buf, disk, accepted>>

LogInit == /\ running = TRUE
           /\ buf = [t \in Types |-> << >>] /\ disk = [t \in Types |-> << >>]
           /\ accepted = [t \in Types |-> << >>]

Units(t, record) == [i \in 1..Size[t] |-> [record |-> record, part |-> i]]

-----------------------------------------------------------------------------
(* Faults, used by no specification *)

AppendOneTooMany(t, record) ==
    IF Len(buf[t]) > Capacity THEN UNCHANGED <<buf, accepted>>
    ELSE /\ buf' = [buf EXCEPT ![t] = @ \o Units(t, record)]
         /\ accepted' = [accepted EXCEPT ![t] = Append(@, record)]
RecordAtUnit(units, t, index) == units[index].record

-----------------------------------------------------------------------------
(* LogWriter *)

\* appendToBuffer, under the buffer's mutex: whole records, or nothing.
AppendToBuffer(t, record) ==
    IF Len(buf[t]) + Size[t] > Capacity
    THEN UNCHANGED <<buf, accepted>>
    ELSE /\ buf' = [buf EXCEPT ![t] = @ \o Units(t, record)]
         /\ accepted' = [accepted EXCEPT ![t] = Append(@, record)]

\* writeTick, writeOrder, writeFill; no caller looks at the answer.
Write(t, record) == /\ running /\ Len(accepted[t]) < RecordBound
                    /\ AppendToBuffer(t, record)
                    /\ UNCHANGED <<running, disk>>

\* The background thread, each flush_interval_ms, one buffer after the other.
FlushBuffer(t) == /\ running /\ buf[t] # << >>
                  /\ disk' = [disk EXCEPT ![t] = @ \o buf[t]]
                  /\ buf' = [buf EXCEPT ![t] = << >>]
                  /\ UNCHANGED <<running, accepted>>

\* flush() and stop() at the end of main.
FlushAndStop == /\ running /\ running' = FALSE
                /\ disk' = [t \in Types |-> disk[t] \o buf[t]]
                /\ buf' = [t \in Types |-> << >>]
                /\ UNCHANGED accepted

\* The process dies: of what was in a buffer, some first units are in the file.
Crash == /\ running /\ running' = FALSE
         /\ \E n \in [Types -> 0..Capacity] :
               /\ \A t \in Types : n[t] <= Len(buf[t])
               /\ disk' = [t \in Types |-> disk[t] \o SubSeq(buf[t], 1, n[t])]
         /\ buf' = [t \in Types |-> << >>]
         /\ UNCHANGED accepted

-----------------------------------------------------------------------------
(* LogReader *)

\* Number of complete records in the file.
RecordCount(units, t) == Len(units) \div Size[t]

\* tickAt, orderAt, fillAt: the mapping from the record's offset on.
RecordAt(units, t, index) == units[(index - 1) * Size[t] + 1].record

ReadLog(units, t) == [i \in 1..RecordCount(units, t) |-> RecordAt(units, t, i)]

-----------------------------------------------------------------------------
(* What must hold *)

\* Buffers stay within their size.
LogTypeOK == /\ running \in BOOLEAN
             /\ \A t \in Types : /\ Len(buf[t]) <= Capacity
                                 /\ \A i \in DOMAIN accepted[t] : accepted[t][i] \in Records

\* Whenever a file is read, also while the writer runs and after a crash in the
\* middle of a record, the records it holds are the first ones that were
\* accepted, whole and in order (log_reader.hpp:62, "complete records").
LogHoldsAccepted ==
    \A t \in Types :
        LET log == ReadLog(disk[t], t)
        IN  /\ Len(log) <= Len(accepted[t])
            /\ \A i \in DOMAIN log :
                  /\ log[i] = accepted[t][i]
                  /\ \A k \in 1..Size[t] : disk[t][(i - 1) * Size[t] + k]
                                             = [record |-> accepted[t][i], part |-> k]
=============================================================================
