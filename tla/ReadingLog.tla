------------------------------ MODULE ReadingLog ------------------------------
(***************************************************************************)
(* What telemetry ingestion promises, without requests, caches or faults:  *)
(* a log of readings that only grows and holds one reading for each        *)
(* (device, recordedAt), whose side effects run at most once, and of which *)
(* a device may be told, any number of times, that a reading is in it.     *)
(*                                                                         *)
(* The promise is deliberately no stronger: nothing says that every        *)
(* acknowledged reading has its effects (see AcknowledgedRanEffects in     *)
(* Ingestion).                                                             *)
(***************************************************************************)
CONSTANT Rows

VARIABLES
    log,           \* the readings stored
    effects,       \* the readings whose side effects have run
    acknowledged   \* the readings some device was told are stored

logVars == <<log, effects, acknowledged>>

LogInit == log = {} /\ effects = {} /\ acknowledged = {}

\* A reading is stored only if none has its device and time.
Append(row) ==
    /\ \A other \in log : ~(other.deviceId = row.deviceId /\ other.recordedAt = row.recordedAt)
    /\ log' = log \cup {row}
    /\ UNCHANGED <<effects, acknowledged>>

\* The side effects of a stored reading run, for the first and only time.
RunEffects(row) ==
    /\ row \in log \ effects
    /\ effects' = effects \cup {row}
    /\ acknowledged' = acknowledged \cup {row}
    /\ UNCHANGED log

Acknowledge(row) ==
    /\ row \in log
    /\ acknowledged' = acknowledged \cup {row}
    /\ UNCHANGED <<log, effects>>

LogNext == \E row \in Rows : Append(row) \/ RunEffects(row) \/ Acknowledge(row)

LogSpec == LogInit /\ [][LogNext]_logVars
==============================================================================
