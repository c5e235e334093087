-------------------------------- MODULE Alerts --------------------------------
(***************************************************************************)
(* The life of alerts: the verdicts a recorded reading publishes, the      *)
(* in-process event bus that hands each of them to one handler without     *)
(* waiting for it, the handler that raises alerts, the handler that        *)
(* resolves them, and the alerts table both write to.                      *)
(*                                                                         *)
(* A handler runs to its next database call; its pending call is the       *)
(* state kept here.  Publish assumes that no two readings of a device and  *)
(* time are published; Service, whose POSTs only Emit, is shown to keep to *)
(* that assumption.                                                        *)
(***************************************************************************)
EXTENDS Naturals, FiniteSets

CONSTANTS
    Devices,   \* device ids
    Types,     \* alert types, one per threshold rule
    Times,     \* recordedAt timestamps
    None,      \* null
    MaxBusy    \* bound: handlers still running when a reading is published

ASSUME AlertTimesAssumption == Times \subseteq Nat
ASSUME AlertNoneAssumption == None \notin Times

\* A verdict is about one rule and one reading; an alert has the verdict that
\* raised it for its identity (its triggeredAt is the verdict's recordedAt).
Verdicts == [deviceId : Devices, type : Types, recordedAt : Times]
Readings == [deviceId : Devices, recordedAt : Times, breached : SUBSET Types]
AlertRows == [raisedBy : Verdicts, resolvedAt : Times \cup {None}]

VARIABLES
    readings,   \* the readings whose verdicts were published
    raising,    \* breached verdicts whose handler waits for save
    clearing,   \* cleared verdicts whose handler waits for findActive
    resolving,  \* [by, alert]: the handler of verdict by loaded this alert and has yet to save it
    failed,     \* verdicts whose handler was cut short
    alerts,     \* the Alert table
    orderly     \* history: readings came in the order of recordedAt, each after the handlers of the last were done

alertVars == <<readings, raising, clearing, resolving, failed, alerts, orderly>>

AlertsTypeOK ==
    /\ readings \subseteq Readings
    /\ raising \subseteq Verdicts
    /\ clearing \subseteq Verdicts
    /\ resolving \subseteq [by : Verdicts, alert : Verdicts]
    /\ failed \subseteq Verdicts
    /\ alerts \subseteq AlertRows
    /\ orderly \in BOOLEAN

AlertsInit ==
    /\ readings = {}
    /\ raising = {}
    /\ clearing = {}
    /\ resolving = {}
    /\ failed = {}
    /\ alerts = {}
    /\ orderly = TRUE

------------------------------------------------------------------------------
Verdict(reading, type) ==
    [deviceId |-> reading.deviceId, type |-> type, recordedAt |-> reading.recordedAt]

Open(alert) == alert.resolvedAt = None

SameRule(v, w) == v.deviceId = w.deviceId /\ v.type = w.type

Busy == raising \cup clearing \cup {pair.by : pair \in resolving}

\* MUTANT: findActive forgets that an alert may be newer than the reading.
ActiveAtAnyTime(v) == {alert \in alerts : Open(alert) /\ SameRule(alert.raisedBy, v)}

\* MUTANT: findActive also returns alerts that are resolved.
RaisedBefore(v) ==
    {alert \in alerts : SameRule(alert.raisedBy, v) /\ alert.raisedBy.recordedAt <= v.recordedAt}

\* The open alerts of the verdict's rule raised no later than its reading.
Active(v) ==
    {alert \in alerts : /\ Open(alert)
                        /\ SameRule(alert.raisedBy, v)
                        /\ alert.raisedBy.recordedAt <= v.recordedAt}

\* What GET /alerts lists for the owner of the given devices.
ListActiveAlerts(devices) == {alert \in alerts : Open(alert) /\ alert.raisedBy.deviceId \in devices}

\* A recorded reading is judged by every rule, and each verdict starts its
\* handler: emit() returns when the handlers have reached their first await.
Emit(reading) ==
    /\ Cardinality(Busy) <= MaxBusy
    /\ readings' = readings \cup {reading}
    /\ raising' = raising \cup {Verdict(reading, type) : type \in reading.breached}
    /\ clearing' = clearing \cup {Verdict(reading, type) : type \in Types \ reading.breached}
    /\ orderly' = (/\ orderly
                   /\ Busy = {}
                   /\ \A other \in readings : other.deviceId = reading.deviceId => other.recordedAt < reading.recordedAt)
    /\ UNCHANGED <<resolving, failed, alerts>>

\* What is assumed of the source of readings: one for each device and time.
\* Nothing in the event bus or the handlers sees to it; Service has to.
Publish(reading) ==
    /\ \A other \in readings : other.deviceId = reading.deviceId => other.recordedAt # reading.recordedAt
    /\ Emit(reading)

\* MUTANT: no second alert while one is open.
RaiseUnlessOpen(v) ==
    /\ v \in raising
    /\ raising' = raising \ {v}
    /\ alerts' = IF \E alert \in alerts : Open(alert) /\ SameRule(alert.raisedBy, v)
                 THEN alerts
                 ELSE alerts \cup {[raisedBy |-> v, resolvedAt |-> None]}
    /\ UNCHANGED <<readings, clearing, resolving, failed, orderly>>

\* MUTANT: a new breach reopens the alerts of its rule.
RaiseReopens(v) ==
    /\ v \in raising
    /\ raising' = raising \ {v}
    /\ alerts' = {[alert EXCEPT !.resolvedAt = IF SameRule(alert.raisedBy, v) THEN None ELSE @] : alert \in alerts}
                    \cup {[raisedBy |-> v, resolvedAt |-> None]}
    /\ UNCHANGED <<readings, clearing, resolving, failed, orderly>>

\* The breach handler always raises a new alert.
Raise(v) ==
    /\ v \in raising
    /\ raising' = raising \ {v}
    /\ alerts' = alerts \cup {[raisedBy |-> v, resolvedAt |-> None]}
    /\ UNCHANGED <<readings, clearing, resolving, failed, orderly>>

\* The cleared handler loads the alerts it will resolve.
FindActive(v) ==
    /\ v \in clearing
    /\ clearing' = clearing \ {v}
    /\ resolving' = resolving \cup {[by |-> v, alert |-> alert.raisedBy] : alert \in Active(v)}
    /\ UNCHANGED <<readings, raising, failed, alerts, orderly>>

\* MUTANT: only one of the loaded alerts is resolved.
ResolveFirstOnly(v, a) ==
    /\ [by |-> v, alert |-> a] \in resolving
    /\ resolving' = {pair \in resolving : pair.by # v}
    /\ alerts' = {alert \in alerts : alert.raisedBy # a} \cup {[raisedBy |-> a, resolvedAt |-> v.recordedAt]}
    /\ UNCHANGED <<readings, raising, clearing, failed, orderly>>

\* MUTANT: the recovery is dated when it is handled, after the reading.
ResolveWhenHandled(v, a) ==
    /\ [by |-> v, alert |-> a] \in resolving
    /\ resolving' = resolving \ {[by |-> v, alert |-> a]}
    /\ alerts' = {alert \in alerts : alert.raisedBy # a} \cup {[raisedBy |-> a, resolvedAt |-> v.recordedAt + 1]}
    /\ UNCHANGED <<readings, raising, clearing, failed, orderly>>

\* One turn of the cleared handler's loop.  resolve() looks at the loaded copy,
\* which was open, and save() writes the whole row back by its id.
Resolve(v, a) ==
    /\ [by |-> v, alert |-> a] \in resolving
    /\ resolving' = resolving \ {[by |-> v, alert |-> a]}
    /\ alerts' = {alert \in alerts : alert.raisedBy # a} \cup {[raisedBy |-> a, resolvedAt |-> v.recordedAt]}
    /\ UNCHANGED <<readings, raising, clearing, failed, orderly>>

\* The handler's database call throws, which it logs and swallows, leaving the
\* rest of its loop undone; or its process dies.
Abandon(v) ==
    /\ v \in Busy
    /\ failed' = failed \cup {v}
    /\ raising' = raising \ {v}
    /\ clearing' = clearing \ {v}
    /\ resolving' = {pair \in resolving : pair.by # v}
    /\ UNCHANGED <<readings, alerts, orderly>>

AlertsNext ==
    \/ \E reading \in Readings : Publish(reading)
    \/ \E v \in Verdicts : Raise(v) \/ FindActive(v) \/ Abandon(v)
    \/ \E v, a \in Verdicts : Resolve(v, a)

AlertsSpec == AlertsInit /\ [][AlertsNext]_alertVars

\* Every database call a handler awaits comes back.
AlertsFairness ==
    \A v \in Verdicts : /\ WF_alertVars(Raise(v))
                        /\ WF_alertVars(FindActive(v))
                        /\ WF_alertVars(\E a \in Verdicts : Resolve(v, a))

FairAlertsSpec == AlertsSpec /\ AlertsFairness

------------------------------------------------------------------------------
(* What the handlers promise.                                              *)

Breached(v) == \E reading \in readings : v.type \in reading.breached /\ v = Verdict(reading, v.type)
Healthy(v) == \E reading \in readings : v.type \notin reading.breached /\ v = Verdict(reading, v.type)

\* The audit trail is honest: an alert stems from a published breaching reading,
\* there is one row for it, and if it is resolved, then at the time of a healthy
\* reading of the same device and rule that is not older than the breach.
AlertsAreGrounded ==
    \A alert \in alerts :
        /\ Breached(alert.raisedBy)
        /\ \A other \in alerts : other.raisedBy = alert.raisedBy => other = alert
        /\ ~Open(alert) =>
             /\ alert.resolvedAt >= alert.raisedBy.recordedAt
             /\ Healthy([alert.raisedBy EXCEPT !.recordedAt = alert.resolvedAt])

\* An alert is never deleted, and once resolved it is never open again, whatever
\* other handlers write.
ResolvedStaysResolved ==
    [][\A alert \in alerts : \E now \in alerts' :
          now.raisedBy = alert.raisedBy /\ (Open(now) => Open(alert))]_alerts

Raised(v) == \E alert \in alerts : alert.raisedBy = v

\* No breach is forgotten: its handler has yet to save the alert, was cut short,
\* or has raised the alert.  An alert that is open already makes no difference.
EveryBreachRaised ==
    \A reading \in readings : \A type \in reading.breached :
        LET v == Verdict(reading, type)
        IN v \in raising \/ v \in failed \/ Raised(v)

\* A healthy reading resolves every alert of its rule that was raised before its
\* handler looked, however many there are, unless the handler is cut short.
HealthyReadingResolves ==
    \A v, a \in Verdicts :
        (v \in clearing /\ \E alert \in Active(v) : alert.raisedBy = a)
            ~> (v \in failed \/ \E alert \in alerts : alert.raisedBy = a /\ ~Open(alert))

\* When a device reports in order and its handlers keep up, resolvedAt is written
\* once: the recorded recovery of an alert never moves.
ResolvedOnce ==
    [][orderly => \A alert \in alerts : ~Open(alert) => alert \in alerts']_alerts

\* When a device reports in order and its handlers keep up, the condition of an
\* open alert is still true: a healthy reading since the breach has its handler
\* about to resolve the alert, or it was cut short.
OpenMeansStillTrue ==
    orderly => \A alert \in alerts : Open(alert) =>
        \A v \in Verdicts :
            /\ Healthy(v)
            /\ SameRule(v, alert.raisedBy)
            /\ v.recordedAt >= alert.raisedBy.recordedAt
            => v \in failed \cup clearing \/ [by |-> v, alert |-> alert.raisedBy] \in resolving

\* Even when a device reports in order and its handlers keep up, it has at most
\* one open alert per threshold.
OneOpenAlertPerThreshold ==
    orderly => \A a, b \in alerts : Open(a) /\ Open(b) /\ SameRule(a.raisedBy, b.raisedBy) => a = b

===============================================================================
