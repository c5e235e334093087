----------------------------- MODULE AlertsProofs -----------------------------
(***************************************************************************)
(* Proofs about Alerts for any devices, rules and timestamps, and for      *)
(* handlers that interleave and fail at will.                              *)
(***************************************************************************)
EXTENDS Alerts, TLAPS

\* There is one alert for a verdict.
OneRowPerVerdict ==
    \A a, b \in alerts : a.raisedBy = b.raisedBy => a = b

\* An alert was raised by a breach and resolved by a later healthy reading.
RowsAreGrounded ==
    \A alert \in alerts :
        /\ Breached(alert.raisedBy)
        /\ ~Open(alert) => /\ alert.resolvedAt >= alert.raisedBy.recordedAt
                           /\ Healthy([alert.raisedBy EXCEPT !.recordedAt = alert.resolvedAt])

\* The handlers at work are those of published verdicts, and a breach handler
\* that still waits for save has no row yet.
HandlersAreGrounded ==
    /\ \A v \in raising : Breached(v) /\ \A alert \in alerts : alert.raisedBy # v
    /\ \A v \in clearing : Healthy(v)

\* What a cleared handler has loaded are rows it may resolve.
LoadedAreResolvable ==
    \A pair \in resolving :
        /\ Healthy(pair.by)
        /\ SameRule(pair.alert, pair.by)
        /\ pair.alert.recordedAt <= pair.by.recordedAt
        /\ \E alert \in alerts : alert.raisedBy = pair.alert

AlertsInv ==
    /\ AlertsTypeOK
    /\ OneRowPerVerdict
    /\ RowsAreGrounded
    /\ HandlersAreGrounded
    /\ LoadedAreResolvable

------------------------------------------------------------------------------
\* A verdict about a published reading stays one: readings are only added.
LEMMA VerdictsPersist ==
    ASSUME NEW v, readings \subseteq readings'
    PROVE  (Breached(v) => Breached(v)') /\ (Healthy(v) => Healthy(v)')
BY DEF Breached, Healthy, Verdict

LEMMA PublishPreserves ==
    ASSUME AlertsInv, NEW reading \in Readings, Publish(reading)
    PROVE  AlertsInv'
<1> USE DEF AlertsInv, Publish, Emit
<1>1. AlertsTypeOK'
  BY DEF AlertsTypeOK, Readings, Verdicts, Verdict
<1>2. \A v : (Breached(v) => Breached(v)') /\ (Healthy(v) => Healthy(v)')
  BY VerdictsPersist
<1>3. OneRowPerVerdict'
  BY DEF OneRowPerVerdict
<1>4. RowsAreGrounded'
  BY <1>2 DEF RowsAreGrounded, Open
<1>5. \A type \in Types : ~Breached(Verdict(reading, type))
  <2>1. \A other \in readings : ~(other.deviceId = reading.deviceId /\ other.recordedAt = reading.recordedAt)
    OBVIOUS
  <2> QED BY <2>1 DEF Breached, Verdict
<1>6. HandlersAreGrounded'
  <2>1. \A type \in reading.breached : Breached(Verdict(reading, type))'
    BY DEF Breached, Verdict
  <2>2. \A type \in Types \ reading.breached : Healthy(Verdict(reading, type))'
    BY DEF Healthy, Verdict
  <2>3. \A type \in reading.breached : \A alert \in alerts : alert.raisedBy # Verdict(reading, type)
    BY <1>5 DEF RowsAreGrounded, Readings
  <2> QED BY <1>2, <2>1, <2>2, <2>3 DEF HandlersAreGrounded
<1>7. LoadedAreResolvable'
  BY <1>2 DEF LoadedAreResolvable, SameRule
<1> QED BY <1>1, <1>3, <1>4, <1>6, <1>7

LEMMA RaisePreserves ==
    ASSUME AlertsInv, NEW v \in Verdicts, Raise(v)
    PROVE  AlertsInv'
<1> USE DEF AlertsInv, Raise
<1>1. AlertsTypeOK'
  BY DEF AlertsTypeOK, AlertRows
<1>2. \A w : (Breached(w)' <=> Breached(w)) /\ (Healthy(w)' <=> Healthy(w))
  BY DEF Breached, Healthy, Verdict
<1>3. OneRowPerVerdict'
  BY DEF OneRowPerVerdict, HandlersAreGrounded
<1>4. RowsAreGrounded'
  <2> SUFFICES ASSUME NEW alert \in alerts'
               PROVE  /\ Breached(alert.raisedBy)
                      /\ ~Open(alert) => /\ alert.resolvedAt >= alert.raisedBy.recordedAt
                                         /\ Healthy([alert.raisedBy EXCEPT !.recordedAt = alert.resolvedAt])
    BY <1>2, Zenon DEF RowsAreGrounded, Open
  <2>1. CASE alert \in alerts
    BY <2>1 DEF RowsAreGrounded
  <2>2. CASE alert = [raisedBy |-> v, resolvedAt |-> None]
    BY <2>2 DEF Open, HandlersAreGrounded
  <2> QED BY <2>1, <2>2
<1>5. HandlersAreGrounded'
  BY <1>2 DEF HandlersAreGrounded
<1>6. LoadedAreResolvable'
  BY <1>2 DEF LoadedAreResolvable, SameRule
<1> QED BY <1>1, <1>3, <1>4, <1>5, <1>6

LEMMA FindActivePreserves ==
    ASSUME AlertsInv, NEW v \in Verdicts, FindActive(v)
    PROVE  AlertsInv'
<1> USE DEF AlertsInv, FindActive
<1>1. AlertsTypeOK'
  BY DEF AlertsTypeOK, AlertRows, Active
<1>2. \A w : (Breached(w)' <=> Breached(w)) /\ (Healthy(w)' <=> Healthy(w))
  BY DEF Breached, Healthy, Verdict
<1>3. OneRowPerVerdict' /\ RowsAreGrounded' /\ HandlersAreGrounded'
  BY <1>2 DEF OneRowPerVerdict, RowsAreGrounded, HandlersAreGrounded, Open
<1>4. LoadedAreResolvable'
  BY <1>2 DEF LoadedAreResolvable, HandlersAreGrounded, Active, SameRule
<1> QED BY <1>1, <1>3, <1>4

LEMMA ResolvePreserves ==
    ASSUME AlertsInv, NEW v \in Verdicts, NEW a \in Verdicts, Resolve(v, a)
    PROVE  AlertsInv'
<1> USE DEF AlertsInv, Resolve
<1>1. AlertsTypeOK'
  BY DEF AlertsTypeOK, AlertRows, Verdicts
<1>2. \A w : (Breached(w)' <=> Breached(w)) /\ (Healthy(w)' <=> Healthy(w))
  BY DEF Breached, Healthy, Verdict
<1>3. Healthy(v) /\ SameRule(a, v) /\ a.recordedAt <= v.recordedAt /\ \E alert \in alerts : alert.raisedBy = a
  BY DEF LoadedAreResolvable
<1>4. [a EXCEPT !.recordedAt = v.recordedAt] = v
  BY <1>3 DEF SameRule, Verdicts
<1>5. OneRowPerVerdict'
  BY DEF OneRowPerVerdict
<1>6. RowsAreGrounded'
  <2> SUFFICES ASSUME NEW alert \in alerts'
               PROVE  /\ Breached(alert.raisedBy)
                      /\ ~Open(alert) => /\ alert.resolvedAt >= alert.raisedBy.recordedAt
                                         /\ Healthy([alert.raisedBy EXCEPT !.recordedAt = alert.resolvedAt])
    BY <1>2, Zenon DEF RowsAreGrounded, Open
  <2>1. CASE alert \in alerts
    BY <2>1 DEF RowsAreGrounded
  <2>2. CASE alert = [raisedBy |-> a, resolvedAt |-> v.recordedAt]
    <3>1. Breached(a)
      BY <1>3 DEF RowsAreGrounded
    <3>2. v.recordedAt >= a.recordedAt
      BY <1>3, AlertTimesAssumption DEF Verdicts
    <3>3. alert.raisedBy = a /\ alert.resolvedAt = v.recordedAt
      BY <2>2
    <3>4. Healthy([alert.raisedBy EXCEPT !.recordedAt = alert.resolvedAt])
      BY <3>3, <1>3, <1>4
    <3> QED BY <3>1, <3>2, <3>3, <3>4
  <2> QED BY <2>1, <2>2
<1>7. HandlersAreGrounded'
  BY <1>2, <1>3 DEF HandlersAreGrounded
<1>8. LoadedAreResolvable'
  <2>1. ASSUME NEW alert \in alerts
        PROVE  \E now \in alerts' : now.raisedBy = alert.raisedBy
    <3> DEFINE resolved == [raisedBy |-> a, resolvedAt |-> v.recordedAt]
    <3>1. resolved \in alerts' /\ resolved.raisedBy = a
      OBVIOUS
    <3>2. alert.raisedBy # a => alert \in alerts'
      OBVIOUS
    <3> QED BY <3>1, <3>2
  <2> QED BY <1>2, <2>1 DEF LoadedAreResolvable, SameRule
<1> QED BY <1>1, <1>5, <1>6, <1>7, <1>8

LEMMA AbandonPreserves ==
    ASSUME AlertsInv, NEW v \in Verdicts, Abandon(v)
    PROVE  AlertsInv'
<1> USE DEF AlertsInv, Abandon
<1>1. AlertsTypeOK'
  BY DEF AlertsTypeOK
<1>2. \A w : (Breached(w)' <=> Breached(w)) /\ (Healthy(w)' <=> Healthy(w))
  BY DEF Breached, Healthy, Verdict
<1>3. OneRowPerVerdict' /\ RowsAreGrounded' /\ HandlersAreGrounded' /\ LoadedAreResolvable'
  BY <1>2 DEF OneRowPerVerdict, RowsAreGrounded, HandlersAreGrounded, LoadedAreResolvable, Open, SameRule
<1> QED BY <1>1, <1>3

LEMMA AlertsNextPreserves == AlertsInv /\ [AlertsNext]_alertVars => AlertsInv'
<1> SUFFICES ASSUME AlertsInv, [AlertsNext]_alertVars PROVE AlertsInv'
  OBVIOUS
<1>1. CASE UNCHANGED alertVars
  BY <1>1 DEF alertVars, AlertsInv, AlertsTypeOK, OneRowPerVerdict, RowsAreGrounded, HandlersAreGrounded,
              LoadedAreResolvable, Open, SameRule, Breached, Healthy, Verdict
<1>2. CASE AlertsNext
  BY <1>2, PublishPreserves, RaisePreserves, FindActivePreserves, ResolvePreserves, AbandonPreserves
     DEF AlertsNext
<1> QED BY <1>1, <1>2

\* AlertsInv is an invariant of the handlers.
THEOREM AlertsInvariance == AlertsSpec => []AlertsInv
<1>1. AlertsInit => AlertsInv
  BY DEF AlertsInit, AlertsInv, AlertsTypeOK, OneRowPerVerdict, RowsAreGrounded, HandlersAreGrounded,
         LoadedAreResolvable
<1> QED BY <1>1, AlertsNextPreserves, PTL DEF AlertsSpec

\* Every variable keeps its type.
THEOREM AlertsTypeCorrect == AlertsSpec => []AlertsTypeOK
<1>1. AlertsInv => AlertsTypeOK
  BY DEF AlertsInv
<1> QED BY <1>1, AlertsInvariance, PTL

\* However the handlers interleave and wherever they fail, every alert stems
\* from a breach and is resolved only by a healthy reading that is not older.
THEOREM AlertsGrounded == AlertsSpec => []AlertsAreGrounded
<1>1. AlertsInv => AlertsAreGrounded
  BY DEF AlertsInv, AlertsAreGrounded, OneRowPerVerdict, RowsAreGrounded
<1> QED BY <1>1, AlertsInvariance, PTL

\* No handler reopens or deletes an alert, not even one that writes a stale copy.
THEOREM NeverReopened == AlertsSpec => ResolvedStaysResolved
<1>1. AlertsInv /\ [AlertsNext]_alertVars =>
        [\A alert \in alerts : \E now \in alerts' :
            now.raisedBy = alert.raisedBy /\ (Open(now) => Open(alert))]_alerts
  <2> SUFFICES ASSUME AlertsInv, AlertsNext, alerts' # alerts, NEW alert \in alerts
               PROVE  \E now \in alerts' : now.raisedBy = alert.raisedBy /\ (Open(now) => Open(alert))
    BY DEF alertVars
  <2>1. CASE alert \in alerts'
    BY <2>1
  <2>2. CASE alert \notin alerts'
    <3>1. PICK v \in Verdicts, a \in Verdicts : Resolve(v, a)
      BY <2>2 DEF AlertsNext, Publish, Emit, Raise, FindActive, Abandon
    <3> DEFINE now == [raisedBy |-> a, resolvedAt |-> v.recordedAt]
    <3>2. now \in alerts' /\ alert.raisedBy = a
      BY <2>2, <3>1 DEF Resolve
    <3>3. ~Open(now)
      BY AlertNoneAssumption DEF Open, Verdicts
    <3> QED BY <3>2, <3>3
  <2> QED BY <2>1, <2>2
<1> QED BY <1>1, AlertsInvariance, PTL DEF AlertsSpec, ResolvedStaysResolved

LEMMA EveryBreachRaisedPreserved ==
    EveryBreachRaised /\ [AlertsNext]_alertVars => EveryBreachRaised'
<1> SUFFICES ASSUME EveryBreachRaised, [AlertsNext]_alertVars,
                    NEW reading \in readings', NEW type \in reading.breached
             PROVE  LET v == Verdict(reading, type)
                    IN v \in raising' \/ v \in failed' \/ Raised(v)'
  BY DEF EveryBreachRaised, Verdict, Raised
<1> DEFINE v == Verdict(reading, type)
<1> HIDE DEF v
<1>1. CASE reading \notin readings
  <2>1. PICK new \in Readings : Publish(new)
    BY <1>1 DEF AlertsNext, Raise, FindActive, Abandon, Resolve, alertVars
  <2>2. reading = new
    BY <1>1, <2>1 DEF Publish, Emit
  <2> QED BY <2>1, <2>2 DEF Publish, Emit, v
<1>2. CASE reading \in readings
  <2>1. v \in raising \/ v \in failed \/ Raised(v)
    BY <1>2 DEF EveryBreachRaised, v
  <2>2. v \in failed => v \in failed'
    BY DEF AlertsNext, Publish, Emit, Raise, FindActive, Resolve, Abandon, alertVars
  <2>3. ASSUME Raised(v)
        PROVE  Raised(v)'
    <3>1. PICK alert \in alerts : alert.raisedBy = v
      BY <2>3 DEF Raised
    <3>2. CASE alert \in alerts'
      BY <3>1, <3>2 DEF Raised
    <3>3. CASE alert \notin alerts'
      <4>1. PICK w \in Verdicts, a \in Verdicts : Resolve(w, a)
        BY <3>3 DEF AlertsNext, Publish, Emit, Raise, FindActive, Abandon, alertVars
      <4> DEFINE resolved == [raisedBy |-> a, resolvedAt |-> w.recordedAt]
      <4>2. a = v /\ resolved \in alerts'
        BY <3>1, <3>3, <4>1 DEF Resolve
      <4>3. resolved.raisedBy = v
        BY <4>2
      <4> QED BY <4>2, <4>3 DEF Raised
    <3> QED BY <3>2, <3>3
  <2>4. ASSUME v \in raising
        PROVE  v \in raising' \/ v \in failed' \/ Raised(v)'
    <3>1. CASE v \notin raising'
      <4>1. PICK w \in Verdicts : Raise(w) \/ Abandon(w)
        BY <2>4, <3>1 DEF AlertsNext, Publish, Emit, FindActive, Resolve, alertVars
      <4>2. w = v
        BY <2>4, <3>1, <4>1 DEF Raise, Abandon
      <4>3. CASE Raise(w)
        <5> DEFINE raised == [raisedBy |-> w, resolvedAt |-> None]
        <5>1. raised \in alerts' /\ raised.raisedBy = v
          BY <4>2, <4>3 DEF Raise
        <5> QED BY <5>1 DEF Raised
      <4>4. CASE Abandon(w)
        BY <4>2, <4>4 DEF Abandon
      <4> QED BY <4>1, <4>3, <4>4
    <3> QED BY <3>1
  <2> QED BY <2>1, <2>2, <2>3, <2>4 DEF v
<1> QED BY <1>1, <1>2 DEF v

\* Whatever alerts are open already and however handlers interleave, a published
\* breach has its alert unless its own handler is still at work or was cut short.
THEOREM BreachesRaised == AlertsSpec => []EveryBreachRaised
<1>1. AlertsInit => EveryBreachRaised
  BY DEF AlertsInit, EveryBreachRaised
<1> QED BY <1>1, EveryBreachRaisedPreserved, PTL DEF AlertsSpec

------------------------------------------------------------------------------
(* Devices that report in order, whose handlers keep up.                   *)

\* A reading is known by its device and time.
OnePerTime ==
    \A x, y \in readings : x.deviceId = y.deviceId /\ x.recordedAt = y.recordedAt => x = y

\* The handlers at work are those of the device's newest reading.
BusyAreNewest ==
    orderly => \A v \in Busy : \A reading \in readings :
        reading.deviceId = v.deviceId => reading.recordedAt <= v.recordedAt

\* What a handler has loaded is still as it was.
LoadedAreOpen ==
    orderly => \A pair \in resolving : \A alert \in alerts : alert.raisedBy = pair.alert => Open(alert)

OrderlyInv ==
    /\ OnePerTime
    /\ BusyAreNewest
    /\ LoadedAreOpen
    /\ OpenMeansStillTrue

\* No reading breaches a rule and clears it.
LEMMA BreachedIsNotHealthy ==
    ASSUME OnePerTime, NEW v, Breached(v)
    PROVE  ~Healthy(v)
BY DEF OnePerTime, Breached, Healthy, Verdict

LEMMA OrderlyPublish ==
    ASSUME AlertsInv, OrderlyInv, NEW reading \in Readings, Publish(reading)
    PROVE  OrderlyInv'
<1> USE DEF Publish, Emit, OrderlyInv
<1>1. OnePerTime'
  BY DEF OnePerTime
<1>2. ASSUME orderly' PROVE orderly /\ resolving = {} /\ raising = {} /\ clearing = {}
  <2>1. orderly /\ Busy = {}
    BY <1>2
  <2>2. raising = {} /\ clearing = {}
    BY <2>1 DEF Busy
  <2>3. \A pair \in resolving : pair.by \in Busy
    BY DEF Busy
  <2> QED BY <2>1, <2>2, <2>3
<1>3. BusyAreNewest'
  <2> SUFFICES ASSUME orderly', NEW v \in Busy', NEW other \in readings', other.deviceId = v.deviceId
               PROVE  other.recordedAt <= v.recordedAt
    BY Zenon DEF BusyAreNewest
  <2>1. v.deviceId = reading.deviceId /\ v.recordedAt = reading.recordedAt
    <3>1. v \in raising' \cup clearing'
      BY <1>2, Zenon DEF Busy
    <3>2. raising = {} /\ clearing = {}
      BY <1>2
    <3>3. PICK type : v = Verdict(reading, type)
      BY <3>1, <3>2
    <3> QED BY <3>3 DEF Verdict
  <2>2. reading.recordedAt \in Nat
    BY AlertTimesAssumption DEF Readings
  <2>3. CASE other = reading
    BY <2>1, <2>2, <2>3
  <2>4. CASE other \in readings
    <3>1. other.recordedAt < reading.recordedAt
      BY <2>1, <2>4
    <3>2. other.recordedAt \in Nat
      BY <2>4, AlertTimesAssumption DEF AlertsInv, AlertsTypeOK, Readings
    <3> QED BY <2>1, <2>2, <3>1, <3>2
  <2> QED BY <2>3, <2>4
<1>4. LoadedAreOpen'
  BY <1>2 DEF LoadedAreOpen
<1>5. OpenMeansStillTrue'
  <2> SUFFICES ASSUME orderly', NEW alert \in alerts, Open(alert), NEW v \in Verdicts, Healthy(v)',
                      SameRule(v, alert.raisedBy), v.recordedAt >= alert.raisedBy.recordedAt
               PROVE  v \in failed \cup clearing' \/ [by |-> v, alert |-> alert.raisedBy] \in resolving
    BY Zenon DEF OpenMeansStillTrue, Open, SameRule
  <2>1. CASE Healthy(v)
    BY <1>2, <2>1 DEF OpenMeansStillTrue
  <2>2. CASE ~Healthy(v)
    BY <2>2 DEF Healthy, Verdict, Verdicts
  <2> QED BY <2>1, <2>2
<1> QED BY <1>1, <1>3, <1>4, <1>5

LEMMA OrderlyRaise ==
    ASSUME AlertsInv, OrderlyInv, NEW w \in Verdicts, Raise(w)
    PROVE  OrderlyInv'
<1> USE DEF Raise, OrderlyInv
<1>1. OnePerTime'
  BY DEF OnePerTime
<1>2. BusyAreNewest'
  <2>1. Busy' \subseteq Busy
    BY DEF Busy
  <2> QED BY <2>1 DEF BusyAreNewest
<1>3. LoadedAreOpen'
  BY DEF LoadedAreOpen, Open
<1>4. OpenMeansStillTrue'
  <2> SUFFICES ASSUME orderly, NEW alert \in alerts', Open(alert), NEW v \in Verdicts, Healthy(v),
                      SameRule(v, alert.raisedBy), v.recordedAt >= alert.raisedBy.recordedAt
               PROVE  v \in failed \cup clearing \/ [by |-> v, alert |-> alert.raisedBy] \in resolving
    BY Zenon DEF OpenMeansStillTrue, Open, SameRule, Healthy
  <2>1. CASE alert \in alerts
    BY <2>1 DEF OpenMeansStillTrue
  <2>2. CASE alert = [raisedBy |-> w, resolvedAt |-> None]
    <3>1. w \in Busy /\ Breached(w)
      BY DEF Busy, AlertsInv, HandlersAreGrounded
    <3>2. PICK reading \in readings : v = Verdict(reading, v.type)
      BY DEF Healthy
    <3>3. v.recordedAt <= w.recordedAt
      BY <2>2, <3>1, <3>2 DEF BusyAreNewest, SameRule, Verdict
    <3>4. v.deviceId = w.deviceId /\ v.type = w.type /\ v.recordedAt >= w.recordedAt
      BY <2>2 DEF SameRule
    <3>5. v.recordedAt \in Nat /\ w.recordedAt \in Nat
      BY AlertTimesAssumption DEF Verdicts
    <3>6. v = w
      BY <3>3, <3>4, <3>5 DEF Verdicts
    <3> QED BY <3>1, <3>6, BreachedIsNotHealthy
  <2> QED BY <2>1, <2>2
<1> QED BY <1>1, <1>2, <1>3, <1>4

LEMMA OrderlyFindActive ==
    ASSUME AlertsInv, OrderlyInv, NEW w \in Verdicts, FindActive(w)
    PROVE  OrderlyInv'
<1> USE DEF FindActive, OrderlyInv
<1>1. OnePerTime'
  BY DEF OnePerTime
<1>2. BusyAreNewest'
  <2>1. Busy' \subseteq Busy
    BY DEF Busy
  <2> QED BY <2>1 DEF BusyAreNewest
<1>3. LoadedAreOpen'
  BY DEF LoadedAreOpen, Open, Active, AlertsInv, OneRowPerVerdict
<1>4. OpenMeansStillTrue'
  <2> SUFFICES ASSUME orderly, NEW alert \in alerts, Open(alert), NEW v \in Verdicts, Healthy(v),
                      SameRule(v, alert.raisedBy), v.recordedAt >= alert.raisedBy.recordedAt
               PROVE  v \in failed \cup clearing' \/ [by |-> v, alert |-> alert.raisedBy] \in resolving'
    BY Zenon DEF OpenMeansStillTrue, Open, SameRule, Healthy
  <2>1. CASE v = w
    <3>1. alert \in Active(v)
      <4>1. alert.raisedBy.recordedAt <= v.recordedAt
        BY AlertTimesAssumption DEF AlertsInv, AlertsTypeOK, AlertRows, Verdicts
      <4> QED BY <4>1 DEF Active, SameRule
    <3> QED BY <2>1, <3>1
  <2>2. CASE v # w
    BY <2>2 DEF OpenMeansStillTrue
  <2> QED BY <2>1, <2>2
<1> QED BY <1>1, <1>2, <1>3, <1>4

LEMMA OrderlyResolve ==
    ASSUME AlertsInv, OrderlyInv, NEW w \in Verdicts, NEW a \in Verdicts, Resolve(w, a)
    PROVE  OrderlyInv'
<1> USE DEF Resolve, OrderlyInv
<1> DEFINE resolved == [raisedBy |-> a, resolvedAt |-> w.recordedAt]
<1>1. OnePerTime'
  BY DEF OnePerTime
<1>2. BusyAreNewest'
  <2>1. Busy' \subseteq Busy
    BY DEF Busy
  <2> QED BY <2>1 DEF BusyAreNewest
<1>3. ~Open(resolved)
  BY AlertNoneAssumption DEF Open, Verdicts
<1>4. LoadedAreOpen'
  <2> SUFFICES ASSUME orderly, NEW pair \in resolving', NEW alert \in alerts', alert.raisedBy = pair.alert
               PROVE  Open(alert)
    BY Zenon DEF LoadedAreOpen, Open
  <2>1. CASE alert \in alerts
    BY <2>1 DEF LoadedAreOpen
  <2>2. CASE alert = resolved
    <3>1. pair \in resolving /\ pair.alert = a /\ pair # [by |-> w, alert |-> a]
      BY <2>2
    <3>2. pair.by # w
      BY <3>1 DEF AlertsInv, AlertsTypeOK
    <3>3. /\ Healthy(pair.by) /\ SameRule(a, pair.by)
          /\ Healthy(w) /\ SameRule(a, w)
      BY <3>1, Zenon DEF AlertsInv, LoadedAreResolvable
    <3>4. pair.by \in Busy /\ w \in Busy
      BY <3>1 DEF Busy
    <3>5. \A v \in {pair.by, w} : \E reading \in readings :
             reading.deviceId = v.deviceId /\ reading.recordedAt = v.recordedAt
      BY <3>3 DEF Healthy, Verdict
    <3>6. pair.by.recordedAt <= w.recordedAt /\ w.recordedAt <= pair.by.recordedAt
      BY <3>3, <3>4, <3>5 DEF BusyAreNewest, SameRule
    <3>7. pair.by \in Verdicts /\ pair.by.recordedAt \in Nat /\ w.recordedAt \in Nat
      BY <3>1, AlertTimesAssumption DEF Verdicts, AlertsInv, AlertsTypeOK
    <3>8. pair.by.deviceId = w.deviceId /\ pair.by.type = w.type
      BY <3>3 DEF SameRule
    <3>9. pair.by.recordedAt = w.recordedAt
      BY <3>6, <3>7
    <3>10. pair.by = w
      BY <3>7, <3>8, <3>9 DEF Verdicts
    <3> QED BY <3>2, <3>10
  <2> QED BY <2>1, <2>2
<1>5. OpenMeansStillTrue'
  <2> SUFFICES ASSUME orderly, NEW alert \in alerts', Open(alert), NEW v \in Verdicts, Healthy(v),
                      SameRule(v, alert.raisedBy), v.recordedAt >= alert.raisedBy.recordedAt
               PROVE  v \in failed \cup clearing \/ [by |-> v, alert |-> alert.raisedBy] \in resolving'
    BY Zenon DEF OpenMeansStillTrue, Open, SameRule, Healthy
  <2>1. alert \in alerts /\ alert.raisedBy # a
    BY <1>3
  <2> QED BY <2>1 DEF OpenMeansStillTrue
<1> QED BY <1>1, <1>2, <1>4, <1>5

LEMMA OrderlyAbandon ==
    ASSUME AlertsInv, OrderlyInv, NEW w \in Verdicts, Abandon(w)
    PROVE  OrderlyInv'
<1> USE DEF Abandon, OrderlyInv
<1>1. OnePerTime'
  BY DEF OnePerTime
<1>2. BusyAreNewest'
  <2>1. Busy' \subseteq Busy
    BY DEF Busy
  <2> QED BY <2>1 DEF BusyAreNewest
<1>3. LoadedAreOpen'
  BY DEF LoadedAreOpen, Open
<1>4. OpenMeansStillTrue'
  BY DEF OpenMeansStillTrue, Open, SameRule, Healthy
<1> QED BY <1>1, <1>2, <1>3, <1>4

LEMMA OrderlyPreserved == AlertsInv /\ OrderlyInv /\ [AlertsNext]_alertVars => OrderlyInv'
<1> SUFFICES ASSUME AlertsInv, OrderlyInv, [AlertsNext]_alertVars PROVE OrderlyInv'
  OBVIOUS
<1>1. CASE UNCHANGED alertVars
  BY <1>1 DEF alertVars, OrderlyInv, OnePerTime, BusyAreNewest, LoadedAreOpen, OpenMeansStillTrue, Busy, Open,
              SameRule, Healthy
<1>2. CASE AlertsNext
  BY <1>2, OrderlyPublish, OrderlyRaise, OrderlyFindActive, OrderlyResolve, OrderlyAbandon DEF AlertsNext
<1> QED BY <1>1, <1>2

LEMMA OrderlyInvariance == AlertsSpec => []OrderlyInv
<1>1. AlertsInit => OrderlyInv
  BY DEF AlertsInit, OrderlyInv, OnePerTime, BusyAreNewest, LoadedAreOpen, OpenMeansStillTrue, Busy
<1> QED BY <1>1, AlertsInvariance, OrderlyPreserved, PTL DEF AlertsSpec

\* For a device that reports in order and whose handlers keep up, an alert that
\* is open has a condition that is still true, or that is about to be cleared.
THEOREM OpenAlertsAreTrue == AlertsSpec => []OpenMeansStillTrue
<1>1. OrderlyInv => OpenMeansStillTrue
  BY DEF OrderlyInv
<1> QED BY <1>1, OrderlyInvariance, PTL

\* For such a device the time of recovery is written once.
THEOREM RecoveryIsFinal == AlertsSpec => ResolvedOnce
<1>1. AlertsInv /\ OrderlyInv /\ [AlertsNext]_alertVars =>
        [orderly => \A alert \in alerts : ~Open(alert) => alert \in alerts']_alerts
  <2> SUFFICES ASSUME AlertsInv, OrderlyInv, AlertsNext, alerts' # alerts, orderly,
                      NEW alert \in alerts, ~Open(alert)
               PROVE  alert \in alerts'
    BY DEF alertVars
  <2>1. CASE \E w, a \in Verdicts : Resolve(w, a)
    BY <2>1 DEF Resolve, OrderlyInv, LoadedAreOpen
  <2>2. CASE ~\E w, a \in Verdicts : Resolve(w, a)
    BY <2>2 DEF AlertsNext, Publish, Emit, Raise, FindActive, Abandon
  <2> QED BY <2>1, <2>2
<1> QED BY <1>1, AlertsInvariance, OrderlyInvariance, PTL DEF AlertsSpec, ResolvedOnce
===============================================================================
