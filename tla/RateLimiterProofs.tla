-------------------------- MODULE RateLimiterProofs --------------------------
(***************************************************************************)
(* Proofs about RateLimiter for any number of calls, devices and minutes,  *)
(* and for any limits.                                                     *)
(***************************************************************************)
EXTENDS RateLimiter, FiniteSetTheorems, TLAPS

LimiterInv == LimiterTypeOK /\ CountersAreMortal

\* A call names counters that exist.
LEMMA KeysAreTyped ==
    ASSUME LimiterTypeOK, NEW c \in Calls
    PROVE  key[c] \in Keys /\ ArrivalKey(c) \in Devices \X Clock
<1>1. key[c] \in Devices \X Minutes /\ arrivedAt[c] \in Clock
  BY DEF LimiterTypeOK, Keys
<1> QED BY <1>1 DEF Keys, ArrivalKey

\* However often Redis runs it, a hit leaves a counter that will expire.
LEMMA HitPreserves ==
    ASSUME LimiterInv, NEW k \in Keys, NEW times \in {0, 1, 2}, Hit(k, times)
    PROVE  /\ recorded' \in [Keys -> Nat]
           /\ ttl' \in [Keys -> 0..RecordedWindow]
           /\ CountersAreMortal'
<1>1. /\ recorded \in [Keys -> Nat]
      /\ ttl \in [Keys -> 0..RecordedWindow]
      /\ \A j \in Keys : recorded[j] > 0 => ttl[j] > 0
  BY DEF LimiterInv, LimiterTypeOK, CountersAreMortal
<1>2. RecordedWindow \in Nat \ {0}
  BY WindowAssumption
<1>3. /\ recorded' = [recorded EXCEPT ![k] = @ + times]
      /\ ttl' = [ttl EXCEPT ![k] = IF times = 0 THEN @ ELSE RecordedWindow]
  BY DEF Hit
<1>4. recorded' \in [Keys -> Nat] /\ ttl' \in [Keys -> 0..RecordedWindow]
  BY <1>1, <1>2, <1>3
<1>5. ASSUME NEW j \in Keys, recorded'[j] > 0
      PROVE  ttl'[j] > 0
  BY <1>1, <1>2, <1>3, <1>5
<1> QED BY <1>4, <1>5 DEF CountersAreMortal

LEMMA ConsumePreserves ==
    ASSUME LimiterInv, NEW c \in Calls, Consume(c)
    PROVE  LimiterInv'
<1> USE DEF Consume, Decide, LimiterInv, LimiterTypeOK
<1>1. LimiterTypeOK'
  OBVIOUS
<1>2. CountersAreMortal'
  BY DEF CountersAreMortal
<1> QED BY <1>1, <1>2

LEMMA HitArrivalPreserves ==
    ASSUME LimiterInv, NEW c \in Calls, HitArrival(c)
    PROVE  LimiterInv'
<1>1. ArrivalKey(c) \in Devices \X Clock
  BY KeysAreTyped DEF LimiterInv
<1>2. arrivals' \in [Devices \X Clock -> Nat]
  <2>1. PICK times \in {0, 1, 2} : arrivals' = [arrivals EXCEPT ![ArrivalKey(c)] = @ + times]
    BY DEF HitArrival, Hits, LostHits
  <2> QED BY <1>1, <2>1 DEF LimiterInv, LimiterTypeOK
<1>3. state' \in [Calls -> {"idle", "arrival", "recorded"} \cup Decisions]
  BY DEF HitArrival, Decide, Decisions, LimiterInv, LimiterTypeOK
<1>4. UNCHANGED <<now, recorded, ttl, key, arrivedAt, countedAt>>
  BY DEF HitArrival
<1>5. LimiterTypeOK'
  BY <1>2, <1>3, <1>4 DEF LimiterInv, LimiterTypeOK
<1>6. CountersAreMortal'
  BY <1>4 DEF LimiterInv, CountersAreMortal
<1> QED BY <1>5, <1>6 DEF LimiterInv

LEMMA HitRecordedPreserves ==
    ASSUME LimiterInv, NEW c \in Calls, HitRecorded(c)
    PROVE  LimiterInv'
<1>1. key[c] \in Keys
  BY KeysAreTyped DEF LimiterInv
<1>2. PICK times \in {0, 1, 2} : Hit(key[c], times)
  BY DEF HitRecorded, Hits, LostHits
<1>3. /\ recorded' \in [Keys -> Nat]
      /\ ttl' \in [Keys -> 0..RecordedWindow]
      /\ CountersAreMortal'
  BY <1>1, <1>2, HitPreserves
<1>4. state' \in [Calls -> {"idle", "arrival", "recorded"} \cup Decisions]
  BY DEF HitRecorded, Decide, Decisions, LimiterInv, LimiterTypeOK
<1>5. countedAt' \in [Calls -> Clock] /\ UNCHANGED <<now, arrivals, key, arrivedAt>>
  BY DEF HitRecorded, LimiterInv, LimiterTypeOK
<1> QED BY <1>3, <1>4, <1>5 DEF LimiterInv, LimiterTypeOK

LEMMA TickPreserves ==
    ASSUME LimiterInv, Tick
    PROVE  LimiterInv'
<1>1. /\ ttl \in [Keys -> 0..RecordedWindow]
      /\ recorded \in [Keys -> Nat]
      /\ \A k \in Keys : recorded[k] > 0 => ttl[k] > 0
      /\ RecordedWindow \in Nat
  BY WindowAssumption DEF LimiterInv, LimiterTypeOK, CountersAreMortal
<1>2. /\ ttl' = [k \in Keys |-> IF ttl[k] = 0 THEN 0 ELSE ttl[k] - 1]
      /\ recorded' = [k \in Keys |-> IF ttl[k] = 1 THEN 0 ELSE recorded[k]]
      /\ now' \in Clock
      /\ UNCHANGED <<arrivals, state, key, arrivedAt, countedAt>>
  BY ClockAssumption DEF Tick, Clock, LimiterInv, LimiterTypeOK
<1>3. ttl' \in [Keys -> 0..RecordedWindow] /\ recorded' \in [Keys -> Nat]
  BY <1>1, <1>2
<1>4. ASSUME NEW k \in Keys, recorded'[k] > 0
      PROVE  ttl'[k] > 0
  BY <1>1, <1>2, <1>4
<1> QED BY <1>2, <1>3, <1>4 DEF LimiterInv, LimiterTypeOK, CountersAreMortal

LEMMA ExpireArrivalPreserves ==
    ASSUME LimiterInv, NEW k \in Devices \X Clock, ExpireArrival(k)
    PROVE  LimiterInv'
<1>1. arrivals' \in [Devices \X Clock -> Nat]
  BY DEF ExpireArrival, LimiterInv, LimiterTypeOK
<1> QED BY <1>1 DEF ExpireArrival, LimiterInv, LimiterTypeOK, CountersAreMortal

LEMMA LimiterInitInv == LimiterInit => LimiterInv
BY ClockAssumption, WindowAssumption
   DEF LimiterInit, LimiterInv, LimiterTypeOK, CountersAreMortal, Clock

LEMMA LimiterNextPreserves == LimiterInv /\ [LimiterNext]_limiterVars => LimiterInv'
<1> SUFFICES ASSUME LimiterInv, [LimiterNext]_limiterVars
             PROVE  LimiterInv'
  OBVIOUS
<1>1. ASSUME NEW c \in Calls, Consume(c) PROVE LimiterInv'
  BY <1>1, ConsumePreserves
<1>2. ASSUME NEW c \in Calls, HitArrival(c) PROVE LimiterInv'
  BY <1>2, HitArrivalPreserves
<1>3. ASSUME NEW c \in Calls, HitRecorded(c) PROVE LimiterInv'
  BY <1>3, HitRecordedPreserves
<1>4. CASE Tick
  BY <1>4, TickPreserves
<1>5. CASE UNCHANGED limiterVars
  BY <1>5 DEF limiterVars, LimiterInv, LimiterTypeOK, CountersAreMortal
<1>6. ASSUME NEW k \in Devices \X Clock, ExpireArrival(k) PROVE LimiterInv'
  BY <1>6, ExpireArrivalPreserves
<1> QED BY <1>1, <1>2, <1>3, <1>4, <1>5, <1>6 DEF LimiterNext

\* The limiter's variables keep their types, and no counter is immortal.
THEOREM LimiterInvariance == LimiterSpec => []LimiterInv
BY LimiterInitInv, LimiterNextPreserves, PTL DEF LimiterSpec

\* The counters and the calls keep their types: a life is never longer than the
\* window, however often a counter is hit.
THEOREM LimiterTypeCorrect == LimiterSpec => []LimiterTypeOK
<1>1. LimiterInv => LimiterTypeOK
  BY DEF LimiterInv
<1> QED BY <1>1, LimiterInvariance, PTL

\* Whatever hits Redis repeats or loses, every counter that refuses a device
\* has an end of life.
THEOREM NoImmortalCounter == LimiterSpec => []CountersAreMortal
<1>1. LimiterInv => CountersAreMortal
  BY DEF LimiterInv
<1> QED BY <1>1, LimiterInvariance, PTL

------------------------------------------------------------------------------
(* The limit itself.                                                       *)

\* The calls admitted for a device and recorded minute whose window is open.
Live(k) == {c \in Admissions(k) : countedAt[c] + RecordedWindow > now}

\* The calls admitted for it in the window that starts at minute start.
Window(k, start) == {c \in Admissions(k) : countedAt[c] \in start..(start + RecordedWindow - 1)}

AdmittedInThePast == \A c \in Calls : state[c] = "allowed" => countedAt[c] <= now

\* A counter outlives the window of every call it admitted, and counts them all.
LiveAreCounted ==
    \A k \in Keys : /\ Cardinality(Live(k)) <= recorded[k]
                    /\ \A c \in Live(k) : countedAt[c] + RecordedWindow <= now + ttl[k]

WindowsAreBounded == \A k \in Keys : \A start \in Clock : Cardinality(Window(k, start)) <= RecordedLimit

AdmissionInv ==
    /\ LimiterInv
    /\ AdmittedInThePast
    /\ LiveAreCounted
    /\ WindowsAreBounded

\* Sets of calls are finite when there are finitely many calls.
LEMMA SetsOfCallsAreFinite ==
    ASSUME IsFiniteSet(Calls), NEW k, NEW start
    PROVE  /\ IsFiniteSet(Live(k)) /\ Cardinality(Live(k)) \in Nat
           /\ IsFiniteSet(Window(k, start)) /\ Cardinality(Window(k, start)) \in Nat
BY FS_Subset, FS_CardinalityType DEF Live, Window, Admissions

\* Steps that admit nobody and leave the clock and the counters alone.
LEMMA AdmittingNobodyPreserves ==
    ASSUME AdmissionInv, LimiterInv', UNCHANGED <<now, recorded, ttl, key, countedAt>>,
           \A c \in Calls : state'[c] = "allowed" <=> state[c] = "allowed"
    PROVE  AdmissionInv'
<1>1. \A k : Live(k)' = Live(k) /\ \A start : Window(k, start)' = Window(k, start)
  BY DEF Live, Window, Admissions
<1> QED BY <1>1 DEF AdmissionInv, AdmittedInThePast, LiveAreCounted, WindowsAreBounded

\* A hit on the counter of an admitted call: it is the step that could exceed
\* the limit.
LEMMA HitRecordedAdmits ==
    ASSUME IsFiniteSet(Calls), AdmissionInv, NEW c \in Calls, HitRecorded(c)
    PROVE  AdmissionInv'
<1>1. LimiterInv'
  BY HitRecordedPreserves DEF AdmissionInv
<1>2. /\ now \in Nat /\ RecordedWindow \in Nat \ {0} /\ RecordedLimit \in Nat
      /\ \A d \in Calls : countedAt[d] \in Nat
      /\ recorded \in [Keys -> Nat] /\ ttl \in [Keys -> 0..RecordedWindow]
      /\ \A k \in Keys : recorded[k] \in Nat /\ ttl[k] \in Nat /\ ttl[k] <= RecordedWindow
  BY LimitsAssumption, WindowAssumption DEF AdmissionInv, LimiterInv, LimiterTypeOK, Clock
<1>3. /\ state[c] = "recorded" /\ countedAt'[c] = now /\ UNCHANGED <<now, key>>
      /\ \A d \in Calls : d # c => countedAt'[d] = countedAt[d] /\ state'[d] = state[d]
      /\ key[c] \in Keys
  BY KeysAreTyped DEF HitRecorded, Decide, AdmissionInv, LimiterInv, LimiterTypeOK
<1>4. AdmittedInThePast'
  BY <1>2, <1>3 DEF AdmissionInv, AdmittedInThePast
<1>5. PICK times \in {0, 1, 2} :
        /\ Hit(key[c], times)
        /\ state'[c] = "allowed" => times > 0 /\ recorded'[key[c]] <= RecordedLimit
  <2>1. CASE \E times \in Hits : /\ Hit(key[c], times)
                                 /\ Decide(c, IF Exceeds(recorded'[key[c]], RecordedLimit) THEN "RECORDED_MINUTE" ELSE "allowed")
    <3>1. PICK times \in Hits : /\ Hit(key[c], times)
                                /\ Decide(c, IF Exceeds(recorded'[key[c]], RecordedLimit) THEN "RECORDED_MINUTE" ELSE "allowed")
      BY <2>1
    <3>2. times \in {1, 2}
      BY DEF Hits
    <3>3. state'[c] = "allowed" => ~(recorded'[key[c]] > RecordedLimit)
      BY <3>1 DEF Decide, Exceeds, AdmissionInv, LimiterInv, LimiterTypeOK
    <3>4. recorded'[key[c]] \in Nat
      BY <1>1, <1>3 DEF LimiterInv, LimiterTypeOK
    <3> QED BY <1>2, <3>1, <3>2, <3>3, <3>4
  <2>2. CASE \E times \in LostHits : Hit(key[c], times) /\ Decide(c, "failedOpen")
    <3>1. PICK times \in LostHits : Hit(key[c], times) /\ Decide(c, "failedOpen")
      BY <2>2
    <3>2. state'[c] # "allowed"
      BY <3>1 DEF Decide, AdmissionInv, LimiterInv, LimiterTypeOK
    <3> QED BY <3>1, <3>2 DEF LostHits
  <2> QED BY <2>1, <2>2 DEF HitRecorded
<1>6. /\ \A k \in Keys : k # key[c] => recorded'[k] = recorded[k] /\ ttl'[k] = ttl[k]
      /\ recorded'[key[c]] = recorded[key[c]] + times
      /\ ttl'[key[c]] = IF times = 0 THEN ttl[key[c]] ELSE RecordedWindow
  BY <1>2, <1>3, <1>5 DEF Hit
<1>7. \A k \in Keys : Live(k)' = IF k = key[c] /\ state'[c] = "allowed" THEN Live(k) \cup {c} ELSE Live(k)
  BY <1>2, <1>3 DEF Live, Admissions
<1>8. \A k : c \notin Live(k)
  BY <1>3 DEF Live, Admissions
<1>9. LiveAreCounted'
  <2> SUFFICES ASSUME NEW k \in Keys
               PROVE  /\ Cardinality(Live(k)') <= recorded'[k]
                      /\ \A d \in Live(k)' : countedAt'[d] + RecordedWindow <= now + ttl'[k]
    BY <1>3 DEF LiveAreCounted
  <2>1. /\ Cardinality(Live(k)) <= recorded[k] /\ Cardinality(Live(k)) \in Nat /\ IsFiniteSet(Live(k))
        /\ \A d \in Live(k) : countedAt[d] + RecordedWindow <= now + ttl[k]
    BY SetsOfCallsAreFinite DEF AdmissionInv, LiveAreCounted
  <2>2. Cardinality(Live(k)') <= recorded'[k]
    <3>1. CASE k = key[c] /\ state'[c] = "allowed"
      <4>1. Cardinality(Live(k) \cup {c}) = Cardinality(Live(k)) + 1
        BY <2>1, <1>8, FS_AddElement
      <4> QED BY <1>2, <1>5, <1>6, <1>7, <2>1, <3>1, <4>1
    <3>2. CASE ~(k = key[c] /\ state'[c] = "allowed")
      BY <1>2, <1>6, <1>7, <2>1, <3>2
    <3> QED BY <3>1, <3>2
  <2>3. ASSUME NEW d \in Live(k)'
        PROVE  countedAt'[d] + RecordedWindow <= now + ttl'[k]
    <3>1. CASE d = c
      BY <1>2, <1>3, <1>5, <1>6, <1>7, <1>8, <3>1
    <3>2. CASE d # c
      <4>1. d \in Live(k) /\ countedAt'[d] = countedAt[d] /\ d \in Calls
        BY <1>3, <1>7, <3>2 DEF Live, Admissions
      <4>2. countedAt[d] \in Nat /\ countedAt[d] <= now
        BY <1>2, <4>1 DEF AdmissionInv, AdmittedInThePast, Live, Admissions
      <4> QED BY <1>2, <1>6, <2>1, <4>1, <4>2
    <3> QED BY <3>1, <3>2
  <2> QED BY <2>2, <2>3
<1>10. WindowsAreBounded'
  <2> SUFFICES ASSUME NEW k \in Keys, NEW start \in Clock
               PROVE  Cardinality(Window(k, start)') <= RecordedLimit
    BY DEF WindowsAreBounded
  <2>1. CASE c \in Window(k, start)'
    <3>1. k = key[c] /\ state'[c] = "allowed" /\ start <= now /\ now <= start + RecordedWindow - 1 /\ start \in Nat
      BY <1>2, <1>3, <2>1 DEF Window, Admissions, Clock
    <3>2. Window(k, start)' \subseteq Live(k)'
      <4> SUFFICES ASSUME NEW d \in Window(k, start)' PROVE d \in Live(k)'
        OBVIOUS
      <4>1. d \in Calls /\ countedAt'[d] >= start /\ d \in Admissions(k)'
        BY DEF Window, Admissions, Clock
      <4>2. countedAt'[d] \in Nat
        BY <1>2, <1>3, <4>1
      <4> QED BY <1>2, <1>3, <3>1, <4>1, <4>2 DEF Live
    <3>3. IsFiniteSet(Live(k) \cup {c}) /\ Live(k)' = Live(k) \cup {c}
      BY <1>7, <3>1, SetsOfCallsAreFinite, FS_AddElement
    <3>4. /\ Cardinality(Window(k, start)') <= Cardinality(Live(k)')
          /\ Cardinality(Window(k, start)') \in Nat
          /\ Cardinality(Live(k)') \in Nat
      BY <3>2, <3>3, FS_Subset, FS_CardinalityType
    <3>5. Cardinality(Live(k)') <= recorded'[k] /\ recorded'[k] <= RecordedLimit
      BY <1>5, <1>9, <3>1 DEF LiveAreCounted
    <3>6. recorded'[k] \in Nat
      BY <1>1 DEF LimiterInv, LimiterTypeOK
    <3> QED BY <1>2, <3>4, <3>5, <3>6
  <2>2. CASE c \notin Window(k, start)'
    <3>1. Window(k, start)' = Window(k, start)
      BY <1>3, <2>2 DEF Window, Admissions
    <3> QED BY <3>1 DEF AdmissionInv, WindowsAreBounded
  <2> QED BY <2>1, <2>2
<1> QED BY <1>1, <1>4, <1>9, <1>10 DEF AdmissionInv

\* A counter expires only when the windows of all calls it admitted are over.
LEMMA TickAdmits ==
    ASSUME IsFiniteSet(Calls), AdmissionInv, Tick
    PROVE  AdmissionInv'
<1>1. LimiterInv'
  BY TickPreserves DEF AdmissionInv
<1>2. /\ now \in Nat /\ RecordedWindow \in Nat /\ now' = now + 1
      /\ \A c \in Calls : countedAt[c] \in Nat
      /\ \A k \in Keys : recorded[k] \in Nat /\ ttl[k] \in Nat
      /\ UNCHANGED <<state, key, countedAt>>
  BY WindowAssumption DEF Tick, AdmissionInv, LimiterInv, LimiterTypeOK, Clock
<1>3. AdmittedInThePast'
  BY <1>2 DEF AdmissionInv, AdmittedInThePast
<1>4. WindowsAreBounded'
  <2>1. \A k, start : Window(k, start)' = Window(k, start)
    BY <1>2 DEF Window, Admissions
  <2> QED BY <2>1 DEF AdmissionInv, WindowsAreBounded
<1>5. LiveAreCounted'
  <2> SUFFICES ASSUME NEW k \in Keys
               PROVE  /\ Cardinality(Live(k)') <= recorded'[k]
                      /\ \A c \in Live(k)' : countedAt[c] + RecordedWindow <= now' + ttl'[k]
    BY <1>2 DEF LiveAreCounted
  <2>1. /\ Cardinality(Live(k)) <= recorded[k] /\ Cardinality(Live(k)) \in Nat /\ IsFiniteSet(Live(k))
        /\ \A c \in Live(k) : countedAt[c] + RecordedWindow <= now + ttl[k]
    BY SetsOfCallsAreFinite DEF AdmissionInv, LiveAreCounted
  <2>2. /\ ttl'[k] = IF ttl[k] = 0 THEN 0 ELSE ttl[k] - 1
        /\ recorded'[k] = IF ttl[k] = 1 THEN 0 ELSE recorded[k]
    BY DEF Tick
  <2>3. \A c \in Live(k)' : c \in Calls /\ c \in Live(k) /\ countedAt[c] + RecordedWindow > now + 1
    BY <1>2 DEF Live, Admissions
  <2>4. CASE ttl[k] <= 1
    <3>1. Live(k)' = {}
      <4> SUFFICES ASSUME NEW c \in Live(k)' PROVE FALSE
        OBVIOUS
      <4> QED BY <1>2, <2>1, <2>3, <2>4
    <3> QED BY <3>1, <1>2, <2>2, FS_EmptySet
  <2>5. CASE ttl[k] > 1
    <3>1. Live(k)' \subseteq Live(k)
      BY <2>3
    <3>2. Cardinality(Live(k)') <= Cardinality(Live(k)) /\ Cardinality(Live(k)') \in Nat
      BY <2>1, <3>1, FS_Subset, FS_CardinalityType
    <3>3. recorded'[k] = recorded[k] /\ now' + ttl'[k] = now + ttl[k]
      BY <1>2, <2>2, <2>5
    <3> QED BY <1>2, <2>1, <3>1, <3>2, <3>3
  <2> QED BY <1>2, <2>4, <2>5
<1> QED BY <1>1, <1>3, <1>4, <1>5 DEF AdmissionInv

LEMMA AdmissionInitially == LimiterInit => AdmissionInv
<1> SUFFICES ASSUME LimiterInit PROVE AdmissionInv
  OBVIOUS
<1>1. \A c \in Calls : state[c] = "idle"
  BY DEF LimiterInit
<1>2. \A k : Live(k) = {} /\ \A start : Window(k, start) = {}
  BY <1>1 DEF Live, Window, Admissions
<1>3. \A k \in Keys : recorded[k] = 0
  BY DEF LimiterInit
<1>4. Cardinality({}) = 0 /\ RecordedLimit \in Nat
  BY FS_EmptySet, LimitsAssumption
<1> QED BY <1>1, <1>2, <1>3, <1>4, LimiterInitInv
        DEF AdmissionInv, AdmittedInThePast, LiveAreCounted, WindowsAreBounded

LEMMA NextAdmits ==
    ASSUME IsFiniteSet(Calls), AdmissionInv, [LimiterNext]_limiterVars
    PROVE  AdmissionInv'
<1>1. LimiterInv'
  BY LimiterNextPreserves DEF AdmissionInv
<1>2. ASSUME NEW c \in Calls, Consume(c) \/ HitArrival(c) PROVE AdmissionInv'
  <2>1. \A d \in Calls : state'[d] = "allowed" <=> state[d] = "allowed"
    BY <1>2 DEF Consume, HitArrival, Decide, AdmissionInv, LimiterInv, LimiterTypeOK
  <2> QED BY <1>1, <1>2, <2>1, AdmittingNobodyPreserves DEF Consume, HitArrival
<1>3. CASE UNCHANGED limiterVars
  BY <1>1, <1>3, AdmittingNobodyPreserves DEF limiterVars
<1>4. ASSUME NEW k \in Devices \X Clock, ExpireArrival(k) PROVE AdmissionInv'
  BY <1>1, <1>4, AdmittingNobodyPreserves DEF ExpireArrival
<1> QED BY <1>2, <1>3, <1>4, HitRecordedAdmits, TickAdmits DEF LimiterNext

\* However many calls interleave, and whatever hits are repeated or lost, a
\* device never gets more readings admitted for one recorded minute within the
\* window than the limit allows.
THEOREM RecordedMinuteIsBounded ==
    ASSUME IsFiniteSet(Calls)
    PROVE  LimiterSpec => []AtMostLimitPerRecordedMinute
<1>1. AdmissionInv => AtMostLimitPerRecordedMinute
  <2> SUFFICES ASSUME AdmissionInv, NEW k \in Keys, NEW first \in Admissions(k)
               PROVE  Cardinality(Window(k, countedAt[first])) <= RecordedLimit
    BY DEF AtMostLimitPerRecordedMinute, Window
  <2>1. countedAt[first] \in Clock
    BY DEF AdmissionInv, LimiterInv, LimiterTypeOK, Admissions
  <2> QED BY <2>1 DEF AdmissionInv, WindowsAreBounded
<1>2. AdmissionInv /\ [LimiterNext]_limiterVars => AdmissionInv'
  BY NextAdmits
<1> QED BY <1>1, <1>2, AdmissionInitially, PTL DEF LimiterSpec

------------------------------------------------------------------------------
(* Whom the limiter refuses.                                               *)

\* The calls that may have hit counter k.
Hitters(k) == {d \in Calls : state[d] \in {"allowed", "RECORDED_MINUTE", "failedOpen"} /\ key[d] = k}
Arrivers(k) == {d \in Calls : state[d] \notin {"idle", "arrival"} /\ ArrivalKey(d) = k}

\* A counter lives no longer than the window of its youngest hit.
LivesAreRecent ==
    \A k \in Keys : recorded[k] > 0 =>
        \E d \in Hitters(k) : countedAt[d] + RecordedWindow >= now + ttl[k]

\* A counter never counts more than its calls can have hit it.
HitsAreOwn ==
    /\ \A k \in Keys : recorded[k] <= Cardinality(Hitters(k)) * MaxHits
    /\ \A k \in Devices \X Clock : arrivals[k] <= Cardinality(Arrivers(k)) * MaxHits

RefusalInv == LimiterInv /\ LivesAreRecent /\ RefusalEndsWithTheWindow

\* NoInnocentRefusal, without the requests that have not hit their counter yet.
RefusedAreToBlame ==
    \A c \in Calls :
        /\ state[c] = "ARRIVAL" => Cardinality(Arrivers(ArrivalKey(c))) * MaxHits > ArrivalLimit
        /\ state[c] = "RECORDED_MINUTE" => Cardinality(Hitters(key[c])) * MaxHits > RecordedLimit

BlameInv == LimiterInv /\ HitsAreOwn /\ RefusedAreToBlame

\* What the second round trip does, without its details.
LEMMA HitRecordedEffect ==
    ASSUME LimiterInv, NEW c \in Calls, HitRecorded(c)
    PROVE  /\ key[c] \in Keys
           /\ \E times \in 0..MaxHits :
                /\ recorded' = [recorded EXCEPT ![key[c]] = @ + times]
                /\ ttl' = [ttl EXCEPT ![key[c]] = IF times = 0 THEN @ ELSE RecordedWindow]
           /\ state[c] = "recorded" /\ countedAt' = [countedAt EXCEPT ![c] = now]
           /\ \E decision \in {"allowed", "RECORDED_MINUTE", "failedOpen"} :
                /\ state' = [state EXCEPT ![c] = decision]
                /\ decision = "RECORDED_MINUTE" => recorded'[key[c]] > RecordedLimit
           /\ UNCHANGED <<now, arrivals, key, arrivedAt>>
<1>1. \E times \in 0..MaxHits : Hit(key[c], times)
  BY DEF HitRecorded, Hits, LostHits, MaxHits
<1>2. \E decision \in {"allowed", "RECORDED_MINUTE", "failedOpen"} :
        /\ state' = [state EXCEPT ![c] = decision]
        /\ decision = "RECORDED_MINUTE" => recorded'[key[c]] > RecordedLimit
  <2>1. CASE Decide(c, IF Exceeds(recorded'[key[c]], RecordedLimit) THEN "RECORDED_MINUTE" ELSE "allowed")
    BY <2>1 DEF Decide, Exceeds
  <2>2. CASE Decide(c, "failedOpen")
    BY <2>2 DEF Decide
  <2> QED BY <2>1, <2>2 DEF HitRecorded
<1>3. \E times \in 0..MaxHits :
        /\ recorded' = [recorded EXCEPT ![key[c]] = @ + times]
        /\ ttl' = [ttl EXCEPT ![key[c]] = IF times = 0 THEN @ ELSE RecordedWindow]
  BY <1>1 DEF Hit
<1>4. /\ key[c] \in Keys
      /\ state[c] = "recorded" /\ countedAt' = [countedAt EXCEPT ![c] = now]
      /\ UNCHANGED <<now, arrivals, key, arrivedAt>>
  BY KeysAreTyped DEF HitRecorded, LimiterInv
<1> QED BY <1>2, <1>3, <1>4

LEMMA HitRecordedRefuses ==
    ASSUME RefusalInv, NEW c \in Calls, HitRecorded(c)
    PROVE  RefusalInv'
<1>1. LimiterInv'
  BY HitRecordedPreserves DEF RefusalInv
<1> DEFINE k == key[c]
<1>2. /\ now \in Nat /\ RecordedWindow \in Nat \ {0} /\ RecordedLimit \in Nat \ {0} /\ MaxHits \in {1, 2}
      /\ \A d \in Calls : countedAt[d] \in Nat /\ key[d] \in Keys
      /\ recorded \in [Keys -> Nat] /\ ttl \in [Keys -> 0..RecordedWindow]
      /\ \A j \in Keys : recorded[j] > 0 => ttl[j] > 0
      /\ state \in [Calls -> {"idle", "arrival", "recorded"} \cup Decisions]
      /\ countedAt \in [Calls -> Clock]
  BY LimitsAssumption, WindowAssumption, KeysAreTyped
     DEF RefusalInv, LimiterInv, LimiterTypeOK, CountersAreMortal, Clock, MaxHits
<1>3. PICK times \in 0..MaxHits :
        /\ recorded' = [recorded EXCEPT ![k] = @ + times]
        /\ ttl' = [ttl EXCEPT ![k] = IF times = 0 THEN @ ELSE RecordedWindow]
  BY HitRecordedEffect DEF RefusalInv
<1>4. PICK decision \in {"allowed", "RECORDED_MINUTE", "failedOpen"} :
        /\ state' = [state EXCEPT ![c] = decision]
        /\ decision = "RECORDED_MINUTE" => recorded'[k] > RecordedLimit
  BY HitRecordedEffect DEF RefusalInv
<1>5. /\ k \in Keys /\ state[c] = "recorded" /\ countedAt' = [countedAt EXCEPT ![c] = now]
      /\ UNCHANGED <<now, key>>
  BY HitRecordedEffect DEF RefusalInv
<1>6. /\ state'[c] = decision /\ countedAt'[c] = now
      /\ \A d \in Calls : d # c => state'[d] = state[d] /\ countedAt'[d] = countedAt[d]
  BY <1>2, <1>4, <1>5
<1>7. \A j : /\ Hitters(j) \subseteq Hitters(j)' /\ c \notin Hitters(j)
             /\ j = k => c \in Hitters(j)'
  BY <1>5, <1>6 DEF Hitters
<1> HIDE DEF k
<1>8. LivesAreRecent'
  <2> SUFFICES ASSUME NEW j \in Keys, recorded'[j] > 0
               PROVE  \E d \in Hitters(j)' : countedAt'[d] + RecordedWindow >= now + ttl'[j]
    BY <1>5 DEF LivesAreRecent
  <2>1. CASE j = k /\ times > 0
    <3>1. ttl'[j] = RecordedWindow
      BY <1>2, <1>3, <2>1
    <3> QED BY <1>2, <1>6, <1>7, <2>1, <3>1
  <2>2. CASE ~(j = k /\ times > 0)
    <3>1. recorded'[j] = recorded[j] /\ ttl'[j] = ttl[j]
      BY <1>2, <1>3, <2>2
    <3>2. PICK d \in Hitters(j) : countedAt[d] + RecordedWindow >= now + ttl[j]
      BY <3>1 DEF RefusalInv, LivesAreRecent
    <3>3. d \in Calls /\ d # c /\ d \in Hitters(j)'
      BY <1>7 DEF Hitters
    <3> QED BY <1>6, <3>1, <3>2, <3>3
  <2> QED BY <2>1, <2>2
<1>9. RefusalEndsWithTheWindow'
  <2> SUFFICES ASSUME RecordedLimit >= MaxHits, NEW d \in Calls, state'[d] = "RECORDED_MINUTE"
               PROVE  \E e \in Hitters(key[d])' \ {d} : countedAt'[e] + RecordedWindow > countedAt'[d]
    BY <1>5 DEF RefusalEndsWithTheWindow, SameRecorded, Hitters, MaxHits
  <2>1. CASE d = c
    <3>1. recorded'[k] > RecordedLimit /\ recorded'[k] = recorded[k] + times
      BY <1>2, <1>3, <1>4, <1>5, <1>6, <2>1
    <3>2. recorded[k] > 0 /\ ttl[k] > 0
      BY <1>2, <1>5, <3>1
    <3>3. PICK e \in Hitters(k) : countedAt[e] + RecordedWindow >= now + ttl[k]
      BY <1>5, <3>2 DEF RefusalInv, LivesAreRecent
    <3>4. e \in Calls /\ e # c /\ e \in Hitters(key[d])'
      <4>1. e \in Calls
        BY DEF Hitters
      <4>2. PICK j : j = k
        OBVIOUS
      <4>3. e \in Hitters(j)' /\ e # c
        BY <1>7, <4>2
      <4> QED BY <1>5, <2>1, <4>1, <4>2, <4>3 DEF k
    <3>5. countedAt[e] + RecordedWindow > now
      BY <1>2, <1>5, <3>2, <3>3, <3>4
    <3> QED BY <1>6, <2>1, <3>4, <3>5
  <2>2. CASE d # c
    <3>1. PICK e \in Hitters(key[d]) \ {d} : countedAt[e] + RecordedWindow > countedAt[d]
      BY <1>6, <2>2 DEF RefusalInv, RefusalEndsWithTheWindow, SameRecorded, Hitters, MaxHits
    <3>2. e \in Calls /\ e # c /\ e \in Hitters(key[d])'
      <4>1. e \in Calls
        BY DEF Hitters
      <4>2. PICK j : j = key[d]
        OBVIOUS
      <4>3. e \in Hitters(j)' /\ e # c
        BY <1>7, <4>2
      <4> QED BY <1>5, <4>1, <4>2, <4>3
    <3> QED BY <1>6, <2>2, <3>1, <3>2
  <2> QED BY <2>1, <2>2
<1> QED BY <1>1, <1>8, <1>9 DEF RefusalInv

LEMMA RefusalNext == RefusalInv /\ [LimiterNext]_limiterVars => RefusalInv'
<1> SUFFICES ASSUME RefusalInv, [LimiterNext]_limiterVars PROVE RefusalInv'
  OBVIOUS
<1>1. LimiterInv'
  BY LimiterNextPreserves DEF RefusalInv
<1>2. ASSUME UNCHANGED <<now, recorded, ttl, key, countedAt>>,
             \A d \in Calls : state'[d] = "RECORDED_MINUTE" <=> state[d] = "RECORDED_MINUTE",
             \A k : Hitters(k) \subseteq Hitters(k)'
      PROVE  RefusalInv'
  <2>1. LivesAreRecent'
    BY <1>2 DEF RefusalInv, LivesAreRecent
  <2>2. RefusalEndsWithTheWindow'
    <3> SUFFICES ASSUME RecordedLimit >= MaxHits, NEW d \in Calls, state'[d] = "RECORDED_MINUTE"
                 PROVE  \E e \in Hitters(key[d])' \ {d} : countedAt[e] + RecordedWindow > countedAt[d]
      BY <1>2 DEF RefusalEndsWithTheWindow, SameRecorded, Hitters, MaxHits
    <3>1. \E e \in Hitters(key[d]) \ {d} : countedAt[e] + RecordedWindow > countedAt[d]
      BY <1>2 DEF RefusalInv, RefusalEndsWithTheWindow, SameRecorded, Hitters
    <3> QED BY <1>2, <3>1
  <2> QED BY <1>1, <2>1, <2>2 DEF RefusalInv
<1>3. ASSUME NEW c \in Calls, Consume(c) \/ HitArrival(c) PROVE RefusalInv'
  <2>1. /\ \A d \in Calls : state'[d] = "RECORDED_MINUTE" <=> state[d] = "RECORDED_MINUTE"
        /\ \A d \in Calls : state[d] \in {"allowed", "RECORDED_MINUTE", "failedOpen"} => state'[d] = state[d]
        /\ UNCHANGED <<now, recorded, ttl, key, countedAt>>
    BY <1>3 DEF Consume, HitArrival, Decide, Decisions, RefusalInv, LimiterInv, LimiterTypeOK
  <2>2. \A k : Hitters(k) \subseteq Hitters(k)'
    BY <2>1 DEF Hitters
  <2> QED BY <1>2, <2>1, <2>2
<1>4. CASE Tick
  <2>1. /\ now' = now + 1 /\ now \in Nat /\ RecordedWindow \in Nat
        /\ \A k \in Keys : /\ recorded[k] \in Nat /\ ttl[k] \in Nat
                           /\ recorded'[k] > 0 => recorded[k] > 0 /\ ttl'[k] + 1 = ttl[k]
        /\ \A d \in Calls : countedAt[d] \in Nat
        /\ UNCHANGED <<state, key, countedAt>>
    BY <1>4, WindowAssumption DEF Tick, RefusalInv, LimiterInv, LimiterTypeOK, CountersAreMortal, Clock
  <2>2. \A k : Hitters(k)' = Hitters(k)
    BY <2>1 DEF Hitters
  <2>3. LivesAreRecent'
    <3> SUFFICES ASSUME NEW k \in Keys, recorded'[k] > 0
                 PROVE  \E d \in Hitters(k) : countedAt[d] + RecordedWindow >= now' + ttl'[k]
      BY <2>1, <2>2 DEF LivesAreRecent
    <3>1. PICK d \in Hitters(k) : countedAt[d] + RecordedWindow >= now + ttl[k]
      BY <2>1 DEF RefusalInv, LivesAreRecent
    <3>2. ttl'[k] + 1 = ttl[k] /\ ttl[k] \in Nat
      BY <2>1
    <3>3. now' + ttl'[k] = now + ttl[k]
      <4>1. ttl'[k] = ttl[k] - 1
        BY <1>1, <3>2 DEF LimiterInv, LimiterTypeOK
      <4> QED BY <2>1, <3>2, <4>1
    <3> QED BY <3>1, <3>3
  <2>4. RefusalEndsWithTheWindow'
    BY <2>1 DEF RefusalInv, RefusalEndsWithTheWindow, SameRecorded, MaxHits
  <2> QED BY <1>1, <2>3, <2>4 DEF RefusalInv
<1>5. CASE UNCHANGED limiterVars
  <2>1. \A k : Hitters(k)' = Hitters(k)
    BY <1>5 DEF limiterVars, Hitters
  <2> QED BY <1>2, <1>5, <2>1 DEF limiterVars
<1>6. ASSUME NEW k \in Devices \X Clock, ExpireArrival(k) PROVE RefusalInv'
  <2>1. \A j : Hitters(j)' = Hitters(j)
    BY <1>6 DEF ExpireArrival, Hitters
  <2> QED BY <1>2, <1>6, <2>1 DEF ExpireArrival
<1> QED BY <1>3, <1>4, <1>5, <1>6, HitRecordedRefuses DEF LimiterNext

\* A device that stays silent for the window is not refused the recorded minute
\* again, whatever was refused, repeated or lost before.
THEOREM SilenceEndsTheRefusal == LimiterSpec => []RefusalEndsWithTheWindow
<1>1. LimiterInit => RefusalInv
  <2> SUFFICES ASSUME LimiterInit PROVE RefusalInv
    OBVIOUS
  <2>1. LivesAreRecent
    BY DEF LimiterInit, LivesAreRecent
  <2>2. RefusalEndsWithTheWindow
    BY DEF LimiterInit, RefusalEndsWithTheWindow
  <2> QED BY <2>1, <2>2, LimiterInitInv DEF RefusalInv
<1>2. RefusalInv => RefusalEndsWithTheWindow
  BY DEF RefusalInv
<1> QED BY <1>1, <1>2, RefusalNext, PTL DEF LimiterSpec

\* One more call, and at most MaxHits more hits.
LEMMA OneMoreHitter ==
    ASSUME IsFiniteSet(Calls), NEW before \in SUBSET Calls, NEW after \in SUBSET Calls,
           NEW c \in after, c \notin before, before \subseteq after,
           NEW count \in Nat, NEW times \in 0..MaxHits, count <= Cardinality(before) * MaxHits
    PROVE  count + times <= Cardinality(after) * MaxHits
<1>1. /\ IsFiniteSet(before) /\ IsFiniteSet(before \cup {c}) /\ IsFiniteSet(after)
      /\ Cardinality(before) \in Nat /\ Cardinality(after) \in Nat
      /\ Cardinality(before \cup {c}) = Cardinality(before) + 1
      /\ Cardinality(before \cup {c}) <= Cardinality(after)
  <2>1. IsFiniteSet(before) /\ IsFiniteSet(after)
    BY FS_Subset
  <2>2. before \cup {c} \subseteq after
    OBVIOUS
  <2> QED BY <2>1, <2>2, FS_Subset, FS_AddElement, FS_CardinalityType
<1>2. CASE MaxHits = 1
  BY <1>1, <1>2
<1>3. CASE MaxHits = 2
  BY <1>1, <1>3
<1> QED BY <1>2, <1>3 DEF MaxHits

\* No fewer calls, no more hits.
LEMMA MoreHitters ==
    ASSUME IsFiniteSet(Calls), NEW before \in SUBSET Calls, NEW after \in SUBSET Calls,
           before \subseteq after
    PROVE  Cardinality(before) * MaxHits <= Cardinality(after) * MaxHits
<1>1. /\ Cardinality(before) \in Nat /\ Cardinality(after) \in Nat
      /\ Cardinality(before) <= Cardinality(after)
  BY FS_Subset, FS_CardinalityType
<1>2. CASE MaxHits = 1
  BY <1>1, <1>2
<1>3. CASE MaxHits = 2
  BY <1>1, <1>3
<1> QED BY <1>2, <1>3 DEF MaxHits

LEMMA HittersAreCalls ==
    /\ \A k : Hitters(k) \in SUBSET Calls /\ Hitters(k)' \in SUBSET Calls
    /\ \A k : Arrivers(k) \in SUBSET Calls /\ Arrivers(k)' \in SUBSET Calls
BY DEF Hitters, Arrivers

\* What the first round trip does, without its details.
LEMMA HitArrivalEffect ==
    ASSUME LimiterInv, NEW c \in Calls, HitArrival(c)
    PROVE  /\ ArrivalKey(c) \in Devices \X Clock
           /\ \E times \in 0..MaxHits : arrivals' = [arrivals EXCEPT ![ArrivalKey(c)] = @ + times]
           /\ state[c] = "arrival"
           /\ \E decision \in {"ARRIVAL", "recorded", "failedOpen"} :
                /\ state' = [state EXCEPT ![c] = decision]
                /\ decision = "ARRIVAL" => arrivals'[ArrivalKey(c)] > ArrivalLimit
           /\ UNCHANGED <<now, recorded, ttl, key, arrivedAt, countedAt>>
<1>1. \E times \in 0..MaxHits : arrivals' = [arrivals EXCEPT ![ArrivalKey(c)] = @ + times]
  BY DEF HitArrival, Hits, LostHits, MaxHits
<1>2. \E decision \in {"ARRIVAL", "recorded", "failedOpen"} :
        /\ state' = [state EXCEPT ![c] = decision]
        /\ decision = "ARRIVAL" => arrivals'[ArrivalKey(c)] > ArrivalLimit
  <2>1. CASE Decide(c, IF Exceeds(arrivals'[ArrivalKey(c)], ArrivalLimit) THEN "ARRIVAL" ELSE "recorded")
    BY <2>1 DEF Decide, Exceeds
  <2>2. CASE Decide(c, "failedOpen")
    BY <2>2 DEF Decide
  <2> QED BY <2>1, <2>2 DEF HitArrival
<1>3. /\ ArrivalKey(c) \in Devices \X Clock
      /\ state[c] = "arrival" /\ UNCHANGED <<now, recorded, ttl, key, arrivedAt, countedAt>>
  BY KeysAreTyped DEF HitArrival, LimiterInv
<1> QED BY <1>1, <1>2, <1>3


LEMMA BlameIsNatural ==
    ASSUME IsFiniteSet(Calls), NEW s \in SUBSET Calls
    PROVE  Cardinality(s) * MaxHits \in Nat
<1>1. Cardinality(s) \in Nat
  BY FS_Subset, FS_CardinalityType
<1>2. CASE MaxHits = 1
  BY <1>1, <1>2
<1>3. CASE MaxHits = 2
  BY <1>1, <1>3
<1> QED BY <1>2, <1>3 DEF MaxHits

\* Whoever was to blame stays to blame: calls that hit a counter do not unhit it.
LEMMA BlameStays ==
    ASSUME IsFiniteSet(Calls), BlameInv, NEW c \in Calls,
           key' = key, arrivedAt'[c] = arrivedAt[c], state'[c] = state[c],
           \A k : Hitters(k) \subseteq Hitters(k)' /\ Arrivers(k) \subseteq Arrivers(k)'
    PROVE  /\ state'[c] = "ARRIVAL" => Cardinality(Arrivers(ArrivalKey(c))') * MaxHits > ArrivalLimit
           /\ state'[c] = "RECORDED_MINUTE" => Cardinality(Hitters(key[c])') * MaxHits > RecordedLimit
<1>1. PICK k : k = ArrivalKey(c)
  OBVIOUS
<1>2. PICK j : j = key[c]
  OBVIOUS
<1>3. ArrivalKey(c)' = k /\ key'[c] = j
  BY <1>1, <1>2 DEF ArrivalKey
<1>4. Arrivers(ArrivalKey(c))' = Arrivers(k)' /\ Hitters(key[c])' = Hitters(j)'
  BY <1>3 DEF Arrivers, Hitters
<1>5. /\ Cardinality(Arrivers(k)) * MaxHits <= Cardinality(Arrivers(k)') * MaxHits
      /\ Cardinality(Hitters(j)) * MaxHits <= Cardinality(Hitters(j)') * MaxHits
  BY HittersAreCalls, MoreHitters
<1>6. /\ Cardinality(Arrivers(k)) * MaxHits \in Nat /\ Cardinality(Arrivers(k)') * MaxHits \in Nat
      /\ Cardinality(Hitters(j)) * MaxHits \in Nat /\ Cardinality(Hitters(j)') * MaxHits \in Nat
      /\ ArrivalLimit \in Nat /\ RecordedLimit \in Nat
  BY HittersAreCalls, BlameIsNatural, LimitsAssumption
<1>7. /\ state[c] = "ARRIVAL" => Cardinality(Arrivers(k)) * MaxHits > ArrivalLimit
      /\ state[c] = "RECORDED_MINUTE" => Cardinality(Hitters(j)) * MaxHits > RecordedLimit
  BY <1>1, <1>2 DEF BlameInv, RefusedAreToBlame
<1> QED BY <1>4, <1>5, <1>6, <1>7

\* Steps that hit no counter and refuse nobody.
LEMMA BlamelessPreserves ==
    ASSUME IsFiniteSet(Calls), BlameInv, LimiterInv',
           UNCHANGED key,
           \A k \in Keys : recorded'[k] <= recorded[k],
           \A k \in Devices \X Clock : arrivals'[k] <= arrivals[k],
           \A d \in Calls : /\ state'[d] \in {"ARRIVAL", "RECORDED_MINUTE"} => state[d] = state'[d]
                            /\ state[d] # "idle" => state'[d] = state[d] /\ arrivedAt'[d] = arrivedAt[d]
    PROVE  BlameInv'
<1>1. \A k : Hitters(k) \subseteq Hitters(k)' /\ Arrivers(k) \subseteq Arrivers(k)'
  BY DEF Hitters, Arrivers, ArrivalKey
<1>2. \A k : /\ Cardinality(Hitters(k)) * MaxHits <= Cardinality(Hitters(k)') * MaxHits
             /\ Cardinality(Arrivers(k)) * MaxHits <= Cardinality(Arrivers(k)') * MaxHits
  BY <1>1, HittersAreCalls, MoreHitters
<1>3. \A k : /\ Cardinality(Hitters(k)) * MaxHits \in Nat /\ Cardinality(Hitters(k)') * MaxHits \in Nat
             /\ Cardinality(Arrivers(k)) * MaxHits \in Nat /\ Cardinality(Arrivers(k)') * MaxHits \in Nat
  BY HittersAreCalls, BlameIsNatural
<1>4. HitsAreOwn'
  <2>1. ASSUME NEW k \in Keys PROVE recorded'[k] <= Cardinality(Hitters(k)') * MaxHits
    <3>1. recorded[k] \in Nat /\ recorded'[k] \in Nat
      BY DEF BlameInv, LimiterInv, LimiterTypeOK
    <3> QED BY <1>2, <1>3, <3>1 DEF BlameInv, HitsAreOwn
  <2>2. ASSUME NEW k \in Devices \X Clock PROVE arrivals'[k] <= Cardinality(Arrivers(k)') * MaxHits
    <3>1. arrivals[k] \in Nat /\ arrivals'[k] \in Nat
      BY DEF BlameInv, LimiterInv, LimiterTypeOK
    <3> QED BY <1>2, <1>3, <3>1 DEF BlameInv, HitsAreOwn
  <2> QED BY <2>1, <2>2 DEF HitsAreOwn, MaxHits
<1>5. RefusedAreToBlame'
  <2> SUFFICES ASSUME NEW c \in Calls, state'[c] \in {"ARRIVAL", "RECORDED_MINUTE"}
               PROVE  /\ state'[c] = "ARRIVAL" => Cardinality(Arrivers(ArrivalKey(c))') * MaxHits > ArrivalLimit
                      /\ state'[c] = "RECORDED_MINUTE" => Cardinality(Hitters(key[c])') * MaxHits > RecordedLimit
    BY DEF RefusedAreToBlame, MaxHits
  <2>1. state[c] = state'[c] /\ arrivedAt'[c] = arrivedAt[c] /\ key' = key
    OBVIOUS
  <2> QED BY <1>1, <2>1, BlameStays
<1> QED BY <1>4, <1>5 DEF BlameInv

LEMMA HitArrivalBlames ==
    ASSUME IsFiniteSet(Calls), BlameInv, NEW c \in Calls, HitArrival(c)
    PROVE  BlameInv'
<1>1. PICK k \in Devices \X Clock : k = ArrivalKey(c)
  BY HitArrivalEffect DEF BlameInv
<1>2. PICK times \in 0..MaxHits : arrivals' = [arrivals EXCEPT ![k] = @ + times]
  BY <1>1, HitArrivalEffect DEF BlameInv
<1>3. PICK decision \in {"ARRIVAL", "recorded", "failedOpen"} :
        /\ state' = [state EXCEPT ![c] = decision]
        /\ decision = "ARRIVAL" => arrivals'[k] > ArrivalLimit
  BY <1>1, HitArrivalEffect DEF BlameInv
<1>4. /\ state[c] = "arrival" /\ UNCHANGED <<now, recorded, ttl, key, arrivedAt, countedAt>>
      /\ state'[c] = decision /\ \A d \in Calls : d # c => state'[d] = state[d]
  BY <1>3, HitArrivalEffect DEF BlameInv, LimiterInv, LimiterTypeOK
<1>5. \A d : ArrivalKey(d)' = ArrivalKey(d)
  BY <1>4 DEF ArrivalKey
<1>6. /\ \A j : Hitters(j) \subseteq Hitters(j)' /\ Arrivers(j) \subseteq Arrivers(j)'
      /\ c \notin Arrivers(k) /\ \A j : j = k => c \in Arrivers(j)'
  BY <1>1, <1>4, <1>5 DEF Hitters, Arrivers
<1>7. PICK j : j = k
  OBVIOUS
<1>8. /\ arrivals[j] \in Nat /\ recorded \in [Keys -> Nat] /\ arrivals \in [Devices \X Clock -> Nat]
      /\ arrivals'[j] = arrivals[j] + times /\ \A i \in Devices \X Clock : i # j => arrivals'[i] = arrivals[i]
  BY <1>2, <1>7 DEF BlameInv, LimiterInv, LimiterTypeOK
<1>9. arrivals'[j] <= Cardinality(Arrivers(j)') * MaxHits
  BY <1>6, <1>7, <1>8, HittersAreCalls, OneMoreHitter DEF BlameInv, HitsAreOwn
<1>10. \A i : /\ Cardinality(Hitters(i)) * MaxHits <= Cardinality(Hitters(i)') * MaxHits
              /\ Cardinality(Arrivers(i)) * MaxHits <= Cardinality(Arrivers(i)') * MaxHits
  BY <1>6, HittersAreCalls, MoreHitters
<1>11. \A i : /\ Cardinality(Hitters(i)) * MaxHits \in Nat /\ Cardinality(Hitters(i)') * MaxHits \in Nat
              /\ Cardinality(Arrivers(i)) * MaxHits \in Nat /\ Cardinality(Arrivers(i)') * MaxHits \in Nat
  BY HittersAreCalls, BlameIsNatural
<1>12. HitsAreOwn'
  <2>1. ASSUME NEW i \in Keys PROVE recorded'[i] <= Cardinality(Hitters(i)') * MaxHits
    BY <1>4, <1>8, <1>10, <1>11 DEF BlameInv, HitsAreOwn
  <2>2. ASSUME NEW i \in Devices \X Clock PROVE arrivals'[i] <= Cardinality(Arrivers(i)') * MaxHits
    <3>1. CASE i = j
      BY <1>9, <3>1
    <3>2. CASE i # j
      BY <1>8, <1>10, <1>11, <3>2 DEF BlameInv, HitsAreOwn
    <3> QED BY <3>1, <3>2
  <2> QED BY <2>1, <2>2 DEF HitsAreOwn, MaxHits
<1>13. RefusedAreToBlame'
  <2> SUFFICES ASSUME NEW d \in Calls
               PROVE  /\ state'[d] = "ARRIVAL" => Cardinality(Arrivers(ArrivalKey(d))') * MaxHits > ArrivalLimit
                      /\ state'[d] = "RECORDED_MINUTE" => Cardinality(Hitters(key[d])') * MaxHits > RecordedLimit
    BY DEF RefusedAreToBlame, MaxHits
  <2>1. CASE d # c
    BY <1>4, <1>6, <2>1, BlameStays
  <2>2. CASE d = c
    <3>1. Arrivers(ArrivalKey(d))' = Arrivers(j)'
      BY <1>1, <1>5, <1>7, <2>2 DEF Arrivers
    <3>2. decision = "ARRIVAL" => Cardinality(Arrivers(j)') * MaxHits > ArrivalLimit
      BY <1>2, <1>3, <1>7, <1>8, <1>9, <1>11, LimitsAssumption
    <3> QED BY <1>4, <2>2, <3>1, <3>2
  <2> QED BY <2>1, <2>2
<1> QED BY <1>12, <1>13, HitArrivalPreserves DEF BlameInv

LEMMA HitRecordedBlames ==
    ASSUME IsFiniteSet(Calls), BlameInv, NEW c \in Calls, HitRecorded(c)
    PROVE  BlameInv'
<1>1. PICK k \in Keys : k = key[c]
  BY HitRecordedEffect DEF BlameInv
<1>2. PICK times \in 0..MaxHits : recorded' = [recorded EXCEPT ![k] = @ + times]
  BY <1>1, HitRecordedEffect DEF BlameInv
<1>3. PICK decision \in {"allowed", "RECORDED_MINUTE", "failedOpen"} :
        /\ state' = [state EXCEPT ![c] = decision]
        /\ decision = "RECORDED_MINUTE" => recorded'[k] > RecordedLimit
  BY <1>1, HitRecordedEffect DEF BlameInv
<1>4. /\ state[c] = "recorded" /\ UNCHANGED <<now, arrivals, key, arrivedAt>>
      /\ state'[c] = decision /\ \A d \in Calls : d # c => state'[d] = state[d]
  BY <1>3, HitRecordedEffect DEF BlameInv, LimiterInv, LimiterTypeOK
<1>5. \A d : ArrivalKey(d)' = ArrivalKey(d)
  BY <1>4 DEF ArrivalKey
<1>6. /\ \A j : Hitters(j) \subseteq Hitters(j)' /\ Arrivers(j) \subseteq Arrivers(j)'
      /\ c \notin Hitters(k) /\ \A j : j = k => c \in Hitters(j)'
  BY <1>1, <1>4, <1>5 DEF Hitters, Arrivers
<1>7. PICK j : j = k
  OBVIOUS
<1>8. /\ recorded[j] \in Nat /\ recorded \in [Keys -> Nat] /\ arrivals \in [Devices \X Clock -> Nat]
      /\ recorded'[j] = recorded[j] + times /\ \A i \in Keys : i # j => recorded'[i] = recorded[i]
  BY <1>2, <1>7 DEF BlameInv, LimiterInv, LimiterTypeOK
<1>9. recorded'[j] <= Cardinality(Hitters(j)') * MaxHits
  BY <1>6, <1>7, <1>8, HittersAreCalls, OneMoreHitter DEF BlameInv, HitsAreOwn
<1>10. \A i : /\ Cardinality(Hitters(i)) * MaxHits <= Cardinality(Hitters(i)') * MaxHits
              /\ Cardinality(Arrivers(i)) * MaxHits <= Cardinality(Arrivers(i)') * MaxHits
  BY <1>6, HittersAreCalls, MoreHitters
<1>11. \A i : /\ Cardinality(Hitters(i)) * MaxHits \in Nat /\ Cardinality(Hitters(i)') * MaxHits \in Nat
              /\ Cardinality(Arrivers(i)) * MaxHits \in Nat /\ Cardinality(Arrivers(i)') * MaxHits \in Nat
  BY HittersAreCalls, BlameIsNatural
<1>12. HitsAreOwn'
  <2>1. ASSUME NEW i \in Devices \X Clock PROVE arrivals'[i] <= Cardinality(Arrivers(i)') * MaxHits
    BY <1>4, <1>8, <1>10, <1>11 DEF BlameInv, HitsAreOwn
  <2>2. ASSUME NEW i \in Keys PROVE recorded'[i] <= Cardinality(Hitters(i)') * MaxHits
    <3>1. CASE i = j
      BY <1>9, <3>1
    <3>2. CASE i # j
      BY <1>8, <1>10, <1>11, <3>2 DEF BlameInv, HitsAreOwn
    <3> QED BY <3>1, <3>2
  <2> QED BY <2>1, <2>2 DEF HitsAreOwn, MaxHits
<1>13. RefusedAreToBlame'
  <2> SUFFICES ASSUME NEW d \in Calls
               PROVE  /\ state'[d] = "ARRIVAL" => Cardinality(Arrivers(ArrivalKey(d))') * MaxHits > ArrivalLimit
                      /\ state'[d] = "RECORDED_MINUTE" => Cardinality(Hitters(key[d])') * MaxHits > RecordedLimit
    BY DEF RefusedAreToBlame, MaxHits
  <2>1. CASE d # c
    BY <1>4, <1>6, <2>1, BlameStays
  <2>2. CASE d = c
    <3>1. Hitters(key[d])' = Hitters(j)'
      BY <1>1, <1>4, <1>7, <2>2 DEF Hitters
    <3>2. decision = "RECORDED_MINUTE" => Cardinality(Hitters(j)') * MaxHits > RecordedLimit
      BY <1>2, <1>3, <1>7, <1>8, <1>9, <1>11, LimitsAssumption
    <3> QED BY <1>4, <2>2, <3>1, <3>2
  <2> QED BY <2>1, <2>2
<1> QED BY <1>12, <1>13, HitRecordedPreserves DEF BlameInv

LEMMA BlameNext ==
    ASSUME IsFiniteSet(Calls), BlameInv, [LimiterNext]_limiterVars
    PROVE  BlameInv'
<1>1. LimiterInv'
  BY LimiterNextPreserves DEF BlameInv
<1>2. (\A k \in Keys : recorded[k] \in Nat) /\ (\A k \in Devices \X Clock : arrivals[k] \in Nat)
  BY DEF BlameInv, LimiterInv, LimiterTypeOK
<1>3. ASSUME NEW c \in Calls, Consume(c) PROVE BlameInv'
  <2>1. /\ UNCHANGED <<key, arrivals, recorded>>
        /\ \A d \in Calls : /\ state'[d] \in {"ARRIVAL", "RECORDED_MINUTE"} => state[d] = state'[d]
                            /\ state[d] # "idle" => state'[d] = state[d] /\ arrivedAt'[d] = arrivedAt[d]
    BY <1>3 DEF Consume, Decide, BlameInv, LimiterInv, LimiterTypeOK
  <2> QED BY <1>1, <1>2, <2>1, BlamelessPreserves
<1>4. CASE Tick
  BY <1>1, <1>2, <1>4, BlamelessPreserves DEF Tick
<1>5. CASE UNCHANGED limiterVars
  BY <1>1, <1>2, <1>5, BlamelessPreserves DEF limiterVars
<1>6. ASSUME NEW k \in Devices \X Clock, ExpireArrival(k) PROVE BlameInv'
  <2>1. \A j \in Devices \X Clock : arrivals'[j] <= arrivals[j]
    BY <1>2, <1>6 DEF ExpireArrival, BlameInv, LimiterInv, LimiterTypeOK
  <2> QED BY <1>1, <1>2, <1>6, <2>1, BlamelessPreserves DEF ExpireArrival
<1> QED BY <1>3, <1>4, <1>5, <1>6, HitArrivalBlames, HitRecordedBlames DEF LimiterNext

\* For finitely many calls: whoever is refused has itself sent more than the
\* limit, counting repeated hits; nobody pays for another device or minute.
THEOREM OnlyTheGuiltyAreRefused ==
    ASSUME IsFiniteSet(Calls)
    PROVE  LimiterSpec => []NoInnocentRefusal
<1>1. LimiterInit => BlameInv
  <2> SUFFICES ASSUME LimiterInit PROVE BlameInv
    OBVIOUS
  <2>1. HitsAreOwn
    BY HittersAreCalls, BlameIsNatural DEF LimiterInit, HitsAreOwn
  <2>2. RefusedAreToBlame
    BY DEF LimiterInit, RefusedAreToBlame
  <2> QED BY <2>1, <2>2, LimiterInitInv DEF BlameInv
<1>2. BlameInv => NoInnocentRefusal
  <2> SUFFICES ASSUME BlameInv, NEW c \in Calls
               PROVE  /\ state[c] = "ARRIVAL" => Cardinality(SameArrival(c)) * MaxHits > ArrivalLimit
                      /\ state[c] = "RECORDED_MINUTE" => Cardinality(SameRecorded(c)) * MaxHits > RecordedLimit
    BY DEF NoInnocentRefusal
  <2>1. SameRecorded(c) = Hitters(key[c])
    BY DEF SameRecorded, Hitters
  <2>2. Arrivers(ArrivalKey(c)) \subseteq SameArrival(c) /\ SameArrival(c) \in SUBSET Calls
    BY DEF SameArrival, Arrivers
  <2>3. /\ Cardinality(Arrivers(ArrivalKey(c))) * MaxHits <= Cardinality(SameArrival(c)) * MaxHits
        /\ Cardinality(Arrivers(ArrivalKey(c))) * MaxHits \in Nat
        /\ Cardinality(SameArrival(c)) * MaxHits \in Nat
    BY <2>2, HittersAreCalls, MoreHitters, BlameIsNatural
  <2> QED BY <2>1, <2>3, LimitsAssumption DEF BlameInv, RefusedAreToBlame
<1>3. BlameInv /\ [LimiterNext]_limiterVars => BlameInv'
  BY BlameNext
<1> QED BY <1>1, <1>2, <1>3, PTL DEF LimiterSpec
==============================================================================
