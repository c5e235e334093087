----------------------------- MODULE RateLimiter -----------------------------
(***************************************************************************)
(* TelemetryRateLimiter.consume: two counters in Redis, one for the        *)
(* requests of a device that arrive in the same wall-clock minute, one for *)
(* the readings of a device that describe the same minute.                 *)
(*                                                                         *)
(* A call is two round trips, one per counter; calls of different requests *)
(* and instances interleave between them.  Time is counted in minutes.     *)
(***************************************************************************)
EXTENDS Naturals, FiniteSets

CONSTANTS
    Calls,           \* calls of consume
    Devices,         \* device ids
    Minutes,         \* the minutes that recordedAt may fall in
    ArrivalLimit,    \* TELEMETRY_MAX_REQUESTS_PER_MINUTE
    RecordedLimit,   \* TELEMETRY_MAX_READINGS_PER_MINUTE
    RecordedWindow,  \* the life of a recorded-minute counter after a hit, in minutes
    MayFail,         \* TRUE if Redis calls may fail
    LastMinute       \* bound: the clock stops here

ASSUME LimitsAssumption == ArrivalLimit \in Nat \ {0} /\ RecordedLimit \in Nat \ {0}
ASSUME WindowAssumption == RecordedWindow \in Nat \ {0}
ASSUME ClockAssumption == LastMinute \in Nat
ASSUME LimiterFailureAssumption == MayFail \in BOOLEAN

Keys == Devices \X Minutes
Clock == 0..LastMinute

VARIABLES
    now,        \* the current wall-clock minute
    arrivals,   \* the counter of each device and arrival minute
    recorded,   \* the counter of each device and recorded minute, 0 when absent
    ttl,        \* the minutes each recorded counter has left to live
    state,      \* what each call waits for or has decided
    key,        \* the device and recorded minute each call is about
    arrivedAt,  \* the minute in which each call read the clock
    countedAt   \* the minute in which each call hit its recorded counter

limiterVars == <<now, arrivals, recorded, ttl, state, key, arrivedAt, countedAt>>

Decisions == {"allowed", "ARRIVAL", "RECORDED_MINUTE", "failedOpen"}

LimiterTypeOK ==
    /\ now \in Clock
    /\ arrivals \in [Devices \X Clock -> Nat]
    /\ recorded \in [Keys -> Nat]
    /\ ttl \in [Keys -> 0..RecordedWindow]
    /\ state \in [Calls -> {"idle", "arrival", "recorded"} \cup Decisions]
    /\ key \in [Calls -> Keys]
    /\ arrivedAt \in [Calls -> Clock]
    /\ countedAt \in [Calls -> Clock]

LimiterInit ==
    /\ now = 0
    /\ arrivals = [k \in Devices \X Clock |-> 0]
    /\ recorded = [k \in Keys |-> 0]
    /\ ttl = [k \in Keys |-> 0]
    /\ state = [c \in Calls |-> "idle"]
    /\ key \in [Calls -> Keys]
    /\ arrivedAt = [c \in Calls |-> 0]
    /\ countedAt = [c \in Calls |-> 0]

------------------------------------------------------------------------------
Decide(c, decision) == state' = [state EXCEPT ![c] = decision]

ArrivalKey(c) == <<key[c][1], arrivedAt[c]>>

\* A request hits a counter once; when its reply is lost, the client may send
\* the MULTI again, and when the client gives up Redis may have run it or not.
Hits == IF MayFail THEN {1, 2} ELSE {1}
LostHits == {0, 1, 2}

\* MUTANT: the limit itself is refused.
RefusesTheLimit(value, limit) == value >= limit

Exceeds(value, limit) == value > limit

\* MUTANT: the counter lives for a minute, like the arrival counter.
HitForAMinute(k, times) ==
    /\ recorded' = [recorded EXCEPT ![k] = @ + times]
    /\ ttl' = [ttl EXCEPT ![k] = IF times = 0 THEN @ ELSE 1]

\* MUTANT: only the hit that creates the counter sets its life, in a second
\* command that may not be reached.
ExpireOnFirstHit(k, times) ==
    /\ recorded' = [recorded EXCEPT ![k] = @ + times]
    /\ \/ ttl' = [ttl EXCEPT ![k] = IF times > 0 /\ recorded[k] = 0 THEN RecordedWindow ELSE @]
       \/ MayFail /\ UNCHANGED ttl

\* MUTANT: a hit adds to the life that is left.
HitExtends(k, times) ==
    /\ recorded' = [recorded EXCEPT ![k] = @ + times]
    /\ ttl' = [ttl EXCEPT ![k] = IF times = 0 THEN @ ELSE @ + RecordedWindow]

\* INCR and EXPIRE in one MULTI, on every hit.
Hit(k, times) ==
    /\ recorded' = [recorded EXCEPT ![k] = @ + times]
    /\ ttl' = [ttl EXCEPT ![k] = IF times = 0 THEN @ ELSE RecordedWindow]

\* consume is called and names the arrival counter after the current minute.
Consume(c) ==
    /\ state[c] = "idle"
    /\ Decide(c, "arrival")
    /\ arrivedAt' = [arrivedAt EXCEPT ![c] = now]
    /\ UNCHANGED <<now, arrivals, recorded, ttl, key, countedAt>>

\* The first round trip.  A call that was held up since it named the counter hits
\* one of a minute that is over.
HitArrival(c) ==
    /\ state[c] = "arrival"
    /\ \/ \E times \in Hits :
            /\ arrivals' = [arrivals EXCEPT ![ArrivalKey(c)] = @ + times]
            /\ Decide(c, IF Exceeds(arrivals'[ArrivalKey(c)], ArrivalLimit) THEN "ARRIVAL" ELSE "recorded")
       \/ /\ MayFail
          /\ \E times \in LostHits : arrivals' = [arrivals EXCEPT ![ArrivalKey(c)] = @ + times]
          /\ Decide(c, "failedOpen")
    /\ UNCHANGED <<now, recorded, ttl, key, arrivedAt, countedAt>>

\* The second round trip.
HitRecorded(c) ==
    /\ state[c] = "recorded"
    /\ countedAt' = [countedAt EXCEPT ![c] = now]
    /\ \/ \E times \in Hits :
            /\ Hit(key[c], times)
            /\ Decide(c, IF Exceeds(recorded'[key[c]], RecordedLimit) THEN "RECORDED_MINUTE" ELSE "allowed")
       \/ /\ MayFail
          /\ \E times \in LostHits : Hit(key[c], times)
          /\ Decide(c, "failedOpen")
    /\ UNCHANGED <<now, arrivals, key, arrivedAt>>

\* A minute passes, and the counters that were not hit for the window are gone.
Tick ==
    /\ now < LastMinute
    /\ now' = now + 1
    /\ ttl' = [k \in Keys |-> IF ttl[k] = 0 THEN 0 ELSE ttl[k] - 1]
    /\ recorded' = [k \in Keys |-> IF ttl[k] = 1 THEN 0 ELSE recorded[k]]
    /\ UNCHANGED <<arrivals, state, key, arrivedAt, countedAt>>

\* An arrival counter lives for a minute after each hit, so it is gone some time
\* after its own minute; calls may hit it before and after.
ExpireArrival(k) ==
    /\ k[2] < now
    /\ arrivals[k] > 0
    /\ arrivals' = [arrivals EXCEPT ![k] = 0]
    /\ UNCHANGED <<now, recorded, ttl, state, key, arrivedAt, countedAt>>

LimiterNext ==
    \/ \E c \in Calls : Consume(c) \/ HitArrival(c) \/ HitRecorded(c)
    \/ \E k \in Devices \X Clock : ExpireArrival(k)
    \/ Tick

LimiterSpec == LimiterInit /\ [][LimiterNext]_limiterVars

------------------------------------------------------------------------------
(* What the limiter promises.                                              *)

\* A counter of a recorded minute always has an end of life, so no device is
\* locked out of a minute for ever, whatever fails between two commands.
CountersAreMortal == \A k \in Keys : recorded[k] > 0 => ttl[k] > 0

Admissions(k) == {c \in Calls : state[c] = "allowed" /\ key[c] = k}

\* However calls interleave, and whatever hits Redis repeats or loses, at most
\* RecordedLimit readings of a device for one recorded minute are admitted
\* within the window, not counting those let through because Redis failed.
AtMostLimitPerRecordedMinute ==
    \A k \in Keys : \A first \in Admissions(k) :
        Cardinality({c \in Admissions(k) :
            countedAt[c] \in countedAt[first]..(countedAt[first] + RecordedWindow - 1)}) <= RecordedLimit

\* The calls that may have hit the counter that call c hit: those that failed
\* open may have hit either one.
SameArrival(c) == {d \in Calls : state[d] # "idle" /\ ArrivalKey(d) = ArrivalKey(c)}
SameRecorded(c) == {d \in Calls : state[d] \in {"allowed", "RECORDED_MINUTE", "failedOpen"} /\ key[d] = key[c]}

\* The hits one call may leave on a counter.
MaxHits == IF MayFail THEN 2 ELSE 1

\* A device is refused only for what it did itself: its requests in that minute,
\* or its readings of that recorded minute, repeated hits included, are more
\* than the limit.
NoInnocentRefusal ==
    \A c \in Calls :
        /\ state[c] = "ARRIVAL" => Cardinality(SameArrival(c)) * MaxHits > ArrivalLimit
        /\ state[c] = "RECORDED_MINUTE" => Cardinality(SameRecorded(c)) * MaxHits > RecordedLimit

\* A device is refused a recorded minute only while a reading of its own for it is
\* less than a window old: one that stays silent for the window gets in again.
\* Calls that are refused themselves renew the counter, so no shorter silence
\* would do.
RefusalEndsWithTheWindow ==
    RecordedLimit >= MaxHits =>
        \A c \in Calls : state[c] = "RECORDED_MINUTE" =>
            \E d \in SameRecorded(c) \ {c} : countedAt[d] + RecordedWindow > countedAt[c]
==============================================================================
