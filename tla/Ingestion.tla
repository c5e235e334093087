------------------------------ MODULE Ingestion ------------------------------
(***************************************************************************)
(* The write path POST /devices/:id/telemetry (RecordTelemetryHandler) and *)
(* the read path GET /devices/:id/latest (GetLatestDeviceStateHandler),    *)
(* which meet in the telemetry table of Postgres and in the latest-state   *)
(* cache of Redis.                                                         *)
(*                                                                         *)
(* Each HTTP request is a process; the step boundaries are the awaits of   *)
(* its handler, so pc names the call that a request is waiting for.  Any   *)
(* number of instances of the service share the two stores, which is why   *)
(* requests interleave freely and crash one by one.                        *)
(***************************************************************************)
EXTENDS Naturals, FiniteSets

CONSTANTS
    Devices,    \* device ids
    Users,      \* authenticated callers (ownerId of the command)
    Nobody,     \* the owner of a device id that is not registered
    Owner,      \* the devices table: [Devices -> Users \cup {Nobody}]
    Times,      \* recordedAt timestamps
    Bodies,     \* battery, temperature, location and status of a reading
    Malformed,  \* the bodies that some value object refuses
    Posts,      \* POST requests; also the ids that generateId() gives them
    Gets,       \* GET requests
    None,       \* null
    Faults,     \* what may go wrong: a subset of FaultKinds
    MaxPosts,   \* bound: POSTs in flight at once
    MaxInFlight \* bound: requests of both kinds in flight at once

FaultKinds == {"database", "redis", "crash", "expiry"}

ASSUME OwnerAssumption == Owner \in [Devices -> Users \cup {Nobody}]
ASSUME NobodyAssumption == Nobody \notin Users
ASSUME TimesAssumption == Times \subseteq Nat
ASSUME RequestsAssumption == Posts \cap Gets = {}
ASSUME FaultsAssumption == Faults \subseteq FaultKinds
ASSUME MalformedAssumption == Malformed \subseteq Bodies

Commands == [deviceId : Devices, ownerId : Users, timestamp : Times, body : Bodies]
Queries == [deviceId : Devices, ownerId : Users]
Rows == [id : Posts, deviceId : Devices, recordedAt : Times, body : Bodies]
States == [recordedAt : Times, body : Bodies]

\* 500 stands for every 5xx with which the error filter answers a failed store.
Receipts == [status : {201, 400, 404, 429, 500}, id : Posts \cup {None}, outcome : {"STORED", "DUPLICATE", "NONE"}]
Views == [status : {200, 404, 500}, state : States \cup {None}, outcome : {"HIT", "MISS", "NONE"}]

ASSUME NoneAssumption == None \notin Posts \cup States \cup Receipts \cup Views \cup Commands \cup Queries

VARIABLES
    telemetry,  \* the TelemetryEvent table
    cache,      \* the cached latest state of each device, None when absent
    published,  \* the readings whose verdicts were handed to the event bus
    charged,    \* the POSTs that spent some of a device's rate-limit budget
    pc,         \* what each request is waiting for
    cmd,        \* the command or query of each request
    receipt,    \* the answer to each POST
    held,       \* the state that a GET read from the table
    view        \* the answer to each GET

vars == <<telemetry, cache, published, charged, pc, cmd, receipt, held, view>>

PostSteps == {"getById", "consume", "save", "existingIdFor", "isSupersededBy", "saveLatest", "publishAll"}
GetSteps == {"findOwnedById", "findLatest", "findLatestByDeviceId", "repopulate"}

InFlight(r) == pc[r] \in PostSteps \cup GetSteps

TypeOK ==
    /\ telemetry \subseteq Rows
    /\ cache \in [Devices -> States \cup {None}]
    /\ published \subseteq Posts
    /\ charged \subseteq Posts
    /\ pc \in [Posts \cup Gets -> {"idle", "answered", "lost"} \cup PostSteps \cup GetSteps]
    /\ cmd \in [Posts \cup Gets -> Commands \cup Queries \cup {None}]
    /\ receipt \in [Posts -> Receipts \cup {None}]
    /\ held \in [Gets -> States \cup {None}]
    /\ view \in [Gets -> Views \cup {None}]

Init ==
    /\ telemetry = {}
    /\ cache = [d \in Devices |-> None]
    /\ published = {}
    /\ charged = {}
    /\ pc = [r \in Posts \cup Gets |-> "idle"]
    /\ cmd = [r \in Posts \cup Gets |-> None]
    /\ receipt = [p \in Posts |-> None]
    /\ held = [g \in Gets |-> None]
    /\ view = [g \in Gets |-> None]

------------------------------------------------------------------------------
(* Operators of the two handlers.                                          *)

\* The reading that POST p records, under the id generated for it.
Reading(p) == [id |-> p, deviceId |-> cmd[p].deviceId,
               recordedAt |-> cmd[p].timestamp, body |-> cmd[p].body]

\* What LatestDeviceState keeps of a reading.
StateOf(row) == [recordedAt |-> row.recordedAt, body |-> row.body]

\* The unique index (deviceId, recordedAt).
SameKey(a, b) == a.deviceId = b.deviceId /\ a.recordedAt = b.recordedAt

\* The rows findLatestByDeviceId may return: the newest by recordedAt.
Latest(d) == {row \in telemetry : /\ row.deviceId = d
                                  /\ \A other \in telemetry : other.deviceId = d => other.recordedAt <= row.recordedAt}

OwnedByCaller(r) == Owner[cmd[r].deviceId] = cmd[r].ownerId

\* MUTANT: readings claim the latest state in the order they arrive.
LastReceivedWins(p) == FALSE

\* The cached state is at least as recent as the reading of p.
Superseded(p) ==
    LET cached == cache[cmd[p].deviceId]
    IN cached # None /\ cached.recordedAt >= cmd[p].timestamp

Admitted == Cardinality({r \in Posts \cup Gets : InFlight(r)}) < MaxInFlight

Goto(r, step) == pc' = [pc EXCEPT ![r] = step]

Answer(p, status, id, outcome) ==
    /\ Goto(p, "answered")
    /\ receipt' = [receipt EXCEPT ![p] = [status |-> status, id |-> id, outcome |-> outcome]]

Fail(p, status) == Answer(p, status, None, "NONE")

Show(g, status, state, outcome) ==
    /\ Goto(g, "answered")
    /\ view' = [view EXCEPT ![g] = [status |-> status, state |-> state, outcome |-> outcome]]

------------------------------------------------------------------------------
(* POST /devices/:id/telemetry                                             *)

ReceivePost(p, c) ==
    /\ pc[p] = "idle"
    /\ Cardinality({q \in Posts : InFlight(q)}) < MaxPosts
    /\ Admitted
    /\ Goto(p, "getById")
    /\ cmd' = [cmd EXCEPT ![p] = c]
    /\ UNCHANGED <<telemetry, cache, published, charged, receipt, held, view>>

\* MUTANT: the budget is spent before the caller is known to own the device.
ThrottleFirst(p) ==
    /\ pc[p] = "getById"
    /\ charged' = charged \cup {p}
    /\ IF OwnedByCaller(p) THEN Goto(p, "consume") /\ UNCHANGED receipt ELSE Fail(p, 404)
    /\ UNCHANGED <<telemetry, cache, published, cmd, held, view>>

\* A missing device and one that belongs to somebody else are the same 404.
GetById(p) ==
    /\ pc[p] = "getById"
    /\ \/ OwnedByCaller(p) /\ Goto(p, "consume") /\ UNCHANGED receipt
       \/ ~OwnedByCaller(p) /\ Fail(p, 404)
       \/ "database" \in Faults /\ Fail(p, 500)
    /\ UNCHANGED <<telemetry, cache, published, charged, cmd, held, view>>

\* The limiter charges the device and decides (any decision here); then, in the
\* same synchronous stretch, the aggregate validates the payload.
Consume(p) ==
    /\ pc[p] = "consume"
    /\ charged' = charged \cup {p}
    /\ \/ Fail(p, 429)
       \/ cmd[p].body \in Malformed /\ Fail(p, 400)
       \/ cmd[p].body \notin Malformed /\ Goto(p, "save") /\ UNCHANGED receipt
    /\ UNCHANGED <<telemetry, cache, published, cmd, held, view>>

\* MUTANT: a failed insert is logged and the handler goes on.
SaveSwallowsError(p) ==
    /\ pc[p] = "save"
    /\ \/ telemetry' = telemetry \cup {Reading(p)}
       \/ "database" \in Faults /\ UNCHANGED telemetry
    /\ ~\E row \in telemetry : SameKey(row, Reading(p))
    /\ Goto(p, "isSupersededBy")
    /\ UNCHANGED <<cache, published, charged, cmd, receipt, held, view>>

\* MUTANT: the unique violation reaches the error filter, which makes it a 409.
ConflictEscapes(p) ==
    /\ pc[p] = "save"
    /\ IF \E row \in telemetry : SameKey(row, Reading(p))
       THEN Fail(p, 409) /\ UNCHANGED telemetry
       ELSE telemetry' = telemetry \cup {Reading(p)} /\ Goto(p, "isSupersededBy") /\ UNCHANGED receipt
    /\ UNCHANGED <<cache, published, charged, cmd, held, view>>

\* One INSERT: the unique index arbitrates.  A database fault loses either the
\* statement or only its outcome, and in both cases the caller is told 500.
Save(p) ==
    /\ pc[p] = "save"
    /\ \/ /\ ~\E row \in telemetry : SameKey(row, Reading(p))
          /\ telemetry' = telemetry \cup {Reading(p)}
          /\ \/ Goto(p, "isSupersededBy") /\ UNCHANGED receipt
             \/ "database" \in Faults /\ Fail(p, 500)
       \/ /\ \E row \in telemetry : SameKey(row, Reading(p))
          /\ Goto(p, "existingIdFor")
          /\ UNCHANGED <<telemetry, receipt>>
       \/ "database" \in Faults /\ Fail(p, 500) /\ UNCHANGED telemetry
    /\ UNCHANGED <<cache, published, charged, cmd, held, view>>

\* MUTANT: the duplicate answers with the id generated for it.
OwnIdForDuplicate(p) ==
    /\ pc[p] = "existingIdFor"
    /\ Answer(p, 201, p, "DUPLICATE")
    /\ UNCHANGED <<telemetry, cache, published, charged, cmd, held, view>>

\* MUTANT: the early return for duplicates is gone.
DuplicateGoesOn(p) ==
    /\ pc[p] = "existingIdFor"
    /\ Goto(p, "isSupersededBy")
    /\ UNCHANGED <<telemetry, cache, published, charged, cmd, receipt, held, view>>

\* MUTANT: the duplicate waits until it finds a row under its own id.
AwaitOwnRow(p) ==
    /\ pc[p] = "existingIdFor"
    /\ Reading(p) \in telemetry
    /\ Answer(p, 201, p, "DUPLICATE")
    /\ UNCHANGED <<telemetry, cache, published, charged, cmd, held, view>>

\* The id of the row that is stored for the key; its own if there is none.
ExistingIds(p) ==
    LET ids == {row.id : row \in {stored \in telemetry : SameKey(stored, Reading(p))}}
    IN IF ids = {} THEN {p} ELSE ids

\* A duplicate stops here: no cache write and no event.  The controller answers 201
\* to it as to a stored reading; README.md:107 has 200.
ExistingIdFor(p) ==
    /\ pc[p] = "existingIdFor"
    /\ \/ \E id \in ExistingIds(p) : Answer(p, 201, id, "DUPLICATE")
       \/ "database" \in Faults /\ Fail(p, 500)
    /\ UNCHANGED <<telemetry, cache, published, charged, cmd, held, view>>

\* MUTANT: refreshLatestState lost its try/catch.
RedisErrorEscapes(p) ==
    /\ pc[p] = "isSupersededBy"
    /\ \/ Goto(p, IF Superseded(p) THEN "publishAll" ELSE "saveLatest") /\ UNCHANGED receipt
       \/ "redis" \in Faults /\ Fail(p, 500)
    /\ UNCHANGED <<telemetry, cache, published, charged, cmd, held, view>>

\* MUTANT: a superseded reading returns before it publishes.
SupersededStops(p) ==
    /\ pc[p] = "isSupersededBy"
    /\ \/ Superseded(p) /\ Answer(p, 201, p, "STORED")
       \/ ~Superseded(p) /\ Goto(p, "saveLatest") /\ UNCHANGED receipt
    /\ UNCHANGED <<telemetry, cache, published, charged, cmd, held, view>>

\* The read half of refreshLatestState; a Redis error ends the refresh.
IsSupersededBy(p) ==
    /\ pc[p] = "isSupersededBy"
    /\ \/ Superseded(p) /\ Goto(p, "publishAll")
       \/ ~Superseded(p) /\ Goto(p, "saveLatest")
       \/ "redis" \in Faults /\ Goto(p, "publishAll")
    /\ UNCHANGED <<telemetry, cache, published, charged, cmd, receipt, held, view>>

\* The write half: a SET that does not look at what it overwrites.
SaveLatest(p) ==
    /\ pc[p] = "saveLatest"
    /\ Goto(p, "publishAll")
    /\ \/ cache' = [cache EXCEPT ![cmd[p].deviceId] = StateOf(Reading(p))]
       \/ "redis" \in Faults /\ UNCHANGED cache
    /\ UNCHANGED <<telemetry, published, charged, cmd, receipt, held, view>>

\* emit() hands the verdicts over without waiting for the listeners.
PublishAll(p) ==
    /\ pc[p] = "publishAll"
    /\ published' = published \cup {p}
    /\ Answer(p, 201, p, "STORED")
    /\ UNCHANGED <<telemetry, cache, charged, cmd, held, view>>

PostStep(p) ==
    \/ GetById(p) \/ Consume(p) \/ Save(p) \/ ExistingIdFor(p)
    \/ IsSupersededBy(p) \/ SaveLatest(p) \/ PublishAll(p)

------------------------------------------------------------------------------
(* GET /devices/:id/latest                                                 *)

ReceiveGet(g, q) ==
    /\ pc[g] = "idle"
    /\ Admitted
    /\ Goto(g, "findOwnedById")
    /\ cmd' = [cmd EXCEPT ![g] = q]
    /\ UNCHANGED <<telemetry, cache, published, charged, receipt, held, view>>

\* MUTANT: a warm cache answers before ownership is checked.
CacheBeforeOwnership(g) ==
    /\ pc[g] = "findOwnedById"
    /\ \/ OwnedByCaller(g) /\ Goto(g, "findLatest") /\ UNCHANGED view
       \/ /\ cache[cmd[g].deviceId] # None
          /\ Show(g, 200, cache[cmd[g].deviceId], "HIT")
    /\ UNCHANGED <<telemetry, cache, published, charged, cmd, receipt, held>>

FindOwnedById(g) ==
    /\ pc[g] = "findOwnedById"
    /\ \/ OwnedByCaller(g) /\ Goto(g, "findLatest") /\ UNCHANGED view
       \/ ~OwnedByCaller(g) /\ Show(g, 404, None, "NONE")
       \/ "database" \in Faults /\ Show(g, 500, None, "NONE")
    /\ UNCHANGED <<telemetry, cache, published, charged, cmd, receipt, held>>

\* readThroughCache: a Redis error is a miss.
FindLatest(g) ==
    /\ pc[g] = "findLatest"
    /\ LET cached == cache[cmd[g].deviceId]
       IN \/ cached # None /\ Show(g, 200, cached, "HIT")
          \/ /\ cached = None \/ "redis" \in Faults
             /\ Goto(g, "findLatestByDeviceId")
             /\ UNCHANGED view
    /\ UNCHANGED <<telemetry, cache, published, charged, cmd, receipt, held>>

\* "Never reported" is not cached.
FindLatestByDeviceId(g) ==
    /\ pc[g] = "findLatestByDeviceId"
    /\ LET latest == Latest(cmd[g].deviceId)
       IN \/ \E row \in latest : /\ held' = [held EXCEPT ![g] = StateOf(row)]
                                 /\ Goto(g, "repopulate")
                                 /\ UNCHANGED view
          \/ latest = {} /\ Show(g, 404, None, "NONE") /\ UNCHANGED held
          \/ "database" \in Faults /\ Show(g, 500, None, "NONE") /\ UNCHANGED held
    /\ UNCHANGED <<telemetry, cache, published, charged, cmd, receipt>>

\* Again a SET that looks at nothing; the answer is the state already in hand.
Repopulate(g) ==
    /\ pc[g] = "repopulate"
    /\ Show(g, 200, held[g], "MISS")
    /\ \/ cache' = [cache EXCEPT ![cmd[g].deviceId] = held[g]]
       \/ "redis" \in Faults /\ UNCHANGED cache
    /\ UNCHANGED <<telemetry, published, charged, cmd, receipt, held>>

GetStep(g) == FindOwnedById(g) \/ FindLatest(g) \/ FindLatestByDeviceId(g) \/ Repopulate(g)

------------------------------------------------------------------------------
(* The environment.                                                        *)

\* MUTANT: the state is cached without a time to live.
NeverExpires(d) == FALSE

\* The entry's time to live runs out, Redis evicts it or restarts empty.
Expire(d) ==
    /\ "expiry" \in Faults
    /\ cache[d] # None
    /\ cache' = [cache EXCEPT ![d] = None]
    /\ UNCHANGED <<telemetry, published, charged, pc, cmd, receipt, held, view>>

\* The process that serves request r dies and the client gets no answer.
Crash(r) ==
    /\ "crash" \in Faults
    /\ InFlight(r)
    /\ Goto(r, "lost")
    /\ UNCHANGED <<telemetry, cache, published, charged, cmd, receipt, held, view>>

Next ==
    \/ \E p \in Posts : PostStep(p) \/ \E c \in Commands : ReceivePost(p, c)
    \/ \E g \in Gets : GetStep(g) \/ \E q \in Queries : ReceiveGet(g, q)
    \/ \E d \in Devices : Expire(d)
    \/ \E r \in Posts \cup Gets : Crash(r)

Spec == Init /\ [][Next]_vars

\* Every call a handler awaits returns or throws, and every TTL runs out.
Fairness ==
    /\ \A p \in Posts : WF_vars(PostStep(p))
    /\ \A g \in Gets : WF_vars(GetStep(g))
    /\ \A d \in Devices : WF_vars(Expire(d))

FairSpec == Spec /\ Fairness

------------------------------------------------------------------------------
(* What the two handlers promise.                                          *)

\* However often a device re-sends a reading, and however the copies race, its
\* verdicts reach the event bus at most once: no alert is raised twice for it.
EffectsAtMostOnce ==
    \A p, q \in published : SameKey(Reading(p), Reading(q)) => p = q

Accepted(p) == receipt[p] # None /\ receipt[p].outcome \in {"STORED", "DUPLICATE"}
ToldFailure(p) == receipt[p] # None /\ receipt[p].status = 500

\* A receipt with the outcome STORED or DUPLICATE names the row that holds the
\* reading's (device, recordedAt), whether this request wrote it or found it there.
ReceiptNamesStoredRow ==
    \A p \in Posts : Accepted(p) =>
        \E row \in telemetry : row.id = receipt[p].id /\ SameKey(row, Reading(p))

\* The cache never holds, and no GET ever reports, a state that is not that of
\* a stored reading of the device; and only its owner gets a state at all.
StatesAreStoredReadings ==
    LET Stored(d, s) == \E row \in telemetry : row.deviceId = d /\ StateOf(row) = s
    IN /\ \A d \in Devices : cache[d] # None => Stored(d, cache[d])
       /\ \A g \in Gets : view[g] # None /\ view[g].status = 200 =>
            Stored(cmd[g].deviceId, view[g].state) /\ OwnedByCaller(g)

\* A caller who does not own the device neither spends its budget, nor stores a
\* reading for it, nor triggers its alerts.
StrangersLeaveNoTrace ==
    \A p \in charged \cup published \cup {row.id : row \in telemetry} : OwnedByCaller(p)

\* A stored reading has had its side effects, or will have them before its
\* request is over, unless that request died or could not learn that the insert
\* had succeeded.
EffectsMissOnlyAfterFailure ==
    \A row \in telemetry :
        row.id \in published \/ InFlight(row.id) \/ pc[row.id] = "lost" \/ ToldFailure(row.id)

\* No step rewrites or deletes a stored reading.
LogIsAppendOnly == [][telemetry \subseteq telemetry']_telemetry

\* A POST that was told by the database that its reading is stored answers 201:
\* a Redis failure never makes the device retry an accepted write.
StoredIsAcknowledged ==
    [][\A p \in Posts :
        pc[p] \in {"isSupersededBy", "saveLatest", "publishAll"} /\ pc'[p] = "answered"
            => receipt'[p].status = 201]_vars

\* Requests implement the abstract log: the table is the log, and what has been
\* published or has a receipt are the effects run and the rows acknowledged.
Acknowledged == {row \in telemetry : \E p \in Posts : Accepted(p) /\ receipt[p].id = row.id}

Log == INSTANCE ReadingLog WITH
           log <- telemetry,
           effects <- {Reading(p) : p \in published},
           acknowledged <- Acknowledged

\* Every step of the two handlers, with all their races and failures, is a step
\* of the reading log or leaves it alone.
ImplementsReadingLog == Log!LogSpec

Settled(d) == \A r \in Posts \cup Gets : InFlight(r) => cmd[r].deviceId # d

\* When no request for a device is in flight, a HIT would give the answer that
\* a MISS would.
HitMatchesMiss ==
    \A d \in Devices : Settled(d) /\ cache[d] # None =>
        \E row \in Latest(d) : cache[d] = StateOf(row)

\* Every reading acknowledged with a receipt had its side effects, or has a request
\* in flight that will still cause them.
AcknowledgedRanEffects ==
    \A p \in Posts : Accepted(p) =>
        receipt[p].id \in published \/ InFlight(receipt[p].id)

\* Every request that arrives is answered, unless its process dies.
EveryRequestAnswered ==
    \A r \in Posts \cup Gets : InFlight(r) ~> pc[r] \in {"answered", "lost"}

Stale(d) == cache[d] # None /\ \A row \in Latest(d) : cache[d] # StateOf(row)

\* A stale latest state does not stay for ever, even if the device falls silent.
StaleStateIsTemporary == \A d \in Devices : Stale(d) ~> ~Stale(d)

==============================================================================
