------------------------------- MODULE Service -------------------------------
(***************************************************************************)
(* What the users of the service see while it works: registrations of      *)
(* devices, POSTs of readings and the alerts they lead to, beside the GETs *)
(* that list devices, list open alerts and page through the history of a   *)
(* device.  A GET is a chain of queries, each of which sees the tables as  *)
(* they are when it runs.                                                  *)
(*                                                                         *)
(* Ingestion has every step of a POST; here a POST is the three that other *)
(* requests meet: the check of the owner, the insert and, an await later,  *)
(* the verdicts handed to the event bus.  The only thing that keeps two    *)
(* POSTs of one reading from both publishing it is the unique index.       *)
(***************************************************************************)
EXTENDS DeviceRegistry, Naturals, FiniteSets

CONSTANTS
    Posts,     \* POSTs of readings
    Gets,      \* GETs, and clients that page through a history
    Types,     \* alert types
    Times,     \* recordedAt timestamps
    Ranges,    \* the ranges that history queries ask for: from and to, None when left out
    Limits,    \* page sizes
    None,      \* null
    MaxBusy    \* bound of Alerts

ASSUME LimitsAssumption == Limits \subseteq Nat \ {0}
ASSUME RangesAssumption == Ranges \subseteq [from : Times \cup {None}, to : Times \cup {None}]
ASSUME ServiceTimesAssumption == Times \subseteq Nat /\ None \notin Times

VARIABLES
    readings, raising, clearing, resolving, failed, alerts, orderly,  \* the variables of Alerts
    events,     \* the TelemetryEvent table; postedBy, the user whose POST it was, is history
    postPc,     \* what each POST waits for
    post,       \* the reading and the caller of each POST under way
    getPc,      \* what each GET waits for, or its outcome
    query,      \* the query of each GET
    offset,     \* the offset of the page that a history GET asks for
    page,       \* the rows of that page
    total,      \* the count that comes with it
    shown,      \* the devices, alerts or readings that the client has been shown
    begun,      \* history: what there was to show when the client began
    owned,      \* history: the devices the caller has owned at some time since it began
    owners      \* history: the users who have owned each device at some time

A == INSTANCE Alerts

handlerVars == <<readings, raising, clearing, resolving, failed, alerts, orderly>>
tableVars == <<registryVars, handlerVars, events, owners>>
postVars == <<postPc, post>>
getVars == <<getPc, query, offset, page, total, shown, begun, owned>>
vars == <<tableVars, postVars, getVars>>

Events == [deviceId : Devices, recordedAt : Times, postedBy : Owners]
PostCommands == [deviceId : Devices, ownerId : Owners, recordedAt : Times, breached : SUBSET Types]
HistoryQueries ==
    {[kind |-> "history", ownerId |-> owner, deviceId |-> d, from |-> range.from, to |-> range.to, limit |-> n] :
        owner \in Owners, d \in Devices, range \in Ranges, n \in Limits}
ListQueries == [kind : {"devices", "alerts"}, ownerId : Owners]

\* The awaits of the handlers, and the outcomes.
GetSteps == {"findOwnedById", "findMany", "count", "findByOwnerId", "findActive"}
Outcomes == {"ok", "badRange", "notFound", "failed"}

TypeOK ==
    /\ RegistryTypeOK
    /\ A!AlertsTypeOK
    /\ events \subseteq Events
    /\ IsFiniteSet(events)
    /\ postPc \in [Posts -> {"idle", "save", "publish", "over"}]
    /\ post \in [Posts -> PostCommands \cup {None}]
    /\ getPc \in [Gets -> {"idle"} \cup GetSteps \cup Outcomes]
    /\ query \in [Gets -> HistoryQueries \cup ListQueries \cup {None}]
    /\ offset \in [Gets -> Nat]
    /\ page \in [Gets -> SUBSET Events]
    /\ total \in [Gets -> Nat]
    /\ shown \in [Gets -> SUBSET (Devices \cup A!Verdicts \cup Events)]
    /\ begun \in [Gets -> SUBSET (Devices \cup A!Verdicts \cup Events)]
    /\ owned \in [Gets -> SUBSET Devices]
    /\ owners \in [Devices -> SUBSET Owners]

Init ==
    /\ RegistryInit
    /\ A!AlertsInit
    /\ events = {}
    /\ postPc = [p \in Posts |-> "idle"]
    /\ post = [p \in Posts |-> None]
    /\ getPc = [g \in Gets |-> "idle"]
    /\ query = [g \in Gets |-> None]
    /\ offset = [g \in Gets |-> 0]
    /\ page = [g \in Gets |-> {}]
    /\ total = [g \in Gets |-> 0]
    /\ shown = [g \in Gets |-> {}]
    /\ begun = [g \in Gets |-> {}]
    /\ owned = [g \in Gets |-> {}]
    /\ owners = [d \in Devices |-> {}]

------------------------------------------------------------------------------
(* Queries on the tables.                                                  *)

\* MUTANT: the device is looked up by its id only.
AnyById(d, owner) == IsRegistered(d)

FindOwnedById(d, owner) == ownerId[d] = owner

FindByOwnerId(owner) == {d \in Devices : ownerId[d] = owner}

\* MUTANT: one alert for each device and rule is listed, as if there were no more.
NewestActive(devices) ==
    {alert.raisedBy : alert \in {a \in A!ListActiveAlerts(devices) :
        \A b \in A!ListActiveAlerts(devices) :
            A!SameRule(a.raisedBy, b.raisedBy) => b.raisedBy.recordedAt <= a.raisedBy.recordedAt}}

FindActiveByDeviceIds(devices) == {alert.raisedBy : alert \in A!ListActiveAlerts(devices)}

\* The rows of the asked device, within the bounds that were supplied.
BuildWhere(q) ==
    {row \in events : /\ row.deviceId = q.deviceId
                      /\ q.from = None \/ row.recordedAt >= q.from
                      /\ q.to = None \/ row.recordedAt <= q.to}

\* The place of a row in the order of the pages, newest first: a device has no
\* two rows of the same time.
Rank(row, q) == Cardinality({other \in BuildWhere(q) : other.recordedAt > row.recordedAt})

\* MUTANT: the first row is number one.
PageFromOne(q, skip) == {row \in BuildWhere(q) : Rank(row, q) \in (skip + 1)..(skip + q.limit)}

FindMany(q, skip) == {row \in BuildWhere(q) : Rank(row, q) \in skip..(skip + q.limit - 1)}

\* MUTANT: the count has a where of its own, and its end is exclusive.
CountExclusive(q) == Cardinality({row \in BuildWhere(q) : q.to = None \/ row.recordedAt < q.to})

Count(q) == Cardinality(BuildWhere(q))

\* What there is to show to the caller of a query.
Answer(q) ==
    CASE q.kind = "devices" -> FindByOwnerId(q.ownerId)
      [] q.kind = "alerts" -> FindActiveByDeviceIds(FindByOwnerId(q.ownerId))
      [] q.kind = "history" -> BuildWhere(q)

------------------------------------------------------------------------------
(* Registrations, POSTs and alert handlers.                                *)

Registration(r) ==
    /\ RegistryStep(r) \/ \E c \in [deviceId : Devices, ownerId : Owners] : Register(r, c)
    /\ owners' = [d \in Devices |-> owners[d] \cup ({ownerId'[d]} \cap Owners)]
    /\ owned' = [g \in Gets |-> IF getPc[g] = "idle" THEN owned[g]
                                ELSE owned[g] \cup {d \in Devices : ownerId'[d] = query[g].ownerId}]
    /\ UNCHANGED <<handlerVars, events, postVars, getPc, query, offset, page, total, shown, begun>>

PostGoto(p, step) == postPc' = [postPc EXCEPT ![p] = step]

\* A POST is answered, or its process dies.
PostOver(p) == PostGoto(p, "over") /\ post' = [post EXCEPT ![p] = None]

\* MUTANT: whoever knows the id of a registered device may post for it.
AcceptAnyone(p, c) ==
    /\ postPc[p] = "idle"
    /\ IF IsRegistered(c.deviceId) THEN post' = [post EXCEPT ![p] = c] /\ PostGoto(p, "save") ELSE PostOver(p)
    /\ UNCHANGED <<tableVars, getVars>>

\* The lookup of the device: a caller who does not own it is told 404.
Accept(p, c) ==
    /\ postPc[p] = "idle"
    /\ IF ownerId[c.deviceId] = c.ownerId THEN post' = [post EXCEPT ![p] = c] /\ PostGoto(p, "save") ELSE PostOver(p)
    /\ UNCHANGED <<tableVars, getVars>>

IsStored(c) == \E row \in events : row.deviceId = c.deviceId /\ row.recordedAt = c.recordedAt

\* MUTANT: a duplicate goes on as if it had been stored.
StoreDuplicateGoesOn(p) ==
    /\ postPc[p] = "save"
    /\ events' = IF IsStored(post[p]) THEN events
                 ELSE events \cup {[deviceId |-> post[p].deviceId, recordedAt |-> post[p].recordedAt,
                                    postedBy |-> post[p].ownerId]}
    /\ PostGoto(p, "publish") /\ UNCHANGED post
    /\ UNCHANGED <<registryVars, handlerVars, owners, getVars>>

\* The insert.  A duplicate, which the unique index refuses, is answered; so is an
\* insert that fails, or whose outcome is lost after the row was written.
Store(p) ==
    /\ postPc[p] = "save"
    /\ \/ /\ ~IsStored(post[p])
          /\ events' = events \cup {[deviceId |-> post[p].deviceId, recordedAt |-> post[p].recordedAt,
                                     postedBy |-> post[p].ownerId]}
          /\ PostOver(p) \/ (PostGoto(p, "publish") /\ UNCHANGED post)
       \/ PostOver(p) /\ UNCHANGED events
    /\ UNCHANGED <<registryVars, handlerVars, owners, getVars>>

\* The verdicts of a stored reading go to the event bus.  Nothing is looked up: a
\* POST publishes because its own insert wrote the row.
PublishVerdicts(p) ==
    /\ postPc[p] = "publish"
    /\ A!Emit([deviceId |-> post[p].deviceId, recordedAt |-> post[p].recordedAt, breached |-> post[p].breached])
    /\ PostOver(p)
    /\ UNCHANGED <<registryVars, events, owners, getVars>>

\* The process dies between two awaits of a POST.
PostCrash(p) ==
    /\ postPc[p] \in {"save", "publish"}
    /\ PostOver(p)
    /\ UNCHANGED <<tableVars, getVars>>

PostStep(p) ==
    \/ \E c \in PostCommands : Accept(p, c)
    \/ Store(p) \/ PublishVerdicts(p) \/ PostCrash(p)

\* The handlers of Alerts.
HandleVerdict ==
    /\ \E v \in A!Verdicts : A!Raise(v) \/ A!FindActive(v) \/ A!Abandon(v) \/ \E a \in A!Verdicts : A!Resolve(v, a)
    /\ UNCHANGED <<registryVars, owners, events, postVars, getVars>>

------------------------------------------------------------------------------
(* GETs.                                                                   *)

GetGoto(g, step) == getPc' = [getPc EXCEPT ![g] = step]

BadRange(q) == q.from # None /\ q.to # None /\ q.from > q.to

\* The range of a history is checked before anything is looked up.
Ask(g, q) ==
    /\ getPc[g] = "idle"
    /\ query' = [query EXCEPT ![g] = q]
    /\ begun' = [begun EXCEPT ![g] = Answer(q)]
    /\ owned' = [owned EXCEPT ![g] = FindByOwnerId(q.ownerId)]
    /\ GetGoto(g, CASE q.kind # "history" -> "findByOwnerId"
                    [] q.kind = "history" /\ BadRange(q) -> "badRange"
                    [] q.kind = "history" /\ ~BadRange(q) -> "findOwnedById")
    /\ UNCHANGED <<tableVars, postVars, offset, page, total, shown>>

\* MUTANT: a device of somebody else is forbidden rather than not found.
CheckOwnerForbids(g) ==
    /\ getPc[g] = "findOwnedById"
    /\ GetGoto(g, CASE FindOwnedById(query[g].deviceId, query[g].ownerId) -> "findMany"
                    [] ~IsRegistered(query[g].deviceId) -> "notFound"
                    [] OTHER -> "forbidden")
    /\ UNCHANGED <<tableVars, postVars, query, offset, page, total, shown, begun, owned>>

\* One answer for a device that is not there and one that is not the caller's.
CheckOwner(g) ==
    /\ getPc[g] = "findOwnedById"
    /\ GetGoto(g, IF FindOwnedById(query[g].deviceId, query[g].ownerId) THEN "findMany" ELSE "notFound")
    /\ UNCHANGED <<tableVars, postVars, query, offset, page, total, shown, begun, owned>>

\* The first statement of the transaction.  At the default isolation level each
\* statement has a snapshot of its own.
ReadPage(g) ==
    /\ getPc[g] = "findMany"
    /\ page' = [page EXCEPT ![g] = FindMany(query[g], offset[g])]
    /\ GetGoto(g, "count")
    /\ UNCHANGED <<tableVars, postVars, query, offset, total, shown, begun, owned>>

\* The second statement, and the answer.
CountRows(g) ==
    /\ getPc[g] = "count"
    /\ total' = [total EXCEPT ![g] = Count(query[g])]
    /\ shown' = [shown EXCEPT ![g] = @ \cup page[g]]
    /\ GetGoto(g, "ok")
    /\ UNCHANGED <<tableVars, postVars, query, offset, page, begun, owned>>

MorePages(g) == offset[g] + query[g].limit < total[g]

\* A client asks for the next page as long as the total says that there is one.
NextPage(g) ==
    /\ getPc[g] = "ok"
    /\ query[g].kind = "history"
    /\ MorePages(g)
    /\ offset' = [offset EXCEPT ![g] = @ + query[g].limit]
    /\ GetGoto(g, "findOwnedById")
    /\ UNCHANGED <<tableVars, postVars, query, page, total, shown, begun, owned>>

\* GET /devices has its answer; GET /alerts goes on when there are devices.
ReadDevices(g) ==
    /\ getPc[g] = "findByOwnerId"
    /\ LET devices == FindByOwnerId(query[g].ownerId)
       IN /\ shown' = [shown EXCEPT ![g] = devices]
          /\ GetGoto(g, IF query[g].kind = "devices" \/ devices = {} THEN "ok" ELSE "findActive")
    /\ UNCHANGED <<tableVars, postVars, query, offset, page, total, begun, owned>>

\* The open alerts of the devices that the first query returned.
ReadAlerts(g) ==
    /\ getPc[g] = "findActive"
    /\ shown' = [shown EXCEPT ![g] = FindActiveByDeviceIds(@)]
    /\ GetGoto(g, "ok")
    /\ UNCHANGED <<tableVars, postVars, query, offset, page, total, begun, owned>>

\* A query fails, and the client is told 500.
GetFails(g) ==
    /\ getPc[g] \in GetSteps
    /\ GetGoto(g, "failed")
    /\ shown' = [shown EXCEPT ![g] = IF query[g].kind = "history" THEN @ ELSE {}]
    /\ UNCHANGED <<tableVars, postVars, query, offset, page, total, begun, owned>>

GetStep(g) ==
    \/ \E q \in HistoryQueries \cup ListQueries : Ask(g, q)
    \/ CheckOwner(g) \/ ReadPage(g) \/ CountRows(g) \/ NextPage(g)
    \/ ReadDevices(g) \/ ReadAlerts(g)
    \/ GetFails(g)

Next ==
    \/ \E r \in Registrations : Registration(r)
    \/ \E p \in Posts : PostStep(p)
    \/ HandleVerdict
    \/ \E g \in Gets : GetStep(g)

Spec == Init /\ [][Next]_vars

------------------------------------------------------------------------------
(* What the service promises to its users.                                 *)

\* Whatever a caller is shown is of a device that it owned at some time between
\* its request and the answer, also when the device changes hands meanwhile.
OnlyOwnersAreShown ==
    \A g \in Gets : getPc[g] = "ok" =>
        \A item \in shown[g] : (IF query[g].kind = "devices" THEN item ELSE item.deviceId) \in owned[g]

\* A reading in a history was posted by a user who has owned the device, as has
\* the user who reads it, although the owner is checked long before a reading is
\* stored.  Of a device that never changed hands, everybody reads but their own.
OwnReadingsOnly ==
    \A g \in Gets : (getPc[g] = "ok" /\ query[g].kind = "history") =>
        \A row \in shown[g] : {row.postedBy, query[g].ownerId} \subseteq owners[row.deviceId]

\* A client that pages through a history until the total says that it is done has
\* been shown every reading that was stored when it began, although readings of
\* any time are inserted between its pages and move the others along.
NothingSkipped ==
    \A g \in Gets : (getPc[g] = "ok" /\ query[g].kind = "history" /\ ~MorePages(g)) => begun[g] \subseteq shown[g]

\* The total is not less than the rows up to the end of the page it comes with.
TotalCoversPage ==
    \A g \in Gets : (getPc[g] = "ok" /\ page[g] # {}) => total[g] >= offset[g] + Cardinality(page[g])

\* The devices that changed hands.
contested == {d \in Devices : \E a, b \in owners[d] : a # b}

\* An alert that was open when its owner asked is listed, or resolved by now; the
\* device may have changed hands.
NoOpenAlertHidden ==
    \A g \in Gets : (getPc[g] = "ok" /\ query[g].kind = "alerts") =>
        \A v \in begun[g] : \/ v \in shown[g]
                            \/ \E alert \in alerts : alert.raisedBy = v /\ ~A!Open(alert)
                            \/ v.deviceId \in contested

\* No reading is published twice, although a POST publishes an await after its
\* insert and looks nothing up: of all the POSTs of a reading, those that race and
\* those that come again after a crash or a lost outcome included, only one was
\* told that its insert wrote the row.  So Alerts gets the readings it assumes.
ImplementsAlerts == A!AlertsSpec
==============================================================================
