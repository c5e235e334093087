---------------------------- MODULE ServiceProofs ----------------------------
(***************************************************************************)
(* Proofs about Service for any number of devices, users, registrations,   *)
(* POSTs and GETs, for any page sizes and ranges, and for failures         *)
(* anywhere.                                                               *)
(***************************************************************************)
EXTENDS Service, FiniteSetTheorems, TLAPS

Queries == HistoryQueries \cup ListQueries

RegistrationsAreKnown ==
    \A r \in Registrations :
        registryPc[r] # "idle" => registration[r] \in [deviceId : Devices, ownerId : Owners]

OwnersAreRecorded == \A d \in Devices : ownerId[d] = Unregistered \/ ownerId[d] \in owners[d]

\* A POST that waits for its insert, or for its publication, has passed the check
\* of the owner.
PostsAreOwned ==
    \A p \in Posts : postPc[p] \in {"save", "publish"} =>
        /\ post[p] \in PostCommands
        /\ post[p].ownerId \in owners[post[p].deviceId]

RowsAreOwned == \A row \in events : row.postedBy \in owners[row.deviceId]

SameKey(a, b) == a.deviceId = b.deviceId /\ a.recordedAt = b.recordedAt

\* Whatever is published, or about to be, has its row in the table; and a POST
\* about to publish is the only one for its key, now and before.
PublishedOnce ==
    /\ \A reading \in readings : IsStored(reading)
    /\ \A p \in Posts : postPc[p] = "publish" =>
          /\ IsStored(post[p])
          /\ \A reading \in readings : ~SameKey(reading, post[p])
          /\ \A other \in Posts : postPc[other] = "publish" /\ SameKey(post[other], post[p]) => other = p

TablesInv ==
    TypeOK /\ RegistrationsAreKnown /\ OwnersAreRecorded /\ PostsAreOwned /\ RowsAreOwned /\ PublishedOnce

\* Each step of a GET is a step of a query of its kind.
GetKind(g) ==
    /\ getPc[g] = "idle" => offset[g] = 0 /\ page[g] = {} /\ shown[g] = {}
    /\ getPc[g] # "idle" => query[g] \in Queries
    /\ getPc[g] \in {"findOwnedById", "findMany", "count"} => query[g] \in HistoryQueries
    /\ getPc[g] \in {"findByOwnerId", "findActive"} => query[g] \in ListQueries
    /\ getPc[g] = "findActive" => query[g].kind = "alerts"

\* owned has what the caller owns now, and nothing that it never owned, or no
\* longer owns, but what changed hands.
GetOwned(g) ==
    getPc[g] # "idle" => \A d \in Devices :
        /\ ownerId[d] = query[g].ownerId => d \in owned[g]
        /\ d \in owned[g] => query[g].ownerId \in owners[d]
        /\ d \in owned[g] => d \in contested \/ ownerId[d] = query[g].ownerId

\* The check of the owner covers what the later queries return.
GetShown(g) ==
    getPc[g] # "idle" =>
        /\ getPc[g] \in {"findMany", "count"} => query[g].deviceId \in owned[g]
        /\ query[g] \in HistoryQueries => /\ page[g] \subseteq BuildWhere(query[g])
                                          /\ \A row \in shown[g] : row \in events /\ row.deviceId \in owned[g]
        /\ getPc[g] = "findActive" => shown[g] \subseteq owned[g]
        /\ getPc[g] = "ok" /\ query[g].kind = "devices" => shown[g] \subseteq owned[g]
        /\ getPc[g] = "ok" /\ query[g].kind = "alerts" => \A v \in shown[g] : v.deviceId \in owned[g]

\* A reading that was there in the beginning and has not been shown lies behind
\* the pages that have been read.
GetWalk(g) ==
    (getPc[g] # "idle" /\ query[g] \in HistoryQueries) => \A row \in begun[g] : row \notin shown[g] =>
        /\ row \in BuildWhere(query[g])
        /\ Rank(row, query[g]) >= offset[g]
        /\ getPc[g] = "count" => row \in page[g] \/ Rank(row, query[g]) >= offset[g] + query[g].limit
        /\ getPc[g] = "ok" => /\ Rank(row, query[g]) >= offset[g] + query[g].limit
                              /\ total[g] > offset[g] + query[g].limit

HasRow(v) == \E alert \in alerts : alert.raisedBy = v
HasResolved(v) == \E alert \in alerts : alert.raisedBy = v /\ ~A!Open(alert)

\* An alert that was open in the beginning is still in the table, and its device
\* still the caller's unless it changed hands.
GetAlerts(g) ==
    (getPc[g] # "idle" /\ query[g].kind = "alerts") => \A v \in begun[g] :
        /\ v.deviceId \in Devices
        /\ HasRow(v)
        /\ v.deviceId \in contested \/ ownerId[v.deviceId] = query[g].ownerId
        /\ getPc[g] = "findActive" => v.deviceId \in shown[g] \/ v.deviceId \in contested
        /\ getPc[g] = "ok" => v \in shown[g] \/ HasResolved(v) \/ v.deviceId \in contested

GetInv(g) == GetKind(g) /\ GetOwned(g) /\ GetShown(g) /\ GetWalk(g) /\ GetAlerts(g)

Inv == TablesInv /\ \A g \in Gets : GetInv(g)

------------------------------------------------------------------------------
(* Pages.                                                                  *)

LEMMA QueriesAreTyped ==
    /\ \A q \in HistoryQueries : /\ q.kind = "history" /\ q.ownerId \in Owners /\ q.deviceId \in Devices
                                 /\ q.limit \in Nat /\ q.limit > 0
    /\ \A q \in ListQueries : q.kind \in {"devices", "alerts"} /\ q.ownerId \in Owners
<1>1. ASSUME NEW q \in HistoryQueries
      PROVE  q.kind = "history" /\ q.ownerId \in Owners /\ q.deviceId \in Devices /\ q.limit \in Limits
  BY DEF HistoryQueries
<1>2. ASSUME NEW q \in ListQueries
      PROVE  q.kind \in {"devices", "alerts"} /\ q.ownerId \in Owners
  BY DEF ListQueries
<1>3. \A n \in Limits : n \in Nat /\ n > 0
  BY LimitsAssumption
<1> QED BY <1>1, <1>2, <1>3

LEMMA RanksAreFinite ==
    ASSUME IsFiniteSet(events), NEW q, NEW row
    PROVE  /\ Rank(row, q) \in Nat
           /\ Count(q) \in Nat
           /\ IsFiniteSet(BuildWhere(q))
           /\ row \in BuildWhere(q) /\ events \subseteq Events => Rank(row, q) < Count(q)
<1> DEFINE newer == {other \in BuildWhere(q) : other.recordedAt > row.recordedAt}
<1>1. IsFiniteSet(BuildWhere(q))
  <2>1. BuildWhere(q) \in SUBSET events
    BY DEF BuildWhere
  <2> QED BY <2>1, FS_Subset
<1>2. newer \in SUBSET BuildWhere(q)
  OBVIOUS
<1>3. IsFiniteSet(newer) /\ Cardinality(newer) <= Cardinality(BuildWhere(q))
      /\ (Cardinality(BuildWhere(q)) = Cardinality(newer) => BuildWhere(q) = newer)
  BY <1>1, <1>2, FS_Subset
<1>4. Cardinality(newer) \in Nat /\ Cardinality(BuildWhere(q)) \in Nat
  BY <1>1, <1>3, FS_CardinalityType
<1>5. ASSUME row \in BuildWhere(q), events \subseteq Events
      PROVE  row \notin newer
  <2>1. row.recordedAt \in Nat
    BY <1>5, ServiceTimesAssumption DEF BuildWhere, Events
  <2> QED BY <2>1
<1> QED BY <1>1, <1>3, <1>4, <1>5 DEF Rank, Count

\* An insert moves a row only away from the first page.
LEMMA RanksGrow ==
    ASSUME events \subseteq events', IsFiniteSet(events'), NEW q, NEW row
    PROVE  BuildWhere(q) \subseteq BuildWhere(q)' /\ Rank(row, q) <= Rank(row, q)'
<1> DEFINE newer == {other \in BuildWhere(q) : other.recordedAt > row.recordedAt}
           newerThen == {other \in BuildWhere(q)' : other.recordedAt > row.recordedAt}
<1>1. BuildWhere(q) \subseteq BuildWhere(q)'
  BY DEF BuildWhere
<1>2. newer \in SUBSET newerThen
  BY <1>1
<1>3. newerThen \in SUBSET events'
  BY DEF BuildWhere
<1>4. IsFiniteSet(newerThen)
  BY <1>3, FS_Subset
<1>5. Cardinality(newer) <= Cardinality(newerThen)
  BY <1>2, <1>4, FS_Subset
<1> QED BY <1>1, <1>5 DEF Rank

------------------------------------------------------------------------------
(* The rest of the service moves on.                                       *)

\* What the tables may do while a GET waits.
TablesMove ==
    /\ events \subseteq events' /\ events' \subseteq Events /\ IsFiniteSet(events) /\ IsFiniteSet(events')
    /\ contested \subseteq contested'
    /\ \A d \in Devices : owners[d] \subseteq owners'[d] /\ (ownerId'[d] = Unregistered \/ ownerId'[d] \in owners'[d])
    /\ \A d \in Devices : \/ ownerId'[d] = ownerId[d]
                          \/ d \in contested'
                          \/ ownerId[d] = Unregistered
    /\ \A v : HasRow(v) => HasRow(v)'
    /\ \A v : HasResolved(v) => HasResolved(v)'

LEMMA ContestedStays ==
    ASSUME UNCHANGED owners
    PROVE  contested' = contested
BY DEF contested

LEMMA GetWaits ==
    ASSUME TablesMove, NEW g \in Gets, GetInv(g),
           UNCHANGED <<getPc[g], query[g], offset[g], page[g], total[g], shown[g], begun[g]>>,
           getPc[g] # "idle" => owned'[g] = owned[g] \cup {d \in Devices : ownerId'[d] = query[g].ownerId},
           offset[g] \in Nat, begun[g] \subseteq Devices \cup A!Verdicts \cup Events
    PROVE  GetInv(g)'
<1> USE DEF GetInv, TablesMove
<1>0. getPc[g] # "idle" => query[g].ownerId \in Owners /\ query[g].ownerId # Unregistered
  BY QueriesAreTyped, UnregisteredAssumption DEF GetKind, Queries
<1>1. GetKind(g)'
  BY DEF GetKind
<1>2. GetOwned(g)'
  BY <1>0 DEF GetOwned
<1> PICK q : q = query[g]
  OBVIOUS
<1>3. BuildWhere(query[g])' = BuildWhere(q)' /\ BuildWhere(q) \subseteq BuildWhere(q)'
  <2>1. BuildWhere(query[g])' = BuildWhere(q)'
    BY Zenon DEF BuildWhere
  <2> QED BY <2>1, RanksGrow
<1>4. \A row : /\ Rank(row, query[g])' = Rank(row, q)'
               /\ Rank(row, q) \in Nat /\ Rank(row, q)' \in Nat /\ Rank(row, q) <= Rank(row, q)'
  <2> TAKE row
  <2>1. Rank(row, query[g])' = Rank(row, q)'
    BY <1>3, Zenon DEF Rank
  <2>2. Rank(row, q) \in Nat
    BY RanksAreFinite
  <2>3. Rank(row, q) <= Rank(row, q)'
    BY RanksGrow
  <2>4. Rank(row, q)' \in Nat
    <3>1. {other \in BuildWhere(q)' : other.recordedAt > row.recordedAt} \in SUBSET events'
      BY DEF BuildWhere
    <3> QED BY <3>1, FS_Subset, FS_CardinalityType DEF Rank
  <2> QED BY <2>1, <2>2, <2>3, <2>4
<1>5. GetShown(g)'
  BY <1>3 DEF GetShown
<1>6. GetWalk(g)'
  <2> SUFFICES ASSUME getPc[g] # "idle", q \in HistoryQueries, NEW row \in begun[g], row \notin shown[g]
               PROVE  /\ row \in BuildWhere(q)'
                      /\ Rank(row, q)' >= offset[g]
                      /\ getPc[g] = "count" => row \in page[g] \/ Rank(row, q)' >= offset[g] + q.limit
                      /\ getPc[g] = "ok" => /\ Rank(row, q)' >= offset[g] + q.limit
                                            /\ total[g] > offset[g] + q.limit
    BY <1>3, <1>4, Zenon DEF GetWalk
  <2>1. q.limit \in Nat /\ offset[g] \in Nat
    BY QueriesAreTyped
  <2> QED BY <1>3, <1>4, <2>1 DEF GetWalk
<1>7. GetAlerts(g)'
  BY <1>0 DEF GetAlerts
<1> QED BY <1>1, <1>2, <1>5, <1>6, <1>7

\* A step of the tables and the POSTs that leaves the GETs alone keeps what is
\* known of them.
LEMMA GetsWait ==
    ASSUME Inv, TablesMove, UNCHANGED <<getPc, query, offset, page, total, shown, begun>>,
           \A g \in Gets : getPc[g] # "idle" =>
                owned'[g] = owned[g] \cup {d \in Devices : ownerId'[d] = query[g].ownerId}
    PROVE  \A g \in Gets : GetInv(g)'
<1> SUFFICES ASSUME NEW g \in Gets PROVE GetInv(g)'
  OBVIOUS
<1>1. offset[g] \in Nat /\ begun[g] \subseteq Devices \cup A!Verdicts \cup Events
  BY DEF Inv, TablesInv, TypeOK
<1> QED BY <1>1, GetWaits DEF Inv

\* Nobody but a registration changes an owner.
LEMMA OwnersStay ==
    ASSUME Inv, UNCHANGED <<ownerId, owned, getPc, query>>, NEW g \in Gets, getPc[g] # "idle"
    PROVE  owned'[g] = owned[g] \cup {d \in Devices : ownerId'[d] = query[g].ownerId}
BY DEF Inv, GetInv, GetOwned

LEMMA RegistrationKeepsTypes ==
    ASSUME RegistryTypeOK, RegistrationsAreKnown, NEW r \in Registrations,
           RegistryStep(r) \/ \E c \in [deviceId : Devices, ownerId : Owners] : Register(r, c)
    PROVE  /\ RegistryTypeOK' /\ RegistrationsAreKnown'
           /\ \A d \in Devices : ownerId'[d] # ownerId[d] => ownerId'[d] \in Owners
<1> USE DEF RegistryTypeOK, RegistrationsAreKnown, RegistryGoto
<1>1. ASSUME NEW c \in [deviceId : Devices, ownerId : Owners], Register(r, c)
      PROVE  RegistryTypeOK' /\ RegistrationsAreKnown' /\ ownerId' = ownerId
  BY <1>1 DEF Register
<1>2. CASE Lookup(r)
  <2>1. /\ UNCHANGED <<ownerId, registration>>
        /\ registryPc[r] # "idle"
        /\ \/ \E status \in {400, 409, 500} : RegistryAnswer(r, status)
           \/ RegistryGoto(r, "save") /\ UNCHANGED registryReply
    BY <1>2 DEF Lookup
  <2> QED BY <2>1 DEF RegistryAnswer
<1>3. CASE SaveDevice(r)
  BY <1>3 DEF SaveDevice, RegistryAnswer
<1>4. CASE RegistryCrash(r)
  BY <1>4 DEF RegistryCrash
<1> QED BY <1>1, <1>2, <1>3, <1>4 DEF RegistryStep

------------------------------------------------------------------------------
(* Registrations, POSTs and alert handlers.                                *)

LEMMA RegistrationPreserves ==
    ASSUME Inv, NEW r \in Registrations, Registration(r)
    PROVE  Inv'
<1> USE DEF Registration, postVars, handlerVars
<1>1. /\ RegistryTypeOK' /\ RegistrationsAreKnown'
      /\ \A d \in Devices : ownerId'[d] # ownerId[d] => ownerId'[d] \in Owners
  BY RegistrationKeepsTypes DEF Inv, TablesInv, TypeOK
<1>2. /\ owners' \in [Devices -> SUBSET Owners]
      /\ \A d \in Devices : /\ owners[d] \subseteq owners'[d]
                            /\ ownerId'[d] = Unregistered \/ ownerId'[d] \in owners'[d]
                            /\ ownerId[d] = Unregistered \/ ownerId[d] \in owners[d]
  BY <1>1 DEF Inv, TablesInv, TypeOK, RegistryTypeOK, OwnersAreRecorded
<1>9. /\ \A d \in Devices : ownerId[d] = Unregistered \/ ownerId'[d] = ownerId[d] \/ d \in contested'
      /\ contested \subseteq contested'
  <2>1. ASSUME NEW d \in Devices
        PROVE  ownerId[d] = Unregistered \/ ownerId'[d] = ownerId[d] \/ d \in contested'
    <3>1. ownerId[d] \in owners'[d] \/ ownerId[d] = Unregistered
      BY <1>2
    <3>2. ownerId'[d] \in owners'[d] \/ ownerId'[d] = ownerId[d]
      BY <1>1, <1>2, UnregisteredAssumption
    <3> QED BY <3>1, <3>2 DEF contested
  <2>2. contested \subseteq contested'
    BY <1>2 DEF contested
  <2> QED BY <2>1, <2>2
<1>3. owned' \in [Gets -> SUBSET Devices]
  BY DEF Inv, TablesInv, TypeOK
<1>4. TypeOK'
  BY <1>1, <1>2, <1>3 DEF Inv, TablesInv, TypeOK, A!AlertsTypeOK
<1>5. PostsAreOwned' /\ OwnersAreRecorded'
  <2>1. \A c \in PostCommands : c.deviceId \in Devices
    BY DEF PostCommands
  <2> QED BY <1>2, <2>1 DEF PostsAreOwned, OwnersAreRecorded, Inv, TablesInv
<1>6. RowsAreOwned' /\ PublishedOnce'
  <2>1. \A row \in events : row.deviceId \in Devices
    BY DEF Inv, TablesInv, TypeOK, Events
  <2>2. PublishedOnce'
    BY DEF Inv, TablesInv, PublishedOnce, IsStored
  <2> QED BY <1>2, <2>1, <2>2 DEF RowsAreOwned, Inv, TablesInv
<1>7. TablesMove
  BY <1>2, <1>9 DEF TablesMove, HasRow, HasResolved, A!Open, Inv, TablesInv, TypeOK
<1>8. \A g \in Gets : GetInv(g)'
  BY <1>7, GetsWait
<1> QED BY <1>1, <1>4, <1>5, <1>6, <1>8 DEF Inv, TablesInv

LEMMA AcceptPreserves ==
    ASSUME Inv, NEW p \in Posts, NEW c \in PostCommands, Accept(p, c)
    PROVE  Inv'
<1> USE DEF Accept, PostOver, PostGoto, tableVars, registryVars, handlerVars, getVars
<1>1. TypeOK'
  BY DEF Inv, TablesInv, TypeOK, RegistryTypeOK, A!AlertsTypeOK
<1>2. RegistrationsAreKnown' /\ OwnersAreRecorded' /\ RowsAreOwned'
  BY DEF Inv, TablesInv, RegistrationsAreKnown, OwnersAreRecorded, RowsAreOwned
<1>3. PostsAreOwned'
  <2>1. ownerId[c.deviceId] = c.ownerId => c.ownerId \in owners[c.deviceId]
    BY UnregisteredAssumption DEF PostCommands, Inv, TablesInv, OwnersAreRecorded
  <2> QED BY <2>1 DEF Inv, TablesInv, TypeOK, PostsAreOwned
<1>6. PublishedOnce'
  BY DEF Inv, TablesInv, TypeOK, PublishedOnce, IsStored
<1>4. TablesMove
  BY ContestedStays DEF TablesMove, HasRow, HasResolved, A!Open, Inv, TablesInv, TypeOK, OwnersAreRecorded
<1>5. \A g \in Gets : GetInv(g)'
  BY <1>4, GetsWait, OwnersStay
<1> QED BY <1>1, <1>2, <1>3, <1>5, <1>6 DEF Inv, TablesInv

\* The row that an insert adds has a key that no row, and so no reading that was
\* published or is about to be, has.
LEMMA StorePreserves ==
    ASSUME Inv, NEW p \in Posts, Store(p)
    PROVE  Inv'
<1> DEFINE c == post[p]
           row == [deviceId |-> c.deviceId, recordedAt |-> c.recordedAt, postedBy |-> c.ownerId]
<1> USE DEF PostGoto, PostOver
<1>1. /\ postPc[p] = "save"
      /\ UNCHANGED <<registryVars, handlerVars, owners, getVars>>
      /\ \/ ~IsStored(c) /\ events' = events \cup {row}
         \/ PostOver(p) /\ UNCHANGED events
      /\ PostOver(p) \/ (PostGoto(p, "publish") /\ UNCHANGED post)
  BY DEF Store
<1>2. c \in PostCommands /\ row \in Events /\ row.postedBy \in owners[row.deviceId]
  BY <1>1 DEF Inv, TablesInv, PostsAreOwned, PostCommands, Events
<1>5. events \subseteq events' /\ events' \subseteq events \cup {row} /\ IsFiniteSet(events')
  <2>1. IsFiniteSet(events) /\ IsFiniteSet(events \cup {row})
    BY FS_AddElement DEF Inv, TablesInv, TypeOK
  <2>2. events' = events \/ events' = events \cup {row}
    BY <1>1
  <2> QED BY <2>1, <2>2
<1>6. TypeOK'
  BY <1>1, <1>2, <1>5 DEF registryVars, handlerVars, getVars, Inv, TablesInv, TypeOK, RegistryTypeOK, A!AlertsTypeOK
<1>7. RegistrationsAreKnown' /\ OwnersAreRecorded'
  BY <1>1 DEF registryVars, Inv, TablesInv, RegistrationsAreKnown, OwnersAreRecorded
<1>8. RowsAreOwned'
  BY <1>1, <1>2, <1>5 DEF Inv, TablesInv, RowsAreOwned
<1>9. PostsAreOwned'
  BY <1>1 DEF Inv, TablesInv, TypeOK, PostsAreOwned
<1>12. PublishedOnce'
  <2>1. /\ \A key : IsStored(key) => IsStored(key)'
        /\ readings' = readings
    BY <1>1, <1>5 DEF IsStored, handlerVars
  <2>2. CASE PostOver(p)
    BY <2>1, <2>2 DEF Inv, TablesInv, TypeOK, PublishedOnce, IsStored
  <2>3. CASE PostGoto(p, "publish") /\ UNCHANGED post /\ ~IsStored(c) /\ events' = events \cup {row}
    <3>1. IsStored(post[p])'
      <4>1. row \in events' /\ row.deviceId = post[p].deviceId /\ row.recordedAt = post[p].recordedAt /\ post' = post
        BY <2>3
      <4> QED BY <4>1, Zenon DEF IsStored
    <3>2. \A reading \in readings : ~SameKey(reading, c)
      BY <2>3 DEF Inv, TablesInv, PublishedOnce, IsStored, SameKey
    <3>3. \A other \in Posts : postPc[other] = "publish" => ~SameKey(post[other], c)
      BY <2>3 DEF Inv, TablesInv, PublishedOnce, IsStored, SameKey
    <3>4. \A other \in Posts : postPc'[other] = "publish" <=> (other = p \/ postPc[other] = "publish")
      BY <2>3 DEF Inv, TablesInv, TypeOK
    <3> HIDE DEF PostGoto, PostOver
    <3> QED BY <2>1, <2>3, <3>1, <3>2, <3>3, <3>4 DEF Inv, TablesInv, PublishedOnce, IsStored, SameKey
  <2> QED BY <1>1, <2>2, <2>3
<1>10. TablesMove
  BY <1>1, <1>2, <1>5, ContestedStays
     DEF registryVars, handlerVars, TablesMove, HasRow, HasResolved, A!Open, Inv, TablesInv, TypeOK, OwnersAreRecorded
<1>11. \A g \in Gets : GetInv(g)'
  BY <1>1, <1>10, GetsWait, OwnersStay DEF getVars, registryVars
<1> QED BY <1>6, <1>7, <1>8, <1>9, <1>11, <1>12 DEF Inv, TablesInv

\* Publishing a reading keeps the types of Alerts.
LEMMA EmitKeepsTypes ==
    ASSUME A!AlertsTypeOK, NEW reading \in A!Readings, A!Emit(reading)
    PROVE  A!AlertsTypeOK' /\ alerts' = alerts /\ readings' = readings \cup {reading}
BY DEF A!Emit, A!AlertsTypeOK, A!Readings, A!Verdicts, A!Verdict

LEMMA PublishVerdictsPreserves ==
    ASSUME Inv, NEW p \in Posts, PublishVerdicts(p)
    PROVE  Inv'
<1> DEFINE c == post[p]
           reading == [deviceId |-> c.deviceId, recordedAt |-> c.recordedAt, breached |-> c.breached]
<1>1. /\ postPc[p] = "publish"
      /\ A!Emit(reading)
      /\ postPc' = [postPc EXCEPT ![p] = "over"] /\ post' = [post EXCEPT ![p] = None]
      /\ UNCHANGED <<registryVars, events, owners, getVars>>
  BY DEF PublishVerdicts, PostOver, PostGoto
<1>2. reading \in A!Readings
  BY <1>1 DEF Inv, TablesInv, PostsAreOwned, PostCommands, A!Readings
<1>3. A!AlertsTypeOK' /\ alerts' = alerts /\ readings' = readings \cup {reading}
  BY <1>1, <1>2, EmitKeepsTypes DEF Inv, TablesInv, TypeOK
<1>4. TypeOK'
  BY <1>1, <1>3 DEF registryVars, getVars, Inv, TablesInv, TypeOK, RegistryTypeOK
<1>5. RegistrationsAreKnown' /\ OwnersAreRecorded' /\ RowsAreOwned'
  BY <1>1 DEF registryVars, Inv, TablesInv, RegistrationsAreKnown, OwnersAreRecorded, RowsAreOwned
<1>6. PostsAreOwned'
  BY <1>1 DEF Inv, TablesInv, TypeOK, PostsAreOwned
<1>7. PublishedOnce'
  <2>1. SameKey(reading, c) /\ \A key : IsStored(key)' = IsStored(key)
    BY <1>1 DEF SameKey, IsStored
  <2>2. \A other \in Posts : postPc'[other] = "publish" <=> (other # p /\ postPc[other] = "publish")
    BY <1>1 DEF Inv, TablesInv, TypeOK
  <2>3. \A other \in Posts : other # p => post'[other] = post[other]
    BY <1>1 DEF Inv, TablesInv, TypeOK
  <2>4. \A other \in Posts : other # p /\ postPc[other] = "publish" => ~SameKey(post[other], c)
    BY <1>1 DEF Inv, TablesInv, PublishedOnce
  <2> QED BY <1>1, <1>3, <2>1, <2>2, <2>3, <2>4 DEF Inv, TablesInv, PublishedOnce, SameKey, IsStored
<1>8. TablesMove
  BY <1>1, <1>3, ContestedStays
     DEF registryVars, TablesMove, HasRow, HasResolved, A!Open, Inv, TablesInv, TypeOK, OwnersAreRecorded
<1>9. \A g \in Gets : GetInv(g)'
  BY <1>1, <1>8, GetsWait, OwnersStay DEF getVars, registryVars
<1> QED BY <1>4, <1>5, <1>6, <1>7, <1>9 DEF Inv, TablesInv

LEMMA PostCrashPreserves ==
    ASSUME Inv, NEW p \in Posts, PostCrash(p)
    PROVE  Inv'
<1> USE DEF tableVars, registryVars, handlerVars, getVars
<1>1. /\ postPc' = [postPc EXCEPT ![p] = "over"] /\ post' = [post EXCEPT ![p] = None]
      /\ UNCHANGED <<tableVars, getVars>>
  BY DEF PostCrash, PostOver, PostGoto
<1>2. TypeOK'
  BY <1>1 DEF Inv, TablesInv, TypeOK, RegistryTypeOK, A!AlertsTypeOK
<1>3. RegistrationsAreKnown' /\ OwnersAreRecorded' /\ RowsAreOwned'
  BY <1>1 DEF Inv, TablesInv, RegistrationsAreKnown, OwnersAreRecorded, RowsAreOwned
<1>4. PostsAreOwned' /\ PublishedOnce'
  BY <1>1 DEF Inv, TablesInv, TypeOK, PostsAreOwned, PublishedOnce, IsStored
<1>5. TablesMove
  BY <1>1, ContestedStays DEF TablesMove, HasRow, HasResolved, A!Open, Inv, TablesInv, TypeOK, OwnersAreRecorded
<1>6. \A g \in Gets : GetInv(g)'
  BY <1>1, <1>5, GetsWait, OwnersStay
<1> QED BY <1>2, <1>3, <1>4, <1>6 DEF Inv, TablesInv

\* Handlers delete no alert and reopen none.
LEMMA HandlersKeepAlerts ==
    ASSUME A!AlertsTypeOK, NEW v \in A!Verdicts,
           A!Raise(v) \/ A!FindActive(v) \/ A!Abandon(v) \/ \E a \in A!Verdicts : A!Resolve(v, a)
    PROVE  /\ A!AlertsTypeOK'
           /\ readings' = readings
           /\ \A w : (HasRow(w) => HasRow(w)') /\ (HasResolved(w) => HasResolved(w)')
<1> USE DEF HasRow, HasResolved, A!Open, A!AlertsTypeOK
<1>1. CASE A!Raise(v)
  BY <1>1 DEF A!Raise, A!AlertRows
<1>2. CASE A!FindActive(v) \/ A!Abandon(v)
  BY <1>2 DEF A!FindActive, A!Abandon, A!Active, A!AlertRows
<1>3. ASSUME NEW a \in A!Verdicts, A!Resolve(v, a)
      PROVE  /\ A!AlertsTypeOK'
             /\ readings' = readings
             /\ \A w : (HasRow(w) => HasRow(w)') /\ (HasResolved(w) => HasResolved(w)')
  <2> DEFINE resolved == [raisedBy |-> a, resolvedAt |-> v.recordedAt]
  <2>1. /\ resolved \in alerts' /\ resolved.raisedBy = a
        /\ \A alert \in alerts : alert.raisedBy = a \/ alert \in alerts'
    BY <1>3 DEF A!Resolve
  <2>2. resolved \in A!AlertRows /\ resolved.resolvedAt # None
    BY ServiceTimesAssumption DEF A!AlertRows, A!Verdicts
  <2>3. A!AlertsTypeOK'
    BY <1>3, <2>2 DEF A!Resolve
  <2> QED BY <1>3, <2>1, <2>2, <2>3 DEF A!Resolve
<1> QED BY <1>1, <1>2, <1>3

LEMMA HandleVerdictPreserves ==
    ASSUME Inv, HandleVerdict
    PROVE  Inv'
<1> USE DEF HandleVerdict, registryVars, postVars, getVars
<1>1. /\ A!AlertsTypeOK'
      /\ readings' = readings
      /\ \A w : (HasRow(w) => HasRow(w)') /\ (HasResolved(w) => HasResolved(w)')
  BY HandlersKeepAlerts DEF Inv, TablesInv, TypeOK
<1>2. UNCHANGED <<registryVars, owners, events, postVars, getVars>>
  BY Zenon
<1>3. TypeOK'
  BY <1>1, <1>2 DEF Inv, TablesInv, TypeOK, RegistryTypeOK
<1>4. RegistrationsAreKnown' /\ OwnersAreRecorded' /\ RowsAreOwned' /\ PostsAreOwned'
  BY <1>2 DEF Inv, TablesInv, RegistrationsAreKnown, OwnersAreRecorded, RowsAreOwned, PostsAreOwned
<1>7. PublishedOnce'
  BY <1>1, <1>2 DEF Inv, TablesInv, PublishedOnce, IsStored
<1>5. TablesMove
  BY <1>1, <1>2, ContestedStays DEF TablesMove, Inv, TablesInv, TypeOK, OwnersAreRecorded
<1>6. \A g \in Gets : GetInv(g)'
  BY <1>2, <1>5, GetsWait, OwnersStay
<1> QED BY <1>3, <1>4, <1>6, <1>7 DEF Inv, TablesInv

------------------------------------------------------------------------------
(* GETs.                                                                   *)

GetTypes ==
    /\ getPc \in [Gets -> {"idle"} \cup GetSteps \cup Outcomes]
    /\ query \in [Gets -> HistoryQueries \cup ListQueries \cup {None}]
    /\ offset \in [Gets -> Nat]
    /\ page \in [Gets -> SUBSET Events]
    /\ total \in [Gets -> Nat]
    /\ shown \in [Gets -> SUBSET (Devices \cup A!Verdicts \cup Events)]
    /\ begun \in [Gets -> SUBSET (Devices \cup A!Verdicts \cup Events)]
    /\ owned \in [Gets -> SUBSET Devices]

\* A step of one GET concerns no other.
LEMMA OthersWait ==
    ASSUME Inv, UNCHANGED <<tableVars, postVars>>, NEW g \in Gets,
           \A h \in Gets \ {g} : UNCHANGED <<getPc[h], query[h], offset[h], page[h], total[h], shown[h], begun[h],
                                              owned[h]>>,
           GetTypes', GetInv(g)'
    PROVE  Inv'
<1> USE DEF tableVars, registryVars, handlerVars, postVars
<1>1. TypeOK'
  BY DEF Inv, TablesInv, TypeOK, GetTypes, RegistryTypeOK, A!AlertsTypeOK
<1>2. RegistrationsAreKnown' /\ OwnersAreRecorded' /\ RowsAreOwned' /\ PostsAreOwned' /\ PublishedOnce'
  BY DEF Inv, TablesInv, RegistrationsAreKnown, OwnersAreRecorded, RowsAreOwned, PostsAreOwned, PublishedOnce,
         IsStored
<1>3. TablesMove
  BY ContestedStays DEF TablesMove, HasRow, HasResolved, A!Open, Inv, TablesInv, TypeOK, OwnersAreRecorded
<1>4. ASSUME NEW h \in Gets \ {g} PROVE GetInv(h)'
  <2>1. offset[h] \in Nat /\ begun[h] \subseteq Devices \cup A!Verdicts \cup Events /\ GetInv(h)
    BY DEF Inv, TablesInv, TypeOK
  <2>2. getPc[h] # "idle" => owned'[h] = owned[h] \cup {d \in Devices : ownerId'[d] = query[h].ownerId}
    BY <2>1 DEF GetInv, GetOwned
  <2> QED BY <1>3, <2>1, <2>2, GetWaits
<1> QED BY <1>1, <1>2, <1>4 DEF Inv, TablesInv

\* With the tables as they are, queries find what they found.
LEMMA TablesStay ==
    ASSUME UNCHANGED <<tableVars, postVars>>
    PROVE  /\ \A q : BuildWhere(q)' = BuildWhere(q) /\ Count(q)' = Count(q)
           /\ \A q, row : Rank(row, q)' = Rank(row, q)
           /\ \A v : HasRow(v)' = HasRow(v) /\ HasResolved(v)' = HasResolved(v)
<1> USE DEF tableVars, registryVars, handlerVars
<1>1. \A q : BuildWhere(q)' = BuildWhere(q)
  BY DEF BuildWhere
<1>2. \A q : Count(q)' = Count(q)
  BY <1>1 DEF Count
<1>3. \A q, row : Rank(row, q)' = Rank(row, q)
  BY <1>1 DEF Rank
<1>4. \A v : HasRow(v)' = HasRow(v) /\ HasResolved(v)' = HasResolved(v)
  BY DEF HasRow, HasResolved, A!Open
<1> QED BY <1>1, <1>2, <1>3, <1>4

\* The alerts that a query returns are open, and of the given devices.
LEMMA ListedAlerts ==
    ASSUME TypeOK, NEW devices
    PROVE  \A v : v \in FindActiveByDeviceIds(devices) <=>
                     /\ v \in A!Verdicts /\ v.deviceId \in devices
                     /\ \E alert \in alerts : alert.raisedBy = v /\ A!Open(alert)
BY DEF FindActiveByDeviceIds, A!ListActiveAlerts, TypeOK, A!AlertsTypeOK, A!AlertRows

LEMMA AskPreserves ==
    ASSUME Inv, NEW g \in Gets, NEW q \in Queries, Ask(g, q)
    PROVE  Inv'
<1> DEFINE pc == getPc'[g]
<1>1. /\ UNCHANGED <<tableVars, postVars, offset, page, total, shown>>
      /\ getPc[g] = "idle"
      /\ query' = [query EXCEPT ![g] = q]
      /\ begun' = [begun EXCEPT ![g] = Answer(q)]
      /\ owned' = [owned EXCEPT ![g] = FindByOwnerId(q.ownerId)]
  BY DEF Ask
<1>2. /\ getPc' = [getPc EXCEPT ![g] = pc]
      /\ q \in HistoryQueries => pc \in {"badRange", "findOwnedById"}
      /\ q \in ListQueries => pc = "findByOwnerId"
  BY QueriesAreTyped DEF Ask, GetGoto, Inv, TablesInv, TypeOK, Queries
<1>3. FindByOwnerId(q.ownerId) \subseteq Devices
  BY DEF FindByOwnerId
<1>4. /\ q.kind = "devices" => Answer(q) = FindByOwnerId(q.ownerId)
      /\ q.kind = "alerts" => Answer(q) = FindActiveByDeviceIds(FindByOwnerId(q.ownerId))
      /\ q.kind = "history" => Answer(q) = BuildWhere(q)
      /\ q.kind \in {"devices", "alerts", "history"}
  BY QueriesAreTyped DEF Answer, Queries
<1>5. Answer(q) \subseteq Devices \cup A!Verdicts \cup Events
  BY <1>3, <1>4, ListedAlerts DEF Inv, TablesInv, TypeOK, BuildWhere
<1>6. GetTypes'
  BY <1>1, <1>2, <1>3, <1>5 DEF GetTypes, Inv, TablesInv, TypeOK, Queries, GetSteps, Outcomes
<1>7. /\ query'[g] = q /\ begun'[g] = Answer(q) /\ owned'[g] = FindByOwnerId(q.ownerId)
      /\ offset'[g] = 0 /\ page'[g] = {} /\ shown'[g] = {} /\ ownerId' = ownerId
      /\ pc \in {"badRange", "findOwnedById", "findByOwnerId"}
  BY <1>1, <1>2 DEF Inv, TablesInv, TypeOK, GetInv, GetKind, Queries, tableVars, registryVars
<1>8. GetKind(g)'
  BY <1>2, <1>7, QueriesAreTyped DEF GetKind, Queries
<1>9. GetOwned(g)'
  <2>1. q.ownerId # Unregistered /\ owners' = owners
    BY <1>1, QueriesAreTyped, UnregisteredAssumption DEF Queries, tableVars
  <2> QED BY <1>7, <2>1 DEF GetOwned, FindByOwnerId, Inv, TablesInv, OwnersAreRecorded
<1>10. GetShown(g)'
  BY <1>7 DEF GetShown
<1>11. GetWalk(g)'
  <2> SUFFICES ASSUME q \in HistoryQueries, NEW row \in Answer(q)
               PROVE  row \in BuildWhere(q) /\ Rank(row, q) >= 0
    BY <1>1, <1>7, TablesStay DEF GetWalk
  <2> QED BY <1>4, QueriesAreTyped, RanksAreFinite DEF Inv, TablesInv, TypeOK
<1>12. GetAlerts(g)'
  <2> SUFFICES ASSUME q.kind = "alerts", NEW v \in Answer(q)
               PROVE  v.deviceId \in Devices /\ HasRow(v) /\ ownerId[v.deviceId] = q.ownerId
    BY <1>1, <1>7, TablesStay DEF GetAlerts
  <2>1. v.deviceId \in FindByOwnerId(q.ownerId) /\ HasRow(v)
    BY <1>4, ListedAlerts DEF HasRow, Inv, TablesInv
  <2> QED BY <2>1 DEF FindByOwnerId
<1>13. GetInv(g)'
  BY <1>8, <1>9, <1>10, <1>11, <1>12 DEF GetInv
<1>14. \A h \in Gets \ {g} : UNCHANGED <<getPc[h], query[h], offset[h], page[h], total[h], shown[h], begun[h],
                                           owned[h]>>
  BY <1>1, <1>2 DEF Inv, TablesInv, TypeOK
<1> QED BY <1>1, <1>6, <1>13, <1>14, OthersWait

\* The steps after Ask leave the question and its history as they are.
LEMMA QuestionStays ==
    ASSUME Inv, NEW g \in Gets, UNCHANGED <<tableVars, postVars, query, begun, owned>>, getPc[g] # "idle"
    PROVE  GetOwned(g)'
BY ContestedStays DEF Inv, GetInv, GetOwned, tableVars, registryVars

LEMMA CheckOwnerPreserves ==
    ASSUME Inv, NEW g \in Gets, CheckOwner(g)
    PROVE  Inv'
<1> DEFINE pc == getPc'[g]
<1>1. /\ UNCHANGED <<tableVars, postVars, query, offset, page, total, shown, begun, owned>>
      /\ getPc[g] = "findOwnedById" /\ pc \in {"findMany", "notFound"}
      /\ getPc' = [getPc EXCEPT ![g] = pc]
      /\ pc = "findMany" => ownerId[query[g].deviceId] = query[g].ownerId
  BY DEF CheckOwner, GetGoto, FindOwnedById, Inv, TablesInv, TypeOK
<1>2. GetTypes'
  BY <1>1 DEF GetTypes, Inv, TablesInv, TypeOK, GetSteps, Outcomes
<1>3. GetKind(g)' /\ GetOwned(g)'
  BY <1>1, QuestionStays DEF Inv, GetInv, GetKind
<1>4. query[g] \in HistoryQueries /\ query[g].deviceId \in Devices /\ query[g].kind = "history"
  BY <1>1, QueriesAreTyped DEF Inv, GetInv, GetKind
<1>5. GetShown(g)'
  BY <1>1, <1>4, TablesStay DEF Inv, GetInv, GetShown, GetOwned, tableVars
<1>6. GetWalk(g)'
  BY <1>1, TablesStay DEF Inv, GetInv, GetWalk
<1>7. GetAlerts(g)'
  BY <1>1, <1>4 DEF GetAlerts
<1>8. GetInv(g)'
  BY <1>3, <1>5, <1>6, <1>7 DEF GetInv
<1>9. \A h \in Gets \ {g} : UNCHANGED <<getPc[h], query[h], offset[h], page[h], total[h], shown[h], begun[h],
                                           owned[h]>>
  BY <1>1 DEF Inv, TablesInv, TypeOK
<1> QED BY <1>1, <1>2, <1>8, <1>9, OthersWait

LEMMA ReadPagePreserves ==
    ASSUME Inv, NEW g \in Gets, ReadPage(g)
    PROVE  Inv'
<1> DEFINE q == query[g]
<1>1. /\ UNCHANGED <<tableVars, postVars, query, offset, total, shown, begun, owned>>
      /\ getPc[g] = "findMany"
      /\ getPc' = [getPc EXCEPT ![g] = "count"]
      /\ page' = [page EXCEPT ![g] = FindMany(q, offset[g])]
  BY DEF ReadPage, GetGoto
<1>2. GetTypes'
  BY <1>1 DEF GetTypes, Inv, TablesInv, TypeOK, GetSteps, Outcomes, FindMany, BuildWhere
<1>3. q \in HistoryQueries /\ q.kind = "history" /\ q.limit \in Nat /\ offset[g] \in Nat
  BY <1>1, QueriesAreTyped DEF Inv, GetInv, GetKind, TablesInv, TypeOK
<1>4. /\ getPc'[g] = "count" /\ page'[g] = FindMany(q, offset[g]) /\ query'[g] = q
      /\ UNCHANGED <<offset[g], shown[g], begun[g], owned[g], events>>
  BY <1>1 DEF Inv, TablesInv, TypeOK, tableVars
<1>5. GetKind(g)' /\ GetOwned(g)'
  BY <1>1, <1>3, <1>4, QuestionStays DEF GetKind, Queries
<1>6. GetShown(g)'
  BY <1>1, <1>3, <1>4, TablesStay DEF Inv, GetInv, GetShown, FindMany
<1>7. GetWalk(g)'
  <2> SUFFICES ASSUME NEW row \in begun[g], row \notin shown[g]
               PROVE  /\ row \in BuildWhere(q) /\ Rank(row, q) >= offset[g]
                      /\ row \in FindMany(q, offset[g]) \/ Rank(row, q) >= offset[g] + q.limit
    BY <1>1, <1>4, TablesStay, Zenon DEF GetWalk
  <2>1. row \in BuildWhere(q) /\ Rank(row, q) >= offset[g]
    BY <1>1, <1>3 DEF Inv, GetInv, GetWalk
  <2>2. Rank(row, q) \in Nat
    BY RanksAreFinite DEF Inv, TablesInv, TypeOK
  <2> QED BY <1>3, <2>1, <2>2 DEF FindMany
<1>8. GetAlerts(g)'
  BY <1>3, <1>4 DEF GetAlerts
<1>9. GetInv(g)'
  BY <1>5, <1>6, <1>7, <1>8 DEF GetInv
<1>10. \A h \in Gets \ {g} : UNCHANGED <<getPc[h], query[h], offset[h], page[h], total[h], shown[h], begun[h],
                                           owned[h]>>
  BY <1>1 DEF Inv, TablesInv, TypeOK
<1> QED BY <1>1, <1>2, <1>9, <1>10, OthersWait

LEMMA CountRowsPreserves ==
    ASSUME Inv, NEW g \in Gets, CountRows(g)
    PROVE  Inv'
<1> DEFINE q == query[g]
<1>1. /\ UNCHANGED <<tableVars, postVars, query, offset, page, begun, owned>>
      /\ getPc[g] = "count"
      /\ getPc' = [getPc EXCEPT ![g] = "ok"]
      /\ total' = [total EXCEPT ![g] = Count(q)]
      /\ shown' = [shown EXCEPT ![g] = @ \cup page[g]]
  BY DEF CountRows, GetGoto
<1>2. GetTypes'
  BY <1>1, RanksAreFinite DEF GetTypes, Inv, TablesInv, TypeOK, GetSteps, Outcomes
<1>3. q \in HistoryQueries /\ q.kind = "history" /\ q.limit \in Nat /\ offset[g] \in Nat
  BY <1>1, QueriesAreTyped DEF Inv, GetInv, GetKind, TablesInv, TypeOK
<1>4. /\ getPc'[g] = "ok" /\ query'[g] = q /\ total'[g] = Count(q) /\ shown'[g] = shown[g] \cup page[g]
      /\ UNCHANGED <<offset[g], page[g], begun[g], owned[g], events>>
  BY <1>1 DEF Inv, TablesInv, TypeOK, tableVars
<1>5. GetKind(g)' /\ GetOwned(g)'
  BY <1>1, <1>3, <1>4, QuestionStays DEF GetKind, Queries
<1>6. GetShown(g)'
  <2>1. \A row \in page[g] : row \in events /\ row.deviceId \in owned[g]
    BY <1>1, <1>3 DEF Inv, GetInv, GetShown, BuildWhere
  <2> QED BY <1>1, <1>3, <1>4, <2>1, TablesStay DEF Inv, GetInv, GetShown
<1>7. GetWalk(g)'
  <2> SUFFICES ASSUME NEW row \in begun[g], row \notin shown[g], row \notin page[g]
               PROVE  /\ row \in BuildWhere(q) /\ Rank(row, q) >= offset[g]
                      /\ Rank(row, q) >= offset[g] + q.limit
                      /\ Count(q) > offset[g] + q.limit
    BY <1>1, <1>4, TablesStay, Zenon DEF GetWalk
  <2>1. row \in BuildWhere(q) /\ Rank(row, q) >= offset[g] /\ Rank(row, q) >= offset[g] + q.limit
    BY <1>1, <1>3 DEF Inv, GetInv, GetWalk
  <2>2. Rank(row, q) \in Nat /\ Count(q) \in Nat /\ Rank(row, q) < Count(q)
    BY <2>1, RanksAreFinite DEF Inv, TablesInv, TypeOK
  <2> QED BY <1>3, <2>1, <2>2
<1>8. GetAlerts(g)'
  BY <1>3, <1>4 DEF GetAlerts
<1>9. GetInv(g)'
  BY <1>5, <1>6, <1>7, <1>8 DEF GetInv
<1>10. \A h \in Gets \ {g} : UNCHANGED <<getPc[h], query[h], offset[h], page[h], total[h], shown[h], begun[h],
                                           owned[h]>>
  BY <1>1 DEF Inv, TablesInv, TypeOK
<1> QED BY <1>1, <1>2, <1>9, <1>10, OthersWait

LEMMA NextPagePreserves ==
    ASSUME Inv, NEW g \in Gets, NextPage(g)
    PROVE  Inv'
<1> DEFINE q == query[g]
<1>1. /\ UNCHANGED <<tableVars, postVars, query, page, total, shown, begun, owned>>
      /\ getPc[g] = "ok" /\ q.kind = "history"
      /\ getPc' = [getPc EXCEPT ![g] = "findOwnedById"]
      /\ offset' = [offset EXCEPT ![g] = @ + q.limit]
  BY DEF NextPage, GetGoto
<1>2. q \in HistoryQueries /\ q.limit \in Nat /\ offset[g] \in Nat
  BY <1>1, QueriesAreTyped DEF Inv, GetInv, GetKind, TablesInv, TypeOK, Queries
<1>3. GetTypes'
  BY <1>1, <1>2 DEF GetTypes, Inv, TablesInv, TypeOK, GetSteps, Outcomes
<1>4. /\ getPc'[g] = "findOwnedById" /\ query'[g] = q /\ offset'[g] = offset[g] + q.limit
      /\ UNCHANGED <<page[g], shown[g], begun[g], owned[g], events>>
  BY <1>1 DEF Inv, TablesInv, TypeOK, tableVars
<1>5. GetKind(g)' /\ GetOwned(g)'
  BY <1>1, <1>2, <1>4, QuestionStays DEF GetKind, Queries
<1>6. GetShown(g)'
  BY <1>1, <1>2, <1>4, TablesStay DEF Inv, GetInv, GetShown
<1>7. GetWalk(g)'
  <2> SUFFICES ASSUME NEW row \in begun[g], row \notin shown[g]
               PROVE  row \in BuildWhere(q) /\ Rank(row, q) >= offset[g] + q.limit
    BY <1>1, <1>4, TablesStay, Zenon DEF GetWalk
  <2> QED BY <1>1, <1>2 DEF Inv, GetInv, GetWalk
<1>8. GetAlerts(g)'
  BY <1>1, <1>4 DEF GetAlerts
<1>9. GetInv(g)'
  BY <1>5, <1>6, <1>7, <1>8 DEF GetInv
<1>10. \A h \in Gets \ {g} : UNCHANGED <<getPc[h], query[h], offset[h], page[h], total[h], shown[h], begun[h],
                                           owned[h]>>
  BY <1>1 DEF Inv, TablesInv, TypeOK
<1> QED BY <1>1, <1>3, <1>9, <1>10, OthersWait

LEMMA ReadDevicesPreserves ==
    ASSUME Inv, NEW g \in Gets, ReadDevices(g)
    PROVE  Inv'
<1> DEFINE q == query[g]
           devices == FindByOwnerId(q.ownerId)
           pc == getPc'[g]
<1>1. /\ UNCHANGED <<tableVars, postVars, query, offset, page, total, begun, owned>>
      /\ getPc[g] = "findByOwnerId" /\ pc \in {"ok", "findActive"}
      /\ getPc' = [getPc EXCEPT ![g] = pc]
      /\ pc = "ok" => q.kind = "devices" \/ devices = {}
      /\ pc = "findActive" => q.kind # "devices"
      /\ shown' = [shown EXCEPT ![g] = devices]
  BY DEF ReadDevices, GetGoto, Inv, TablesInv, TypeOK
<1>2. devices \subseteq Devices
  BY DEF FindByOwnerId
<1>3. GetTypes'
  BY <1>1, <1>2 DEF GetTypes, Inv, TablesInv, TypeOK, GetSteps, Outcomes
<1>4. q \in ListQueries /\ q.kind \in {"devices", "alerts"} /\ q \notin HistoryQueries
  BY <1>1, QueriesAreTyped DEF Inv, GetInv, GetKind
<1>5. /\ query'[g] = q /\ shown'[g] = devices
      /\ UNCHANGED <<offset[g], page[g], begun[g], owned[g], alerts, ownerId, contested>>
  BY <1>1, ContestedStays DEF Inv, TablesInv, TypeOK, tableVars, registryVars, handlerVars
<1>6. GetKind(g)' /\ GetOwned(g)'
  BY <1>1, <1>4, <1>5, QuestionStays DEF GetKind, Queries
<1>7. GetShown(g)'
  <2>1. devices \subseteq owned[g]
    BY <1>1 DEF Inv, GetInv, GetOwned, FindByOwnerId
  <2> QED BY <1>1, <1>4, <1>5, <2>1 DEF GetShown
<1>8. GetWalk(g)'
  BY <1>4, <1>5 DEF GetWalk
<1>9. GetAlerts(g)'
  <2> SUFFICES ASSUME q.kind = "alerts", NEW v \in begun[g]
               PROVE  /\ v.deviceId \in Devices /\ HasRow(v)
                      /\ v.deviceId \in contested \/ ownerId[v.deviceId] = q.ownerId
                      /\ v.deviceId \in devices \/ v.deviceId \in contested
                      /\ pc = "ok" => v.deviceId \in contested
    BY <1>1, <1>5, TablesStay, Zenon DEF GetAlerts
  <2>1. /\ v.deviceId \in Devices /\ HasRow(v)
        /\ v.deviceId \in contested \/ ownerId[v.deviceId] = q.ownerId
    BY <1>1 DEF Inv, GetInv, GetAlerts
  <2> QED BY <1>1, <2>1 DEF FindByOwnerId
<1>10. GetInv(g)'
  BY <1>6, <1>7, <1>8, <1>9 DEF GetInv
<1>11. \A h \in Gets \ {g} : UNCHANGED <<getPc[h], query[h], offset[h], page[h], total[h], shown[h], begun[h],
                                           owned[h]>>
  BY <1>1 DEF Inv, TablesInv, TypeOK
<1> QED BY <1>1, <1>3, <1>10, <1>11, OthersWait

LEMMA ReadAlertsPreserves ==
    ASSUME Inv, NEW g \in Gets, ReadAlerts(g)
    PROVE  Inv'
<1> DEFINE q == query[g]
           listed == FindActiveByDeviceIds(shown[g])
<1>1. /\ UNCHANGED <<tableVars, postVars, query, offset, page, total, begun, owned>>
      /\ getPc[g] = "findActive"
      /\ getPc' = [getPc EXCEPT ![g] = "ok"]
      /\ shown' = [shown EXCEPT ![g] = listed]
  BY DEF ReadAlerts, GetGoto, Inv, TablesInv, TypeOK
<1>2. \A v : v \in listed <=> /\ v \in A!Verdicts /\ v.deviceId \in shown[g]
                             /\ \E alert \in alerts : alert.raisedBy = v /\ A!Open(alert)
  BY ListedAlerts DEF Inv, TablesInv
<1>3. GetTypes'
  BY <1>1, <1>2 DEF GetTypes, Inv, TablesInv, TypeOK, GetSteps, Outcomes
<1>4. q \in ListQueries /\ q.kind = "alerts" /\ q \notin HistoryQueries
  BY <1>1, QueriesAreTyped DEF Inv, GetInv, GetKind
<1>5. /\ query'[g] = q /\ shown'[g] = listed /\ getPc'[g] = "ok"
      /\ UNCHANGED <<offset[g], page[g], begun[g], owned[g], alerts, ownerId, contested>>
  BY <1>1, ContestedStays DEF Inv, TablesInv, TypeOK, tableVars, registryVars, handlerVars
<1>6. GetKind(g)' /\ GetOwned(g)'
  BY <1>1, <1>4, <1>5, QuestionStays DEF GetKind, Queries
<1>7. GetShown(g)'
  BY <1>1, <1>2, <1>4, <1>5 DEF Inv, GetInv, GetShown
<1>8. GetWalk(g)'
  BY <1>4, <1>5 DEF GetWalk
<1>9. GetAlerts(g)'
  <2> SUFFICES ASSUME NEW v \in begun[g]
               PROVE  /\ v.deviceId \in Devices /\ HasRow(v)
                      /\ v.deviceId \in contested \/ ownerId[v.deviceId] = q.ownerId
                      /\ v \in listed \/ HasResolved(v) \/ v.deviceId \in contested
    BY <1>1, <1>5, TablesStay, Zenon DEF GetAlerts
  <2>1. /\ v.deviceId \in Devices /\ HasRow(v)
        /\ v.deviceId \in contested \/ ownerId[v.deviceId] = q.ownerId
        /\ v.deviceId \in shown[g] \/ v.deviceId \in contested
    BY <1>1, <1>4 DEF Inv, GetInv, GetAlerts
  <2>2. v \in A!Verdicts
    BY <2>1 DEF HasRow, Inv, TablesInv, TypeOK, A!AlertsTypeOK, A!AlertRows
  <2> QED BY <1>2, <2>1, <2>2 DEF HasRow, HasResolved
<1>10. GetInv(g)'
  BY <1>6, <1>7, <1>8, <1>9 DEF GetInv
<1>11. \A h \in Gets \ {g} : UNCHANGED <<getPc[h], query[h], offset[h], page[h], total[h], shown[h], begun[h],
                                           owned[h]>>
  BY <1>1 DEF Inv, TablesInv, TypeOK
<1> QED BY <1>1, <1>3, <1>10, <1>11, OthersWait

LEMMA GetFailsPreserves ==
    ASSUME Inv, NEW g \in Gets, GetFails(g)
    PROVE  Inv'
<1>1. /\ UNCHANGED <<tableVars, postVars, query, offset, page, total, begun, owned>>
      /\ getPc[g] # "idle"
      /\ getPc' = [getPc EXCEPT ![g] = "failed"]
      /\ shown' = [shown EXCEPT ![g] = IF query[g].kind = "history" THEN @ ELSE {}]
  BY DEF GetFails, GetGoto, GetSteps
<1>2. GetTypes'
  BY <1>1 DEF GetTypes, Inv, TablesInv, TypeOK, Outcomes
<1>3. /\ getPc'[g] = "failed" /\ query'[g] = query[g]
      /\ query[g] \in HistoryQueries => shown'[g] = shown[g]
      /\ UNCHANGED <<offset[g], page[g], begun[g], owned[g], alerts, ownerId, contested, events>>
  BY <1>1, QueriesAreTyped, ContestedStays DEF Inv, TablesInv, TypeOK, tableVars, registryVars, handlerVars
<1>4. GetKind(g)' /\ GetOwned(g)'
  BY <1>1, <1>3, QuestionStays DEF Inv, GetInv, GetKind
<1>5. GetShown(g)'
  BY <1>1, <1>3, TablesStay DEF Inv, GetInv, GetShown
<1>6. GetWalk(g)'
  BY <1>1, <1>3, TablesStay DEF Inv, GetInv, GetWalk
<1>7. GetAlerts(g)'
  BY <1>1, <1>3, TablesStay DEF Inv, GetInv, GetAlerts
<1>8. GetInv(g)'
  BY <1>4, <1>5, <1>6, <1>7 DEF GetInv
<1>9. \A h \in Gets \ {g} : UNCHANGED <<getPc[h], query[h], offset[h], page[h], total[h], shown[h], begun[h],
                                           owned[h]>>
  BY <1>1 DEF Inv, TablesInv, TypeOK
<1> QED BY <1>1, <1>2, <1>8, <1>9, OthersWait

------------------------------------------------------------------------------
LEMMA NextPreserves == Inv /\ [Next]_vars => Inv'
<1> SUFFICES ASSUME Inv, [Next]_vars PROVE Inv'
  OBVIOUS
<1>1. CASE UNCHANGED vars
  <2> USE <1>1 DEF vars, tableVars, postVars, getVars, registryVars, handlerVars
  <2>1. TypeOK'
    BY DEF Inv, TablesInv, TypeOK, RegistryTypeOK, A!AlertsTypeOK
  <2>2. RegistrationsAreKnown' /\ OwnersAreRecorded' /\ RowsAreOwned' /\ PostsAreOwned' /\ PublishedOnce'
    BY DEF Inv, TablesInv, RegistrationsAreKnown, OwnersAreRecorded, RowsAreOwned, PostsAreOwned, PublishedOnce,
           IsStored
  <2>3. TablesMove
    BY ContestedStays DEF TablesMove, HasRow, HasResolved, A!Open, Inv, TablesInv, TypeOK, OwnersAreRecorded
  <2>4. \A g \in Gets : GetInv(g)'
    BY <2>3, GetsWait, OwnersStay
  <2> QED BY <2>1, <2>2, <2>4 DEF Inv, TablesInv
<1>2. CASE \E r \in Registrations : Registration(r)
  BY <1>2, RegistrationPreserves
<1>3. CASE \E p \in Posts : PostStep(p)
  BY <1>3, AcceptPreserves, StorePreserves, PublishVerdictsPreserves, PostCrashPreserves DEF PostStep
<1>4. CASE HandleVerdict
  BY <1>4, HandleVerdictPreserves
<1>5. CASE \E g \in Gets : GetStep(g)
  BY <1>5, AskPreserves, CheckOwnerPreserves, ReadPagePreserves, CountRowsPreserves, NextPagePreserves,
     ReadDevicesPreserves, ReadAlertsPreserves, GetFailsPreserves DEF GetStep, Queries
<1> QED BY <1>1, <1>2, <1>3, <1>4, <1>5 DEF Next

\* The inductive invariant of the service.
THEOREM ServiceInvariance == Spec => []Inv
<1>1. Init => Inv
  <2> SUFFICES ASSUME Init PROVE Inv
    OBVIOUS
  <2> USE DEF Init, RegistryInit, A!AlertsInit
  <2>1. TypeOK
    BY FS_EmptySet DEF TypeOK, RegistryTypeOK, A!AlertsTypeOK
  <2>2. RegistrationsAreKnown /\ OwnersAreRecorded /\ RowsAreOwned /\ PostsAreOwned /\ PublishedOnce
    BY DEF RegistrationsAreKnown, OwnersAreRecorded, RowsAreOwned, PostsAreOwned, PublishedOnce
  <2>3. ASSUME NEW g \in Gets PROVE GetInv(g)
    BY DEF GetInv, GetKind, GetOwned, GetShown, GetWalk, GetAlerts
  <2> QED BY <2>1, <2>2, <2>3 DEF Inv, TablesInv
<1> QED BY <1>1, NextPreserves, PTL DEF Spec

\* Every variable of the service keeps its type.
THEOREM ServiceTypes == Spec => []TypeOK
<1>1. Inv => TypeOK
  BY DEF Inv, TablesInv
<1> QED BY <1>1, ServiceInvariance, PTL

\* However devices change hands while queries run, a caller is shown only what
\* belongs to a device that was its own during the request.
THEOREM OwnersOnly == Spec => []OnlyOwnersAreShown
<1>1. Inv => OnlyOwnersAreShown
  <2> SUFFICES ASSUME Inv, NEW g \in Gets, getPc[g] = "ok", NEW item \in shown[g]
               PROVE  (IF query[g].kind = "devices" THEN item ELSE item.deviceId) \in owned[g]
    BY DEF OnlyOwnersAreShown
  <2>1. GetShown(g) /\ query[g] \in Queries
    BY DEF Inv, GetInv, GetKind
  <2>2. query[g] \in HistoryQueries \/ query[g].kind \in {"devices", "alerts"}
    BY <2>1, QueriesAreTyped DEF Queries
  <2> QED BY <2>1, <2>2, QueriesAreTyped DEF GetShown
<1> QED BY <1>1, ServiceInvariance, PTL

\* Although the owner of a device is checked long before a reading is stored, the
\* readings in a history were posted by users who have owned the device, as has
\* the user who reads them: on a device with one owner ever, by its owner.
THEOREM ReadersSeeTheirOwn == Spec => []OwnReadingsOnly
<1>1. Inv => OwnReadingsOnly
  <2> SUFFICES ASSUME Inv, NEW g \in Gets, getPc[g] = "ok", query[g].kind = "history", NEW row \in shown[g]
               PROVE  row.postedBy \in owners[row.deviceId] /\ query[g].ownerId \in owners[row.deviceId]
    BY DEF OwnReadingsOnly
  <2>1. query[g] \in HistoryQueries
    BY QueriesAreTyped DEF Inv, GetInv, GetKind, Queries
  <2>2. row \in events /\ row.deviceId \in owned[g]
    BY <2>1 DEF Inv, GetInv, GetShown
  <2>3. row.deviceId \in Devices
    BY <2>2 DEF Inv, TablesInv, TypeOK, Events
  <2> QED BY <2>2, <2>3 DEF Inv, GetInv, GetOwned, TablesInv, RowsAreOwned
<1> QED BY <1>1, ServiceInvariance, PTL

\* Paging by offset, newest first, misses no reading that was there when the
\* client began, for any page size, any range and any inserts between the pages.
THEOREM PagingIsComplete == Spec => []NothingSkipped
<1>1. Inv => NothingSkipped
  <2> SUFFICES ASSUME Inv, NEW g \in Gets, getPc[g] = "ok", query[g].kind = "history", ~MorePages(g),
                      NEW row \in begun[g], row \notin shown[g]
               PROVE  FALSE
    BY DEF NothingSkipped
  <2>1. query[g] \in HistoryQueries
    BY QueriesAreTyped DEF Inv, GetInv, GetKind, Queries
  <2>2. total[g] > offset[g] + query[g].limit
    BY <2>1 DEF Inv, GetInv, GetWalk
  <2>3. total[g] \in Nat /\ offset[g] \in Nat /\ query[g].limit \in Nat
    BY <2>1, QueriesAreTyped DEF Inv, TablesInv, TypeOK
  <2> QED BY <2>2, <2>3 DEF MorePages
<1> QED BY <1>1, ServiceInvariance, PTL

\* No alert that was open when its owner asked is left out while it is open.
THEOREM OpenAlertsAreListed == Spec => []NoOpenAlertHidden
<1>1. Inv => NoOpenAlertHidden
  BY DEF Inv, GetInv, GetAlerts, NoOpenAlertHidden, HasResolved
<1> QED BY <1>1, ServiceInvariance, PTL

\* A POST publishes whatever it holds, and Alerts assumes a reading for each
\* device and time.  That follows from what the unique index of the table does to
\* the inserts of all POSTs, however they race, fail, die or come again.
THEOREM ServiceImplementsAlerts == Spec => ImplementsAlerts
<1>1. Init => A!AlertsInit
  BY DEF Init
<1>2. ASSUME Inv, [Next]_vars
      PROVE  [A!AlertsNext]_(A!alertVars)
  <2>1. CASE UNCHANGED handlerVars
    BY <2>1 DEF handlerVars, A!alertVars
  <2>2. CASE HandleVerdict
    BY <2>2, Zenon DEF HandleVerdict, A!AlertsNext
  <2>3. ASSUME NEW p \in Posts, PublishVerdicts(p)
        PROVE  A!AlertsNext
    <3> DEFINE c == post[p]
               reading == [deviceId |-> c.deviceId, recordedAt |-> c.recordedAt, breached |-> c.breached]
    <3>1. A!Emit(reading) /\ postPc[p] = "publish"
      BY <2>3 DEF PublishVerdicts
    <3>2. c \in PostCommands /\ \A other \in readings : ~SameKey(other, c)
      BY <1>2, <3>1 DEF Inv, TablesInv, PostsAreOwned, PublishedOnce
    <3>3. reading \in A!Readings
      BY <3>2 DEF PostCommands, A!Readings
    <3>4. \A other \in readings : other.deviceId = reading.deviceId => other.recordedAt # reading.recordedAt
      BY <3>2 DEF SameKey
    <3>5. A!Publish(reading)
      BY <3>1, <3>4, Zenon DEF A!Publish
    <3> QED BY <3>3, <3>5, Zenon DEF A!AlertsNext
  <2>4. CASE ~UNCHANGED handlerVars /\ ~HandleVerdict
    <3>1. ASSUME NEW r \in Registrations, Registration(r) PROVE UNCHANGED handlerVars
      BY <3>1 DEF Registration
    <3>2. ASSUME NEW p \in Posts, PostStep(p), ~PublishVerdicts(p) PROVE UNCHANGED handlerVars
      BY <3>2 DEF PostStep, Accept, Store, PostCrash, tableVars
    <3>3. ASSUME NEW g \in Gets, GetStep(g) PROVE UNCHANGED handlerVars
      BY <3>3 DEF GetStep, Ask, CheckOwner, ReadPage, CountRows, NextPage, ReadDevices, ReadAlerts, GetFails,
                  tableVars
    <3>4. UNCHANGED vars => UNCHANGED handlerVars
      BY DEF vars, tableVars
    <3>5. \E p \in Posts : PublishVerdicts(p)
      BY <1>2, <2>4, <3>1, <3>2, <3>3, <3>4 DEF Next
    <3> QED BY <2>3, <3>5
  <2> QED BY <2>1, <2>2, <2>4
<1> QED BY <1>1, <1>2, ServiceInvariance, PTL DEF Spec, ImplementsAlerts, A!AlertsSpec

------------------------------------------------------------------------------
(* Totals.                                                                 *)

\* The count of the second statement covers the page of the first.
PageCounted(g) ==
    /\ (getPc[g] # "idle" /\ query[g] \in ListQueries) => page[g] = {}
    /\ (getPc[g] = "count" /\ page[g] # {}) => Count(query[g]) >= offset[g] + Cardinality(page[g])
    /\ (getPc[g] = "ok" /\ page[g] # {}) => total[g] >= offset[g] + Cardinality(page[g])

\* Sets of naturals have a least element.
LEMMA LeastElement ==
    ASSUME NEW S, S \subseteq Nat, S # {}
    PROVE  \E least \in S : \A n \in S : least <= n
<1>1. PICK least \in S : \A n \in S : ~(<<n, least>> \in OpToRel(<, Nat))
  BY WFMin, NatLessThanWellFounded
<1>2. ASSUME NEW n \in S PROVE least <= n
  <2>1. n < least => <<n, least>> \in OpToRel(<, Nat)
    <3>1. <<n, least>> \in Nat \X Nat
      BY <1>2
    <3> QED BY <3>1 DEF OpToRel
  <2>2. n \in Nat /\ least \in Nat /\ ~(n < least)
    BY <1>1, <1>2, <2>1
  <2> QED BY <2>2
<1> QED BY <1>2

\* The rows that come before a page and those on it are rows that match: no more
\* than there are.
LEMMA PagesFit ==
    ASSUME IsFiniteSet(events), events \subseteq Events, NEW q \in HistoryQueries, NEW skip \in Nat,
           FindMany(q, skip) # {}
    PROVE  Count(q) >= skip + Cardinality(FindMany(q, skip))
<1> DEFINE rows == FindMany(q, skip)
           newer(row) == {other \in BuildWhere(q) : other.recordedAt > row.recordedAt}
           ranks == {Rank(row, q) : row \in rows}
<1>1. \A row : Rank(row, q) \in Nat
  BY RanksAreFinite
<1>2. IsFiniteSet(BuildWhere(q)) /\ Count(q) \in Nat
  BY RanksAreFinite
<1>3. PICK first \in rows : \A row \in rows : Rank(first, q) <= Rank(row, q)
  <2>1. ranks \subseteq Nat /\ ranks # {}
    BY <1>1
  <2>2. PICK least \in ranks : \A n \in ranks : least <= n
    BY <2>1, LeastElement
  <2> QED BY <2>2
<1>4. first \in BuildWhere(q) /\ Rank(first, q) >= skip
  BY QueriesAreTyped, <1>1 DEF FindMany
<1>5. \A row \in BuildWhere(q) : row.recordedAt \in Nat
  BY ServiceTimesAssumption DEF BuildWhere, Events
<1>6. newer(first) \cap rows = {}
  <2> SUFFICES ASSUME NEW row \in rows, row \in newer(first) PROVE FALSE
    OBVIOUS
  <2>1. newer(row) \in SUBSET newer(first) /\ row \notin newer(row)
    BY <1>4, <1>5
  <2>2. IsFiniteSet(newer(first))
    BY <1>2, FS_Subset
  <2>3. Cardinality(newer(row)) <= Cardinality(newer(first))
        /\ (Cardinality(newer(first)) = Cardinality(newer(row)) => newer(first) = newer(row))
    BY <2>1, <2>2, FS_Subset
  <2>4. Cardinality(newer(row)) = Rank(row, q) /\ Cardinality(newer(first)) = Rank(first, q)
    BY DEF Rank
  <2> QED BY <1>1, <1>3, <2>1, <2>3, <2>4
<1>7. rows \in SUBSET BuildWhere(q) /\ newer(first) \in SUBSET BuildWhere(q)
  BY DEF FindMany
<1>8. IsFiniteSet(rows) /\ IsFiniteSet(newer(first))
  BY <1>2, <1>7, FS_Subset
<1>9. Cardinality(newer(first) \cup rows) = Cardinality(newer(first)) + Cardinality(rows)
  <2>1. Cardinality(newer(first) \cup rows)
          = Cardinality(newer(first)) + Cardinality(rows) - Cardinality(newer(first) \cap rows)
    BY <1>8, FS_Union
  <2>2. Cardinality(newer(first) \cap rows) = 0
    BY <1>6, FS_EmptySet
  <2>3. Cardinality(newer(first)) \in Nat /\ Cardinality(rows) \in Nat
    BY <1>8, FS_CardinalityType
  <2> QED BY <2>1, <2>2, <2>3
<1>10. Cardinality(newer(first) \cup rows) <= Count(q)
  <2>1. newer(first) \cup rows \in SUBSET BuildWhere(q)
    BY <1>7
  <2> QED BY <1>2, <2>1, FS_Subset DEF Count
<1>11. Cardinality(newer(first)) = Rank(first, q) /\ Cardinality(rows) \in Nat
  BY <1>8, FS_CardinalityType DEF Rank
<1> QED BY <1>1, <1>2, <1>4, <1>9, <1>10, <1>11

\* Inserts between the two statements only add to the count.
LEMMA CountsGrow ==
    ASSUME Inv, Inv', events \subseteq events', NEW q
    PROVE  Count(q) \in Nat /\ Count(q)' \in Nat /\ Count(q) <= Count(q)'
<1>1. IsFiniteSet(events')
  BY DEF Inv, TablesInv, TypeOK
<1>2. BuildWhere(q) \subseteq BuildWhere(q)' /\ BuildWhere(q)' \in SUBSET events'
  BY <1>1, RanksGrow DEF BuildWhere
<1>3. IsFiniteSet(BuildWhere(q)')
  BY <1>1, <1>2, FS_Subset
<1>4. Cardinality(BuildWhere(q)) <= Cardinality(BuildWhere(q)') /\ IsFiniteSet(BuildWhere(q))
  BY <1>2, <1>3, FS_Subset
<1>5. Cardinality(BuildWhere(q)) \in Nat /\ Cardinality(BuildWhere(q)') \in Nat
  BY <1>3, <1>4, FS_CardinalityType
<1> QED BY <1>4, <1>5 DEF Count

\* A page is a finite set of rows.
LEMMA PagesAreFinite ==
    ASSUME Inv, NEW g \in Gets, getPc[g] # "idle", PageCounted(g)
    PROVE  IsFiniteSet(page[g]) /\ Cardinality(page[g]) \in Nat
<1>1. page[g] \in SUBSET events
  BY DEF Inv, GetInv, GetKind, GetShown, Queries, PageCounted, BuildWhere
<1>2. IsFiniteSet(events)
  BY DEF Inv, TablesInv, TypeOK
<1>3. IsFiniteSet(page[g])
  BY <1>1, <1>2, FS_Subset
<1> QED BY <1>3, FS_CardinalityType

\* A step of another GET, or of the tables and the POSTs, leaves this GET alone.
LEMMA WaitingKeepsPageCounted ==
    ASSUME Inv, Inv', events \subseteq events', NEW g \in Gets, PageCounted(g),
           UNCHANGED <<getPc[g], query[g], offset[g], page[g], total[g]>>
    PROVE  PageCounted(g)'
<1> PICK q : q = query[g]
  OBVIOUS
<1>1. Count(query[g])' = Count(q)' /\ Count(q) <= Count(q)' /\ Count(q) \in Nat /\ Count(q)' \in Nat
  <2>1. Count(query[g])' = Count(q)'
    BY Zenon DEF Count, BuildWhere
  <2> QED BY <2>1, CountsGrow
<1>2. getPc[g] # "idle" => Cardinality(page[g]) \in Nat
  BY PagesAreFinite
<1>3. offset[g] \in Nat
  BY DEF Inv, TablesInv, TypeOK
<1> QED BY <1>1, <1>2, <1>3 DEF PageCounted

\* The steps of a GET: the count comes after the page and covers it.
LEMMA GetStepKeepsPageCounted ==
    ASSUME Inv, Inv', NEW g \in Gets, PageCounted(g), GetStep(g)
    PROVE  PageCounted(g)'
<1>1. UNCHANGED events
  BY DEF GetStep, Ask, CheckOwner, ReadPage, CountRows, NextPage, ReadDevices, ReadAlerts, GetFails, tableVars
<1>2. \A q : BuildWhere(q)' = BuildWhere(q)
  BY <1>1 DEF BuildWhere
<1>3. \A q : Count(q)' = Count(q)
  BY <1>2 DEF Count
<1> USE DEF PageCounted, GetGoto
<1>4. ASSUME NEW q \in Queries, Ask(g, q)
      PROVE  PageCounted(g)'
  <2>1. getPc[g] = "idle" /\ page'[g] = page[g] /\ page[g] = {}
    BY <1>4 DEF Ask, Inv, GetInv, GetKind
  <2> QED BY <2>1
<1>5. CASE CheckOwner(g)
  <2>1. getPc[g] # "idle" /\ getPc'[g] \notin {"count", "ok"} /\ UNCHANGED <<page, query>>
    BY <1>5 DEF CheckOwner, Inv, TablesInv, TypeOK
  <2> QED BY <2>1
<1>6. CASE ReadPage(g)
  <2>1. /\ getPc'[g] = "count" /\ page'[g] = FindMany(query[g], offset[g]) /\ UNCHANGED <<query, offset>>
        /\ query[g] \in HistoryQueries /\ offset[g] \in Nat
    BY <1>6 DEF ReadPage, Inv, TablesInv, TypeOK, GetInv, GetKind
  <2>2. query[g] \notin ListQueries
    BY <2>1, QueriesAreTyped
  <2>3. page'[g] # {} => Count(query[g]) >= offset[g] + Cardinality(page'[g])
    BY <2>1, PagesFit DEF Inv, TablesInv, TypeOK
  <2> QED BY <1>3, <2>1, <2>2, <2>3
<1>7. CASE CountRows(g)
  <2>1. /\ getPc[g] = "count" /\ getPc'[g] = "ok" /\ total'[g] = Count(query[g])
        /\ UNCHANGED <<query, offset, page>>
    BY <1>7 DEF CountRows, Inv, TablesInv, TypeOK
  <2> QED BY <2>1
<1>8. CASE NextPage(g)
  <2>1. getPc[g] = "ok" /\ getPc'[g] = "findOwnedById" /\ UNCHANGED <<page, query>>
    BY <1>8 DEF NextPage, Inv, TablesInv, TypeOK
  <2> QED BY <2>1
<1>9. CASE ReadDevices(g) \/ ReadAlerts(g)
  <2>1. getPc[g] \in {"findByOwnerId", "findActive"} /\ UNCHANGED <<page, query>>
    BY <1>9 DEF ReadDevices, ReadAlerts
  <2>2. query[g] \in ListQueries
    BY <2>1 DEF Inv, GetInv, GetKind
  <2> QED BY <2>1, <2>2
<1>10. CASE GetFails(g)
  <2>1. getPc[g] # "idle" /\ getPc'[g] = "failed" /\ UNCHANGED <<page, query>>
    BY <1>10 DEF GetFails, GetSteps, Inv, TablesInv, TypeOK
  <2> QED BY <2>1
<1> QED BY <1>4, <1>5, <1>6, <1>7, <1>8, <1>9, <1>10 DEF GetStep, Queries

\* The count of a page is taken after the page: it is never less than the rows up
\* to the end of the page, whatever is inserted between the two statements.
THEOREM TotalsCoverPages == Spec => []TotalCoversPage
<1> DEFINE PagesCounted == \A g \in Gets : PageCounted(g)
<1>1. Init => PagesCounted
  BY DEF Init, PageCounted
<1>2. ASSUME Inv, Inv', PagesCounted, [Next]_vars
      PROVE  PagesCounted'
  <2> SUFFICES ASSUME NEW g \in Gets PROVE PageCounted(g)'
    OBVIOUS
  <2>1. events \subseteq events'
    <3>1. ASSUME NEW h \in Gets, GetStep(h) PROVE UNCHANGED events
      BY <3>1 DEF GetStep, Ask, CheckOwner, ReadPage, CountRows, NextPage, ReadDevices, ReadAlerts, GetFails,
                  tableVars
    <3>2. ASSUME NEW r \in Registrations, Registration(r) PROVE UNCHANGED events
      BY <3>2 DEF Registration
    <3>3. ASSUME NEW p \in Posts, Store(p) PROVE events \subseteq events'
      BY <3>3 DEF Store
    <3>4. ASSUME NEW p \in Posts, PostStep(p), ~Store(p) PROVE UNCHANGED events
      BY <3>4 DEF PostStep, Accept, PublishVerdicts, PostCrash, tableVars
    <3>5. HandleVerdict \/ UNCHANGED vars => UNCHANGED events
      BY DEF HandleVerdict, vars, tableVars
    <3> QED BY <1>2, <3>1, <3>2, <3>3, <3>4, <3>5 DEF Next
  <2>2. CASE GetStep(g)
    BY <1>2, <2>2, GetStepKeepsPageCounted
  <2>3. CASE ~GetStep(g)
    <3>1. UNCHANGED <<getPc[g], query[g], offset[g], page[g], total[g]>>
      <4>1. ASSUME NEW h \in Gets, GetStep(h), h # g
            PROVE  UNCHANGED <<getPc[g], query[g], offset[g], page[g], total[g]>>
        BY <1>2, <4>1 DEF GetStep, Ask, CheckOwner, ReadPage, CountRows, NextPage, ReadDevices, ReadAlerts,
                          GetFails, GetGoto, Inv, TablesInv, TypeOK
      <4>2. ASSUME NEW r \in Registrations, Registration(r) PROVE UNCHANGED <<getPc, query, offset, page, total>>
        BY <4>2 DEF Registration
      <4>3. ASSUME NEW p \in Posts, PostStep(p) PROVE UNCHANGED <<getPc, query, offset, page, total>>
        BY <4>3 DEF PostStep, Accept, Store, PublishVerdicts, PostCrash, getVars
      <4>4. HandleVerdict \/ UNCHANGED vars => UNCHANGED <<getPc, query, offset, page, total>>
        BY DEF HandleVerdict, vars, getVars
      <4> QED BY <1>2, <2>3, <4>1, <4>2, <4>3, <4>4 DEF Next
    <3> QED BY <1>2, <2>1, <3>1, WaitingKeepsPageCounted
  <2> QED BY <2>2, <2>3
<1>3. PagesCounted => TotalCoversPage
  BY DEF PageCounted, TotalCoversPage
<1> QED BY <1>1, <1>2, <1>3, ServiceInvariance, PTL DEF Spec
==============================================================================
