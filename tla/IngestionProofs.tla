--------------------------- MODULE IngestionProofs ---------------------------
(***************************************************************************)
(* Proofs that the properties of Ingestion hold for any number of devices, *)
(* callers, requests and faults.                                           *)
(***************************************************************************)
EXTENDS Ingestion, FiniteSetTheorems, TLAPS

\* A request has a command of its kind from the moment it is received.
CommandsAreKnown ==
    /\ \A p \in Posts : /\ pc[p] \notin GetSteps
                        /\ pc[p] # "idle" => cmd[p] \in Commands
    /\ \A g \in Gets : /\ pc[g] \notin PostSteps
                       /\ pc[g] # "idle" => cmd[g] \in Queries

\* Nothing is published or answered for a request before its last step, and no
\* budget is charged for one that was not received.
NothingBeforeAnswer ==
    /\ \A p \in Posts : /\ pc[p] = "idle" => p \notin charged
                        /\ pc[p] # "answered" => p \notin published /\ receipt[p] = None
    /\ \A g \in Gets : pc[g] # "answered" => view[g] = None

\* Ownership is proven before anything else is done.
OwnershipProven ==
    /\ \A p \in Posts : pc[p] \in PostSteps \ {"getById"} \/ p \in charged => OwnedByCaller(p)
    /\ \A g \in Gets : pc[g] \in GetSteps \ {"findOwnedById"} => OwnedByCaller(g)

KeysAreUnique == \A a, b \in telemetry : SameKey(a, b) => a = b

\* A row is the reading of the request it is named after, which is past save.
RowsAreReadings ==
    \A row \in telemetry :
        /\ row = Reading(row.id)
        /\ OwnedByCaller(row.id)
        /\ pc[row.id] \notin {"idle", "getById", "consume", "save", "existingIdFor"}

\* The steps after save, and what they publish, are about a stored reading; a
\* duplicate has a row that holds its key.
StoredBeforeEffects ==
    /\ \A p \in Posts : pc[p] \in {"isSupersededBy", "saveLatest", "publishAll"} \/ p \in published
                        => Reading(p) \in telemetry
    /\ \A p \in Posts : pc[p] = "existingIdFor" => \E row \in telemetry : SameKey(row, Reading(p))

\* A GET repopulates the cache with the state of a stored reading.
HeldIsStored ==
    \A g \in Gets : pc[g] = "repopulate" =>
        \E row \in telemetry : row.deviceId = cmd[g].deviceId /\ StateOf(row) = held[g]

IInv ==
    /\ TypeOK
    /\ CommandsAreKnown
    /\ NothingBeforeAnswer
    /\ OwnershipProven
    /\ KeysAreUnique
    /\ RowsAreReadings
    /\ StoredBeforeEffects
    /\ HeldIsStored
    /\ ReceiptNamesStoredRow
    /\ StatesAreStoredReadings

------------------------------------------------------------------------------
(* Facts the steps share.                                                  *)

\* The row that a received POST would insert is a row, and its state a state.
LEMMA ReadingIsRow ==
    ASSUME TypeOK, CommandsAreKnown, NEW p \in Posts, pc[p] # "idle"
    PROVE  Reading(p) \in Rows /\ StateOf(Reading(p)) \in States
BY DEF CommandsAreKnown, Reading, StateOf, Rows, States, Commands

\* The state of a row is a state.
LEMMA StateOfRow ==
    ASSUME NEW row \in Rows
    PROVE  StateOf(row) \in States
BY DEF StateOf, Rows, States

\* A step that gives request r its command disturbs no other request.
LEMMA OtherCommands ==
    ASSUME TypeOK, NEW r \in Posts \cup Gets, NEW c, cmd' = [cmd EXCEPT ![r] = c],
           NEW s \in Posts \cup Gets, s # r
    PROVE  cmd'[s] = cmd[s] /\ Reading(s)' = Reading(s) /\ (OwnedByCaller(s)' <=> OwnedByCaller(s))
BY DEF TypeOK, Reading, OwnedByCaller

------------------------------------------------------------------------------
(* POST /devices/:id/telemetry                                             *)

LEMMA ReceivePostPreserves ==
    ASSUME IInv, NEW p \in Posts, NEW c \in Commands, ReceivePost(p, c)
    PROVE  IInv'
<1> USE RequestsAssumption, NoneAssumption DEF IInv, ReceivePost, Goto, PostSteps, GetSteps
<1>0. \A s \in Posts \cup Gets : s # p =>
         /\ cmd'[s] = cmd[s] /\ pc'[s] = pc[s]
         /\ Reading(s)' = Reading(s)
         /\ OwnedByCaller(s)' <=> OwnedByCaller(s)
  BY OtherCommands DEF TypeOK
<1>1. pc[p] = "idle" /\ pc'[p] = "getById" /\ cmd'[p] = c
  BY DEF TypeOK
<1>2. TypeOK' /\ CommandsAreKnown'
  BY DEF TypeOK, CommandsAreKnown
<1>3. NothingBeforeAnswer' /\ KeysAreUnique' /\ HeldIsStored'
  BY <1>0, <1>1 DEF TypeOK, NothingBeforeAnswer, KeysAreUnique, HeldIsStored, SameKey, StateOf
<1>4. OwnershipProven'
  BY <1>0, <1>1 DEF OwnershipProven, NothingBeforeAnswer
<1>5. RowsAreReadings'
  <2> SUFFICES ASSUME NEW row \in telemetry
      PROVE /\ row = Reading(row.id)'
            /\ OwnedByCaller(row.id)'
            /\ pc'[row.id] \notin {"idle", "getById", "consume", "save", "existingIdFor"}
    BY DEF RowsAreReadings
  <2>1. row.id \in Posts /\ row.id # p
    BY <1>1 DEF TypeOK, Rows, RowsAreReadings
  <2> QED BY <2>1, <1>0 DEF RowsAreReadings
<1>6. StoredBeforeEffects'
  BY <1>0, <1>1 DEF StoredBeforeEffects, NothingBeforeAnswer
<1>7. ReceiptNamesStoredRow'
  BY <1>0, <1>1 DEF ReceiptNamesStoredRow, Accepted, NothingBeforeAnswer, SameKey
<1>8. StatesAreStoredReadings'
  BY <1>0, <1>1 DEF StatesAreStoredReadings, StateOf, TypeOK
<1> QED BY <1>2, <1>3, <1>4, <1>5, <1>6, <1>7, <1>8

LEMMA GetByIdPreserves ==
    ASSUME IInv, NEW p \in Posts, GetById(p)
    PROVE  IInv'
<1> USE RequestsAssumption, NoneAssumption DEF IInv, TypeOK, GetById, Answer, Fail, Goto, PostSteps, GetSteps
<1>1. TypeOK'
  BY DEF Receipts
<1>2. CommandsAreKnown' /\ NothingBeforeAnswer' /\ KeysAreUnique' /\ HeldIsStored'
  BY DEF CommandsAreKnown, NothingBeforeAnswer, KeysAreUnique, HeldIsStored, SameKey, StateOf
<1>3. OwnershipProven' /\ StoredBeforeEffects' /\ RowsAreReadings'
  BY DEF OwnershipProven, OwnedByCaller, StoredBeforeEffects, RowsAreReadings, Rows, Reading
<1>4. ReceiptNamesStoredRow' /\ StatesAreStoredReadings'
  BY DEF ReceiptNamesStoredRow, Accepted, SameKey, Reading, StatesAreStoredReadings, StateOf, OwnedByCaller
<1> QED BY <1>1, <1>2, <1>3, <1>4

LEMMA ConsumePreserves ==
    ASSUME IInv, NEW p \in Posts, Consume(p)
    PROVE  IInv'
<1> USE RequestsAssumption, NoneAssumption DEF IInv, TypeOK, Consume, Answer, Fail, Goto, PostSteps, GetSteps
<1>1. TypeOK'
  BY DEF Receipts
<1>2. CommandsAreKnown' /\ NothingBeforeAnswer' /\ KeysAreUnique' /\ HeldIsStored'
  BY DEF CommandsAreKnown, NothingBeforeAnswer, KeysAreUnique, HeldIsStored, SameKey, StateOf
<1>3. OwnershipProven'
  <2>1. OwnedByCaller(p)
    BY DEF OwnershipProven
  <2>2. \A r \in Posts \cup Gets : OwnedByCaller(r)' <=> OwnedByCaller(r)
    BY DEF OwnedByCaller
  <2> QED BY <2>1, <2>2 DEF OwnershipProven
<1>4. StoredBeforeEffects' /\ RowsAreReadings'
  BY DEF OwnedByCaller, StoredBeforeEffects, RowsAreReadings, Rows, Reading
<1>5. ReceiptNamesStoredRow' /\ StatesAreStoredReadings'
  BY DEF ReceiptNamesStoredRow, Accepted, SameKey, Reading, StatesAreStoredReadings, StateOf, OwnedByCaller
<1> QED BY <1>1, <1>2, <1>3, <1>4, <1>5

\* The one step that adds a row.
LEMMA SavePreserves ==
    ASSUME IInv, NEW p \in Posts, Save(p)
    PROVE  IInv'
<1> USE RequestsAssumption, NoneAssumption DEF IInv, Save, Answer, Fail, Goto, PostSteps, GetSteps
<1>1. pc[p] = "save" /\ Reading(p) \in Rows /\ Reading(p).id = p
  BY ReadingIsRow DEF Reading
<1>2. \A r \in Posts \cup Gets : Reading(r)' = Reading(r) /\ (OwnedByCaller(r)' <=> OwnedByCaller(r))
  BY DEF Reading, OwnedByCaller
<1>3. TypeOK'
  BY <1>1 DEF TypeOK, Receipts
<1>4. telemetry \subseteq telemetry' /\ telemetry' \subseteq telemetry \cup {Reading(p)}
  OBVIOUS
<1>5. CommandsAreKnown' /\ NothingBeforeAnswer'
  BY DEF TypeOK, CommandsAreKnown, NothingBeforeAnswer
<1>6. OwnershipProven'
  BY <1>2 DEF TypeOK, OwnershipProven
<1>7. KeysAreUnique'
  BY <1>4 DEF KeysAreUnique, SameKey
<1>8. RowsAreReadings'
  <2>1. Reading(p) \in telemetry' => pc'[p] \in {"isSupersededBy", "answered"}
    BY <1>1 DEF TypeOK, RowsAreReadings
  <2>2. OwnedByCaller(p)
    BY DEF OwnershipProven
  <2>3. \A row \in telemetry : row.id \in Posts /\ row.id # p
    BY DEF TypeOK, Rows, RowsAreReadings
  <2> QED BY <1>1, <1>2, <1>4, <2>1, <2>2, <2>3 DEF TypeOK, RowsAreReadings
<1>9. StoredBeforeEffects'
  BY <1>1, <1>2, <1>4 DEF TypeOK, StoredBeforeEffects
<1>10. HeldIsStored' /\ StatesAreStoredReadings'
  BY <1>2, <1>4 DEF TypeOK, HeldIsStored, StatesAreStoredReadings, StateOf
<1>11. ReceiptNamesStoredRow'
  BY <1>2, <1>4 DEF TypeOK, ReceiptNamesStoredRow, Accepted, SameKey
<1> QED BY <1>3, <1>5, <1>6, <1>7, <1>8, <1>9, <1>10, <1>11

\* The id in the receipt of a duplicate is that of the row which holds its key.
LEMMA DuplicateIsNamed ==
    ASSUME IInv, NEW p \in Posts, pc[p] = "existingIdFor", NEW id \in ExistingIds(p)
    PROVE  \E row \in telemetry : row.id = id /\ SameKey(row, Reading(p))
<1> DEFINE ids == {row.id : row \in {stored \in telemetry : SameKey(stored, Reading(p))}}
<1>1. ids # {}
  BY DEF IInv, StoredBeforeEffects
<1> QED BY <1>1 DEF ExistingIds

LEMMA ExistingIdForPreserves ==
    ASSUME IInv, NEW p \in Posts, ExistingIdFor(p)
    PROVE  IInv'
<1> USE RequestsAssumption, NoneAssumption DEF IInv, TypeOK, ExistingIdFor, Answer, Fail, Goto, PostSteps, GetSteps
<1>0. \A id \in ExistingIds(p) : id \in Posts /\ \E row \in telemetry : row.id = id /\ SameKey(row, Reading(p))
  BY DuplicateIsNamed DEF Rows
<1>1. TypeOK'
  BY <1>0 DEF Receipts
<1>2. CommandsAreKnown' /\ NothingBeforeAnswer' /\ KeysAreUnique' /\ HeldIsStored'
  BY DEF CommandsAreKnown, NothingBeforeAnswer, KeysAreUnique, HeldIsStored, SameKey, StateOf
<1>3. OwnershipProven' /\ StoredBeforeEffects' /\ RowsAreReadings'
  BY DEF OwnershipProven, OwnedByCaller, StoredBeforeEffects, RowsAreReadings, Rows, Reading
<1>4. ReceiptNamesStoredRow' /\ StatesAreStoredReadings'
  BY <1>0 DEF ReceiptNamesStoredRow, Accepted, SameKey, Reading, StatesAreStoredReadings, StateOf, OwnedByCaller
<1> QED BY <1>1, <1>2, <1>3, <1>4

LEMMA IsSupersededByPreserves ==
    ASSUME IInv, NEW p \in Posts, IsSupersededBy(p)
    PROVE  IInv'
<1> USE RequestsAssumption, NoneAssumption DEF IInv, TypeOK, IsSupersededBy, Goto, PostSteps, GetSteps
<1>1. TypeOK' /\ CommandsAreKnown' /\ NothingBeforeAnswer' /\ KeysAreUnique' /\ HeldIsStored'
  BY DEF CommandsAreKnown, NothingBeforeAnswer, KeysAreUnique, HeldIsStored, SameKey, StateOf
<1>2. OwnershipProven' /\ StoredBeforeEffects' /\ RowsAreReadings'
  BY DEF OwnershipProven, OwnedByCaller, StoredBeforeEffects, RowsAreReadings, Rows, Reading
<1>3. ReceiptNamesStoredRow' /\ StatesAreStoredReadings'
  BY DEF ReceiptNamesStoredRow, Accepted, SameKey, Reading, StatesAreStoredReadings, StateOf, OwnedByCaller
<1> QED BY <1>1, <1>2, <1>3

LEMMA SaveLatestPreserves ==
    ASSUME IInv, NEW p \in Posts, SaveLatest(p)
    PROVE  IInv'
<1> USE RequestsAssumption, NoneAssumption DEF IInv, SaveLatest, Goto, PostSteps, GetSteps
<1>1. /\ Reading(p) \in telemetry
      /\ StateOf(Reading(p)) \in States
      /\ cmd[p].deviceId \in Devices
      /\ Reading(p).deviceId = cmd[p].deviceId
  BY ReadingIsRow DEF StoredBeforeEffects, CommandsAreKnown, Commands, Reading
<1>2. TypeOK'
  BY <1>1 DEF TypeOK
<1>3. CommandsAreKnown' /\ NothingBeforeAnswer' /\ KeysAreUnique' /\ HeldIsStored'
  BY DEF TypeOK, CommandsAreKnown, NothingBeforeAnswer, KeysAreUnique, HeldIsStored, SameKey, StateOf
<1>4. OwnershipProven' /\ StoredBeforeEffects' /\ RowsAreReadings' /\ ReceiptNamesStoredRow'
  BY DEF TypeOK, OwnershipProven, OwnedByCaller, StoredBeforeEffects, RowsAreReadings, Rows, Reading,
         ReceiptNamesStoredRow, Accepted, SameKey
<1>5. StatesAreStoredReadings'
  <2>1. ASSUME NEW d \in Devices
        PROVE  cache'[d] = cache[d] \/ (d = cmd[p].deviceId /\ cache'[d] = StateOf(Reading(p)))
    <3>1. cache \in [Devices -> States \cup {None}]
      BY DEF TypeOK
    <3> QED BY <1>1, <3>1
  <2>2. \A g \in Gets : OwnedByCaller(g)' <=> OwnedByCaller(g)
    BY DEF OwnedByCaller
  <2> QED BY <1>1, <2>1, <2>2 DEF StatesAreStoredReadings, StateOf
<1> QED BY <1>2, <1>3, <1>4, <1>5

LEMMA PublishAllPreserves ==
    ASSUME IInv, NEW p \in Posts, PublishAll(p)
    PROVE  IInv'
<1> USE RequestsAssumption, NoneAssumption DEF IInv, PublishAll, Answer, Goto, PostSteps, GetSteps
<1>1. Reading(p) \in telemetry /\ Reading(p).id = p
  BY DEF StoredBeforeEffects, Reading
<1>2. \A r \in Posts \cup Gets : Reading(r)' = Reading(r) /\ (OwnedByCaller(r)' <=> OwnedByCaller(r))
  BY DEF Reading, OwnedByCaller
<1>3. TypeOK'
  BY DEF TypeOK, Receipts
<1>4. CommandsAreKnown' /\ NothingBeforeAnswer' /\ KeysAreUnique' /\ HeldIsStored'
  BY DEF TypeOK, CommandsAreKnown, NothingBeforeAnswer, KeysAreUnique, HeldIsStored, SameKey, StateOf
<1>5. OwnershipProven' /\ RowsAreReadings'
  BY <1>2 DEF TypeOK, OwnershipProven, RowsAreReadings, Rows
<1>6. StoredBeforeEffects'
  BY <1>1, <1>2 DEF TypeOK, StoredBeforeEffects
<1>7. ReceiptNamesStoredRow'
  <2>1. receipt'[p].id = p /\ SameKey(Reading(p), Reading(p))
    BY DEF TypeOK, SameKey
  <2>2. \A q \in Posts : q # p => receipt'[q] = receipt[q]
    BY DEF TypeOK
  <2>3. telemetry' = telemetry
    OBVIOUS
  <2> QED BY <1>1, <1>2, <2>1, <2>2, <2>3 DEF ReceiptNamesStoredRow, Accepted, SameKey
<1>8. StatesAreStoredReadings'
  BY <1>2 DEF StatesAreStoredReadings, StateOf
<1> QED BY <1>3, <1>4, <1>5, <1>6, <1>7, <1>8

------------------------------------------------------------------------------
(* GET /devices/:id/latest                                                 *)

LEMMA ReceiveGetPreserves ==
    ASSUME IInv, NEW g \in Gets, NEW q \in Queries, ReceiveGet(g, q)
    PROVE  IInv'
<1> USE RequestsAssumption, NoneAssumption DEF IInv, ReceiveGet, Goto, PostSteps, GetSteps
<1>0. \A s \in Posts \cup Gets : s # g =>
         /\ cmd'[s] = cmd[s] /\ pc'[s] = pc[s]
         /\ Reading(s)' = Reading(s)
         /\ OwnedByCaller(s)' <=> OwnedByCaller(s)
  BY OtherCommands DEF TypeOK
<1>1. pc[g] = "idle" /\ pc'[g] = "findOwnedById" /\ cmd'[g] = q
  BY DEF TypeOK
<1>2. TypeOK' /\ CommandsAreKnown'
  BY DEF TypeOK, CommandsAreKnown
<1>3. NothingBeforeAnswer' /\ KeysAreUnique' /\ HeldIsStored' /\ OwnershipProven'
  BY <1>0, <1>1 DEF TypeOK, NothingBeforeAnswer, KeysAreUnique, HeldIsStored, SameKey, StateOf, OwnershipProven
<1>4. RowsAreReadings' /\ StoredBeforeEffects' /\ ReceiptNamesStoredRow'
  BY <1>0 DEF TypeOK, Rows, RowsAreReadings, StoredBeforeEffects, ReceiptNamesStoredRow, Accepted, SameKey
<1>5. StatesAreStoredReadings'
  BY <1>0, <1>1 DEF StatesAreStoredReadings, StateOf, NothingBeforeAnswer
<1> QED BY <1>2, <1>3, <1>4, <1>5

LEMMA FindOwnedByIdPreserves ==
    ASSUME IInv, NEW g \in Gets, FindOwnedById(g)
    PROVE  IInv'
<1> USE RequestsAssumption, NoneAssumption DEF IInv, TypeOK, FindOwnedById, Show, Goto, PostSteps, GetSteps
<1>1. TypeOK'
  BY DEF Views
<1>2. CommandsAreKnown' /\ NothingBeforeAnswer' /\ KeysAreUnique' /\ HeldIsStored'
  BY DEF CommandsAreKnown, NothingBeforeAnswer, KeysAreUnique, HeldIsStored, SameKey, StateOf
<1>3. OwnershipProven' /\ StoredBeforeEffects' /\ RowsAreReadings'
  BY DEF OwnershipProven, OwnedByCaller, StoredBeforeEffects, RowsAreReadings, Rows, Reading
<1>4. ReceiptNamesStoredRow' /\ StatesAreStoredReadings'
  BY DEF ReceiptNamesStoredRow, Accepted, SameKey, Reading, StatesAreStoredReadings, StateOf, OwnedByCaller
<1> QED BY <1>1, <1>2, <1>3, <1>4

LEMMA FindLatestPreserves ==
    ASSUME IInv, NEW g \in Gets, FindLatest(g)
    PROVE  IInv'
<1> USE RequestsAssumption, NoneAssumption DEF IInv, FindLatest, Show, Goto, PostSteps, GetSteps
<1>1. OwnedByCaller(g) /\ cmd[g].deviceId \in Devices
  BY DEF OwnershipProven, CommandsAreKnown, Queries
<1>2. \A r \in Posts \cup Gets : Reading(r)' = Reading(r) /\ (OwnedByCaller(r)' <=> OwnedByCaller(r))
  BY DEF Reading, OwnedByCaller
<1>3. TypeOK'
  BY <1>1 DEF TypeOK, Views
<1>4. CommandsAreKnown' /\ NothingBeforeAnswer' /\ KeysAreUnique' /\ HeldIsStored'
  BY DEF TypeOK, CommandsAreKnown, NothingBeforeAnswer, KeysAreUnique, HeldIsStored, SameKey, StateOf
<1>5. OwnershipProven' /\ StoredBeforeEffects' /\ RowsAreReadings' /\ ReceiptNamesStoredRow'
  BY <1>2 DEF TypeOK, Rows, OwnershipProven, StoredBeforeEffects, RowsAreReadings, ReceiptNamesStoredRow, Accepted, SameKey
<1>6. StatesAreStoredReadings'
  <2>1. CASE UNCHANGED view
    BY <2>1, <1>2 DEF StatesAreStoredReadings, StateOf
  <2>2. CASE /\ cache[cmd[g].deviceId] # None
             /\ Show(g, 200, cache[cmd[g].deviceId], "HIT")
    BY <2>2, <1>1, <1>2 DEF TypeOK, StatesAreStoredReadings, StateOf
  <2> QED BY <2>1, <2>2
<1> QED BY <1>3, <1>4, <1>5, <1>6

LEMMA FindLatestByDeviceIdPreserves ==
    ASSUME IInv, NEW g \in Gets, FindLatestByDeviceId(g)
    PROVE  IInv'
<1> USE RequestsAssumption, NoneAssumption DEF IInv, FindLatestByDeviceId, Show, Goto, PostSteps, GetSteps
<1>1. \A row \in Latest(cmd[g].deviceId) :
         row \in telemetry /\ row.deviceId = cmd[g].deviceId /\ StateOf(row) \in States
  BY StateOfRow DEF Latest, TypeOK
<1>2. \A r \in Posts \cup Gets : Reading(r)' = Reading(r) /\ (OwnedByCaller(r)' <=> OwnedByCaller(r))
  BY DEF Reading, OwnedByCaller
<1>3. TypeOK'
  BY <1>1 DEF TypeOK, Views
<1>4. CommandsAreKnown' /\ NothingBeforeAnswer' /\ KeysAreUnique'
  BY DEF TypeOK, CommandsAreKnown, NothingBeforeAnswer, KeysAreUnique, SameKey
<1>5. OwnershipProven' /\ StoredBeforeEffects' /\ RowsAreReadings' /\ ReceiptNamesStoredRow'
  BY <1>2 DEF TypeOK, Rows, OwnershipProven, StoredBeforeEffects, RowsAreReadings, ReceiptNamesStoredRow, Accepted, SameKey
<1>6. HeldIsStored'
  <2>1. CASE \E row \in Latest(cmd[g].deviceId) : held' = [held EXCEPT ![g] = StateOf(row)]
    <3>1. PICK row \in telemetry : row.deviceId = cmd[g].deviceId /\ held' = [held EXCEPT ![g] = StateOf(row)]
      BY <2>1, <1>1
    <3>2. ASSUME NEW h \in Gets, pc'[h] = "repopulate"
          PROVE  \E r \in telemetry' : r.deviceId = cmd'[h].deviceId /\ StateOf(r) = held'[h]
      <4>1. CASE h = g
        BY <4>1, <3>1 DEF TypeOK
      <4>2. CASE h # g
        BY <4>2, <3>1, <3>2 DEF TypeOK, HeldIsStored
      <4> QED BY <4>1, <4>2
    <3> QED BY <3>2 DEF HeldIsStored, StateOf
  <2>2. CASE UNCHANGED held /\ pc'[g] # "repopulate"
    BY <2>2 DEF TypeOK, HeldIsStored, StateOf
  <2> QED BY <2>1, <2>2 DEF TypeOK
<1>7. StatesAreStoredReadings'
  BY <1>2 DEF TypeOK, StatesAreStoredReadings, StateOf
<1> QED BY <1>3, <1>4, <1>5, <1>6, <1>7

LEMMA RepopulatePreserves ==
    ASSUME IInv, NEW g \in Gets, Repopulate(g)
    PROVE  IInv'
<1> USE RequestsAssumption, NoneAssumption DEF IInv, Repopulate, Show, Goto, PostSteps, GetSteps
<1>1. PICK row \in telemetry : row.deviceId = cmd[g].deviceId /\ StateOf(row) = held[g]
  BY DEF HeldIsStored
<1>2. held[g] \in States /\ OwnedByCaller(g) /\ cmd[g].deviceId \in Devices
  BY <1>1, StateOfRow DEF TypeOK, OwnershipProven, CommandsAreKnown, Queries
<1>3. \A r \in Posts \cup Gets : Reading(r)' = Reading(r) /\ (OwnedByCaller(r)' <=> OwnedByCaller(r))
  BY DEF Reading, OwnedByCaller
<1>4. TypeOK'
  BY <1>2 DEF TypeOK, Views
<1>5. CommandsAreKnown' /\ NothingBeforeAnswer' /\ KeysAreUnique' /\ HeldIsStored'
  BY DEF TypeOK, CommandsAreKnown, NothingBeforeAnswer, KeysAreUnique, HeldIsStored, SameKey, StateOf
<1>6. OwnershipProven' /\ StoredBeforeEffects' /\ RowsAreReadings' /\ ReceiptNamesStoredRow'
  BY <1>3 DEF TypeOK, Rows, OwnershipProven, StoredBeforeEffects, RowsAreReadings, ReceiptNamesStoredRow, Accepted, SameKey
<1>7. StatesAreStoredReadings'
  <2>1. ASSUME NEW d \in Devices
        PROVE  cache'[d] = cache[d] \/ (d = cmd[g].deviceId /\ cache'[d] = StateOf(row))
    <3>1. cache \in [Devices -> States \cup {None}]
      BY DEF TypeOK
    <3> QED BY <1>1, <1>2, <3>1
  <2>2. ASSUME NEW h \in Gets
        PROVE  view'[h] = view[h] \/ (h = g /\ view'[h].state = StateOf(row))
    <3>1. view \in [Gets -> Views \cup {None}]
      BY DEF TypeOK
    <3> QED BY <1>1, <3>1
  <2> QED BY <1>1, <1>2, <1>3, <2>1, <2>2 DEF StatesAreStoredReadings, StateOf
<1> QED BY <1>4, <1>5, <1>6, <1>7

------------------------------------------------------------------------------
(* The environment, and the theorems.                                      *)

LEMMA ExpirePreserves ==
    ASSUME IInv, NEW d \in Devices, Expire(d)
    PROVE  IInv'
<1> USE DEF IInv, TypeOK, Expire, PostSteps, GetSteps
<1>1. TypeOK' /\ CommandsAreKnown' /\ NothingBeforeAnswer' /\ KeysAreUnique' /\ HeldIsStored'
  BY DEF CommandsAreKnown, NothingBeforeAnswer, KeysAreUnique, HeldIsStored, SameKey, StateOf
<1>2. OwnershipProven' /\ StoredBeforeEffects' /\ RowsAreReadings'
  BY DEF OwnershipProven, OwnedByCaller, StoredBeforeEffects, RowsAreReadings, Rows, Reading
<1>3. ReceiptNamesStoredRow' /\ StatesAreStoredReadings'
  BY DEF ReceiptNamesStoredRow, Accepted, SameKey, Reading, StatesAreStoredReadings, StateOf, OwnedByCaller
<1> QED BY <1>1, <1>2, <1>3

LEMMA CrashPreserves ==
    ASSUME IInv, NEW r \in Posts \cup Gets, Crash(r)
    PROVE  IInv'
<1> USE DEF IInv, TypeOK, Crash, InFlight, Goto, PostSteps, GetSteps
<1>1. TypeOK' /\ CommandsAreKnown' /\ NothingBeforeAnswer' /\ KeysAreUnique' /\ HeldIsStored'
  BY DEF CommandsAreKnown, NothingBeforeAnswer, KeysAreUnique, HeldIsStored, SameKey, StateOf
<1>2. OwnershipProven' /\ StoredBeforeEffects' /\ RowsAreReadings'
  BY DEF OwnershipProven, OwnedByCaller, StoredBeforeEffects, RowsAreReadings, Rows, Reading
<1>3. ReceiptNamesStoredRow' /\ StatesAreStoredReadings'
  BY DEF ReceiptNamesStoredRow, Accepted, SameKey, Reading, StatesAreStoredReadings, StateOf, OwnedByCaller
<1> QED BY <1>1, <1>2, <1>3

LEMMA StutterPreserves == IInv /\ UNCHANGED vars => IInv'
<1> SUFFICES ASSUME IInv, UNCHANGED vars PROVE IInv'
  OBVIOUS
<1> USE DEF IInv, vars
<1>1. TypeOK' /\ CommandsAreKnown' /\ NothingBeforeAnswer' /\ KeysAreUnique' /\ HeldIsStored'
  BY DEF TypeOK, CommandsAreKnown, NothingBeforeAnswer, KeysAreUnique, HeldIsStored, SameKey, StateOf
<1>2. OwnershipProven' /\ StoredBeforeEffects' /\ RowsAreReadings'
  BY DEF OwnershipProven, OwnedByCaller, StoredBeforeEffects, RowsAreReadings, Reading
<1>3. ReceiptNamesStoredRow' /\ StatesAreStoredReadings'
  BY DEF ReceiptNamesStoredRow, Accepted, SameKey, Reading, StatesAreStoredReadings, StateOf, OwnedByCaller
<1> QED BY <1>1, <1>2, <1>3

\* IInv holds initially, whatever the devices table holds and whatever may fail.
LEMMA InitIInv == Init => IInv
<1> SUFFICES ASSUME Init PROVE IInv
  OBVIOUS
<1> USE NoneAssumption DEF Init
<1>1. TypeOK
  BY DEF TypeOK
<1>2. CommandsAreKnown /\ NothingBeforeAnswer /\ OwnershipProven /\ HeldIsStored
  BY DEF CommandsAreKnown, NothingBeforeAnswer, OwnershipProven, HeldIsStored, PostSteps, GetSteps
<1>3. KeysAreUnique /\ RowsAreReadings /\ StoredBeforeEffects
  BY DEF KeysAreUnique, RowsAreReadings, StoredBeforeEffects
<1>4. ReceiptNamesStoredRow /\ StatesAreStoredReadings
  BY DEF ReceiptNamesStoredRow, Accepted, StatesAreStoredReadings
<1> QED BY <1>1, <1>2, <1>3, <1>4 DEF IInv

\* No step of a request, of the clock or of a dying process breaks IInv.
LEMMA NextPreserves == IInv /\ [Next]_vars => IInv'
<1> SUFFICES ASSUME IInv, [Next]_vars PROVE IInv'
  OBVIOUS
<1>1. ASSUME NEW p \in Posts, PostStep(p) PROVE IInv'
  BY <1>1, GetByIdPreserves, ConsumePreserves, SavePreserves, ExistingIdForPreserves,
     IsSupersededByPreserves, SaveLatestPreserves, PublishAllPreserves DEF PostStep
<1>2. ASSUME NEW g \in Gets, GetStep(g) PROVE IInv'
  BY <1>2, FindOwnedByIdPreserves, FindLatestPreserves, FindLatestByDeviceIdPreserves,
     RepopulatePreserves DEF GetStep
<1>3. CASE UNCHANGED vars
  BY <1>3, StutterPreserves
<1> QED
  BY <1>1, <1>2, <1>3, ReceivePostPreserves, ReceiveGetPreserves, ExpirePreserves,
     CrashPreserves DEF Next

\* IInv is an invariant of the service.
THEOREM Invariance == Spec => []IInv
<1> QED BY InitIInv, NextPreserves, PTL DEF Spec

\* Every variable keeps its type.
THEOREM TypeCorrect == Spec => []TypeOK
<1>1. IInv => TypeOK
  BY DEF IInv
<1> QED BY <1>1, Invariance, PTL

\* However many copies of a reading are sent, at once or one after another, and
\* whatever fails between two steps, its verdicts are published at most once.
THEOREM AtMostOnceEffects == Spec => []EffectsAtMostOnce
<1>1. IInv => EffectsAtMostOnce
  <2> SUFFICES ASSUME IInv, NEW p \in published, NEW q \in published, SameKey(Reading(p), Reading(q))
               PROVE  p = q
    BY DEF EffectsAtMostOnce
  <2>1. p \in Posts /\ q \in Posts
    BY DEF IInv, TypeOK
  <2>2. Reading(p) \in telemetry /\ Reading(q) \in telemetry
    BY <2>1 DEF IInv, StoredBeforeEffects
  <2>3. Reading(p) = Reading(q)
    BY <2>2 DEF IInv, KeysAreUnique
  <2> QED BY <2>3 DEF Reading
<1> QED BY <1>1, Invariance, PTL

\* A receipt always names the row stored for the reading's device and time.
THEOREM ReceiptsAreHonest == Spec => []ReceiptNamesStoredRow
<1>1. IInv => ReceiptNamesStoredRow
  BY DEF IInv
<1> QED BY <1>1, Invariance, PTL

\* Cached and reported states are those of stored readings, and only owners see
\* them, in spite of every race between writers, readers and expiry.
THEOREM CacheIsDerived == Spec => []StatesAreStoredReadings
<1>1. IInv => StatesAreStoredReadings
  BY DEF IInv
<1> QED BY <1>1, Invariance, PTL

\* A caller who does not own a device leaves no trace on it.
THEOREM StrangersAreHarmless == Spec => []StrangersLeaveNoTrace
<1>1. IInv => StrangersLeaveNoTrace
  <2> SUFFICES ASSUME IInv, NEW p \in charged \cup published \cup {row.id : row \in telemetry}
               PROVE  OwnedByCaller(p)
    BY DEF StrangersLeaveNoTrace
  <2>1. CASE p \in charged
    BY <2>1 DEF IInv, TypeOK, OwnershipProven
  <2>2. CASE p \in {row.id : row \in telemetry}
    BY <2>2 DEF IInv, RowsAreReadings
  <2>3. CASE p \in published
    <3>1. p \in Posts /\ Reading(p) \in telemetry /\ Reading(p).id = p
      BY <2>3 DEF IInv, TypeOK, StoredBeforeEffects, Reading
    <3> QED BY <3>1 DEF IInv, RowsAreReadings
  <2> QED BY <2>1, <2>2, <2>3
<1> QED BY <1>1, Invariance, PTL

\* A step touches the progress and the receipt of one request only.
LEMMA OneRequestMoves ==
    ASSUME IInv, [Next]_vars, NEW p \in Posts, pc[p] # "idle"
    PROVE  \/ PostStep(p) \/ Crash(p)
           \/ pc'[p] = pc[p] /\ receipt'[p] = receipt[p]
<1> USE RequestsAssumption DEF IInv, TypeOK, Goto
<1>1. ASSUME NEW q \in Posts, PostStep(q), q # p
      PROVE  pc'[p] = pc[p] /\ receipt'[p] = receipt[p]
  BY <1>1 DEF PostStep, GetById, Consume, Save, ExistingIdFor, IsSupersededBy, SaveLatest, PublishAll,
              Fail, Answer
<1>2. ASSUME NEW q \in Posts, NEW c \in Commands, ReceivePost(q, c)
      PROVE  pc'[p] = pc[p] /\ receipt'[p] = receipt[p]
  BY <1>2 DEF ReceivePost
<1>3. ASSUME NEW g \in Gets, GetStep(g)
      PROVE  pc'[p] = pc[p] /\ receipt'[p] = receipt[p]
  BY <1>3 DEF GetStep, FindOwnedById, FindLatest, FindLatestByDeviceId, Repopulate, Show
<1>4. ASSUME NEW g \in Gets, NEW q \in Queries, ReceiveGet(g, q)
      PROVE  pc'[p] = pc[p] /\ receipt'[p] = receipt[p]
  BY <1>4 DEF ReceiveGet
<1>5. ASSUME NEW d \in Devices, Expire(d)
      PROVE  pc'[p] = pc[p] /\ receipt'[p] = receipt[p]
  BY <1>5 DEF Expire
<1>6. ASSUME NEW r \in Posts \cup Gets, Crash(r), r # p
      PROVE  pc'[p] = pc[p] /\ receipt'[p] = receipt[p]
  BY <1>6 DEF Crash
<1>7. CASE UNCHANGED vars
  BY <1>7 DEF vars
<1> QED BY <1>1, <1>2, <1>3, <1>4, <1>5, <1>6, <1>7 DEF Next

LEMMA EffectsMissPreserved ==
    ASSUME IInv, EffectsMissOnlyAfterFailure, [Next]_vars
    PROVE  EffectsMissOnlyAfterFailure'
<1> SUFFICES ASSUME NEW row \in telemetry'
             PROVE  (row.id \in published \/ InFlight(row.id) \/ pc[row.id] = "lost" \/ ToldFailure(row.id))'
  BY DEF EffectsMissOnlyAfterFailure
<1>1. CASE row \notin telemetry
  <2>1. PICK p \in Posts : Save(p)
    BY <1>1 DEF Next, PostStep, GetStep, ReceivePost, GetById, Consume, ExistingIdFor, IsSupersededBy,
                SaveLatest, PublishAll, ReceiveGet, FindOwnedById, FindLatest, FindLatestByDeviceId,
                Repopulate, Expire, Crash, vars
  <2>2. row.id = p
    BY <1>1, <2>1 DEF Save, Reading
  <2>3. CASE Goto(p, "isSupersededBy")
    BY <2>2, <2>3 DEF IInv, TypeOK, Goto, InFlight, PostSteps
  <2>4. CASE Fail(p, 500)
    BY <2>2, <2>4, NoneAssumption DEF IInv, TypeOK, Fail, Answer, ToldFailure, Receipts
  <2> QED BY <1>1, <2>1, <2>3, <2>4 DEF Save
<1>2. CASE row \in telemetry
  <2>0. PICK p \in Posts : p = row.id
    BY <1>2 DEF IInv, TypeOK, Rows
  <2> SUFFICES (p \in published \/ InFlight(p) \/ pc[p] = "lost" \/ ToldFailure(p))'
    BY <2>0
  <2>1. /\ pc[p] \notin {"idle", "getById", "consume", "save", "existingIdFor"}
        /\ p \in published \/ InFlight(p) \/ pc[p] = "lost" \/ ToldFailure(p)
    BY <1>2, <2>0 DEF IInv, RowsAreReadings, EffectsMissOnlyAfterFailure
  <2>2. published \subseteq published'
    BY DEF Next, PostStep, GetStep, ReceivePost, GetById, Consume, Save, ExistingIdFor, IsSupersededBy,
           SaveLatest, PublishAll, ReceiveGet, FindOwnedById, FindLatest, FindLatestByDeviceId,
           Repopulate, Expire, Crash, vars
  <2>3. CASE Crash(p)
    BY <2>1, <2>3 DEF IInv, TypeOK, Crash, Goto
  <2>4. CASE pc'[p] = pc[p] /\ receipt'[p] = receipt[p]
    BY <2>1, <2>2, <2>4 DEF InFlight, ToldFailure
  <2>5. CASE PostStep(p)
    <3>1. IsSupersededBy(p) \/ SaveLatest(p) \/ PublishAll(p)
      BY <2>1, <2>5 DEF PostStep, GetById, Consume, Save, ExistingIdFor
    <3> QED BY <2>1, <3>1 DEF IInv, TypeOK, IsSupersededBy, SaveLatest, PublishAll, Goto, InFlight, PostSteps
  <2> QED BY <2>1, <2>3, <2>4, <2>5, OneRequestMoves
<1> QED BY <1>1, <1>2

\* The side effects of a stored reading are lost only with the request that
\* stored it, or when that request was told 5xx after the insert.
THEOREM EffectsMissNarrowly == Spec => []EffectsMissOnlyAfterFailure
<1>1. Init => EffectsMissOnlyAfterFailure
  BY DEF Init, EffectsMissOnlyAfterFailure
<1>2. IInv /\ EffectsMissOnlyAfterFailure /\ [Next]_vars => EffectsMissOnlyAfterFailure'
  BY EffectsMissPreserved
<1> QED BY <1>1, <1>2, Invariance, PTL DEF Spec

\* Once the insert is known to have succeeded the device is told 201, whatever
\* Redis does.
THEOREM StoredIsAnswered201 == Spec => StoredIsAcknowledged
<1>1. IInv /\ [Next]_vars =>
        [\A p \in Posts :
            pc[p] \in {"isSupersededBy", "saveLatest", "publishAll"} /\ pc'[p] = "answered"
                => receipt'[p].status = 201]_vars
  <2> SUFFICES ASSUME IInv, [Next]_vars, NEW p \in Posts,
                      pc[p] \in {"isSupersededBy", "saveLatest", "publishAll"}, pc'[p] = "answered"
               PROVE  receipt'[p].status = 201
    OBVIOUS
  <2>1. PostStep(p)
    BY OneRequestMoves DEF IInv, TypeOK, Crash, Goto
  <2>2. PublishAll(p)
    BY <2>1 DEF IInv, TypeOK, PostStep, GetById, Consume, Save, ExistingIdFor, IsSupersededBy, SaveLatest, Goto
  <2> QED BY <2>2 DEF IInv, TypeOK, PublishAll, Answer
<1> QED BY <1>1, Invariance, PTL DEF Spec, StoredIsAcknowledged

------------------------------------------------------------------------------
(* The refinement of ReadingLog.                                           *)

\* What the refinement mapping makes of published and receipt.
Effects == {Reading(p) : p \in published}

\* A row is acknowledged exactly by the receipts that carry its id.
LEMMA AcknowledgedRow ==
    ASSUME IInv, NEW row \in telemetry
    PROVE  row \in Acknowledged <=> \E p \in Posts : Accepted(p) /\ receipt[p].id = row.id
BY DEF Acknowledged

\* A step that stores nothing, publishes nothing and gives no receipt stutters.
LEMMA QuietStep ==
    ASSUME IInv,
           UNCHANGED <<telemetry, published>>,
           \A p \in published : Reading(p)' = Reading(p),
           \A p \in Posts : Accepted(p)' <=> Accepted(p),
           \A p \in Posts : Accepted(p) => receipt'[p].id = receipt[p].id
    PROVE  UNCHANGED Log!logVars
<1>1. Effects' = Effects
  BY DEF Effects
<1>2. Acknowledged' = Acknowledged
  BY DEF Acknowledged
<1> QED BY <1>1, <1>2 DEF Log!logVars, Effects

\* Steps that change neither a command nor a receipt nor the two logs.
LEMMA SilentStep ==
    ASSUME IInv, UNCHANGED <<telemetry, published, cmd, receipt>>
    PROVE  UNCHANGED Log!logVars
BY QuietStep DEF Reading, Accepted

LEMMA ReceivePostRefines ==
    ASSUME IInv, NEW p \in Posts, NEW c \in Commands, ReceivePost(p, c)
    PROVE  UNCHANGED Log!logVars
<1>1. p \notin published
  BY DEF IInv, ReceivePost, NothingBeforeAnswer
<1>2. \A q \in published : Reading(q)' = Reading(q)
  BY <1>1, OtherCommands DEF ReceivePost, IInv, TypeOK
<1> QED BY <1>2, QuietStep DEF ReceivePost, Accepted

LEMMA ReceiveGetRefines ==
    ASSUME IInv, NEW g \in Gets, NEW q \in Queries, ReceiveGet(g, q)
    PROVE  UNCHANGED Log!logVars
<1>1. \A p \in published : Reading(p)' = Reading(p)
  BY OtherCommands, RequestsAssumption DEF ReceiveGet, IInv, TypeOK
<1> QED BY <1>1, QuietStep DEF ReceiveGet, Accepted

\* Steps that at most tell a POST that it failed.
LEMMA FailingStep ==
    ASSUME IInv, NEW p \in Posts, pc[p] # "answered", UNCHANGED <<telemetry, published, cmd>>,
           \/ UNCHANGED receipt
           \/ \E status \in {400, 404, 429, 500} : Fail(p, status)
    PROVE  UNCHANGED Log!logVars
<1>1. receipt[p] = None
  BY DEF IInv, NothingBeforeAnswer
<1>2. \A q \in Posts : Accepted(q)' <=> Accepted(q)
  BY <1>1 DEF IInv, TypeOK, Accepted, Fail, Answer
<1>3. \A q \in Posts : Accepted(q) => receipt'[q].id = receipt[q].id
  BY <1>1 DEF IInv, TypeOK, Accepted, Fail, Answer
<1> QED BY <1>2, <1>3, QuietStep DEF Reading

\* The INSERT appends to the log.
LEMMA SaveRefines ==
    ASSUME IInv, NEW p \in Posts, Save(p)
    PROVE  Log!LogNext \/ UNCHANGED Log!logVars
<1>1. CASE UNCHANGED telemetry
  BY <1>1, FailingStep DEF Save
<1>2. CASE /\ ~\E row \in telemetry : SameKey(row, Reading(p))
           /\ telemetry' = telemetry \cup {Reading(p)}
           /\ UNCHANGED receipt \/ Fail(p, 500)
  <2>1. Reading(p) \in Rows /\ Reading(p).id = p /\ receipt[p] = None
    BY ReadingIsRow DEF IInv, Save, Reading, NothingBeforeAnswer
  <2>2. \A q \in Posts : Accepted(q)' <=> Accepted(q)
    BY <2>1, <1>2 DEF IInv, TypeOK, Accepted, Fail, Answer
  <2>3. \A q \in Posts : Accepted(q) => receipt'[q].id = receipt[q].id
    BY <2>1, <1>2 DEF IInv, TypeOK, Accepted, Fail, Answer
  <2>4. \A q \in Posts : Accepted(q) => receipt[q].id # p
    BY DEF IInv, Save, ReceiptNamesStoredRow, RowsAreReadings
  <2>5. Acknowledged' = Acknowledged
    BY <1>2, <2>1, <2>2, <2>3, <2>4 DEF Acknowledged
  <2>6. Effects' = Effects
    BY DEF Save, Effects, Reading
  <2>7. Log!Append(Reading(p))
    BY <1>2, <2>5, <2>6 DEF Log!Append, SameKey, Effects
  <2> QED BY <2>1, <2>7 DEF Log!LogNext
<1> QED BY <1>1, <1>2 DEF Save

\* A duplicate acknowledges the row that is already there.
LEMMA ExistingIdForRefines ==
    ASSUME IInv, NEW p \in Posts, ExistingIdFor(p)
    PROVE  Log!LogNext \/ UNCHANGED Log!logVars
<1>1. CASE Fail(p, 500)
  BY <1>1, FailingStep DEF ExistingIdFor
<1>2. CASE \E id \in ExistingIds(p) : Answer(p, 201, id, "DUPLICATE")
  <2>1. PICK row \in telemetry : Answer(p, 201, row.id, "DUPLICATE")
    BY <1>2, DuplicateIsNamed DEF ExistingIdFor
  <2>2. receipt[p] = None /\ row \in Rows /\ row.id # None
    BY NoneAssumption DEF IInv, ExistingIdFor, NothingBeforeAnswer, TypeOK, Rows
  <2>3. \A q \in Posts : Accepted(q)' <=> Accepted(q) \/ q = p
    BY <2>1, <2>2, NoneAssumption DEF IInv, TypeOK, Accepted, Answer, Receipts, Rows
  <2>4. \A q \in Posts : q # p => receipt'[q] = receipt[q]
    BY <2>1 DEF IInv, TypeOK, Answer
  <2>5. receipt'[p].id = row.id /\ ~Accepted(p)
    BY <2>1, <2>2 DEF IInv, TypeOK, Answer, Accepted
  <2>6. \A other \in telemetry : other.id = row.id => other = row
    BY DEF IInv, RowsAreReadings
  <2>7. Acknowledged' = Acknowledged \cup {row}
    BY <2>3, <2>4, <2>5, <2>6 DEF Acknowledged, ExistingIdFor
  <2>8. Effects' = Effects
    BY DEF ExistingIdFor, Effects, Reading
  <2>9. Log!Acknowledge(row)
    BY <2>7, <2>8 DEF Log!Acknowledge, ExistingIdFor, Effects
  <2> QED BY <2>2, <2>9 DEF Log!LogNext
<1> QED BY <1>1, <1>2 DEF ExistingIdFor

\* Publishing runs the effects of a reading whose effects have not run.
LEMMA PublishAllRefines ==
    ASSUME IInv, NEW p \in Posts, PublishAll(p)
    PROVE  Log!LogNext
<1>1. /\ receipt[p] = None /\ p \notin published
      /\ Reading(p) \in telemetry /\ Reading(p) \in Rows /\ Reading(p).id = p
  BY ReadingIsRow DEF IInv, PublishAll, NothingBeforeAnswer, StoredBeforeEffects, Reading
<1>2. \A q \in Posts : Accepted(q)' <=> Accepted(q) \/ q = p
  BY <1>1, NoneAssumption DEF IInv, TypeOK, Accepted, PublishAll, Answer, Receipts
<1>3. \A q \in Posts : q # p => receipt'[q] = receipt[q]
  BY DEF IInv, TypeOK, PublishAll, Answer
<1>4. receipt'[p].id = p /\ ~Accepted(p)
  BY <1>1 DEF IInv, TypeOK, PublishAll, Answer, Accepted
<1>5. \A other \in telemetry : other.id = p => other = Reading(p)
  BY DEF IInv, RowsAreReadings
<1>6. Acknowledged' = Acknowledged \cup {Reading(p)}
  BY <1>1, <1>2, <1>3, <1>4, <1>5 DEF Acknowledged, PublishAll
<1>7. Effects' = Effects \cup {Reading(p)}
  BY DEF PublishAll, Effects, Reading
<1>8. Reading(p) \notin Effects
  BY <1>1 DEF Effects, Reading
<1>9. Log!RunEffects(Reading(p))
  BY <1>1, <1>6, <1>7, <1>8 DEF Log!RunEffects, PublishAll, Effects
<1> QED BY <1>1, <1>9 DEF Log!LogNext

\* Every step of the service is a step of the log or none.
LEMMA NextRefines == IInv /\ [Next]_vars => [Log!LogNext]_(Log!logVars)
<1> SUFFICES ASSUME IInv, [Next]_vars PROVE Log!LogNext \/ UNCHANGED Log!logVars
  OBVIOUS
<1>1. ASSUME NEW p \in Posts, PostStep(p) PROVE Log!LogNext \/ UNCHANGED Log!logVars
  <2>1. CASE GetById(p)
    BY <2>1, FailingStep DEF GetById
  <2>2. CASE Consume(p)
    BY <2>2, FailingStep DEF Consume
  <2>3. CASE IsSupersededBy(p)
    BY <2>3, SilentStep DEF IsSupersededBy
  <2>4. CASE SaveLatest(p)
    BY <2>4, SilentStep DEF SaveLatest
  <2> QED BY <1>1, <2>1, <2>2, <2>3, <2>4, SaveRefines, ExistingIdForRefines, PublishAllRefines DEF PostStep
<1>2. ASSUME NEW g \in Gets, GetStep(g) PROVE UNCHANGED Log!logVars
  BY <1>2, SilentStep DEF GetStep, FindOwnedById, FindLatest, FindLatestByDeviceId, Repopulate
<1>3. ASSUME NEW d \in Devices, Expire(d) PROVE UNCHANGED Log!logVars
  BY <1>3, SilentStep DEF Expire
<1>4. ASSUME NEW r \in Posts \cup Gets, Crash(r) PROVE UNCHANGED Log!logVars
  BY <1>4, SilentStep DEF Crash
<1>5. CASE UNCHANGED vars
  BY <1>5, SilentStep DEF vars
<1> QED BY <1>1, <1>2, <1>3, <1>4, <1>5, ReceivePostRefines, ReceiveGetRefines DEF Next

\* The two handlers together implement the abstract reading log: appended once
\* by key, effects at most once, acknowledgements only of what is stored.
THEOREM Refinement == Spec => ImplementsReadingLog
<1>1. Init => Log!LogInit
  BY DEF Init, Log!LogInit, Acknowledged
<1>2. Spec => Log!LogSpec
  BY <1>1, NextRefines, Invariance, PTL DEF Spec, Log!LogSpec
<1> QED BY <1>2 DEF ImplementsReadingLog

\* Stored readings are never rewritten or deleted.
THEOREM AppendOnly == Spec => LogIsAppendOnly
<1>1. [Next]_vars => [telemetry \subseteq telemetry']_telemetry
  <2> SUFFICES ASSUME Next PROVE telemetry \subseteq telemetry'
    BY DEF vars
  <2> QED
    BY DEF Next, PostStep, GetStep, ReceivePost, GetById, Consume, Save, ExistingIdFor, IsSupersededBy,
           SaveLatest, PublishAll, ReceiveGet, FindOwnedById, FindLatest, FindLatestByDeviceId,
           Repopulate, Expire, Crash
<1> QED BY <1>1, PTL DEF Spec, LogIsAppendOnly

------------------------------------------------------------------------------
(* Nothing fails, and the requests for a device come one after another.    *)

Sequential ==
    \A r, s \in Posts \cup Gets :
        InFlight(r) /\ InFlight(s) /\ cmd[r].deviceId = cmd[s].deviceId => r = s

\* The state is that of a newest row of the device, or null when there is none.
IsLatest(state, d, rows) ==
    \/ state = None /\ \A row \in rows : row.deviceId # d
    \/ \E row \in rows : /\ row.deviceId = d /\ state = StateOf(row)
                         /\ \A other \in rows : other.deviceId = d => other.recordedAt <= row.recordedAt

Refreshing(p) == pc[p] \in {"isSupersededBy", "saveLatest"}

\* Between its insert and its SET a POST is the only thing that the cache of its
\* device lacks.
CacheIsLatest ==
    /\ \A d \in Devices : (\A p \in Posts : Refreshing(p) => cmd[p].deviceId # d)
                            => IsLatest(cache[d], d, telemetry)
    /\ \A p \in Posts : Refreshing(p) => IsLatest(cache[cmd[p].deviceId], cmd[p].deviceId, telemetry \ {Reading(p)})
    /\ \A p \in Posts : pc[p] = "saveLatest" => ~Superseded(p)

\* A GET that goes on to the table goes there for a device that never reported.
MissesAreEmpty ==
    \A g \in Gets : /\ pc[g] # "repopulate"
                    /\ pc[g] = "findLatestByDeviceId" => cache[cmd[g].deviceId] = None

\* Another device's reading does not matter.
LEMMA RowsOfOthers ==
    ASSUME NEW state, NEW d, NEW rows, NEW row, row.deviceId # d
    PROVE  IsLatest(state, d, rows \cup {row}) <=> IsLatest(state, d, rows)
BY DEF IsLatest

\* A reading that is newer than the cached state is the latest.
LEMMA NewerReading ==
    ASSUME NEW rows \in SUBSET Rows, NEW row \in Rows, NEW state,
           IsLatest(state, row.deviceId, rows), state # None => ~(state.recordedAt >= row.recordedAt)
    PROVE  IsLatest(StateOf(row), row.deviceId, rows \cup {row})
<1>1. \A r \in rows \cup {row} : r.recordedAt \in Nat /\ StateOf(r) # None /\ StateOf(r).recordedAt = r.recordedAt
  BY StateOfRow, TimesAssumption, NoneAssumption DEF Rows, StateOf
<1>2. \A other \in rows : other.deviceId = row.deviceId => other.recordedAt <= row.recordedAt
  <2>1. CASE \A other \in rows : other.deviceId # row.deviceId
    BY <2>1
  <2>2. CASE ~(\A other \in rows : other.deviceId # row.deviceId)
    <3>1. PICK latest \in rows :
             /\ state = StateOf(latest)
             /\ \A other \in rows : other.deviceId = row.deviceId => other.recordedAt <= latest.recordedAt
      BY <2>2 DEF IsLatest
    <3>2. ~(latest.recordedAt >= row.recordedAt)
      BY <1>1, <3>1
    <3> QED BY <1>1, <3>1, <3>2
  <2> QED BY <2>1, <2>2
<1>3. row.recordedAt <= row.recordedAt
  BY <1>1
<1> QED BY <1>2, <1>3 DEF IsLatest

\* One that is not newer leaves the cached state the latest.
LEMMA OlderReading ==
    ASSUME NEW rows \in SUBSET Rows, NEW row \in Rows, NEW state,
           IsLatest(state, row.deviceId, rows), state # None, state.recordedAt >= row.recordedAt
    PROVE  IsLatest(state, row.deviceId, rows \cup {row})
<1>1. PICK latest \in rows :
         /\ latest.deviceId = row.deviceId /\ state = StateOf(latest)
         /\ \A other \in rows : other.deviceId = row.deviceId => other.recordedAt <= latest.recordedAt
  BY DEF IsLatest
<1>2. row.recordedAt <= latest.recordedAt
  BY <1>1, TimesAssumption DEF Rows, StateOf
<1> QED BY <1>1, <1>2 DEF IsLatest

\* A step that writes nothing, of a request that neither refreshes nor misses.
LEMMA CacheRests ==
    ASSUME IInv, CacheIsLatest, MissesAreEmpty, UNCHANGED <<telemetry, cache>>, NEW r \in Posts \cup Gets,
           \A s \in Posts \cup Gets : s # r => pc'[s] = pc[s] /\ cmd'[s] = cmd[s],
           pc[r] \notin {"isSupersededBy", "saveLatest"},
           pc'[r] \notin {"isSupersededBy", "saveLatest", "findLatestByDeviceId", "repopulate"}
    PROVE  CacheIsLatest' /\ MissesAreEmpty'
<1>1. \A p \in Posts : Refreshing(p)' <=> Refreshing(p)
  BY DEF Refreshing
<1>2. \A p \in Posts : Refreshing(p) => cmd'[p] = cmd[p] /\ pc'[p] = pc[p] /\ Reading(p)' = Reading(p)
  BY DEF Refreshing, Reading
<1>3. ASSUME NEW d \in Devices, \A p \in Posts : Refreshing(p)' => cmd'[p].deviceId # d
      PROVE  IsLatest(cache[d], d, telemetry)'
  <2>1. IsLatest(cache[d], d, telemetry)
    BY <1>1, <1>2, <1>3 DEF CacheIsLatest
  <2> QED BY <2>1 DEF IsLatest, StateOf
<1>4. ASSUME NEW p \in Posts, Refreshing(p)'
      PROVE  IsLatest(cache[cmd[p].deviceId], cmd[p].deviceId, telemetry \ {Reading(p)})'
  <2>1. IsLatest(cache[cmd[p].deviceId], cmd[p].deviceId, telemetry \ {Reading(p)})
    BY <1>1, <1>4 DEF CacheIsLatest
  <2> QED BY <1>1, <1>2, <1>4, <2>1 DEF IsLatest, StateOf
<1>5. ASSUME NEW p \in Posts, pc'[p] = "saveLatest" PROVE ~Superseded(p)'
  BY <1>1, <1>2, <1>5 DEF CacheIsLatest, Superseded, Refreshing
<1>6. CacheIsLatest'
  BY <1>3, <1>4, <1>5 DEF CacheIsLatest
<1>7. MissesAreEmpty'
  BY DEF MissesAreEmpty
<1> QED BY <1>6, <1>7

\* The INSERT: from here on the cache is behind by this reading.
LEMMA SaveKeepsCache ==
    ASSUME Faults = {}, IInv, IInv', Sequential, CacheIsLatest, MissesAreEmpty, NEW p \in Posts, Save(p)
    PROVE  CacheIsLatest' /\ MissesAreEmpty'
<1> DEFINE row == Reading(p)
           device == cmd[p].deviceId
<1> USE RequestsAssumption
<1>1. /\ pc[p] = "save" /\ UNCHANGED <<cache, cmd>>
      /\ \A s \in Posts \cup Gets : s # p => pc'[s] = pc[s] /\ cmd'[s] = cmd[s]
      /\ \A s \in Posts : Reading(s)' = Reading(s)
  BY DEF Save, Goto, Fail, Answer, IInv, TypeOK, Reading
<1>2. CASE UNCHANGED telemetry
  <2>1. pc'[p] = "existingIdFor"
    <3>1. Reading(p) \in telemetry => \E other \in telemetry : SameKey(other, Reading(p))
      BY DEF SameKey
    <3> QED BY <1>2, <3>1 DEF Save, Goto, IInv, TypeOK
  <2> QED BY <1>1, <1>2, <2>1, CacheRests DEF Save
<1>3. CASE /\ ~\E other \in telemetry : SameKey(other, row)
           /\ telemetry' = telemetry \cup {row}
           /\ Goto(p, "isSupersededBy")
  <2>1. pc'[p] = "isSupersededBy" /\ row \notin telemetry /\ row.deviceId = device
    BY <1>3 DEF Goto, IInv, TypeOK, SameKey, Reading
  <2>2. \A q \in Posts : Refreshing(q) => cmd[q].deviceId # device /\ q # p
    BY <1>1 DEF Sequential, Refreshing, InFlight, PostSteps
  <2>3. \A q \in Posts : q # p => (Refreshing(q)' <=> Refreshing(q))
    BY <1>1 DEF Refreshing
  <2>4. ASSUME NEW d \in Devices, \A q \in Posts : Refreshing(q)' => cmd'[q].deviceId # d
        PROVE  IsLatest(cache[d], d, telemetry)'
    <3>1. d # device
      BY <1>1, <2>1, <2>4 DEF Refreshing
    <3>2. IsLatest(cache[d], d, telemetry)
      BY <1>1, <2>2, <2>3, <2>4 DEF CacheIsLatest
    <3>3. IsLatest(cache[d], d, telemetry \cup {row})
      BY <2>1, <3>1, <3>2, RowsOfOthers
    <3> QED BY <1>1, <1>3, <3>3 DEF IsLatest, StateOf
  <2>5. ASSUME NEW q \in Posts, Refreshing(q)'
        PROVE  IsLatest(cache[cmd[q].deviceId], cmd[q].deviceId, telemetry \ {Reading(q)})'
    <3> DEFINE d == cmd[q].deviceId
    <3>1. IsLatest(cache[d], d, telemetry' \ {Reading(q)})
      <4>1. CASE q = p
        <5>1. IsLatest(cache[device], device, telemetry)
          BY <2>2 DEF CacheIsLatest, IInv, CommandsAreKnown, Commands, Save
        <5>2. telemetry' \ {Reading(q)} = telemetry
          BY <1>3, <2>1, <4>1
        <5> QED BY <4>1, <5>1, <5>2
      <4>2. CASE q # p
        <5>1. Refreshing(q) /\ d # device
          BY <2>2, <2>3, <2>5, <4>2
        <5>2. IsLatest(cache[d], d, telemetry \ {Reading(q)})
          BY <5>1 DEF CacheIsLatest
        <5>3. Reading(q) # row
          BY <4>2 DEF Reading
        <5>4. telemetry' \ {Reading(q)} = (telemetry \ {Reading(q)}) \cup {row}
          BY <1>3, <5>3
        <5> QED BY <2>1, <5>1, <5>2, <5>4, RowsOfOthers
      <4> QED BY <4>1, <4>2
    <3> QED BY <1>1, <3>1 DEF IsLatest, StateOf
  <2>6. \A q \in Posts : pc'[q] = "saveLatest" => ~Superseded(q)'
    BY <1>1, <2>1 DEF CacheIsLatest, Superseded
  <2>7. MissesAreEmpty'
    BY <1>1 DEF MissesAreEmpty
  <2> QED BY <2>4, <2>5, <2>6, <2>7 DEF CacheIsLatest
<1> QED BY <1>2, <1>3 DEF Save

\* The cached state is found to be newer: the cache lacks nothing any more.
LEMMA IsSupersededByKeepsCache ==
    ASSUME Faults = {}, IInv, IInv', Sequential, CacheIsLatest, MissesAreEmpty, NEW p \in Posts, IsSupersededBy(p)
    PROVE  CacheIsLatest' /\ MissesAreEmpty'
<1> DEFINE row == Reading(p)
           device == cmd[p].deviceId
<1> USE RequestsAssumption
<1>1. /\ pc[p] = "isSupersededBy" /\ UNCHANGED <<cache, cmd, telemetry>>
      /\ \A s \in Posts \cup Gets : s # p => pc'[s] = pc[s]
      /\ \A s \in Posts : Reading(s)' = Reading(s) /\ (Superseded(s)' <=> Superseded(s))
      /\ \/ Superseded(p) /\ pc'[p] = "publishAll"
         \/ ~Superseded(p) /\ pc'[p] = "saveLatest"
  BY DEF IsSupersededBy, Goto, IInv, TypeOK, Reading, Superseded
<1>2. /\ row \in telemetry /\ row \in Rows /\ telemetry \subseteq Rows /\ row.deviceId = device
      /\ row.recordedAt = cmd[p].timestamp
  BY <1>1 DEF IInv, StoredBeforeEffects, TypeOK, Reading
<1>3. IsLatest(cache[device], device, telemetry \ {row})
  BY <1>1 DEF CacheIsLatest, Refreshing
<1>4. \A q \in Posts : q # p => (Refreshing(q)' <=> Refreshing(q))
  BY <1>1 DEF Refreshing
<1>5. ASSUME NEW d \in Devices, \A q \in Posts : Refreshing(q)' => cmd[q].deviceId # d
      PROVE  IsLatest(cache[d], d, telemetry)
  <2>1. CASE Refreshing(p)' \/ d # device
    BY <1>1, <1>4, <1>5, <2>1 DEF CacheIsLatest, Refreshing
  <2>2. CASE d = device /\ Superseded(p)
    <3>1. cache[d] # None /\ cache[d].recordedAt >= row.recordedAt
      BY <1>2, <2>2 DEF Superseded
    <3>2. IsLatest(cache[d], row.deviceId, (telemetry \ {row}) \cup {row})
      BY <1>2, <1>3, <2>2, <3>1, OlderReading
    <3>3. (telemetry \ {row}) \cup {row} = telemetry
      BY <1>2
    <3> QED BY <1>2, <2>2, <3>2, <3>3
  <2> QED BY <1>1, <2>1, <2>2 DEF Refreshing
<1>6. ASSUME NEW q \in Posts, Refreshing(q)'
      PROVE  IsLatest(cache[cmd[q].deviceId], cmd[q].deviceId, telemetry \ {Reading(q)})
  BY <1>1, <1>4, <1>6 DEF CacheIsLatest, Refreshing
<1>7. CacheIsLatest'
  <2>1. \A d \in Devices : (\A q \in Posts : Refreshing(q)' => cmd'[q].deviceId # d)
            => IsLatest(cache[d], d, telemetry)'
    BY <1>1, <1>5 DEF IsLatest, StateOf
  <2>2. \A q \in Posts : Refreshing(q)' =>
            IsLatest(cache[cmd[q].deviceId], cmd[q].deviceId, telemetry \ {Reading(q)})'
    BY <1>1, <1>6 DEF IsLatest, StateOf
  <2>3. \A q \in Posts : pc'[q] = "saveLatest" => ~Superseded(q)'
    BY <1>1 DEF CacheIsLatest
  <2> QED BY <2>1, <2>2, <2>3 DEF CacheIsLatest
<1>8. MissesAreEmpty'
  BY <1>1 DEF MissesAreEmpty
<1> QED BY <1>7, <1>8

\* The SET: the reading is newer than all the others, so the cache lacks nothing.
LEMMA SaveLatestKeepsCache ==
    ASSUME Faults = {}, IInv, IInv', Sequential, CacheIsLatest, MissesAreEmpty, NEW p \in Posts, SaveLatest(p)
    PROVE  CacheIsLatest' /\ MissesAreEmpty'
<1> DEFINE row == Reading(p)
           device == cmd[p].deviceId
<1> USE RequestsAssumption
<1>1. /\ pc[p] = "saveLatest" /\ pc'[p] = "publishAll" /\ UNCHANGED <<cmd, telemetry>>
      /\ \A s \in Posts \cup Gets : s # p => pc'[s] = pc[s]
      /\ \A s \in Posts : Reading(s)' = Reading(s)
      /\ cache' = [cache EXCEPT ![device] = StateOf(row)]
  BY DEF SaveLatest, Goto, IInv, TypeOK, Reading
<1>2. /\ row \in telemetry /\ row \in Rows /\ telemetry \subseteq Rows /\ row.deviceId = device
      /\ row.recordedAt = cmd[p].timestamp /\ device \in Devices
  BY <1>1 DEF IInv, StoredBeforeEffects, TypeOK, Reading, Rows
<1>3. /\ cache'[device] = StateOf(row)
      /\ \A d \in Devices : d # device => cache'[d] = cache[d]
  BY <1>1, <1>2 DEF IInv, TypeOK
<1>4. \A s \in Posts \cup Gets : InFlight(s) /\ s # p => cmd[s].deviceId # device
  BY <1>1 DEF Sequential, InFlight, PostSteps
<1>5. \A q \in Posts : q # p => (Refreshing(q)' <=> Refreshing(q))
  BY <1>1 DEF Refreshing
<1>6. ASSUME NEW d \in Devices, \A q \in Posts : Refreshing(q)' => cmd[q].deviceId # d
      PROVE  IsLatest(cache'[d], d, telemetry)
  <2>1. CASE d # device
    <3>1. IsLatest(cache[d], d, telemetry)
      BY <1>5, <1>6, <2>1 DEF CacheIsLatest
    <3> QED BY <1>3, <2>1, <3>1
  <2>2. CASE d = device
    <3>1. IsLatest(cache[device], device, telemetry \ {row}) /\ ~Superseded(p)
      BY <1>1 DEF CacheIsLatest, Refreshing
    <3>2. cache[device] # None => ~(cache[device].recordedAt >= row.recordedAt)
      BY <1>2, <3>1 DEF Superseded
    <3>3. IsLatest(StateOf(row), row.deviceId, (telemetry \ {row}) \cup {row})
      BY <1>2, <3>1, <3>2, NewerReading
    <3>4. (telemetry \ {row}) \cup {row} = telemetry
      BY <1>2
    <3> QED BY <1>2, <1>3, <2>2, <3>3, <3>4
  <2> QED BY <2>1, <2>2
<1>7. ASSUME NEW q \in Posts, Refreshing(q)'
      PROVE  /\ IsLatest(cache'[cmd[q].deviceId], cmd[q].deviceId, telemetry \ {Reading(q)})
             /\ pc'[q] = "saveLatest" => ~Superseded(q)'
  <2>1. q # p /\ Refreshing(q) /\ pc'[q] = pc[q]
    BY <1>1, <1>5, <1>7 DEF Refreshing
  <2>2. cmd[q].deviceId # device /\ cmd[q].deviceId \in Devices
    BY <1>4, <2>1 DEF Refreshing, InFlight, PostSteps, IInv, CommandsAreKnown, Commands
  <2>3. cache'[cmd[q].deviceId] = cache[cmd[q].deviceId]
    BY <1>3, <2>2
  <2>4. IsLatest(cache[cmd[q].deviceId], cmd[q].deviceId, telemetry \ {Reading(q)})
    BY <2>1 DEF CacheIsLatest
  <2>5. pc'[q] = "saveLatest" => ~Superseded(q)'
    BY <1>1, <2>1, <2>3 DEF CacheIsLatest, Superseded
  <2> QED BY <2>3, <2>4, <2>5
<1>8. CacheIsLatest'
  <2>1. \A d \in Devices : (\A q \in Posts : Refreshing(q)' => cmd'[q].deviceId # d)
            => IsLatest(cache[d], d, telemetry)'
    BY <1>1, <1>6 DEF IsLatest, StateOf
  <2>2. \A q \in Posts : Refreshing(q)' =>
            IsLatest(cache[cmd[q].deviceId], cmd[q].deviceId, telemetry \ {Reading(q)})'
    BY <1>1, <1>7 DEF IsLatest, StateOf
  <2>3. \A q \in Posts : pc'[q] = "saveLatest" => ~Superseded(q)'
    BY <1>7 DEF Refreshing
  <2> QED BY <2>1, <2>2, <2>3 DEF CacheIsLatest
<1>9. MissesAreEmpty'
  <2> SUFFICES ASSUME NEW g \in Gets
               PROVE  /\ pc'[g] # "repopulate"
                      /\ pc'[g] = "findLatestByDeviceId" => cache'[cmd[g].deviceId] = None
    BY <1>1 DEF MissesAreEmpty
  <2>1. pc'[g] = pc[g]
    BY <1>1
  <2>2. pc[g] = "findLatestByDeviceId" => cmd[g].deviceId # device /\ cmd[g].deviceId \in Devices
    BY <1>1, <1>4 DEF InFlight, GetSteps, IInv, CommandsAreKnown, Queries
  <2> QED BY <1>3, <2>1, <2>2 DEF MissesAreEmpty
<1> QED BY <1>8, <1>9

\* A miss: nobody refreshes the device meanwhile, so it has no readings.
LEMMA ReadsKeepCache ==
    ASSUME Faults = {}, IInv, IInv', Sequential, CacheIsLatest, MissesAreEmpty,
           NEW g \in Gets, FindLatest(g) \/ FindLatestByDeviceId(g)
    PROVE  CacheIsLatest' /\ MissesAreEmpty'
<1> DEFINE device == cmd[g].deviceId
<1> USE RequestsAssumption
<1>1. /\ pc[g] \in {"findLatest", "findLatestByDeviceId"} /\ UNCHANGED <<telemetry, cache, cmd>>
      /\ \A s \in Posts \cup Gets : s # g => pc'[s] = pc[s] /\ cmd'[s] = cmd[s]
  BY DEF FindLatest, FindLatestByDeviceId, Goto, Show, IInv, TypeOK
<1>2. CASE FindLatest(g)
  <2>1. \/ pc'[g] = "answered"
        \/ pc'[g] = "findLatestByDeviceId" /\ cache[device] = None
    BY <1>2 DEF FindLatest, Goto, Show, IInv, TypeOK
  <2>2. CASE pc'[g] = "answered"
    BY <1>1, <2>2, CacheRests
  <2>3. CASE pc'[g] = "findLatestByDeviceId" /\ cache[device] = None
    <3>1. MissesAreEmpty'
      BY <1>1, <2>3 DEF MissesAreEmpty
    <3>2. \A p \in Posts : pc'[p] = pc[p] /\ Reading(p)' = Reading(p) /\ (Superseded(p)' <=> Superseded(p))
      BY <1>1 DEF Reading, Superseded
    <3>3. CacheIsLatest'
      BY <1>1, <3>2 DEF CacheIsLatest, Refreshing, IsLatest, StateOf
    <3> QED BY <3>1, <3>3
  <2> QED BY <2>1, <2>2, <2>3
<1>3. CASE FindLatestByDeviceId(g)
  <2>1. pc[g] = "findLatestByDeviceId" /\ cache[device] = None /\ device \in Devices
    BY <1>3 DEF FindLatestByDeviceId, MissesAreEmpty, IInv, CommandsAreKnown, Queries
  <2>2. \A p \in Posts : Refreshing(p) => cmd[p].deviceId # device
    BY <2>1 DEF Sequential, Refreshing, InFlight, PostSteps, GetSteps
  <2>3. IsLatest(None, device, telemetry)
    BY <2>1, <2>2 DEF CacheIsLatest
  <2>4. \A row \in telemetry : StateOf(row) # None
    BY StateOfRow, NoneAssumption DEF IInv, TypeOK
  <2>5. Latest(device) = {}
    BY <2>3, <2>4 DEF IsLatest, Latest
  <2>6. pc'[g] = "answered"
    BY <1>3, <2>5 DEF FindLatestByDeviceId, Goto, Show, IInv, TypeOK
  <2> QED BY <1>1, <2>6, CacheRests
<1> QED BY <1>2, <1>3

\* No step of one request at a time lets the cache fall behind for good.
LEMMA NextKeepsCache ==
    ASSUME Faults = {}, IInv, IInv', Sequential, CacheIsLatest, MissesAreEmpty, [Next]_vars
    PROVE  CacheIsLatest' /\ MissesAreEmpty'
<1> USE RequestsAssumption
<1>1. ASSUME NEW p \in Posts, NEW c \in Commands, ReceivePost(p, c)
      PROVE  CacheIsLatest' /\ MissesAreEmpty'
  <2>1. /\ pc[p] = "idle" /\ pc'[p] = "getById" /\ UNCHANGED <<telemetry, cache>>
        /\ \A s \in Posts \cup Gets : s # p => pc'[s] = pc[s] /\ cmd'[s] = cmd[s]
    BY <1>1 DEF ReceivePost, Goto, IInv, TypeOK
  <2> QED BY <2>1, CacheRests
<1>2. ASSUME NEW g \in Gets, NEW q \in Queries, ReceiveGet(g, q)
      PROVE  CacheIsLatest' /\ MissesAreEmpty'
  <2>1. /\ pc[g] = "idle" /\ pc'[g] = "findOwnedById" /\ UNCHANGED <<telemetry, cache>>
        /\ \A s \in Posts \cup Gets : s # g => pc'[s] = pc[s] /\ cmd'[s] = cmd[s]
    BY <1>2 DEF ReceiveGet, Goto, IInv, TypeOK
  <2> QED BY <2>1, CacheRests
<1>3. ASSUME NEW p \in Posts, GetById(p) \/ Consume(p) \/ ExistingIdFor(p) \/ PublishAll(p)
      PROVE  CacheIsLatest' /\ MissesAreEmpty'
  <2>1. /\ pc[p] \in {"getById", "consume", "existingIdFor", "publishAll"}
        /\ pc'[p] \in {"consume", "save", "answered"}
        /\ UNCHANGED <<telemetry, cache>>
        /\ \A s \in Posts \cup Gets : s # p => pc'[s] = pc[s] /\ cmd'[s] = cmd[s]
    BY <1>3 DEF GetById, Consume, ExistingIdFor, PublishAll, Goto, Fail, Answer, IInv, TypeOK
  <2> QED BY <2>1, CacheRests
<1>4. ASSUME NEW g \in Gets, FindOwnedById(g)
      PROVE  CacheIsLatest' /\ MissesAreEmpty'
  <2>1. /\ pc[g] = "findOwnedById" /\ pc'[g] \in {"findLatest", "answered"} /\ UNCHANGED <<telemetry, cache>>
        /\ \A s \in Posts \cup Gets : s # g => pc'[s] = pc[s] /\ cmd'[s] = cmd[s]
    BY <1>4 DEF FindOwnedById, Goto, Show, IInv, TypeOK
  <2> QED BY <2>1, CacheRests
<1>5. ASSUME NEW g \in Gets, Repopulate(g) PROVE FALSE
  BY <1>5 DEF Repopulate, MissesAreEmpty
<1>6. ASSUME NEW d \in Devices, Expire(d) PROVE FALSE
  BY <1>6 DEF Expire
<1>7. ASSUME NEW r \in Posts \cup Gets, Crash(r) PROVE FALSE
  BY <1>7 DEF Crash
<1>8. CASE UNCHANGED vars
  BY <1>8 DEF vars, CacheIsLatest, MissesAreEmpty, Refreshing, Superseded, IsLatest, StateOf, Reading
<1>9. ASSUME NEW p \in Posts, PostStep(p)
      PROVE  CacheIsLatest' /\ MissesAreEmpty'
  BY <1>3, <1>9, SaveKeepsCache, IsSupersededByKeepsCache, SaveLatestKeepsCache DEF PostStep
<1>10. ASSUME NEW g \in Gets, GetStep(g)
       PROVE  CacheIsLatest' /\ MissesAreEmpty'
  BY <1>4, <1>5, <1>10, ReadsKeepCache DEF GetStep
<1> QED BY <1>1, <1>2, <1>6, <1>7, <1>8, <1>9, <1>10 DEF Next

\* Once nobody is about to refresh a device, its HIT is what a MISS would be.
LEMMA SettledCacheIsLatest ==
    ASSUME IInv, CacheIsLatest
    PROVE  HitMatchesMiss
<1> SUFFICES ASSUME NEW d \in Devices, Settled(d), cache[d] # None
             PROVE  \E row \in Latest(d) : cache[d] = StateOf(row)
  BY DEF HitMatchesMiss
<1>1. \A p \in Posts : Refreshing(p) => cmd[p].deviceId # d
  BY DEF Settled, Refreshing, InFlight, PostSteps
<1>2. IsLatest(cache[d], d, telemetry)
  BY <1>1 DEF CacheIsLatest
<1> QED BY <1>2 DEF IsLatest, Latest

\* Without failures, and as long as no two requests for one device overlap, a HIT
\* gives the answer of a MISS: however the requests of different devices interleave
\* and in whatever order a device sends its readings.
THEOREM SettledHitsMatch ==
    ASSUME Faults = {}
    PROVE  Spec /\ []Sequential => []HitMatchesMiss
<1>1. Init => CacheIsLatest /\ MissesAreEmpty
  BY DEF Init, CacheIsLatest, MissesAreEmpty, Refreshing, IsLatest
<1>2. IInv /\ IInv' /\ Sequential /\ CacheIsLatest /\ MissesAreEmpty /\ [Next]_vars
        => CacheIsLatest' /\ MissesAreEmpty'
  BY NextKeepsCache
<1>3. IInv /\ CacheIsLatest => HitMatchesMiss
  BY SettledCacheIsLatest
<1> QED BY <1>1, <1>2, <1>3, Invariance, PTL DEF Spec

AtMostOneInFlight == \A r, s \in Posts \cup Gets : InFlight(r) /\ InFlight(s) => r = s

\* A request is admitted only when nobody is in flight.
LEMMA OneAtATime ==
    ASSUME MaxInFlight = 1
    PROVE  Spec => []AtMostOneInFlight
<1>1. Init => AtMostOneInFlight
  BY DEF Init, AtMostOneInFlight, InFlight, PostSteps, GetSteps
<1>2. ASSUME IInv, AtMostOneInFlight, [Next]_vars
      PROVE  AtMostOneInFlight'
  <2> DEFINE flying == {r \in Posts \cup Gets : InFlight(r)}
  <2>1. ASSUME Admitted PROVE \A r \in Posts \cup Gets : ~InFlight(r)
    <3> SUFFICES ASSUME NEW r \in Posts \cup Gets, InFlight(r) PROVE FALSE
      OBVIOUS
    <3>1. flying = {r}
      BY <1>2 DEF AtMostOneInFlight
    <3>2. Cardinality({r}) = 1
      BY FS_Singleton
    <3> QED BY <2>1, <3>1, <3>2 DEF Admitted
  <2>2. ASSUME NEW r \in Posts \cup Gets, Admitted, pc' = [pc EXCEPT ![r] = pc'[r]]
        PROVE  AtMostOneInFlight'
    BY <1>2, <2>1, <2>2 DEF AtMostOneInFlight, InFlight, IInv, TypeOK
  <2>3. ASSUME NEW r \in Posts \cup Gets, InFlight(r), \A s \in Posts \cup Gets : s # r => pc'[s] = pc[s]
        PROVE  AtMostOneInFlight'
    BY <1>2, <2>3 DEF AtMostOneInFlight, InFlight
  <2>4. ASSUME NEW p \in Posts, PostStep(p)
        PROVE  InFlight(p) /\ \A s \in Posts \cup Gets : s # p => pc'[s] = pc[s]
    BY <1>2, <2>4 DEF PostStep, GetById, Consume, Save, ExistingIdFor, IsSupersededBy, SaveLatest, PublishAll,
                      Fail, Answer, Goto, InFlight, PostSteps, IInv, TypeOK
  <2>5. ASSUME NEW g \in Gets, GetStep(g)
        PROVE  InFlight(g) /\ \A s \in Posts \cup Gets : s # g => pc'[s] = pc[s]
    BY <1>2, <2>5 DEF GetStep, FindOwnedById, FindLatest, FindLatestByDeviceId, Repopulate, Show, Goto,
                      InFlight, GetSteps, IInv, TypeOK
  <2>6. ASSUME NEW p \in Posts, NEW c \in Commands, ReceivePost(p, c)
        PROVE  Admitted /\ pc' = [pc EXCEPT ![p] = pc'[p]]
    BY <1>2, <2>6 DEF ReceivePost, Goto, IInv, TypeOK
  <2>7. ASSUME NEW g \in Gets, NEW q \in Queries, ReceiveGet(g, q)
        PROVE  Admitted /\ pc' = [pc EXCEPT ![g] = pc'[g]]
    BY <1>2, <2>7 DEF ReceiveGet, Goto, IInv, TypeOK
  <2>8. ASSUME NEW r \in Posts \cup Gets, Crash(r)
        PROVE  InFlight(r) /\ \A s \in Posts \cup Gets : s # r => pc'[s] = pc[s]
    BY <1>2, <2>8 DEF Crash, Goto, IInv, TypeOK
  <2>9. ASSUME UNCHANGED vars \/ \E d \in Devices : Expire(d)
        PROVE  AtMostOneInFlight'
    BY <1>2, <2>9 DEF vars, Expire, AtMostOneInFlight, InFlight
  <2> QED BY <1>2, <2>2, <2>3, <2>4, <2>5, <2>6, <2>7, <2>8, <2>9 DEF Next
<1> QED BY <1>1, <1>2, Invariance, PTL DEF Spec

\* What the run of one request at a time checks, for any number of devices and
\* requests and any times.
THEOREM OneByOneHitsMatch ==
    ASSUME Faults = {}, MaxInFlight = 1
    PROVE  Spec => []HitMatchesMiss
<1>1. AtMostOneInFlight => Sequential
  BY DEF AtMostOneInFlight, Sequential
<1> QED BY <1>1, OneAtATime, SettledHitsMatch, PTL
==============================================================================
