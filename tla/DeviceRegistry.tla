--------------------------- MODULE DeviceRegistry ---------------------------
(***************************************************************************)
(* POST /devices (RegisterDeviceHandler) over the devices table: a lookup, *)
(* an await, and an upsert.                                                *)
(***************************************************************************)
CONSTANTS
    Registrations,  \* registrations of devices
    Devices,        \* device ids, which the clients choose
    Owners,         \* user ids
    Unregistered    \* null

ASSUME UnregisteredAssumption == Unregistered \notin Owners \cup [deviceId : Devices, ownerId : Owners]
ASSUME StatusAssumption == Unregistered \notin {201, 400, 409, 500}

VARIABLES
    ownerId,       \* the owner in the Device row of each id, Unregistered when there is none
    registryPc,    \* what each registration is waiting for
    registration,  \* the command of each registration
    registryReply  \* the status that answers each registration

registryVars == <<ownerId, registryPc, registration, registryReply>>

RegistryTypeOK ==
    /\ ownerId \in [Devices -> Owners \cup {Unregistered}]
    /\ registryPc \in [Registrations -> {"idle", "getById", "save", "answered", "lost"}]
    /\ registration \in [Registrations -> [deviceId : Devices, ownerId : Owners] \cup {Unregistered}]
    /\ registryReply \in [Registrations -> {201, 400, 409, 500} \cup {Unregistered}]

RegistryInit ==
    /\ ownerId = [d \in Devices |-> Unregistered]
    /\ registryPc = [r \in Registrations |-> "idle"]
    /\ registration = [r \in Registrations |-> Unregistered]
    /\ registryReply = [r \in Registrations |-> Unregistered]

------------------------------------------------------------------------------
RegistryGoto(r, step) == registryPc' = [registryPc EXCEPT ![r] = step]

RegistryAnswer(r, status) ==
    /\ RegistryGoto(r, "answered")
    /\ registryReply' = [registryReply EXCEPT ![r] = status]

IsRegistered(d) == ownerId[d] # Unregistered

\* The guard admits only callers with a token, whose user becomes the owner.
Register(r, c) ==
    /\ registryPc[r] = "idle"
    /\ RegistryGoto(r, "getById")
    /\ registration' = [registration EXCEPT ![r] = c]
    /\ UNCHANGED <<ownerId, registryReply>>

\* MUTANT: save is trusted to refuse what exists already.
NoLookup(r) ==
    /\ registryPc[r] = "getById"
    /\ RegistryGoto(r, "save")
    /\ UNCHANGED <<ownerId, registration, registryReply>>

\* The check that the id is free; the aggregate then validates the name.
Lookup(r) ==
    /\ registryPc[r] = "getById"
    /\ LET taken == IsRegistered(registration[r].deviceId)
       IN \/ taken /\ RegistryAnswer(r, 409)
          \/ ~taken /\ RegistryAnswer(r, 400)
          \/ ~taken /\ RegistryGoto(r, "save") /\ UNCHANGED registryReply
          \/ RegistryAnswer(r, 500)
    /\ UNCHANGED <<ownerId, registration>>

\* The upsert: it creates the row or gives the row that is there to this owner.
SaveDevice(r) ==
    /\ registryPc[r] = "save"
    /\ \/ /\ ownerId' = [ownerId EXCEPT ![registration[r].deviceId] = registration[r].ownerId]
          /\ RegistryAnswer(r, 201) \/ RegistryAnswer(r, 500)
       \/ RegistryAnswer(r, 500) /\ UNCHANGED ownerId
    /\ UNCHANGED registration

\* The process that serves registration r dies.
RegistryCrash(r) ==
    /\ registryPc[r] \in {"getById", "save"}
    /\ RegistryGoto(r, "lost")
    /\ UNCHANGED <<ownerId, registration, registryReply>>

RegistryStep(r) == Lookup(r) \/ SaveDevice(r) \/ RegistryCrash(r)

------------------------------------------------------------------------------
(* What the handler promises.                                              *)

\* A registration that arrives when the device is registered is never answered
\* 201: only registrations that were both under way can take a device over.
LateComersAreRefused ==
    \A r \in Registrations :
        [](registryPc[r] = "getById" /\ IsRegistered(registration[r].deviceId) => [](registryReply[r] # 201))

\* An id that is already registered is a conflict: no two registrations of one
\* device are both answered 201.
RegisteredOnce ==
    \A r, s \in Registrations :
        registryReply[r] = 201 /\ registryReply[s] = 201 /\ registration[r].deviceId = registration[s].deviceId
            => r = s
==============================================================================
