SPECIFICATION FairSpec
CONSTANTS
    d1 = d1
    d2 = d2
    alice = alice
    bob = bob
    Devices = {d1}
    Users = {alice, bob}
    Nobody = Nobody
    Owner <- MCOwner
    Times = {1, 2}
    Bodies = {fine, hot}
    Malformed = {}
    Posts = {p1, p2}
    Gets = {g1}
    None = None
    Faults = {"database", "redis", "crash", "expiry"}
    MaxPosts = 2
    MaxInFlight = 3
\* Once every request handle is used the model has nothing left to do.
CHECK_DEADLOCK FALSE
INVARIANTS
    TypeOK
    EffectsAtMostOnce
    ReceiptNamesStoredRow
    StatesAreStoredReadings
    StrangersLeaveNoTrace
    EffectsMissOnlyAfterFailure
PROPERTIES
    StoredIsAcknowledged
    ImplementsReadingLog
    EveryRequestAnswered
    StaleStateIsTemporary
