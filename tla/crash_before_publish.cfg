SPECIFICATION Spec
CONSTANTS
    d1 = d1
    d2 = d2
    alice = alice
    bob = bob
    Devices = {d1}
    Users = {alice, bob}
    Nobody = Nobody
    Owner <- MCOwner
    Times = {1}
    Bodies = {fine}
    Malformed = {}
    Posts = {p1, p2}
    Gets = {}
    None = None
    Faults = {"crash"}
    MaxPosts = 1
    MaxInFlight = 1
SYMMETRY Symmetry
\* Once every request handle is used the model has nothing left to do.
CHECK_DEADLOCK FALSE
INVARIANTS
    AcknowledgedRanEffects
