SPECIFICATION Spec
CONSTANTS
    d1 = d1
    d2 = d2
    alice = alice
    bob = bob
    Devices = {d1, d2}
    Users = {alice, bob}
    Nobody = Nobody
    Owner <- MCOwner
    Times = {1, 2, 3}
    Bodies = {fine, bad}
    Malformed = {bad}
    Posts = {p1, p2, p3}
    Gets = {g1, g2}
    None = None
    Faults = {}
    MaxPosts = 1
    MaxInFlight = 1
SYMMETRY Symmetry
\* Once every request handle is used the model has nothing left to do.
CHECK_DEADLOCK FALSE
INVARIANTS
    HitMatchesMiss
