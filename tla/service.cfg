SPECIFICATION Spec
CONSTANTS
    Registrations = {r1, r2}
    Devices = {d1}
    Owners = {u1, u2}
    Unregistered = Unregistered
    Posts = {p1, p2}
    Gets = {g1}
    Types = {LOW_BATTERY}
    Times = {1, 2}
    Ranges <- MCRanges
    Limits = {1}
    None = None
    MaxBusy = 4
SYMMETRY Symmetry
\* Once every request is answered nothing is left to do.
CHECK_DEADLOCK FALSE
INVARIANTS
    TypeOK
    OnlyOwnersAreShown
    OwnReadingsOnly
    NothingSkipped
    TotalCoversPage
    NoOpenAlertHidden
PROPERTIES
    ImplementsAlerts
