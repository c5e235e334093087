SPECIFICATION FairAlertsSpec
CONSTANTS
    Devices = {d1}
    Types = {LOW_BATTERY}
    Times = {1, 2, 3, 4}
    None = None
    MaxBusy = 4
\* Once every reading is published and handled the model has nothing left to do.
CHECK_DEADLOCK FALSE
INVARIANTS
    AlertsTypeOK
    AlertsAreGrounded
    EveryBreachRaised
    OpenMeansStillTrue
PROPERTIES
    ResolvedStaysResolved
    ResolvedOnce
    HealthyReadingResolves
