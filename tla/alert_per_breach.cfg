SPECIFICATION AlertsSpec
CONSTANTS
    Devices = {d1}
    Types = {LOW_BATTERY}
    Times = {1, 2}
    None = None
    MaxBusy = 0
SYMMETRY Symmetry
\* Once every reading is published and handled the model has nothing left to do.
CHECK_DEADLOCK FALSE
INVARIANTS
    OneOpenAlertPerThreshold
