SPECIFICATION Spec
CONSTANTS
    Readers = {r1, r2}
    Writers = {}
    Lengths = {2}
    CopyLimit = 1
    MaxBytes = 2
    MaxRoom = 0
    MaxRequests = 2
    Finite = TRUE
    MaxLate = 1
    Crowded = TRUE
SYMMETRY Symmetry
INVARIANTS WaitIsAnswerable WaiterIsAwaited  LeftoverIsAbort
CHECK_DEADLOCK FALSE
