SPECIFICATION Spec
CONSTANTS
    Readers = {r1}
    Writers = {}
    Lengths = {1}
    CopyLimit = 1
    MaxBytes = 1
    MaxRoom = 0
    MaxRequests = 1
    Finite = FALSE
    MaxLate = 0
    Crowded = FALSE
INVARIANT EndOfStreamIsFin
CHECK_DEADLOCK FALSE
