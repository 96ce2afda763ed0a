SPECIFICATION LiveSpec
CONSTANTS
    Readers = {r1}
    Writers = {w1}
    Lengths = {0, 2}
    CopyLimit = 1
    MaxBytes = 1
    MaxRoom = 1
    MaxRequests = 2
    Finite = FALSE
    MaxLate = 0
    Crowded = FALSE
PROPERTY CloseEndsCalls
CHECK_DEADLOCK FALSE
