SPECIFICATION LiveSpec
CONSTANTS
    Ids = {1, 2}
    Handles = {1}
    Backlog = 1
    SocketLimit = 3
    MaintenanceWork = 2
    Limited = FALSE
    Cuts = FALSE
    Wait = 1
    Linger = 2
INVARIANTS DoneIsSwept WithinLimits
PROPERTIES DoneIsReaped MemberIsPromoted 
CHECK_DEADLOCK FALSE
