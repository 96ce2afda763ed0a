SPECIFICATION Spec
CONSTANTS
    Ids = {1, 2}
    Handles = {1, 2}
    Backlog = 2
    SocketLimit = 4
    MaintenanceWork = 1
    Limited = FALSE
    Cuts = FALSE
    Wait = 1
    Linger = 1
INVARIANTS MemberIsScanned ChildWakesAccept
PROPERTIES QueueIsFifo
CHECK_DEADLOCK FALSE
