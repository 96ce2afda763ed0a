SPECIFICATION LiveSpec
CONSTANTS
    Ids = {1, 2}
    Handles = {1}
    Backlog = 1
    SocketLimit = 2
    MaintenanceWork = 1
    Limited = TRUE
    Cuts = TRUE
    Wait = 1
    Linger = 1
PROPERTIES ComesToRest
CHECK_DEADLOCK FALSE
