SPECIFICATION MCSpec
CONSTANTS
    MaxId = 1
    MaxRef = 2
    ReadyEvents = 1
    MaxWaiters = 2
    MaintenanceWork = 1
    MaxStructures = 1
    Contention = TRUE
    MaxCuts = 1
INVARIANTS FlagsCovered NoStrandedWaiter ShutdownComplete WaiterCountExact
PROPERTIES ImplementsService ReadyIsNotified AbortIsSent ShutdownConverges
CHECK_DEADLOCK FALSE
