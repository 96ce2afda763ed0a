SPECIFICATION MCSpec
CONSTANTS
    InputPackets = 1
    OutputPackets = 2
    MaintenanceWork = 1
    Limited = TRUE
    Cuts = {"no", "ingress"}
    MaxCredit = 1
    MaxUnsent = 1
    MaxSweep = 1
    MaxDelay = 1
    MaxStale = 2
    MaxCalls = 3
INVARIANTS
    OnePoll
    
    DeadlinesArmed
    AcceptedIsProcessed
PROPERTIES
    HeldIsAnswered
    ComesToRest
CHECK_DEADLOCK FALSE
