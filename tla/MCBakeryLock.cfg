CONSTANTS
    N = 3
    TICKET_MAX = 7
    MaxGets = 2
SPECIFICATION MCSpec
INVARIANTS
    FirstComeFirstServed
PROPERTIES
    ImplementsMutex
    EveryContenderGetsTheLock
CHECK_DEADLOCK FALSE
