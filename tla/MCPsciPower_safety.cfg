SPECIFICATION Spec
CONSTANTS
    PLATFORM_CORE_COUNT = 3
    PLAT_MAX_PWR_LVL = 2
    PLAT_MAX_RET_STATE = 1
    PLAT_MAX_OFF_STATE = 2
    A = A
    B = B
    S = S
    Nodes <- MCNodes
    parent_nodes <- MCParents
    idle_states <- MCIdleStates
    sys_suspend_state <- MCSysSuspend
    BootCpu = 0
INVARIANTS
    DomainsKeepPower
    NeverDeeperThanVoted
    ParentNotDeeper
    AssertionsHold
    ContextIsFresh
    NoDeadlock
CHECK_DEADLOCK FALSE
