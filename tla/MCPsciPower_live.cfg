SPECIFICATION FairSpec
CONSTANTS
    PLATFORM_CORE_COUNT = 2
    PLAT_MAX_PWR_LVL = 2
    PLAT_MAX_RET_STATE = 1
    PLAT_MAX_OFF_STATE = 2
    A = A
    B = B
    S = S
    Nodes <- MCNodes
    parent_nodes <- MCParents
    idle_states <- MCIdleStates
    sys_suspend_state <- MCSysSuspend
    BootCpu = 0
PROPERTIES
    CpuOnCompletes
    HandlersEnd
CHECK_DEADLOCK FALSE
