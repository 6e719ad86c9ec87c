CONSTANTS
    Cluster <- BigCluster
    PLAT_MAX_PWR_LVL = 1
    Platforms <- MCPlatforms
SPECIFICATION Spec
INVARIANTS
    RunningCpuVotesRun
    IdleDomainIsIdle
PROPERTIES
    GrantOnlyWhenLast
CHECK_DEADLOCK FALSE
