SPECIFICATION Spec
CONSTANTS
    Cluster <- TwoClusters
    Primary = "p"
    PLAT_MAX_PWR_LVL = 2
    MaxSleeps = 3
INVARIANTS
    LastCpuKnown
    CountsEntries
CHECK_DEADLOCK FALSE
