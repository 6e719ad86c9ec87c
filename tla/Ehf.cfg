CONSTANTS
    SdeiPris = {2, 3}
    SpPri = 1
    HighestNs = 4
    NsMasks = {4, 5, 6}
    IdlePri = 7
SPECIFICATION Spec
INVARIANTS
    NoLowerPriorityPreempts
    NsMaskRestored
    SecureNotPreempted
CHECK_DEADLOCK FALSE
