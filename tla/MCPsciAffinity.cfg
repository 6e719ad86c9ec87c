CONSTANTS
    Cpus = {c1, c2}
    ExitsCoherency = TRUE
    OnMayFail = TRUE
SPECIFICATION MCSpec
INVARIANTS
    PendingReachesTarget
    RetryIsEnough
    OffIsSeenUnlessFailed
    CoherentReadsSeeOff
PROPERTIES
    TargetEnds
