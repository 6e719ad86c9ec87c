CONSTANT Builds <- MCBuilds
SPECIFICATION Spec
INVARIANTS
    PreemptedContextPreserved
    SynchronousEntriesComplete
    YieldingCallsPreemptible
    NsMaskRestored
CHECK_DEADLOCK FALSE
