CONSTANTS
    PEs = {"p", "q"}
    SharedMaps <- Shared
    PrivateMaps <- Private
    CriticalMaps = {"k"}
    ExplicitMaps = {"x"}
    PlatformIntr <- KIsPlatform
    SPIs = {"i"}
    PPIs = {"j", "l"}
    Clients <- MCClients
    MaxReg = 2
SPECIFICATION FairSpec
INVARIANTS
    NeverStops
    OwnedWhileRegistered
    NoLostTrigger
    RunningIsDispatched
PROPERTIES
    TriggerLeadsToDispatch
