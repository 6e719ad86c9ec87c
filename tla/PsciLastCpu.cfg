CONSTANTS
    N = 4
    Root <- OneRoot
    WaitMs = 2
SPECIFICATION FairSpec
INVARIANTS
    AnswersAreTrue
    DeniedAfterTimeout
PROPERTIES
    AskedCpusStop
