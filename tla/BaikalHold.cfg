CONSTANTS
    Cores = {"a", "b"}
    Callers = {"p", "q"}
    Boards <- MCBoards
SPECIFICATION FairSpec
INVARIANTS
    ExplicitlyWoken
PROPERTIES
    ResetsAreSafe
    ComesUp
CHECK_DEADLOCK FALSE
