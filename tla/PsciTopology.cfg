SPECIFICATION Spec
CONSTANTS
  PLAT_MAX_PWR_LVL = 2
  MaxChildren = 2
  Entries = 7
INVARIANTS
    TreeMatchesTopology
CHECK_DEADLOCK FALSE
