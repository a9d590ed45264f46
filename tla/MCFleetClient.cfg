SPECIFICATION FairSpec
CONSTANTS
  Repos = {"api"}
  RunIds = {"c1"}
  ActivityCap = 2
  Clients = {"c1"}
  MaxStatus = 1
  MaxCalls = 3
  Lossy = TRUE
INVARIANTS RefsIntact OutcomeIsLast
PROPERTIES DecisionStands DashboardNeverBlocks
CHECK_DEADLOCK FALSE
