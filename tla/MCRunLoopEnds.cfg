SPECIFICATION FairSpec
CONSTANTS
  MaxRounds = 2
  Parallel = 2
  MaxNodes = 3
  PlateauRounds = 1
  Calls = 1
  Explore = FALSE
  ReproduceWinner = FALSE
  Withheld = FALSE
  MaxCost = 1
  Baseline = 2
  Flaws = {"agent"}
  Throws = FALSE
  Escapes = TRUE
  MaxCrashes = 0
  MaxLeaks = 0
  Costs = {0,1}
INVARIANT SpendBound
PROPERTY EngineEnds
CHECK_DEADLOCK FALSE
