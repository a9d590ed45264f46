SPECIFICATION Spec
CONSTANTS
  MaxRounds = 2
  Parallel = 2
  MaxNodes = 2
  PlateauRounds = 1
  Calls = 1
  Explore = FALSE
  ReproduceWinner = TRUE
  Withheld = TRUE
  MaxCost = 2
  Baseline = 3
  Flaws = {"pins", "bench", "gate"}
  Throws = TRUE
  Escapes = FALSE
  MaxCrashes = 1
  MaxLeaks = 1
  Costs = {0}
INVARIANT OnlySoundAccepted
INVARIANT LaterRoundsBetter
INVARIANT AcceptedBranchesKept
INVARIANT NodeLimit
INVARIANT FinishIsClean
INVARIANT ReceiptsTellLog
PROPERTY DecisionsFinal
CHECK_DEADLOCK FALSE
