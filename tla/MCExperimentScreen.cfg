SPECIFICATION Spec
CONSTANTS
  MaxLines = 2
  Gates = 2
  Values = {0, 3, 4}
  Samples = 3
  MinImprovementPct = 10
  MaxNoisePct = 30
INVARIANT CleanIsPinned
CHECK_DEADLOCK FALSE
