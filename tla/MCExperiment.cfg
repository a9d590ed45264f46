SPECIFICATION FairSpec
CONSTANTS
  MaxLines = 2
  Gates = 2
  Values = {0, 3, 4}
  Samples = 3
  MinImprovementPct = 10
  MaxNoisePct = 30
INVARIANTS AcceptedIsSound OutcomeTellsOutput ServersStopped WinsGuarded ResampledMedian
PROPERTY EvaluationEnds
CHECK_DEADLOCK FALSE
