SPECIFICATION FairSpec
CONSTANTS
  Pids = {1, 2}
  Slack = 0
  PsFails = TRUE
  MaxStarts = 3
  MaxClock = 1
  MaxAppends = 3
INVARIANTS FinishIsFinal MutualExclusion
PROPERTY StaleLockTaken
CHECK_DEADLOCK FALSE
