SPECIFICATION Spec
CONSTANTS
  Pids = {1, 2}
  Slack = 0
  PsFails = FALSE
  MaxStarts = 3
  MaxClock = 0
  MaxAppends = 3
INVARIANT LogReadable
CHECK_DEADLOCK FALSE
