CONSTANTS
  Regions = {1, 2, 3}
  Patches = {{1}, {1, 3}}
  Intents = {"change", "inquiry"}
  InstallCmd = TRUE
  MaxRepairs = 1
  BudgetUsd = 1
  Costs = {0, 1}
  Flaws = {"agent", "pins", "empty", "detector", "gate"}
  Interactive = TRUE
  Interrupts = TRUE
  Kills = TRUE
  Throws = TRUE
  Sweeps = TRUE
  MaxEdits = 2
SPECIFICATION FairSpec
INVARIANTS
  OnlyCheckedOffered
  AcceptedIsRecoverable
  SpendBound
  LogTellsOutcome
  EndsClean
PROPERTIES
  UserEditsSurvive
  AppliedWhole
  FlowEnds
CHECK_DEADLOCK FALSE
