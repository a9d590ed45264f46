CONSTANTS
  Regions = {1, 2, 3}
  Patches = {{1}, {1, 3}}
  Intents = {"change", "inquiry"}
  InstallCmd = TRUE
  MaxRepairs = 1
  BudgetUsd = 1
  Costs = {0, 1}
  Flaws = {"agent", "pins", "empty", "detector", "gate"}
  Interactive = FALSE
  Interrupts = TRUE
  Kills = FALSE
  Throws = FALSE
  Sweeps = FALSE
  MaxEdits = 0
SPECIFICATION Spec
PROPERTY
  InterruptedUntouched
CHECK_DEADLOCK FALSE
