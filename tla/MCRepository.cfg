SPECIFICATION Spec
CONSTANTS
  Commands = {c1, c2, c3}
  Runs = {1}
  PerRun = 2
  Tears = TRUE
SYMMETRY CommandSymmetry
INVARIANTS VerifiedComplete NoLeftovers RecordedReachable
CHECK_DEADLOCK FALSE
