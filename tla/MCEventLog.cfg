SPECIFICATION Spec
CONSTANTS
  Writers = {w1, w2}
  CutWrites = TRUE
  IoErrors = TRUE
  MaxAppends = 4
  MaxSessions = 3
INVARIANTS FileInSeqOrder AtMostOneLost
PROPERTY AckedStays
CHECK_DEADLOCK FALSE
