SPECIFICATION FairViewSpec
CONSTANTS
  Writers = {w1}
  CutWrites = FALSE
  IoErrors = FALSE
  MaxAppends = 4
  MaxSessions = 2
  MaxFlight = 2
INVARIANTS AlwaysReadable SentOnceInOrder
PROPERTIES ImplementsDurableLog PageCatchesUp
CHECK_DEADLOCK FALSE
