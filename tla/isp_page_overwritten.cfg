SPECIFICATION IspSpec
CONSTANTS
  MaxFlips = 5
  Overlap = TRUE
INVARIANTS
  FetchedHalfStable
CHECK_DEADLOCK FALSE
