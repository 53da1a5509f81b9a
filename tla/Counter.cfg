SPECIFICATION Spec
CONSTANTS
  p1 = p1
  p2 = p2
  Pollers = {p1, p2}
  Mod32 = 2
  Mod64 = 4
  Offers <- BothWidths
  Partial = TRUE
  MaxTotal = 4
  MaxTime = 2
  MaxReboots = 1
  NoEntry = NoEntry
SYMMETRY PollerSymmetry
INVARIANTS
  TypeOK
  DeltaIsIncrease
  NeverOverReports
CHECK_DEADLOCK FALSE
