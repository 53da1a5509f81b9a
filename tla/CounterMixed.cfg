SPECIFICATION Spec
CONSTANTS
  p1 = p1
  p2 = p2
  Pollers = {p1}
  Mod32 = 4
  Mod64 = 8
  Offers <- BothWidths
  Partial = TRUE
  MaxTotal = 7
  MaxTime = 4
  MaxReboots = 0
  NoEntry = NoEntry
INVARIANT
  DeltaSinceLast
CHECK_DEADLOCK FALSE
