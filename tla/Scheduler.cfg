SPECIFICATION FairSpec
CONSTANTS
  a = a
  b = b
  c = c
  Hosts = {a, b, c}
  Cfgs <- MCCfgs
  InitCfg <- MCInit
  MaxTime = 5
  Settle = 3
  MaxReloads = 2
INVARIANTS
  TypeOK
  SortedAtFire
PROPERTIES
  FiresAllDue
  DueIsPolled
  StopReturns
CHECK_DEADLOCK FALSE
