SPECIFICATION Spec
CONSTANTS
  Main = Main
  r1 = r1
  r2 = r2
  g1 = g1
  g2 = g2
  o1 = o1
  o2 = o2
  x = x
  y = y
  Reloaders = {r1, r2}
  Slots <- MCSlots
  Contents <- MCContents
  InitDisk <- MCDisk
  MaxTrouble = 2
  MaxReloads = 2
  Unreadable = Unreadable
  NoFile = NoFile
INVARIANTS
  TypeOK
  QuietReload
  RunsWholeLoads
SYMMETRY Interchangeable
CHECK_DEADLOCK FALSE
