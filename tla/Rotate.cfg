SPECIFICATION Spec
CONSTANTS
  MaxBytes = 4
  BackupLimits = {0, 2}
  Lengths = {1, 5}
  Leftover = 4
  MaxWrites = 6
  MaxFiles = 11
  MaxCrashes = 2
  MaxMisses = 1
  MaxFaults = 1
  Absent = Absent
INVARIANTS
  TypeOK
  FilesInOrder
  KeepsNewest
  KeepsAll
  SizeIsCurrent
  SizeBound
  BackupBound
CHECK_DEADLOCK FALSE
