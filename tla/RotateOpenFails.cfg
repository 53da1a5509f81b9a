SPECIFICATION Spec
CONSTANTS
  MaxBytes = 4
  BackupLimits = {2}
  Lengths = {1, 2, 6}
  Leftover = 0
  MaxWrites = 6
  MaxFiles = 9
  MaxCrashes = 0
  MaxMisses = 0
  MaxFaults = 1
  Absent = Absent
INVARIANT
  NothingRefused
CHECK_DEADLOCK FALSE
