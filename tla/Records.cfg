SPECIFICATION Spec
CONSTANTS
  Bits = 4
  DeltaEnabled = TRUE
  Objects <- MCObjects
  Devices <- MCDevices
  Registries <- MCRegistries
  Packets <- MCPackets
  MaxOids = 2
  Labels <- MCLabels
  SpelledTrapInfo <- MCSpelled
  Nothing = Nothing
INVARIANTS
  TypeOK
  Complete
  TagsOwnRow
  EnumsByAttribute
  DropsExplained
  RightFile
  PayloadKept
CHECK_DEADLOCK FALSE
