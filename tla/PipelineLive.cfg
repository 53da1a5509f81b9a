SPECIFICATION FairSpec
CONSTANTS
  w1 = w1
  w2 = w2
  Workers = {w1}
  BufferSize = 1
  TrapBuffer = 1
  TrapEnabled = TRUE
  MaxJobs = 3
  MaxTraps = 1
  NoMsg = NoMsg
  Nobody = Nobody
PROPERTIES
  ShutdownCompletes
  ResultsMove
