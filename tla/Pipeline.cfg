SPECIFICATION Spec
CONSTANTS
  w1 = w1
  w2 = w2
  Workers = {w1, w2}
  BufferSize = 1
  TrapBuffer = 1
  TrapEnabled = TRUE
  MaxJobs = 2
  MaxTraps = 2
  NoMsg = NoMsg
  Nobody = Nobody
INVARIANTS
  TypeOK
  NoPanic
  DrainedAtStop
PROPERTY
  ImplementsQueue
SYMMETRY Interchangeable
