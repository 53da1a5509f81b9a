SPECIFICATION Spec
CONSTANTS
  w1 = w1
  w2 = w2
  w3 = w3
  d1 = d1
  d2 = d2
  c1 = c1
  c2 = c2
  c3 = c3
  s1 = s1
  s2 = s2
  s3 = s3
  s4 = s4
  k1 = k1
  k2 = k2
  Workers = {w1}
  Closers = {k1}
  Devices = {d1}
  Configs = {c1, c2}
  Conns = {s1, s2}
  InitConfig <- AllC1
  MaxPolls <- Polls
  MaxIdlePerDevice = 0
  IdleTimeout = 1
  MaxReloads = 1
  NoConn = NoConn
  NoJob = NoJob
  NoCloser = NoCloser
INVARIANT
  SessionMatchesJob
