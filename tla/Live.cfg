SPECIFICATION Spec
CONSTANTS
  f1 = f1
  c1 = c1
  c2 = c2
  MaxStarts = 2
  MaxOrphans = 1
  Facts = {f1}
  HaltScore = 1
  Callers = {c1, c2}
  MaxSessionCalls = 2
INVARIANTS
  TypeOK
  NothingAfterStop
PROPERTIES
  StoppedComesToRest
  DivergenceHalts
  StreamComesBack
  SilentSessionsReconnect
CHECK_DEADLOCK FALSE
