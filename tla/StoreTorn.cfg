SPECIFICATION Spec
CONSTANTS
  RecoveryThreshold = 2
  ActiveRecoveryThreshold = 2
  DecayPerInactiveCycle = 12
  DecayRecoveryPerCycle = 5
  RetirementThreshold = 65
  NoEntry = NoEntry
  Unregistered = Unregistered
  s1 = s1
  s2 = s2
  daemon = daemon
  operator = operator
  w1 = w1
  w2 = w2
  Strategies = {s1, s2}
  Processes = {daemon}
  Kinds <- CycleOnly
  Threads = {}
  Empty = Empty
  Garbled = Garbled
  Nothing = Nothing
  MaxCalls = 1
  MaxCrashes = 1
  MaxSyncFailures = 0
SYMMETRY Symmetric
CHECK_DEADLOCK FALSE
INVARIANTS
  AtomicStateWrites
