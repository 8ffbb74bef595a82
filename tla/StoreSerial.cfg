SPECIFICATION Spec
CONSTANTS
  RecoveryThreshold = 2
  ActiveRecoveryThreshold = 2
  DecayPerInactiveCycle = 40
  DecayRecoveryPerCycle = 25
  RetirementThreshold = 65
  NoEntry = NoEntry
  Unregistered = Unregistered
  s1 = s1
  s2 = s2
  daemon = daemon
  operator = operator
  w1 = w1
  w2 = w2
  Strategies = {s1, s2}
  Processes = {daemon}
  Kinds <- EveryCall
  Threads = {}
  Empty = Empty
  Garbled = Garbled
  Nothing = Nothing
  MaxCalls = 4
  MaxCrashes = 2
  MaxSyncFailures = 1
SYMMETRY Symmetric
CHECK_DEADLOCK FALSE
INVARIANTS
  TypeOK
  ProbationIsEarned
  ListedWhileUnderRecovery
  RegistryFollowsHealth
  RetirementReachesRegistry
