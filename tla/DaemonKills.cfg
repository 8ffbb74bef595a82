SPECIFICATION Spec
CONSTANTS
  RecoveryThreshold = 2
  ActiveRecoveryThreshold = 2
  DecayPerInactiveCycle = 12
  DecayRecoveryPerCycle = 5
  RetirementThreshold = 65
  NoEntry = NoEntry
  Unregistered = Unregistered
  Nothing = Nothing
  s1 = s1
  s2 = s2
  daemon = daemon
  operator = operator
  Strategies = {s1}
  Daemon = daemon
  Commands = {operator}
  MaxPositions = 3
  DrawdownLimit <- PaperLimit
  LossStreakLimit = 4
  InitialPairs <- AnyPair
  Environment = {"evolve", "drift", "execute"}
  Generated <- DeployableOnly
  MaxCommandCalls = 2
  MaxSyncFailures = 1
  MaxKills = 1
INVARIANTS
  TypeOK
  NoCapitalAfterDriftQuarantine
  QuarantinedIsNotACandidate
PROPERTIES
  FillsReleaseOnlyAfterThreshold
