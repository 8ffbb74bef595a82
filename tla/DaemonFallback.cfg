SPECIFICATION SupervisedSpec
CONSTANTS
  RecoveryThreshold = 2
  ActiveRecoveryThreshold = 2
  DecayPerInactiveCycle = 12
  DecayRecoveryPerCycle = 5
  RetirementThreshold = 65
  NoEntry = NoEntry
  Unregistered = Unregistered
  Nothing = Nothing
  s1 = s1
  s2 = s2
  daemon = daemon
  operator = operator
  Strategies = {s1, s2}
  Daemon = daemon
  Commands = {}
  MaxPositions = 3
  DrawdownLimit <- PaperLimit
  LossStreakLimit = 4
  InitialPairs <- MixedPairs
  Environment = {}
  Generated <- DeployableOnly
  MaxCommandCalls = 0
  MaxSyncFailures = 0
  MaxKills = 0
PROPERTIES
  LadderFallsBack
