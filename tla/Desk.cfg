SPECIFICATION Spec
CONSTANTS
  btc = btc
  eth = eth
  sol = sol
  Markets = {btc, eth}
  Prices = {10000, 10100}
  Slippages = {2, 30}
  Quantities = {2}
  StartingEquity = 100000
  FeeRate = 4
  MaxOrders = 3
  MaxBatch = 2
  MaxMoves = 2
  StartRows <- OfferedRows
  Policies <- DeskPolicies
  Tolerance = 40
  Families <- AllFamilies
  Symbols <- TwoPairs
  Cycles <- CallsOfTheCycle
  Figures <- CandidateFigures
  WorkerCount = 2
  BatchSize = 2
  Closes <- FrameCloses
  EarlierExperiments <- StoredExperiments
  Grids = {0, 2}
  MaxSignals = 2
  Confidences = {10, 150}
  Sharpes = {0, 80}
  InitialCapital = 100000
  RiskPct = 2
  MaxPositions = 5
  ExposurePct = 35
  FeeBps = 10
  SlippageBps = 5
  HoldingBars = 3
  MinTrades = 2
  MaxDrawdown = 15
  MinSharpe = 50
  MaxRatio = 2
  TrainSize = 1
  TestSize = 2
  StepSize = 2
  Returns <- TradeReturns
  MaxReturns = 3
  Variabilities = {0, 34, 100}
  Simulations = 2
INVARIANTS
  TypeOK
  NoEdgeOnPaper
  PromotionsAreNovel
  CyclesAddUp
  DrawdownNotUnderstated
  WindowsAreApart
PROPERTIES
  ChoiceMade
CHECK_DEADLOCK FALSE
