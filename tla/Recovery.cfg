SPECIFICATION Spec
CONSTANTS
  o1 = o1
  f1 = f1
  a1 = a1
  n1 = n1
  n2 = n2
  p1 = p1
  p2 = p2
  c1 = c1
  c2 = c2
  Orders = {o1}
  Fills = {f1}
  Assets = {a1}
  MaxEvents = 4
  MaxStarts = 2
  Names = {n1, n2}
  NormalName <- LegacyNames
  Processes = {p1, p2}
  StartFiles <- AnyFile
  MaxCalls = 3
  Callers = {c1, c2}
  MaxSessionCalls = 4
INVARIANTS
  TypeOK
  RecoveryIsExplained
  LostUpsertsHaveACause
  LoadsSettle
  SessionTellsTheTruth
PROPERTIES
  BlockedRecoveryHasACause
CHECK_DEADLOCK FALSE
