SPECIFICATION FairSpec
CONSTANTS
  t1 = t1
  t2 = t2
  Tasks = {t1, t2}
  Quantities = {1, 2}
  max_attempts = 2
  MaxCalls = 3
  MaxFaults = 2
  MaxFeedFaults = 1
CHECK_DEADLOCK FALSE
INVARIANTS
  TypeOK
  JournalReplaysOrder
  SettledOrderAgrees
  OverfillHasACause
PROPERTIES
  LifecycleSpec
  CallsEnd
  CancellationsResolve
