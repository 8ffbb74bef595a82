SPECIFICATION Spec
CONSTANTS
  t1 = t1
  t2 = t2
  Tasks = {t1, t2}
  Quantities = {1, 2}
  max_attempts = 2
  MaxCalls = 1
  MaxFaults = 2
  MaxFeedFaults = 0
CHECK_DEADLOCK FALSE
INVARIANTS
  JournalKnowsOpenOrders
