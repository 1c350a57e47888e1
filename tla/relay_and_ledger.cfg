\* The relay: two events in one batch, which is dropped at its second failure; a sweep
\* takes one row, so what is published must make room for what is not.
\* The ledger: a collector, a completing consumer and two operators that repeat their
\* operations; one replay is allowed, so the budget is reached.
CONSTANTS
  OutboxEvents = {e1, e2}
  BatchSize = 2
  Retries = 1
  SweepLimit = 1
  StaleAfter = 1
  MaxClock = 2
  MaxCallFaults = 2
  Collectors = {k1}
  Completers = {h1}
  Operators = {o1, o2}
  ReplayBudget = 1
  Attempts = 2
  MaxFaults = 1
  NoRecord = NoRecord
  NoEvent = NoEvent
SPECIFICATION BothSpec
INVARIANTS
  PublishedIsOnTheBus
  AckIsDurable
PROPERTIES
  EveryEventIsPublished
  CollectionsSettle
CHECK_DEADLOCK FALSE
