\* Two commands, in memory or on AWS, over a named and two generated requests; a
\* message without an event; two receives lead to the dead-letter queue.
CONSTANTS
  c1 = c1
  c2 = c2
  named = named
  key = key
  Calls = {c1, c2}
  Ids = {named, g1, g2}
  Keys = {key}
  Requests <- SomeRequests
  Malformed = {poison}
  NoId = NoId
  NoKey = NoKey
  NoRow = NoRow
  StaleAfter = 0
  PageRows = 1
  BatchSize = 2
  MaxReceive = 2
  MaxTime = 2
  MaxFaults = 1
  MaxLoads = 2
  MaxLosses = 1
SPECIFICATION StarterSpec
INVARIANTS
  AnswersFitEffects
  ListIsCurrent
  OwnCommandIsShown
PROPERTIES
  StaleInReachIsReminded
  EventsSettle
CHECK_DEADLOCK FALSE
