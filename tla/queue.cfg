\* Two queues in turn.  One holds an event, a recovery and a recovery of another
\* consumer, and hands out one message at a time; the other hands
\* out batches of two over two messages of one event and one nobody accepts.
\* Two workers, a marker store with one place, markers that expire.
CONSTANTS
  e1 = e1
  r1 = r1
  f1 = f1
  m1 = m1
  m2 = m2
  m3 = m3
  m4 = m4
  Events = {e1, r1, f1}
  Recoveries = {r1, f1}
  Foreign = {f1}
  Handlers = {h1, h2}
  Collectors = {k1}
  InMemory = TRUE
  Capacity = 1
  MarkerTTL = 1
  MaxTime = 2
  MaxFaults = 1
  Messages = {m1, m2, m3, m4}
  Bodies <- OneOfTwo
  Refused = {m3}
  BatchSize = 2
  MaxReceive = 2
SPECIFICATION QueueFairSpec
INVARIANTS
  MarkedIsDone
PROPERTIES
  EveryMessageSettles
CHECK_DEADLOCK FALSE
