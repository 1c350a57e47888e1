\* Two creations with one key, in memory or on AWS, over generated requests: what the
\* second is told that found no key when it looked, and found it taken at its commit.
CONSTANTS
  c1 = c1
  c2 = c2
  named = named
  key = key
  Calls = {c1, c2}
  Ids = {named, g1, g2}
  Keys = {key}
  Requests <- SomeRequests
  Malformed = {poison}
  NoId = NoId
  NoKey = NoKey
  NoRow = NoRow
  StaleAfter = 0
  PageRows = 1
  BatchSize = 2
  MaxReceive = 2
  MaxTime = 0
  MaxFaults = 0
  MaxLoads = 1
  MaxLosses = 0
SPECIFICATION PagesSpec
INVARIANTS
  OneKeyOneResponse
CHECK_DEADLOCK FALSE
