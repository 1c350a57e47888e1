\* Three deliveries, a job table with two places, passes of two, two attempts and
\* three faults, so that a job can be given up; a server with one place and two
\* connections over one report.
CONSTANTS
  c1 = c1
  c2 = c2
  e1 = e1
  e2 = e2
  e3 = e3
  Events = {e1, e2, e3}
  Consumers = {c1, c2}
  Targets <- Fanout
  Drains = {d1}
  Commands = {x1, x2}
  Driver = Driver
  MaxJobs = 2
  Limit = 2
  MaxAttempts = 2
  MaxFaults = 3
  NoPass = NoPass
  Facts = {e2}
  Completion <- CompletionOf
  Callers = {x1}
  Asks <- SomeAsks
  MaxInFlight = 1
SPECIFICATION FairApiSpec
INVARIANTS
  NothingSlips
  CloseIsFinal
PROPERTIES
  ClosedIsQuiet
  EveryEventSettles
CHECK_DEADLOCK FALSE
