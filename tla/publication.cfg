\* Two publishers; an event may be carried by two messages, each received up to
\* twice; two attempts and two generations; one fault.
CONSTANTS
  Publishers = {p1, p2}
  MaxCopies = 2
  MaxReceive = 2
  MaxAttempts = 2
  MaxGenerations = 2
  Lease = 1
  Tries = 2
  MaxFaults = 1
  None = None
SPECIFICATION FairSpec
INVARIANTS
  SchemaHolds
  OneWorkingLease
PROPERTIES
  ClosedByItsHolder
  EveryPublicationSettles
CHECK_DEADLOCK FALSE
