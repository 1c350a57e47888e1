\* Two overlapping invocations, two candidates, three edits of the listing, one fault.
CONSTANTS
  i1 = i1
  i2 = i2
  Invocations = {i1, i2}
  Candidates = {1, 2}
  MaxTime = 2
  MaxEdits = 3
  MaxFaults = 1
  None = None
SPECIFICATION FairSpec
PROPERTIES
  PassIsComplete
  EveryDueRowIsProcessed
CHECK_DEADLOCK FALSE
