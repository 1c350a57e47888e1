\* One item, one attachment, two workers with two optimistic attempts, one fault.
CONSTANTS
  Workers = {w1, w2}
  RetryBudget = 2
  MaxFaults = 1
  Assets = {a1}
  Digests = {d1}
  ActiveAssets = 1
  UploadLifetime = 1
  Day = 1
  MaxVersion = 5
  MaxTime = 1
  None = None
SPECIFICATION NoticeSpec
SYMMETRY Symmetry
INVARIANTS
  NeverRefused
  Converged
  ToldOnce
CHECK_DEADLOCK FALSE
