\* Two attachments of which one may be active, two uploads with two contents, two
\* UTC days.  Editors alone: seven commands; with uploads: four.
CONSTANTS
  Uploads = {u1, u2}
  Attempts = 2
  OrphanAge = 1
  Assets = {a1, a2}
  Digests = {d1, d2}
  ShortHistory = 4
  ActiveAssets = 1
  UploadLifetime = 1
  Day = 2
  MaxVersion = 7
  MaxTime = 3
  None = None
SPECIFICATION UploadSpec
SYMMETRY Symmetry
CONSTRAINT Bounded
INVARIANTS
  VerifiedIsStored
  AnswersHold
  ContentSchema
  ListingsAreCurrent
CHECK_DEADLOCK FALSE
