\* A new item or one of four kinds, three versions, two keys, one fault, as in
\* page.cfg: what the user entered while a command, a poll or a comparison was under way.
CONSTANTS
  a = a
  b = b
  author = author
  editor = editor
  Texts = {a, b}
  FirstVersions <- Items
  MaxVersions = 3
  MaxKeys = 2
  MaxFaults = 1
  Candidates = {1, 2}
  MaxTime = 2
  MaxEdits = 1
  Queries <- Lists
  Budget = 2
  Authors = {author}
  Editors = {editor}
  MaxReviews = 2
  MaxPast = 3
  None = None
SPECIFICATION BrowserSpec
INVARIANT TypedIsKept
CHECK_DEADLOCK FALSE
