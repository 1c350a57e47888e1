\* The dispatch: two invocations.  In one scene the store is empty, and the requests
\* carry a creating and an updating key for a named or a generated resource; in the
\* other they carry two updating keys for a resource that is stored.  Rows expire
\* while an invocation that began before runs.
\* The lab: two sessions, one Lambda runtime, six kinds of services, two faults; two
\* owners of the lab after each other.
CONSTANTS
  create = create
  update = update
  change = change
  named = named
  p1 = p1
  Calls = {c1, c2}
  Keys = {create, update, change}
  CreateKeys = {create}
  Resources = {named}
  Generated = {g1}
  Payloads = {p1, p2}
  NoId = NoId
  Scenes <- TwoScenes
  TTL = 2
  Lifetime = 1
  MaxTime = 2
  MaxLookups = 2
  Sessions = {s1, s2}
  Runtimes = {r1}
  Kinds = {"bucket", "bus", "queue", "role", "function", "rule"}
  Nothing = Nothing
  MaxMishaps = 2
  MaxOwners = 2
SPECIFICATION BothSpec
INVARIANTS
  NoLostUpdate
  OncePerWindow
  NothingIsOrphaned
PROPERTIES
  KeepsPromise
  ForeignIsUntouched
  DownSucceeds
CHECK_DEADLOCK FALSE
