--------------------------- MODULE MCWorkRequests ---------------------------
(* Model values and requests for the run of WorkRequests.                    *)
EXTENDS StarterPages

CONSTANTS c1, c2, named, key

AskedFor(command, id, status, k, role) ==
  [command |-> command, id |-> id, status |-> status, key |-> k, role |-> role, flaw |-> "none"]

\* A keyed and a named creation, changes of the named request with and without
\* the same key, one by a caller who may not, and three that are no commands.
SomeRequests ==
  { AskedFor("create", NoId, "none", key, "user"),
    AskedFor("create", named, "none", NoKey, "user"),
    AskedFor("changeStatus", named, "open", NoKey, "manager"),
    AskedFor("comment", named, "none", key, "user"),
    AskedFor("close", named, "none", NoKey, "manager"),
    AskedFor("close", named, "none", NoKey, "user") }
  \cup {[AskedFor("close", named, "none", NoKey, "manager") EXCEPT !.flaw = flaw] :
          flaw \in {"identity", "route", "body"}}
=============================================================================
