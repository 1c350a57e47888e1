---------------------------- MODULE MCWorkflowPump ----------------------------
(* One event for two consumers and one for the first of them, which may be the   *)
(* request of a report; nobody consumes its completion.                          *)
EXTENDS ContentServer, TLC

CONSTANTS c1, c2, e1, e2, e3

Fanout == (e1 :> {c1, c2}) @@ (e2 :> {c1}) @@ (e3 :> {})
CompletionOf == e2 :> e3

Ask(route, flaw) == [route |-> route, flaw |-> flaw]
SomeAsks ==
  {Ask("report", "none"), Ask("report", "inventory"), Ask("report", "fixture"),
   Ask("health", "none"), Ask("result", "none")}
=============================================================================
