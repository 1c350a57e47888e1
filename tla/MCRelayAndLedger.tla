-------------------------- MODULE MCRelayAndLedger --------------------------
(* The relay of the outbox, or the failure ledger of one consumer of the events *)
(* that are on the bus.  The two share no state: one run checks both, each with *)
(* the other at rest.                                                           *)
EXTENDS OutboxRelay, FailureLedger

VARIABLE side      \* which of the two moves

bothVars == <<side, relayVars, vars>>

OfRelay == side = "relay" /\ UNCHANGED <<side, vars>>
OfLedger == side = "ledger" /\ UNCHANGED <<side, relayVars>>

BothInit == side \in {"relay", "ledger"} /\ RelayInit /\ Init
BothNext == (OfRelay /\ RelayNext) \/ (OfLedger /\ Next)

\* RelayFairness and the ledger's, for the side that moves.
BothSpec ==
  /\ BothInit /\ [][BothNext]_bothVars
  /\ WF_bothVars(OfRelay /\ TimePasses)
  /\ WF_bothVars(OfRelay /\ Dispatch)
  /\ WF_bothVars(OfRelay /\ SweepOnce)
  /\ \A e \in OutboxEvents : WF_bothVars(OfRelay /\ Propagate(e))
  /\ \A a \in Actors : WF_bothVars(OfLedger /\ Step(a))
  /\ \A a \in Collectors, g \in Generations : SF_bothVars(OfLedger /\ Redeliver(a, g))
=============================================================================
