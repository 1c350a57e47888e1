-------------------------- MODULE MCDispatchAndLab --------------------------
(* The dispatch with a handful of invocations, in two scenes: an empty store, *)
(* and a stored resource that two commands want to change.  Two inputs meet   *)
(* where a key creates a named resource; the other requests come with one.    *)
(* Or the local lab with two commands at once.  The two share no state: one   *)
(* run checks both, each with the other at rest.                              *)
EXTENDS CommandDispatch, LocalLab

CONSTANTS create, update, change, named, p1

Empty ==
  [stored |-> {},
   requests |-> { q \in Requests : /\ q.key \in {create, update}
                                   /\ q.payload = p1 \/ (q.key = create /\ q.resource = named) }]
Stored ==
  [stored |-> {named},
   requests |-> { q \in Requests : /\ q.key \in {update, change}
                                   /\ q.payload = p1 /\ q.resource = named }]
TwoScenes == {Empty, Stored}
-----------------------------------------------------------------------------
VARIABLE side      \* which of the two moves

bothVars == <<side, vars, labVars>>

OfDispatch == side = "dispatch" /\ UNCHANGED <<side, labVars>>
OfLab == side = "lab" /\ UNCHANGED <<side, vars>>

BothInit ==
  /\ side \in {"dispatch", "lab"} /\ Init /\ LabInit
  /\ side = "lab" => scene = Empty
BothNext == (OfDispatch /\ Next) \/ (OfLab /\ LabNext)

\* The lab's fairness, where the lab moves.
BothSpec ==
  /\ BothInit /\ [][BothNext]_bothVars
  /\ SF_bothVars(OfLab /\ \E s \in Sessions : Work(s))
  /\ WF_bothVars(OfLab /\ \E s \in Sessions : ~Holds(s) /\ Throw(s))
  /\ WF_bothVars(OfLab /\ \E s \in Sessions : Open(s, "down"))
  /\ WF_bothVars(OfLab /\ RemoveStaleLock)
  /\ \A r \in Runtimes : WF_bothVars(OfLab /\ Removed(r))
  /\ WF_bothVars(OfLab /\ leaving /\ ForeignLeaves)
=============================================================================
