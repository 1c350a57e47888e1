---------------------------- MODULE EventDelivery ----------------------------
(***************************************************************************)
(* Delivering an event to a consumer: handle runs the consumer's handler,  *)
(* collect records that the transport gave up on it.  Both look up a       *)
(* processing marker first and write it last; a marker deduplicates what   *)
(* was finished and locks nothing, so deliveries of one event overlap, die *)
(* between any two steps and find the marker store full or expired.        *)
(***************************************************************************)
EXTENDS Naturals, FiniteSets

CONSTANTS
  Events,       \* transport events of one consumer
  Recoveries,   \* those that carry recovery metadata of an operator's replay
  Foreign,      \* recoveries addressed to another consumer of the event
  Handlers,     \* concurrent invocations of handle
  Collectors,   \* concurrent invocations of collect
  InMemory,     \* the in-memory marker store, with its capacity, or DynamoDB's
  Capacity,     \* markers of one kind the in-memory store holds
  MarkerTTL,    \* how long a marker stands (7 days)
  MaxTime,      \* bound on the clock
  MaxFaults     \* bound on failing reads, handlers, completions and writes

ASSUME DeliveryAssumption ==
  /\ Foreign \subseteq Recoveries /\ Recoveries \subseteq Events /\ Events # {}
  /\ Handlers \cap Collectors = {}
  /\ IsFiniteSet(Events) /\ IsFiniteSet(Handlers)
  /\ InMemory \in BOOLEAN
  /\ {Capacity, MarkerTTL} \subseteq Nat \ {0}
  /\ {MaxTime, MaxFaults} \subseteq Nat

VARIABLES
  clock,
  marker,       \* per kind and event, the second its marker expires; 0 without one
  delivery,     \* the running or returned invocation of each caller
  handled,      \* how often the business handler took effect, up to Many
  completed,    \* recoveries the failure service has completed
  collected,    \* events the failure service has collected
  faults

vars == <<clock, marker, delivery, handled, completed, collected, faults>>
-----------------------------------------------------------------------------
Callers == Handlers \cup Collectors
Kinds == {"delivery", "collection"}
KindOf(d) == IF d \in Handlers THEN "delivery" ELSE "collection"
Many == Cardinality(Handlers) + 1

Idle == [pc |-> "idle", event |-> CHOOSE e \in Events : TRUE, result |-> "none"]
Results == {"none", "processed", "duplicate", "ignored", "deferred", "error"}

Live(expiry) == expiry > clock
Marked(kind, e) == Live(marker[kind][e])

\* An access to the in-memory store drops what has expired, so only markers
\* that stand count; DynamoDB's table is never full.
Full(kind) == InMemory /\ Cardinality({e \in Events : Marked(kind, e)}) >= Capacity

Init ==
  /\ clock = 0
  /\ marker = [kind \in Kinds |-> [e \in Events |-> 0]]
  /\ delivery = [d \in Callers |-> Idle]
  /\ handled = [e \in Events |-> 0]
  /\ completed = {}
  /\ collected = {}
  /\ faults = 0

Tick ==
  /\ clock < MaxTime
  /\ clock' = clock + 1
  /\ UNCHANGED <<marker, delivery, handled, completed, collected, faults>>
-----------------------------------------------------------------------------
Goto(d, pc) == delivery' = [delivery EXCEPT ![d].pc = pc]
Return(d, result) ==
  delivery' = [delivery EXCEPT ![d].pc = "returned", ![d].result = result]

\* A call that throws, an abort signal or the end of the process: the
\* invocation ends without an answer that would acknowledge the event.
Fail(d) ==
  /\ faults < MaxFaults
  /\ faults' = faults + 1
  /\ Return(d, "error")

Quiet == UNCHANGED faults

\* The entry points validate and validateCollection read and change nothing;
\* what they can do to a caller is fail.
ValidationFails ==
  /\ faults < MaxFaults
  /\ faults' = faults + 1
  /\ UNCHANGED <<clock, marker, delivery, handled, completed, collected>>

\* handle and collect validate on their own first: parse, subscription, the
\* authorization of a recovery, which also finds its addressee.
Begin(d, e) ==
  /\ delivery[d].pc = "idle"
  /\ \/ /\ Quiet
        /\ delivery' = [delivery EXCEPT ![d] =
             IF e \in Foreign THEN [pc |-> "returned", event |-> e, result |-> "ignored"]
             ELSE [pc |-> "check", event |-> e, result |-> "none"]]
     \/ Fail(d)
  /\ UNCHANGED <<clock, marker, handled, completed, collected>>

Check(d) ==
  /\ delivery[d].pc = "check"
  /\ LET kind == KindOf(d) IN
     \/ /\ Quiet
        /\ IF Marked(kind, delivery[d].event) THEN Return(d, "duplicate")
           ELSE IF Full(kind) THEN Return(d, "deferred")
           ELSE Goto(d, "work")
     \/ Fail(d)
  /\ UNCHANGED <<clock, marker, handled, completed, collected>>

Counted(n) == IF n = Many THEN n ELSE n + 1

\* The consumer's handler; one that throws may have taken effect all the same.
Handle(d) ==
  /\ d \in Handlers /\ delivery[d].pc = "work"
  /\ LET e == delivery[d].event IN
     \/ /\ Quiet
        /\ handled' = [handled EXCEPT ![e] = Counted(@)]
        /\ Goto(d, IF e \in Recoveries THEN "complete" ELSE "mark")
     \/ /\ Fail(d)
        /\ handled' \in {handled, [handled EXCEPT ![e] = Counted(@)]}
  /\ UNCHANGED <<clock, marker, completed, collected>>

\* Seeded fault: a failure of the completion is swallowed.
Complete_BestEffort(d) ==
  /\ delivery[d].pc = "complete"
  /\ \/ completed' = completed \cup {delivery[d].event} /\ Quiet
     \/ faults < MaxFaults /\ faults' = faults + 1 /\ UNCHANGED completed
  /\ Goto(d, "mark")
  /\ UNCHANGED <<clock, marker, handled, collected>>

\* failures.complete, before the marker is written.
Complete(d) ==
  /\ delivery[d].pc = "complete"
  /\ \/ completed' = completed \cup {delivery[d].event} /\ Quiet /\ Goto(d, "mark")
     \/ Fail(d) /\ completed' \in {completed, completed \cup {delivery[d].event}}
  /\ UNCHANGED <<clock, marker, handled, collected>>

\* failures.collect
Collect(d) ==
  /\ d \in Collectors /\ delivery[d].pc = "work"
  /\ LET after == collected \cup {delivery[d].event} IN
     \/ collected' = after /\ Quiet /\ Goto(d, "mark")
     \/ Fail(d) /\ collected' \in {collected, after}
  /\ UNCHANGED <<clock, marker, handled, completed>>

\* Another delivery may have taken the last place since the check.
NoRoom(kind, e) == ~Marked(kind, e) /\ Full(kind)

\* The in-memory store renews a marker that stands, DynamoDB's leaves it.
Expiry(kind, e) ==
  IF Marked(kind, e) /\ ~InMemory THEN marker[kind][e] ELSE clock + MarkerTTL

\* A write whose answer is lost is settled by reading the marker back; where the
\* process ends or that read fails, it may have taken effect all the same.
Mark(d) ==
  /\ delivery[d].pc = "mark"
  /\ LET kind == KindOf(d)
         e == delivery[d].event IN
     IF NoRoom(kind, e) THEN Return(d, "error") /\ Quiet /\ UNCHANGED marker
     ELSE \/ /\ marker' = [marker EXCEPT ![kind][e] = Expiry(kind, e)]
             /\ Return(d, "processed") /\ Quiet
          \/ /\ Fail(d)
             /\ marker' \in {marker, [marker EXCEPT ![kind][e] = Expiry(kind, e)]}
  /\ UNCHANGED <<clock, handled, completed, collected>>

\* The caller takes the answer.
Take(d) ==
  /\ delivery[d].pc = "returned"
  /\ delivery' = [delivery EXCEPT ![d] = Idle]
  /\ UNCHANGED <<clock, marker, handled, completed, collected, faults>>
-----------------------------------------------------------------------------
Step(d) == Check(d) \/ Handle(d) \/ Complete(d) \/ Collect(d) \/ Mark(d)

Next == Tick \/ ValidationFails \/ \E d \in Callers : Step(d) \/ Take(d) \/ \E e \in Events : Begin(d, e)

Spec == Init /\ [][Next]_vars
-----------------------------------------------------------------------------
\* A marker stands only for finished work: the handler took effect and, for a
\* recovery, its failure record was completed; the collection was recorded.
\* handle and collect write the marker last, whatever ran beside them.
MarkedIsDone ==
  \A e \in Events :
    /\ marker["delivery"][e] > 0 =>
         handled[e] > 0 /\ (e \in Recoveries => e \in completed)
    /\ marker["collection"][e] > 0 => e \in collected

\* An answer that lets the transport forget the event is given only when the
\* event has been dealt with, by this invocation or by one before it.
AnswerIsEarned ==
  \A d \in Callers :
    delivery[d].pc = "returned" /\ delivery[d].result \in {"processed", "duplicate", "ignored"} =>
      LET e == delivery[d].event IN
      \/ e \in Foreign
      \/ d \in Handlers /\ handled[e] > 0 /\ (e \in Recoveries => e \in completed)
      \/ d \in Collectors /\ e \in collected

=============================================================================
