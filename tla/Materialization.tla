--------------------------- MODULE Materialization ---------------------------
(***************************************************************************)
(* Review tasks and assets are resources of their own, materialized from   *)
(* the snapshots that the content item's events carry.  Events arrive in   *)
(* any order, more than once and at several workers; a worker compares the *)
(* snapshot with the view it loaded and dispatches a command conditional   *)
(* on that view's version.  The dispatch is atomic (CommandDispatch), and  *)
(* a worker that fails leaves the event to be delivered again              *)
(* (EventDelivery).                                                        *)
(***************************************************************************)
EXTENDS ContentItem

CONSTANTS
  Workers,          \* deliveries under way at once
  RetryBudget,      \* optimistic attempts of one delivery (3)
  MaxFaults         \* bound on the failed reads and dispatches of a run

ASSUME WorkersAssumption ==
  /\ IsFiniteSet(Workers)
  /\ RetryBudget \in Nat \ {0} /\ MaxFaults \in Nat

VARIABLES
  views,        \* review tasks and assets: None, or a version and a snapshot
  commands,     \* idempotency keys of the snapshot commands committed
  worker,       \* the delivery each worker executes
  settled,      \* events a worker has answered, so that they are not redelivered
  faults

viewVars == <<views, commands, worker, settled, faults>>
vars == <<contentVars, viewVars>>
-----------------------------------------------------------------------------
Targets == ({"review"} \X (1 .. MaxVersion)) \cup ({"asset"} \X Assets)

\* A review task or an asset as it is stored.
Views == [version : Nat \ {0}, snapshot : Reviews \cup Slots]
ASSUME ViewAssumption == None \notin Views

Idle == [pc |-> "idle", fact |-> None, seen |-> 0, attempt |-> 0]

Init ==
  /\ ContentInit
  /\ views = [target \in Targets |-> None]
  /\ commands = {}
  /\ worker = [w \in Workers |-> Idle]
  /\ settled = {} /\ faults = 0

\* A worker that throws: the event stays with its queue.
Fail(w) == worker' = [worker EXCEPT ![w] = Idle] /\ UNCHANGED settled

\* A worker that answers, with "applied" or "ignored".
Settle(w) ==
  /\ worker' = [worker EXCEPT ![w] = Idle]
  /\ settled' = settled \cup {worker[w].fact}

Fault == faults < MaxFaults /\ faults' = faults + 1
-----------------------------------------------------------------------------
\* Any event, as often as its queue delivers it and in whatever order.
Deliver(w, fact) ==
  /\ worker[w].pc = "idle"
  /\ worker' = [worker EXCEPT ![w] = [Idle EXCEPT !.pc = "load", !.fact = fact]]
  /\ UNCHANGED <<contentVars, views, commands, settled, faults>>

VersionOf(target) == IF views[target] = None THEN 0 ELSE views[target].version

\* The view already shows this event, or a later one.
Superseding(view, fact) == view.snapshot.source >= fact.source

\* Equal versions with different snapshots are a conflict that is never settled.
Diverging(view, fact) == view.snapshot.source = fact.source /\ view.snapshot # fact.snapshot

Load(w) ==
  LET fact == worker[w].fact
      view == views[fact.target]
      known == view # None /\ Superseding(view, fact)
  IN
  /\ worker[w].pc = "load"
  /\ UNCHANGED <<contentVars, views, commands>>
  /\ \/ ~known /\ UNCHANGED <<settled, faults>>
        /\ worker' = [worker EXCEPT ![w].pc = "dispatch", ![w].seen = VersionOf(fact.target)]
     \/ known /\ ~Diverging(view, fact) /\ Settle(w) /\ UNCHANGED faults
     \/ Fault /\ Fail(w)
-----------------------------------------------------------------------------
Closed(review) == review.status # "pending"

MayFollowReview(old, new) ==
  /\ new.dueAt = old.dueAt /\ new.submitted = old.submitted
  /\ new.reminded >= old.reminded
  /\ Closed(old) => /\ new.status = old.status
                    /\ new.decidedAt = old.decidedAt /\ new.reminded = old.reminded

MayFollowAsset(old, new) ==
  /\ new.registeredAt = old.registeredAt
  /\ old.verified # None => new.verified = old.verified
  /\ new.status = "pending" => old.status = "pending"
  /\ old.status = "ready" => new.status # "expired"
  /\ Retired(old) => /\ new.status = old.status /\ new.retiredAt = old.retiredAt
                     /\ new.verified = old.verified

MayFollow(kind, old, new) ==
  /\ new.source > old.source
  /\ IF kind = "review" THEN MayFollowReview(old, new) ELSE MayFollowAsset(old, new)

\* The guards of applySnapshot; a first snapshot has none.
Accepts(target, fact) ==
  views[target] # None => MayFollow(target[1], views[target].snapshot, fact.snapshot)

Commit(target, fact, key) ==
  /\ views' = [views EXCEPT ![target] = [version |-> VersionOf(target) + 1,
                                         snapshot |-> fact.snapshot]]
  /\ commands' = commands \cup {key}

\* A conflict is retried from the load, within the budget.
Retried(w) ==
  IF worker[w].attempt + 1 < RetryBudget
  THEN worker' = [worker EXCEPT ![w].pc = "load", ![w].seen = 0, ![w].attempt = @ + 1]
  ELSE worker' = [worker EXCEPT ![w] = Idle]

\* The view is still the one the worker loaded.
Current(w) == VersionOf(worker[w].fact.target) = worker[w].seen
Refused(w) == ~Accepts(worker[w].fact.target, worker[w].fact)

Dispatch(w) ==
  LET fact == worker[w].fact
      key == <<fact, worker[w].seen>>
  IN
  /\ worker[w].pc = "dispatch"
  /\ UNCHANGED contentVars
  /\ \/ key \in commands /\ Settle(w) /\ UNCHANGED <<views, commands, faults>>
     \/ /\ key \notin commands /\ Current(w) /\ ~Refused(w)
        /\ Commit(fact.target, fact, key)
        /\ \/ Settle(w) /\ UNCHANGED faults
           \/ Fault /\ Fail(w)
     \/ /\ key \notin commands /\ ~(Current(w) /\ ~Refused(w))
        /\ IF Current(w) THEN Fail(w) ELSE Retried(w) /\ UNCHANGED settled
        /\ UNCHANGED <<views, commands, faults>>
     \/ Fault /\ Fail(w) /\ UNCHANGED <<views, commands>>
-----------------------------------------------------------------------------
Content == ContentNext /\ UNCHANGED viewVars
Delivery == \E w \in Workers : (\E fact \in facts : Deliver(w, fact)) \/ Load(w) \/ Dispatch(w)

Next == Content \/ Delivery
Spec == Init /\ [][Next]_vars
-----------------------------------------------------------------------------
\* The projected resources accept every snapshot a worker finds newer than its
\* view: no order of deliveries, duplicates and concurrent workers leaves an event
\* that no redelivery can apply, whatever history the content item has.
NeverRefused ==
  \A w \in Workers : worker[w].pc = "dispatch" /\ Current(w) => ~Refused(w)

ShowsAsset(a) ==
  /\ views[<<"asset", a>>] # None
  /\ views[<<"asset", a>>].snapshot = item.slots[a]
ShowsReview(id) ==
  /\ views[<<"review", id>>] # None
  /\ \/ views[<<"review", id>>].snapshot = item.review
     \/ item.review.id # id /\ Closed(views[<<"review", id>>].snapshot)

\* Once every event has been answered the views agree with the content item: each
\* slot as it is, the current review as it is, and no former review still pending.
\* A worker answers an event only when a view at least as new is committed, and no
\* command changes a slot or a review without an event that says so.
Converged ==
  facts \subseteq settled =>
    /\ \A a \in Assets : item.slots[a].status # "none" => ShowsAsset(a)
    /\ \A fact \in facts : fact.target[1] = "review" => ShowsReview(fact.target[2])
=============================================================================
