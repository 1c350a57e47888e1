----------------------------- MODULE FailureLedger -----------------------------
(***************************************************************************)
(* The durable record of one failed delivery: collected from the dead      *)
(* letter queue, reconciled with the application, replayed by operators    *)
(* and completed by the consumer that handled a replay.  Every operation   *)
(* is a read, a decision and a conditional commit, tried again when the    *)
(* condition fails or the answer is lost.                                  *)
(*                                                                         *)
(* Generation 0 is the original delivery; recovery g emits the replay      *)
(* event of generation g.  A collection is the record of generation g      *)
(* having failed.                                                          *)
(***************************************************************************)
EXTENDS Integers, Sequences

CONSTANTS
  Collectors,    \* deliveries of dead letters to the collector
  Completers,    \* deliveries of replay events to their consumer
  Operators,     \* replay requests of operators, each with its requestId
  ReplayBudget,  \* manual recoveries allowed; 3 in the code
  Attempts,      \* commit attempts of one update; 3 in the code
  MaxFaults,     \* bound on lost answers, failed hooks and skewed clocks
  NoRecord,      \* no row in the store
  NoEvent        \* a change without a replay event

VARIABLES
  record,   \* the failure row
  outbox,   \* replay events in the outbox
  actor,    \* the local state of each operation
  faults    \* faults so far

vars == <<record, outbox, actor, faults>>

Actors == Collectors \cup Completers \cup Operators
Generations == 0 .. ReplayBudget

\* "failed" stands for notApplicable, stalled and failed; "succeeded" for
\* succeeded and superseded.
Resolutions == {"failed", "succeeded"}

\* The failure row, and a replay event: the generation it delivers and who asked.
Records ==
  [version : Nat, collections : Seq(Resolutions \cup {"pending"}),
   recoveries : Seq(Actors), resolvedGeneration : Int]
Events == [generation : Nat, request : Actors]

ASSUME LedgerAssumption ==
  /\ ReplayBudget \in Nat \ {0}
  /\ Attempts \in Nat \ {0}
  /\ MaxFaults \in Nat
  /\ NoRecord \notin Records
  /\ NoEvent \notin Events
-----------------------------------------------------------------------------
(* The record, as failure-records.ts reads it.                             *)

Recoveries(r) == Len(r.recoveries)
Collected(r, g) == g + 1 \in DOMAIN r.collections
Resolution(r, g) == r.collections[g + 1]
Resolved(r) == r.resolvedGeneration = Recoveries(r)

\* parse: what a stored record must satisfy to be read at all.
WellFormed(r) ==
  /\ r.collections # <<>>
  /\ Recoveries(r) <= ReplayBudget
  /\ Len(r.collections) <= Recoveries(r) + 1
  /\ r.resolvedGeneration <= Recoveries(r)
  /\ \A i, j \in DOMAIN r.recoveries : r.recoveries[i] = r.recoveries[j] => i = j
  /\ \A i \in DOMAIN r.recoveries :
       Collected(r, i - 1) /\ Resolution(r, i - 1) = "failed"
  /\ \A i \in DOMAIN r.collections :
       r.collections[i] = "succeeded" => r.resolvedGeneration >= i - 1

Prefix(s, t) == Len(s) <= Len(t) /\ SubSeq(t, 1, Len(s)) = s

\* validateChange: how a record may change, and when it emits a replay event.
ValidChange(old, new, event) ==
  IF old = NoRecord
  THEN /\ new.version = 1 /\ new.recoveries = <<>> /\ new.collections = <<"pending">>
       /\ new.resolvedGeneration = -1 /\ event = NoEvent
  ELSE
    /\ new.version = old.version + 1
    /\ Prefix(old.recoveries, new.recoveries)
    /\ Recoveries(new) <= Recoveries(old) + 1
    /\ Len(new.collections) \in {Len(old.collections), Len(old.collections) + 1}
    /\ new.resolvedGeneration >= old.resolvedGeneration
    /\ \A i \in DOMAIN old.collections :
         old.collections[i] # "pending" => new.collections[i] = old.collections[i]
    /\ Len(new.collections) > Len(old.collections) =>
         new.collections[Len(new.collections)] = "pending"
         /\ Len(old.collections) = Recoveries(old)
    /\ IF Recoveries(new) > Recoveries(old)
       THEN /\ Collected(old, Recoveries(old))
            /\ Resolution(old, Recoveries(old)) # "pending"
            /\ ~Resolved(old)
            /\ new.collections = old.collections
            /\ new.resolvedGeneration = old.resolvedGeneration
            /\ event = [generation |-> Recoveries(new),
                        request |-> new.recoveries[Recoveries(new)]]
       ELSE event = NoEvent
-----------------------------------------------------------------------------
(* Local states: an operation of kind op on generation, for the request    *)
(* that caused it; phase 2 is the collector's second update.               *)

Resting == [pc |-> "idle"]

Begun(op, generation, request) ==
  [pc |-> "authorize", op |-> op, generation |-> generation, request |-> request,
   phase |-> 1, attempt |-> 0, candidate |-> 0, resolution |-> "failed",
   next |-> NoRecord, event |-> NoEvent]

Set(a, local) == actor' = [actor EXCEPT ![a] = local]
Done(a, result) ==
  Set(a, [pc |-> "done", op |-> actor[a].op, generation |-> actor[a].generation,
          result |-> result])
Fault == faults < MaxFaults /\ faults' = faults + 1

Init ==
  /\ record = NoRecord
  /\ outbox = {}
  /\ actor = [a \in Actors |-> Resting]
  /\ faults = 0

Free(a) == actor[a].pc \in {"idle", "done"}

\* A dead letter reaches the collector: the original delivery, or a replay event.
Collect(a) ==
  /\ Free(a)
  /\ \/ Set(a, Begun("collect", 0, NoEvent))
     \/ \E e \in outbox : Set(a, Begun("collect", e.generation, e))
  /\ UNCHANGED <<record, outbox, faults>>

\* The consumer handled a replay event and completes it.
Complete(a) ==
  /\ Free(a)
  /\ \E e \in outbox : Set(a, Begun("complete", e.generation, e))
  /\ UNCHANGED <<record, outbox, faults>>

\* An operator asks for a replay; the requestId is the operator's.
Replay(a) ==
  /\ Free(a)
  /\ Set(a, Begun("replay", 0, NoEvent))
  /\ UNCHANGED <<record, outbox, faults>>

\* authorize: a replay event counts only while its recovery is the last one
\* and is the one on record.
UpToDate(me) ==
  /\ record # NoRecord
  /\ me.generation = Recoveries(record)
  /\ me.generation > 0
  /\ record.recoveries[me.generation] = me.request.request

Authorize(a) ==
  LET me == actor[a] IN
  /\ me.pc = "authorize"
  /\ IF me.request = NoEvent \/ UpToDate(me)
     THEN Set(a, [me EXCEPT !.pc = "decide"])
     ELSE Done(a, "command.rejected")
  /\ UNCHANGED <<record, outbox, faults>>

(* The decisions of an update: "keep" ends it, an error code ends the      *)
(* operation, a new record is committed.                                   *)

Keep == [kind |-> "keep"]
Reject(code) == [kind |-> "error", code |-> code]
Change(next, event) == [kind |-> "change", next |-> next, event |-> event]

DecideCollection(me, old) ==
  IF old = NoRecord
  THEN IF me.request # NoEvent THEN Reject("resource.invalid_state")
       ELSE Change([version |-> 1, collections |-> <<"pending">>, recoveries |-> <<>>,
                    resolvedGeneration |-> -1], NoEvent)
  ELSE IF Collected(old, me.generation) THEN Keep
  ELSE Change([old EXCEPT !.version = @ + 1, !.collections = Append(@, "pending")], NoEvent)

AtLeast(x, y) == IF x >= y THEN x ELSE y

DecideResolution(me, old) ==
  IF Resolution(old, me.generation) # "pending" THEN Keep
  ELSE Change([old EXCEPT
         !.version = @ + 1,
         !.collections[me.generation + 1] = me.resolution,
         !.resolvedGeneration = IF me.resolution = "succeeded"
                                THEN AtLeast(@, me.generation) ELSE @], NoEvent)

DecideCompletion(me, old) ==
  IF old.resolvedGeneration >= me.generation THEN Keep
  ELSE Change([old EXCEPT !.version = @ + 1, !.resolvedGeneration = me.generation], NoEvent)

\* The candidate's generation and identity are fixed by the first attempt.
DecideReplay(a, me, old) ==
  LET length == Recoveries(old)
      next == [old EXCEPT !.version = @ + 1, !.recoveries = Append(@, a)] IN
  IF \E i \in 1 .. length : old.recoveries[i] = a THEN Keep
  ELSE IF Resolved(old) THEN Reject("command.rejected")
  ELSE IF ~Collected(old, length) \/ (me.candidate # 0 /\ length >= me.candidate) THEN Keep
  ELSE IF Resolution(old, length) = "pending" THEN Reject("resource.conflict")
  ELSE IF length >= ReplayBudget THEN Reject("command.rejected")
  ELSE Change(next, [generation |-> length + 1, request |-> a])

Decision(a, me, old) ==
  CASE me.op = "collect" /\ me.phase = 1 -> DecideCollection(me, old)
    [] me.op = "collect" /\ me.phase = 2 -> DecideResolution(me, old)
    [] me.op = "complete" -> DecideCompletion(me, old)
    [] me.op = "replay" ->
         IF old = NoRecord THEN Reject("resource.not_found") ELSE DecideReplay(a, me, old)

\* Seeded fault: a collector that finds its collection on record stops there.
Updated_NoResume(a, me, result) ==
  IF me.op = "collect" /\ me.phase = 1 /\ me.next # NoRecord
  THEN Set(a, [me EXCEPT !.pc = "reconcile", !.next = NoRecord, !.event = NoEvent,
                         !.attempt = 0])
  ELSE Done(a, "ok")

\* What follows an update: the collector goes on to the application, unless
\* the generation is reconciled already.
Updated(a, me, result) ==
  IF me.op = "collect" /\ me.phase = 1 /\ Resolution(result, me.generation) = "pending"
  THEN Set(a, [me EXCEPT !.pc = "reconcile", !.next = NoRecord, !.event = NoEvent,
                         !.attempt = 0])
  ELSE Done(a, "ok")

\* A decision is about to be committed; the first one fixes the candidate.
Proposing(me, d) ==
  [me EXCEPT !.pc = "commit", !.next = d.next, !.event = d.event,
             !.candidate = IF d.event = NoEvent \/ @ # 0 THEN @ ELSE d.event.generation]

\* Seeded fault: the last attempt is taken for a success.
Decide_LastIsOk(a) ==
  LET me == actor[a]
      d == Decision(a, me, record) IN
  /\ me.pc = "decide"
  /\ \/ d.kind = "keep" /\ Updated(a, me, record)
     \/ d.kind = "error" /\ Done(a, d.code)
     \/ /\ d.kind = "change" /\ me.attempt < Attempts /\ WellFormed(d.next)
        /\ Set(a, [me EXCEPT !.pc = "commit", !.next = d.next, !.event = d.event])
     \/ d.kind = "change" /\ me.attempt = Attempts /\ Done(a, "ok")
  /\ UNCHANGED <<record, outbox, faults>>

\* One attempt of an update, up to its commit.  After the last attempt the
\* record is read once more, and only a decision to keep it succeeds.
Decide(a) ==
  LET me == actor[a]
      d == Decision(a, me, record) IN
  /\ me.pc = "decide"
  /\ \/ d.kind = "keep" /\ Updated(a, me, record) /\ UNCHANGED faults
     \/ d.kind = "error" /\ Done(a, d.code) /\ UNCHANGED faults
     \/ /\ d.kind = "change" /\ me.attempt < Attempts /\ WellFormed(d.next)
        /\ Set(a, Proposing(me, d)) /\ UNCHANGED faults
     \/ /\ d.kind = "change" /\ (me.attempt = Attempts \/ ~WellFormed(d.next))
        /\ Done(a, IF me.attempt = Attempts THEN "runtime.unavailable"
                   ELSE "resource.invalid_state")
        /\ UNCHANGED faults
     \* A clock behind the record's times makes the next record unreadable.
     \/ d.kind = "change" /\ me.attempt < Attempts /\ Fault
        /\ Done(a, "resource.invalid_state")
  /\ UNCHANGED <<record, outbox>>

\* The conditions of the commit: the version the decision was made on, and a
\* change the protocol allows.
Accepts(me) ==
  /\ (IF record = NoRecord THEN 0 ELSE record.version) = me.next.version - 1
  /\ ValidChange(record, me.next, me.event)

Write(me) ==
  /\ record' = me.next
  /\ outbox' = IF me.event = NoEvent THEN outbox ELSE outbox \cup {me.event}

TryAgain(a, me) ==
  Set(a, [me EXCEPT !.pc = "decide", !.attempt = @ + 1, !.next = NoRecord, !.event = NoEvent])

\* One conditional commit of the record, its projection and its replay event.
\* A conflict, a lost request and a lost answer all lead to the next attempt.
Commit(a) ==
  LET me == actor[a] IN
  /\ me.pc = "commit"
  /\ \/ Accepts(me) /\ Write(me) /\ Updated(a, me, me.next) /\ UNCHANGED faults
     \/ Accepts(me) /\ Write(me) /\ TryAgain(a, me) /\ Fault
     \/ ~Accepts(me) /\ TryAgain(a, me) /\ UNCHANGED <<record, outbox, faults>>
     \/ TryAgain(a, me) /\ Fault /\ UNCHANGED <<record, outbox>>

\* The application's reconcileFailure hook answers, outside any lock, or fails.
Reconcile(a) ==
  LET me == actor[a] IN
  /\ me.pc = "reconcile"
  /\ \/ \E resolution \in Resolutions :
          Set(a, [me EXCEPT !.pc = "decide", !.phase = 2, !.resolution = resolution])
        /\ UNCHANGED faults
     \/ Done(a, "runtime.unavailable") /\ Fault
  /\ UNCHANGED <<record, outbox>>

\* The process of an operation dies between two of its steps.
Die(a) ==
  /\ ~Free(a)
  /\ Fault
  /\ Set(a, Resting)
  /\ UNCHANGED <<record, outbox>>

Step(a) == Authorize(a) \/ Decide(a) \/ Commit(a) \/ Reconcile(a)

Next ==
  \/ \E a \in Collectors : Collect(a)
  \/ \E a \in Completers : Complete(a)
  \/ \E a \in Operators : Replay(a)
  \/ \E a \in Actors : Step(a) \/ Die(a)

Spec == Init /\ [][Next]_vars

Pending(g) == record # NoRecord /\ Collected(record, g) /\ Resolution(record, g) = "pending"

\* The queue delivers a dead letter again until its collection is settled.
Redeliver(a, g) ==
  /\ Free(a) /\ Pending(g)
  /\ IF g = 0 THEN Set(a, Begun("collect", 0, NoEvent))
     ELSE \E e \in outbox : e.generation = g /\ Set(a, Begun("collect", g, e))
  /\ UNCHANGED <<record, outbox, faults>>

FairSpec ==
  /\ Spec
  /\ \A a \in Actors : WF_vars(Step(a))
  /\ \A a \in Collectors, g \in Generations : SF_vars(Redeliver(a, g))
-----------------------------------------------------------------------------
\* An acknowledged operation is on record: a completed generation resolved, a
\* collected one reconciled, a replay accepted.  A replay event that went out stays
\* the recovery on record: no operator's replay takes the place of another's.
AckIsDurable ==
  /\ \A a \in Actors :
       actor[a].pc = "done" /\ actor[a].result = "ok" =>
         CASE actor[a].op = "complete" -> record.resolvedGeneration >= actor[a].generation
           [] actor[a].op = "collect" ->
                Collected(record, actor[a].generation) /\ ~Pending(actor[a].generation)
           [] OTHER -> Recoveries(record) > 0
  /\ \A e \in outbox : /\ e.generation \in DOMAIN record.recoveries
                        /\ record.recoveries[e.generation] = e.request

\* A collected failure is eventually reconciled, through crashes, failing
\* hooks and lost answers, because its dead letter is delivered again.
CollectionsSettle == \A g \in Generations : Pending(g) ~> ~Pending(g)
=============================================================================
