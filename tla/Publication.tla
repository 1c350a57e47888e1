----------------------------- MODULE Publication -----------------------------
(***************************************************************************)
(* Publishing one approved content item.  A request event, delivered at    *)
(* least once, makes a publisher claim the publication under a lease,      *)
(* write the artifact and complete the publication behind the claim's      *)
(* fence.  Attempts and generations are budgeted; deliveries that die are  *)
(* reconciled to "stalled"; an editor may open the next generation.        *)
(* Every command is one atomic step against the version its caller read    *)
(* (CommandDispatch shows that it is); the reads before it, the clock it   *)
(* captures and the fate of its answer are the caller's.                   *)
(***************************************************************************)
EXTENDS Naturals, FiniteSets

CONSTANTS
  Publishers,       \* concurrent deliveries to the consumer publishContent
  MaxCopies,        \* messages that may carry one publication event
  MaxReceive,       \* deliveries of a message before it is dead (3)
  MaxAttempts,      \* limits.publicationAttempts (3)
  MaxGenerations,   \* limits.publicationGenerations (4)
  Lease,            \* limits.publicationLeaseMs (90 seconds)
  Tries,            \* optimistic retries of one invocation (3)
  MaxFaults,        \* bound on crashes, failing calls and lost answers
  None              \* no claim, attempt or failure

Phases == {"queued", "running", "failed", "stalled", "succeeded"}
FailureCodes == {"storage.unavailable", "artifact.mismatch", "execution.interrupted"}

\* A claim and its attempt are named by the version the claim command wrote;
\* the code mints an attempt id and a fencing token that are fresh as well.
Claims == [attempt : Nat, startedAt : Nat, leaseUntil : Nat]
Outcomes ==
  [attempt : Nat, status : {"claimed", "succeeded", "failed", "expired"},
   code : FailureCodes \cup {None}, generation : Nat]
Publications ==
  [generation : Nat, phase : Phases, attempts : Nat, claim : Claims \cup {None},
   last : Outcomes \cup {None}, deliveryFailure : Nat \cup {None}, artifact : BOOLEAN]

ASSUME PublicationAssumption ==
  /\ {MaxReceive, MaxAttempts, MaxGenerations, Lease, Tries} \subseteq Nat \ {0}
  /\ MaxFaults \in Nat
  /\ None \notin Nat \cup Claims \cup Outcomes \cup Publications

VARIABLES
  clock,
  item,         \* the content item, as far as publication concerns it
  object,       \* the stored artifact: "absent", "stored" or, foreign, "different"
  facts,        \* the stages recorded of each attempt
  message,      \* the queue's messages: one per generation and copy
  publisher,    \* the local state of each delivery
  faults

vars == <<clock, item, object, facts, message, publisher, faults>>
-----------------------------------------------------------------------------
Generations == 1 .. MaxGenerations
Copies == 1 .. MaxCopies
Messages == Generations \X Copies
Terminal == {"failed", "stalled", "succeeded"}

Fatal(code) == code = "artifact.mismatch"

LeaseLive(claim, now) == claim # None /\ claim.leaseUntil > now

Idle == [pc |-> "idle", message |-> None, seen |-> 0, at |-> 0, tries |-> 0,
         claim |-> None, code |-> None]

Init ==
  /\ clock = 0
  /\ item = [status |-> "approved", version |-> 1, publication |-> None]
  /\ object = "absent"
  /\ facts = {}
  /\ message = [m \in Messages |-> [place |-> "unsent", receives |-> 0]]
  /\ publisher = [p \in Publishers |-> Idle]
  /\ faults = 0

publication == item.publication

\* Time matters to this system only while a lease runs.
Tick ==
  /\ item.status = "publishing" /\ LeaseLive(publication.claim, clock)
  /\ clock' = clock + 1
  /\ UNCHANGED <<item, object, facts, message, publisher, faults>>

Fault == faults < MaxFaults /\ faults' = faults + 1
-----------------------------------------------------------------------------
(* The commands of the content item: what each one requires of the state and *)
(* writes.  `now` is the clock its dispatch captured.                        *)

Write(status, next) ==
  item' = [status |-> status, version |-> item.version + 1, publication |-> next]

Stage(attempt, stage) == [attempt |-> attempt, stage |-> stage]

\* active: the caller's generation is the one being published.
Active(g) == item.status = "publishing" /\ publication.generation = g

\* Seeded fault: the fence compares nothing but the lease.
Fenced_AnyClaim(g, claim, now) ==
  Active(g) /\ publication.phase = "running" /\ LeaseLive(publication.claim, now)

\* fenced: and the caller holds its claim, under a lease that still runs.
Fenced(g, claim, now) ==
  /\ Active(g) /\ publication.phase = "running"
  /\ publication.claim = claim
  /\ claim.startedAt <= now /\ claim.leaseUntil > now

\* A command that drops an expired claim records its attempt as expired.
Expired(attempt) ==
  IF publication.claim = None THEN attempt ELSE [attempt EXCEPT !.status = "expired"]
ExpiredFacts ==
  IF publication.claim = None THEN {} ELSE {Stage(publication.claim.attempt, "expired")}

\* The outbox relay and the bus may send an event more than once: every message
\* after the first is a fault.
Sent(g) ==
  \E copies \in Copies :
    /\ faults + copies - 1 <= MaxFaults
    /\ faults' = faults + copies - 1
    /\ message' = [m \in Messages |->
                     IF m[1] = g /\ m[2] <= copies THEN [place |-> "queue", receives |-> 0]
                     ELSE message[m]]

\* publishNow or requestDuePublication
RequestPublication ==
  /\ item.status = "approved"
  /\ Write("publishing",
           [generation |-> 1, phase |-> "queued", attempts |-> 0, claim |-> None,
            last |-> None, deliveryFailure |-> None, artifact |-> FALSE])
  /\ Sent(1)
  /\ UNCHANGED <<clock, object, facts, publisher>>

MayClaim(g, now) ==
  /\ Active(g) /\ publication.phase \in {"queued", "running"}
  /\ ~LeaseLive(publication.claim, now)
  /\ publication.attempts < MaxAttempts

ClaimOf(now) ==
  [attempt |-> item.version + 1, startedAt |-> now, leaseUntil |-> now + Lease]

\* claimPublication
Claim(now) ==
  /\ Write("publishing",
           [publication EXCEPT
              !.phase = "running", !.attempts = @ + 1, !.claim = ClaimOf(now),
              !.last = [attempt |-> item.version + 1, status |-> "claimed", code |-> None,
                        generation |-> publication.generation]])
  /\ facts' = facts \cup ExpiredFacts \cup {Stage(item.version + 1, "claimed")}

\* completePublication
Complete ==
  /\ Write("published",
           [publication EXCEPT !.phase = "succeeded", !.claim = None, !.artifact = TRUE,
                               !.last.status = "succeeded"])
  /\ facts' = facts \cup {Stage(publication.last.attempt, "succeeded")}

EndsCycle(code) == Fatal(code) \/ publication.attempts >= MaxAttempts

\* failPublication
FailAttempt(code) ==
  /\ Write("publishing",
           [publication EXCEPT !.phase = IF EndsCycle(code) THEN "failed" ELSE "queued",
                               !.claim = None,
                               !.last.status = "failed", !.last.code = code])
  /\ facts' = facts \cup {Stage(publication.last.attempt, "failed")}

\* reconcilePublicationFailure
MayReconcile(g, now) ==
  /\ Active(g) /\ publication.phase \notin Terminal
  /\ ~LeaseLive(publication.claim, now)

Stall ==
  /\ Write("publishing",
           [publication EXCEPT !.phase = "stalled", !.claim = None,
                               !.last = Expired(publication.last),
                               !.deliveryFailure = publication.generation])
  /\ facts' = facts \cup ExpiredFacts

\* publicationRecovery
Recoverable ==
  \/ publication.phase \in {"failed", "stalled"}
  \/ publication.claim # None
  \/ /\ publication.last # None
     /\ publication.last.status = "failed"
     /\ publication.last.generation = publication.generation

\* Seeded fault: an editor may retry over a running claim.
MayRetry_Live(now) ==
  /\ item.status = "publishing" /\ Recoverable
  /\ publication.generation < MaxGenerations

MayRetry(now) ==
  /\ item.status = "publishing" /\ Recoverable
  /\ ~LeaseLive(publication.claim, now)
  /\ publication.generation < MaxGenerations

\* Seeded fault: the retry keeps the failure it recovers from.
Reopened_KeepsFailure ==
  [publication EXCEPT !.generation = @ + 1, !.phase = "queued", !.attempts = 0,
                      !.claim = None, !.last = Expired(@)]

Reopened ==
  [publication EXCEPT !.generation = @ + 1, !.phase = "queued", !.attempts = 0,
                      !.claim = None, !.last = Expired(@), !.deliveryFailure = None]

\* retryPublication.  An editor whose page is out of date changes nothing, so
\* only the dispatch that meets the version it names is a step.
RetryPublication ==
  /\ MayRetry(clock)
  /\ Write("publishing", Reopened)
  /\ facts' = facts \cup ExpiredFacts
  /\ Sent(publication.generation + 1)
  /\ UNCHANGED <<clock, object, publisher>>
-----------------------------------------------------------------------------
(* The publisher: one invocation per delivery of a message.                  *)

Update(p, local) == publisher' = [publisher EXCEPT ![p] = local]
Goto(p, pc) == Update(p, [publisher[p] EXCEPT !.pc = pc])
Generation(p) == publisher[p].message[1]

\* The invocation ends.  An answer settles its message; an error or a crash
\* gives it back until its receives are used up.
End(p, place) ==
  /\ Update(p, Idle)
  /\ message' = [message EXCEPT ![publisher[p].message].place = place]
Answer(p) == End(p, "settled")
Throw(p) ==
  End(p, IF message[publisher[p].message].receives < MaxReceive THEN "queue" ELSE "dead")

\* classify
Obsolete(g) == item.publication = None \/ publication.generation # g
Done(g) == ~Obsolete(g) /\ publication.phase = "succeeded"

\* owned, by the invocation's own clock
Owned(p) == Fenced(Generation(p), publisher[p].claim, clock)

\* A read of the item: its version and the time of reading, for the dispatch after it.
Loaded(p, pc) ==
  Update(p, [publisher[p] EXCEPT !.pc = pc, !.seen = item.version, !.at = clock])

\* The clock a dispatch captures lies between the read before it and now.
DispatchTimes(p) == publisher[p].at .. clock
Current(p) == publisher[p].seen = item.version

Deliver(p, m) ==
  /\ publisher[p].pc = "idle" /\ message[m].place = "queue"
  /\ message' = [message EXCEPT ![m] = [place |-> "taken", receives |-> @.receives + 1]]
  /\ Update(p, [Idle EXCEPT !.pc = "load", !.message = m])
  /\ UNCHANGED <<clock, item, object, facts, faults>>

\* The process stops, or a call it depends on fails where nothing catches it.
Crash(p) ==
  /\ publisher[p].pc # "idle"
  /\ Fault /\ Throw(p)
  /\ UNCHANGED <<clock, item, object, facts>>

LoadForClaim(p) ==
  /\ publisher[p].pc = "load"
  /\ LET g == Generation(p) IN
     IF Obsolete(g) \/ Done(g) THEN Answer(p)
     ELSE IF publication.phase \in Terminal \/ LeaseLive(publication.claim, clock) THEN Throw(p)
     ELSE Loaded(p, "claim") /\ UNCHANGED message
  /\ UNCHANGED <<clock, item, object, facts, faults>>

\* The optimistic loop: a conflict reads again until its tries are used up.
Again(p, pc, exhausted) ==
  IF publisher[p].tries + 1 < Tries
  THEN /\ Update(p, [publisher[p] EXCEPT !.pc = pc, !.tries = @ + 1, !.seen = 0, !.at = 0])
       /\ UNCHANGED message
  ELSE exhausted

\* A second dispatch under the invocation's key after its claim was committed
\* names another version: the key answers with an idempotency conflict.
DispatchClaim(p) ==
  /\ publisher[p].pc = "claim"
  /\ \E now \in DispatchTimes(p) :
       \/ /\ publisher[p].claim # None \/ (Current(p) /\ publication.attempts >= MaxAttempts)
          /\ Throw(p) /\ UNCHANGED <<item, facts, faults>>
       \/ /\ publisher[p].claim = None /\ ~Current(p)
          /\ Again(p, "load", Throw(p)) /\ UNCHANGED <<item, facts, faults>>
       \/ /\ publisher[p].claim = None /\ Current(p) /\ MayClaim(Generation(p), now)
          /\ Claim(now)
          /\ \/ /\ Update(p, [publisher[p] EXCEPT !.pc = "verify", !.claim = ClaimOf(now),
                                                       !.seen = 0, !.at = 0])
                /\ UNCHANGED <<message, faults>>
             \/ Fault /\ Throw(p)
  /\ UNCHANGED <<clock, object>>

\* validateClaimResponse: the response is used only while it is still the state.
VerifyClaim(p) ==
  /\ publisher[p].pc = "verify"
  /\ IF Owned(p)
     THEN Update(p, [publisher[p] EXCEPT !.pc = "own", !.tries = 0]) /\ UNCHANGED message
     ELSE Again(p, "load", Throw(p))
  /\ UNCHANGED <<clock, item, object, facts, faults>>

\* Where the try block throws: a conflict never fails the attempt.
Caught(p, code) ==
  Update(p, [publisher[p] EXCEPT !.pc = "settle", !.code = code, !.tries = 0,
                                 !.seen = 0, !.at = 0])
Conflict == None

LoadBeforeWrite(p) ==
  /\ publisher[p].pc = "own"
  /\ \/ UNCHANGED faults /\ IF Owned(p) THEN Goto(p, "write") ELSE Caught(p, Conflict)
     \/ Fault /\ Caught(p, "execution.interrupted")
  /\ UNCHANGED <<clock, item, object, facts, message>>

\* createPublication: put if absent, then verify what is there.
WriteObject(p) ==
  /\ publisher[p].pc = "write"
  /\ \/ /\ object' = IF object = "absent" THEN "stored" ELSE object
        /\ UNCHANGED faults
        /\ IF object = "different" THEN Caught(p, "artifact.mismatch") ELSE Goto(p, "finish")
     \/ /\ Fault /\ Caught(p, "storage.unavailable")
        /\ object' \in {object, IF object = "absent" THEN "stored" ELSE object}
  /\ UNCHANGED <<clock, item, facts, message>>

LoadForCompletion(p) ==
  /\ publisher[p].pc = "finish"
  /\ LET g == Generation(p) IN
     \/ /\ UNCHANGED faults
        /\ IF Obsolete(g) \/ Done(g) THEN Answer(p)
           ELSE /\ UNCHANGED message
                /\ IF Owned(p) THEN Loaded(p, "complete") ELSE Caught(p, Conflict)
     \/ Fault /\ Caught(p, "execution.interrupted") /\ UNCHANGED message
  /\ UNCHANGED <<clock, item, object, facts>>

DispatchCompletion(p) ==
  /\ publisher[p].pc = "complete"
  /\ \E now \in DispatchTimes(p) :
       \/ /\ Current(p) /\ Fenced(Generation(p), publisher[p].claim, now)
          /\ Complete
          /\ \/ Answer(p) /\ UNCHANGED faults
             \/ Fault /\ Caught(p, "execution.interrupted") /\ UNCHANGED message
       \/ /\ ~(Current(p) /\ Fenced(Generation(p), publisher[p].claim, now))
          /\ UNCHANGED <<item, facts, faults>>
          /\ Again(p, "finish", Caught(p, Conflict) /\ UNCHANGED message)
       \/ Fault /\ Caught(p, "execution.interrupted") /\ UNCHANGED <<item, facts, message>>
  /\ UNCHANGED <<clock, object>>

\* The catch block: an error may come after the work was done or taken over.
Settle(p) ==
  /\ publisher[p].pc = "settle"
  /\ LET g == Generation(p) IN
     IF Obsolete(g) \/ Done(g) THEN Answer(p)
     ELSE IF Owned(p) /\ publisher[p].code # Conflict THEN Goto(p, "reread") /\ UNCHANGED message
     ELSE Throw(p)
  /\ UNCHANGED <<clock, item, object, facts, faults>>

LoadForFailure(p) ==
  /\ publisher[p].pc = "reread"
  /\ IF Owned(p) THEN Loaded(p, "fail") /\ UNCHANGED message ELSE Throw(p)
  /\ UNCHANGED <<clock, item, object, facts, faults>>

DispatchFailure(p) ==
  /\ publisher[p].pc = "fail"
  /\ \E now \in DispatchTimes(p) :
       \/ /\ Current(p) /\ Fenced(Generation(p), publisher[p].claim, now)
          /\ FailAttempt(publisher[p].code)
          /\ Throw(p)
       \/ /\ ~(Current(p) /\ Fenced(Generation(p), publisher[p].claim, now))
          /\ UNCHANGED <<item, facts>>
          /\ Again(p, "reread", Throw(p))
  /\ UNCHANGED <<clock, object, faults>>

Publish(p) ==
  \/ LoadForClaim(p) \/ DispatchClaim(p) \/ VerifyClaim(p) \/ LoadBeforeWrite(p)
  \/ WriteObject(p) \/ LoadForCompletion(p) \/ DispatchCompletion(p)
  \/ Settle(p) \/ LoadForFailure(p) \/ DispatchFailure(p)
-----------------------------------------------------------------------------
\* Seeded fault: a running claim settles the dead message.
Reconcile_GivesUp(m) ==
  /\ message[m].place = "dead"
  /\ IF MayReconcile(m[1], clock) THEN Stall ELSE UNCHANGED <<item, facts>>
  /\ message' = [message EXCEPT ![m].place = "settled"]
  /\ UNCHANGED <<clock, object, publisher, faults>>

\* The dead message's reconciler.  Its reads and retries end in one decision: it
\* records what the publication has come to, stalls it, or throws and is
\* redelivered, which leaves no trace.
Reconcile(m) ==
  /\ message[m].place = "dead"
  /\ LET g == m[1] IN
     \/ /\ Obsolete(g) \/ publication.phase \in Terminal
        /\ message' = [message EXCEPT ![m].place = "settled"]
        /\ UNCHANGED <<item, facts, faults>>
     \/ /\ MayReconcile(g, clock)
        /\ Stall
        /\ \/ message' = [message EXCEPT ![m].place = "settled"] /\ UNCHANGED faults
           \/ Fault /\ UNCHANGED message
  /\ UNCHANGED <<clock, object, publisher>>

\* Something outside this code put other bytes under the publication's key.
Tamper ==
  /\ object = "absent" /\ Fault /\ object' = "different"
  /\ UNCHANGED <<clock, item, facts, message, publisher>>

Next ==
  \/ Tick \/ RequestPublication \/ RetryPublication \/ Tamper
  \/ \E m \in Messages : Reconcile(m)
  \/ \E p \in Publishers : Publish(p) \/ Crash(p) \/ \E m \in Messages : Deliver(p, m)

Spec == Init /\ [][Next]_vars

\* Time passes while a lease runs, invocations come to their end, and the queue
\* and the dead-letter queue hand out every message again.
Fairness ==
  /\ WF_vars(Tick)
  /\ \A p \in Publishers : WF_vars(Publish(p))
  /\ \A m \in Messages :
       WF_vars(Reconcile(m)) /\ SF_vars(\E p \in Publishers : Deliver(p, m))

FairSpec == Spec /\ Fairness
-----------------------------------------------------------------------------
\* publicationStateSchema, as far as it relates the fields to each other.
FailedHere(pub) ==
  pub.last # None /\ pub.last.status = "failed" /\ pub.last.generation = pub.generation
Satisfies(pub) ==
  /\ pub.attempts <= MaxAttempts /\ pub.generation <= MaxGenerations
  /\ pub.phase = "stalled" <=> pub.deliveryFailure # None
  /\ pub.phase = "running" <=> pub.claim # None
  /\ pub.phase = "succeeded" <=> pub.artifact
  /\ pub.phase \notin {"queued", "stalled"} => pub.attempts > 0
  /\ pub.phase = "queued" /\ pub.attempts > 0 => FailedHere(pub)
  /\ pub.attempts > 0 => pub.last # None /\ pub.last.generation = pub.generation
  /\ pub.last # None =>
       /\ pub.last.generation <= pub.generation
       /\ pub.last.generation = pub.generation => pub.attempts > 0
       /\ pub.last.status = "claimed" <=> pub.claim # None
       /\ pub.claim # None => pub.claim.attempt = pub.last.attempt
  /\ pub.phase = "failed" => FailedHere(pub)
  /\ FailedHere(pub) =>
       (pub.phase = "failed" <=> Fatal(pub.last.code) \/ pub.attempts >= MaxAttempts)
  /\ pub.artifact => pub.last.status = "succeeded"

\* No command is refused by the schema its result is parsed with: whatever order
\* claims, failures, expiries, reconciliations and retries come in, the stored
\* publication satisfies publicationStateSchema (contracts.ts).
SchemaHolds == publication # None => Satisfies(publication)

Working(p) == publisher[p].pc \in {"own", "write", "finish", "complete"}

\* Two publishers never both work under a lease that runs: takeovers, failures,
\* reconciliations and retries all wait for the lease or end the work.
OneWorkingLease ==
  LET holders == {p \in Publishers : Working(p) /\ LeaseLive(publisher[p].claim, clock)} IN
  Cardinality(holders) <= 1

\* An attempt that was recorded as ended.
Ended(attempt) ==
  \E stage \in {"succeeded", "failed", "expired"} : Stage(attempt, stage) \in facts

\* An attempt is recorded as succeeded or failed only by the publisher that holds
\* its claim, never by one that was overtaken while it wrote; and only once: who has
\* completed it and does not hear the answer does not fail it.
ClosedByItsHolder ==
  [][\A f \in facts' \ facts : f.stage \in {"succeeded", "failed"} =>
       /\ ~Ended(f.attempt)
       /\ \E p \in Publishers :
            /\ publisher[p].claim # None /\ publisher[p].claim.attempt = f.attempt
            /\ publisher'[p] # publisher[p]]_vars

\* A publication always comes to an end its owner can see and act on: published,
\* failed or stalled; also when deliveries die while a lease they need runs.
EveryPublicationSettles ==
  item.status = "publishing" ~> item.publication # None /\ publication.phase \in Terminal
=============================================================================
