--------------------------- MODULE CommandDispatch ---------------------------
(***************************************************************************)
(* The command dispatch of a workflow: every command is one invocation     *)
(* that reads its idempotency row, reads the resource, decides, commits    *)
(* resource, outbox and idempotency rows in one atomic step and, when the  *)
(* commit's answer is a conflict or is lost, looks the idempotency row up  *)
(* again and replays what it finds.  Many invocations run at once; each    *)
(* captures the clock once.                                                *)
(***************************************************************************)
EXTENDS Naturals, FiniteSets

CONSTANTS
  Calls,        \* invocations of the dispatch function, each with its own requestId
  Keys,         \* scoped idempotency keys: (resourceType, commandName, subject, key)
  CreateKeys,   \* the keys whose command creates its resource
  Resources,    \* resource ids a caller can name
  Generated,    \* resource ids the id generator can mint
  Payloads,     \* command inputs, as far as the fingerprint tells them apart
  NoId,         \* a create request without a resource id
  Scenes,       \* what may be stored when a run begins, and the requests that come in
  TTL,          \* seconds an idempotency row stays valid
  Lifetime,     \* seconds an invocation may run
  MaxTime,      \* bound on the clock
  MaxLookups    \* recovery lookups: the pauses 0, 10, 25, 50 ms

\* A request may leave the resource id to the generator.
Requests == [key : Keys, resource : Resources \cup {NoId}, payload : Payloads]

ASSUME DispatchAssumption ==
  /\ Scenes \subseteq [stored : SUBSET Resources, requests : SUBSET Requests]
  /\ CreateKeys \subseteq Keys
  /\ Resources \cap Generated = {}
  /\ NoId \notin Resources \cup Generated
  /\ TTL \in Nat \ {0}
  /\ Lifetime \in Nat
  /\ MaxTime \in Nat
  /\ MaxLookups \in Nat \ {0}

\* A row outlives the invocation that wrote it: seven days against half a minute in
\* the applications, although the planner takes any TTL from one second.
ASSUME WindowAssumption == Lifetime < TTL

VARIABLES
  scene,        \* the run's scene; it never changes
  clock,        \* seconds, shared by all invocations
  resource,     \* resource rows; version 0 is an absent row
  idempotency,  \* the idempotency row of each scoped key
  outbox,       \* outbox rows, one per committed command
  call          \* the local state of each invocation

vars == <<scene, clock, resource, idempotency, outbox, call>>
-----------------------------------------------------------------------------
Ids == Resources \cup Generated

Creates(k) == k \in CreateKeys

\* What the idempotency fingerprint covers besides the scope of the key.
Fingerprint(q) == [resource |-> q.resource, payload |-> q.payload]

Errors == { "command.rejected", "resource.not_found", "resource.conflict",
            "idempotency.conflict", "runtime.unavailable", "validator" }
Retryable == { "resource.conflict", "idempotency.conflict", "runtime.unavailable" }

\* A response names the effect it reports: the row the commit wrote.
Ok(id, version) == [ok |-> TRUE, resource |-> id, version |-> version]
Fail(code) == [ok |-> FALSE, code |-> code]
NoResult == [ok |-> FALSE, code |-> "none"]
AbsentIdempotency == [present |-> FALSE]
Idle == [pc |-> "idle"]

Absent == [version |-> 0, createdAt |-> 0, updatedAt |-> 0]

\* A resource that an earlier command created, as the run finds it.
Original == [version |-> 1, createdAt |-> 0, updatedAt |-> 0]
Found(r) == IF r \in scene.stored THEN Original ELSE Absent

\* memory.ts and storage.ts read an expired row as no row.
Live(row, now) == row.present /\ row.expiresAt > now
-----------------------------------------------------------------------------
Running(c) == call[c].pc \notin {"idle", "returned", "crashed"}

Init ==
  /\ scene \in Scenes
  /\ clock = 0
  /\ resource = [r \in Ids |-> Found(r)]
  /\ idempotency = [k \in Keys |-> AbsentIdempotency]
  /\ outbox = {}
  /\ call = [c \in Calls |-> Idle]

\* No invocation outlives Lifetime: its process is stopped by its time limit.
Tick ==
  /\ clock < MaxTime
  /\ \A c \in Calls : Running(c) => clock < call[c].now + Lifetime
  /\ clock' = clock + 1
  /\ UNCHANGED <<resource, idempotency, outbox, call>>

Goto(c, update) == call' = [call EXCEPT ![c] = update]

\* The dispatch closure: capture request, identity and the clock, once.
Begin(c, q) ==
  /\ call[c].pc = "idle"
  /\ Goto(c, [pc |-> "lookup", request |-> q, now |-> clock, id |-> q.resource,
              previous |-> Absent, lookups |-> 0, wire |-> "unsent", result |-> NoResult])
  /\ UNCHANGED <<clock, resource, idempotency, outbox>>

\* What a cancelled transaction is reported as: the idempotency condition first.
Conflicts == {"idempotency.conflict", "resource.conflict"}
Refusal(idempotencyFree) ==
  IF idempotencyFree THEN "resource.conflict" ELSE "idempotency.conflict"

\* An error ends executeCommand; the retryable ones enter the recovery lookup.
Finish(c, result) ==
  Goto(c, [call[c] EXCEPT
             !.pc = IF ~result.ok /\ result.code \in Retryable
                    THEN "recover" ELSE "validate",
             !.result = result])

\* Seeded fault: the stored response answers every payload of its key.
Answer_AnyPayload(q, row) == row.response

\* A stored response is returned only to the payload that earned it.
Answer(q, row) ==
  IF row.fingerprint = Fingerprint(q) THEN row.response
  ELSE Fail("idempotency.conflict")

\* executeCommand up to the idempotency read.  Authentication, the registry,
\* the roles and the input schema may refuse the command before the read.
Lookup(c) ==
  LET me == call[c]
      row == idempotency[me.request.key] IN
  /\ me.pc = "lookup"
  /\ \/ Finish(c, Fail("command.rejected"))
     \/ Finish(c, Fail("runtime.unavailable"))
     \/ /\ Live(row, me.now)
        /\ Finish(c, Answer(me.request, row))
     \/ /\ ~Live(row, me.now)
        /\ Goto(c, [me EXCEPT !.pc = "load"])
  /\ UNCHANGED <<clock, resource, idempotency, outbox>>

\* The ids already handed out by the generator: randomUUID does not repeat.
Minted ==
  { r \in Generated : \/ resource[r].version > 0
                      \/ \E c \in Calls : call[c].pc # "idle" /\ call[c].id = r }

\* executeCommand between the idempotency read and the commit: choose the
\* resource id, read the row (a create does not), decide.  The command is
\* refused without an id, and the domain may refuse it in any state, for good or,
\* when what it refers to has been overtaken, as a conflict.
Load(c) ==
  LET me == call[c] IN
  /\ me.pc = "load"
  /\ \/ /\ Creates(me.request.key)
        /\ \E id \in (IF me.id = NoId THEN Generated \ Minted ELSE {me.id}) :
             Goto(c, [me EXCEPT !.pc = "commit", !.id = id])
     \/ /\ ~Creates(me.request.key) /\ me.id # NoId
        /\ \/ /\ resource[me.id].version > 0
              /\ Goto(c, [me EXCEPT !.pc = "commit", !.previous = resource[me.id]])
           \/ /\ resource[me.id].version = 0
              /\ Finish(c, Fail("resource.not_found"))
           \/ Finish(c, Fail("runtime.unavailable"))
     \/ \E code \in {"command.rejected", "resource.conflict"} : Finish(c, Fail(code))
  /\ UNCHANGED <<clock, resource, idempotency, outbox>>

\* The state executeCommand builds on the row it read.
NextState(me) ==
  [version   |-> me.previous.version + 1,
   createdAt |-> IF me.previous.version = 0 THEN me.now ELSE me.previous.createdAt,
   updatedAt |-> me.now]

\* The planner refuses a plan whose row would be created after it is updated:
\* the clock was captured before another invocation created the row.
Plannable(me) == NextState(me).createdAt <= me.now

\* Seeded faults: the commit drops one of its conditions.
Unconditional(me) == TRUE

\* The conditions of the atomic commit.
IdempotencyFree(me) == ~Live(idempotency[me.request.key], me.now)
VersionHolds(me) == resource[me.id].version = me.previous.version

\* unitOfWork.commit: the plan is built once and put on the wire, or refused.
Commit(c) ==
  LET me == call[c] IN
  /\ me.pc = "commit"
  /\ \/ ~Plannable(me) /\ Finish(c, Fail("command.rejected"))
     \/ Plannable(me) /\ Goto(c, [me EXCEPT !.pc = "sent", !.wire = "request"])
  /\ UNCHANGED <<clock, resource, idempotency, outbox>>

\* All the writes of one plan.
Publish(c) ==
  LET me == call[c]
      next == NextState(me) IN
  /\ resource' = [resource EXCEPT ![me.id] = next]
  /\ outbox' = outbox \cup
       {[call |-> c, request |-> me.request, resource |-> me.id,
         version |-> next.version, now |-> me.now]}
  /\ idempotency' = [idempotency EXCEPT ![me.request.key] =
       [present |-> TRUE, fingerprint |-> Fingerprint(me.request),
        response |-> Ok(me.id, next.version),
        createdAt |-> me.now, expiresAt |-> me.now + TTL]]

\* The store takes the request off the wire: every condition holds and every
\* row is written, or one fails and none is.  The invocation may no longer
\* be waiting for the answer.
Apply(c) ==
  LET me == call[c] IN
  /\ me.pc # "idle" /\ me.wire = "request"
  /\ UNCHANGED clock
  /\ \/ /\ IdempotencyFree(me) /\ VersionHolds(me)
        /\ Publish(c)
        /\ Goto(c, [me EXCEPT !.wire = "done"])
     \/ /\ ~(IdempotencyFree(me) /\ VersionHolds(me))
        /\ Goto(c, [me EXCEPT !.wire = Refusal(IdempotencyFree(me))])
        /\ UNCHANGED <<resource, idempotency, outbox>>

\* The request is lost before it reaches the store.
Lose(c) ==
  /\ call[c].pc # "idle" /\ call[c].wire = "request"
  /\ Goto(c, [call[c] EXCEPT !.wire = "lost"])
  /\ UNCHANGED <<clock, resource, idempotency, outbox>>

\* The commit call returns, or fails without saying what became of the plan.
Receive(c) ==
  LET me == call[c] IN
  /\ me.pc = "sent"
  /\ \/ me.wire = "done" /\ Finish(c, Ok(me.id, NextState(me).version))
     \/ me.wire \in Conflicts /\ Finish(c, Fail(me.wire))
     \/ Finish(c, Fail("runtime.unavailable"))
  /\ UNCHANGED <<clock, resource, idempotency, outbox>>

\* One recovery lookup.  A winner is pinned and executeCommand runs once more
\* against it, with no state to read and no commit; a failed lookup, or the
\* last empty one, keeps the original error.
Recover(c) ==
  LET me == call[c]
      row == idempotency[me.request.key]
      give_up == Goto(c, [me EXCEPT !.pc = "validate"]) IN
  /\ me.pc = "recover"
  /\ \/ give_up
     \/ /\ Live(row, me.now)
        /\ Goto(c, [me EXCEPT !.pc = "validate", !.result = Answer(me.request, row)])
     \/ /\ ~Live(row, me.now)
        /\ me.lookups + 1 < MaxLookups
        /\ Goto(c, [me EXCEPT !.lookups = @ + 1])
  /\ UNCHANGED <<clock, resource, idempotency, outbox>>

\* The application's result validator may turn a success into an error of its
\* own ("validator" stands for any code), and changes nothing else.
Validate(c) ==
  LET me == call[c] IN
  /\ me.pc = "validate"
  /\ \/ Goto(c, [me EXCEPT !.pc = "returned"])
     \/ /\ me.result.ok
        /\ Goto(c, [me EXCEPT !.pc = "returned", !.result = Fail("validator")])
  /\ UNCHANGED <<clock, resource, idempotency, outbox>>

\* The process running an invocation dies: it returns nothing, and its commit
\* request may still reach the store.
Crash(c) ==
  /\ Running(c)
  /\ Goto(c, [call[c] EXCEPT !.pc = "crashed"])
  /\ UNCHANGED <<clock, resource, idempotency, outbox>>

Step(c) ==
  Lookup(c) \/ Load(c) \/ Commit(c) \/ Receive(c) \/ Recover(c) \/ Validate(c)

Next ==
  /\ UNCHANGED scene
  /\ \/ Tick
     \/ \E c \in Calls :
          \/ \E q \in scene.requests : Begin(c, q)
          \/ Step(c)
          \/ Apply(c)
          \/ Lose(c)
          \/ Crash(c)

Spec == Init /\ [][Next]_vars
-----------------------------------------------------------------------------
Rows == [version : Nat, createdAt : Nat, updatedAt : Nat]
Fingerprints == [resource : Ids \cup {NoId}, payload : Payloads]
Responses == [ok : {TRUE}, resource : Ids, version : Nat \ {0}]
Failures == [ok : {FALSE}, code : Errors \cup {"none"}]
IdempotencyRows ==
  {AbsentIdempotency} \cup
  [present : {TRUE}, fingerprint : Fingerprints, response : Responses,
   createdAt : Nat, expiresAt : Nat]
OutboxRows ==
  [call : Calls, request : Requests, resource : Ids, version : Nat \ {0}, now : Nat]
Wire == {"unsent", "request", "done", "lost"} \cup Conflicts
Pcs == {"lookup", "load", "commit", "sent", "recover", "validate", "returned", "crashed"}
Active ==
  [pc : Pcs, request : Requests, now : Nat, id : Ids \cup {NoId}, previous : Rows,
   lookups : Nat, wire : Wire, result : Responses \cup Failures]

\* A plan exists only for a chosen resource id.
Planned(me) == me.pc \in {"commit", "sent"} \/ me.wire # "unsent"
Invocations == { me \in Active : Planned(me) => me.id \in Ids }

TypeOK ==
  /\ scene \in Scenes
  /\ clock \in Nat
  /\ resource \in [Ids -> Rows]
  /\ idempotency \in [Keys -> IdempotencyRows]
  /\ outbox \subseteq OutboxRows
  /\ call \in [Calls -> {Idle} \cup Invocations]
-----------------------------------------------------------------------------
\* The versions of a resource are one unbroken line: every version from the one
\* the run found to the current one was written by exactly one committed command,
\* so no update was lost, whether two commands race to create a resource or to
\* change one version of it (the version condition of the commit).
NoLostUpdate ==
  /\ \A r \in Ids : \A v \in Found(r).version + 1 .. resource[r].version :
       \E e \in outbox : e.resource = r /\ e.version = v
  /\ \A e \in outbox : /\ Found(e.resource).version < e.version
                        /\ e.version <= resource[e.resource].version
  /\ \A e, f \in outbox :
       e.resource = f.resource /\ e.version = f.version => e = f

\* One scoped key takes effect at most once per TTL window, however many
\* invocations carry it and however their captured clocks are ordered.
OncePerWindow ==
  \A e, f \in outbox :
    e.request.key = f.request.key /\ e # f =>
      e.now + TTL <= f.now \/ f.now + TTL <= e.now

\* The dispatch implements the promise.
NotInvoked == [never |-> TRUE]
Promise == INSTANCE CommandPromise WITH
  DefiniteErrors <- { Fail(code) : code \in Errors \ {"runtime.unavailable", "validator"} },
  OpenErrors <- { Fail("runtime.unavailable"), Fail("validator") },
  NoAnswer <- NoResult,
  existing <- scene.stored,
  invoked <- [c \in Calls |-> IF call[c].pc = "idle" THEN NotInvoked
                               ELSE [request |-> call[c].request, now |-> call[c].now]],
  effects <- outbox,
  answer <- [c \in Calls |-> IF call[c].pc = "returned" THEN call[c].result
                              ELSE NoResult]

\* Every behaviour of the dispatch, seen through its effects and answers, is
\* one the promise allows.
KeepsPromise == Promise!Spec
=============================================================================
