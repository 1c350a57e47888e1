---------------------------- MODULE WorkRequests ----------------------------
(* The resource workflow of the starter: the command executor, repositories and *)
(* units of work of packages/core/src/index.ts and                              *)
(* packages/aws-runtime/src/index.ts, the work request commands, the queue      *)
(* worker and the stale reminder.  It runs either "local", in memory, or on     *)
(* "aws", where the table outlives its functions and calls may fail.  An        *)
(* invocation awaits between its steps, and everybody else may act in between.  *)
EXTENDS Integers, FiniteSets, Sequences, SequencesExt

CONSTANTS
  Calls,          \* invocations of executeCommand
  Ids,            \* resource ids
  Keys,           \* idempotency keys of the callers
  Requests,       \* what callers may ask: [command, id, status, key, role, flaw]
  Malformed,      \* queue messages that hold no event
  NoId, NoKey, NoRow,
  StaleAfter,     \* age from which an open request is reminded of
  PageRows,       \* rows of the list that one page of a query holds at least
  BatchSize, MaxReceive,
  MaxTime,        \* bound of the clock
  MaxFaults       \* bound of crashes, failed calls and duplicates

\* A change names the request it is for: its route does.
Asked == [command : STRING, id : Ids \cup {NoId}, status : STRING, key : Keys \cup {NoKey},
          role : STRING, flaw : STRING]
Codes == {"none", "ok", "command.validation", "auth.missing", "auth.forbidden",
          "resource.not_found", "resource.conflict", "idempotency.conflict",
          "runtime.unavailable"}
Answers == [ok : BOOLEAN, code : Codes, id : Ids \cup {NoId}]
KeyRows == [fingerprint : STRING \X (Ids \cup {NoId}) \X STRING, response : Answers]

ASSUME StarterAssumption ==
  /\ StaleAfter \in Nat /\ PageRows \in Nat \ {0} /\ BatchSize \in Nat \ {0} /\ MaxReceive \in Nat \ {0}
  /\ MaxTime \in Nat /\ MaxFaults \in Nat
  /\ NoId \notin Ids /\ NoKey \notin Keys /\ NoRow \notin KeyRows
  /\ Requests \subseteq Asked
  /\ \A q \in Requests : q.command # "create" => q.id \in Ids

VARIABLES
  deployment,     \* "local" or "aws"
  clock, faults,
  resource,       \* id -> [version, status, updatedAt]; version 0: not stored
  list,           \* rows of the projection workRequest.list
  idempotency,    \* key -> [fingerprint, response] or NoRow
  outbox,         \* the committed events, with the call that committed them
  call,           \* invocation -> its progress
  reminder,       \* the invocation of the stale reminder
  reminded,       \* ids reminded of in their present state
  mail,           \* message -> [at, receives]
  worker,         \* the invocation of the queue worker
  marker, handled \* events marked as processed; events a handler has finished

store == <<resource, list, idempotency, outbox>>
queueing == <<mail, worker, marker, handled>>
reminding == <<reminder, reminded>>
vars == <<deployment, clock, faults, store, call, reminding, queueing>>

Local == deployment = "local"
Quiet == UNCHANGED faults
Fault == ~Local /\ faults < MaxFaults /\ faults' = faults + 1

Absent == [version |-> 0, status |-> "none", updatedAt |-> 0]
Versions == 1 .. Cardinality(Calls)
Events == Ids \X Versions
Messages == Events \cup Malformed
Unsent == [at |-> "none", receives |-> 0]
IdleCall == [pc |-> "idle"]
IdleReminder == [pc |-> "idle", todo |-> {}]
IdleWorker == [pc |-> "idle", batch |-> <<>>, next |-> 1]

Init ==
  /\ deployment \in {"local", "aws"}
  /\ clock = 0 /\ faults = 0
  /\ resource = [r \in Ids |-> Absent] /\ list = {}
  /\ idempotency = [k \in Keys |-> NoRow] /\ outbox = {}
  /\ call = [c \in Calls |-> IdleCall]
  /\ reminder = IdleReminder /\ reminded = {}
  /\ mail = [m \in Messages |->
               IF m \in Malformed /\ ~Local THEN [Unsent EXCEPT !.at = "queue"] ELSE Unsent]
  /\ worker = IdleWorker /\ marker = {} /\ handled = {}

Tick ==
  /\ clock < MaxTime /\ clock' = clock + 1
  /\ UNCHANGED <<deployment, faults, store, call, reminding, queueing>>
-----------------------------------------------------------------------------
(* The work request commands.                                                *)
Creates(q) == q.command = "create"
Roles(command) == IF command \in {"create", "comment"} THEN {"user"} ELSE {"manager"}

\* auth, registry, role and input are looked at before anything is read.
Allowed(q) == q.role \in Roles(q.command)

\* The HTTP adapters of both deployments look at the identity, the route and the
\* body, in this order, and then execute the command.
Refusal(q) ==
  CASE q.flaw = "identity" -> "auth.missing"
    [] q.flaw = "route" -> "resource.not_found"
    [] q.flaw = "body" -> "command.validation"
    [] q.flaw = "none" /\ ~Allowed(q) -> "auth.forbidden"
    [] OTHER -> "none"

\* The status that a caller sees.
Status(code) ==
  CASE code = "ok" -> 200
    [] code = "command.validation" -> 400
    [] code = "auth.missing" -> 401
    [] code = "auth.forbidden" -> 403
    [] code = "resource.not_found" -> 404
    [] code \in {"resource.conflict", "idempotency.conflict"} -> 409
    [] code = "runtime.unavailable" -> 503
    [] OTHER -> 500

NextStatus(q, previous) ==
  CASE q.command = "create" -> "open"
    [] q.command = "close" -> "closed"
    [] q.command = "changeStatus" -> q.status
    [] OTHER -> previous.status

NextState(me) ==
  [version |-> me.previous.version + 1,
   status |-> NextStatus(me.request, me.previous), updatedAt |-> me.now]

\* workRequestListProjection: the sort key is the time of the update.
Row(r, state) == [id |-> r, at |-> state.updatedAt, status |-> state.status]

\* Seeded fault: the row of the new state is put beside those of the old ones.
RowsAfter_Kept(r, state) == list \cup {Row(r, state)}

\* In memory the rows of an item go before its new one is set; a DynamoDB item is
\* replaced only where both its keys are the same.
Replaces(new, row) == new.id = row.id /\ (Local \/ new.at = row.at)

RowsAfter(r, state) ==
  {row \in list : ~Replaces(Row(r, state), row)} \cup {Row(r, state)}
-----------------------------------------------------------------------------
(* executeCommand.                                                           *)
Ok(r) == [ok |-> TRUE, code |-> "ok", id |-> r]
Error(code) == [ok |-> FALSE, code |-> code, id |-> NoId]
Fingerprint(q) == <<q.command, q.id, q.status>>

At(c, pc) == call[c].pc = pc
Goto(c, me) == call' = [call EXCEPT ![c] = me]
Return(c, result) ==
  Goto(c, [call[c] EXCEPT !.pc = "returned", !.result = result, !.now = 0, !.previous = Absent])
Elsewhere == UNCHANGED <<deployment, clock, reminding, queueing>>

\* What is refused is not remembered.
Unasked == [command |-> "none", id |-> NoId, status |-> "none", key |-> NoKey]
Asking(q, pc, code) ==
  [pc |-> pc, request |-> q, now |-> IF pc = "returned" THEN 0 ELSE clock, id |-> q.id,
   previous |-> Absent, result |-> Error(code)]

Begin(c, q) ==
  /\ At(c, "idle")
  /\ LET code == Refusal(q) IN
     Goto(c, IF code # "none" THEN Asking(Unasked, "returned", code)
             ELSE Asking(q, IF q.key = NoKey THEN "load" ELSE "lookup", "none"))
  /\ Quiet /\ UNCHANGED store /\ Elsewhere

\* A read that fails, or a process that dies, leaves its caller without knowledge.
Unavailable(c) == Fault /\ Return(c, Error("runtime.unavailable")) /\ UNCHANGED store

Lookup(c) ==
  /\ At(c, "lookup") /\ Elsewhere
  /\ \/ LET q == call[c].request
            row == idempotency[q.key] IN
        /\ IF row = NoRow THEN Goto(c, [call[c] EXCEPT !.pc = "load"])
           ELSE Return(c, IF row.fingerprint = Fingerprint(q) THEN row.response
                          ELSE Error("idempotency.conflict"))
        /\ Quiet /\ UNCHANGED store
     \/ Unavailable(c)

\* A generated id is one that nobody has: it is random.
Fresh == {r \in Ids : /\ resource[r] = Absent
                      /\ \A d \in Calls : call[d].pc # "idle" => call[d].id # r
                      /\ \A q \in Requests : q.id # r}

Load(c) ==
  /\ At(c, "load") /\ Elsewhere
  /\ \/ LET q == call[c].request
            planned == [call[c] EXCEPT !.pc = "commit"] IN
        /\ CASE Creates(q) /\ q.id = NoId ->
                  \E r \in Fresh : Goto(c, [planned EXCEPT !.id = r])
             [] Creates(q) /\ q.id # NoId -> Goto(c, planned)
             [] ~Creates(q) /\ resource[q.id] = Absent ->
                  Return(c, Error("resource.not_found"))
             [] OTHER -> Goto(c, [planned EXCEPT !.previous = resource[q.id]])
        /\ Quiet /\ UNCHANGED store
     \/ Unavailable(c)
-----------------------------------------------------------------------------
(* The units of work.                                                        *)
Write(c) ==
  LET me == call[c]
      q == me.request
      next == NextState(me) IN
  /\ resource' = [resource EXCEPT ![me.id] = next]
  /\ list' = RowsAfter(me.id, next)
  /\ outbox' = outbox \cup {[event |-> <<me.id, next.version>>, call |-> c, key |-> q.key]}
  /\ idempotency' =
       IF q.key = NoKey THEN idempotency
       ELSE [idempotency EXCEPT
               ![q.key] = [fingerprint |-> Fingerprint(q), response |-> Ok(me.id)]]
  /\ reminded' = reminded \ {me.id}
  /\ mail' = IF Local THEN mail ELSE [mail EXCEPT ![<<me.id, next.version>>].at = "queue"]
Unwritten == UNCHANGED <<store, reminded, mail>>

\* A create must find nothing, a change the version it was decided on.
Holds(me) == resource[me.id].version = me.previous.version

\* Seeded fault: only the lookup before the decision knows of keys.
Recorded_Never(me) == NoRow

\* What the store holds under the key when the commit runs.
Recorded(me) == IF me.request.key = NoKey THEN NoRow ELSE idempotency[me.request.key]

\* A duplicate that finds its key taken is answered with its own response.
CommitLocally(c) ==
  /\ At(c, "commit") /\ Local /\ Quiet
  /\ LET me == call[c]
         row == Recorded(me) IN
     IF row # NoRow THEN
       /\ Return(c, IF row.fingerprint = Fingerprint(me.request) THEN Ok(me.id)
                    ELSE Error("idempotency.conflict"))
       /\ Unwritten
     ELSE IF Holds(me) THEN Write(c) /\ Return(c, Ok(me.id))
     ELSE Return(c, Error("resource.conflict")) /\ Unwritten
  /\ UNCHANGED <<deployment, clock, reminder, worker, marker, handled>>

\* One transaction; when the call fails nobody knows whether it was applied.  The
\* unit of work is given no command name, so a plan with a key cannot be built.
Transact(c) ==
  /\ At(c, "commit") /\ ~Local
  /\ LET me == call[c] IN
     \/ /\ me.request.key # NoKey /\ Unwritten /\ Quiet
        /\ Return(c, Error("runtime.unavailable"))
     \/ /\ me.request.key = NoKey /\ Holds(me)
        /\ Write(c)
        /\ \/ Quiet /\ Return(c, Ok(me.id))
           \/ Fault /\ Return(c, Error("runtime.unavailable"))
     \/ /\ me.request.key = NoKey /\ Unwritten
        /\ \/ ~Holds(me) /\ Quiet /\ Return(c, Error("resource.conflict"))
           \/ Fault /\ Return(c, Error("runtime.unavailable"))
  /\ UNCHANGED <<deployment, clock, reminder, worker, marker, handled>>

Execute(c) == Lookup(c) \/ Load(c) \/ CommitLocally(c) \/ Transact(c)
-----------------------------------------------------------------------------
(* The stale reminder.                                                       *)
\* Older than the time the list is read minus the age, to the millisecond.
IsStale(row, now) == row.status = "open" /\ row.at + StaleAfter < now

AwayFromReminder == UNCHANGED <<deployment, clock, store, call, queueing>>

\* Seeded fault: the sort key is not inverted, and a page holds the oldest rows.
FirstPages_Oldest ==
  {page \in SUBSET list :
     /\ page = list \/ Cardinality(page) >= PageRows
     /\ \A row \in page, other \in list \ page : row.at <= other.at}

\* A query answers with one page and is asked for no other: the newest rows, as many
\* as have room in it.
FirstPages ==
  {page \in SUBSET list :
     /\ page = list \/ Cardinality(page) >= PageRows
     /\ \A row \in page, other \in list \ page : other.at <= row.at}

\* A page without a stale row ends the pass at once.
Scan ==
  /\ ~Local /\ reminder.pc = "idle"
  /\ \E scanned \in FirstPages :
       LET stale == {row \in scanned : IsStale(row, clock)} IN
       stale # {} /\ reminder' = [pc |-> "remind", todo |-> stale]
  /\ UNCHANGED <<faults, reminded>> /\ AwayFromReminder

\* The rows come newest first; a reminder that throws, or a death, ends the pass.
Remind ==
  /\ reminder.pc = "remind"
  /\ \/ \E row \in reminder.todo :
          /\ \A other \in reminder.todo : other.at <= row.at
          /\ LET rest == reminder.todo \ {row} IN
             reminder' = IF rest = {} THEN IdleReminder ELSE [reminder EXCEPT !.todo = rest]
          /\ reminded' = IF row.at = resource[row.id].updatedAt
                         THEN reminded \cup {row.id} ELSE reminded
          /\ Quiet
     \/ Fault /\ reminder' = IdleReminder /\ UNCHANGED reminded
  /\ AwayFromReminder
-----------------------------------------------------------------------------
(* The queue worker.                                                         *)
AwayFromWorker == UNCHANGED <<deployment, clock, store, call, reminding>>
Held == worker.batch[worker.next]

Receive(batch) ==
  /\ worker.pc = "idle"
  /\ worker' = [pc |-> "check", batch |-> batch, next |-> 1]
  /\ mail' = [m \in Messages |->
                IF m \in ToSet(batch) THEN [at |-> "held", receives |-> mail[m].receives + 1]
                ELSE mail[m]]
  /\ UNCHANGED <<faults, marker, handled>> /\ AwayFromWorker

\* Seeded fault: a record that fails is left out and the batch acknowledged.
GivenBack_Never(m) == [mail[m] EXCEPT !.at = "done"]

\* A batch that fails comes back as a whole, a message that was received too often
\* goes to the dead-letter queue.
GivenBack(m) ==
  [mail[m] EXCEPT !.at = IF mail[m].receives >= MaxReceive THEN "dead" ELSE "queue"]

Finished(m) == [mail[m] EXCEPT !.at = "done"]

Settle(failed) ==
  /\ mail' = [m \in Messages |-> IF mail[m].at # "held" THEN mail[m]
                                 ELSE IF failed THEN GivenBack(m) ELSE Finished(m)]
  /\ worker' = IdleWorker
Abort == Settle(TRUE)

Proceed ==
  IF worker.next = Len(worker.batch) THEN Settle(FALSE)
  ELSE worker' = [worker EXCEPT !.pc = "check", !.next = @ + 1] /\ UNCHANGED mail

Check ==
  /\ worker.pc = "check" /\ UNCHANGED <<marker, handled>> /\ AwayFromWorker
  /\ \/ /\ Held \in Malformed /\ Abort /\ Quiet
     \/ /\ Held \in marker /\ Proceed /\ Quiet
     \/ /\ Held \notin Malformed \cup marker /\ Quiet
        /\ worker' = [worker EXCEPT !.pc = "work"] /\ UNCHANGED mail
     \/ Fault /\ Abort

\* A handler that throws may have done its work all the same.
Work ==
  /\ worker.pc = "work" /\ UNCHANGED marker /\ AwayFromWorker
  /\ \/ /\ handled' = handled \cup {Held} /\ Quiet
        /\ worker' = [worker EXCEPT !.pc = "mark"] /\ UNCHANGED mail
     \/ Fault /\ handled' \in {handled, handled \cup {Held}} /\ Abort

Mark ==
  /\ worker.pc = "mark" /\ UNCHANGED handled /\ AwayFromWorker
  /\ \/ marker' = marker \cup {Held} /\ Proceed /\ Quiet
     \/ Fault /\ marker' \in {marker, marker \cup {Held}} /\ Abort

\* The relay publishes an event twice, or the queue delivers a message again.
Duplicate(e) ==
  /\ mail[e].at = "done" /\ Fault
  /\ mail' = [mail EXCEPT ![e] = [at |-> "queue", receives |-> 0]]
  /\ UNCHANGED <<worker, marker, handled>> /\ AwayFromWorker

Queued == {m \in Messages : mail[m].at = "queue"}
Deliver ==
  \/ \E m \in Queued : Receive(<<m>>)
  \/ BatchSize > 1 /\ \E m, n \in Queued : m # n /\ Receive(<<m, n>>)
Serve == Check \/ Work \/ Mark

Next ==
  \/ Tick
  \/ \E c \in Calls : Execute(c) \/ \E q \in Requests : Begin(c, q)
  \/ Scan \/ Remind
  \/ Deliver \/ Serve
  \/ \E e \in Events : Duplicate(e)

Spec == Init /\ [][Next]_vars

\* The schedule fires, the queue hands out what is in it, and functions go on.
Fairness == WF_vars(Scan \/ Remind) /\ WF_vars(Deliver \/ Serve)

FairSpec == Spec /\ Fairness
-----------------------------------------------------------------------------
Effects(c) == {e \in outbox : e.call = c}
Keyed(k) == {e \in outbox : e.key = k}

About(events, r) == Cardinality(events) = 1 /\ \A e \in events : e.event[1] = r

\* In memory, a creation that had planned a request of its own when it found its key
\* taken: it is answered with that request, which is not stored.
Overtaken(c) ==
  LET me == call[c] IN
  /\ Local /\ Creates(me.request) /\ me.request.id = NoId
  /\ me.id # NoId /\ me.result.id = me.id /\ Effects(c) = {}

\* Whatever races, what a caller is told fits what was done: a success without a key is
\* one event of its own, a success with a key is the one event of that key, both about
\* the request that the answer names, and what is answered with a status of 4xx had no
\* effect.  Only a 503 leaves it open.  One exception: the loser of two creations with
\* one key, in memory, is told the name of the request it had planned.
AnswersFitEffects ==
  \A c \in Calls : At(c, "returned") =>
    LET me == call[c]
        status == Status(me.result.code)
        keyed == Keyed(me.request.key)
    IN
    CASE status = 200 /\ me.request.key = NoKey -> About(Effects(c), me.result.id)
      [] status = 200 /\ me.request.key # NoKey ->
           About(keyed, me.result.id) \/ (Overtaken(c) /\ Cardinality(keyed) = 1)
      [] status \in 400 .. 499 -> Effects(c) = {}
      [] OTHER -> Cardinality(Effects(c)) <= 1

\* "Same key and same payload hash returns stored response": two successes of one key
\* are one response, whatever raced.
OneKeyOneResponse ==
  \A c, d \in Calls :
    /\ At(c, "returned") /\ At(d, "returned")
    /\ call[c].result.ok /\ call[d].result.ok
    /\ call[c].request.key = call[d].request.key /\ call[c].request.key # NoKey
    => call[c].result = call[d].result

\* The list shows every stored request in its present state, after commits in
\* any order and with any clocks, and in memory it shows each of them once.
ListIsCurrent ==
  \A r \in Ids : resource[r].version > 0 =>
    /\ Row(r, resource[r]) \in list
    /\ Local => {row \in list : row.id = r} = {Row(r, resource[r])}

\* No page of the list is too small for the request's row.  The rows of earlier states
\* are never removed, so that they take room as well.
InReach(r) ==
  LET mine == Row(r, resource[r]) IN
  Cardinality({row \in list : row # mine /\ row.at >= mine.at}) < PageRows

\* A request that stays open and stale, and whose row stays among the newest that one
\* page holds, is reminded of in the end, also when passes die and rows of earlier
\* states are read before it.  Nothing is promised for what lies behind that page.
StaleInReachIsReminded ==
  []<>(\A r \in Ids :
         /\ ~Local /\ resource[r].status = "open" /\ InReach(r)
         /\ resource[r].updatedAt + StaleAfter < clock
         => r \in reminded)

\* Every event is handled or ends in the dead-letter queue, where somebody sees
\* it, also beside messages that fail their whole batch every time.
EventsSettle ==
  []<>(\A m \in Messages :
         \/ mail[m].at \in {"none", "dead"}
         \/ mail[m].at = "done" /\ m \in handled)
=============================================================================
