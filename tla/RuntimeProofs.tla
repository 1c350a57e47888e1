---------------------------- MODULE RuntimeProofs ----------------------------
(***************************************************************************)
(* Proofs about the runtime.                                               *)
(*                                                                         *)
(* The command dispatch, for every set of invocations, keys and resources  *)
(* and every TTL longer than an invocation may run: its types, the         *)
(* unbroken version line of a resource, one effect per key and window, and *)
(* that the dispatch implements CommandPromise.                            *)
(*                                                                         *)
(* The in-memory pump under its two applications, the report server and    *)
(* the content server, for any events, consumers, limits and numbers of    *)
(* calls: nothing slips out of the job table, and a close is final.        *)
(***************************************************************************)
EXTENDS CommandDispatch, ContentServer, FiniteSetTheorems, WellFoundedInduction, TLAPS

Locals == {Idle} \cup Invocations

-----------------------------------------------------------------------------
(* Values the actions build.                                               *)

LEMMA GotoType ==
  ASSUME NEW c \in Calls, NEW update \in Locals, TypeOK, Goto(c, update)
  PROVE  call' \in [Calls -> Locals]
BY DEF Goto, TypeOK, Locals

LEMMA NotIdle ==
  ASSUME TypeOK, NEW c \in Calls, call[c].pc # "idle"
  PROVE  call[c] \in Invocations /\ call[c] \in Active
BY DEF TypeOK, Idle, Invocations

\* Fail yields a failure for each code the dispatch uses.
LEMMA FailType == ASSUME NEW code \in Errors PROVE Fail(code) \in Failures
BY DEF Fail, Failures

LEMMA OkType ==
  ASSUME NEW id \in Ids, NEW version \in Nat \ {0}
  PROVE  Ok(id, version) \in Responses
BY DEF Ok, Responses

LEMMA NextStateType ==
  ASSUME NEW me \in Active
  PROVE  /\ NextState(me) \in Rows
         /\ NextState(me).version = me.previous.version + 1
         /\ NextState(me).version \in Nat \ {0}
BY DEF Active, NextState, Rows

LEMMA FinishType ==
  ASSUME NEW c \in Calls, TypeOK, call[c] \in Invocations,
         NEW result \in Responses \cup Failures, Finish(c, result)
  PROVE  call' \in [Calls -> Locals]
<1> DEFINE pc == IF ~result.ok /\ result.code \in Retryable THEN "recover" ELSE "validate"
<1> DEFINE update == [call[c] EXCEPT !.pc = pc, !.result = result]
<1>1. pc \in Pcs /\ pc \notin {"commit", "sent"}
  BY DEF Pcs
<1>2. update \in Active
  BY <1>1 DEF Active, Invocations
<1>3. Planned(update) => update.id \in Ids
  BY <1>1 DEF Active, Invocations, Planned
<1>4. update \in Locals
  BY <1>2, <1>3 DEF Locals, Invocations
<1>. QED
  BY <1>4, GotoType DEF Finish

\* An idempotency row that is present has every field.
StoredRows ==
  [present : {TRUE}, fingerprint : Fingerprints, response : Responses,
   createdAt : Nat, expiresAt : Nat]

LEMMA PresentRow ==
  ASSUME NEW row \in IdempotencyRows, row.present
  PROVE  row \in StoredRows
<1>1. ~AbsentIdempotency.present
  BY DEF AbsentIdempotency
<1>2. row # AbsentIdempotency
  BY <1>1
<1>. QED
  BY <1>2 DEF IdempotencyRows, StoredRows

LEMMA AnswerType ==
  ASSUME NEW q, NEW row \in IdempotencyRows, row.present
  PROVE  Answer(q, row) \in Responses \cup Failures
<1>1. row.response \in Responses
  BY PresentRow DEF StoredRows
<1>2. Fail("idempotency.conflict") \in Failures
  BY FailType DEF Errors
<1>. QED
  BY <1>1, <1>2 DEF Answer

-----------------------------------------------------------------------------
(* Type correctness.                                                       *)

LEMMA InitType == Init => TypeOK
BY DispatchAssumption DEF Init, TypeOK, Ids, Rows, Found, Original, Absent, IdempotencyRows

LEMMA ComesIn ==
  ASSUME TypeOK
  PROVE  scene.requests \subseteq Requests /\ scene.stored \subseteq Resources
BY DispatchAssumption DEF TypeOK

LEMMA BeginType ==
  ASSUME TypeOK, UNCHANGED scene, NEW c \in Calls, NEW q \in Requests, Begin(c, q)
  PROVE  TypeOK'
<1> DEFINE update ==
      [pc |-> "lookup", request |-> q, now |-> clock, id |-> q.resource,
       previous |-> Absent, lookups |-> 0, wire |-> "unsent", result |-> NoResult]
<1>1. q.resource \in Ids \cup {NoId}
  BY DEF Requests, Ids
<1>2. Absent \in Rows /\ NoResult \in Failures
  BY DEF Absent, Rows, NoResult, Failures
<1>3. "lookup" \in Pcs /\ "unsent" \in Wire /\ clock \in Nat
  BY DEF Pcs, Wire, TypeOK
<1>4. update \in Active
  BY <1>1, <1>2, <1>3 DEF Active
<1>5. update \in Locals
  BY <1>4 DEF Locals, Invocations, Planned
<1>6. Goto(c, update)
  BY DEF Begin
<1>7. call' \in [Calls -> Locals]
  BY <1>5, <1>6, GotoType
<1>. QED
  BY <1>7 DEF Begin, TypeOK, Locals

LEMMA LookupType ==
  ASSUME TypeOK, UNCHANGED scene, NEW c \in Calls, Lookup(c)
  PROVE  TypeOK'
<1> DEFINE me == call[c]
<1> DEFINE row == idempotency[me.request.key]
<1>1. me \in Active /\ me \in Invocations
  BY NotIdle DEF Lookup
<1>2. row \in IdempotencyRows
  BY <1>1 DEF Active, Requests, TypeOK
<1>3. call' \in [Calls -> Locals]
  <2>1. CASE \E code \in Errors : Finish(c, Fail(code))
    BY <2>1, <1>1, FinishType, FailType
  <2>2. CASE Live(row, me.now) /\ Finish(c, Answer(me.request, row))
    BY <2>2, <1>1, <1>2, FinishType, AnswerType DEF Live
  <2>3. CASE Goto(c, [me EXCEPT !.pc = "load"])
    <3>1. [me EXCEPT !.pc = "load"] \in Locals
      BY <1>1 DEF Active, Pcs, Locals, Invocations, Planned
    <3>. QED
      BY <2>3, <3>1, GotoType
  <2>. QED
    BY <2>1, <2>2, <2>3 DEF Lookup, Errors
<1>. QED
  BY <1>3 DEF TypeOK, Lookup, Locals

LEMMA LoadType ==
  ASSUME TypeOK, UNCHANGED scene, NEW c \in Calls, Load(c)
  PROVE  TypeOK'
<1> DEFINE me == call[c]
<1>1. me \in Active /\ me \in Invocations
  BY NotIdle DEF Load
<1>2. call' \in [Calls -> Locals]
  <2>1. CASE \E id \in (IF me.id = NoId THEN Generated \ Minted ELSE {me.id}) :
               Goto(c, [me EXCEPT !.pc = "commit", !.id = id])
    <3>1. PICK id \in (IF me.id = NoId THEN Generated \ Minted ELSE {me.id}) :
            Goto(c, [me EXCEPT !.pc = "commit", !.id = id])
      BY <2>1
    <3>2. id \in Ids
      BY <1>1, <3>1 DEF Active, Ids
    <3>3. [me EXCEPT !.pc = "commit", !.id = id] \in Locals
      BY <1>1, <3>2 DEF Active, Pcs, Locals, Invocations
    <3>. QED
      BY <3>1, <3>3, GotoType
  <2>2. CASE me.id # NoId /\ Goto(c, [me EXCEPT !.pc = "commit", !.previous = resource[me.id]])
    <3>1. me.id \in Ids /\ resource[me.id] \in Rows
      BY <2>2, <1>1 DEF TypeOK, Active
    <3>2. [me EXCEPT !.pc = "commit", !.previous = resource[me.id]] \in Locals
      BY <1>1, <3>1 DEF Active, Pcs, Locals, Invocations
    <3>. QED
      BY <2>2, <3>2, GotoType
  <2>3. CASE \E code \in Errors : Finish(c, Fail(code))
    BY <2>3, <1>1, FinishType, FailType
  <2>. QED
    BY <2>1, <2>2, <2>3 DEF Load, Errors
<1>. QED
  BY <1>2 DEF TypeOK, Load, Locals

LEMMA CommitType ==
  ASSUME TypeOK, UNCHANGED scene, NEW c \in Calls, Commit(c)
  PROVE  TypeOK'
<1> DEFINE me == call[c]
<1>1. me \in Active /\ me \in Invocations
  BY NotIdle DEF Commit
<1>2. call' \in [Calls -> Locals]
  <2>1. CASE Finish(c, Fail("command.rejected"))
    BY <2>1, <1>1, FinishType, FailType DEF Errors
  <2>2. CASE Goto(c, [me EXCEPT !.pc = "sent", !.wire = "request"])
    <3>1. me.id \in Ids
      BY <1>1 DEF Commit, Invocations, Planned
    <3>2. [me EXCEPT !.pc = "sent", !.wire = "request"] \in Locals
      BY <1>1, <3>1 DEF Active, Pcs, Wire, Locals, Invocations
    <3>. QED
      BY <2>2, <3>2, GotoType
  <2>. QED
    BY <2>1, <2>2 DEF Commit
<1>. QED
  BY <1>2 DEF TypeOK, Commit, Locals

\* The outbox row and the idempotency row of a plan.
RowOf(c, me) ==
  [call |-> c, request |-> me.request, resource |-> me.id,
   version |-> NextState(me).version, now |-> me.now]
NewRow(c) == RowOf(c, call[c])
NewIdempotency(c) ==
  [present |-> TRUE, fingerprint |-> Fingerprint(call[c].request),
   response |-> Ok(call[c].id, NextState(call[c]).version),
   createdAt |-> call[c].now, expiresAt |-> call[c].now + TTL]

LEMMA PublishRows ==
  ASSUME TypeOK, NEW c \in Calls, call[c].pc # "idle", call[c].wire = "request", Publish(c)
  PROVE  /\ call[c].id \in Ids /\ call[c].request.key \in Keys
         /\ NewRow(c) \in OutboxRows
         /\ NewIdempotency(c) \in StoredRows
         /\ outbox' = outbox \cup {NewRow(c)}
         /\ resource' = [resource EXCEPT ![call[c].id] = NextState(call[c])]
         /\ idempotency' = [idempotency EXCEPT ![call[c].request.key] = NewIdempotency(c)]
<1> DEFINE me == call[c]
<1>1. me \in Active /\ me.id \in Ids /\ me.request \in Requests /\ me.now \in Nat
  BY NotIdle DEF Invocations, Planned, Active
<1>2. NextState(me).version \in Nat \ {0}
  BY <1>1, NextStateType
<1>3. NewRow(c) \in OutboxRows
  BY <1>1, <1>2 DEF NewRow, RowOf, OutboxRows
<1>4. Fingerprint(me.request) \in Fingerprints
  BY <1>1 DEF Fingerprint, Fingerprints, Requests, Ids
<1>5. Ok(me.id, NextState(me).version) \in Responses
  BY <1>1, <1>2, OkType
<1>6. me.now + TTL \in Nat
  BY <1>1, DispatchAssumption
<1>7. NewIdempotency(c) \in StoredRows
  BY <1>1, <1>4, <1>5, <1>6 DEF NewIdempotency, StoredRows
<1>8. me.request.key \in Keys
  BY <1>1 DEF Requests
<1>. QED
  BY <1>1, <1>3, <1>7, <1>8 DEF Publish, NewRow, RowOf, NewIdempotency

LEMMA ApplyType ==
  ASSUME TypeOK, UNCHANGED scene, NEW c \in Calls, Apply(c)
  PROVE  TypeOK'
<1> DEFINE me == call[c]
<1>1. me \in Active /\ me \in Invocations /\ me.id \in Ids
  BY NotIdle DEF Apply, Invocations, Planned
<1>2. ASSUME NEW w \in Wire, Goto(c, [me EXCEPT !.wire = w])
      PROVE  call' \in [Calls -> Locals]
  <2>1. [me EXCEPT !.wire = w] \in Locals
    BY <1>1 DEF Active, Locals, Invocations
  <2>. QED
    BY <1>2, <2>1, GotoType
<1>3. CASE Publish(c) /\ Goto(c, [me EXCEPT !.wire = "done"])
  <2>1. call' \in [Calls -> Locals]
    BY <1>3, <1>2 DEF Wire
  <2>2. NextState(me) \in Rows
    BY <1>1, NextStateType
  <2>3. resource' \in [Ids -> Rows] /\ outbox' \subseteq OutboxRows
    BY <1>3, <2>2, PublishRows DEF TypeOK, Apply
  <2>4. idempotency' \in [Keys -> IdempotencyRows]
    BY <1>3, PublishRows DEF TypeOK, Apply, IdempotencyRows, StoredRows
  <2>. QED
    BY <2>1, <2>3, <2>4 DEF TypeOK, Apply, Locals
<1>4. CASE /\ Goto(c, [me EXCEPT !.wire = Refusal(IdempotencyFree(me))])
           /\ UNCHANGED <<resource, idempotency, outbox>>
  <2>1. Refusal(IdempotencyFree(me)) \in Wire
    BY DEF Refusal, Wire, Conflicts
  <2>2. call' \in [Calls -> Locals]
    BY <1>4, <1>2, <2>1
  <2>. QED
    BY <1>4, <2>2 DEF TypeOK, Apply, Locals
<1>. QED
  BY <1>3, <1>4 DEF Apply

LEMMA LoseType ==
  ASSUME TypeOK, UNCHANGED scene, NEW c \in Calls, Lose(c)
  PROVE  TypeOK'
<1>1. call[c] \in Active /\ call[c].id \in Ids
  BY NotIdle DEF Lose, Invocations, Planned
<1>2. [call[c] EXCEPT !.wire = "lost"] \in Locals
  BY <1>1 DEF Active, Wire, Locals, Invocations
<1>3. call' \in [Calls -> Locals]
  BY <1>2, GotoType DEF Lose
<1>. QED
  BY <1>3 DEF TypeOK, Lose, Locals

LEMMA ReceiveType ==
  ASSUME TypeOK, UNCHANGED scene, NEW c \in Calls, Receive(c)
  PROVE  TypeOK'
<1> DEFINE me == call[c]
<1>1. me \in Active /\ me \in Invocations /\ me.id \in Ids
  BY NotIdle DEF Receive, Invocations, Planned
<1>2. Ok(me.id, NextState(me).version) \in Responses
  BY <1>1, NextStateType, OkType
<1>3. \A code \in Conflicts \cup {"runtime.unavailable"} : Fail(code) \in Failures
  BY FailType DEF Conflicts, Errors
<1>4. call' \in [Calls -> Locals]
  BY <1>1, <1>2, <1>3, FinishType DEF Receive
<1>. QED
  BY <1>4 DEF TypeOK, Receive, Locals

LEMMA RecoverType ==
  ASSUME TypeOK, UNCHANGED scene, NEW c \in Calls, Recover(c)
  PROVE  TypeOK'
<1> DEFINE me == call[c]
<1> DEFINE row == idempotency[me.request.key]
<1>1. me \in Active /\ me \in Invocations
  BY NotIdle DEF Recover
<1>2. row \in IdempotencyRows
  BY <1>1 DEF Active, Requests, TypeOK
<1>3. CASE Goto(c, [me EXCEPT !.pc = "validate"])
  <2>1. [me EXCEPT !.pc = "validate"] \in Locals
    BY <1>1 DEF Active, Pcs, Locals, Invocations, Planned
  <2>. QED
    BY <1>3, <2>1, GotoType DEF TypeOK, Recover, Locals
<1>4. CASE /\ Live(row, me.now)
           /\ Goto(c, [me EXCEPT !.pc = "validate", !.result = Answer(me.request, row)])
  <2>1. Answer(me.request, row) \in Responses \cup Failures
    BY <1>2, <1>4, AnswerType DEF Live
  <2>2. [me EXCEPT !.pc = "validate", !.result = Answer(me.request, row)] \in Locals
    BY <1>1, <2>1 DEF Active, Pcs, Locals, Invocations, Planned
  <2>. QED
    BY <1>4, <2>2, GotoType DEF TypeOK, Recover, Locals
<1>5. CASE Goto(c, [me EXCEPT !.lookups = @ + 1])
  <2>1. [me EXCEPT !.lookups = @ + 1] \in Locals
    BY <1>1 DEF Active, Locals, Invocations, Planned
  <2>. QED
    BY <1>5, <2>1, GotoType DEF TypeOK, Recover, Locals
<1>. QED
  BY <1>3, <1>4, <1>5 DEF Recover

LEMMA ValidateType ==
  ASSUME TypeOK, UNCHANGED scene, NEW c \in Calls, Validate(c)
  PROVE  TypeOK'
<1> DEFINE me == call[c]
<1>1. me \in Active /\ me \in Invocations
  BY NotIdle DEF Validate
<1>2. [me EXCEPT !.pc = "returned"] \in Locals
  BY <1>1 DEF Active, Pcs, Locals, Invocations, Planned
<1>3. Fail("validator") \in Failures
  BY FailType DEF Errors
<1>4. [me EXCEPT !.pc = "returned", !.result = Fail("validator")] \in Locals
  BY <1>1, <1>3 DEF Active, Pcs, Locals, Invocations, Planned
<1>. QED
  BY <1>2, <1>4, GotoType DEF Validate, TypeOK, Locals

LEMMA CrashType ==
  ASSUME TypeOK, UNCHANGED scene, NEW c \in Calls, Crash(c)
  PROVE  TypeOK'
<1> DEFINE me == call[c]
<1>1. me \in Active /\ me \in Invocations
  BY NotIdle DEF Crash, Running
<1>2. [me EXCEPT !.pc = "crashed"] \in Locals
  BY <1>1 DEF Active, Pcs, Locals, Invocations, Planned
<1>. QED
  BY <1>2, GotoType DEF Crash, TypeOK, Locals

LEMMA NextType == TypeOK /\ [Next]_vars => TypeOK'
<1> SUFFICES ASSUME TypeOK, [Next]_vars PROVE TypeOK'
  OBVIOUS
<1>1. UNCHANGED scene
  BY DEF Next, vars
<1>2. CASE Tick
  BY <1>1, <1>2 DEF Tick, TypeOK
<1>3. ASSUME NEW c \in Calls, NEW q \in scene.requests, Begin(c, q) PROVE TypeOK'
  BY <1>1, <1>3, ComesIn, BeginType
<1>4. ASSUME NEW c \in Calls, Step(c) PROVE TypeOK'
  BY <1>1, <1>4, LookupType, LoadType, CommitType, ReceiveType, RecoverType, ValidateType
  DEF Step
<1>5. ASSUME NEW c \in Calls, Apply(c) \/ Lose(c) \/ Crash(c) PROVE TypeOK'
  BY <1>1, <1>5, ApplyType, LoseType, CrashType
<1>6. CASE UNCHANGED vars
  BY <1>6 DEF vars, TypeOK
<1>. QED
  BY <1>2, <1>3, <1>4, <1>5, <1>6 DEF Next

\* Every variable keeps its type, and a plan is sent only for a chosen id.
THEOREM TypeCorrect == Spec => []TypeOK
BY InitType, NextType, PTL DEF Spec
-----------------------------------------------------------------------------
(* The store changes in one action only: the commit that finds its          *)
(* conditions true.                                                         *)

Store == <<resource, idempotency, outbox>>

Published(c) ==
  /\ call[c].pc # "idle" /\ call[c].wire = "request"
  /\ IdempotencyFree(call[c]) /\ VersionHolds(call[c])
  /\ Publish(c)

LEMMA OnlyPublishWrites ==
  ASSUME [Next]_vars
  PROVE  UNCHANGED Store \/ \E c \in Calls : Published(c)
BY DEF Next, vars, Store, Published, Tick, Begin, Step, Lookup, Load, Commit, Receive,
       Recover, Validate, Apply, Lose, Crash

\* The line starts at the version the run found.
Line == NoLostUpdate /\ \A r \in Ids : Found(r).version <= resource[r].version

\* The version condition puts each row on top of the line.
LEMMA PublishKeepsLine ==
  ASSUME TypeOK, Line, UNCHANGED scene, NEW c \in Calls, Published(c)
  PROVE  Line'
<1> DEFINE id == call[c].id
<1> DEFINE new == NewRow(c)
<1> DEFINE v == resource[id].version
<1>1. /\ id \in Ids
      /\ outbox' = outbox \cup {new}
      /\ resource' = [resource EXCEPT ![id] = NextState(call[c])]
  BY PublishRows DEF Published
<1>2. /\ v \in Nat
      /\ NextState(call[c]).version = v + 1
      /\ new.resource = id /\ new.version = v + 1
  BY <1>1, NotIdle, NextStateType DEF Published, VersionHolds, TypeOK, Rows, NewRow, RowOf
<1>3. \A r \in Ids : resource'[r].version = IF r = id THEN v + 1 ELSE resource[r].version
  BY <1>1, <1>2 DEF TypeOK
<1>4. \A e \in outbox : e.resource \in Ids /\ e.version \in Nat /\ resource[e.resource].version \in Nat
  BY DEF TypeOK, OutboxRows, Rows
<1>5. \A r \in Ids : /\ Found(r).version \in Nat /\ Found(r)' = Found(r)
                     /\ Found(r).version <= resource[r].version
                     /\ resource[r].version \in Nat
  BY DEF Found, Original, Absent, Line, TypeOK, Rows
<1>6. ASSUME NEW r \in Ids, NEW n \in Found(r).version + 1 .. resource'[r].version
      PROVE  \E e \in outbox' : e.resource = r /\ e.version = n
  <2>1. CASE r = id /\ n = v + 1
    BY <2>1, <1>1, <1>2
  <2>2. CASE ~(r = id /\ n = v + 1)
    <3>1. n \in Found(r).version + 1 .. resource[r].version
      BY <2>2, <1>2, <1>3, <1>5, <1>6
    <3>. QED
      BY <3>1, <1>1 DEF Line, NoLostUpdate
  <2>. QED
    BY <2>1, <2>2
<1>7. ASSUME NEW e \in outbox'
      PROVE  Found(e.resource).version < e.version /\ e.version <= resource'[e.resource].version
  <2>1. CASE e = new
    BY <2>1, <1>1, <1>2, <1>3, <1>5
  <2>2. CASE e \in outbox
    <3>1. Found(e.resource).version < e.version /\ e.version <= resource[e.resource].version
      BY <2>2 DEF Line, NoLostUpdate
    <3>. QED
      BY <2>2, <3>1, <1>2, <1>3, <1>4
  <2>. QED
    BY <2>1, <2>2, <1>1
<1>8. ASSUME NEW e \in outbox PROVE e.resource = id => e.version # v + 1
  BY <1>2, <1>4, <1>8 DEF Line, NoLostUpdate
<1>9. ASSUME NEW e \in outbox', NEW f \in outbox',
             e.resource = f.resource, e.version = f.version
      PROVE  e = f
  BY <1>1, <1>2, <1>8, <1>9 DEF Line, NoLostUpdate
<1>10. \A e \in outbox' : e.resource \in Ids
  BY <1>1, <1>2, <1>4
<1>11. NoLostUpdate'
  BY <1>5, <1>6, <1>7, <1>9, <1>10 DEF NoLostUpdate
<1>12. \A r \in Ids : Found(r)'.version <= resource'[r].version
  BY <1>2, <1>3, <1>5
<1>. QED
  BY <1>11, <1>12 DEF Line

LEMMA LineHolds == Spec => []Line
<1>1. Init => Line
  BY DEF Init, Line, NoLostUpdate, Found, Original, Absent
<1>2. TypeOK /\ Line /\ [Next]_vars => Line'
  <2> SUFFICES ASSUME TypeOK, Line, [Next]_vars PROVE Line'
    OBVIOUS
  <2>1. UNCHANGED scene
    BY DEF Next, vars
  <2>2. CASE UNCHANGED Store
    BY <2>1, <2>2 DEF Store, Line, NoLostUpdate, Found
  <2>3. ASSUME NEW c \in Calls, Published(c) PROVE Line'
    BY <2>1, <2>3, PublishKeepsLine
  <2>. QED
    BY <2>2, <2>3, OnlyPublishWrites
<1>. QED
  BY <1>1, <1>2, TypeCorrect, PTL DEF Spec

\* Whatever the interleaving of the invocations and whatever was stored before, no
\* committed command overwrites another: the versions of a resource are one unbroken line.
THEOREM VersionsAreOneLine == Spec => []NoLostUpdate
<1>1. Line => NoLostUpdate
  BY DEF Line
<1>. QED
  BY <1>1, LineHolds, PTL

-----------------------------------------------------------------------------
(* One effect per key and window.  OncePerWindow says nothing of the row    *)
(* that keeps the window shut, so it is strengthened by what the row        *)
(* remembers: every effect of its key, until that effect's window is over.  *)

RowCoversEffects ==
  \A e \in outbox :
    LET row == idempotency[e.request.key] IN
    row.present /\ e.now + TTL <= row.expiresAt

Windows == OncePerWindow /\ RowCoversEffects

LEMMA PublishKeepsWindows ==
  ASSUME TypeOK, Windows, NEW c \in Calls, Published(c)
  PROVE  Windows'
<1> DEFINE new == NewRow(c)
<1> DEFINE k == call[c].request.key
<1>1. /\ k \in Keys /\ new \in OutboxRows
      /\ outbox' = outbox \cup {new}
      /\ idempotency' = [idempotency EXCEPT ![k] = NewIdempotency(c)]
  BY PublishRows DEF Published
<1>2. /\ new.request.key = k /\ new.now = call[c].now /\ new.now \in Nat
      /\ NewIdempotency(c).present /\ NewIdempotency(c).expiresAt = new.now + TTL
  BY <1>1 DEF NewRow, RowOf, NewIdempotency, OutboxRows
<1>3. ASSUME NEW e \in outbox
      PROVE  /\ e.now \in Nat /\ e.request.key \in Keys
             /\ idempotency[e.request.key].present
             /\ idempotency[e.request.key].expiresAt \in Nat
             /\ e.now + TTL <= idempotency[e.request.key].expiresAt
  <2>1. e.now \in Nat /\ e.request.key \in Keys
    BY DEF TypeOK, OutboxRows, Requests
  <2>2. /\ idempotency[e.request.key].present
        /\ e.now + TTL <= idempotency[e.request.key].expiresAt
    BY DEF Windows, RowCoversEffects
  <2>3. idempotency[e.request.key].expiresAt \in Nat
    <3>1. idempotency[e.request.key] \in IdempotencyRows
      BY <2>1 DEF TypeOK
    <3>2. idempotency[e.request.key] \in StoredRows
      BY <3>1, <2>2, PresentRow
    <3>. QED
      BY <3>2 DEF StoredRows
  <2>. QED
    BY <2>1, <2>2, <2>3
<1>4. ASSUME NEW e \in outbox, e.request.key = k PROVE e.now + TTL <= new.now
  <2>1. idempotency[k].expiresAt <= call[c].now
    BY <1>1, <1>2, <1>3, <1>4 DEF Published, IdempotencyFree, Live
  <2>. QED
    BY <2>1, <1>2, <1>3, <1>4, DispatchAssumption
<1>5. OncePerWindow'
  BY <1>1, <1>2, <1>4 DEF Windows, OncePerWindow
<1>6. ASSUME NEW e \in outbox'
      PROVE  idempotency'[e.request.key].present
             /\ e.now + TTL <= idempotency'[e.request.key].expiresAt
  <2>1. CASE e = new
    BY <2>1, <1>1, <1>2, DispatchAssumption DEF TypeOK
  <2>2. CASE e \in outbox /\ e.request.key = k
    <3>1. e.now + TTL <= new.now /\ e.now \in Nat
      BY <2>2, <1>3, <1>4
    <3>2. idempotency'[k] = NewIdempotency(c)
      BY <1>1 DEF TypeOK
    <3>. QED
      BY <2>2, <3>1, <3>2, <1>2, DispatchAssumption
  <2>3. CASE e \in outbox /\ e.request.key # k
    BY <2>3, <1>1, <1>3 DEF TypeOK
  <2>. QED
    BY <2>1, <2>2, <2>3, <1>1
<1>. QED
  BY <1>5, <1>6 DEF Windows, RowCoversEffects

LEMMA WindowsHold == Spec => []Windows
<1>1. Init => Windows
  BY DEF Init, Windows, OncePerWindow, RowCoversEffects
<1>2. TypeOK /\ Windows /\ [Next]_vars => Windows'
  <2> SUFFICES ASSUME TypeOK, Windows, [Next]_vars PROVE Windows'
    OBVIOUS
  <2>1. CASE UNCHANGED Store
    BY <2>1 DEF Store, Windows, OncePerWindow, RowCoversEffects
  <2>2. ASSUME NEW c \in Calls, Published(c) PROVE Windows'
    BY <2>2, PublishKeepsWindows
  <2>. QED
    BY <2>1, <2>2, OnlyPublishWrites
<1>. QED
  BY <1>1, <1>2, TypeCorrect, PTL DEF Spec

\* One scoped key takes effect at most once per TTL window, although every
\* invocation judges expiry by the clock it captured when it began.
THEOREM OneEffectPerWindow == Spec => []OncePerWindow
<1>1. Windows => OncePerWindow
  BY DEF Windows
<1>. QED
  BY <1>1, WindowsHold, PTL
-----------------------------------------------------------------------------
(* The dispatch implements its promise.  What is needed beyond the windows  *)
(* and the line of versions is what an invocation knows of its own plan:    *)
(* a result that the promise binds is found only while the plan cannot      *)
(* take effect any more.                                                    *)

OpenCodes == {"runtime.unavailable", "validator"}

\* A row that is live for the invocation keeps its plan out of the store.
Shut(me) == me.wire = "request" => Live(idempotency[me.request.key], me.now)

\* A success names an effect of the same intent.
Earned(me, result) ==
  \E e \in outbox :
    /\ Promise!SameIntent(e.request, me.request)
    /\ result = Ok(e.resource, e.version)

Verdict(me, result) ==
  IF result.ok THEN Earned(me, result) /\ Shut(me)
  ELSE /\ result.code \in Errors
       /\ result.code \notin OpenCodes => me.wire # "done" /\ Shut(me)

CallHolds(c, me) ==
  me.pc # "idle" =>
    /\ me.now <= clock
    /\ me.pc \notin {"returned", "crashed"} => clock <= me.now + Lifetime
    /\ me.pc \in {"lookup", "load", "commit"} => me.wire = "unsent"
    /\ me.wire = "done" => RowOf(c, me) \in outbox
    /\ me.pc \in {"recover", "validate", "returned"} => Verdict(me, me.result)

CallsHold == \A c \in Calls : CallHolds(c, call[c])

EffectsHold ==
  \A e \in outbox : /\ call[e.call].pc # "idle" /\ call[e.call].wire = "done"
                    /\ e.now <= clock

\* An idempotency row is that of the last effect of its key.
RowsHold ==
  \A k \in Keys : idempotency[k].present =>
    \E e \in outbox :
      /\ e.request.key = k
      /\ idempotency[k].fingerprint = Fingerprint(e.request)
      /\ idempotency[k].response = Ok(e.resource, e.version)
      /\ idempotency[k].expiresAt = e.now + TTL

Knowledge == CallsHold /\ EffectsHold /\ RowsHold

LEMMA InitKnows == Init => Knowledge
BY DEF Init, Knowledge, CallsHold, CallHolds, EffectsHold, RowsHold, Idle, AbsentIdempotency

\* While the store and the clock stand still, the invocation that moves is the only
\* one to look at.
LEMMA OneMoves ==
  ASSUME TypeOK, Knowledge, NEW c \in Calls, NEW me,
         call' = [call EXCEPT ![c] = me], UNCHANGED <<clock, Store>>, me.pc # "idle",
         call[c].pc # "idle" /\ call[c].wire = "done" => me.wire = "done",
         CallHolds(c, me)
  PROVE  Knowledge'
<1>1. \A d \in Calls : call'[d] = IF d = c THEN me ELSE call[d]
  BY DEF TypeOK
<1>2. UNCHANGED <<clock, idempotency, outbox>>
  BY DEF Store
<1>3. ASSUME NEW d \in Calls, NEW you, CallHolds(d, you) PROVE CallHolds(d, you)'
  BY <1>2, <1>3 DEF CallHolds, Verdict, Shut, Earned, Live
<1>4. CallsHold'
  BY <1>1, <1>3 DEF Knowledge, CallsHold
<1>5. \A e \in outbox : e.call \in Calls
  BY DEF TypeOK, OutboxRows
<1>6. EffectsHold'
  BY <1>1, <1>2, <1>5 DEF Knowledge, EffectsHold
<1>7. RowsHold'
  BY <1>2 DEF Knowledge, RowsHold
<1>. QED
  BY <1>4, <1>6, <1>7 DEF Knowledge

\* An invocation that reaches a verdict on its own plan.
LEMMA FinishKnows ==
  ASSUME TypeOK, Knowledge, NEW c \in Calls, Running(c),
         NEW result \in Responses \cup Failures, Verdict(call[c], result),
         NEW pc \in {"recover", "validate"},
         Goto(c, [call[c] EXCEPT !.pc = pc, !.result = result]), UNCHANGED <<clock, Store>>
  PROVE  Knowledge'
<1> DEFINE me == call[c]
<1>1. me \in Active /\ CallHolds(c, me)
  BY NotIdle DEF Running, Knowledge, CallsHold
<1>2. SUFFICES ASSUME NEW next, next = [me EXCEPT !.pc = pc, !.result = result]
              PROVE  Knowledge'
  OBVIOUS
<1>3. /\ next.pc = pc /\ next.result = result
      /\ next.wire = me.wire /\ next.request = me.request /\ next.now = me.now
      /\ next.id = me.id /\ next.previous = me.previous
  BY <1>1, <1>2 DEF Active
<1>4. RowOf(c, next) = RowOf(c, me)
  BY <1>3 DEF RowOf, NextState
<1>5. Verdict(next, result)
  BY <1>3 DEF Verdict, Shut, Earned
<1>6. CallHolds(c, next)
  BY <1>1, <1>3, <1>4, <1>5 DEF CallHolds, Running
<1>. QED
  BY <1>2, <1>3, <1>6, OneMoves DEF Goto

\* What a live row answers: an effect of the same intent, or a refusal that holds
\* because the invocation's own effect would still keep the row.
LEMMA AnswerJudges ==
  ASSUME TypeOK, Knowledge, OncePerWindow, NEW c \in Calls, Running(c),
         Live(idempotency[call[c].request.key], call[c].now)
  PROVE  Verdict(call[c], Answer(call[c].request, idempotency[call[c].request.key]))
<1> DEFINE me == call[c]
           k == me.request.key
           row == idempotency[k]
<1>1. /\ me \in Active /\ CallHolds(c, me) /\ k \in Keys
      /\ me.now \in Nat /\ me.request \in Requests
  BY NotIdle DEF Running, Knowledge, CallsHold, Active, Requests
<1>2. PICK e \in outbox :
        /\ e.request.key = k
        /\ row.fingerprint = Fingerprint(e.request)
        /\ row.response = Ok(e.resource, e.version)
        /\ row.expiresAt = e.now + TTL
  BY <1>1 DEF Live, Knowledge, RowsHold
<1>3. Shut(me)
  BY DEF Shut
<1>4. CASE row.fingerprint = Fingerprint(me.request)
  <2>1. Promise!SameIntent(e.request, me.request)
    BY <1>2, <1>4 DEF Promise!SameIntent, Fingerprint
  <2>2. Answer(me.request, row) = Ok(e.resource, e.version)
    BY <1>2, <1>4 DEF Answer
  <2>3. Earned(me, Answer(me.request, row))
    BY <2>1, <2>2 DEF Earned
  <2>4. Answer(me.request, row).ok
    BY <2>2 DEF Ok
  <2>. QED
    BY <2>3, <2>4, <1>3 DEF Verdict
<1>5. CASE row.fingerprint # Fingerprint(me.request)
  <2>1. ASSUME me.wire = "done" PROVE FALSE
    <3> DEFINE own == RowOf(c, me)
    <3>1. own \in outbox /\ own.now = me.now /\ own.request = me.request
      BY <1>1, <2>1 DEF CallHolds, Running, RowOf
    <3>2. own # e
      BY <1>2, <1>5, <3>1
    <3>3. e.now \in Nat /\ e.now <= clock /\ clock \in Nat
      BY DEF Knowledge, EffectsHold, TypeOK, OutboxRows
    <3>4. clock <= me.now + Lifetime
      BY <1>1 DEF CallHolds, Running
    <3>5. me.now + TTL <= e.now \/ e.now + TTL <= me.now
      BY <1>2, <3>1, <3>2 DEF OncePerWindow
    <3>6. me.now < e.now + TTL
      BY <1>2 DEF Live
    <3>. QED
      BY <1>1, <3>3, <3>4, <3>5, <3>6, DispatchAssumption, WindowAssumption
  <2>2. Answer(me.request, row) = Fail("idempotency.conflict")
    BY <1>5 DEF Answer
  <2>. QED
    BY <2>1, <2>2, <1>3 DEF Verdict, Fail, Errors
<1>. QED
  BY <1>4, <1>5

LEMMA FinishedKnows ==
  ASSUME TypeOK, Knowledge, NEW c \in Calls, Running(c),
         NEW result \in Responses \cup Failures, Verdict(call[c], result),
         Finish(c, result), UNCHANGED <<clock, Store>>
  PROVE  Knowledge'
<1> DEFINE pc == IF ~result.ok /\ result.code \in Retryable THEN "recover" ELSE "validate"
<1>1. pc \in {"recover", "validate"}
  OBVIOUS
<1>2. Goto(c, [call[c] EXCEPT !.pc = pc, !.result = result])
  BY DEF Finish
<1> HIDE DEF pc
<1>. QED
  BY <1>1, <1>2, FinishKnows

\* An error that promises nothing, or one of a plan that is not on its way.
LEMMA FailJudges ==
  ASSUME NEW me, NEW code \in Errors,
         code \in OpenCodes \/ me.wire \notin {"request", "done"}
  PROVE  Verdict(me, Fail(code)) /\ Fail(code) \in Failures
BY FailType DEF Verdict, Shut, Fail

LEMMA LookupKnows ==
  ASSUME TypeOK, Knowledge, OncePerWindow, NEW c \in Calls, Lookup(c)
  PROVE  Knowledge'
<1> DEFINE me == call[c]
           row == idempotency[me.request.key]
<1>1. me \in Active /\ CallHolds(c, me) /\ Running(c) /\ me.pc = "lookup"
  BY NotIdle DEF Lookup, Running, Knowledge, CallsHold
<1>2. me.wire = "unsent" /\ row \in IdempotencyRows
  BY <1>1 DEF CallHolds, TypeOK, Active, Requests
<1>3. UNCHANGED <<clock, Store>>
  BY DEF Lookup, Store
<1>4. CASE \E code \in Errors : Finish(c, Fail(code))
  BY <1>1, <1>2, <1>3, <1>4, FailJudges, FinishedKnows
<1>5. CASE Live(row, me.now) /\ Finish(c, Answer(me.request, row))
  <2>1. Answer(me.request, row) \in Responses \cup Failures
    BY <1>2, <1>5, AnswerType DEF Live
  <2>. QED
    BY <1>1, <1>3, <1>5, <2>1, AnswerJudges, FinishedKnows
<1>6. CASE Goto(c, [me EXCEPT !.pc = "load"])
  <2>1. SUFFICES ASSUME NEW next, next = [me EXCEPT !.pc = "load"] PROVE Knowledge'
    OBVIOUS
  <2>2. next.pc = "load" /\ next.wire = "unsent" /\ next.now = me.now
    BY <1>1, <1>2, <2>1 DEF Active
  <2>3. CallHolds(c, next)
    BY <1>1, <2>2 DEF CallHolds
  <2>. QED
    BY <1>2, <1>3, <1>6, <2>1, <2>2, <2>3, OneMoves DEF Goto
<1>. QED
  BY <1>4, <1>5, <1>6 DEF Lookup, Errors

LEMMA LoadKnows ==
  ASSUME TypeOK, Knowledge, NEW c \in Calls, Load(c)
  PROVE  Knowledge'
<1> DEFINE me == call[c]
<1>1. me \in Active /\ CallHolds(c, me) /\ Running(c) /\ me.pc = "load"
  BY NotIdle DEF Load, Running, Knowledge, CallsHold
<1>2. me.wire = "unsent"
  BY <1>1 DEF CallHolds
<1>3. UNCHANGED <<clock, Store>>
  BY DEF Load, Store
<1>4. ASSUME NEW next, Goto(c, next), next.pc = "commit", next.wire = me.wire,
             next.now = me.now
      PROVE  Knowledge'
  <2>1. CallHolds(c, next)
    BY <1>1, <1>2, <1>4 DEF CallHolds
  <2>. QED
    BY <1>2, <1>3, <1>4, <2>1, OneMoves DEF Goto
<1>5. CASE \E code \in Errors : Finish(c, Fail(code))
  BY <1>1, <1>2, <1>3, <1>5, FailJudges, FinishedKnows
<1>6. CASE \E id \in (IF me.id = NoId THEN Generated \ Minted ELSE {me.id}) :
             Goto(c, [me EXCEPT !.pc = "commit", !.id = id])
  <2>1. PICK id : Goto(c, [me EXCEPT !.pc = "commit", !.id = id])
    BY <1>6
  <2>2. SUFFICES ASSUME NEW next, next = [me EXCEPT !.pc = "commit", !.id = id]
                PROVE  Knowledge'
    OBVIOUS
  <2>3. next.pc = "commit" /\ next.wire = me.wire /\ next.now = me.now
    BY <1>1, <2>2 DEF Active
  <2>. QED
    BY <1>4, <2>1, <2>2, <2>3
<1>7. CASE Goto(c, [me EXCEPT !.pc = "commit", !.previous = resource[me.id]])
  <2>1. SUFFICES ASSUME NEW next, next = [me EXCEPT !.pc = "commit", !.previous = resource[me.id]]
                PROVE  Knowledge'
    OBVIOUS
  <2>2. next.pc = "commit" /\ next.wire = me.wire /\ next.now = me.now
    BY <1>1, <2>1 DEF Active
  <2>. QED
    BY <1>4, <1>7, <2>1, <2>2
<1>. QED
  BY <1>5, <1>6, <1>7 DEF Load, Errors

LEMMA CommitKnows ==
  ASSUME TypeOK, Knowledge, NEW c \in Calls, Commit(c)
  PROVE  Knowledge'
<1> DEFINE me == call[c]
<1>1. me \in Active /\ CallHolds(c, me) /\ Running(c) /\ me.pc = "commit"
  BY NotIdle DEF Commit, Running, Knowledge, CallsHold
<1>2. me.wire = "unsent" /\ UNCHANGED <<clock, Store>>
  BY <1>1 DEF CallHolds, Commit, Store
<1>3. CASE Finish(c, Fail("command.rejected"))
  BY <1>1, <1>2, <1>3, FailJudges, FinishedKnows DEF Errors
<1>4. CASE Goto(c, [me EXCEPT !.pc = "sent", !.wire = "request"])
  <2>1. SUFFICES ASSUME NEW next, next = [me EXCEPT !.pc = "sent", !.wire = "request"]
                PROVE  Knowledge'
    OBVIOUS
  <2>2. next.pc = "sent" /\ next.wire = "request" /\ next.now = me.now
    BY <1>1, <2>1 DEF Active
  <2>3. CallHolds(c, next)
    BY <1>1, <2>2 DEF CallHolds
  <2>. QED
    BY <1>2, <1>4, <2>1, <2>2, <2>3, OneMoves DEF Goto
<1>. QED
  BY <1>3, <1>4 DEF Commit

LEMMA ReceiveKnows ==
  ASSUME TypeOK, Knowledge, NEW c \in Calls, Receive(c)
  PROVE  Knowledge'
<1> DEFINE me == call[c]
           told == Ok(me.id, NextState(me).version)
<1>1. /\ me \in Active /\ me.id \in Ids /\ CallHolds(c, me) /\ Running(c)
      /\ UNCHANGED <<clock, Store>>
  BY NotIdle DEF Receive, Running, Knowledge, CallsHold, Store, Invocations, Planned
<1>2. CASE me.wire = "done" /\ Finish(c, told)
  <2>1. RowOf(c, me) \in outbox
    BY <1>1, <1>2 DEF CallHolds, Running
  <2>2. Promise!SameIntent(RowOf(c, me).request, me.request)
    BY DEF Promise!SameIntent, RowOf
  <2>3. told = Ok(RowOf(c, me).resource, RowOf(c, me).version) /\ told.ok
    BY DEF RowOf, Ok
  <2>4. Verdict(me, told)
    BY <1>2, <2>1, <2>2, <2>3 DEF Verdict, Earned, Shut
  <2>5. told \in Responses
    BY <1>1, NextStateType, OkType
  <2>. QED
    BY <1>1, <1>2, <2>4, <2>5, FinishedKnows
<1>3. CASE \/ me.wire \in Conflicts /\ Finish(c, Fail(me.wire))
           \/ Finish(c, Fail("runtime.unavailable"))
  BY <1>1, <1>3, FailJudges, FinishedKnows DEF Conflicts, Errors, OpenCodes
<1>. QED
  BY <1>2, <1>3 DEF Receive

LEMMA RecoverKnows ==
  ASSUME TypeOK, Knowledge, OncePerWindow, NEW c \in Calls, Recover(c)
  PROVE  Knowledge'
<1> DEFINE me == call[c]
           row == idempotency[me.request.key]
<1>1. /\ me \in Active /\ CallHolds(c, me) /\ Running(c) /\ me.pc = "recover"
      /\ row \in IdempotencyRows /\ UNCHANGED <<clock, Store>>
  BY NotIdle DEF Recover, Running, Knowledge, CallsHold, Store, Active, Requests, TypeOK
<1>2. Verdict(me, me.result) /\ me.result \in Responses \cup Failures
  BY <1>1 DEF CallHolds, Active
<1>3. CASE Goto(c, [me EXCEPT !.pc = "validate"])
  <2>1. [me EXCEPT !.pc = "validate"] = [me EXCEPT !.pc = "validate", !.result = me.result]
    BY <1>1 DEF Active
  <2>. QED
    BY <1>1, <1>2, <1>3, <2>1, FinishKnows
<1>4. CASE /\ Live(row, me.now)
           /\ Goto(c, [me EXCEPT !.pc = "validate", !.result = Answer(me.request, row)])
  <2>1. Answer(me.request, row) \in Responses \cup Failures
    BY <1>1, <1>4, AnswerType DEF Live
  <2>. QED
    BY <1>1, <1>4, <2>1, AnswerJudges, FinishKnows
<1>5. CASE Goto(c, [me EXCEPT !.lookups = @ + 1])
  <2>1. SUFFICES ASSUME NEW next, next = [me EXCEPT !.lookups = @ + 1] PROVE Knowledge'
    OBVIOUS
  <2>2. /\ next.pc = me.pc /\ next.result = me.result
        /\ next.wire = me.wire /\ next.request = me.request /\ next.now = me.now
        /\ next.id = me.id /\ next.previous = me.previous
    BY <1>1, <2>1 DEF Active
  <2>3. RowOf(c, next) = RowOf(c, me)
    BY <2>2 DEF RowOf, NextState
  <2>4. CallHolds(c, next)
    BY <1>1, <2>2, <2>3 DEF CallHolds, Verdict, Shut, Earned
  <2>. QED
    BY <1>1, <1>5, <2>1, <2>2, <2>4, OneMoves DEF Goto
<1>. QED
  BY <1>3, <1>4, <1>5 DEF Recover

LEMMA ValidateKnows ==
  ASSUME TypeOK, Knowledge, NEW c \in Calls, Validate(c)
  PROVE  Knowledge'
<1> DEFINE me == call[c]
<1>1. /\ me \in Active /\ CallHolds(c, me) /\ me.pc = "validate"
      /\ UNCHANGED <<clock, Store>>
  BY NotIdle DEF Validate, Knowledge, CallsHold, Store
<1>2. ASSUME NEW result, Verdict(me, result),
             Goto(c, [me EXCEPT !.pc = "returned", !.result = result])
      PROVE  Knowledge'
  <2>1. SUFFICES ASSUME NEW next, next = [me EXCEPT !.pc = "returned", !.result = result]
                PROVE  Knowledge'
    OBVIOUS
  <2>2. /\ next.pc = "returned" /\ next.result = result
        /\ next.wire = me.wire /\ next.request = me.request /\ next.now = me.now
        /\ next.id = me.id /\ next.previous = me.previous
    BY <1>1, <2>1 DEF Active
  <2>3. RowOf(c, next) = RowOf(c, me)
    BY <2>2 DEF RowOf, NextState
  <2>4. Verdict(next, result)
    BY <1>2, <2>2 DEF Verdict, Shut, Earned
  <2>5. CallHolds(c, next)
    BY <1>1, <2>2, <2>3, <2>4 DEF CallHolds
  <2>. QED
    BY <1>1, <1>2, <2>1, <2>2, <2>5, OneMoves DEF Goto
<1>3. CASE Goto(c, [me EXCEPT !.pc = "returned"])
  <2>1. Verdict(me, me.result)
    BY <1>1 DEF CallHolds
  <2>2. [me EXCEPT !.pc = "returned"] = [me EXCEPT !.pc = "returned", !.result = me.result]
    BY <1>1 DEF Active
  <2>. QED
    BY <1>2, <1>3, <2>1, <2>2
<1>4. CASE Goto(c, [me EXCEPT !.pc = "returned", !.result = Fail("validator")])
  BY <1>2, <1>4, FailJudges DEF Errors, OpenCodes
<1>. QED
  BY <1>3, <1>4 DEF Validate

LEMMA CrashKnows ==
  ASSUME TypeOK, Knowledge, NEW c \in Calls, Crash(c)
  PROVE  Knowledge'
<1> DEFINE me == call[c]
<1>1. /\ me \in Active /\ CallHolds(c, me) /\ me.pc # "idle"
      /\ UNCHANGED <<clock, Store>>
  BY NotIdle DEF Crash, Running, Knowledge, CallsHold, Store
<1>2. SUFFICES ASSUME NEW next, next = [me EXCEPT !.pc = "crashed"] PROVE Knowledge'
  OBVIOUS
<1>3. /\ next.pc = "crashed"
      /\ next.wire = me.wire /\ next.request = me.request /\ next.now = me.now
      /\ next.id = me.id /\ next.previous = me.previous
  BY <1>1, <1>2 DEF Active
<1>4. RowOf(c, next) = RowOf(c, me)
  BY <1>3 DEF RowOf, NextState
<1>5. CallHolds(c, next)
  BY <1>1, <1>3, <1>4 DEF CallHolds
<1>. QED
  BY <1>1, <1>2, <1>3, <1>5, OneMoves DEF Crash, Goto

\* A request that the store refuses, or that is lost, binds its invocation less.
LEMMA WireKnows ==
  ASSUME TypeOK, Knowledge, NEW c \in Calls, call[c].pc # "idle", call[c].wire = "request",
         NEW wire \in {"lost"} \cup Conflicts,
         Goto(c, [call[c] EXCEPT !.wire = wire]), UNCHANGED <<clock, Store>>
  PROVE  Knowledge'
<1> DEFINE me == call[c]
<1>1. me \in Active /\ CallHolds(c, me)
  BY NotIdle DEF Knowledge, CallsHold
<1>2. SUFFICES ASSUME NEW next, next = [me EXCEPT !.wire = wire] PROVE Knowledge'
  OBVIOUS
<1>3. /\ next.pc = me.pc /\ next.result = me.result
      /\ next.wire = wire /\ next.request = me.request /\ next.now = me.now
      /\ wire \notin {"request", "done"}
  BY <1>1, <1>2 DEF Active, Conflicts
<1>4. Verdict(me, me.result) => Verdict(next, next.result)
  BY <1>3 DEF Verdict, Shut, Earned
<1>5. CallHolds(c, next)
  BY <1>1, <1>3, <1>4 DEF CallHolds
<1>. QED
  BY <1>1, <1>2, <1>3, <1>5, OneMoves DEF Goto

LEMMA BeginKnows ==
  ASSUME TypeOK, Knowledge, NEW c \in Calls, NEW q \in Requests, Begin(c, q)
  PROVE  Knowledge'
<1>1. SUFFICES ASSUME NEW next,
                      next = [pc |-> "lookup", request |-> q, now |-> clock, id |-> q.resource,
                              previous |-> Absent, lookups |-> 0, wire |-> "unsent",
                              result |-> NoResult]
              PROVE  Knowledge'
  OBVIOUS
<1>2. next.pc = "lookup" /\ next.wire = "unsent" /\ next.now = clock
  BY <1>1
<1>3. clock <= clock /\ clock <= clock + Lifetime
  BY DispatchAssumption DEF TypeOK
<1>4. CallHolds(c, next)
  BY <1>2, <1>3 DEF CallHolds
<1>. QED
  BY <1>1, <1>2, <1>4, OneMoves DEF Begin, Goto, Store

LEMMA TickKnows ==
  ASSUME TypeOK, Knowledge, Tick
  PROVE  Knowledge'
<1>1. clock \in Nat /\ clock' = clock + 1 /\ UNCHANGED <<resource, idempotency, outbox, call>>
  BY DEF Tick, TypeOK
<1>2. ASSUME NEW c \in Calls PROVE CallHolds(c, call[c])'
  <2>1. CallHolds(c, call[c])
    BY DEF Knowledge, CallsHold
  <2>2. call[c].pc # "idle" => call[c].now \in Nat
    BY NotIdle DEF Active
  <2>3. call[c].pc \notin {"idle", "returned", "crashed"} => clock < call[c].now + Lifetime
    BY DEF Tick, Running
  <2>. QED
    BY <1>1, <2>1, <2>2, <2>3, DispatchAssumption
    DEF CallHolds, Verdict, Shut, Earned, Live
<1>3. EffectsHold'
  <2>1. \A e \in outbox : e.now \in Nat
    BY DEF TypeOK, OutboxRows
  <2>. QED
    BY <1>1, <2>1 DEF Knowledge, EffectsHold
<1>. QED
  BY <1>1, <1>2, <1>3 DEF Knowledge, CallsHold, RowsHold

\* The store takes a plan: for its invocation the promise left that open, and every
\* other row that a verdict rests on is replaced only by one that lives longer.
LEMMA PublishKnows ==
  ASSUME TypeOK, Knowledge, NEW c \in Calls, Published(c),
         Goto(c, [call[c] EXCEPT !.wire = "done"]), UNCHANGED clock
  PROVE  Knowledge'
<1> DEFINE me == call[c]
           k == me.request.key
           new == NewRow(c)
<1>1. /\ me \in Active /\ CallHolds(c, me) /\ me.pc # "idle" /\ me.wire = "request"
      /\ me.now \in Nat /\ k \in Keys /\ me.now <= clock
  BY NotIdle DEF Published, Knowledge, CallsHold, CallHolds, Active, Requests
<1>2. /\ outbox' = outbox \cup {new} /\ new = RowOf(c, me)
      /\ idempotency' = [idempotency EXCEPT ![k] = NewIdempotency(c)]
  BY PublishRows DEF Published, NewRow
<1>3. SUFFICES ASSUME NEW next, next = [me EXCEPT !.wire = "done"] PROVE Knowledge'
  OBVIOUS
<1>4. /\ next.pc = me.pc /\ next.result = me.result
      /\ next.wire = "done" /\ next.request = me.request /\ next.now = me.now
      /\ next.id = me.id /\ next.previous = me.previous
  BY <1>1, <1>3 DEF Active
<1>5. \A d \in Calls : call'[d] = IF d = c THEN next ELSE call[d]
  BY <1>3 DEF Goto, TypeOK
<1>6. RowOf(c, next) = new
  BY <1>2, <1>4 DEF RowOf, NextState
<1>7. /\ idempotency'[k] = NewIdempotency(c)
      /\ NewIdempotency(c).present /\ NewIdempotency(c).expiresAt = me.now + TTL
      /\ NewIdempotency(c).fingerprint = Fingerprint(new.request)
      /\ NewIdempotency(c).response = Ok(new.resource, new.version)
      /\ \A j \in Keys \ {k} : idempotency'[j] = idempotency[j]
  BY <1>1, <1>2 DEF TypeOK, NewIdempotency, RowOf
<1>8. ASSUME NEW d \in Calls, call[d].pc # "idle", Shut(call[d]) PROVE Shut(call[d])'
  <2>1. call[d].now \in Nat /\ call[d].request.key \in Keys
    BY <1>8, NotIdle DEF Active, Requests
  <2>2. ASSUME Live(idempotency[k], call[d].now), call[d].request.key = k
        PROVE  Live(idempotency'[k], call[d].now)
    <3>1. idempotency[k] \in StoredRows
      BY <1>1, <2>2, PresentRow DEF TypeOK, Live
    <3>2. idempotency[k].expiresAt \in Nat /\ idempotency[k].expiresAt > call[d].now
      BY <2>2, <3>1 DEF StoredRows, Live
    <3>3. idempotency[k].expiresAt <= me.now
      BY <1>1, <2>2, <3>2 DEF Published, IdempotencyFree, Live
    <3>4. me.now + TTL > call[d].now
      BY <1>1, <2>1, <3>2, <3>3, DispatchAssumption
    <3>. QED
      BY <1>7, <3>4 DEF Live
  <2>3. CASE d = c
    BY <1>4, <1>5, <2>3 DEF Shut
  <2>4. CASE d # c /\ call[d].request.key = k
    BY <1>5, <1>8, <2>2, <2>4 DEF Shut
  <2>5. CASE d # c /\ call[d].request.key # k
    BY <1>5, <1>7, <1>8, <2>1, <2>5 DEF Shut
  <2>. QED
    BY <2>3, <2>4, <2>5
<1>9. ASSUME NEW d \in Calls PROVE CallHolds(d, call[d])'
  <2>1. CallHolds(d, call[d])
    BY DEF Knowledge, CallsHold
  <2>2. CASE d = c
    <3>1. me.pc \in {"recover", "validate", "returned"} =>
            /\ ~me.result.ok /\ me.result.code \in Errors /\ me.result.code \in OpenCodes
      BY <1>1 DEF CallHolds, Verdict, Shut, Published, IdempotencyFree
    <3>2. me.pc \in {"recover", "validate", "returned"} => Verdict(next, next.result)'
      BY <1>4, <3>1 DEF Verdict
    <3>3. CallHolds(c, next)'
      BY <1>1, <1>2, <1>4, <1>6, <3>2 DEF CallHolds
    <3>. QED
      BY <1>5, <2>2, <3>3
  <2>3. CASE d # c
    <3>1. call'[d] = call[d]
      BY <1>5, <2>3
    <3>2. Verdict(call[d], call[d].result) /\ call[d].pc # "idle"
            => Verdict(call[d], call[d].result)'
      BY <1>2, <1>8, <3>1 DEF Verdict, Earned
    <3>. QED
      BY <1>2, <2>1, <3>1, <3>2 DEF CallHolds
  <2>. QED
    BY <2>2, <2>3
<1>10. EffectsHold'
  <2>1. ASSUME NEW e \in outbox
        PROVE  call'[e.call].pc # "idle" /\ call'[e.call].wire = "done" /\ e.now <= clock
    BY <1>4, <1>5 DEF Knowledge, EffectsHold, TypeOK, OutboxRows
  <2>2. call'[new.call].pc # "idle" /\ call'[new.call].wire = "done" /\ new.now <= clock
    BY <1>1, <1>2, <1>4, <1>5 DEF RowOf
  <2>. QED
    BY <1>2, <2>1, <2>2 DEF EffectsHold
<1>11. RowsHold'
  <2>1. new.request.key = k /\ new.now = me.now
    BY <1>2 DEF RowOf
  <2>. QED
    BY <1>2, <1>7, <2>1 DEF Knowledge, RowsHold
<1>. QED
  BY <1>9, <1>10, <1>11 DEF Knowledge, CallsHold

LEMMA ApplyKnows ==
  ASSUME TypeOK, Knowledge, NEW c \in Calls, Apply(c)
  PROVE  Knowledge'
<1>1. CASE Published(c) /\ Goto(c, [call[c] EXCEPT !.wire = "done"])
  BY <1>1, PublishKnows DEF Apply
<1>2. CASE /\ Goto(c, [call[c] EXCEPT !.wire = Refusal(IdempotencyFree(call[c]))])
           /\ UNCHANGED Store
  <2>1. Refusal(IdempotencyFree(call[c])) \in Conflicts
    BY DEF Refusal, Conflicts
  <2>. QED
    BY <1>2, <2>1, WireKnows DEF Apply
<1>. QED
  BY <1>1, <1>2 DEF Apply, Published, Store

LEMMA NextKnows ==
  ASSUME TypeOK, Knowledge, OncePerWindow, [Next]_vars
  PROVE  Knowledge'
<1>1. CASE Tick
  BY <1>1, TickKnows
<1>2. ASSUME NEW c \in Calls, NEW q \in scene.requests, Begin(c, q) PROVE Knowledge'
  BY <1>2, ComesIn, BeginKnows
<1>3. ASSUME NEW c \in Calls, Step(c) PROVE Knowledge'
  BY <1>3, LookupKnows, LoadKnows, CommitKnows, ReceiveKnows, RecoverKnows, ValidateKnows
  DEF Step
<1>4. ASSUME NEW c \in Calls, Apply(c) PROVE Knowledge'
  BY <1>4, ApplyKnows
<1>5. ASSUME NEW c \in Calls, Lose(c) PROVE Knowledge'
  BY <1>5, WireKnows DEF Lose, Store
<1>6. ASSUME NEW c \in Calls, Crash(c) PROVE Knowledge'
  BY <1>6, CrashKnows
<1>7. CASE UNCHANGED vars
  BY <1>7 DEF vars, Knowledge, CallsHold, CallHolds, EffectsHold, RowsHold, Verdict, Shut,
     Earned, Live
<1>. QED
  BY <1>1, <1>2, <1>3, <1>4, <1>5, <1>6, <1>7 DEF Next
-----------------------------------------------------------------------------
(* The refinement: an invocation is invoked when it begins, takes effect    *)
(* when the store takes its plan, and returns when it is validated.  Every  *)
(* other step changes nothing the promise speaks of.                        *)

Invoked(me) ==
  IF me.pc = "idle" THEN NotInvoked ELSE [request |-> me.request, now |-> me.now]
Told(me) == IF me.pc = "returned" THEN me.result ELSE NoResult

LEMMA InitPromises == Init => Promise!Init
BY DispatchAssumption DEF Init, Promise!Init, Idle, Ids

LEMMA QuietKeepsSeen ==
  ASSUME TypeOK, NEW c \in Calls, NEW me, Goto(c, me), outbox' = outbox, UNCHANGED scene,
         Invoked(me) = Invoked(call[c]), Told(me) = Told(call[c])
  PROVE  UNCHANGED Promise!promise
<1>1. \A d \in Calls : call'[d] = IF d = c THEN me ELSE call[d]
  BY DEF Goto, TypeOK
<1>2. \A d \in Calls : Invoked(call'[d]) = Invoked(call[d]) /\ Told(call'[d]) = Told(call[d])
  BY <1>1
<1>3. UNCHANGED <<[d \in Calls |-> Invoked(call[d])], outbox, [d \in Calls |-> Told(call[d])]>>
  BY <1>2
<1>4. UNCHANGED scene.stored
  OBVIOUS
<1>. QED
  BY <1>3, <1>4 DEF Promise!promise, Invoked, Told

\* A finished attempt, a plan on its way, a process that dies: none is a return.
LEMMA LocalStutters ==
  ASSUME TypeOK, UNCHANGED scene, NEW c \in Calls,
         Lookup(c) \/ Load(c) \/ Commit(c) \/ Receive(c) \/ Recover(c) \/ Lose(c) \/ Crash(c)
  PROVE  UNCHANGED Promise!promise
<1> DEFINE me == call[c]
<1>1. me \in Active /\ me.pc # "idle" /\ outbox' = outbox
  BY NotIdle DEF Lookup, Load, Commit, Receive, Recover, Lose, Crash, Running
<1>2. ASSUME NEW next, Goto(c, next), next.request = me.request, next.now = me.now,
             next.pc # "idle", Told(next) = Told(me)
      PROVE  UNCHANGED Promise!promise
  BY <1>1, <1>2, QuietKeepsSeen DEF Invoked
<1>3. ASSUME me.pc # "returned", NEW next, Goto(c, next), next.request = me.request,
             next.now = me.now, next.pc \notin {"idle", "returned"}
      PROVE  UNCHANGED Promise!promise
  BY <1>2, <1>3 DEF Told
<1>4. ASSUME me.pc # "returned", NEW result, Finish(c, result)
      PROVE  UNCHANGED Promise!promise
  <2> DEFINE pc == IF ~result.ok /\ result.code \in Retryable THEN "recover" ELSE "validate"
  <2>1. pc \notin {"idle", "returned"}
    OBVIOUS
  <2>2. Goto(c, [me EXCEPT !.pc = pc, !.result = result])
    BY <1>4 DEF Finish
  <2> HIDE DEF pc
  <2>3. /\ [me EXCEPT !.pc = pc, !.result = result].pc = pc
        /\ [me EXCEPT !.pc = pc, !.result = result].request = me.request
        /\ [me EXCEPT !.pc = pc, !.result = result].now = me.now
    BY <1>1 DEF Active
  <2>. QED
    BY <1>3, <1>4, <2>1, <2>2, <2>3
<1>5. CASE Lookup(c)
  <2>1. me.pc # "returned"
    BY <1>5 DEF Lookup
  <2>2. CASE Goto(c, [me EXCEPT !.pc = "load"])
    <3>1. SUFFICES ASSUME NEW next, next = [me EXCEPT !.pc = "load"]
                  PROVE  UNCHANGED Promise!promise
      OBVIOUS
    <3>2. next.pc = "load" /\ next.request = me.request /\ next.now = me.now
      BY <1>1, <3>1 DEF Active
    <3>. QED
      BY <1>3, <2>1, <2>2, <3>1, <3>2
  <2>. QED
    BY <1>4, <1>5, <2>1, <2>2 DEF Lookup
<1>6. CASE Load(c)
  <2>1. me.pc # "returned"
    BY <1>6 DEF Load
  <2>2. ASSUME NEW id, NEW row, Goto(c, [me EXCEPT !.pc = "commit", !.id = id, !.previous = row])
        PROVE  UNCHANGED Promise!promise
    <3>1. SUFFICES ASSUME NEW next, next = [me EXCEPT !.pc = "commit", !.id = id, !.previous = row]
                  PROVE  UNCHANGED Promise!promise
      OBVIOUS
    <3>2. next.pc = "commit" /\ next.request = me.request /\ next.now = me.now
      BY <1>1, <3>1 DEF Active
    <3>. QED
      BY <1>3, <2>1, <2>2, <3>1, <3>2
  <2>3. \A id, row :
          /\ [me EXCEPT !.pc = "commit", !.id = id]
               = [me EXCEPT !.pc = "commit", !.id = id, !.previous = me.previous]
          /\ [me EXCEPT !.pc = "commit", !.previous = row]
               = [me EXCEPT !.pc = "commit", !.id = me.id, !.previous = row]
    BY <1>1 DEF Active
  <2>4. CASE \E id \in (IF me.id = NoId THEN Generated \ Minted ELSE {me.id}) :
               Goto(c, [me EXCEPT !.pc = "commit", !.id = id])
    <3>1. PICK id : Goto(c, [me EXCEPT !.pc = "commit", !.id = id])
      BY <2>4
    <3>. QED
      BY <2>2, <2>3, <3>1
  <2>5. CASE Goto(c, [me EXCEPT !.pc = "commit", !.previous = resource[me.id]])
    BY <2>2, <2>3, <2>5
  <2>. QED
    BY <1>4, <1>6, <2>1, <2>4, <2>5 DEF Load
<1>7. CASE Commit(c)
  <2>1. me.pc # "returned"
    BY <1>7 DEF Commit
  <2>2. CASE Goto(c, [me EXCEPT !.pc = "sent", !.wire = "request"])
    <3>1. SUFFICES ASSUME NEW next, next = [me EXCEPT !.pc = "sent", !.wire = "request"]
                  PROVE  UNCHANGED Promise!promise
      OBVIOUS
    <3>2. next.pc = "sent" /\ next.request = me.request /\ next.now = me.now
      BY <1>1, <3>1 DEF Active
    <3>. QED
      BY <1>3, <2>1, <2>2, <3>1, <3>2
  <2>. QED
    BY <1>4, <1>7, <2>1, <2>2 DEF Commit
<1>8. CASE Receive(c)
  BY <1>4, <1>8 DEF Receive
<1>9. CASE Recover(c)
  <2>1. me.pc = "recover"
    BY <1>9 DEF Recover
  <2>2. ASSUME NEW next, Goto(c, next), next.request = me.request, next.now = me.now,
               next.pc \in {"recover", "validate"}
        PROVE  UNCHANGED Promise!promise
    BY <1>3, <2>1, <2>2
  <2>3. ASSUME NEW result
        PROVE  /\ [me EXCEPT !.pc = "validate", !.result = result].pc = "validate"
               /\ [me EXCEPT !.pc = "validate", !.result = result].request = me.request
               /\ [me EXCEPT !.pc = "validate", !.result = result].now = me.now
    BY <1>1 DEF Active
  <2>4. /\ [me EXCEPT !.pc = "validate"] = [me EXCEPT !.pc = "validate", !.result = me.result]
        /\ [me EXCEPT !.lookups = @ + 1].pc = "recover"
        /\ [me EXCEPT !.lookups = @ + 1].request = me.request
        /\ [me EXCEPT !.lookups = @ + 1].now = me.now
    BY <1>1, <2>1 DEF Active
  <2>5. CASE Goto(c, [me EXCEPT !.pc = "validate"])
    BY <2>2, <2>3, <2>4, <2>5
  <2>6. CASE Goto(c, [me EXCEPT !.pc = "validate",
                                !.result = Answer(me.request, idempotency[me.request.key])])
    BY <2>2, <2>3, <2>6
  <2>7. CASE Goto(c, [me EXCEPT !.lookups = @ + 1])
    BY <2>2, <2>4, <2>7
  <2>. QED
    BY <1>9, <2>5, <2>6, <2>7 DEF Recover
<1>10. CASE Lose(c)
  <2>1. SUFFICES ASSUME NEW next, next = [me EXCEPT !.wire = "lost"]
                PROVE  UNCHANGED Promise!promise
    OBVIOUS
  <2>2. /\ next.pc = me.pc /\ next.request = me.request /\ next.now = me.now
        /\ next.result = me.result
    BY <1>1, <2>1 DEF Active
  <2>. QED
    BY <1>1, <1>2, <1>10, <2>1, <2>2 DEF Lose, Told
<1>11. CASE Crash(c)
  <2>1. SUFFICES ASSUME NEW next, next = [me EXCEPT !.pc = "crashed"]
                PROVE  UNCHANGED Promise!promise
    OBVIOUS
  <2>2. next.pc = "crashed" /\ next.request = me.request /\ next.now = me.now
    BY <1>1, <2>1 DEF Active
  <2>. QED
    BY <1>3, <1>11, <2>1, <2>2 DEF Crash, Running
<1>. QED
  BY <1>5, <1>6, <1>7, <1>8, <1>9, <1>10, <1>11

LEMMA BeginPromises ==
  ASSUME TypeOK, NEW c \in Calls, NEW q \in Requests, Begin(c, q)
  PROVE  Promise!Invoke(c)
<1>1. SUFFICES ASSUME NEW next,
                      next = [pc |-> "lookup", request |-> q, now |-> clock, id |-> q.resource,
                              previous |-> Absent, lookups |-> 0, wire |-> "unsent",
                              result |-> NoResult]
              PROVE  Promise!Invoke(c)
  OBVIOUS
<1>2. \A d \in Calls : call'[d] = IF d = c THEN next ELSE call[d]
  BY <1>1 DEF Begin, Goto, TypeOK
<1>3. Invoked(next) = [request |-> q, now |-> clock] /\ Told(next) = NoResult
  BY <1>1 DEF Invoked, Told
<1>4. Invoked(call[c]) = NotInvoked /\ Told(call[c]) = NoResult /\ call[c].pc = "idle"
  BY DEF Begin, Invoked, Told
<1>5. \A d \in Calls : /\ Invoked(call'[d]) = IF d = c THEN [request |-> q, now |-> clock]
                                               ELSE Invoked(call[d])
                       /\ Told(call'[d]) = Told(call[d])
  BY <1>2, <1>3, <1>4
<1>6. [request |-> q, now |-> clock] \in [request : Requests, now : Nat]
  BY DEF TypeOK
<1>. QED
  BY <1>4, <1>5, <1>6 DEF Promise!Invoke, Invoked, Told, Begin

\* A verdict becomes the answer, or the validator's error does.
LEMMA ValidatePromises ==
  ASSUME TypeOK, Knowledge, NEW c \in Calls, Validate(c)
  PROVE  Promise!Return(c)
<1> DEFINE me == call[c]
<1>1. /\ me \in Active /\ me.pc = "validate" /\ outbox' = outbox
      /\ Verdict(me, me.result) /\ me.result \in Responses \cup Failures
  BY NotIdle DEF Validate, Knowledge, CallsHold, CallHolds, Active
<1>2. PICK result : /\ Goto(c, [me EXCEPT !.pc = "returned", !.result = result])
                    /\ result = me.result \/ result = Fail("validator")
  <2>1. [me EXCEPT !.pc = "returned"] = [me EXCEPT !.pc = "returned", !.result = me.result]
    BY <1>1 DEF Active
  <2>. QED
    BY <2>1 DEF Validate
<1>3. SUFFICES ASSUME NEW next, next = [me EXCEPT !.pc = "returned", !.result = result]
              PROVE  Promise!Return(c)
  OBVIOUS
<1>4. next.pc = "returned" /\ next.request = me.request /\ next.now = me.now
      /\ next.result = result
  BY <1>1, <1>3 DEF Active
<1>5. \A d \in Calls : call'[d] = IF d = c THEN next ELSE call[d]
  BY <1>2, <1>3 DEF Goto, TypeOK
<1>6. \A d \in Calls : /\ Invoked(call'[d]) = Invoked(call[d])
                       /\ Told(call'[d]) = IF d = c THEN result ELSE Told(call[d])
  BY <1>1, <1>4, <1>5 DEF Invoked, Told
<1>7. /\ Invoked(me) = [request |-> me.request, now |-> me.now] /\ Invoked(me) # NotInvoked
      /\ Told(me) = NoResult
  BY <1>1 DEF Invoked, Told, NotInvoked
<1>8. \/ \E e \in outbox : /\ Promise!SameIntent(e.request, me.request)
                           /\ result = [ok |-> TRUE, resource |-> e.resource,
                                        version |-> e.version]
      \/ result \in {Fail("runtime.unavailable"), Fail("validator")}
      \/ /\ \A e \in outbox : e.call # c
         /\ result \in {Fail(code) : code \in Errors \ {"runtime.unavailable", "validator"}}
  <2>1. CASE result = Fail("validator")
    BY <2>1
  <2>2. CASE result = me.result /\ me.result.ok
    BY <1>1, <2>2 DEF Verdict, Earned, Ok
  <2>3. CASE result = me.result /\ ~me.result.ok
    <3>1. me.result = Fail(me.result.code) /\ me.result.code \in Errors
      BY <1>1, <2>3 DEF Verdict, Responses, Failures, Fail
    <3>2. me.result.code \notin OpenCodes => \A e \in outbox : e.call # c
      BY <1>1, <2>3 DEF Verdict, Knowledge, EffectsHold
    <3>. QED
      BY <2>3, <3>1, <3>2 DEF OpenCodes
  <2>. QED
    BY <1>2, <2>1, <2>2, <2>3
<1>. QED
  BY <1>1, <1>6, <1>7, <1>8 DEF Promise!Return, Invoked, Told

\* The store takes a plan: one new version, on top of its line and in a free window.
LEMMA PublishPromises ==
  ASSUME TypeOK, Knowledge, Line, Windows, UNCHANGED scene, NEW c \in Calls, Published(c),
         Goto(c, [call[c] EXCEPT !.wire = "done"])
  PROVE  Promise!Effect(c)
<1> DEFINE me == call[c]
           new == NewRow(c)
           k == me.request.key
           v == resource[me.id].version
<1>1. /\ me \in Active /\ CallHolds(c, me) /\ me.pc # "idle" /\ me.wire = "request"
      /\ me.now \in Nat /\ me.id \in Ids /\ k \in Keys
      /\ outbox' = outbox \cup {new} /\ new \in OutboxRows
  BY NotIdle, PublishRows DEF Published, Knowledge, CallsHold, Active
<1>2. /\ new = [call |-> c, request |-> me.request, resource |-> me.id,
                version |-> v + 1, now |-> me.now]
      /\ v \in Nat
  BY <1>1, NextStateType DEF NewRow, RowOf, Published, VersionHolds, TypeOK, Rows
<1>3. SUFFICES ASSUME NEW next, next = [me EXCEPT !.wire = "done"] PROVE Promise!Effect(c)
  OBVIOUS
<1>4. next.pc = me.pc /\ next.request = me.request /\ next.now = me.now
      /\ next.result = me.result
  BY <1>1, <1>3 DEF Active
<1>5. \A d \in Calls : call'[d] = IF d = c THEN next ELSE call[d]
  BY <1>3 DEF Goto, TypeOK
<1>6. \A d \in Calls : Invoked(call'[d]) = Invoked(call[d]) /\ Told(call'[d]) = Told(call[d])
  BY <1>4, <1>5 DEF Invoked, Told
<1>7. Invoked(me) = [request |-> me.request, now |-> me.now] /\ Invoked(me) # NotInvoked
  BY <1>1 DEF Invoked, NotInvoked
<1>8. \A e \in outbox : e.call # c
  BY <1>1 DEF Knowledge, EffectsHold
<1>9. ASSUME NEW e \in outbox, e.request.key = k PROVE e.now + TTL <= me.now
  <2>1. /\ idempotency[k].present /\ e.now + TTL <= idempotency[k].expiresAt
        /\ idempotency[k] \in StoredRows
    BY <1>1, <1>9, PresentRow DEF Windows, RowCoversEffects, TypeOK
  <2>2. ~(idempotency[k].expiresAt > me.now)
    BY <2>1 DEF Published, IdempotencyFree, Live
  <2>3. e.now \in Nat /\ idempotency[k].expiresAt \in Nat
    BY <2>1 DEF TypeOK, OutboxRows, StoredRows
  <2>. QED
    BY <1>1, <2>1, <2>2, <2>3, DispatchAssumption
<1>10. Told(me) = NoResult \/ Told(me) \in {Fail("runtime.unavailable"), Fail("validator")}
  <2>1. me.pc = "returned" => Verdict(me, me.result) /\ ~Shut(me)
    BY <1>1 DEF CallHolds, Shut, Published, IdempotencyFree
  <2>2. me.pc = "returned" => ~me.result.ok /\ me.result.code \in OpenCodes
    BY <2>1 DEF Verdict
  <2>3. me.pc = "returned" => me.result = Fail(me.result.code)
    BY <1>1, <2>2 DEF Active, Responses, Failures, Fail
  <2>. QED
    BY <2>2, <2>3 DEF Told, OpenCodes
<1>11. /\ new \notin outbox
       /\ \A e \in outbox : e.resource = me.id => e.version < v + 1
       /\ v = Found(me.id).version \/ \E e \in outbox : e.resource = me.id /\ e.version + 1 = v + 1
  <2>1. new \notin outbox
    BY <1>2, <1>8
  <2>2. ASSUME NEW e \in outbox, e.resource = me.id PROVE e.version < v + 1
    <3>1. e.version <= v /\ e.version \in Nat
      BY <2>2 DEF Line, NoLostUpdate, TypeOK, OutboxRows
    <3>. QED
      BY <1>2, <3>1
  <2>3. ASSUME v # Found(me.id).version PROVE \E e \in outbox : e.resource = me.id /\ e.version + 1 = v + 1
    <3>1. v \in Found(me.id).version + 1 .. v
      BY <1>1, <1>2, <2>3 DEF Line, Found, Original, Absent
    <3>2. PICK e \in outbox : e.resource = me.id /\ e.version = v
      BY <1>1, <3>1 DEF Line, NoLostUpdate
    <3>. QED
      BY <3>2
  <2>. QED
    BY <2>1, <2>2, <2>3
<1>12. Promise!OnTop(new.resource, new.version)
  BY <1>2, <1>11 DEF Promise!OnTop, Found, Original, Absent
<1>13. new \in [call : {c}, request : {me.request}, resource : Ids,
                version : Nat \ {0}, now : {me.now}]
  BY <1>1, <1>2
<1>14. new \in outbox' \ outbox
  BY <1>1, <1>11
<1>. QED
  BY <1>1, <1>6, <1>7, <1>8, <1>9, <1>10, <1>12, <1>13, <1>14 DEF Promise!Effect, Invoked, Told

\* The store refuses a plan: nobody is told yet.
LEMMA ApplyPromises ==
  ASSUME TypeOK, Knowledge, Line, Windows, UNCHANGED scene, NEW c \in Calls, Apply(c)
  PROVE  Promise!Effect(c) \/ UNCHANGED Promise!promise
<1> DEFINE me == call[c]
           answer == Refusal(IdempotencyFree(me))
<1>1. CASE Published(c) /\ Goto(c, [me EXCEPT !.wire = "done"])
  BY <1>1, PublishPromises
<1>2. CASE Goto(c, [me EXCEPT !.wire = answer]) /\ UNCHANGED Store
  <2> HIDE DEF answer
  <2>1. me \in Active
    BY NotIdle DEF Apply
  <2>2. SUFFICES ASSUME NEW next, next = [me EXCEPT !.wire = answer]
                PROVE  UNCHANGED Promise!promise
    OBVIOUS
  <2>3. /\ next.pc = me.pc /\ next.request = me.request /\ next.now = me.now
        /\ next.result = me.result
    BY <2>1, <2>2 DEF Active
  <2>4. Invoked(next) = Invoked(me) /\ Told(next) = Told(me)
    BY <2>3 DEF Invoked, Told
  <2>. QED
    BY <1>2, <2>2, <2>4, QuietKeepsSeen DEF Store
<1>. QED
  BY <1>1, <1>2 DEF Apply, Published, Store

\* Every step of the dispatch is a step of the promise or changes nothing it sees.
LEMMA NextPromises ==
  ASSUME TypeOK, Knowledge, Line, Windows, [Next]_vars
  PROVE  [Promise!Next]_(Promise!promise)
<1>1. UNCHANGED scene
  BY DEF Next, vars
<1>2. CASE Tick \/ UNCHANGED vars
  BY <1>2, <1>1 DEF Tick, vars, Promise!promise
<1>3. ASSUME NEW c \in Calls, NEW q \in scene.requests, Begin(c, q) PROVE Promise!Next
  BY <1>3, <1>1, ComesIn, BeginPromises DEF Promise!Next
<1>4. ASSUME NEW c \in Calls, Step(c)
      PROVE  Promise!Return(c) \/ UNCHANGED Promise!promise
  BY <1>4, <1>1, ValidatePromises, LocalStutters DEF Step
<1>5. ASSUME NEW c \in Calls, Apply(c)
      PROVE  Promise!Effect(c) \/ UNCHANGED Promise!promise
  BY <1>5, <1>1, ApplyPromises
<1>6. ASSUME NEW c \in Calls, Lose(c) \/ Crash(c) PROVE UNCHANGED Promise!promise
  BY <1>6, <1>1, LocalStutters
<1>. QED
  BY <1>2, <1>3, <1>4, <1>5, <1>6, <1>1 DEF Next, Promise!Next

LEMMA KnowledgeHolds == Spec => []Knowledge
<1>1. TypeOK /\ Knowledge /\ OncePerWindow /\ [Next]_vars => Knowledge'
  BY NextKnows
<1>. QED
  BY <1>1, InitKnows, TypeCorrect, OneEffectPerWindow, PTL DEF Spec

\* The dispatch implements the promise: seen through its effects and answers alone,
\* every interleaving, lost request, crash and replay is one of at most one effect for
\* an invocation and for a key's window, of a success that names an effect earned by
\* the same input, and of no effect after a definite error.
THEOREM DispatchKeepsPromise == Spec => KeepsPromise
<1>1. TypeOK /\ Knowledge /\ Line /\ Windows /\ [Next]_vars
        => [Promise!Next]_(Promise!promise)
  BY NextPromises
<1>. QED
  BY <1>1, InitPromises, TypeCorrect, KnowledgeHolds, LineHolds, WindowsHold, PTL
  DEF Spec, KeepsPromise, Promise!Spec
-----------------------------------------------------------------------------
(* The pump and its servers.                                               *)

(* Sequences and their elements.                                           *)

LEMMA Removed ==
  ASSUME NEW S, NEW s \in Seq(S), NEW i \in DOMAIN s
  PROVE  /\ RemoveAt(s, i) \in Seq(S) /\ Len(RemoveAt(s, i)) = Len(s) - 1
         /\ \A j \in 1 .. Len(s) - 1 :
              RemoveAt(s, i)[j] = IF j < i THEN s[j] ELSE s[j + 1]
<1> DEFINE left == SubSeq(s, 1, i - 1)
           right == SubSeq(s, i + 1, Len(s))
<1>1. i \in 1 .. Len(s) /\ Len(s) \in Nat
  OBVIOUS
<1>2. left \in Seq(S) /\ Len(left) = i - 1 /\ \A j \in 1 .. i - 1 : left[j] = s[j]
  BY <1>1
<1>3. /\ right \in Seq(S) /\ Len(right) = Len(s) - i
      /\ \A j \in 1 .. Len(s) - i : right[j] = s[i + j]
  BY <1>1
<1>. HIDE DEF left, right
<1>4. /\ left \o right \in Seq(S) /\ Len(left \o right) = Len(s) - 1
      /\ \A j \in 1 .. Len(s) - 1 :
           (left \o right)[j] = IF j <= i - 1 THEN left[j] ELSE right[j - (i - 1)]
  BY <1>1, <1>2, <1>3
<1>5. ASSUME NEW j \in 1 .. Len(s) - 1
      PROVE  (left \o right)[j] = IF j < i THEN s[j] ELSE s[j + 1]
  <2>1. j \in Int /\ i \in Int /\ Len(s) \in Int /\ j >= 1 /\ j <= Len(s) - 1
    BY <1>1
  <2>2. CASE j < i
    <3>1. j <= i - 1 /\ j \in 1 .. i - 1
      BY <2>1, <2>2
    <3>. QED
      BY <1>2, <1>4, <2>2, <3>1
  <2>3. CASE ~(j < i)
    <3> DEFINE k == j - (i - 1)
    <3>1. k \in 1 .. Len(s) - i /\ i + k = j + 1 /\ ~(j <= i - 1)
      BY <1>1, <2>1, <2>3
    <3>2. (left \o right)[j] = right[k]
      BY <1>4, <3>1
    <3>3. right[k] = s[i + k]
      <4>. HIDE DEF k
      <4>. QED
        BY <1>3, <3>1
    <3>. QED
      BY <2>3, <3>1, <3>2, <3>3
  <2>. QED
    BY <2>2, <2>3
<1>. QED
  BY <1>4, <1>5 DEF RemoveAt, left, right

LEMMA Appended ==
  ASSUME NEW S, NEW s \in Seq(S), NEW e \in S
  PROVE  /\ Append(s, e) \in Seq(S) /\ Len(Append(s, e)) = Len(s) + 1
         /\ \A i \in 1 .. Len(s) : Append(s, e)[i] = s[i]
         /\ Append(s, e)[Len(s) + 1] = e
OBVIOUS

\* A set of indices has a first one.
LEMMA FirstIsThere ==
  ASSUME NEW n \in Nat, NEW T \in SUBSET (1 .. n), T # {}
  PROVE  First(T) \in T
<1> DEFINE U == {1 .. i : i \in T}
<1>1. FiniteSubsetsOf(1 .. n) = SUBSET (1 .. n)
  <2>1. IsFiniteSet(1 .. n)
    BY FS_Interval
  <2>. QED
    BY <2>1, FS_FiniteSubsetsOfFinite
<1>2. IsWellFoundedOn(StrictSubsetOrdering(1 .. n), SUBSET (1 .. n))
  BY <1>1, FS_StrictSubsetOrderingWellFounded
<1>3. U \subseteq SUBSET (1 .. n) /\ U # {}
  <2>1. \A i \in T : \A k \in 1 .. i : k \in 1 .. n
    OBVIOUS
  <2>2. U \subseteq SUBSET (1 .. n)
    BY <2>1
  <2>3. PICK i \in T : TRUE
    OBVIOUS
  <2>4. (1 .. i) \in U
    OBVIOUS
  <2>. QED
    BY <2>2, <2>4
<1>4. PICK u \in U : \A v \in U : <<v, u>> \notin StrictSubsetOrdering(1 .. n)
  <2>. HIDE DEF U
  <2>. QED
    BY <1>2, <1>3, WFMin
<1>5. PICK i \in T : u = 1 .. i
  BY <1>4
<1>6. ASSUME NEW j \in T PROVE i <= j
  <2>1. (1 .. j) \in U /\ (1 .. j) \in SUBSET (1 .. n) /\ (1 .. i) \in SUBSET (1 .. n)
    OBVIOUS
  <2>2. ~((1 .. j) \subseteq (1 .. i) /\ (1 .. j) # (1 .. i))
    <3>1. <<1 .. j, 1 .. i>> \notin StrictSubsetOrdering(1 .. n)
      BY <1>4, <1>5, <2>1
    <3>. QED
      BY <2>1, <3>1 DEF StrictSubsetOrdering
  <2>3. CASE j < i
    <3>1. (1 .. j) \subseteq (1 .. i) /\ i \in 1 .. i /\ i \notin 1 .. j
      BY <2>3
    <3>. QED
      BY <2>2, <3>1
  <2>. QED
    BY <2>3
<1>. QED
  BY <1>6 DEF First
-----------------------------------------------------------------------------
(* The inductive invariant of the pump: the outbox lists every event once,  *)
(* the table every delivery once, a pass works on a job that is there, and  *)
(* what the cursor has passed is exactly what is jobbed or done.            *)

PumpJobs ==
  [delivery : Deliveries, attempts : Nat, delay : Nat, status : {"pending", "failed"}]
Passes ==
  [pc : {"admit", "handle", "handling", "collect", "collecting"},
   next : Nat, work : Nat, scanned : Nat]

OutboxHolds ==
  /\ log \in Seq(Events) /\ cursor \in 0 .. Len(log)
  /\ \A i, j \in DOMAIN log : log[i] = log[j] => i = j

JobsHold ==
  /\ jobs \in Seq(PumpJobs) /\ Len(jobs) <= MaxJobs
  /\ \A i, j \in DOMAIN jobs : jobs[i].delivery = jobs[j].delivery => i = j

PassHolds ==
  pass # NoPass =>
    /\ pass \in Passes /\ waiting # <<>>
    /\ In("handling") =>
         pass.next \in DOMAIN jobs /\ Job.status = "pending" /\ Job.attempts > 0
    /\ In("collecting") => pass.next \in DOMAIN jobs

Accounted ==
  /\ done \subseteq Deliveries
  /\ Passed = Jobbed \cup done /\ Jobbed \cap done = {}

RuntimeHolds ==
  /\ life \in {"ready", "closing", "closed"}
  /\ driver \in [on : BOOLEAN, stopped : BOOLEAN]
  /\ waiting \in Seq(Drains \cup {Driver})
  /\ life = "closed" => waiting = <<>> /\ commands = {} /\ ~driver.on

PumpHolds == OutboxHolds /\ JobsHold /\ PassHolds /\ Accounted /\ RuntimeHolds

LEMMA JobsKept ==
  ASSUME JobsHold, jobs' \in Seq(PumpJobs), Len(jobs') = Len(jobs),
         \A i \in DOMAIN jobs : jobs'[i].delivery = jobs[i].delivery
  PROVE  JobsHold' /\ Jobbed' = Jobbed /\ DOMAIN jobs' = DOMAIN jobs
<1>1. DOMAIN jobs' = DOMAIN jobs
  BY DEF JobsHold
<1>2. JobsHold'
  BY <1>1 DEF JobsHold, PumpJobs, Deliveries
<1>3. Jobbed' = Jobbed
  BY <1>1 DEF Jobbed
<1>. QED
  BY <1>1, <1>2, <1>3

LEMMA OneJobChanged ==
  ASSUME JobsHold, NEW i \in DOMAIN jobs, NEW job \in PumpJobs,
         job.delivery = jobs[i].delivery, jobs' = [jobs EXCEPT ![i] = job]
  PROVE  /\ JobsHold' /\ Jobbed' = Jobbed /\ DOMAIN jobs' = DOMAIN jobs
         /\ jobs'[i] = job
<1>1. jobs \in Seq(PumpJobs)
  BY DEF JobsHold
<1>2. jobs' \in Seq(PumpJobs) /\ Len(jobs') = Len(jobs) /\ jobs'[i] = job
  BY <1>1
<1>3. \A k \in DOMAIN jobs : jobs'[k].delivery = jobs[k].delivery
  BY <1>1
<1>. QED
  BY <1>2, <1>3, JobsKept

\* A job that is settled leaves the table, and only it.
LEMMA JobSettled ==
  ASSUME JobsHold, Accounted, NEW i \in DOMAIN jobs, jobs' = RemoveAt(jobs, i),
         done' = done \cup {jobs[i].delivery}, Passed' = Passed
  PROVE  JobsHold' /\ Accounted'
<1> DEFINE n == Len(jobs)
<1>1. jobs \in Seq(PumpJobs) /\ n \in Nat /\ DOMAIN jobs = 1 .. n /\ i \in 1 .. n
  BY DEF JobsHold
<1>2. /\ jobs' \in Seq(PumpJobs) /\ Len(jobs') = n - 1
      /\ \A j \in 1 .. n - 1 : jobs'[j] = IF j < i THEN jobs[j] ELSE jobs[j + 1]
  BY <1>1, Removed
<1>3. DOMAIN jobs' = 1 .. n - 1
  BY <1>2
<1> DEFINE was(j) == IF j < i THEN j ELSE j + 1
<1>4. \A j \in 1 .. n - 1 : was(j) \in 1 .. n /\ was(j) # i /\ jobs'[j] = jobs[was(j)]
  BY <1>1, <1>2
<1>5. \A j, k \in 1 .. n - 1 : was(j) = was(k) => j = k
  BY <1>1
<1>6. \A k \in (1 .. n) \ {i} : \E j \in 1 .. n - 1 : was(j) = k
  <2>1. ASSUME NEW k \in (1 .. n) \ {i} PROVE \E j \in 1 .. n - 1 : was(j) = k
    <3>1. CASE k < i
      BY <1>1, <2>1, <3>1
    <3>2. CASE k > i
      <4>1. k - 1 \in 1 .. n - 1 /\ ~(k - 1 < i) /\ (k - 1) + 1 = k
        BY <1>1, <2>1, <3>2
      <4>. QED
        BY <4>1
    <3>. QED
      BY <1>1, <2>1, <3>1, <3>2
  <2>. QED
    BY <2>1
<1>. HIDE DEF was
<1>7. JobsHold'
  <2>1. \A j, k \in 1 .. n - 1 : jobs'[j].delivery = jobs'[k].delivery => j = k
    BY <1>1, <1>4, <1>5 DEF JobsHold
  <2>2. MaxJobs \in Nat /\ n - 1 <= MaxJobs
    BY <1>1, PumpAssumption DEF JobsHold
  <2>. QED
    BY <1>2, <1>3, <2>1, <2>2 DEF JobsHold, PumpJobs, Deliveries
<1>8. Jobbed' = Jobbed \ {jobs[i].delivery}
  <2>1. ASSUME NEW j \in 1 .. n - 1
        PROVE  jobs'[j].delivery \in Jobbed \ {jobs[i].delivery}
    BY <1>1, <1>4 DEF JobsHold, Jobbed
  <2>2. ASSUME NEW k \in 1 .. n, jobs[k].delivery # jobs[i].delivery
        PROVE  jobs[k].delivery \in Jobbed'
    BY <1>3, <1>4, <1>6, <2>2 DEF Jobbed
  <2>. QED
    BY <1>1, <1>3, <2>1, <2>2 DEF Jobbed
<1>9. jobs[i].delivery \in Jobbed /\ jobs[i].delivery \in Deliveries
  <2>1. jobs[i] \in PumpJobs
    BY <1>1
  <2>. QED
    BY <2>1 DEF Jobbed, PumpJobs
<1>10. Deliveries' = Deliveries
  BY DEF Deliveries
<1>. QED
  BY <1>7, <1>8, <1>9, <1>10 DEF Accounted

\* An event that is committed is a new one, and nothing that was passed.
LEMMA OutboxGrows ==
  ASSUME OutboxHolds, cursor' = cursor,
         \/ log' = log
         \/ \E e \in Events \ Committed : log' = Append(log, e)
  PROVE  OutboxHolds' /\ Passed' = Passed
<1>1. CASE log' = log
  BY <1>1 DEF OutboxHolds, Passed, Deliveries
<1>2. ASSUME NEW e \in Events \ Committed, log' = Append(log, e)
      PROVE  OutboxHolds' /\ Passed' = Passed
  <2>1. log \in Seq(Events) /\ cursor \in 0 .. Len(log) /\ Len(log) \in Nat
    BY DEF OutboxHolds
  <2>2. /\ log' \in Seq(Events) /\ Len(log') = Len(log) + 1
        /\ \A i \in 1 .. Len(log) : log'[i] = log[i]
        /\ log'[Len(log) + 1] = e
    BY <1>2, <2>1, Appended
  <2>3. \A i \in 1 .. Len(log) : log[i] # e
    BY <1>2, <2>1 DEF Committed, ToSet
  <2>4. OutboxHolds'
    BY <2>1, <2>2, <2>3 DEF OutboxHolds
  <2>5. \A i \in 1 .. cursor : log'[i] = log[i]
    BY <2>1, <2>2
  <2>. QED
    BY <2>4, <2>5 DEF Passed, Deliveries
<1>. QED
  BY <1>1, <1>2

\* A row is admitted as one job for each of its consumers.
LEMMA RowAdmitted ==
  ASSUME OutboxHolds, JobsHold, Accounted, cursor # Len(log), Room(Needed),
         UNCHANGED <<log, done>>
  PROVE  OutboxHolds' /\ JobsHold' /\ Accounted' /\ DOMAIN jobs \subseteq DOMAIN jobs'
<1> DEFINE n == Len(jobs)
           e == log[cursor + 1]
           m == Cardinality(Needed)
<1>1. /\ log \in Seq(Events) /\ Len(log) \in Nat /\ cursor \in 0 .. Len(log)
      /\ cursor + 1 \in 1 .. Len(log) /\ e \in Events /\ cursor' = cursor + 1
  BY DEF OutboxHolds, Room
<1>2. OutboxHolds'
  BY <1>1 DEF OutboxHolds
<1>3. /\ Targets[e] \subseteq Consumers /\ Needed \subseteq Deliveries
      /\ \A d \in Deliveries : d \in Needed <=> d[2] = e
  BY <1>1, PumpAssumption DEF Needed, Deliveries
<1>4. IsFiniteSet(Needed) /\ m \in Nat
  <2>1. Needed \subseteq Consumers \X {e}
    BY <1>1, <1>3 DEF Needed
  <2>2. IsFiniteSet(Consumers) /\ IsFiniteSet({e})
    BY PumpAssumption, FS_Singleton
  <2>3. IsFiniteSet(Consumers \X {e})
    BY <2>2, FS_Product
  <2>. QED
    BY <2>1, <2>3, FS_Subset, FS_CardinalityType
<1>5. Passed' = Passed \cup Needed
  <2>1. \A i \in 1 .. cursor' : i \in 1 .. cursor \/ i = cursor + 1
    BY <1>1
  <2>2. 1 .. cursor \subseteq 1 .. cursor' /\ cursor + 1 \in 1 .. cursor'
    BY <1>1
  <2>. QED
    BY <1>1, <1>3, <2>1, <2>2 DEF Passed, Deliveries
<1>6. Passed \cap Needed = {}
  <2>1. \A i \in 1 .. cursor : log[i] # e
    BY <1>1 DEF OutboxHolds
  <2>. QED
    BY <1>3, <2>1 DEF Passed
<1>7. PICK order \in SetToSeqs(Needed) :
        jobs' = jobs \o [i \in DOMAIN order |-> NewJob(order[i])]
  BY DEF Room
<1>8. /\ order \in [1 .. m -> Needed]
      /\ \A i, j \in 1 .. m : i # j => order[i] # order[j]
  BY <1>7 DEF SetToSeqs
<1>9. \A d \in Needed : \E i \in 1 .. m : order[i] = d
  <2>1. order \in Injection(1 .. m, Needed)
    BY <1>8 DEF Injection, IsInjective
  <2>2. Cardinality(1 .. m) = m
    BY <1>4, FS_Interval
  <2>3. order \in Surjection(1 .. m, Needed)
    BY <1>4, <2>1, <2>2, FS_Injection
  <2>. QED
    BY <2>3 DEF Surjection
<1> DEFINE added == [i \in DOMAIN order |-> NewJob(order[i])]
<1>10. /\ added \in Seq(PumpJobs) /\ Len(added) = m
       /\ \A i \in 1 .. m : added[i] \in PumpJobs /\ added[i].delivery = order[i]
  <2>1. \A i \in 1 .. m : NewJob(order[i]) \in PumpJobs /\ NewJob(order[i]).delivery = order[i]
    BY <1>3, <1>8 DEF NewJob, PumpJobs
  <2>2. DOMAIN order = 1 .. m
    BY <1>8
  <2>. QED
    BY <1>4, <2>1, <2>2
<1>11. n \in Nat /\ jobs \in Seq(PumpJobs)
  BY DEF JobsHold
<1>12. /\ jobs' \in Seq(PumpJobs) /\ Len(jobs') = n + m
       /\ \A i \in 1 .. n : jobs'[i] = jobs[i]
       /\ \A i \in 1 .. m : jobs'[n + i] = added[i]
  <2>. HIDE DEF added
  <2>. QED
    BY <1>4, <1>7, <1>10, <1>11 DEF added
<1>13. \A i \in 1 .. n + m : i \in 1 .. n \/ \E j \in 1 .. m : i = n + j
  <2>1. ASSUME NEW i \in 1 .. n + m, i \notin 1 .. n PROVE \E j \in 1 .. m : i = n + j
    <3>1. i - n \in 1 .. m /\ i = n + (i - n)
      BY <1>4, <1>11, <2>1
    <3>. QED
      BY <3>1
  <2>. QED
    BY <2>1
<1>14. \A i \in 1 .. n : jobs[i].delivery \in Jobbed
  BY <1>11 DEF Jobbed
<1>15. Jobbed \cap Needed = {} /\ done \cap Needed = {}
  BY <1>6 DEF Accounted
<1>. HIDE DEF added, n, m, e
<1>16. Jobbed' = Jobbed \cup Needed
  <2>0. DOMAIN jobs' = 1 .. n + m /\ DOMAIN jobs = 1 .. n /\ 1 .. n \subseteq 1 .. n + m
    BY <1>4, <1>11, <1>12 DEF n
  <2>1. \A i \in 1 .. n + m : jobs'[i].delivery \in Jobbed \cup Needed
    <3>1. ASSUME NEW i \in 1 .. n PROVE jobs'[i].delivery \in Jobbed
      BY <1>12, <1>14
    <3>2. ASSUME NEW j \in 1 .. m PROVE jobs'[n + j].delivery \in Needed
      BY <1>8, <1>10, <1>12
    <3>. QED
      BY <1>13, <3>1, <3>2
  <2>2. \A d \in Jobbed : d \in Jobbed'
    BY <1>12, <2>0 DEF Jobbed
  <2>3. \A i \in 1 .. m : n + i \in 1 .. n + m
    BY <1>4, <1>11
  <2>4. \A d \in Needed : d \in Jobbed'
    BY <1>9, <1>10, <1>12, <2>0, <2>3 DEF Jobbed
  <2>. QED
    BY <2>0, <2>1, <2>2, <2>4 DEF Jobbed
<1>17. JobsHold'
  <2>1. ASSUME NEW i \in 1 .. n + m, NEW j \in 1 .. n + m,
               jobs'[i].delivery = jobs'[j].delivery
        PROVE  i = j
    <3>1. CASE i \in 1 .. n /\ j \in 1 .. n
      BY <1>11, <1>12, <2>1, <3>1 DEF JobsHold, n
    <3>2. ASSUME NEW a \in 1 .. m, NEW b \in 1 .. m, i = n + a, j = n + b PROVE i = j
      BY <1>8, <1>10, <1>12, <2>1, <3>2
    <3>3. ASSUME NEW a \in 1 .. n, NEW b \in 1 .. m
          PROVE  jobs'[a].delivery # jobs'[n + b].delivery
      BY <1>8, <1>10, <1>12, <1>14, <1>15
    <3>. QED
      BY <1>13, <2>1, <3>1, <3>2, <3>3
  <2>2. n + m <= MaxJobs
    BY DEF Room, n, m
  <2>3. DOMAIN jobs' = 1 .. n + m
    BY <1>12
  <2>. QED
    BY <1>12, <2>1, <2>2, <2>3 DEF JobsHold, PumpJobs, Deliveries
<1>18. Accounted'
  BY <1>5, <1>15, <1>16 DEF Accounted, Deliveries
<1>19. DOMAIN jobs \subseteq DOMAIN jobs'
  BY <1>4, <1>11, <1>12 DEF n
<1>. QED
  BY <1>2, <1>17, <1>18, <1>19

LEMMA HoldsNothingSlips == PumpHolds => NothingSlips
<1> SUFFICES ASSUME PumpHolds PROVE NothingSlips
  OBVIOUS
<1> DEFINE f == [i \in 1 .. Len(jobs) |-> jobs[i].delivery]
<1>1. jobs \in Seq(PumpJobs) /\ Len(jobs) \in Nat
  BY DEF PumpHolds, JobsHold
<1>2. f \in Bijection(1 .. Len(jobs), Jobbed)
  BY <1>1 DEF PumpHolds, JobsHold, Jobbed, Bijection, Injection, IsInjective, Surjection
<1>3. Cardinality(1 .. Len(jobs)) = Len(jobs) /\ IsFiniteSet(1 .. Len(jobs))
  BY <1>1, FS_Interval
<1>4. Cardinality(Jobbed) = Len(jobs)
  BY <1>2, <1>3, FS_Bijection DEF ExistsBijection
<1>. QED
  BY <1>4 DEF PumpHolds, Accounted, JobsHold, NothingSlips
-----------------------------------------------------------------------------
(* The steps of the pump and of those who use it.                          *)

Commits == log' = log \/ \E e \in Events \ Committed : log' = Append(log, e)

\* Commands and calls: the jobs and the pass stay.
LEMMA OthersKeep ==
  ASSUME PumpHolds, Commits, UNCHANGED <<cursor, jobs, done, pass>>,
         pass # NoPass => waiting' # <<>>, RuntimeHolds'
  PROVE  PumpHolds'
<1>1. OutboxHolds' /\ Passed' = Passed
  BY OutboxGrows DEF PumpHolds, Commits
<1>2. Jobbed' = Jobbed /\ Deliveries' = Deliveries
  BY DEF Jobbed, Deliveries
<1>3. JobsHold'
  BY <1>2 DEF PumpHolds, JobsHold, PumpJobs
<1>4. PassHolds'
  BY DEF PumpHolds, PassHolds, In, Job, Passes
<1>5. Accounted'
  BY <1>1, <1>2 DEF PumpHolds, Accounted
<1>. QED
  BY <1>1, <1>3, <1>4, <1>5 DEF PumpHolds

LEMMA Joined ==
  ASSUME RuntimeHolds, NEW x \in Drains \cup {Driver}, waiting' = Append(waiting, x)
  PROVE  waiting' \in Seq(Drains \cup {Driver}) /\ waiting' # <<>>
<1>1. waiting \in Seq(Drains \cup {Driver})
  BY DEF RuntimeHolds
<1>2. /\ waiting' \in Seq(Drains \cup {Driver}) /\ Len(waiting) \in Nat
      /\ Len(waiting') = Len(waiting) + 1
  BY <1>1, Appended
<1>. QED
  BY <1>2

LEMMA CallsKeep ==
  ASSUME PumpHolds,
         \/ \E x \in Commands : StartCommand(x) \/ EndCommand(x)
         \/ \E d \in Drains : Drain(d)
         \/ Start \/ Stop \/ Wake \/ Close \/ Closed
  PROVE  PumpHolds'
<1>1. RuntimeHolds /\ (pass # NoPass => waiting # <<>>)
  BY DEF PumpHolds, PassHolds
<1>2. CASE (\E x \in Commands : StartCommand(x) \/ EndCommand(x)) \/ Stop \/ Close \/ Closed
  <2>1. RuntimeHolds' /\ waiting' = waiting
    BY <1>1, <1>2 DEF RuntimeHolds, StartCommand, EndCommand, Stop, Close, Closed, Admitted, Drained
  <2>2. Commits /\ UNCHANGED <<cursor, jobs, done, pass>>
    BY <1>2 DEF Commits, StartCommand, EndCommand, Stop, Close, Closed
  <2>. QED
    BY <1>1, <2>1, <2>2, OthersKeep
<1>3. ASSUME NEW x \in Drains \cup {Driver}, waiting' = Append(waiting, x), life = "ready",
             UNCHANGED <<life, log, cursor, jobs, done, pass, commands>>,
             driver' \in [on : BOOLEAN, stopped : BOOLEAN]
      PROVE  PumpHolds'
  <2>1. RuntimeHolds' /\ waiting' # <<>>
    BY <1>1, <1>3, Joined DEF RuntimeHolds
  <2>. QED
    BY <1>3, <2>1, OthersKeep DEF Commits
<1>4. CASE \E d \in Drains : Drain(d)
  BY <1>1, <1>3, <1>4 DEF Drain, Admitted, RuntimeHolds
<1>5. CASE Start
  BY <1>1, <1>3, <1>5 DEF Start, Admitted
<1>6. CASE Wake
  <2>1. CASE driver' = Off /\ UNCHANGED waiting
    <3>1. RuntimeHolds'
      BY <1>1, <1>6, <2>1 DEF RuntimeHolds, Wake, Off
    <3>. QED
      BY <1>1, <1>6, <2>1, <3>1, OthersKeep DEF Wake, Commits
  <2>2. CASE ~(driver.stopped \/ ~Admitted)
    BY <1>1, <1>3, <1>6, <2>2 DEF Wake, Admitted, RuntimeHolds
  <2>. QED
    BY <1>6, <2>1, <2>2 DEF Wake
<1>. QED
  BY <1>2, <1>4, <1>5, <1>6

LEMMA TickKeeps == ASSUME PumpHolds, PumpTick PROVE PumpHolds'
<1>1. jobs \in Seq(PumpJobs) /\ Len(jobs) \in Nat /\ DOMAIN jobs = 1 .. Len(jobs)
  BY DEF PumpHolds, JobsHold
<1>2. ASSUME NEW i \in DOMAIN jobs
      PROVE  /\ jobs'[i] \in PumpJobs /\ jobs'[i].delivery = jobs[i].delivery
             /\ jobs'[i].status = jobs[i].status /\ jobs'[i].attempts = jobs[i].attempts
  <2>1. jobs[i] \in PumpJobs
    BY <1>1, <1>2
  <2>2. jobs'[i] = [jobs[i] EXCEPT !.delay = IF jobs[i].delay > 0 THEN jobs[i].delay - 1 ELSE 0]
    BY <1>2 DEF PumpTick
  <2>. QED
    BY <2>1, <2>2 DEF PumpJobs
<1>3. jobs' \in Seq(PumpJobs) /\ Len(jobs') = Len(jobs)
  <2>1. jobs' \in [1 .. Len(jobs) -> PumpJobs]
    BY <1>1, <1>2 DEF PumpTick
  <2>. QED
    BY <1>1, <2>1
<1>4. JobsHold' /\ Jobbed' = Jobbed /\ DOMAIN jobs' = DOMAIN jobs
  BY <1>2, <1>3, JobsKept DEF PumpHolds
<1>5. UNCHANGED <<life, log, cursor, waiting, pass, driver, commands, done>>
  BY DEF PumpTick
<1>6. PassHolds'
  BY <1>2, <1>4, <1>5 DEF PumpHolds, PassHolds, In, Job, Passes
<1>7. OutboxHolds' /\ RuntimeHolds' /\ Passed' = Passed /\ Deliveries' = Deliveries
  BY <1>5 DEF PumpHolds, OutboxHolds, RuntimeHolds, Passed, Deliveries
<1>. QED
  BY <1>4, <1>5, <1>6, <1>7 DEF PumpHolds, Accounted

LEMMA Left ==
  ASSUME RuntimeHolds, waiting # <<>>, NEW b \in BOOLEAN, Leave(b), UNCHANGED <<life, commands>>
  PROVE  PassHolds' /\ RuntimeHolds'
<1>1. PassHolds'
  BY DEF Leave, PassHolds
<1>2. waiting' \in Seq(Drains \cup {Driver}) /\ life # "closed"
  BY DEF Leave, RuntimeHolds
<1>3. driver' \in [on : BOOLEAN, stopped : BOOLEAN]
  BY DEF Leave, DriverAfter, Off, RuntimeHolds
<1>. QED
  BY <1>1, <1>2, <1>3 DEF RuntimeHolds

LEMMA WentOn ==
  ASSUME RuntimeHolds, waiting # <<>>, NEW next \in Passes, pass' = next, Stay,
         UNCHANGED <<life, commands>>,
         next.pc = "handling" =>
           /\ next.next \in DOMAIN jobs'
           /\ jobs'[next.next].status = "pending" /\ jobs'[next.next].attempts > 0,
         next.pc = "collecting" => next.next \in DOMAIN jobs'
  PROVE  PassHolds' /\ RuntimeHolds'
BY DEF Stay, PassHolds, RuntimeHolds, In, Job, Passes

\* A step of the pass that leaves what is committed, jobbed and done.
LEMMA SameAccount ==
  ASSUME PumpHolds, UNCHANGED <<log, cursor, done>>, JobsHold', Jobbed' = Jobbed,
         PassHolds', RuntimeHolds'
  PROVE  PumpHolds'
BY DEF PumpHolds, OutboxHolds, Accounted, Passed, Deliveries

LEMMA SameJobs ==
  ASSUME PumpHolds, UNCHANGED <<log, cursor, jobs, done>>, PassHolds', RuntimeHolds'
  PROVE  PumpHolds'
<1>1. JobsHold' /\ Jobbed' = Jobbed
  BY DEF PumpHolds, JobsHold, PumpJobs, Deliveries, Jobbed
<1>. QED
  BY <1>1, SameAccount

LEMMA PassIsOwned ==
  ASSUME PumpHolds, NEW pc, In(pc)
  PROVE  pass \in Passes /\ waiting # <<>> /\ RuntimeHolds /\ pass.pc = pc
BY DEF PumpHolds, PassHolds, In

LEMMA BeginKeeps == ASSUME PumpHolds, BeginPass PROVE PumpHolds'
<1>1. RuntimeHolds
  BY DEF PumpHolds
<1>2. CASE Aborted
  BY <1>1, <1>2, Left, SameJobs DEF BeginPass
<1>3. CASE ~Aborted
  <2>1. [pc |-> "admit", next |-> 1, work |-> 0, scanned |-> 0] \in Passes
    BY DEF Passes
  <2>. QED
    BY <1>1, <1>3, <2>1, WentOn, SameJobs DEF BeginPass
<1>. QED
  BY <1>2, <1>3

LEMMA AdmitKeeps == ASSUME PumpHolds, Admit PROVE PumpHolds'
<1>1. pass \in Passes /\ waiting # <<>> /\ RuntimeHolds /\ pass.pc = "admit"
  BY PassIsOwned DEF Admit
<1>2. UNCHANGED <<life, log, commands, done>>
  BY DEF Admit
<1>3. CASE Leave(TRUE) /\ UNCHANGED <<cursor, jobs>>
  BY <1>1, <1>2, <1>3, Left, SameJobs
<1>4. CASE Go("handle") /\ Stay /\ UNCHANGED <<cursor, jobs>>
  <2>1. SUFFICES ASSUME NEW next, next = [pass EXCEPT !.pc = "handle"] PROVE PumpHolds'
    OBVIOUS
  <2>2. next \in Passes /\ next.pc = "handle" /\ pass' = next
    BY <1>1, <1>4, <2>1 DEF Go, Passes
  <2>. QED
    BY <1>1, <1>2, <1>4, <2>2, WentOn, SameJobs
<1>5. CASE cursor # Len(log) /\ Room(Needed) /\ Stay
  <2>1. OutboxHolds' /\ JobsHold' /\ Accounted'
    BY <1>2, <1>5, RowAdmitted DEF PumpHolds
  <2>2. SUFFICES ASSUME NEW next, next = [pass EXCEPT !.scanned = pass.scanned + 1]
                 PROVE  PumpHolds'
    OBVIOUS
  <2>3. pass.scanned + 1 \in Nat
    BY <1>1 DEF Passes
  <2>4. next \in Passes /\ next.pc = "admit" /\ pass' = next
    BY <1>1, <1>5, <2>2, <2>3 DEF Room, Passes
  <2>. QED
    BY <1>1, <1>2, <1>5, <2>1, <2>4, WentOn DEF PumpHolds
<1>. QED
  BY <1>3, <1>4, <1>5 DEF Admit, Blocked

LEMMA DueIsThere ==
  ASSUME JobsHold, NEW status, Due(status) # {}
  PROVE  /\ First(Due(status)) \in DOMAIN jobs
         /\ jobs[First(Due(status))].status = status
<1>1. Len(jobs) \in Nat /\ Due(status) \in SUBSET (1 .. Len(jobs))
  BY DEF JobsHold, Due
<1>2. First(Due(status)) \in Due(status)
  BY <1>1, FirstIsThere
<1>. QED
  BY <1>2 DEF Due

LEMMA HandleKeeps == ASSUME PumpHolds, Handle PROVE PumpHolds'
<1>1. pass \in Passes /\ waiting # <<>> /\ RuntimeHolds /\ pass.pc = "handle"
  BY PassIsOwned DEF Handle
<1>2. UNCHANGED <<life, log, cursor, commands, done>>
  BY DEF Handle
<1>3. CASE Aborted
  BY <1>1, <1>2, <1>3, Left, SameJobs DEF Handle
<1>4. CASE ~Aborted /\ Finished("pending")
  <2>1. SUFFICES ASSUME NEW next, next = [pass EXCEPT !.pc = "collect", !.next = 1]
                 PROVE  PumpHolds'
    OBVIOUS
  <2>2. next \in Passes /\ next.pc = "collect"
    BY <1>1, <2>1 DEF Passes
  <2>3. pass' = next /\ Stay /\ UNCHANGED jobs
    BY <1>4, <2>1 DEF Handle
  <2>. QED
    BY <1>1, <1>2, <2>2, <2>3, WentOn, SameJobs
<1>5. CASE ~Aborted /\ ~Finished("pending")
  <2> DEFINE i == First(Due("pending"))
  <2>1. i \in DOMAIN jobs /\ jobs[i].status = "pending"
    BY <1>5, DueIsThere DEF PumpHolds, Finished
  <2>2. /\ jobs' = Counted(i) /\ Stay
        /\ pass' = [pass EXCEPT !.pc = "handling", !.next = i, !.work = pass.work + 1]
    BY <1>5 DEF Handle
  <2>. HIDE DEF i
  <2>3. SUFFICES ASSUME NEW job, job = [jobs[i] EXCEPT !.attempts = jobs[i].attempts + 1],
                        NEW next,
                        next = [pass EXCEPT !.pc = "handling", !.next = i, !.work = pass.work + 1]
                 PROVE  PumpHolds'
    OBVIOUS
  <2>4. jobs[i] \in PumpJobs /\ i \in Nat
    BY <2>1 DEF PumpHolds, JobsHold
  <2>5. jobs[i].attempts + 1 \in Nat /\ jobs[i].attempts + 1 > 0
    BY <2>4 DEF PumpJobs
  <2>6. /\ job \in PumpJobs /\ job.delivery = jobs[i].delivery /\ job.status = "pending"
        /\ job.attempts > 0
    BY <2>1, <2>3, <2>4, <2>5 DEF PumpJobs
  <2>7. jobs' = [jobs EXCEPT ![i] = job]
    BY <2>2, <2>3 DEF Counted
  <2>8. JobsHold' /\ Jobbed' = Jobbed /\ DOMAIN jobs' = DOMAIN jobs /\ jobs'[i] = job
    BY <2>1, <2>6, <2>7, OneJobChanged DEF PumpHolds
  <2>9. pass.work + 1 \in Nat
    BY <1>1 DEF Passes
  <2>10. next \in Passes /\ next.pc = "handling" /\ next.next = i /\ pass' = next
    BY <1>1, <2>2, <2>3, <2>4, <2>9 DEF Passes
  <2>11. PassHolds' /\ RuntimeHolds'
    BY <1>1, <1>2, <2>1, <2>2, <2>6, <2>8, <2>10, WentOn
  <2>. QED
    BY <1>2, <2>8, <2>11, SameAccount
<1>. QED
  BY <1>3, <1>4, <1>5

LEMMA SettledKeeps ==
  ASSUME PumpHolds, NEW pc \in {"handle", "collect"}, In("handling") \/ In("collecting"),
         Settled(pc), UNCHANGED <<life, log, cursor, commands>>
  PROVE  PumpHolds'
<1>1. pass \in Passes /\ waiting # <<>> /\ RuntimeHolds /\ pass.next \in DOMAIN jobs
  BY DEF PumpHolds, PassHolds, In
<1>2. Passed' = Passed /\ OutboxHolds'
  BY DEF Passed, Deliveries, PumpHolds, OutboxHolds
<1>3. JobsHold' /\ Accounted'
  BY <1>1, <1>2, JobSettled DEF PumpHolds, Settled, Job
<1>4. SUFFICES ASSUME NEW next, next = [pass EXCEPT !.pc = pc] PROVE PumpHolds'
  OBVIOUS
<1>5. next \in Passes /\ next.pc = pc /\ pass' = next
  BY <1>1, <1>4 DEF Settled, Go, Passes
<1>6. PassHolds' /\ RuntimeHolds'
  BY <1>1, <1>5, WentOn DEF Settled
<1>. QED
  BY <1>2, <1>3, <1>6 DEF PumpHolds

LEMMA OnwardKeeps ==
  ASSUME PumpHolds, NEW pc \in {"handle", "collect"}, In("handling") \/ In("collecting"),
         NEW job \in PumpJobs, job.delivery = Job.delivery,
         jobs' = [jobs EXCEPT ![pass.next] = job], (Onward(pc) /\ Stay) \/ Leave(TRUE),
         UNCHANGED <<life, log, cursor, commands, done>>
  PROVE  PumpHolds'
<1>1. pass \in Passes /\ waiting # <<>> /\ RuntimeHolds /\ pass.next \in DOMAIN jobs
  BY DEF PumpHolds, PassHolds, In
<1>2. JobsHold' /\ Jobbed' = Jobbed
  BY <1>1, OneJobChanged DEF PumpHolds, Job
<1>3. CASE Leave(TRUE)
  BY <1>1, <1>2, <1>3, Left, SameAccount
<1>4. CASE Onward(pc) /\ Stay
  <2>1. SUFFICES ASSUME NEW next, next = [pass EXCEPT !.pc = pc, !.next = pass.next + 1]
                 PROVE  PumpHolds'
    OBVIOUS
  <2>2. pass.next + 1 \in Nat
    BY <1>1 DEF Passes
  <2>3. next \in Passes /\ next.pc = pc /\ pass' = next
    BY <1>1, <1>4, <2>1, <2>2 DEF Onward, Passes
  <2>4. PassHolds' /\ RuntimeHolds'
    BY <1>1, <1>4, <2>3, WentOn
  <2>. QED
    BY <1>2, <2>4, SameAccount
<1>. QED
  BY <1>3, <1>4

LEMMA HandledKeeps == ASSUME PumpHolds, Handled PROVE PumpHolds'
<1>1. /\ In("handling") /\ pass.next \in DOMAIN jobs /\ Job.status = "pending"
      /\ Job.attempts > 0
  BY DEF PumpHolds, PassHolds, Handled, In
<1>2. UNCHANGED <<life, log, cursor, commands>> /\ Job \in PumpJobs
  BY <1>1 DEF Handled, PumpHolds, JobsHold, Job
<1>3. CASE Settled("handle")
  BY <1>1, <1>2, <1>3, SettledKeeps
<1>4. Job.attempts - 1 \in Nat /\ Job.attempts \in Nat
  BY <1>1, <1>2 DEF PumpJobs
<1>5. /\ Uncounted(Job) \in PumpJobs /\ Uncounted(Job).delivery = Job.delivery
      /\ Failed(Job) \in PumpJobs /\ Failed(Job).delivery = Job.delivery
      /\ Later(Uncounted(Job), 1) \in PumpJobs
      /\ Later(Uncounted(Job), 1).delivery = Job.delivery
  BY <1>2, <1>4 DEF Uncounted, Failed, Later, PumpJobs
<1>6. CASE /\ jobs' = [jobs EXCEPT ![pass.next] = Later(Uncounted(@), 1)]
           /\ Onward("handle") /\ Stay /\ UNCHANGED done
  <2>1. jobs' = [jobs EXCEPT ![pass.next] = Later(Uncounted(Job), 1)]
    BY <1>6 DEF Job
  <2>. QED
    BY <1>1, <1>2, <1>5, <1>6, <2>1, OnwardKeeps
<1>7. CASE /\ jobs' = [jobs EXCEPT ![pass.next] = Uncounted(@)]
           /\ Leave(TRUE) /\ UNCHANGED done
  <2>1. jobs' = [jobs EXCEPT ![pass.next] = Uncounted(Job)]
    BY <1>7 DEF Job
  <2>. QED
    BY <1>1, <1>2, <1>5, <1>7, <2>1, OnwardKeeps
<1>8. CASE /\ jobs' = [jobs EXCEPT ![pass.next] = Failed(@)]
           /\ Onward("handle") /\ Stay /\ UNCHANGED done
  <2>1. jobs' = [jobs EXCEPT ![pass.next] = Failed(Job)]
    BY <1>8 DEF Job
  <2>. QED
    BY <1>1, <1>2, <1>5, <1>8, <2>1, OnwardKeeps
<1>. QED
  BY <1>3, <1>6, <1>7, <1>8 DEF Handled

LEMMA CollectKeeps == ASSUME PumpHolds, Collect PROVE PumpHolds'
<1>1. pass \in Passes /\ waiting # <<>> /\ RuntimeHolds /\ pass.pc = "collect"
  BY PassIsOwned DEF Collect
<1>2. UNCHANGED <<life, log, cursor, jobs, commands, done>>
  BY DEF Collect
<1>3. CASE Leave(TRUE) \/ Leave(FALSE)
  BY <1>1, <1>2, <1>3, Left, SameJobs
<1>4. CASE ~Finished("failed") /\ Stay
           /\ pass' = [pass EXCEPT !.pc = "collecting", !.next = First(Due("failed")),
                                   !.work = @ + 1]
  <2> DEFINE i == First(Due("failed"))
  <2>1. i \in DOMAIN jobs
    BY <1>4, DueIsThere DEF PumpHolds, Finished
  <2>. HIDE DEF i
  <2>2. SUFFICES ASSUME NEW next,
                        next = [pass EXCEPT !.pc = "collecting", !.next = i, !.work = pass.work + 1]
                 PROVE  PumpHolds'
    OBVIOUS
  <2>3. i \in Nat /\ pass.work + 1 \in Nat
    BY <1>1, <2>1 DEF Passes, PumpHolds, JobsHold
  <2>4. pass' = next
    BY <1>4, <2>2 DEF i
  <2>5. next \in Passes /\ next.pc = "collecting" /\ next.next \in DOMAIN jobs'
    BY <1>1, <1>2, <2>1, <2>2, <2>3 DEF Passes
  <2>. QED
    BY <1>1, <1>2, <1>4, <2>4, <2>5, WentOn, SameJobs
<1>. QED
  BY <1>3, <1>4 DEF Collect

LEMMA CollectedKeeps == ASSUME PumpHolds, Collected PROVE PumpHolds'
<1>1. In("collecting") /\ pass.next \in DOMAIN jobs
  BY DEF PumpHolds, PassHolds, Collected, In
<1>2. UNCHANGED <<life, log, cursor, commands>> /\ Job \in PumpJobs
  BY <1>1 DEF Collected, PumpHolds, JobsHold, Job
<1>3. CASE Settled("collect")
  BY <1>1, <1>2, <1>3, SettledKeeps
<1>4. CASE Leave(TRUE) /\ UNCHANGED <<jobs, done>>
  BY <1>1, <1>2, <1>4, PassIsOwned, Left, SameJobs
<1>5. CASE /\ jobs' = [jobs EXCEPT ![pass.next] = Later(@, 1)]
           /\ Onward("collect") /\ Stay /\ UNCHANGED done
  <2>1. Later(Job, 1) \in PumpJobs /\ Later(Job, 1).delivery = Job.delivery
    BY <1>2 DEF Later, PumpJobs
  <2>2. jobs' = [jobs EXCEPT ![pass.next] = Later(Job, 1)]
    BY <1>5 DEF Job
  <2>. QED
    BY <1>1, <1>2, <1>5, <2>1, <2>2, OnwardKeeps
<1>. QED
  BY <1>3, <1>4, <1>5 DEF Collected

LEMMA PassKeeps == ASSUME PumpHolds, Pass PROVE PumpHolds'
BY BeginKeeps, AdmitKeeps, HandleKeeps, HandledKeeps, CollectKeeps, CollectedKeeps DEF Pass
-----------------------------------------------------------------------------
(* The inductive invariant of the servers: a dispatch is under way for each *)
(* connection that runs one, a completion is committed for each report that *)
(* was completed, and a close that has ended has waited for everything.     *)

Servers ==
  [mode : Modes \cup {"content"},
   at : {"starting", "up", "closing", "late", "closed", "error"}]

ServerTypeOK == server \in Servers /\ DOMAIN conns = Commands

CompletionsHold ==
  /\ completed \subseteq Facts
  /\ Completions \cap Committed = {Completion[e] : e \in completed}

AtWork == {x \in Commands : conns[x].pc = "run"}

ModesHold ==
  /\ ContentMode => life = "ready" /\ ~driver.on
  /\ Served \/ ContentMode => commands = AtWork
  /\ server.mode = "none" => server.at = "starting"

\* Before its deadline the report server cuts no connection.
Uncut ==
  Served /\ server.at \in {"starting", "up", "closing", "closed"} =>
    \A x \in Commands : conns[x].pc # "cut"

ClosedHolds ==
  Is("closed") =>
    /\ InFlight = {} /\ waiting = <<>>
    /\ Served => life = "closed"

ServerHolds == ServerTypeOK /\ CompletionsHold /\ ModesHold /\ Uncut /\ ClosedHolds

Holds == PumpHolds /\ ServerHolds

LEMMA ServerStep ==
  ASSUME ServerHolds, server' \in Servers, server'.mode = server.mode,
         DOMAIN conns' = Commands, CompletionsHold',
         ContentMode => life' = "ready" /\ ~driver'.on,
         Served \/ ContentMode => commands' = AtWork',
         server.mode = "none" => server'.at = "starting", Uncut', ClosedHolds'
  PROVE  ServerHolds'
BY DEF ServerHolds, ServerTypeOK, ModesHold, ContentMode, Served

LEMMA HoldsCloseIsFinal == Holds => CloseIsFinal
<1> SUFFICES ASSUME Holds, Is("closed") PROVE CloseIsFinal
  BY DEF CloseIsFinal
<1>1. server \in Servers /\ InFlight = {} /\ waiting = <<>> /\ (Served => life = "closed")
  BY DEF Holds, ServerHolds, ServerTypeOK, ClosedHolds
<1>2. Served \/ ContentMode
  BY <1>1 DEF Holds, ServerHolds, ModesHold, Servers, Modes, Served, ContentMode, Is
<1>3. commands = {}
  BY <1>1, <1>2 DEF Holds, ServerHolds, ModesHold, AtWork, InFlight
<1>4. ~driver.on
  BY <1>1, <1>2 DEF Holds, PumpHolds, RuntimeHolds, ServerHolds, ModesHold
<1>5. Served => \A x \in Commands : conns[x].pc # "cut"
  BY DEF Holds, ServerHolds, Uncut, Is
<1>. QED
  BY <1>1, <1>3, <1>4, <1>5 DEF CloseIsFinal

LEMMA SameCompletions ==
  ASSUME CompletionsHold, UNCHANGED <<log, completed>> PROVE CompletionsHold'
BY DEF CompletionsHold, Committed, Completions

LEMMA CommittedGrows ==
  ASSUME OutboxHolds, NEW e \in Events, log' = Append(log, e)
  PROVE  Committed' = Committed \cup {e} /\ e \in Committed' /\ log' # log
<1>1. log \in Seq(Events) /\ Len(log) \in Nat /\ DOMAIN log = 1 .. Len(log)
  BY DEF OutboxHolds
<1>2. /\ log' \in Seq(Events) /\ Len(log') = Len(log) + 1
      /\ \A i \in 1 .. Len(log) : log'[i] = log[i]
      /\ log'[Len(log) + 1] = e
  BY <1>1, Appended
<1>3. DOMAIN log' = 1 .. Len(log) + 1
  BY <1>2
<1>4. \A i \in 1 .. Len(log) + 1 : i \in 1 .. Len(log) \/ i = Len(log) + 1
  BY <1>1
<1>5. 1 .. Len(log) \subseteq 1 .. Len(log) + 1 /\ Len(log) + 1 \in 1 .. Len(log) + 1
  BY <1>1
<1>6. \A f \in Committed \cup {e} : f \in Committed'
  BY <1>1, <1>2, <1>3, <1>5 DEF Committed, ToSet
<1>7. \A f \in Committed' : f \in Committed \cup {e}
  BY <1>1, <1>2, <1>3, <1>4 DEF Committed, ToSet
<1>8. ASSUME log' = log PROVE FALSE
  <2>1. Len(log) = Len(log) + 1
    BY <1>2, <1>8
  <2>. QED
    BY <1>1, <2>1
<1>. QED
  BY <1>6, <1>7, <1>8

LEMMA OwnCompletions ==
  ASSUME OutboxHolds, CompletionsHold, NEW e \in Events \ Completions,
         log' = Append(log, e), completed' = completed
  PROVE  CompletionsHold'
BY CommittedGrows DEF CompletionsHold, Completions

\* What is set for one connection.
LEMMA ConnMoves ==
  ASSUME ServerHolds, NEW x \in Commands, NEW conn, Set(x, conn)
  PROVE  /\ DOMAIN conns' = Commands
         /\ \A y \in Commands : conns'[y] = IF y = x THEN conn ELSE conns[y]
BY DEF ServerHolds, ServerTypeOK, Set

LEMMA Unmoved ==
  ASSUME ServerHolds, UNCHANGED <<server, conns>>
  PROVE  /\ server' \in Servers /\ server'.mode = server.mode /\ DOMAIN conns' = Commands
         /\ Uncut' /\ AtWork' = AtWork /\ InFlight' = InFlight
         /\ (server.mode = "none" => server'.at = "starting")
BY DEF ServerHolds, ServerTypeOK, ModesHold, Uncut, Served, AtWork, InFlight

\* The pump moves, and the servers do not.
LEMMA ServersRest ==
  ASSUME ServerHolds, UNCHANGED <<server, conns, commands, life>>, CompletionsHold',
         ContentMode => ~driver'.on, Is("closed") => waiting' = <<>>
  PROVE  ServerHolds'
<1>1. ClosedHolds'
  BY Unmoved DEF ServerHolds, ClosedHolds, Is, Served
<1>2. ContentMode => life' = "ready"
  BY DEF ServerHolds, ModesHold
<1>3. Served \/ ContentMode => commands' = AtWork'
  BY Unmoved DEF ServerHolds, ModesHold
<1>. QED
  BY <1>1, <1>2, <1>3, Unmoved, ServerStep

LEMMA PassEffects ==
  ASSUME PumpHolds, Pass
  PROVE  UNCHANGED <<life, log, commands>> /\ waiting # <<>> /\ driver' \in {driver, Off}
<1>1. UNCHANGED <<life, log, commands>>
  BY DEF Pass, BeginPass, Admit, Handle, Handled, Collect, Collected
<1>2. waiting # <<>>
  BY DEF Pass, BeginPass, Admit, Handle, Handled, Collect, Collected, In, PumpHolds, PassHolds
<1>3. Stay \/ Leave(TRUE) \/ Leave(FALSE)
  BY DEF Pass, BeginPass, Admit, Handle, Handled, Collect, Collected, Settled
<1>4. driver' \in {driver, Off}
  BY <1>3 DEF Stay, Leave, DriverAfter
<1>. QED
  BY <1>1, <1>2, <1>4

LEMMA PassHoldsServers ==
  ASSUME Holds, Pass, UNCHANGED <<server, conns, completed>>
  PROVE  Holds'
<1>1. UNCHANGED <<life, log, commands>> /\ waiting # <<>> /\ driver' \in {driver, Off}
  BY PassEffects DEF Holds
<1>2. ~Is("closed")
  BY <1>1 DEF Holds, ServerHolds, ClosedHolds
<1>3. CompletionsHold'
  BY <1>1, SameCompletions DEF Holds, ServerHolds
<1>4. ContentMode => ~driver'.on
  BY <1>1 DEF Holds, ServerHolds, ModesHold, Off
<1>5. ServerHolds'
  BY <1>1, <1>2, <1>3, <1>4, ServersRest DEF Holds
<1>. QED
  BY <1>5, PassKeeps DEF Holds

LEMMA TickHolds == ASSUME Holds, PumpTick, UNCHANGED appVars PROVE Holds'
<1>1. UNCHANGED <<life, log, waiting, driver, commands, server, conns, completed>>
  BY DEF PumpTick, appVars
<1>2. ServerHolds'
  BY <1>1, SameCompletions, ServersRest DEF Holds, ServerHolds, ModesHold, ClosedHolds
<1>. QED
  BY <1>2, TickKeeps DEF Holds

\* Nothing moves but the server and its connections.
LEMMA PumpRests == ASSUME PumpHolds, UNCHANGED pumpVars PROVE PumpHolds'
<1>1. RuntimeHolds' /\ (pass # NoPass => waiting' # <<>>)
  BY DEF PumpHolds, RuntimeHolds, PassHolds, pumpVars
<1>. QED
  BY <1>1, OthersKeep DEF Commits, pumpVars
-----------------------------------------------------------------------------
(* The requests, of either server.                                         *)

\* A connection that runs nothing goes on to another state in which it does not.
LEMMA TurnHolds ==
  ASSUME Holds, NEW x \in Commands, NEW conn, Set(x, conn), ~Is("closed"),
         conns[x].pc # "run", conn.pc \notin {"run", "cut"},
         UNCHANGED <<pumpVars, server, completed>>
  PROVE  Holds'
<1>1. UNCHANGED <<life, log, waiting, driver, commands>>
  BY DEF pumpVars
<1>2. /\ DOMAIN conns' = Commands
      /\ \A y \in Commands : conns'[y] = IF y = x THEN conn ELSE conns[y]
  BY ConnMoves DEF Holds
<1>3. AtWork' = AtWork /\ Uncut' /\ ClosedHolds'
  BY <1>2 DEF Holds, ServerHolds, AtWork, Uncut, Served, ClosedHolds, Is
<1>4. CompletionsHold'
  BY <1>1, SameCompletions DEF Holds, ServerHolds
<1>5. ServerHolds'
  BY <1>1, <1>2, <1>3, <1>4, ServerStep DEF Holds, ServerHolds, ServerTypeOK, ModesHold
<1>. QED
  BY <1>5, PumpRests DEF Holds

LEMMA InFlightIsOpen ==
  ASSUME Holds, NEW x \in Commands, conns[x].pc \in {"body", "run", "reply"}
  PROVE  ~Is("closed")
BY DEF Holds, ServerHolds, ClosedHolds, InFlight

LEMMA AcceptHolds ==
  ASSUME Holds, NEW x \in Commands, NEW ask, Accept(x, ask) PROVE Holds'
<1>1. PICK conn : Set(x, conn) /\ conn.pc \in {"answered", "body"}
  <2>1. Answered("unavailable").pc = "answered" /\ Answered("refused").pc = "answered"
    BY DEF Answered, NoConn
  <2>2. Answered(Read(ask)).pc = "answered"
    BY DEF Answered, NoConn
  <2>3. [NoConn EXCEPT !.pc = "body", !.flaw = ask.flaw].pc = "body"
    BY DEF NoConn
  <2>. QED
    BY <2>1, <2>2, <2>3 DEF Accept
<1>2. ~Is("closed") /\ conns[x].pc = "idle" /\ UNCHANGED <<pumpVars, server, completed>>
  BY DEF Accept, Is
<1>. QED
  BY <1>1, <1>2, TurnHolds

LEMMA TurnsHold ==
  ASSUME Holds, NEW x \in Commands, BodyRefused(x) \/ Reply(x) PROVE Holds'
<1>1. PICK conn : Set(x, conn) /\ conn.pc = "answered"
  <2>1. \A class : Answered(class).pc = "answered"
    BY DEF Answered, NoConn
  <2>. QED
    BY <2>1 DEF BodyRefused, Reply
<1>2. /\ conns[x].pc \in {"body", "reply"}
      /\ UNCHANGED <<pumpVars, server, completed>>
  BY DEF BodyRefused, Reply
<1>. QED
  BY <1>1, <1>2, TurnHolds, InFlightIsOpen

LEMMA BodyHolds == ASSUME Holds, NEW x \in Commands, Body(x) PROVE Holds'
<1>1. conns[x].pc = "body" /\ ~Is("closed") /\ UNCHANGED <<server, completed>>
  BY InFlightIsOpen DEF Body
<1>2. CASE Set(x, Answered("unavailable")) /\ UNCHANGED pumpVars
  BY <1>1, <1>2, TurnHolds DEF Answered, NoConn
<1>3. CASE StartCommand(x) /\ Set(x, [NoConn EXCEPT !.pc = "run"])
  <2>1. /\ UNCHANGED <<life, log, waiting, driver>> /\ commands' = commands \cup {x}
    BY <1>3 DEF StartCommand
  <2>2. /\ DOMAIN conns' = Commands /\ conns'[x].pc = "run"
        /\ \A y \in Commands \ {x} : conns'[y] = conns[y]
    BY <1>3, ConnMoves DEF Holds, NoConn
  <2>3. AtWork' = AtWork \cup {x} /\ Uncut' /\ ClosedHolds'
    BY <1>1, <2>2 DEF Holds, ServerHolds, AtWork, Uncut, Served, ClosedHolds, Is
  <2>4. CompletionsHold'
    BY <1>1, <2>1, SameCompletions DEF Holds, ServerHolds
  <2>5. ServerHolds'
    BY <1>1, <2>1, <2>2, <2>3, <2>4, ServerStep
       DEF Holds, ServerHolds, ServerTypeOK, ModesHold
  <2>6. PumpHolds'
    BY <1>3, CallsKeep DEF Holds
  <2>. QED
    BY <2>5, <2>6 DEF Holds
<1>. QED
  BY <1>2, <1>3 DEF Body

\* The dispatch of a connection is over.
LEMMA EndHolds ==
  ASSUME Holds, NEW x \in Commands, NEW conn, conns[x].pc = "run", EndCommand(x),
         Set(x, conn), conn.pc \in {"cut", "reply"},
         Served /\ conn.pc = "cut" => Is("late"),
         CompletionsHold', UNCHANGED <<server, completed>>
  PROVE  Holds'
<1>1. ~Is("closed") /\ UNCHANGED <<life, waiting, driver>> /\ commands' = commands \ {x}
  BY InFlightIsOpen DEF EndCommand
<1>2. /\ DOMAIN conns' = Commands
      /\ \A y \in Commands : conns'[y] = IF y = x THEN conn ELSE conns[y]
  BY ConnMoves DEF Holds
<1>3. AtWork' = AtWork \ {x}
  BY <1>2 DEF AtWork
<1>4. Uncut' /\ ClosedHolds'
  BY <1>1, <1>2 DEF Holds, ServerHolds, Uncut, Served, ClosedHolds, Is
<1>5. ServerHolds'
  BY <1>1, <1>2, <1>3, <1>4, ServerStep DEF Holds, ServerHolds, ServerTypeOK, ModesHold
<1>. QED
  BY <1>5, CallsKeep DEF Holds

LEMMA DispatchedHolds == ASSUME Holds, NEW x \in Commands, Dispatched(x) PROVE Holds'
<1>1. PICK conn : /\ Set(x, conn) /\ conn.pc \in {"cut", "reply"}
                  /\ conn.pc = "cut" => Is("late")
  <2>1. Cut.pc = "cut" /\ \A class : [NoConn EXCEPT !.pc = "reply", !.class = class].pc = "reply"
    BY DEF Cut, NoConn
  <2>2. PICK class : Set(x, IF Is("late") THEN Cut
                            ELSE [NoConn EXCEPT !.pc = "reply", !.class = class])
    BY DEF Dispatched
  <2>. QED
    BY <2>1, <2>2
<1>2. log' = log \/ \E e \in Facts : log' = Append(log, e)
  BY DEF Dispatched
<1>3. Facts \subseteq Events \ Completions
  BY ReportAssumption DEF Completions
<1>4. CompletionsHold'
  BY <1>2, <1>3, SameCompletions, OwnCompletions
     DEF Dispatched, Holds, PumpHolds, ServerHolds
<1>. QED
  BY <1>1, <1>4, EndHolds DEF Dispatched

\* A command of the application itself commits no completion.
LEMMA OwnKeeps ==
  ASSUME PumpHolds, CompletionsHold, NEW x, Own(x), completed' = completed
  PROVE  CompletionsHold'
<1>1. Committed \subseteq Committed'
  BY CommittedGrows DEF Own, EndCommand, PumpHolds, Committed
<1>2. Completions' = Completions
  BY DEF Completions
<1>3. Completions \cap Committed = {} /\ (Completions \cap Committed)' = {}
  BY <1>1, <1>2 DEF Own
<1>. QED
  BY <1>3 DEF CompletionsHold
-----------------------------------------------------------------------------
(* The report server.                                                      *)

LEMMA Became ==
  ASSUME ServerHolds, NEW at, Become(at),
         at \in {"starting", "up", "closing", "late", "closed", "error"}
  PROVE  /\ server' \in Servers /\ server'.mode = server.mode /\ server'.at = at
         /\ (Served' <=> Served) /\ (ContentMode' <=> ContentMode)
<1>1. server \in Servers
  BY DEF ServerHolds, ServerTypeOK
<1>. QED
  BY <1>1 DEF Become, Servers, Served, ContentMode

\* Who neither cuts a connection nor ends leaves everything in order.
LEMMA LifeGoesOn ==
  ASSUME Holds, NEW at \in {"up", "closing", "error"}, Become(at),
         server.at \in {"starting", "up", "closing"}, server.mode # "none",
         UNCHANGED <<conns, commands, completed>>, CompletionsHold',
         ContentMode => life' = "ready" /\ ~driver'.on
  PROVE  ServerHolds'
<1>1. /\ server' \in Servers /\ server'.mode = server.mode /\ server'.at = at
      /\ (Served' <=> Served)
  BY Became DEF Holds
<1>2. AtWork' = AtWork /\ DOMAIN conns' = Commands
  BY DEF AtWork, Holds, ServerHolds, ServerTypeOK
<1>3. Uncut' /\ ClosedHolds'
  BY <1>1 DEF Uncut, ClosedHolds, Is, Holds, ServerHolds
<1>. QED
  BY <1>1, <1>2, <1>3, ServerStep DEF Holds, ServerHolds, ModesHold

\* The connections are told that the server closes, and none of those that run.
LEMMA TellsHold ==
  ASSUME Holds, NEW at \in {"closing", "late"}, Become(at), ~Is("closed"),
         server.mode # "none", DOMAIN conns' = Commands,
         \A x \in Commands :
           \/ conns'[x] = conns[x]
           \/ conns[x].pc # "run" /\ conns'[x].pc \in {"answered", "cut"},
         Served /\ at # "late" =>
           Is("up") /\ \A x \in Commands : conns'[x].pc = "cut" => conns'[x] = conns[x],
         UNCHANGED <<life, commands, log, completed>>, driver'.on = driver.on
  PROVE  ServerHolds'
<1>1. /\ server' \in Servers /\ server'.mode = server.mode /\ server'.at = at
      /\ (Served' <=> Served)
  BY Became DEF Holds
<1>2. AtWork' = AtWork
  BY DEF AtWork
<1>3. Uncut' /\ ClosedHolds'
  BY <1>1 DEF Uncut, ClosedHolds, Is, Holds, ServerHolds
<1>4. CompletionsHold'
  BY SameCompletions DEF Holds, ServerHolds
<1>. QED
  BY <1>1, <1>2, <1>3, <1>4, ServerStep DEF Holds, ServerHolds, ModesHold

\* The close has ended with success.
LEMMA EndsHold ==
  ASSUME Holds, Become("closed"), Is("closing"), Awaited, waiting = <<>>,
         Served => life = "closed", UNCHANGED <<pumpVars, conns, completed>>
  PROVE  ServerHolds'
<1>1. /\ server' \in Servers /\ server'.mode = server.mode /\ server'.at = "closed"
      /\ (Served' <=> Served)
  BY Became DEF Holds
<1>2. UNCHANGED <<life, commands, log, waiting, driver>>
  BY DEF pumpVars
<1>3. AtWork' = AtWork /\ InFlight' = {} /\ DOMAIN conns' = Commands
  BY DEF AtWork, InFlight, Awaited, Holds, ServerHolds, ServerTypeOK
<1>4. Uncut' /\ ClosedHolds'
  BY <1>1, <1>2, <1>3 DEF Uncut, ClosedHolds, Is, Holds, ServerHolds
<1>5. CompletionsHold'
  BY <1>2, SameCompletions DEF Holds, ServerHolds
<1>6. server.mode # "none"
  BY DEF Holds, ServerHolds, ModesHold, Is
<1>. QED
  BY <1>1, <1>2, <1>3, <1>4, <1>5, <1>6, ServerStep DEF Holds, ServerHolds, ModesHold

\* Only the workflow moves, in the application of the reports.
LEMMA WorkflowMoves ==
  ASSUME Holds, ~ContentMode, UNCHANGED <<server, conns>>, CompletionsHold',
         Served => UNCHANGED commands,
         Is("closed") /\ Served => waiting' = <<>> /\ life' = "closed"
  PROVE  ServerHolds'
<1>1. Is("closed") => Served
  BY DEF Holds, ServerHolds, ServerTypeOK, Servers, Modes, ModesHold, Is, Served, ContentMode
<1>2. ClosedHolds'
  BY <1>1, Unmoved DEF Holds, ServerHolds, ClosedHolds, Is, Served
<1>3. Served => commands' = AtWork'
  BY Unmoved DEF Holds, ServerHolds, ModesHold
<1>. QED
  BY <1>2, <1>3, Unmoved, ServerStep DEF Holds

LEMMA ListenHolds == ASSUME Holds, Listen PROVE Holds'
<1>1. /\ Is("starting") /\ Served /\ ~ContentMode /\ server.mode # "none"
      /\ UNCHANGED <<conns, completed>>
  BY DEF Listen, Served, ContentMode
<1>2. CASE Start /\ Become("up")
  <2>1. CompletionsHold' /\ UNCHANGED commands
    BY <1>1, <1>2, SameCompletions DEF Start, Holds, ServerHolds
  <2>. QED
    BY <1>1, <1>2, <2>1, LifeGoesOn, CallsKeep DEF Holds, Is
<1>3. CASE UNCHANGED pumpVars /\ Become("up")
  <2>1. CompletionsHold' /\ UNCHANGED commands
    BY <1>1, <1>3, SameCompletions DEF pumpVars, Holds, ServerHolds
  <2>. QED
    BY <1>1, <1>3, <2>1, LifeGoesOn, PumpRests DEF Holds, Is
<1>4. CASE /\ Become("error") /\ life' = "closing"
           /\ UNCHANGED <<log, cursor, jobs, waiting, pass, driver, commands, done>>
  <2>1. CompletionsHold' /\ UNCHANGED commands
    BY <1>1, <1>4, SameCompletions DEF Holds, ServerHolds
  <2>2. RuntimeHolds' /\ (pass # NoPass => waiting' # <<>>)
    BY <1>4 DEF Holds, PumpHolds, RuntimeHolds, PassHolds
  <2>3. PumpHolds'
    BY <1>4, <2>2, OthersKeep DEF Holds, Commits
  <2>. QED
    BY <1>1, <1>4, <2>1, <2>3, LifeGoesOn DEF Holds, Is
<1>. QED
  BY <1>2, <1>3, <1>4 DEF Listen

LEMMA CloseServerHolds == ASSUME Holds, CloseServer, ~ContentMode PROVE Holds'
<1>1. /\ Is("up") /\ Become("closing") /\ server.mode # "none" /\ ~Is("closed")
      /\ UNCHANGED <<life, log, cursor, jobs, waiting, pass, commands, done, completed>>
  BY DEF CloseServer, Is, Holds, ServerHolds, ModesHold
<1>2. /\ DOMAIN conns' = Commands
      /\ \A x \in Commands :
           conns'[x] = conns[x] \/ (conns[x].pc = "body" /\ conns'[x].pc = "answered")
  BY DEF CloseServer, Answered, NoConn
<1>3. driver' \in [on : BOOLEAN, stopped : BOOLEAN] /\ driver'.on = driver.on
  BY DEF CloseServer, Holds, PumpHolds, RuntimeHolds
<1>4. ServerHolds'
  BY <1>1, <1>2, <1>3, TellsHold
<1>5. RuntimeHolds' /\ (pass # NoPass => waiting' # <<>>)
  BY <1>1, <1>3 DEF Holds, PumpHolds, RuntimeHolds, PassHolds
<1>6. PumpHolds'
  BY <1>1, <1>5, OthersKeep DEF Holds, Commits
<1>. QED
  BY <1>4, <1>6 DEF Holds

LEMMA DeadlineHolds == ASSUME Holds, Deadline PROVE Holds'
<1>1. /\ Is("closing") /\ Become("late") /\ server.mode # "none" /\ ~Is("closed")
      /\ UNCHANGED <<pumpVars, completed>>
  BY DEF Deadline, Is, Holds, ServerHolds, ModesHold
<1>2. /\ DOMAIN conns' = Commands
      /\ \A x \in Commands :
           conns'[x] = conns[x] \/ (conns[x].pc # "run" /\ conns'[x].pc = "cut")
  BY DEF Deadline, Cut, NoConn
<1>3. ServerHolds'
  BY <1>1, <1>2, TellsHold DEF pumpVars
<1>. QED
  BY <1>1, <1>3, PumpRests DEF Holds

LEMMA CloseEndsHolds == ASSUME Holds, CloseEnds PROVE Holds'
<1>1. Is("closing") /\ life = "closed" /\ UNCHANGED <<pumpVars, conns, completed>>
  BY DEF CloseEnds
<1>2. CASE Become("error")
  <2>1. /\ UNCHANGED commands /\ CompletionsHold' /\ server.mode # "none"
        /\ (ContentMode => life' = "ready" /\ ~driver'.on)
    BY <1>1, SameCompletions DEF Holds, ServerHolds, ModesHold, Is, pumpVars
  <2>2. ServerHolds'
    BY <1>1, <1>2, <2>1, LifeGoesOn DEF Is
  <2>. QED
    BY <1>1, <2>2, PumpRests DEF Holds
<1>3. CASE Awaited /\ Become("closed")
  <2>1. waiting = <<>>
    BY <1>1 DEF Holds, PumpHolds, RuntimeHolds
  <2>. QED
    BY <1>1, <1>3, <2>1, EndsHold, PumpRests DEF Holds
<1>. QED
  BY <1>2, <1>3 DEF CloseEnds

LEMMA CompleteHolds == ASSUME Holds, Complete, ~ContentMode PROVE Holds'
<1> DEFINE e == Job.delivery[2]
<1>1. /\ e \in Facts /\ Authority(e) = "requested" /\ completed' = completed \cup {e}
      /\ log' = Append(log, Completion[e])
      /\ UNCHANGED <<life, cursor, jobs, waiting, pass, driver, commands, done, server, conns>>
  BY DEF Complete
<1>2. Completion[e] \in Events /\ Completion[e] \in Completions
  BY <1>1, ReportAssumption DEF Completions
<1>3. Completion[e] \notin Committed
  <2>1. e \notin completed
    BY <1>1 DEF Authority
  <2>. QED
    BY <1>1, <1>2, <2>1, ReportAssumption DEF Holds, ServerHolds, CompletionsHold
<1>4. CompletionsHold'
  <2>1. Committed' = Committed \cup {Completion[e]}
    BY <1>1, <1>2, CommittedGrows DEF Holds, PumpHolds
  <2>. QED
    BY <1>1, <1>2, <2>1 DEF Holds, ServerHolds, CompletionsHold, Completions
<1>5. waiting # <<>>
  BY DEF Complete, In, Holds, PumpHolds, PassHolds
<1>6. RuntimeHolds'
  BY <1>1 DEF Holds, PumpHolds, RuntimeHolds
<1>7. PumpHolds'
  BY <1>1, <1>2, <1>3, <1>5, <1>6, OthersKeep DEF Holds, Commits
<1>8. ~Is("closed")
  BY <1>5 DEF Holds, ServerHolds, ClosedHolds
<1>. QED
  BY <1>1, <1>4, <1>7, <1>8, WorkflowMoves DEF Holds

LEMMA AppliedHolds == ASSUME Holds, Applied, ~ContentMode PROVE Holds'
<1>1. UNCHANGED <<server, conns, completed>>
  BY DEF Applied, appVars
<1>2. CASE PumpTick
  BY <1>2, TickHolds DEF Applied
<1>3. CASE ~Served /\ \E x \in Callers : Own(x)
  <2>1. PumpHolds'
    BY <1>3, CallsKeep, ReportAssumption DEF Own, Holds
  <2>. QED
    BY <1>1, <1>3, <2>1, OwnKeeps, WorkflowMoves DEF Holds, ServerHolds
<1>4. CASE ~Served /\ ((\E x \in Callers : StartCommand(x)) \/ Start \/ Stop \/ Close)
  <2>1. PumpHolds' /\ UNCHANGED log
    BY <1>4, CallsKeep, ReportAssumption DEF Holds, StartCommand, Start, Stop, Close
  <2>. QED
    BY <1>1, <1>4, <2>1, SameCompletions, WorkflowMoves DEF Holds, ServerHolds
<1>5. CASE (\E d \in Drains : Drain(d)) \/ Wake \/ Closed
  <2>1. PumpHolds' /\ UNCHANGED <<log, commands>>
    BY <1>5, CallsKeep DEF Holds, Drain, Wake, Closed
  <2>2. Is("closed") /\ Served => waiting = <<>> /\ life = "closed" /\ ~driver.on
    BY DEF Holds, ServerHolds, ClosedHolds, PumpHolds, RuntimeHolds
  <2>3. Is("closed") /\ Served => waiting' = <<>> /\ life' = "closed"
    BY <1>5, <2>2 DEF Drain, Wake, Pausing, Closed, Admitted
  <2>. QED
    BY <1>1, <2>1, <2>3, SameCompletions, WorkflowMoves DEF Holds, ServerHolds
<1>. QED
  BY <1>2, <1>3, <1>4, <1>5 DEF Applied

LEMMA ReportNextHolds == ASSUME Holds, ReportNext, ~ContentMode PROVE Holds'
<1>1. CASE Serving
  <2>1. CASE CloseWorkflow
    <3>1. Close /\ UNCHANGED <<server, conns, completed>> /\ ~Is("closed")
      BY <2>1 DEF CloseWorkflow, appVars, Ending, Is
    <3>2. PumpHolds' /\ UNCHANGED <<log, commands>>
      BY <3>1, CallsKeep DEF Close, Holds
    <3>. QED
      BY <3>1, <3>2, SameCompletions, WorkflowMoves DEF Holds, ServerHolds
  <2>. QED
    BY <1>1, <2>1, ListenHolds, AcceptHolds, BodyHolds, TurnsHold, DispatchedHolds,
       CloseServerHolds, CloseEndsHolds, DeadlineHolds DEF Serving
<1>2. CASE Runs
  BY <1>2, PassHoldsServers DEF Runs, ReportHandled, Pass
<1>. QED
  BY <1>1, <1>2, AppliedHolds, CompleteHolds DEF ReportNext
-----------------------------------------------------------------------------
(* The content server.                                                     *)

\* What jobs and workers commit beside the passes.
LEMMA FollowsKeeps ==
  ASSUME Holds, Follows, completed' = completed
  PROVE  Commits /\ CompletionsHold'
BY SameCompletions, OwnCompletions DEF Follows, Commits, Holds, PumpHolds, ServerHolds

LEMMA TickBeginsHolds == ASSUME Holds, ContentMode, TickBegins PROVE Holds'
<1>1. /\ Is("up") /\ waiting = <<>>
      /\ UNCHANGED <<life, cursor, jobs, pass, driver, commands, done, server, conns, completed>>
  BY DEF TickBegins
<1>2. Commits /\ CompletionsHold'
  BY <1>1, FollowsKeeps DEF TickBegins
<1>3. life = "ready" /\ ~driver.on /\ pass = NoPass
  BY <1>1 DEF Holds, ServerHolds, ModesHold, PumpHolds, PassHolds
<1>4. waiting' \in Seq(Drains \cup {Driver})
  <2>1. waiting' = waiting \/ \E d \in Drains : waiting' = <<d>>
    BY DEF TickBegins
  <2>3. waiting \in Seq(Drains \cup {Driver})
    BY DEF Holds, PumpHolds, RuntimeHolds
  <2>2. \A d \in Drains : <<d>> \in Seq(Drains \cup {Driver})
    OBVIOUS
  <2>. QED
    BY <2>1, <2>2, <2>3
<1>5. RuntimeHolds'
  BY <1>1, <1>3, <1>4 DEF Holds, PumpHolds, RuntimeHolds
<1>6. PumpHolds'
  BY <1>1, <1>2, <1>3, <1>5, OthersKeep DEF Holds
<1>7. ~Is("closed")
  BY <1>1 DEF Is
<1>. QED
  BY <1>1, <1>2, <1>3, <1>6, <1>7, ServersRest DEF Holds

LEMMA ContentHandlerHolds == ASSUME Holds, ContentMode, ContentHandler PROVE Holds'
<1>1. UNCHANGED <<life, cursor, jobs, waiting, pass, driver, commands, done, server, conns, completed>>
  BY DEF ContentHandler, appVars
<1>2. Commits /\ CompletionsHold'
  BY <1>1, FollowsKeeps DEF ContentHandler
<1>3. RuntimeHolds' /\ (pass # NoPass => waiting' # <<>>)
  BY <1>1 DEF Holds, PumpHolds, RuntimeHolds, PassHolds
<1>4. PumpHolds'
  BY <1>1, <1>2, <1>3, OthersKeep DEF Holds
<1>5. ServerHolds'
  BY <1>1, <1>2, ServersRest DEF Holds, ServerHolds, ModesHold, ClosedHolds
<1>. QED
  BY <1>4, <1>5 DEF Holds

LEMMA ContentListenHolds == ASSUME Holds, ContentMode, ContentListen PROVE Holds'
<1>1. /\ Is("starting") /\ server.mode # "none" /\ (Become("up") \/ Become("error"))
      /\ UNCHANGED <<life, log, cursor, jobs, waiting, pass, driver, commands, done>>
      /\ UNCHANGED <<conns, completed>>
  BY DEF ContentListen, ContentMode
<1>2. CompletionsHold' /\ life' = "ready" /\ ~driver'.on
  BY <1>1, SameCompletions DEF Holds, ServerHolds, ModesHold
<1>3. RuntimeHolds' /\ (pass # NoPass => waiting' # <<>>)
  BY <1>1 DEF Holds, PumpHolds, RuntimeHolds, PassHolds
<1>4. PumpHolds'
  BY <1>1, <1>3, OthersKeep DEF Holds, Commits
<1>. QED
  BY <1>1, <1>2, <1>4, LifeGoesOn DEF Holds, Is

LEMMA ContentDispatchedHolds ==
  ASSUME Holds, ContentMode, NEW x \in Commands, ContentDispatched(x) PROVE Holds'
<1>1. PICK conn : Set(x, conn) /\ conn.pc \in {"cut", "reply"}
  <2>1. Cut.pc = "cut" /\ \A class : [NoConn EXCEPT !.pc = "reply", !.class = class].pc = "reply"
    BY DEF Cut, NoConn
  <2>2. PICK class : Set(x, IF Is("closing") THEN Cut
                            ELSE [NoConn EXCEPT !.pc = "reply", !.class = class])
    BY DEF ContentDispatched
  <2>. QED
    BY <2>1, <2>2
<1>2. CompletionsHold' /\ EndCommand(x)
  BY OwnKeeps DEF ContentDispatched, Own, Holds, ServerHolds
<1>3. ~Served
  BY DEF Served, ContentMode
<1>. QED
  BY <1>1, <1>2, <1>3, EndHolds DEF ContentDispatched

LEMMA ContentCloseHolds ==
  ASSUME Holds, ContentMode, ContentClose \/ ContentCloseEnds PROVE Holds'
<1>1. UNCHANGED <<pumpVars, completed>> /\ server.mode # "none" /\ ~Served
  BY DEF ContentClose, ContentCloseEnds, ContentMode, Served
<1>2. CASE ContentClose
  <2>1. Become("closing") /\ ~Is("closed")
    BY <1>2 DEF ContentClose, Is
  <2>2. /\ DOMAIN conns' = Commands
        /\ \A x \in Commands :
             conns'[x] = conns[x] \/ (conns[x].pc # "run" /\ conns'[x].pc = "cut")
    BY <1>2 DEF ContentClose, Cut, NoConn
  <2>3. ServerHolds'
    BY <1>1, <2>1, <2>2, TellsHold DEF pumpVars
  <2>. QED
    BY <1>1, <2>3, PumpRests DEF Holds
<1>3. CASE ContentCloseEnds
  BY <1>1, <1>3, EndsHold, PumpRests DEF ContentCloseEnds, Holds
<1>. QED
  BY <1>2, <1>3

LEMMA ContentNextHolds == ASSUME Holds, ContentNext, ContentMode PROVE Holds'
<1>1. CASE ContentServing
  BY <1>1, ContentListenHolds, ContentHandlerHolds, ContentCloseHolds, AcceptHolds, BodyHolds,
     TurnsHold, ContentDispatchedHolds, ReportAssumption
     DEF ContentServing, ContentAccept, ContentBody
<1>2. CASE ContentPass
  BY <1>2, PassHoldsServers DEF ContentPass
<1>. QED
  BY <1>1, <1>2, TickBeginsHolds, TickHolds DEF ContentNext, Waiting
-----------------------------------------------------------------------------
LEMMA InitHolds == ApiInit => Holds
<1> SUFFICES ASSUME ApiInit PROVE Holds
  OBVIOUS
<1>1. PumpHolds
  <2>1. OutboxHolds /\ PassHolds /\ RuntimeHolds
    BY DEF ApiInit, Begins, PumpInit, OutboxHolds, PassHolds, RuntimeHolds, Off
  <2>2. JobsHold
    BY PumpAssumption DEF ApiInit, Begins, PumpInit, JobsHold
  <2>3. Passed = {} /\ Jobbed = {} /\ done = {}
    BY DEF ApiInit, Begins, PumpInit, Passed, Jobbed
  <2>. QED
    BY <2>1, <2>2, <2>3 DEF PumpHolds, Accounted
<1>2. /\ server \in [mode : Modes \cup {"content"}, at : {"starting"}]
      /\ conns = [x \in Commands |-> NoConn] /\ completed = {} /\ commands = {}
      /\ life = "ready" /\ driver = Off /\ log = <<>>
  BY DEF ApiInit, Begins, PumpInit
<1>3. ServerTypeOK /\ Uncut /\ ClosedHolds
  BY <1>2 DEF ServerTypeOK, Servers, Uncut, ClosedHolds, Is, NoConn
<1>4. CompletionsHold
  BY <1>2 DEF CompletionsHold, Committed, ToSet
<1>5. ModesHold
  BY <1>2 DEF ModesHold, AtWork, NoConn, Off
<1>. QED
  BY <1>1, <1>3, <1>4, <1>5 DEF Holds, ServerHolds

LEMMA StutterHolds == ASSUME Holds, UNCHANGED allVars PROVE Holds'
<1>1. UNCHANGED <<pumpVars, server, conns, completed>>
  BY DEF allVars, appVars
<1>2. ServerHolds'
  BY <1>1, SameCompletions, ServersRest DEF pumpVars, Holds, ServerHolds, ModesHold, ClosedHolds
<1>. QED
  BY <1>1, <1>2, PumpRests DEF Holds

LEMMA AlwaysHolds == ApiSpec => []Holds
<1>1. Holds /\ [ApiNext]_allVars => Holds'
  BY ReportNextHolds, ContentNextHolds, StutterHolds DEF ApiNext
<1>. QED
  BY <1>1, InitHolds, PTL DEF ApiSpec

\* Whatever the applications ask of it, and whatever fails, is put off or is aborted:
\* what the pump's cursor has passed is in the job table once, or done, and never both;
\* and the table is within its capacity.
THEOREM PumpSlipsNothing == ApiSpec => []NothingSlips
<1>1. Holds => NothingSlips
  BY HoldsNothingSlips DEF Holds
<1>. QED
  BY <1>1, AlwaysHolds, PTL

\* A server whose close has reported success runs nothing any more, of whatever it had
\* accepted, and the report server has answered all of it.
THEOREM ClosesAreFinal == ApiSpec => []CloseIsFinal
BY AlwaysHolds, HoldsCloseIsFinal, PTL

\* After a runtime has said that it is closed nothing is committed, admitted, handled
\* or dispatched.
THEOREM ClosedStaysQuiet == ApiSpec => ClosedIsQuiet
<1>1. ASSUME Holds, ApiNext, life = "closed"
      PROVE  UNCHANGED <<log, cursor, done, commands, waiting>>
  <2>1. waiting = <<>> /\ commands = {} /\ ~driver.on /\ pass = NoPass
    BY <1>1 DEF Holds, PumpHolds, RuntimeHolds, PassHolds
  <2>2. ~ContentMode
    BY <1>1 DEF Holds, ServerHolds, ModesHold
  <2>3. ReportNext /\ ~Admitted
    BY <1>1, <2>2 DEF ApiNext, Admitted
  <2>4. CASE Serving
    BY <2>1, <2>3, <2>4 DEF Serving, Listen, Accept, Body, BodyRefused, Dispatched, Reply,
       CloseServer, CloseWorkflow, CloseEnds, Deadline, StartCommand, EndCommand, Start, Close,
       pumpVars
  <2>5. CASE Applied
    BY <1>1, <2>1, <2>3, <2>5 DEF Applied, StartCommand, Own, EndCommand, Start, Stop, Close,
       Drain, PumpTick, Wake, Pausing, Closed
  <2>6. ~Runs /\ ~Complete
    BY <2>1, <2>3 DEF Runs, ReportHandled, BeginPass, Admit, Handle, Handled, Collect, Collected,
       In, Complete
  <2>. QED
    BY <2>3, <2>4, <2>5, <2>6 DEF ReportNext
<1>2. Holds /\ [ApiNext]_allVars => [life = "closed" => UNCHANGED <<log, cursor, done, commands, waiting>>]_pumpVars
  BY <1>1 DEF allVars
<1>. QED
  BY <1>2, AlwaysHolds, PTL DEF ApiSpec, ClosedIsQuiet
=============================================================================
