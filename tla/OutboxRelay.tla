----------------------------- MODULE OutboxRelay -----------------------------
(***************************************************************************)
(* The transactional outbox.  A command commits a PENDING outbox row; the  *)
(* table's stream hands the row to the dispatcher, which publishes it and  *)
(* then marks it PUBLISHED.  A batch whose invocation failed is delivered  *)
(* again and dropped after its retries; the scheduled sweeper finds what   *)
(* is still PENDING through an index that lags behind the table.           *)
(***************************************************************************)
EXTENDS Naturals, Sequences, SequencesExt

CONSTANTS
  OutboxEvents, \* the outbox events a run commits, at most once each
  BatchSize,    \* records of one stream batch (aws-cdk: 10)
  Retries,      \* further deliveries of a failed batch (aws-cdk: 3)
  SweepLimit,   \* rows of one sweep (10)
  StaleAfter,   \* age at which the sweeper takes a row (2 minutes)
  MaxClock,     \* bound on the clock
  MaxCallFaults \* bound on failed calls to EventBridge and DynamoDB

ASSUME RelayAssumption ==
  /\ {BatchSize, SweepLimit, StaleAfter} \subseteq Nat \ {0}
  /\ {Retries, MaxClock, MaxCallFaults} \subseteq Nat

VARIABLES
  now,          \* the clock
  row,          \* outbox rows: status, GSI1PK, time of the command, markings
  index,        \* each row as GSI1 lists it
  stream,       \* change records the dispatcher has not got rid of
  dispatcher,   \* the invocation on the stream's shard
  sweeper,      \* the scheduled invocation (reserved concurrency 1)
  bus,          \* how often each event reached EventBridge, counted up to Repeatedly
  callFaults    \* failed calls so far

relayVars == <<now, row, index, stream, dispatcher, sweeper, bus, callFaults>>
-----------------------------------------------------------------------------
Repeatedly == 2
Statuses == {"ABSENT", "PENDING", "PUBLISHED"}
AbsentRow == [status |-> "ABSENT", listed |-> "ABSENT", at |-> 0, attempts |-> 0]
Asleep == [pc |-> "idle", items |-> <<>>]

RelayInit ==
  /\ now = 0
  /\ row = [e \in OutboxEvents |-> AbsentRow]
  /\ index = row
  /\ stream = <<>>
  /\ dispatcher = [pc |-> "idle", size |-> 0, next |-> 1, failures |-> 0]
  /\ sweeper = Asleep
  /\ bus = [e \in OutboxEvents |-> 0]
  /\ callFaults = 0

TimePasses ==
  /\ now < MaxClock
  /\ now' = now + 1
  /\ UNCHANGED <<row, index, stream, dispatcher, sweeper, bus, callFaults>>

Record(e, previous, status) == [event |-> e, previous |-> previous, status |-> status]

\* A command's transaction puts the row; its time was captured up to one tick
\* ago.  MaxClock leaves every row the time to become stale.
CommitCommand(e, at) ==
  /\ row[e].status = "ABSENT"
  /\ at <= now /\ now <= at + 1
  /\ at + StaleAfter <= MaxClock
  /\ row' = [row EXCEPT ![e] = [status |-> "PENDING", listed |-> "PENDING",
                                   at |-> at, attempts |-> 0]]
  /\ stream' = Append(stream, Record(e, "ABSENT", "PENDING"))
  /\ UNCHANGED <<now, index, dispatcher, sweeper, bus, callFaults>>

\* The index follows the table eventually.
Propagate(e) ==
  /\ index[e] # row[e]
  /\ index' = [index EXCEPT ![e] = row[e]]
  /\ UNCHANGED <<now, row, stream, dispatcher, sweeper, bus, callFaults>>
-----------------------------------------------------------------------------
\* What a call outside the process may do: work, fail, or work and lose its
\* answer.  An invocation that dies between two calls leaves the same state.
Outcomes == {"ok", "failed", "lost"}
Faulty(outcome) ==
  /\ outcome # "ok" => callFaults < MaxCallFaults
  /\ callFaults' = IF outcome = "ok" THEN callFaults ELSE callFaults + 1

\* EventBridgePublisher.publish
Published(e, outcome) ==
  bus' = IF outcome = "failed" \/ bus[e] = Repeatedly THEN bus ELSE [bus EXCEPT ![e] = @ + 1]

\* The condition of the update: the row is still PENDING.
Markable(e) == row[e].status = "PENDING"

\* markOutboxEventPublished: a refused condition is not an error.
Applies(e, outcome) == outcome # "failed" /\ Markable(e)
\* Seeded fault: the status changes and the row's index key does not.
RowsAfter_KeepsIndexKey(e, outcome) ==
  IF Applies(e, outcome)
  THEN [row EXCEPT ![e].status = "PUBLISHED", ![e].attempts = @ + 1] ELSE row

RowsAfter(e, outcome) ==
  IF Applies(e, outcome)
  THEN [row EXCEPT ![e].status = "PUBLISHED", ![e].listed = "PUBLISHED",
                   ![e].attempts = @ + 1]
  ELSE row
StreamAfter(e, outcome) ==
  IF Applies(e, outcome) THEN Append(stream, Record(e, "PENDING", "PUBLISHED")) ELSE stream

\* pendingOutboxItemFromStreamRecord: only a row that has just become PENDING.
Dispatchable(record) == record.status = "PENDING" /\ record.previous # "PENDING"

\* The event source takes the next batch; a failed batch comes back as it was.
Poll ==
  /\ dispatcher.pc = "idle" /\ stream # <<>>
  /\ \E size \in 1 .. BatchSize :
       /\ size <= Len(stream)
       /\ dispatcher.failures > 0 => size = dispatcher.size
       /\ dispatcher' = [dispatcher EXCEPT !.pc = "publish", !.size = size, !.next = 1]
  /\ UNCHANGED <<now, row, index, stream, sweeper, bus, callFaults>>

\* Past the batch's last record the invocation returns and the batch is gone.
Advance(s) ==
  IF dispatcher.next < dispatcher.size
  THEN /\ dispatcher' = [dispatcher EXCEPT !.pc = "publish", !.next = @ + 1]
       /\ stream' = s
  ELSE /\ dispatcher' = [pc |-> "idle", size |-> 0, next |-> 1, failures |-> 0]
       /\ stream' = SubSeq(s, dispatcher.size + 1, Len(s))

\* The invocation fails; the stream retries the batch, then drops it.
Abort(s) ==
  IF dispatcher.failures < Retries
  THEN /\ dispatcher' = [dispatcher EXCEPT !.pc = "idle", !.failures = @ + 1]
       /\ stream' = s
  ELSE /\ dispatcher' = [pc |-> "idle", size |-> 0, next |-> 1, failures |-> 0]
       /\ stream' = SubSeq(s, dispatcher.size + 1, Len(s))

Current == stream[dispatcher.next]

Ignore ==
  /\ dispatcher.pc = "publish" /\ ~Dispatchable(Current)
  /\ Advance(stream)
  /\ UNCHANGED <<now, row, index, sweeper, bus, callFaults>>

\* Seeded fault: the row is marked before the bus has answered.
DispatchPublish_MarkFirst ==
  /\ dispatcher.pc = "publish" /\ Dispatchable(Current)
  /\ \E outcome \in Outcomes :
       /\ Faulty(outcome)
       /\ Published(Current.event, outcome)
       /\ row' = [row EXCEPT ![Current.event].status = "PUBLISHED"]
       /\ IF outcome = "ok"
          THEN dispatcher' = [dispatcher EXCEPT !.pc = "mark"] /\ UNCHANGED stream
          ELSE Abort(stream)
  /\ UNCHANGED <<now, index, sweeper>>

DispatchPublish ==
  /\ dispatcher.pc = "publish" /\ Dispatchable(Current)
  /\ \E outcome \in Outcomes :
       /\ Faulty(outcome)
       /\ Published(Current.event, outcome)
       /\ IF outcome = "ok"
          THEN dispatcher' = [dispatcher EXCEPT !.pc = "mark"] /\ UNCHANGED stream
          ELSE Abort(stream)
  /\ UNCHANGED <<now, row, index, sweeper>>

DispatchMark ==
  /\ dispatcher.pc = "mark"
  /\ \E outcome \in Outcomes :
       /\ Faulty(outcome)
       /\ row' = RowsAfter(Current.event, outcome)
       /\ IF outcome = "ok"
          THEN Advance(StreamAfter(Current.event, outcome))
          ELSE Abort(StreamAfter(Current.event, outcome))
  /\ UNCHANGED <<now, index, sweeper, bus>>
-----------------------------------------------------------------------------
\* GSI1SK < now - staleAfter: the bound itself is included.
Stale(entry) == entry.listed = "PENDING" /\ entry.at + StaleAfter <= now

\* The stale rows of the index, oldest first, rows of one time in any order.
Oldest(found) ==
  /\ found # <<>> /\ IsInjective(found)
  /\ \A i, j \in 1 .. Len(found) : i < j => index[found[i]].at <= index[found[j]].at
  /\ \A e \in OutboxEvents \ ToSet(found) : Stale(index[e]) =>
       Len(found) = SweepLimit /\ \A i \in 1 .. Len(found) : index[found[i]].at <= index[e].at

\* The limit counts the rows the query finds; those not PENDING are left out after.
Sweep ==
  /\ sweeper.pc = "idle"
  /\ \E found \in SeqOf({e \in OutboxEvents : Stale(index[e])}, SweepLimit) :
       /\ Oldest(found)
       /\ LET items == SelectSeq(found, LAMBDA e : index[e].status = "PENDING") IN
          sweeper' = IF items = <<>> THEN Asleep ELSE [pc |-> "publish", items |-> items]
  /\ UNCHANGED <<now, row, index, stream, dispatcher, bus, callFaults>>

\* A failure abandons the rest of the sweep; the schedule starts the next one.
SweepPublish ==
  /\ sweeper.pc = "publish"
  /\ \E outcome \in Outcomes :
       /\ Faulty(outcome)
       /\ Published(Head(sweeper.items), outcome)
       /\ sweeper' = IF outcome = "ok" THEN [sweeper EXCEPT !.pc = "mark"] ELSE Asleep
  /\ UNCHANGED <<now, row, index, stream, dispatcher>>

SweepNext(outcome) ==
  IF outcome # "ok" \/ Len(sweeper.items) = 1 THEN Asleep
  ELSE [pc |-> "publish", items |-> Tail(sweeper.items)]

SweepMark ==
  /\ sweeper.pc = "mark"
  /\ LET e == Head(sweeper.items) IN
     \E outcome \in Outcomes :
       /\ Faulty(outcome)
       /\ row' = RowsAfter(e, outcome)
       /\ stream' = StreamAfter(e, outcome)
       /\ sweeper' = SweepNext(outcome)
  /\ UNCHANGED <<now, index, dispatcher, bus>>
-----------------------------------------------------------------------------
Dispatch == Poll \/ Ignore \/ DispatchPublish \/ DispatchMark
SweepOnce == Sweep \/ SweepPublish \/ SweepMark

RelayNext ==
  \/ TimePasses
  \/ \E e \in OutboxEvents : Propagate(e) \/ \E at \in 0 .. MaxClock : CommitCommand(e, at)
  \/ Dispatch
  \/ SweepOnce

RelaySpec == RelayInit /\ [][RelayNext]_relayVars

\* The stream's poller and the schedule run for ever, time passes, and the
\* index catches up.
RelayFairness ==
  /\ WF_relayVars(TimePasses) /\ WF_relayVars(Dispatch) /\ WF_relayVars(SweepOnce)
  /\ \A e \in OutboxEvents : WF_relayVars(Propagate(e))

FairRelaySpec == RelaySpec /\ RelayFairness
-----------------------------------------------------------------------------
\* A row says PUBLISHED only when the event has reached the bus: whatever dies
\* between the two calls of publishAndMarkOutboxItem, the event is not lost.
PublishedIsOnTheBus == \A e \in OutboxEvents : row[e].status = "PUBLISHED" => bus[e] > 0

\* Every committed event is published in the end, also when its stream batch was
\* dropped and when rows before it in the index were already published.
EveryEventIsPublished ==
  \A e \in OutboxEvents : row[e].status = "PENDING" ~> row[e].status = "PUBLISHED"
=============================================================================
