----------------------------- MODULE WorkflowPump -----------------------------
(***************************************************************************)
(* The in-memory workflow: its pump takes events from the outbox, in       *)
(* order, into jobs for their consumers, runs the jobs and hands the ones  *)
(* that failed for good to the failure collection.  Passes are serialized, *)
(* whoever asks for them; a driver asks again and again.  The runtime      *)
(* around the pump admits work only while it is ready, and closes by       *)
(* aborting what runs and waiting for it.                                  *)
(*                                                                         *)
(* What a delivery does inside is EventDelivery's: here it is processed,   *)
(* deferred because a marker store is full, or fails.                      *)
(***************************************************************************)
EXTENDS Naturals, FiniteSets, Sequences, SequencesExt

CONSTANTS
  Events,       \* events commands can commit
  Consumers,
  Targets,      \* the consumers each event is for
  Drains,       \* calls of drain, one under way for each member at most
  Commands,     \* dispatches under way at once, of handlers and of others
  Driver,       \* the driver, as one that asks for passes
  MaxJobs,      \* capacity of the job table (200)
  Limit,        \* rows admitted and jobs worked on by one pass (50)
  MaxAttempts,  \* failures of a handler before its job is terminal (3)
  MaxFaults,    \* bound on failing calls, full marker stores and stopped drivers
  NoPass        \* no pass under way

ASSUME PumpAssumption ==
  /\ IsFiniteSet(Consumers)
  /\ Targets \in [Events -> SUBSET Consumers]
  /\ Driver \notin Drains
  /\ {MaxJobs, Limit, MaxAttempts} \subseteq Nat \ {0}
  /\ MaxFaults \in Nat

VARIABLES
  life,      \* the runtime: "ready", "closing" or "closed"
  log,    \* the committed events, in the order of their commits
  cursor,    \* how many of them the pump has admitted
  jobs,      \* the job table, in the order of admission
  waiting,   \* who holds the pump (the head) and who waits for it
  pass,      \* the pass under way
  driver,    \* whether there is a driver, and whether it was told to stop
  commands,  \* the dispatches under way
  done,      \* <<consumer, event>> handled to the end or collected
  faults

pumpVars == <<life, log, cursor, jobs, waiting, pass, driver, commands, done, faults>>
-----------------------------------------------------------------------------
Deliveries == {d \in Consumers \X Events : d[1] \in Targets[d[2]]}
Off == [on |-> FALSE, stopped |-> FALSE]
NewJob(d) == [delivery |-> d, attempts |-> 0, delay |-> 0, status |-> "pending"]

PumpInit ==
  /\ life = "ready"
  /\ log = <<>> /\ cursor = 0 /\ jobs = <<>>
  /\ waiting = <<>> /\ pass = NoPass
  /\ driver = Off
  /\ commands = {}
  /\ done = {}
  /\ faults = 0

Fault == faults < MaxFaults /\ faults' = faults + 1
Quiet == UNCHANGED faults

\* A job waits in steps of a second.
PumpTick ==
  /\ \E i \in DOMAIN jobs : jobs[i].delay > 0
  /\ jobs' = [i \in DOMAIN jobs |->
                [jobs[i] EXCEPT !.delay = IF @ > 0 THEN @ - 1 ELSE 0]]
  /\ UNCHANGED <<life, log, cursor, waiting, pass, driver, commands, done, faults>>
-----------------------------------------------------------------------------
\* lifecycle.run: nothing starts unless the runtime is ready.
Admitted == life = "ready"

Committed == ToSet(log)

StartCommand(x) ==
  /\ Admitted /\ x \notin commands
  /\ commands' = commands \cup {x}
  /\ UNCHANGED <<life, log, cursor, jobs, waiting, pass, driver, done, faults>>

\* A dispatch ends, with an event or without one; closing does not stop it.
EndCommand(x) ==
  /\ x \in commands
  /\ commands' = commands \ {x}
  /\ \/ \E e \in Events \ Committed : log' = Append(log, e)
     \/ UNCHANGED log
  /\ UNCHANGED <<life, cursor, jobs, waiting, pass, driver, done, faults>>

\* drain: the pump is passed on in the order of the calls.
Drain(d) ==
  /\ Admitted /\ d \notin ToSet(waiting)
  /\ waiting' = Append(waiting, d)
  /\ UNCHANGED <<life, log, cursor, jobs, pass, driver, commands, done, faults>>

Start ==
  /\ Admitted /\ ~driver.on
  /\ driver' = [on |-> TRUE, stopped |-> FALSE]
  /\ waiting' = Append(waiting, Driver)
  /\ UNCHANGED <<life, log, cursor, jobs, pass, commands, done, faults>>

\* stop, by the application; close stops the driver as well.
Stop ==
  /\ driver.on /\ ~driver.stopped /\ Fault
  /\ driver' = [driver EXCEPT !.stopped = TRUE]
  /\ UNCHANGED <<life, log, cursor, jobs, waiting, pass, commands, done>>

Pausing == driver.on /\ Driver \notin ToSet(waiting)

\* The interval is over, or an abort ended it.
Wake ==
  /\ Pausing
  /\ IF driver.stopped \/ ~Admitted
     THEN driver' = Off /\ UNCHANGED waiting
     ELSE waiting' = Append(waiting, Driver) /\ UNCHANGED driver
  /\ UNCHANGED <<life, log, cursor, jobs, pass, commands, done, faults>>
-----------------------------------------------------------------------------
Owner == Head(waiting)
Aborted == life # "ready" \/ (Owner = Driver /\ driver.stopped)

\* A driver ends with a pass that throws.
DriverAfter(failed) == IF Owner = Driver /\ failed THEN Off ELSE driver

\* The pass returns or throws, and unlocks the pump.
Leave(failed) ==
  /\ pass' = NoPass
  /\ waiting' = Tail(waiting)
  /\ driver' = DriverAfter(failed)

Stay == UNCHANGED <<waiting, driver>>
Go(pc) == pass' = [pass EXCEPT !.pc = pc]

BeginPass ==
  /\ waiting # <<>> /\ pass = NoPass
  /\ IF Aborted THEN Leave(TRUE)
     ELSE pass' = [pc |-> "admit", next |-> 1, work |-> 0, scanned |-> 0] /\ Stay
  /\ UNCHANGED <<life, log, cursor, jobs, commands, done, faults>>

In(pc) == pass # NoPass /\ pass.pc = pc

\* What the next row of the outbox needs.
Needed == {<<c, log[cursor + 1]>> : c \in Targets[log[cursor + 1]]}

\* Seeded fault: a row that finds no room is passed over.
Blocked_Skips(needed) ==
  /\ Len(jobs) + Cardinality(needed) > MaxJobs
  /\ cursor' = cursor + 1 /\ UNCHANGED jobs
  /\ Go("handle")

\* Seeded fault: a full table ends the pass's work on pending jobs, too.
Blocked_Collects(needed) ==
  /\ Len(jobs) + Cardinality(needed) > MaxJobs
  /\ UNCHANGED <<cursor, jobs>>
  /\ Go("collect")

\* A row is admitted for all its consumers or not at all.
Blocked(needed) ==
  /\ Len(jobs) + Cardinality(needed) > MaxJobs
  /\ UNCHANGED <<cursor, jobs>>
  /\ Go("handle")

Room(needed) ==
  /\ Len(jobs) + Cardinality(needed) <= MaxJobs
  /\ \E order \in SetToSeqs(needed) :
       jobs' = jobs \o [i \in DOMAIN order |-> NewJob(order[i])]
  /\ cursor' = cursor + 1
  /\ pass' = [pass EXCEPT !.scanned = @ + 1]

\* The rows are looked at and admitted under the lock and only appended to
\* outside it, so a row is one step; its check may throw.
Admit ==
  /\ In("admit")
  /\ UNCHANGED <<life, log, commands, done>>
  /\ IF Aborted THEN Leave(TRUE) /\ Quiet /\ UNCHANGED <<cursor, jobs>>
     ELSE IF cursor = Len(log) \/ pass.scanned = Limit
     THEN Go("handle") /\ Stay /\ Quiet /\ UNCHANGED <<cursor, jobs>>
     ELSE \/ (Blocked(Needed) \/ Room(Needed)) /\ Stay /\ Quiet
          \/ Fault /\ Leave(TRUE) /\ UNCHANGED <<cursor, jobs>>

\* The next job a loop of the pass works on: due, and of the loop's status.
Due(status) == {i \in DOMAIN jobs : i >= pass.next /\ jobs[i].status = status /\ jobs[i].delay = 0}
First(indices) == CHOOSE i \in indices : \A j \in indices : i <= j
Finished(status) == Due(status) = {} \/ pass.work = Limit

Counted(i) == [jobs EXCEPT ![i].attempts = @ + 1]

\* The loop over the pending jobs, up to a call of the delivery.
Handle ==
  /\ In("handle")
  /\ UNCHANGED <<life, log, cursor, commands, done, faults>>
  /\ IF Aborted THEN Leave(TRUE) /\ UNCHANGED jobs
     ELSE IF Finished("pending")
     THEN pass' = [pass EXCEPT !.pc = "collect", !.next = 1] /\ Stay /\ UNCHANGED jobs
     ELSE LET i == First(Due("pending")) IN
          /\ jobs' = Counted(i)
          /\ pass' = [pass EXCEPT !.pc = "handling", !.next = i, !.work = @ + 1]
          /\ Stay

Job == jobs[pass.next]
Onward(pc) == pass' = [pass EXCEPT !.pc = pc, !.next = @ + 1]
Settled(pc) ==
  /\ done' = done \cup {Job.delivery}
  /\ jobs' = RemoveAt(jobs, pass.next)
  /\ Go(pc) /\ Stay
Later(job, delay) == [job EXCEPT !.delay = delay]

\* An attempt that was put off or aborted does not count.
Uncounted(job) == [job EXCEPT !.attempts = @ - 1]

Failed(job) ==
  IF job.attempts >= MaxAttempts THEN [job EXCEPT !.status = "failed", !.delay = 0]
  ELSE Later(job, job.attempts)

\* delivery.handle is back: processed, deferred, or with an error.
Handled ==
  /\ In("handling")
  /\ UNCHANGED <<life, log, cursor, commands>>
  /\ \/ Settled("handle") /\ Quiet
     \/ /\ jobs' = [jobs EXCEPT ![pass.next] = Later(Uncounted(@), 1)]
        /\ Onward("handle") /\ Stay /\ Fault /\ UNCHANGED done
     \/ /\ Aborted
        /\ jobs' = [jobs EXCEPT ![pass.next] = Uncounted(@)]
        /\ Leave(TRUE) /\ Quiet /\ UNCHANGED done
     \/ /\ ~Aborted /\ Fault
        /\ jobs' = [jobs EXCEPT ![pass.next] = Failed(@)]
        /\ Onward("handle") /\ Stay /\ UNCHANGED done

\* The loop over the terminal jobs, and the end of the pass.
Collect ==
  /\ In("collect")
  /\ UNCHANGED <<life, log, cursor, jobs, commands, done, faults>>
  /\ IF Aborted THEN Leave(TRUE)
     ELSE IF Finished("failed") THEN Leave(FALSE)
     ELSE /\ pass' = [pass EXCEPT !.pc = "collecting", !.next = First(Due("failed")),
                                  !.work = @ + 1]
          /\ Stay

Collected ==
  /\ In("collecting")
  /\ UNCHANGED <<life, log, cursor, commands>>
  /\ \/ Settled("collect") /\ Quiet
     \/ /\ Aborted /\ Leave(TRUE) /\ Quiet /\ UNCHANGED <<jobs, done>>
     \/ /\ ~Aborted /\ Fault
        /\ jobs' = [jobs EXCEPT ![pass.next] = Later(@, 1)]
        /\ Onward("collect") /\ Stay /\ UNCHANGED done
-----------------------------------------------------------------------------
\* close: no work starts any more, and what runs is told to stop.
Close ==
  /\ life = "ready"
  /\ life' = "closing"
  /\ UNCHANGED <<log, cursor, jobs, waiting, pass, driver, commands, done, faults>>

\* Seeded fault: the close waits for the passes and not for the dispatches.
Drained_Passes == waiting = <<>> /\ ~driver.on

Drained == waiting = <<>> /\ commands = {} /\ ~driver.on

\* All that ran has settled in time.  A close that runs out of time reports an
\* error, leaves the runtime closing and may be asked again.
Closed ==
  /\ life = "closing" /\ Drained
  /\ life' = "closed"
  /\ UNCHANGED <<log, cursor, jobs, waiting, pass, driver, commands, done, faults>>
-----------------------------------------------------------------------------
Pass == BeginPass \/ Admit \/ Handle \/ Handled \/ Collect \/ Collected

PumpNext ==
  \/ PumpTick
  \/ \E x \in Commands : StartCommand(x) \/ EndCommand(x)
  \/ \E d \in Drains : Drain(d)
  \/ Start \/ Stop \/ Wake
  \/ Pass
  \/ Close \/ Closed

PumpSpec == PumpInit /\ [][PumpNext]_pumpVars
-----------------------------------------------------------------------------
Jobbed == {jobs[i].delivery : i \in DOMAIN jobs}
Passed == {d \in Deliveries : \E i \in 1 .. cursor : log[i] = d[2]}

\* Every delivery the cursor has passed is a job, or was handled to the end or
\* collected, and none is twice in the table: backpressure, deferrals, retries and
\* aborted passes lose nothing and repeat nothing, and nothing runs unadmitted.
NothingSlips ==
  /\ Passed = Jobbed \cup done
  /\ Jobbed \cap done = {}
  /\ Cardinality(Jobbed) = Len(jobs)
  /\ Len(jobs) <= MaxJobs

\* A runtime that says it is closed has stopped: no pass, no handler and no
\* command it had accepted writes anything after that.
ClosedIsQuiet ==
  [][life = "closed" => UNCHANGED <<log, cursor, done, commands, waiting>>]_pumpVars
=============================================================================
