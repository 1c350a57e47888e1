------------------------------- MODULE JobPass -------------------------------
(***************************************************************************)
(* The scheduled jobs: due publications, due reviews, expired uploads and  *)
(* abandoned objects.  An invocation leases the job's one record, scans    *)
(* the listing from the checkpoint it finds there, one candidate a page,   *)
(* and saves the checkpoint after each.  A pass may take several           *)
(* invocations; an invocation may be killed, stalled past its lease or out *)
(* of budget anywhere.  Time is the lease's lapse and the instant that the *)
(* candidates' due times are compared with.                                *)
(***************************************************************************)
EXTENDS Naturals, FiniteSets

CONSTANTS
  Invocations,      \* invocations of the job that may be alive at once
  Candidates,       \* items with a row in the job's listing, in its order
  MaxTime,          \* bound on the clock
  MaxEdits,         \* bound on what editors do to the listing
  MaxFaults,        \* bound on the crashes and the writes that fail
  None

\* A row of the listing: the time it is due, and the edit that wrote it.
Listed == [at : Nat, edit : Nat]

ASSUME JobAssumption ==
  /\ IsFiniteSet(Invocations)
  /\ Candidates \subseteq Nat /\ IsFiniteSet(Candidates)
  /\ {MaxTime, MaxEdits, MaxFaults} \subseteq Nat
  /\ None \notin Nat \cup Invocations \cup Listed

VARIABLES
  clock,
  rows,         \* the row of each item: None, or its due time and its edit
  edits,
  job,          \* the checkpoint record of the job
  lapsed,       \* the lease in the record is over
  tick,         \* what each invocation does
  waiting,      \* items whose present row no invocation has processed
  owed,         \* rows that the pass under way has still to reach
  faults

vars == <<clock, rows, edits, job, lapsed, tick, waiting, owed, faults>>
-----------------------------------------------------------------------------
Start == [cutoff |-> None, cursor |-> None]
Idle == [pc |-> "idle", progress |-> Start, next |-> Start, page |-> None, examined |-> FALSE]

Init ==
  /\ clock = 0 /\ edits = 0 /\ faults = 0
  /\ rows = [c \in Candidates |-> None]
  /\ job = [token |-> None, progress |-> Start]
  /\ lapsed = FALSE
  /\ tick = [i \in Invocations |-> Idle]
  /\ waiting = {} /\ owed = {}

Tick ==
  /\ clock < MaxTime
  /\ clock' = clock + 1
  /\ UNCHANGED <<rows, edits, job, lapsed, tick, waiting, owed, faults>>

\* An item gets a row, or another one, for a time to come.
Put(c) ==
  /\ edits < MaxEdits
  /\ edits' = edits + 1
  /\ \E at \in clock + 1 .. MaxTime : rows' = [rows EXCEPT ![c] = [at |-> at, edit |-> edits]]
  /\ waiting' = waiting \cup {c} /\ owed' = owed \ {c}
  /\ UNCHANGED <<clock, job, lapsed, tick, faults>>

Delist(c) ==
  /\ edits < MaxEdits /\ rows[c] # None
  /\ edits' = edits + 1
  /\ rows' = [rows EXCEPT ![c] = None]
  /\ waiting' = waiting \ {c} /\ owed' = owed \ {c}
  /\ UNCHANGED <<clock, job, lapsed, tick, faults>>
-----------------------------------------------------------------------------
\* The listing is sorted by due time, then by item.
Before(x, y) == x[1] < y[1] \/ (x[1] = y[1] /\ x[2] < y[2])
Position(c) == <<rows[c].at, c>>
Due(cutoff) == {c \in Candidates : rows[c] # None /\ rows[c].at <= cutoff}
Ahead(progress) ==
  {c \in Due(progress.cutoff) : progress.cursor = None \/ Before(progress.cursor, Position(c))}
First(set) == CHOOSE c \in set : \A other \in set \ {c} : Before(Position(c), Position(other))

Fault == faults < MaxFaults /\ faults' = faults + 1
Goto(i, pc) == tick' = [tick EXCEPT ![i].pc = pc]

\* assertJobLease: the record is still this invocation's and its lease not over.
Usable(i) == job.token = i /\ ~lapsed

\* The conditional put may take one invocation only.  The pass starts anew when no
\* cutoff is saved; its first checkpoint is the cutoff itself.
Acquire(i) ==
  /\ tick[i].pc = "idle"
  /\ job.token = None \/ lapsed
  /\ job' = [job EXCEPT !.token = i]
  /\ lapsed' = FALSE
  /\ tick' = [tick EXCEPT ![i] =
       IF job.progress.cutoff = None
       THEN [Idle EXCEPT !.pc = "save", !.progress = [cutoff |-> clock, cursor |-> None]]
       ELSE [Idle EXCEPT !.pc = "query", !.progress = job.progress]]
  /\ UNCHANGED <<clock, rows, edits, waiting, owed, faults>>

\* The lease of an invocation that is gone runs out in time.
LapseAbandoned ==
  /\ job.token # None /\ ~lapsed /\ tick[job.token].pc = "idle"
  /\ lapsed' = TRUE
  /\ UNCHANGED <<clock, rows, edits, job, tick, waiting, owed, faults>>

\* That of a live one only when it stalls: the lease is longer than its budget.
LapseStalled ==
  /\ job.token # None /\ ~lapsed /\ tick[job.token].pc # "idle"
  /\ Fault
  /\ lapsed' = TRUE
  /\ UNCHANGED <<clock, rows, edits, job, tick, waiting, owed>>

\* Killed at any await, with what it wrote so far.
Crash(i) ==
  /\ tick[i].pc # "idle"
  /\ Fault
  /\ tick' = [tick EXCEPT ![i] = Idle]
  /\ UNCHANGED <<clock, rows, edits, job, lapsed, waiting, owed>>
-----------------------------------------------------------------------------
\* One candidate and the cursor behind it; the last one may come without a cursor.
Query(i) ==
  LET ahead == Ahead(tick[i].progress)
      c == First(ahead)
      behind == [tick[i].progress EXCEPT !.cursor = Position(c)]
  IN
  /\ tick[i].pc = "query" /\ Usable(i)
  /\ \/ /\ ahead = {}
        /\ tick' = [tick EXCEPT ![i].pc = "save", ![i].progress = Start]
     \/ /\ ahead # {}
        /\ \E next \in {behind} \cup (IF ahead = {c} THEN {Start} ELSE {}) :
             tick' = [tick EXCEPT ![i].pc = "process", ![i].page = <<c, rows[c]>>,
                                  ![i].next = next]
  /\ UNCHANGED <<clock, rows, edits, job, lapsed, waiting, owed, faults>>

\* Out of budget, which is enough for a first candidate; or the lease is lost.
Yield(i) ==
  /\ \/ tick[i].pc \in {"query", "process"} /\ tick[i].examined
     \/ tick[i].pc \in {"query", "save"} /\ ~Usable(i)
  /\ Goto(i, "finish")
  /\ UNCHANGED <<clock, rows, edits, job, lapsed, waiting, owed, faults>>

\* Seeded fault: a candidate that fails ends the tick before the checkpoint moves.
Failed_Stops(i) ==
  tick' = [tick EXCEPT ![i].pc = "finish"]

\* Whatever became of the candidate, the checkpoint moves past it.
Advanced(i) ==
  tick' = [tick EXCEPT ![i].pc = "save", ![i].progress = tick[i].next, ![i].next = Start,
                       ![i].page = None, ![i].examined = TRUE]

\* A failure, that of the lease's guard too, is counted and never ends the tick.
Failed(i) == Advanced(i)

Current(i) == rows[tick[i].page[1]] = tick[i].page[2]

\* The state shows the row to be stale, or the guard stands before the command.
Process(i) ==
  /\ tick[i].pc = "process"
  /\ \/ ~Current(i) /\ Advanced(i)
     \/ Current(i) /\ ~Usable(i) /\ Failed(i)
     \/ Current(i) /\ Usable(i) /\ Goto(i, "dispatch")
  /\ UNCHANGED <<clock, rows, edits, job, lapsed, waiting, owed, faults>>

\* The command takes the row out of the listing, leaves it there or is refused; it
\* is conditional on the state that was loaded.
Dispatch(i) ==
  LET c == tick[i].page[1] IN
  /\ tick[i].pc = "dispatch"
  /\ \/ /\ Current(i)
        /\ waiting' = waiting \ {c} /\ owed' = owed \ {c}
        /\ \/ rows' = [rows EXCEPT ![c] = None] /\ Advanced(i)
           \/ UNCHANGED rows /\ (Advanced(i) \/ Failed(i))
     \/ ~Current(i) /\ Failed(i) /\ UNCHANGED <<rows, waiting, owed>>
  /\ UNCHANGED <<clock, edits, job, lapsed, faults>>
-----------------------------------------------------------------------------
\* A pass owes what is due at its cutoff when its cutoff is first saved.
Checkpoint(progress, token) ==
  /\ job' = [token |-> token, progress |-> progress]
  /\ owed' = IF job.progress.cutoff = None /\ progress.cutoff # None
             THEN Due(progress.cutoff) ELSE owed

\* savedJobRecord takes the time, the put comes later.
Save(i) ==
  /\ tick[i].pc = "save" /\ Usable(i)
  /\ Goto(i, "write")
  /\ UNCHANGED <<clock, rows, edits, job, lapsed, waiting, owed, faults>>

\* Seeded fault: a checkpoint is put whoever holds the record.
Fenced_None(i) == TRUE

\* The put's condition: the record has this lease's token and revision.
Fenced(i) == job.token = i

AfterWrite(i) == IF tick[i].progress.cutoff = None THEN "finish" ELSE "query"

Write(i) ==
  /\ tick[i].pc = "write"
  /\ \/ /\ Fenced(i)
        /\ Checkpoint(tick[i].progress, i)
        /\ \/ Goto(i, AfterWrite(i)) /\ UNCHANGED faults
           \/ Goto(i, "finish") /\ Fault
     \/ /\ UNCHANGED <<job, owed>>
        /\ Goto(i, "finish")
        /\ (~Fenced(i) /\ UNCHANGED faults) \/ Fault
  /\ UNCHANGED <<clock, rows, edits, lapsed, waiting>>

\* An expired lease releases nothing.
Finish(i) ==
  /\ tick[i].pc = "finish"
  /\ IF Usable(i) THEN Goto(i, "release") ELSE tick' = [tick EXCEPT ![i] = Idle]
  /\ UNCHANGED <<clock, rows, edits, job, lapsed, waiting, owed, faults>>

Release(i) ==
  /\ tick[i].pc = "release"
  /\ tick' = [tick EXCEPT ![i] = Idle]
  /\ \/ /\ Fenced(i)
        /\ Checkpoint(tick[i].progress, None)
        /\ lapsed' = FALSE
        /\ UNCHANGED faults \/ Fault
     \/ /\ UNCHANGED <<job, owed, lapsed>>
        /\ (~Fenced(i) /\ UNCHANGED faults) \/ Fault
  /\ UNCHANGED <<clock, rows, edits, waiting>>
-----------------------------------------------------------------------------
Step(i) ==
  \/ Query(i) \/ Yield(i) \/ Process(i) \/ Dispatch(i)
  \/ Save(i) \/ Write(i) \/ Finish(i) \/ Release(i)

Next ==
  \/ Tick
  \/ \E c \in Candidates : Put(c) \/ Delist(c)
  \/ \E i \in Invocations : Acquire(i) \/ Step(i) \/ Crash(i)
  \/ LapseAbandoned \/ LapseStalled

Spec == Init /\ [][Next]_vars

\* The schedule invokes the job forever, an invocation that lives goes on, and an
\* abandoned lease runs out.
FairSpec ==
  /\ Spec
  /\ \A i \in Invocations : WF_vars(Acquire(i)) /\ WF_vars(Step(i))
  /\ WF_vars(LapseAbandoned)
-----------------------------------------------------------------------------
PassEnds == job.progress.cutoff # None /\ job'.progress.cutoff = None

\* A pass ends only when every row that was due at its cutoff, and is still there,
\* was processed: no lost lease, crash, late put or resumption moves the checkpoint
\* past a candidate nobody looked at.
PassIsComplete == [][PassEnds => owed = {}]_vars

Overdue == waiting \cap Due(clock)

\* Whatever is due is processed in the end, or its row moves: neither a candidate
\* that always fails nor an invocation that died with the lease keeps it waiting.
EveryDueRowIsProcessed == \A c \in Candidates : c \in Overdue ~> c \notin Overdue
=============================================================================
