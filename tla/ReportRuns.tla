----------------------------- MODULE ReportRuns -----------------------------
(***************************************************************************)
(* The report application: an HTTP server over an in-memory workflow whose *)
(* worker calculates what was requested.  The server takes requests up to  *)
(* its capacity, reads their bodies, dispatches commands, and closes in    *)
(* steps: it gives up on bodies, stops its driver, closes the workflow and *)
(* waits for what it has accepted, for a limited time.  Without a server   *)
(* the workflow is WorkflowPump's, driven by an application that starts    *)
(* its driver again; the server starts its driver once.                    *)
(***************************************************************************)
EXTENDS WorkflowPump

CONSTANTS
  Facts,         \* the events reportRun.requested, each standing for its report
  Completion,    \* the event reportRun.completed of each
  Asks,          \* what clients send: [route, flaw]
  Callers,       \* the dispatches of an application without a report server
  MaxInFlight    \* capacity of the server (16)

ASSUME ReportAssumption ==
  /\ Facts \subseteq Events /\ Completion \in [Facts -> Events \ Facts]
  /\ \A e, f \in Facts : Completion[e] = Completion[f] => e = f
  /\ Callers \subseteq Commands /\ MaxInFlight \in Nat \ {0}

VARIABLES
  server,        \* [mode, at]: how it is used, and where in its life it is
  failed,        \* whether its driver ended with an error
  conns,         \* the connections, each with the dispatch of the same name
  completed      \* the reports whose state is "completed"

appVars == <<server, failed, conns, completed>>
-----------------------------------------------------------------------------
Modes == {"none", "managed", "manual"}
Served == server.mode \in {"managed", "manual"}
Is(at) == server.at = at
Become(at) == server' = [server EXCEPT !.at = at]

\* What a client can tell from the status: done, refused for good, or to be tried again.
Classes == {"ok", "refused", "unavailable"}
NoConn == [pc |-> "idle", flaw |-> "none", class |-> "none"]
Answered(class) == [NoConn EXCEPT !.pc = "answered", !.class = class]
Cut == [NoConn EXCEPT !.pc = "cut"]
Set(x, conn) == conns' = [conns EXCEPT ![x] = conn]

Begins(modes) ==
  /\ PumpInit
  /\ server \in [mode : modes, at : {"starting"}]
  /\ failed = FALSE
  /\ conns = [x \in Commands |-> NoConn]
  /\ completed = {}

ReportInit == Begins(Modes)

\* The status of a report, for those who may see it.
Authority(e) ==
  IF e \in completed THEN "completed" ELSE IF e \in Committed THEN "requested" ELSE "missing"
-----------------------------------------------------------------------------
\* A server that cannot bind closes the workflow; one that can starts the driver.
Listen ==
  /\ Served /\ Is("starting")
  /\ \/ server.mode = "managed" /\ Start /\ Become("up")
     \/ server.mode = "manual" /\ UNCHANGED pumpVars /\ Become("up")
     \/ /\ Fault /\ Become("error") /\ life' = "closing"
        /\ UNCHANGED <<log, cursor, jobs, waiting, pass, driver, commands, done>>
  /\ UNCHANGED <<failed, conns, completed>>

InFlight == {x \in Commands : conns[x].pc \in {"body", "run", "reply"}}

\* Request context, route, fixture identity, and what a requester may see.
RefusedAtOnce(ask) == ask.flaw \in {"context", "fixture", "route"}

\* The answer of the routes that read.
Read(ask) ==
  CASE ask.route = "health" -> IF Served /\ failed THEN "unavailable" ELSE "ok"
    [] ask.route = "result" /\ ~Admitted -> "unavailable"
    [] OTHER -> IF \E e \in Facts : Authority(e) = "completed" THEN "ok" ELSE "refused"

Accept(x, ask) ==
  /\ Is("up") \/ Is("closing")
  /\ conns[x].pc = "idle"
  /\ Set(x, IF Is("closing") \/ Cardinality(InFlight) >= MaxInFlight
            THEN Answered("unavailable")
            ELSE IF RefusedAtOnce(ask) THEN Answered("refused")
            ELSE IF ask.route = "report" THEN [NoConn EXCEPT !.pc = "body", !.flaw = ask.flaw]
            ELSE Answered(Read(ask)))
  /\ UNCHANGED <<pumpVars, server, failed, completed>>

\* A body is too long, of the wrong kind, no JSON or no inventory; or it takes too long.
BodyRefused(x) ==
  /\ conns[x].pc = "body" /\ Set(x, Answered("refused"))
  /\ UNCHANGED <<pumpVars, server, failed, completed>>

WellFormed(x) == conns[x].flaw = "none"

Body(x) ==
  /\ conns[x].pc = "body" /\ WellFormed(x)
  /\ IF Admitted THEN StartCommand(x) /\ Set(x, [NoConn EXCEPT !.pc = "run"])
     ELSE Set(x, Answered("unavailable")) /\ UNCHANGED pumpVars
  /\ UNCHANGED <<server, failed, completed>>

\* The command `request`: a new report, the answer of the one its key stands for, an
\* input that differs, or a store that fails.  Nobody waits for a connection that was cut.
Dispatched(x) ==
  /\ conns[x].pc = "run" /\ EndCommand(x)
  /\ LET reply(class) == Set(x, IF Is("late") THEN Cut
                                ELSE [NoConn EXCEPT !.pc = "reply", !.class = class]) IN
     \/ \E e \in Facts : log' = Append(log, e) /\ reply("ok")
     \/ log' = log /\ \E class \in {"refused", "unavailable"} : reply(class)
     \/ log' = log /\ Facts \cap Committed # {} /\ reply("ok")
  /\ UNCHANGED <<server, failed, completed>>

Reply(x) ==
  /\ conns[x].pc = "reply" /\ Set(x, Answered(conns[x].class))
  /\ UNCHANGED <<pumpVars, server, failed, completed>>
-----------------------------------------------------------------------------
\* The worker's command `complete`, from version 1 of the authority it has read; it is
\* refused by a workflow that closes.
Complete ==
  /\ Served /\ In("handling")
  /\ LET e == Job.delivery[2] IN
     /\ e \in Facts /\ Authority(e) = "requested" /\ Admitted
     /\ completed' = completed \cup {e}
     /\ log' = Append(log, Completion[e])
  /\ UNCHANGED <<life, cursor, jobs, waiting, pass, driver, commands, done, faults>>
  /\ UNCHANGED <<server, failed, conns>>

\* The handler is back: it has completed the report, found it completed, or failed.
ReportHandled ==
  /\ Handled
  /\ Served /\ Job.delivery \in done' => Authority(Job.delivery[2]) = "completed"

\* A driver ends with the error of its pass, unless it was told to stop.
Ended ==
  failed' = (failed \/ (Served /\ driver.on /\ ~driver.stopped /\ Admitted /\ ~driver'.on))

Runs ==
  /\ BeginPass \/ Admit \/ Handle \/ ReportHandled \/ Collect \/ Collected
  /\ Ended /\ UNCHANGED <<server, conns, completed>>
-----------------------------------------------------------------------------
\* close: bodies are given up and the driver is told to stop, before anything is awaited.
CloseServer ==
  /\ Is("up") /\ Become("closing")
  /\ conns' = [x \in Commands |->
                 IF conns[x].pc = "body" THEN Answered("refused") ELSE conns[x]]
  /\ driver' = [driver EXCEPT !.stopped = driver.on]
  /\ UNCHANGED <<life, log, cursor, jobs, waiting, pass, commands, done, faults>>
  /\ UNCHANGED <<failed, completed>>

Ending == Is("closing") \/ Is("late")

\* The driver has stopped, or ended with an error long ago: the workflow is closed.
CloseWorkflow == Ending /\ ~driver.on /\ Close /\ UNCHANGED appVars

\* Seeded fault: what was accepted is not waited for.
Awaited_Not == TRUE

\* Every request that was accepted has been answered, and its connection has ended.
Awaited == InFlight = {}

\* A driver that ended with an error makes the close fail before it waits.
CloseEnds ==
  /\ Is("closing") /\ life = "closed"
  /\ IF failed THEN Become("error") ELSE Awaited /\ Become("closed")
  /\ UNCHANGED <<pumpVars, failed, conns, completed>>

\* Five seconds are over: the connections are cut, and the rest goes on unwatched.
Deadline ==
  /\ Is("closing") /\ Become("late")
  /\ conns' = [x \in Commands |->
                 IF conns[x].pc \in {"body", "reply"} THEN Cut ELSE conns[x]]
  /\ UNCHANGED <<pumpVars, failed, completed>>
-----------------------------------------------------------------------------
Serving ==
  \/ Listen
  \/ \E x \in Commands :
       \/ \E ask \in Asks : Accept(x, ask)
       \/ Body(x) \/ BodyRefused(x) \/ Dispatched(x) \/ Reply(x)
  \/ CloseServer \/ CloseWorkflow \/ CloseEnds \/ Deadline

\* An application without a server uses the workflow as it likes, for its own events.
Completions == {Completion[e] : e \in Facts}
Own(x) == EndCommand(x) /\ (Completions \cap Committed)' = {}

Applied ==
  /\ UNCHANGED appVars
  /\ \/ ~Served /\ \/ \E x \in Callers : StartCommand(x) \/ Own(x)
                   \/ Start \/ Stop \/ Close
     \/ server.mode # "managed" /\ \E d \in Drains : Drain(d)
     \/ PumpTick \/ Wake \/ Closed

ReportNext == Serving \/ Applied \/ Runs \/ Complete

allVars == <<pumpVars, appVars>>
ReportSpec == ReportInit /\ [][ReportNext]_allVars
-----------------------------------------------------------------------------
\* A close that reports success has waited for everything: no driver, no pass and no
\* accepted request is left; the report server has also closed its workflow and has
\* answered every request that it accepted.
CloseIsFinal ==
  Is("closed") =>
    /\ ~driver.on /\ waiting = <<>> /\ commands = {} /\ InFlight = {}
    /\ Served => life = "closed" /\ \A x \in Commands : conns[x].pc # "cut"

\* Every committed event is handled or collected, also when handlers fail, stores are
\* full, drivers end and ticks fail: unless the runtime or its server closes, or the
\* server has no driver that runs, which its health tells.
EveryEventSettles ==
  \A d \in Deliveries :
    (\E i \in DOMAIN log : log[i] = d[2])
      ~> (d \in done \/ life # "ready" \/ server.at \in {"closing", "late", "closed"}
          \/ server.mode = "manual" \/ Read([route |-> "health"]) = "unavailable")
=============================================================================
