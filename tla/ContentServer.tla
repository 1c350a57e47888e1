---------------------------- MODULE ContentServer ----------------------------
(***************************************************************************)
(* The development server of content operations, over the same pump.  It   *)
(* has no driver and no lifecycle around its runtime: it asks for a tick,  *)
(* waits, and asks for the next one, whether the tick succeeds or not.  A  *)
(* tick sweeps the due jobs and drains the pump once.  Its close cuts all  *)
(* connections at once, and waits without a limit for what was accepted.   *)
(*                                                                         *)
(* The reports' application and this one never run in the same process:    *)
(* the mode of the server says which of them a behaviour is about.         *)
(***************************************************************************)
EXTENDS ReportRuns

ContentMode == server.mode = "content"

ApiInit == Begins(Modes \cup {"content"})
-----------------------------------------------------------------------------
\* A server that cannot bind closes its runtime, which has no driver to stop.
ContentListen ==
  /\ Is("starting")
  /\ \/ Become("up") /\ Quiet
     \/ Become("error") /\ Fault
  /\ UNCHANGED <<life, log, cursor, jobs, waiting, pass, driver, commands, done>>
  /\ UNCHANGED <<failed, conns, completed>>

\* A tick that failed is told by the body of the health route, not by its status; a
\* server that closes takes no connection.
ContentAccept(x, ask) == Is("up") /\ Accept(x, ask)

\* The body is read under its own deadline and limit, and then dispatched.
ContentBody(x) == Body(x) \/ BodyRefused(x)

\* The dispatch is over, and so is its handler; there may be nobody left to answer.
ContentDispatched(x) ==
  /\ conns[x].pc = "run" /\ Own(x)
  /\ \E class \in IF log' = log THEN Classes ELSE {"ok"} :
       Set(x, IF Is("closing") THEN Cut ELSE [NoConn EXCEPT !.pc = "reply", !.class = class])
  /\ UNCHANGED <<server, failed, completed>>
-----------------------------------------------------------------------------
\* The commands of jobs and workers commit events, too.
Follows == log' = log \/ \E e \in (Events \ Completions) \ Committed : log' = Append(log, e)

\* The interval is over: the jobs, which may fail, and then one drain.
TickBegins ==
  /\ Is("up") /\ waiting = <<>>
  /\ \/ Fault /\ failed' = TRUE /\ UNCHANGED waiting
     \/ Quiet /\ UNCHANGED failed /\ \E d \in Drains : waiting' = <<d>>
  /\ Follows
  /\ UNCHANGED <<life, cursor, jobs, pass, driver, commands, done>>
  /\ UNCHANGED <<server, conns, completed>>

\* A tick fails with its pass, which returns only from its last loop.
TickEnds == failed' = IF waiting' = waiting THEN failed ELSE ~In("collect")

ContentPass == Pass /\ TickEnds /\ UNCHANGED <<server, conns, completed>>

ContentHandler ==
  /\ In("handling") /\ Follows
  /\ UNCHANGED <<life, cursor, jobs, waiting, pass, driver, commands, done, faults>>
  /\ UNCHANGED appVars
-----------------------------------------------------------------------------
\* close: no tick follows, bodies are given up and all connections are closed.
ContentClose ==
  /\ Is("up") /\ Become("closing")
  /\ conns' = [x \in Commands |->
                 IF conns[x].pc \in {"body", "reply"} THEN Cut ELSE conns[x]]
  /\ UNCHANGED <<pumpVars, failed, completed>>

\* Every handler has settled, and the tick that was running.
ContentCloseEnds ==
  /\ Is("closing") /\ Awaited /\ waiting = <<>>
  /\ Become("closed")
  /\ UNCHANGED <<pumpVars, failed, conns, completed>>

ContentServing ==
  \/ ContentListen \/ ContentHandler \/ ContentClose \/ ContentCloseEnds
  \/ \E x \in Callers :
       \/ \E ask \in Asks : ContentAccept(x, ask)
       \/ ContentBody(x) \/ ContentDispatched(x) \/ Reply(x)

Waiting == PumpTick /\ UNCHANGED appVars

ContentNext == ContentServing \/ TickBegins \/ ContentPass \/ Waiting
-----------------------------------------------------------------------------
ApiNext == IF ContentMode THEN ContentNext ELSE ReportNext

ApiSpec == ApiInit /\ [][ApiNext]_allVars

\* Time passes, the event loop runs what can run, a server starts and asks for its
\* ticks, and an application without a server starts its driver again when it has ended.
FairApiSpec ==
  /\ ApiSpec
  /\ WF_allVars(Waiting)
  /\ WF_allVars(~ContentMode /\ Wake /\ UNCHANGED appVars)
  /\ WF_allVars(IF ContentMode THEN ContentPass ELSE Runs \/ Complete)
  /\ WF_allVars(IF ContentMode THEN ContentListen \/ TickBegins
                 ELSE (server.mode = "none" /\ Start /\ UNCHANGED appVars) \/ Listen)
=============================================================================
