----------------------------- MODULE BrowserPages -----------------------------
(***************************************************************************)
(* The browser's application: it shows the page of an item, a list or a    *)
(* review, one at a time.  Leaving a page ends its sessions, its requests  *)
(* and its polls, so that a behaviour follows one page.                    *)
(***************************************************************************)
EXTENDS ReviewPage

VARIABLE route      \* the page: "item", "list" or "review"

itemVars == <<history, results, late, keys, page, call, typed>>
browserVars == <<route, vars, listVars, reviewVars>>

\* What is not shown.
NoItem == Init /\ history = <<>>
NoList ==
  /\ clock = 0 /\ edits = 0 /\ rows = [c \in Candidates |-> None]
  /\ screen = Blank(None, None, None) /\ calls = NoCalls
NoReview ==
  /\ past = <<>> /\ models = <<>> /\ desk = NoDesk
  /\ loads = [now |-> NoLoad, given |-> FALSE] /\ sync = NoSync /\ decision = NoDecision

BrowserInit ==
  \/ route = "item" /\ Init /\ NoList /\ NoReview
  \/ route = "list" /\ NoItem /\ ListInit /\ NoReview
  \/ route = "review" /\ NoItem /\ NoList /\ ReviewInit

BrowserNext ==
  \/ route = "item" /\ Next /\ UNCHANGED <<route, listVars, reviewVars>>
  \/ route = "list" /\ ListNext /\ UNCHANGED <<route, vars, reviewVars>>
  \/ route = "review" /\ ReviewNext /\ UNCHANGED <<route, itemVars, listVars>>

\* The fairness of the item's page: a load and the requests of the sessions that
\* follow a publication are answered or time out, and a timer that nobody stops
\* fires.  The other sessions may wait forever.
OfItem == route = "item" /\ UNCHANGED <<route, listVars, reviewVars>>
BrowserSpec ==
  /\ BrowserInit
  /\ [][BrowserNext]_browserVars
  /\ WF_browserVars(OfItem /\ Loaded)
  /\ \A p \in Polls : /\ WF_browserVars(OfItem /\ Answer(p))
                       /\ WF_browserVars(OfItem /\ Poll(p))
=============================================================================
