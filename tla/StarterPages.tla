---------------------------- MODULE StarterPages ----------------------------
(***************************************************************************)
(* The browser's part of the starter: the list, the form of a new request  *)
(* and the page of one request with its activity and its command dialog,   *)
(* over the HTTP API of WorkRequests.  A component loads when it appears   *)
(* and when it is told to; nothing tells its loads apart, so that answers  *)
(* are shown in the order in which they come.  Other people's commands run *)
(* beside the page's own.  The pages are looked at with the local server,  *)
(* the worker and the reminder without a page.                             *)
(***************************************************************************)
EXTENDS WorkRequests

CONSTANTS
  MaxLoads,         \* bound on a component's loads under way at once
  MaxLosses         \* bound on requests whose answers are lost

ASSUME PagesAssumption == MaxLoads \in Nat \ {0} /\ MaxLosses \in Nat

VARIABLES
  page,             \* where the person is: no page, the list, the form, a request
  panes,            \* what each component of the page shows
  loads,            \* the loads of each component that are under way
  dialog,           \* the command dialog: open or not, and the calls it started
  losses

pageVars == <<page, panes, loads, dialog, losses>>
-----------------------------------------------------------------------------
Panes == {"list", "detail", "timeline"}
PanesOf(at) == CASE at = "list" -> {"list"} [] at = "request" -> {"detail", "timeline"}
                 [] OTHER -> {}

\* `version` is that of the state a component shows; `crossed` says, for the properties,
\* that two of its loads were under way at once, `own` is the version of the page's last
\* own command.
Empty == [loading |-> FALSE, error |-> "none", version |-> 0, rows |-> {}, crossed |-> FALSE]
Sent == [pc |-> "sent", error |-> "none", version |-> 0, rows |-> {}]
NoPage == [at |-> "none", id |-> NoId, own |-> 0]
NoDialog == [open |-> FALSE, runs |-> {}, error |-> FALSE]

PagesInit ==
  /\ Init /\ page \in {NoPage, [NoPage EXCEPT !.at = "list"]}
  /\ page # NoPage => Local
  /\ panes = [p \in Panes |-> Empty]
  /\ loads = [p \in Panes |-> IF p \in PanesOf(page.at) THEN <<Sent>> ELSE <<>>]
  /\ dialog = NoDialog /\ losses = 0

Lose == losses < MaxLosses /\ losses' = losses + 1
-----------------------------------------------------------------------------
\* A page appears with its components and their first loads; what the last one had
\* asked for is heard by nobody.
Visit(at, r, own) ==
  /\ page' = [at |-> at, id |-> r, own |-> own]
  /\ panes' = [p \in Panes |-> [Empty EXCEPT !.loading = p \in PanesOf(at)]]
  /\ loads' = [p \in Panes |-> IF p \in PanesOf(at) THEN <<Sent>> ELSE <<>>]
  /\ dialog' = NoDialog

Back == page.at \in {"new", "request"} /\ Visit("list", NoId, 0) /\ UNCHANGED losses
New == page.at = "list" /\ Visit("new", NoId, 0) /\ UNCHANGED losses
Select(row) ==
  /\ page.at = "list" /\ ~panes["list"].loading /\ row \in panes["list"].rows
  /\ Visit("request", row.id, 0)
  /\ UNCHANGED losses

\* The routes of the API that read.
ListRoute == [Sent EXCEPT !.pc = "answered", !.rows = list]
GetRoute(r) == [Sent EXCEPT !.pc = IF resource[r] = Absent THEN "failed" ELSE "answered",
                            !.error = IF resource[r] = Absent THEN "missing" ELSE "none",
                            !.version = resource[r].version]
\* Each command adds one record to the activity.
ActivityRoute(r) == GetRoute(r)

Answer(p) ==
  CASE p = "list" -> ListRoute
    [] p = "detail" -> GetRoute(page.id)
    [] p = "timeline" -> ActivityRoute(page.id)

\* Requests are answered in any order.
Reads(p) ==
  /\ \E n \in DOMAIN loads[p] :
       /\ loads[p][n].pc = "sent"
       /\ \/ loads' = [loads EXCEPT ![p][n] = Answer(p)] /\ UNCHANGED losses
          \/ loads' = [loads EXCEPT ![p][n] = [Sent EXCEPT !.pc = "failed", !.error = "lost"]]
             /\ Lose
  /\ UNCHANGED <<page, panes, dialog>>

\* What comes is shown; a failure takes away what was there.
Shown(p) ==
  /\ \E n \in DOMAIN loads[p] :
       LET load == loads[p][n] IN
       /\ load.pc \in {"answered", "failed"}
       /\ panes' = [panes EXCEPT ![p] =
                      [@ EXCEPT !.loading = FALSE, !.error = load.error,
                                !.version = load.version, !.rows = load.rows]]
       /\ loads' = [loads EXCEPT ![p] = RemoveAt(@, n)]
  /\ UNCHANGED <<page, dialog, losses>>
-----------------------------------------------------------------------------
\* The dialog and the form of a new request start calls without a key, as often as
\* they are submitted, whether one is under way or not.
OpenDialog ==
  /\ page.at = "request" /\ ~dialog.open
  /\ dialog' = [dialog EXCEPT !.open = TRUE]
  /\ UNCHANGED <<page, panes, loads, losses>>

CloseDialog ==
  /\ dialog.open
  /\ dialog' = [dialog EXCEPT !.open = FALSE]
  /\ UNCHANGED <<page, panes, loads, losses>>

Submittable(q) ==
  /\ q.key = NoKey
  /\ \/ page.at = "new" /\ Creates(q) /\ q.id = NoId
     \/ dialog.open /\ ~Creates(q) /\ q.id = page.id

Submit(c, q) ==
  /\ Submittable(q) /\ Begin(c, q)
  /\ dialog' = [dialog EXCEPT !.runs = @ \cup {c}, !.error = FALSE]
  /\ UNCHANGED <<page, panes, loads, losses>>

\* Seeded fault: the activity is not loaded again.
Reloaded_Detail(p) == p = "detail"

\* reload: the request and its activity.
Reloaded(p) == p \in {"detail", "timeline"}

Reload ==
  /\ \A p \in Panes : Reloaded(p) => Len(loads[p]) < MaxLoads
  /\ loads' = [p \in Panes |-> IF Reloaded(p) THEN Append(loads[p], Sent) ELSE loads[p]]
  /\ panes' = [p \in Panes |->
                 IF Reloaded(p) THEN [panes[p] EXCEPT !.loading = TRUE, !.error = "none",
                                                      !.crossed = @ \/ loads[p] # <<>>]
                 ELSE panes[p]]

\* The new request's page follows its creation.
Created(c) ==
  /\ page.at = "new" /\ call[c].result.ok
  /\ Visit("request", call[c].result.id, 1)
  /\ UNCHANGED losses

\* The dialog closes itself, whatever it is used for meanwhile.
Completed(c) ==
  /\ page.at = "request" /\ call[c].result.ok
  /\ Reload
  /\ LET version == (CHOOSE e \in outbox : e.call = c).event[2]
     IN page' = [page EXCEPT !.own = IF version > @ THEN version ELSE @]
  /\ dialog' = [dialog EXCEPT !.runs = @ \ {c}, !.open = FALSE]
  /\ UNCHANGED losses

\* An error, or an answer that is lost, is shown and the input is kept.
Refused(c) ==
  /\ \/ ~call[c].result.ok /\ UNCHANGED losses
     \/ Lose
  /\ dialog' = [dialog EXCEPT !.runs = @ \ {c}, !.error = TRUE]
  /\ UNCHANGED <<page, panes, loads>>

Replied(c) == c \in dialog.runs /\ At(c, "returned") /\ (Created(c) \/ Completed(c) \/ Refused(c))
-----------------------------------------------------------------------------
Browse ==
  \/ Back \/ New \/ OpenDialog \/ CloseDialog
  \/ \E row \in panes["list"].rows : Select(row)
  \/ \E p \in PanesOf(page.at) : Reads(p) \/ Shown(p)
  \/ \E c \in Calls : Replied(c)

PagesNext ==
  \/ page = NoPage /\ Next /\ UNCHANGED pageVars
  \/ page # NoPage /\
       \/ Browse /\ UNCHANGED vars
       \/ \E c \in Calls, q \in Requests : Submit(c, q)
       \/ (\E c \in Calls : Execute(c) \/ \E q \in Requests : Begin(c, q)) /\ UNCHANGED pageVars

PagesSpec == PagesInit /\ [][PagesNext]_<<vars, pageVars>>

\* Fairness of what runs without a page.
Unseen == page = NoPage /\ UNCHANGED pageVars
StarterSpec ==
  /\ PagesSpec
  /\ WF_<<vars, pageVars>>(Unseen /\ (Scan \/ Remind))
  /\ WF_<<vars, pageVars>>(Unseen /\ (Deliver \/ Serve))
-----------------------------------------------------------------------------
\* After a command of the page's own, and after the creation that led to it, the request
\* and its activity are shown as they were left by it or later, unless the answer was
\* lost: provided that a component's loads did not cross.
OwnCommandIsShown ==
  page.own > 0 =>
    \A p \in PanesOf(page.at) :
      loads[p] = <<>> /\ ~panes[p].crossed =>
        panes[p].version >= page.own \/ panes[p].error = "lost"
=============================================================================
