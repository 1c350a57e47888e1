# Formal models of JawStack, its applications and their tools

This directory holds TLA+ specifications of JawStack (the workflow runtime in `packages/core`
and `packages/aws-runtime`), of the three applications built on it (Content Operations,
Report Runs and the starter) with their browser pages, and of the local lab they are run in;
the TLC configurations that check them on small instances; and TLAPS proofs of the
properties that matter most. Paths are relative to the repository: `CORE` is
`packages/core/src`, `CW` is `packages/core/src/workflow`, `AR` is
`packages/aws-runtime/src`, `CO` is `apps/content-operations/src`.

    tlc -workers 2 -config queue.cfg MCWorkerQueue     # one run; see "Runs"
    tlapm RuntimeProofs.tla                                   # one proof module

`PROJECT.json` is the machine-readable companion: components, runs, the map from definitions
to source lines, hazards, theorems, and for every checked property one mutant: a change of a
mapped definition that a plausible bug would make and that the property catches.

## The system

A JawStack application stores *resources*. Commands change them through one dispatcher, which
writes the resource, an idempotency row and outbox events in one transaction. Events are
relayed to a bus, queued per consumer, handled at least once, and a delivery that fails for
good becomes a durable *failure record* that an operator can replay. In development the same
definitions run over an in-memory pump inside an HTTP server.

    caller --command--> dispatch --transaction--> resource | idempotency | outbox rows
                                                                  |
             stream dispatcher / sweeper  <------------------------
                    |
                 EventBridge --> queue --> worker --> delivery.handle --> handler --commands--> ...
                                   |                        |
                                   '-> DLQ --> collector --> delivery.collect --> failure ledger
                                                                                      |
                                            operator --replay--> event in the outbox <-'

Content Operations is an editorial workflow: items with reviews, attachments, a schedule and a
publication that is claimed under a lease; workers that materialize reviews and assets, send
notifications and publish; jobs that sweep what is due; a browser application of sessions
over an API that answers commands by idempotency key. Report Runs computes reports in a
worker; its server runs around the pump and must start, serve and close in order. The starter
is the template a new project begins with: the first unit of work (without recovery), an SQS
adapter, a reminder of stale requests and three Angular pages.

### Components

| Component (code) | State it keeps | Operations | What is hard | What makes it correct |
|---|---|---|---|---|
| Command dispatch (`CW/command-runtime.ts`, `memory.ts`) | resource, idempotency and outbox rows | lookup, load, decide, commit, recover | racing invocations of one key, commits with no answer, rows that expire while an older invocation runs | one effect per key and window, no lost update, the abstract promise is kept |
| Failure ledger (`CW/failures.ts`, `failure-records.ts`) | one record per failed delivery, replay events | collect, replay, complete, reconcile | operators, consumer and collector on one record; lost answers; a collector that dies half-way | an acknowledgement is durable, every collection is reconciled |
| Outbox relay (`AR/index.ts`) | outbox rows, their index, the stream | publish and mark, by stream and by sweep | death between publish and mark, two publishers of one row, stale index, dropped batches | nothing marked unpublished, everything published in the end |
| Event delivery (`CW/delivery.ts`) | processing markers | handle, collect | markers are read first, written last and lock nothing; full store; expiry | a marker stands for finished work |
| Consumer queue (`AR/workflow/sqs.ts`) | messages, receive counts | worker and collector over batches | one record of a batch fails; a deferral counts as a receive | every acceptable message settles |
| Pump and runtime (`CW/pump.ts`, `runtime.ts`) | cursor, job table, lifecycle | drain, driver, stop, close | backpressure, deferral, close beside running work | no event slips by, closed means quiet |
| Report Runs server (`apps/report-runs/src/server.ts`) | pending requests, driver, phase | serve, drain, close | a close that races requests and a failed driver | a close that succeeds is final |
| Content server (`CO/http/server.ts`) | connections, tick | serve, tick, close | as above, without a lifecycle around it | as above |
| Publication (`CO/domain/publication-commands.ts`, `CO/application/publisher.ts`) | phase, claim, attempts, generation, artifact | request, claim, write, complete, fail, reconcile, retry | leases that lapse under a working publisher, lost answers, dead messages | one working lease, attempts closed by their holder, every publication ends |
| Content item (`CO/domain/resources.ts`, `projections.ts`) | item, listing rows, events | the editorial commands | long histories, sort keys that change | the schema accepts the program's own results; listings are exactly current |
| Materialization (`CO/application/workers.ts`) | projected reviews and assets | createSnapshot, applySnapshot | reordered, duplicated, concurrent events | no snapshot is refused for good; views converge |
| Notifications (`CO/application/notifications.ts`, `CO/aws/notifications.ts`) | destination rows | render, deliver | redelivery, a lost answer of the transaction | every event is told exactly once |
| Uploads (`CO/application/uploads.ts`, `asset-cleanup.ts`) | objects, slots | upload, complete, cleanup | state read before an await and used after it | a verified slot's object has its digest |
| Scheduled jobs (`CO/application/jobs.ts`, `job-store.ts`) | leased checkpoint | tick | overlapping, stalled and killed invocations | a pass skips nobody; everything due is processed |
| Web sessions and pages (`CO/web/*`) | drafts, pending commands, polls, what is shown | load, save, retry, compare, decide, dispose | answers that come late, twice or never; commands executed after they were given up; versions that move underneath | what was entered is kept, what is shown was asked for, a decision is made on the content shown |
| Query paging (`CORE/index.ts`, `AR/index.ts`, `CO/application/queries.ts`) | cursors | query, load more, refresh | rows that move between pages, empty filtered pages, a budget | nothing that stays put is left out |
| Starter (`CORE/index.ts`, `AR/index.ts`, `templates/`, `packages/angular`) | request rows, list rows, markers | create, update, close, remind, work, pages | races without recovery, partial batches, stale lists, late loads | answers fit what was done, the list is current, what is stale and within reach is reminded of |
| Local lab (`tooling/local-lab/src`) | lock file, manifest, containers, services | up, provision, reset, verify, down | a process killed half-way, strangers with the same names | nothing unowned is touched, everything owned can be taken down |
| Commit plan and compiler (`CW/commit-plan.ts`, `AR/workflow/compiler.ts`) | none | build and validate a plan | conditions per write, limits | every write is conditional; modelled by its effects |

What has no state of its own (definitions, manifests, infrastructure templates, command line
tools, seeds, AWS client bindings, verification scripts) is in `PROJECT.json` with the reason
it is left out; see "Not modelled".

## Modules

Every module keeps the code's control flow - each guard, early return, error path and the
order of reads and writes - and abstracts the data: payloads, names and digests are model
values, time is a small integer. A process that awaits between two steps has a program
counter, and every other process may act in between. Arrows read "is extended by".

**Runtime**

* **CommandDispatch** - a scene (what is stored, which requests come) and one record per
  invocation: `Begin` captures the clock once; `Lookup`,
  `Load`, `Commit`, `Apply` / `Lose` / `Receive` (the request on the wire and its answer are
  separate, so a commit may take effect after its caller gave up), `Recover` and `Validate`
  follow `command-runtime.ts`; rows and conditions are those of `memory.ts`.
* **CommandPromise** - what callers rely on, without rows or recovery: invoke, one effect,
  answer. `CommandDispatch!KeepsPromise` is the refinement; effects are the outbox rows.
* **FailureLedger** - read / decide / commit loops of collector, completing consumer and
  operators on one versioned record; `WellFormed` is `parse`, `ValidChange` is `validateChange`.
* **OutboxRelay** - stream dispatcher and sweeper each hold rows they read earlier; `index`
  is GSI1, which `Propagate` lets lag behind the table.
* **EventDelivery -> WorkerQueue** - handle and collect as the sequence marker check, handler,
  completion, marker, with crashes and failing calls at every step and both marker stores;
  then the queue and its dead-letter queue around it, whose batches are validated before the
  first effect, handled in order and given back.
* **WorkflowPump -> ReportRuns -> ContentServer** - the pass of `pump.ts` (admission, jobs,
  terminal jobs) under the pump's lock, driver, manual drains, commands beside it and `close`;
  the two applications' servers around it. The mode of a behaviour says whether the pump is
  alone, managed by the report server, served by it without a driver, or under the content
  server.

**Content Operations**

* **Publication** - the publication commands are atomic against the version their caller
  read; `publisher` follows `publisher.ts` through its reloads and catch blocks; `message` is
  the queue, `Reconcile` the dead-letter side, `Tamper` an external writer of the object.
* **ContentItem -> Materialization -> Notifications** and **ContentItem -> Uploads** - one
  action per editorial command; `rows` is the listing table changed by exactly the puts and
  deletes a command plans, `facts` the events workers subscribe to. The workers, the
  notification sink and the uploads work against an item that has every history its commands
  allow.
* **JobPass** - one job's checkpoint record and the invocations that lease it.
* **ContentPage -> ContentLists -> ReviewPage -> BrowserPages** - the browser. ContentPage is
  an item's page with its editor, schedule, attachment, recovery and editorial sessions;
  ContentLists the five paged lists and the queries behind them (in memory and on DynamoDB);
  ReviewPage the review that is loaded from two places; BrowserPages routes between them, one
  page per behaviour, since leaving a page disposes of its sessions.

**Starter and lab**

* **WorkRequests -> StarterPages** - the starter's commands over the first unit of work, local
  or on AWS, its queue worker and its stale reminder; then the browser's list, creation form
  and detail page over the local server.
* **LocalLab** - lock file, manifest, emulator, network, Lambda runtimes and services, with
  each command step by step; sessions are killed anywhere and strangers use the same names.

**MC\*** modules give model values, functions and symmetry sets for the runs; **\*Proofs**
modules hold theorems.

Commands of Content Operations are single steps because each names the version its caller
saw, and CommandDispatch is what justifies this; redelivery in Publication, Materialization
and Notifications is justified by WorkerQueue in the same way. The pump does not look inside
a delivery: EventDelivery does.

## Runs

Ten runs pass; `race` and `kept` are expected to find a violation each, of what the design and
the workbench's documentation say (see "Disagreements with the documentation"). Two passing
runs hold two systems that share no state: a variable `side` says which of them moves, the
other is at rest, and each is explored exactly as it would be alone.

| Run | What it shows | Bounds, and why they are enough |
|---|---|---|
| dispatch_and_lab | dispatch: NoLostUpdate, OncePerWindow; the refinement KeepsPromise | two invocations in two scenes. Over an empty store, a creating and an updating key, a named and a generated id: creations race, and a creation races an update. Over a stored resource, two updating keys: both load one version, and the loser's plan is stale. The clock outlives a TTL, so rows expire under a running invocation. A third invocation (a creation and two updates in one behaviour) is covered by the proofs |
| | lab: NothingIsOrphaned, ForeignIsUntouched, DownSucceeds | two operators, one Lambda runtime, six kinds of service (with the three whose creation takes a namesake over), two faults (kill, emulator death, stranger), two owners after each other, so that one may meet what the other left. Strangers also come between the inspection and the creations. The first two are proved for any of these |
| relay_and_ledger | relay: PublishedIsOnTheBus, EveryEventIsPublished | two events in a batch that is dropped at its second failure; a sweep of one row, so the head of the index must make room. Any number is covered by the proof of the first |
| | ledger: AckIsDurable, CollectionsSettle | all kinds of actors at once, two operators that race and repeat themselves; the replay budget is reached; one fault may hit any step. Any number is covered by the proof of the first |
| queue | MarkedIsDone, EveryMessageSettles | two queues: a recoverable one with batches of one (`aws-cdk/src/recovery.ts` demands it), holding an event, a recovery and a recovery of another consumer, and one with batches of two over two messages of one event and one that nobody accepts; one marker place, markers that expire; an invocation may die anywhere, also after a delivery is marked and before its message is deleted; two receives lead to the dead-letter queue |
| publication | SchemaHolds, OneWorkingLease, ClosedByItsHolder, EveryPublicationSettles | two publishers, two copies of each message, two receives, two attempts, two generations, a lease of one tick, one fault: every takeover, a retry after a stall and a dead message occur. More of each is covered by the proofs |
| materialization | NeverRefused, Converged, ToldOnce | all histories of five commands, two workers with two optimistic attempts, one fault. All three are proved without these bounds |
| uploads | VerifiedIsStored, AnswersHold, ContentSchema, ListingsAreCurrent | editors alone: all histories of seven commands with two attachments of which one may be active and two days; with two uploads of different bytes of one slot and the cleaner: four commands. All four are proved without these bounds |
| jobs | PassIsComplete, EveryDueRowIsProcessed | two invocations, two candidates, three edits, one fault: an overtaken invocation needs two, a row that moves behind a checkpoint needs two candidates. The proof of the first covers any number |
| pump | NothingSlips, CloseIsFinal, ClosedIsQuiet, EveryEventSettles | three deliveries over a table of two, and an event that a delivery commits; passes of two; two attempts and three faults, so a job is given up and its collection can fail; a report server with one place and two connections, a content server with one. The first three are proved for any of these |
| page | EnteredAtRestIsKept, ListedIsAsked, ListIsComplete, RefusedWhenChanged, CatchesUp | a new item or one of four kinds, three versions, two keys, one fault; lists of two rows with one edit; three versions of an item with two reviews. A late answer needs one older and one newer version; two keys tell a retry from a new command. The safety properties are proved for any number |
| starter | AnswersFitEffects, ListIsCurrent, OwnCommandIsShown, StaleInReachIsReminded, EventsSettle | two commands over a named and two generated requests, one key, a malformed message, two receives; two loads of a page, one lost answer; a page of the list with at least one row, so that a row may lie behind it. The first three are proved for any of these |
| race (violation) | OneKeyOneResponse | starter.cfg's requests, two creations with one key, no faults: it needs two calls that look the key up before either commits |
| kept (violation) | TypedIsKept | page.cfg's constants: an old comparison needs a conflict that was ended, and an upload that begins after it |

`CHECK_DEADLOCK FALSE` is set throughout because each instance really stops: the bounds on
time, commands and faults end it when its work is done. `MaxFaults`, `MaxCallFaults` and
`MaxMishaps` count crashes, failed calls and lost answers; `MaxTime`, `MaxClock`, `MaxVersion`,
`MaxEdits`, `MaxKeys`, `MaxLoads`, `MaxLosses` and `MaxOwners` bound clocks and histories. Safety properties hold along every prefix, so a bound
only limits how far histories are explored. `Bounded` in MCUploads is a state constraint of a
run without liveness properties. Symmetry is used only where a run has no temporal property.

### Fairness

* `WF(Step)` of an invocation (ledger, jobs, publication, pump): a process that is
  alive and not blocked goes on. Crashes are actions of their own, bounded and never forced.
  The dispatch has safety properties only, and no fairness.
* `SF` of receiving a message (ledger, queue, publication): a queue keeps handing out a
  message that is visible again and again. Only for messages validation can accept; what it
  always refuses stays in the dead-letter queue, and no property claims otherwise.
* `WF` of a sweep, of a tick, of acquiring a lease, of the index catching up, of a scan:
  EventBridge Scheduler fires forever and GSIs converge.
* `WF` of time: a lease of a dead holder runs out.
* pump: the application keeps a driver and starts it again after it ended on an error; the
  content server's next tick always follows. Nothing forces a manual drain. The report server
  starts its driver once, so EveryEventSettles claims nothing after that one has failed.
* lab: somebody goes on working (`SF` of a step of some session, since failures may repeat),
  a failing command without the lock leaves, somebody opens `down` again, a dead session's
  lock is removed by hand as its message asks, Docker finishes a removal. Once only teardowns
  are started, strangers give the names back. No particular session is treated fairly.
* page: for CatchesUp the load, the answers of the publication and the recovery session and
  the polls of the item's page, while its other requests may hang;
  lists and reviews have safety properties only.
* starter: the reminder's schedule fires and the queue delivers, without a page. StaleInReachIsReminded
  asks for a reminder only of a request whose row is within the first page.

## Proofs

All theorems hold for all values of the constants that satisfy the module's named ASSUMEs.
They come in eight modules.

* **RuntimeProofs** - the dispatch, and the pump. `TypeCorrect`, `VersionsAreOneLine`, `OneEffectPerWindow`,
  `DispatchKeepsPromise`.
  TypeOK is inductive once `Planned` ties a chosen id to the program counter. The version
  line is inductive with it: only a commit that takes effect writes, and its condition
  equates the plan's version with the row's. One effect per window needs the stronger
  `Windows`: the idempotency row of a key expires no earlier than the window of any effect of
  that key, because a row is replaced only by an invocation whose captured clock is past its
  expiry. The refinement rests on all of these and on `Knowledge`, what an invocation may
  conclude of its own plan: whoever found a result that the promise binds - a success, a
  definite error - found it while its own request could not take effect any more (`Shut`), or
  after it had. One lemma per action then shows the step that the promise takes.
  `PumpSlipsNothing`, `ClosesAreFinal`, `ClosedStaysQuiet`, from
  `PumpHolds` and `ServerHolds`: the outbox lists an event once, the table a delivery once;
  what the cursor has passed is exactly what is in the table or done, and never both
  (`Accounted`); a pass is at a job that is there, although the pass itself removes jobs; who
  is counted by the lifecycle is exactly who waits, runs or drives (`RuntimeHolds`,
  `ModesHold`); and before its deadline a closing server cuts nobody off (`Uncut`), so that
  its counter of pending requests can be believed.
* **FailureLedgerProofs** - `AcksAreDurable`, from `LedgerInv`: the record is absent or well
  formed; who is about to commit holds a record on which its update is achieved; who has read
  the record relies only on what no later commit takes away - its generation is no later than
  the last recovery, its collection is there. The events in the outbox are the recoveries on
  record, each under its generation and its operator (`Emitted`), so no operator's acknowledged
  replay is overwritten by another's. `LocalStable` shows that every change that
  `validateChange` lets through keeps all of it (`Grows`), which is why the other actors can
  be ignored; `AllDecided` shows that a decision to keep a record is made only where the
  update is achieved already.
* **DeliveryProofs** - both ends of an event's way. `NoEventIsLost`, from `RelayInv`: whoever
  is about to mark a row has published its event, and the record it works on stays in its
  place although other writers append to the stream meanwhile. `MarkersAreEarned` and
  `AnswersAreEarned`, for any handlers and collectors on one event and either marker store,
  from `DeliveryInv` about what each program counter implies about the work done.
* **PublicationProofs** - `StateHolds`, `LeasesExclude`, `OnlyHoldersClose`, from
  `PublicationInv`: types and the schema's conditions; claims are told apart by the version
  they were made at (`ClaimsApart`); and who works under a lease that runs has the claim that
  is on record (`Recorded`). The last is the heart: a takeover needs an expired lease, every
  other command that replaces the claim needs the same or comes from the holder, so a second
  working lease would need two claims on one record. That an attempt is never closed twice
  (a publisher whose completion was committed without an answer must not fail it) rests on an
  open claim's being of the attempt that has not ended (`OpenClaim`).
* **ContentItemProofs** - the content item and what works on it.
  `ListingsFollow`: every command ends in `Finish`, whose puts and deletes turn the rows of
  the previous state into those of the next one.
  `SchemaIsKept`, from `ContentHolds`: the schema's cross-field conditions are not inductive
  alone; one needs that times and revisions on record are past ones, that a cleared review
  was closed, and that few slots are active.
  `NothingIsRefused` and `AnsweredMeansConverged`, from `FactsHold` and `ViewsHold`: the facts
  about a target are in the order of their versions, each may follow every earlier one, and
  the last tells the present state; a view is one of these facts; what was answered, or is on
  record as a command, is shown or superseded; and what a worker loaded is no newer than what
  is stored.
  `NoticesAreToldOnce`, from `NoticesHold`: what is stored is stored under its event's name
  once, and what was answered is stored.
  `VerifiedStays` and `AnswersStay`, from `UploadsInv`: a slot only moves forwards (pending,
  then ready or retired), so what a local step read of it stays true in one direction; a put
  creates and never replaces, so the bytes an upload has verified are still there when its
  completion commits; the cleanup only holds candidates that were retired unverified, and
  such a slot can never be verified later. Each needs the others, which is why they form one
  invariant.
  `ContentIsItsOwn`: each composition implements ContentSpec, so that the first two hold in
  all of them.
* **OperationsProofs** - the jobs, and the lab. `PassesAreComplete`, an action property, from
  `PassInv` (theorem `CheckpointsAreSafe`). What is owed is ahead of the checkpoint on record, and a checkpoint
  that may yet reach the record would not pass any of it (`Saves`). Only who still has its
  lease counts: an invocation that lost it holds checkpoints that are not safe, and the
  revision keeps them out. Between the query and the save the candidate of the page is the
  only one behind the next checkpoint, and owed only in the row that was read (`Chosen`).
  `LabIsNeverOrphaned` and `StrangersAreSafe`, from `LabInv`: who is not closed is the session
  that the lock names (`OneSession`), so there is one at most, and what it knows of the lab at
  each step is what nobody else can change (`Relies`) - its manifest is the one on disk once it
  has saved it, a teardown that is past the routing file leaves none, the services and the
  runtimes it has listed for removal are no stranger's, and when it is about to forget the
  manifest nothing owned is left. Strangers come and go meanwhile. One that makes a bucket, a
  queue or a rule after a provisioning has found the names free is not safe, since those
  creations do not fail over a namesake; `ForeignIsUntouched` names this exception, and the
  theorem shows that there is no other.
* **StarterProofs** - `AnswersKeepFitting`, `ListStaysCurrent`, `OwnCommandsAreShown`. From
  `StarterHolds`: a call that is under way has written nothing, a key has a row exactly when
  it has had its event, and no two events share a call or a key; an answer names the request of its event, but for
  the loser of two keyed creations in memory (`Overtaken`). The last theorem adds
  `PagesHold`: a component whose loads did not cross has at most one under way, asked after
  the page's last own command, and a version it was answered with is no older than that.
* **PageProofs** - the browser's pages: `DecisionsAreTaken`, `WhatIsEnteredAtRestIsKept`,
  `ListsAreAsked`, `ListsAreComplete`.
  The first, from `ReviewHolds`: what the page shows was read together with the version it
  names, a decision was offered on a review that was pending in that version, and one that the
  API has refused was refused for a later version or after its own first try.
  The second says nothing of what is typed or kept while a command, a poll or a comparison is
  under way: the code may lose that, as run `kept` shows. From `PageHolds`: while a text is
  entered at rest no session but the editor's is under
  way, no poll runs and no row is on its way that would replace the form (`TextHolds`); while
  a schedule is entered none is under way that would load the page (`TimeHolds`). This is
  inductive only with what every answer, row and poll may bring: once an item was queued it is
  not a draft again (`HistoryHolds`), so a key answered at a publication stands for such an
  item (`ResultsHold`, `CallHolds`), a row in such a state is only met then (`Met`), and a poll
  follows a scheduled row or such an item (`PollHolds`); without these a poll could bring a
  draft under what was typed. A page without an item has sent nothing but creations
  (`NewHolds`), and it is loaded only while the editor rests (`ViewHolds`).
  The lists, from `ListHolds`: a request that is heard is for the list on the screen
  (`AskHolds`), and the rows that stay are divided by how far it has got. What it holds are
  those between the cursor it goes on from and its continuation, each once and in order
  (`AskCovers`), what the screen holds are those up to the screen's cursor (`ScreenCovers`).
  A page of the store moves the division to its last row, which `PageReads` shows; that the
  two parts join is `CoversJoined`; that the map on the page keeps them is `CoversMapped`. An
  edit takes its row out of what stays, and out of nothing else (`CoversEdited`).

The mode of argument is the same in each: `Init => Inv`, one lemma per action or family of
actions for `Inv /\ [Next]_vars => Inv'`, and a temporal step. Every invariant was checked
with TLC on the bounds of the module's run before it was proved.

### Assumptions

What the proofs assume of the constants, beyond their being numbers or finite sets, is stated
in each module and evaluated by the runs.

* `WindowAssumption` (CommandDispatch): an invocation is shorter than a TTL. The applications
  keep a key for seven days and an invocation for half a minute. The code does not enforce
  it: the planner takes any TTL from one second. With TTL = Lifetime = 1 TLC shows what fails
  then: an invocation whose commit took effect without an answer finds its row expired and
  replaced by another input's, and reports `idempotency.conflict` - a definite error - after
  its own effect.
* `NoneAssumption`, `ViewAssumption`, and the parts about `None`, `NoRow`, `NoRecord`,
  `NoEvent`, `NoId` and `NoKey`: an absent value is no value. In the code these are
  `undefined`.
* `ReportAssumption`: no two requests complete in one event: a report is requested once, and
  its completion is committed under a key made of the report's id
  (`apps/report-runs/src/workflow.ts:98`).
* `PumpAssumption`: an event's consumers are a finite set; they are the registrations.
* `LabAssumption`: the services are of the profile's eleven kinds, which is why one of what is
  left comes first in the order of deletion; `Nothing` and the mark of a dead session's lock
  are no session's name.
* `PageAssumption`: the states an item is opened in are contents of the modelled kind, and
  `None` is neither a text nor a row.
* `ListAssumption`: the items are finitely many and ordered, `None` is no row, no place in the
  order and no cursor, and a calendar's range is not empty. A page of the store evaluates at
  least one row.
* `StarterAssumption`: a request has the shape of a command, and a command other than a
  creation names a request: the route does.

### Model-checked only

Liveness, and with it everything about ENABLED, which this proof system does not reach:
CollectionsSettle, EveryEventIsPublished, EveryMessageSettles,
EveryPublicationSettles, EveryDueRowIsProcessed, EveryEventSettles, DownSucceeds, CatchesUp,
StaleInReachIsReminded and EventsSettle. Every safety property of the passing runs is proved.
That every invocation of the dispatch returns is not stated: its recovery polls are counted and
its loop has no other branch back.

## Abstractions to know about

* **Clocks.** Invocations share one clock and capture it once; the skew that matters is the
  captured value's age. FailureLedger adds a skewed clock as a fault. ContentItem has none.
* **Jobs.** `Acquire` is one step although the code reads and then puts: the put's revision
  condition fails if anything came between. A token is the invocation that minted it. The time
  budget always suffices for one candidate, and the lease (30 s) is longer than the budget
  (20 s); an invocation that outlives its lease is a fault.
* **Pump.** Admission of a row is one step (it runs under the lock); `drainUntilIdle` is drain
  repeated. An event with more consumers than the table has places would block the cursor for
  good; the code does not check for it, so EveryEventSettles assumes that the fan-out fits.
* **Servers.** HTTP statuses are ok, refused or unavailable. The content server's jobs run as
  the first part of its tick, and may fail. Its `managed: false` and localstack forms have no
  tick and are left out.
* **Queues.** Retention and the visibility timeout of a running invocation are left out
  (infrastructure sets the latter to several times the function's timeout).
* **Notifications.** Named by event, recipient and template. The DynamoDB sink's steps are
  modelled; the memory sink's are a special case, its full store a call that fails. The
  operation and listing rows are written in the same transaction as the destination.
* **Pages.** One item, list or review per behaviour. The editor may do everything (roles hide
  controls and do not change sessions). Publication phases that look alike to the page are
  merged: running and queued, stalled and expired. The schedule form holds one time value. A
  creation retried with changed text makes a second item, which is not followed further.
* **Lists.** Only the calendar's address carries a cursor of its own; one given-up request may
  still be heard; a budget of two reads stands for the code's 200; the clock moves only for
  the overdue list; activity rows are only appended.
* **Starter.** The local server with its pages, or the reminder and the worker without a page.
  `listProjection` reads one Query page, newest first: at
  least `PageRows` rows, or all of the list when it has fewer; a request that is lost is applied or not at once;
  markers do not expire (14 days); state and activity of a page are read in one step; the
  relay is OutboxRelay's, here at least one message per event.
* **Lab.** Configuration, ports and images are abstracted; a kill, the emulator's death and a
  stranger who takes a name are the faults.
* Authorization, parsing of inputs, formatting and logging are left out unless a property is
  about them.

## Disagreements with the documentation

* **One key, one response** (run `race`). `docs/iterations/001-foundation/technical-design.md`
  says of a lost race for an idempotency record: "re-read it and apply the same comparison
  logic" (:499), and "Same key and same payload hash returns stored response" (:667).
  `InMemoryUnitOfWork.commit` (`packages/core/src/index.ts:713`) returns silently when the
  record has the same fingerprint, and the caller answers with the response it had built. Two
  creations that both pass the lookup are answered with two ids, of which one is stored.
  AnswersFitEffects, which holds, makes an exception of exactly this loser (`Overtaken`).
* **What the user keeps is protected** (run `kept`). `CO/WORKBENCH.md:123` says that dirty text
  blocks attachment mutations and pending media mutations block text changes, and :64 that a
  kept local draft is protected by another 409. `compare()` keeps the comparison that is shown:
  compare twice, use the server's text, receive the second answer late, start an upload, keep
  the local text. Nothing disables the comparison's buttons meanwhile
  (`CO/web/content-detail.ts:92-112`), and the upload's read (`attachment-session.ts:125`)
  resets what was kept. A schedule may go the same way: a submission takes effect but its
  answer is lost, a save conflicts, the text is typed back, the submission is tried again with
  its known key while the user compares, and its load clears the conflict before the comparison
  arrives and is shown. Choosing the server's draft then leaves the page with a draft beside an
  item that is not one: a schedule entered meanwhile is dropped by the next load, and a
  publication whose read fails starts its poll on the draft and replaces what is typed there.
  EnteredAtRestIsKept, which holds, leaves out what is typed or kept while a command, a poll or
  a comparison is under way (`typed.exposed` records it), and takes the choice of a draft for
  giving the schedule up.

## Observations

Reading the code for the models showed some more behaviour that its maintainers may want to
know of. Each was followed in the source.

* **Lab.** Provisioning inspects the names once (`tooling/local-lab/src/providers.ts:45`) and
  then creates. CreateBucket and CreateQueue answer for a namesake in the same account as if
  they had made it, and PutRule and PutTargets update one, so a bucket, a queue or a rule that
  somebody else makes in between is tagged or used as the lab's own, and a teardown removes it.
  `tooling/local-lab/README.md:133` says "A named collision is not adopted even if its owner tag
  happens to match"; that holds of every resource which is there when the names are inspected.
  ForeignIsUntouched names the three kinds as its exception.

* **Report server.** A managed server starts its driver once: a pass that throws ends it,
  health answers 503 from then on, and `close` rejects because stopping the driver rejects -
  before the pending requests and `server.close` have been waited for
  (`apps/report-runs/src/server.ts:423-431`). The promise is memoized, so a second close gives
  the same answer. After the deadline of five seconds the work goes on unwatched.
* **Review page.** The continuation of a load that was given up starts the poll of the old
  review while the new one is being loaded (`CO/web/review-detail.ts:249-251`). If that load
  takes longer than two seconds, the old poll's answer passes the fence of
  `review-session.ts:121` and shows review A under the address of B; the decision itself stays
  guarded by `current()`.
* **Attachments.** `reopen()` loads, and the load drops a selected file without the discard
  guard when a failed upload's read has shown the item in review.
* **Starter.** On DynamoDB the list keeps rows under old sort keys where the in-memory one
  deletes by prefix, so the reminder also reminds of requests that were closed or updated
  since. Its pass reads one Query page of that list, newest first
  (`packages/aws-runtime/src/index.ts:422-446`, no `LastEvaluatedKey`); as rows accumulate, the
  oldest open requests fall behind the page and are never reminded of, which is why
  StaleInReachIsReminded speaks of those within it. The AWS unit of work as shipped has no idempotency option, so every keyed command ends
  as `runtime.unavailable`. On DynamoDB a lost race of two creations with one key
  is `idempotency.conflict`. The Angular
  components do not number their loads: an earlier answer that comes late overwrites a later
  one, and the action dialog may be submitted twice without a key.

ListIsCurrent and OwnCommandIsShown are stated so that they claim what the starter does
promise beside these.

## Hazards

`PROJECT.json` names each with its line and the properties that guard it. In short: races of
invocations of one key, stale versions and lost answers (dispatch); decisions on records that
change underneath (ledger); death between publish and mark (relay); markers that do not lock
(delivery); leases that lapse under their holder (publication, jobs); sort keys that change
(content, starter); reordered and repeated events (materialization, notifications); checks
before an await (uploads); a full job table, and a close beside running work (pump, servers);
a kill between two steps, and strangers' resources (lab); answers that come late and versions
that move under what the user typed or decides on (pages); rows that move between two pages
(lists); partial batches and a bounded scan (starter).

## Not modelled

* **Workflow definitions, resource definitions, registry, manifest** - built and validated at
  start, one value at a time, without state or concurrency.
* **Limits and wire form of a transaction** (`commit-plan.ts`, `compiler.ts`) - checks and a
  translation of one value; the condition of each write is in CommandDispatch.
* **Private reads** (`CO/application/reads.ts`) - item, object, item again, then one
  comparison; the immutability of the bytes it rests on is `VerifiedStays`.
* **Listing of failures, the replay routes of the two servers, the seed, upload and download
  routes** - routing onto operations that are modelled where they live.
* **Notifications of a publication's outcome** - the same path as those of a review, for
  events that the item's facts do not carry.
* **The preview of a committed publication, roles on the item's page, the busy states of the
  operations page** - display without a decision that rests on it.
* **Infrastructure, local AWS bindings, command line tools, seeds, presentation, verification
  scripts** - templates, configuration and sequential scripts; what infrastructure decides
  about behaviour (batch sizes, receive counts, retries) is in the models that depend on it.

## Plan

Done, in this order: dispatch and its promise, ledger, relay, delivery and queue, publication,
content item, materialization, uploads, jobs, pump; then the local lab, the browser's pages,
lists and reviews, the starter and its pages, the two servers around the pump, notifications.

Proofs so far: the dispatch with its promise, the ledger, relay and delivery, publication, the
content item with all that works on it, the pump and its servers, the jobs, the lab, the
starter, and the browser's pages and lists: every safety property that a passing run checks.

What is left of the proofs are the safety halves of the liveness properties: that what is not
finished is somewhere a later step takes it up (a row not published yet ahead of the relay, a
message in the queue or in a running batch, a candidate ahead of a checkpoint). Of the model,
the components that are listed as partly modelled in `PROJECT.json`.
