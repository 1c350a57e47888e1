------------------------------ MODULE ReviewPage ------------------------------
(***************************************************************************)
(* The page of one review: the submitted snapshot and the editor's         *)
(* decision on it.  The page is loaded from two places, the review's own   *)
(* row, which follows the content item late or is not there yet, and the   *)
(* item, which alone decides; it shows the newer of the two and polls the  *)
(* row until it agrees.  Others decide, remind, reopen and submit anew;    *)
(* people follow links between the reviews of an item and change identity  *)
(* while the page is being loaded.                                         *)
(***************************************************************************)
EXTENDS ContentLists

CONSTANTS
  MaxReviews,       \* bound on the reviews of the item
  MaxPast           \* bound on the versions of the item

ASSUME ReviewAssumption == {MaxReviews, MaxPast} \subseteq Nat

Outcomes == {"approved", "changesRequested"}

VARIABLES
  past,         \* the versions of the item: its latest review in each
  models,       \* the row of each review: None, or the snapshot it shows
  desk,         \* what the page shows
  loads,        \* the loading under way, and whether one it gave up is yet to end
  sync,         \* the poll
  decision      \* the decision under way, the key of the last try, one that is late

item == <<past, models>>
reviewVars == <<item, desk, loads, sync, decision>>
-----------------------------------------------------------------------------
NoLoad == [pc |-> "none", id |-> 0, model |-> None, base |-> 0, decided |-> FALSE]
NoSync == [pc |-> "off", id |-> 0, base |-> 0, model |-> None]
NoTry == [id |-> 0, base |-> 0, status |-> None, who |-> None, applied |-> FALSE]
NoDecision == [pc |-> "none", try |-> NoTry, late |-> NoTry]

Latest == past[Len(past)]
IsPending(review) == review # None /\ review.status = "pending"

NoDesk == [asked |-> 0, who |-> None, base |-> 0, review |-> None, syncing |-> FALSE,
           loading |-> FALSE, error |-> FALSE, note |-> FALSE, conflict |-> FALSE]

\* The page of the item's first review, which is open or was replaced.
ReviewInit ==
  /\ LET open(r) == [id |-> r, status |-> "pending", source |-> r]
     IN past \in {<<open(1)>>, <<[open(1) EXCEPT !.status = "superseded"], open(2)>>}
  /\ models = [r \in 1 .. MaxReviews |-> None]
  /\ \E who \in Identities : desk = [NoDesk EXCEPT !.asked = 1, !.who = who, !.loading = TRUE]
  /\ loads = [now |-> [NoLoad EXCEPT !.pc = "model", !.id = 1], given |-> FALSE]
  /\ sync = NoSync
  /\ decision = NoDecision
-----------------------------------------------------------------------------
\* The item, as others and the page's decisions change it.
Versioned(review) ==
  /\ Len(past) < MaxPast
  /\ past' = Append(past, review)

ClosedAs(status) == [Latest EXCEPT !.status = status, !.source = Len(past) + 1]

OthersReview ==
  /\ \/ /\ IsPending(Latest)
        /\ \/ \E status \in Outcomes \cup {"superseded"} : Versioned(ClosedAs(status))
           \/ Versioned(ClosedAs("pending"))
     \/ /\ ~IsPending(Latest) /\ Latest.id < MaxReviews
        /\ Versioned([id |-> Latest.id + 1, status |-> "pending", source |-> Len(past) + 1])
  /\ UNCHANGED <<models, desk, loads, sync, decision>>

\* The row takes any later snapshot of its review.
SourceOf(snapshot) == IF snapshot = None THEN 0 ELSE snapshot.source
Materialize(r) ==
  /\ \E v \in DOMAIN past : /\ past[v].id = r /\ past[v].source > SourceOf(models[r])
                            /\ models' = [models EXCEPT ![r] = past[v]]
  /\ UNCHANGED <<past, desk, loads, sync, decision>>
-----------------------------------------------------------------------------
\* adopt: the item's snapshot of the review, unless the row's is newer.
Adopted(sheet, model, base) ==
  LET current == past[base]
      id == IF model # None THEN model.id
            ELSE IF sheet.review # None THEN sheet.review.id ELSE current.id
      shown == IF current.id = id /\ (model = None \/ current.source >= model.source)
               THEN current ELSE model
  IN [sheet EXCEPT !.review = shown,
                  !.syncing = \/ model = None
                              \/ model.source < shown.source
                              \/ model.status = "pending" /\ current.id # model.id]

\* The component's load: what was under way is given up and the poll stops.
LoadReview(sheet) ==
  /\ desk' = [sheet EXCEPT !.loading = TRUE, !.error = FALSE]
  /\ loads' = [now |-> [NoLoad EXCEPT !.pc = "model", !.id = sheet.asked],
               given |-> loads.given \/ loads.now.pc # "none"]
  /\ sync' = NoSync

\* A link to a review of the item, as its activity has them; a note is given up first.
OpenReview(r) ==
  /\ decision.pc = "none" /\ ~desk.loading /\ ~desk.error
  /\ r # desk.asked /\ r <= Latest.id
  /\ LoadReview([desk EXCEPT !.asked = r, !.note = FALSE])
  /\ UNCHANGED <<item, decision>>

SwitchReviewer(who) ==
  /\ decision.pc = "none" /\ who # desk.who
  /\ LoadReview([desk EXCEPT !.who = who, !.note = FALSE])
  /\ UNCHANGED <<item, decision>>

RefreshReview ==
  /\ decision.pc = "none" /\ ~desk.loading
  /\ LoadReview(desk)
  /\ UNCHANGED <<item, decision>>

\* The row is read, then the item; a missing row is made up for by the item's review.
ReadModel ==
  /\ loads.now.pc = "model"
  /\ loads' = [loads EXCEPT !.now.pc = "item", !.now.model = models[loads.now.id]]
  /\ UNCHANGED <<item, desk, sync, decision>>

ReadItem ==
  /\ loads.now.pc = "item"
  /\ loads' = [loads EXCEPT
       !.now.pc = IF loads.now.model = None /\ Latest.id # loads.now.id THEN "failed" ELSE "read",
       !.now.base = Len(past)]
  /\ UNCHANGED <<item, desk, sync, decision>>

ReviewLoadFails ==
  /\ loads.now.pc \in {"model", "item"} /\ Fault
  /\ loads' = [loads EXCEPT !.now.pc = "failed"]
  /\ UNCHANGED <<item, desk, sync, decision>>

StartSync(on) == sync' = IF on THEN [NoSync EXCEPT !.pc = "timer"] ELSE sync

ReviewLoaded ==
  LET load == loads.now
      shown == Adopted([desk EXCEPT !.review = None, !.base = load.base, !.loading = FALSE,
                                    !.conflict = FALSE], load.model, load.base)
  IN
  /\ load.pc = "read"
  /\ desk' = shown
  /\ StartSync(shown.syncing)
  /\ loads' = [loads EXCEPT !.now = NoLoad]
  /\ decision' = [decision EXCEPT !.try = NoTry]
  /\ UNCHANGED item

\* What follows a decision polls even if its loading failed.
ReviewNotLoaded ==
  /\ loads.now.pc = "failed"
  /\ desk' = [desk EXCEPT !.loading = FALSE, !.error = TRUE]
  /\ StartSync(loads.now.decided /\ desk.syncing)
  /\ loads' = [loads EXCEPT !.now = NoLoad]
  /\ UNCHANGED <<item, decision>>

\* The loading that was given up ends, and starts the poll of what is shown then.
GivenUpEnds ==
  /\ loads.given
  /\ loads' = [loads EXCEPT !.given = FALSE]
  /\ StartSync(desk.syncing /\ ~desk.error)
  /\ UNCHANGED <<item, desk, decision>>
-----------------------------------------------------------------------------
\* The poll asks for the row of the review that is shown when it fires.
SyncFires ==
  /\ sync.pc = "timer"
  /\ sync' = IF desk.review = None \/ ~desk.syncing THEN NoSync
             ELSE [NoSync EXCEPT !.pc = "reading", !.id = desk.review.id, !.base = desk.base]
  /\ UNCHANGED <<item, desk, loads, decision>>

SyncReads ==
  /\ sync.pc = "reading"
  /\ sync' = IF models[sync.id] = None THEN [NoSync EXCEPT !.pc = "timer"]
             ELSE [sync EXCEPT !.pc = "read", !.model = models[sync.id]]
  /\ UNCHANGED <<item, desk, loads, decision>>

\* The row is compared with the item as it was when the poll fired.
SyncAdopts ==
  LET shown == Adopted(desk, sync.model, sync.base) IN
  /\ sync.pc = "read"
  /\ desk' = shown
  /\ sync' = IF shown.syncing THEN [NoSync EXCEPT !.pc = "timer"] ELSE NoSync
  /\ UNCHANGED <<item, loads, decision>>

\* The tab is hidden, or the read fails.
SyncPauses ==
  /\ sync.pc \in {"reading", "read"}
  /\ sync' = [NoSync EXCEPT !.pc = "timer"]
  /\ UNCHANGED <<item, desk, loads, decision>>
-----------------------------------------------------------------------------
\* Seeded fault: any pending review may be decided.
IsCurrent_Any(sheet) == sheet.review # None /\ sheet.base # 0

\* current: what is shown is the review of the item as it was loaded.
IsCurrent(sheet) ==
  /\ sheet.review # None /\ sheet.base # 0
  /\ past[sheet.base].id = sheet.review.id

CanDecide ==
  /\ desk.who \in Editors /\ ~desk.loading /\ ~desk.error
  /\ IsCurrent(desk)
  /\ IsPending(past[desk.base]) /\ IsPending(desk.review)
  /\ desk.review.source <= desk.base

WriteNote ==
  /\ CanDecide /\ decision.pc = "none" /\ ~desk.note
  /\ desk' = [desk EXCEPT !.note = TRUE]
  /\ UNCHANGED <<item, loads, sync, decision>>

DiscardNote ==
  /\ ~CanDecide /\ desk.note
  /\ desk' = [desk EXCEPT !.note = FALSE]
  /\ UNCHANGED <<item, loads, sync, decision>>

\* A decision without a note goes nowhere; the same one is sent under the same key.
DecideReview(status) ==
  LET try == [NoTry EXCEPT !.id = desk.review.id, !.base = desk.base, !.status = status,
                           !.who = desk.who]
      again == [decision.try EXCEPT !.applied = FALSE] = try
  IN
  /\ CanDecide /\ desk.note /\ decision.pc = "none" /\ ~desk.conflict
  /\ decision' = [decision EXCEPT !.pc = "sent", !.try = IF again THEN @ ELSE try]
  /\ sync' = NoSync
  /\ UNCHANGED <<item, desk, loads>>

\* The item takes a decision of its pending review at its present version, once.
Takes(try) == /\ try.base = Len(past)
              /\ Latest.id = try.id /\ IsPending(Latest)

ExecuteDecision ==
  LET try == decision.try IN
  /\ decision.pc = "sent"
  /\ \/ /\ try.applied
        /\ decision' = [decision EXCEPT !.pc = "ok"] /\ UNCHANGED past
     \/ /\ ~try.applied /\ Takes(try)
        /\ Versioned(ClosedAs(try.status))
        /\ decision' = [decision EXCEPT !.pc = "ok", !.try.applied = TRUE]
     \/ /\ ~try.applied /\ ~Takes(try)
        /\ decision' = [decision EXCEPT !.pc = "conflict"] /\ UNCHANGED past
  /\ UNCHANGED <<models, desk, loads, sync>>

\* The answer is lost; a command that was not executed yet may be executed later.
LoseDecision ==
  /\ decision.pc \in {"sent", "ok", "conflict"} /\ Fault
  /\ decision' = [decision EXCEPT !.pc = "none",
                    !.late = IF decision.pc = "sent" THEN decision.try ELSE @]
  /\ StartSync(desk.syncing)
  /\ UNCHANGED <<item, desk, loads>>

ExecuteLateDecision ==
  LET try == decision.late IN
  /\ try # NoTry
  /\ IF Takes(try) THEN Versioned(ClosedAs(try.status)) ELSE UNCHANGED past
  /\ decision' = [decision EXCEPT !.late = NoTry,
                    !.try.applied = @ \/ (Takes(try) /\ decision.try = try)]
  /\ UNCHANGED <<models, desk, loads, sync>>

\* The session's load follows a recorded decision.
DecisionRecorded ==
  /\ decision.pc = "ok"
  /\ desk' = [desk EXCEPT !.note = FALSE, !.loading = TRUE, !.error = FALSE]
  /\ loads' = [loads EXCEPT !.now = [NoLoad EXCEPT !.pc = "model", !.id = decision.try.id,
                                                   !.decided = TRUE]]
  /\ decision' = [decision EXCEPT !.pc = "none"]
  /\ UNCHANGED <<item, sync>>

DecisionRefused ==
  /\ decision.pc = "conflict"
  /\ desk' = [desk EXCEPT !.conflict = TRUE]
  /\ StartSync(desk.syncing)
  /\ decision' = [decision EXCEPT !.pc = "none"]
  /\ UNCHANGED <<item, loads>>
-----------------------------------------------------------------------------
Reviewer ==
  \/ \E r \in 1 .. MaxReviews : OpenReview(r)
  \/ \E who \in Identities : SwitchReviewer(who)
  \/ RefreshReview \/ WriteNote \/ DiscardNote
  \/ \E status \in Outcomes : DecideReview(status)

ReviewStep ==
  \/ Reviewer
  \/ OthersReview \/ \E r \in 1 .. MaxReviews : Materialize(r)
  \/ ReadModel \/ ReadItem \/ ReviewLoaded \/ ReviewNotLoaded \/ GivenUpEnds
  \/ SyncFires \/ SyncReads \/ SyncAdopts \/ SyncPauses
  \/ ExecuteDecision \/ ExecuteLateDecision \/ DecisionRecorded \/ DecisionRefused

ReviewNext ==
  \/ ReviewStep /\ UNCHANGED faults
  \/ ReviewLoadFails \/ LoseDecision

ReviewSpec == ReviewInit /\ faults = 0 /\ [][ReviewNext]_<<reviewVars, faults>>
-----------------------------------------------------------------------------
\* A decision that the page offers is refused only when the item has changed since the
\* page read it, and never for the sake of its own first try: whatever the row, the
\* polls, links and loadings given up make of the review that is shown.
RefusedWhenChanged ==
  decision.pc = "conflict" => Len(past) > decision.try.base /\ ~decision.try.applied

=============================================================================
