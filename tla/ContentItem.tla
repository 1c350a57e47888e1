----------------------------- MODULE ContentItem -----------------------------
(***************************************************************************)
(* The editorial life of one content item: draft, review, approval,        *)
(* schedule, request of a publication, archive, and the upload slots of    *)
(* its attachments.  A command names the version its caller saw, so it     *)
(* acts on that state or not at all (CommandDispatch): one command is one  *)
(* atomic step, and a command whose identity, input or version is refused  *)
(* changes nothing.  Publication models what lies between the request of   *)
(* a publication and its completion.                                       *)
(***************************************************************************)
EXTENDS Naturals, FiniteSets

CONSTANTS
  Assets,           \* slots an item retains (32)
  Digests,          \* contents an attachment can have
  ActiveAssets,     \* slots that may be pending or ready at once (10)
  UploadLifetime,   \* how long a slot waits for its upload (1 hour)
  Day,              \* clock ticks of a UTC day
  MaxVersion,       \* bound on the commands of a run
  MaxTime,          \* bound on the clock
  None              \* no review, approval, schedule or publication

ASSUME ContentAssumption ==
  /\ IsFiniteSet(Assets)
  /\ {UploadLifetime, Day} \subseteq Nat \ {0}
  /\ {ActiveAssets, MaxVersion, MaxTime} \subseteq Nat

VARIABLES
  clock,
  item,     \* the content item
  rows,     \* its rows in the listings: the lists, the calendar, what is due
  facts     \* the events its commands wrote that a worker subscribes to

contentVars == <<clock, item, rows, facts>>
-----------------------------------------------------------------------------
Statuses == {"absent", "draft", "inReview", "approved", "scheduled", "publishing",
             "published", "archived"}
\* The lifecycle states that need an editor's signoff.
SignedOff == {"approved", "scheduled", "publishing", "published"}

\* The values a state is made of.
Slots ==
  [status : {"none", "pending", "ready", "removed", "expired"}, registeredAt : Nat,
   verified : Digests \cup {None}, retiredAt : Nat, source : Nat]
Submissions == [revision : Nat, attachments : SUBSET Assets, at : Nat]
Reviews ==
  [id : Nat, dueAt : Nat, status : {"pending", "approved", "changesRequested", "superseded"},
   source : Nat, decidedAt : Nat \cup {None}, reminded : Nat, submitted : Submissions]
Approvals == [review : Nat, revision : Nat, at : Nat]
Schedules == [at : Nat, generation : Nat, revision : Nat]
Publications ==
  [id : Nat, snapshot : Submissions, approval : Approvals, schedule : Schedules \cup {None}]

ASSUME NoneAssumption ==
  None \notin Nat \cup Digests \cup Reviews \cup Approvals \cup Schedules \cup Publications

EmptySlot ==
  [status |-> "none", registeredAt |-> 0, verified |-> None, retiredAt |-> 0, source |-> 0]

ContentInit ==
  /\ clock = 0
  /\ item = [version |-> 0, status |-> "absent", revision |-> 0, review |-> None,
             approval |-> None, schedule |-> None, publication |-> None,
             slots |-> [a \in Assets |-> EmptySlot]]
  /\ rows = {}
  /\ facts = {}

Tick ==
  /\ clock < MaxTime
  /\ clock' = clock + 1
  /\ UNCHANGED <<item, rows, facts>>

\* An id minted by a command is named by the version the command writes.
Fresh == item.version + 1
DayOf(instant) == instant \div Day + 1

Active(slot) == slot.status \in {"pending", "ready"}
Retired(slot) == slot.status \in {"removed", "expired"}
InStatus(status) == {a \in Assets : item.slots[a].status = status}
ExpiresAt(slot) == slot.registeredAt + UploadLifetime

\* What a fact is about, the version that wrote it and the snapshot it carries.
Fact(type, target, snapshot) ==
  [type |-> type, target |-> target, source |-> Fresh, snapshot |-> snapshot]
ReviewFact(type, review) == Fact(type, <<"review", review.id>>, review)
AssetFact(type, a, slot) == Fact(type, <<"asset", a>>, slot)

-----------------------------------------------------------------------------
\* contentRows: the rows a state has, each under a name and a sort key, with the
\* version it shows.
Row(state, name, sort) == [name |-> name, sort |-> sort, version |-> state.version]
StatusRow(state) == Row(state, state.status, <<0>>)
ListRow(state) == Row(state, "list", <<0>>)
DueReviewRows(state) ==
  IF state.status = "inReview" THEN {Row(state, "dueReview", <<state.review.dueAt>>)} ELSE {}
ScheduleRows(state) ==
  IF state.schedule = None THEN {}
  ELSE {Row(state, name, <<state.schedule.at>>) : name \in {"calendar", "duePublication"}}
UploadRows(state) ==
  {Row(state, "expiringUploads", <<ExpiresAt(state.slots[a]), a>>) :
     a \in {a \in Assets : state.status = "draft" /\ state.slots[a].status = "pending"}}
OrphanRows(state) ==
  {Row(state, "orphanAssets", <<state.slots[a].retiredAt, a>>) :
     a \in {a \in Assets : Retired(state.slots[a]) /\ state.slots[a].verified = None}}
ContentRows(state) ==
  IF state.status = "absent" THEN {}
  ELSE IF state.status = "archived" THEN {StatusRow(state)}
  ELSE {StatusRow(state), ListRow(state)} \cup DueReviewRows(state)
         \cup ScheduleRows(state) \cup UploadRows(state) \cup OrphanRows(state)

\* Seeded fault: a row counts as moved only when its listing has no new row.
Leaves_SameListing(old, new) == \A row \in new : row.name # old.name

\* moves: an old row is deleted unless a new one has its key.
Leaves(old, new) == \A row \in new : row.name # old.name \/ row.sort # old.sort

\* What the listing table holds once the plan is written: a put replaces its key.
Written(previous, new) ==
  LET deleted == {old \in previous : Leaves(old, new)}
      gone(row) == \E old \in deleted : old.name = row.name /\ old.sort = row.sort
      replaced(row) == \E put \in new : put.name = row.name /\ put.sort = row.sort
  IN {row \in rows : ~gone(row) /\ ~replaced(row)} \cup new

\* finish: the next state under the next version, its listing rows and its facts.
Finish(next, new) ==
  /\ item.version < MaxVersion
  /\ item' = [next EXCEPT !.version = Fresh]
  /\ rows' = Written(ContentRows(item), ContentRows([next EXCEPT !.version = Fresh]))
  /\ facts' = facts \cup new
  /\ UNCHANGED clock
-----------------------------------------------------------------------------
Create ==
  /\ item.status = "absent"
  /\ Finish([item EXCEPT !.status = "draft", !.revision = Fresh], {})

\* A save that changes neither title nor body keeps the revision.
EditDraft ==
  /\ item.status = "draft"
  /\ \E revision \in {item.revision, Fresh} :
       Finish([item EXCEPT !.revision = revision], {})

\* Seeded fault: a draft is submitted while an upload is pending.
Submittable_Pending == item.status = "draft"

Submittable == item.status = "draft" /\ InStatus("pending") = {}

Submit(dueAt) ==
  /\ Submittable
  /\ dueAt > clock
  /\ LET review ==
           [id |-> Fresh, dueAt |-> dueAt, status |-> "pending", source |-> Fresh,
            decidedAt |-> None, reminded |-> 0,
            submitted |-> [revision |-> item.revision, attachments |-> InStatus("ready"),
                           at |-> clock]]
     IN Finish([item EXCEPT !.status = "inReview", !.review = review],
               {ReviewFact("reviewRequested", review)})

\* Once per UTC day, when the review is due.
RecordReviewReminder ==
  /\ item.status = "inReview"
  /\ item.review.dueAt <= clock /\ item.review.reminded < DayOf(clock)
  /\ LET review == [item.review EXCEPT !.reminded = DayOf(clock), !.source = Fresh]
     IN Finish([item EXCEPT !.review = review], {ReviewFact("reviewReminderRecorded", review)})

Approve ==
  /\ item.status = "inReview"
  /\ LET review == [item.review EXCEPT !.status = "approved", !.source = Fresh,
                                       !.decidedAt = clock]
     IN Finish([item EXCEPT !.status = "approved", !.review = review,
                            !.approval = [review |-> review.id, revision |-> item.revision,
                                          at |-> clock]],
               {ReviewFact("reviewDecided", review)})

RequestChanges ==
  /\ item.status = "inReview"
  /\ LET review == [item.review EXCEPT !.status = "changesRequested", !.source = Fresh,
                                       !.decidedAt = clock]
     IN Finish([item EXCEPT !.status = "draft", !.review = review, !.approval = None],
               {ReviewFact("reviewDecided", review)})

\* supersede: a pending review is closed by what ends it, a decided one stays.
Pending == item.review # None /\ item.review.status = "pending"
Superseded ==
  IF Pending
  THEN [item.review EXCEPT !.status = "superseded", !.source = Fresh, !.decidedAt = clock]
  ELSE item.review

\* Seeded fault: the review is closed and nobody is told.
SupersededFacts_None == {}

SupersededFacts == IF Pending THEN {ReviewFact("reviewSuperseded", Superseded)} ELSE {}

Reopened ==
  [item EXCEPT !.status = "draft", !.revision = Fresh, !.review = Superseded,
               !.approval = None, !.schedule = None]

ReopenDraft ==
  /\ item.status \in {"inReview", "approved", "scheduled"}
  /\ Finish(Reopened, SupersededFacts)

\* A publication under way cannot be archived.
Archive ==
  /\ item.status \in {"draft", "inReview", "approved", "scheduled", "published"}
  /\ Finish([item EXCEPT !.status = "archived", !.review = Superseded, !.schedule = None],
            SupersededFacts)
-----------------------------------------------------------------------------
ScheduleFor(at) == [at |-> at, generation |-> Fresh, revision |-> item.revision]

\* schedule and reschedule: the second mints a generation of its own.
Schedule(at) ==
  /\ item.status \in {"approved", "scheduled"}
  /\ at > clock
  /\ Finish([item EXCEPT !.status = "scheduled", !.schedule = ScheduleFor(at)], {})

CancelSchedule ==
  /\ item.status = "scheduled"
  /\ Finish([item EXCEPT !.status = "approved", !.schedule = None], {})

\* The request takes the review's snapshot, its approval and its schedule along.
RequestPublication ==
  LET publication ==
        [id |-> Fresh, snapshot |-> item.review.submitted, approval |-> item.approval,
         schedule |-> item.schedule]
  IN Finish([item EXCEPT !.status = "publishing", !.schedule = None,
                         !.publication = publication], {})

PublishNow == item.status \in {"approved", "scheduled"} /\ RequestPublication

RequestDuePublication ==
  /\ item.status = "scheduled" /\ item.schedule.at <= clock
  /\ RequestPublication

\* completePublication, seen from the editorial life.
CompletePublication ==
  /\ item.status = "publishing"
  /\ Finish([item EXCEPT !.status = "published"], {})
-----------------------------------------------------------------------------
WithSlot(a, slot) == [item EXCEPT !.slots[a] = slot]

\* Every slot ever registered stays on the item.
RegisterAsset(a) ==
  /\ item.status = "draft" /\ item.slots[a].status = "none"
  /\ Cardinality({b \in Assets : Active(item.slots[b])}) < ActiveAssets
  /\ LET slot == [EmptySlot EXCEPT !.status = "pending", !.registeredAt = clock,
                                   !.source = Fresh]
     IN Finish([WithSlot(a, slot) EXCEPT !.revision = Fresh],
               {AssetFact("assetRegistered", a, slot)})

MayComplete(a) ==
  /\ item.status = "draft" /\ item.slots[a].status = "pending"
  /\ clock < ExpiresAt(item.slots[a])

CompleteUpload(a, digest) ==
  /\ MayComplete(a)
  /\ LET slot == [item.slots[a] EXCEPT !.status = "ready", !.verified = digest,
                                       !.source = Fresh]
     IN Finish(WithSlot(a, slot), {AssetFact("assetReady", a, slot)})

\* Seeded fault: retiring a slot drops what was verified.
RetiredSlot_Unverified(slot, status) ==
  [slot EXCEPT !.status = status, !.retiredAt = clock, !.source = Fresh, !.verified = None]

RetiredSlot(slot, status) ==
  [slot EXCEPT !.status = status, !.retiredAt = clock, !.source = Fresh]

RemoveAsset(a) ==
  /\ item.status = "draft" /\ Active(item.slots[a])
  /\ LET slot == RetiredSlot(item.slots[a], "removed")
     IN Finish([WithSlot(a, slot) EXCEPT !.revision = Fresh],
               {AssetFact("assetRemoved", a, slot)})

ExpireAsset(a) ==
  /\ item.status = "draft" /\ item.slots[a].status = "pending"
  /\ clock >= ExpiresAt(item.slots[a])
  /\ LET slot == RetiredSlot(item.slots[a], "expired")
     IN Finish([WithSlot(a, slot) EXCEPT !.revision = Fresh],
               {AssetFact("assetExpired", a, slot)})
-----------------------------------------------------------------------------
ReviewCommand ==
  \/ \E dueAt \in 1 .. MaxTime : Submit(dueAt)
  \/ RecordReviewReminder
  \/ Approve
  \/ RequestChanges
PublicationCommand ==
  \/ \E at \in 1 .. MaxTime : Schedule(at)
  \/ CancelSchedule
  \/ PublishNow
  \/ RequestDuePublication
  \/ CompletePublication
AssetCommand ==
  \E a \in Assets :
    \/ RegisterAsset(a)
    \/ \E digest \in Digests : CompleteUpload(a, digest)
    \/ RemoveAsset(a)
    \/ ExpireAsset(a)

Command ==
  \/ Create \/ EditDraft \/ ReopenDraft \/ Archive
  \/ ReviewCommand
  \/ PublicationCommand
  \/ AssetCommand

ContentNext == Tick \/ Command
ContentSpec == ContentInit /\ [][ContentNext]_contentVars
-----------------------------------------------------------------------------
\* assetSlotSchema: what is verified or retired shows it, and never at a wrong time.
SlotHolds(slot) ==
  /\ slot.status = "ready" => slot.verified # None
  /\ slot.status \in {"pending", "expired"} => slot.verified = None
  /\ slot.status = "expired" => slot.retiredAt >= ExpiresAt(slot)
  /\ Retired(slot) => slot.retiredAt >= slot.registeredAt
  /\ slot.source <= item.version

\* reviewTaskStateSchema: an outcome exactly when closed, and reminders only between
\* the day the review is due and the day it is decided.
ReviewHolds(review) ==
  /\ review.dueAt > review.submitted.at
  /\ (review.status = "pending") = (review.decidedAt = None)
  /\ review.decidedAt # None => review.decidedAt >= review.submitted.at
  /\ review.reminded # 0 =>
       /\ review.reminded >= DayOf(review.dueAt)
       /\ review.decidedAt # None => review.reminded <= DayOf(review.decidedAt)
  /\ review.source <= item.version

\* The current content is the one that was submitted.
MatchesSubmission ==
  /\ item.review # None
  /\ item.review.submitted.revision = item.revision
  /\ item.review.submitted.attachments = InStatus("ready")
  /\ InStatus("pending") = {}

\* Every state the commands write is one contentStateSchema accepts: finish never
\* turns a command the rules allow into a validation failure, and no later read
\* finds an unreadable item.  Review, approval, schedule and publication agree
\* with each other and with the content they speak of.
ContentSchema ==
  /\ \A a \in Assets : SlotHolds(item.slots[a])
  /\ Cardinality({a \in Assets : Active(item.slots[a])}) <= ActiveAssets
  /\ item.review # None => ReviewHolds(item.review)
  /\ (item.status = "inReview") = Pending
  /\ item.status \in SignedOff => item.approval # None /\ item.review.status = "approved"
  /\ item.status \in {"draft", "inReview"} => item.approval = None
  /\ item.status \in SignedOff \cup {"inReview"} \/ item.publication # None => MatchesSubmission
  /\ item.approval # None =>
       /\ item.review # None /\ item.review.status = "approved"
       /\ item.approval = [review |-> item.review.id, revision |-> item.revision,
                           at |-> item.review.decidedAt]
       /\ item.approval.revision = item.review.submitted.revision
  /\ (item.status = "scheduled") = (item.schedule # None)
  /\ item.schedule # None => item.schedule.revision = item.revision
  /\ item.status \in {"publishing", "published"} => item.publication # None
  /\ item.publication # None =>
       /\ item.status \in {"publishing", "published", "archived"}
       /\ item.publication.snapshot = item.review.submitted
       /\ item.publication.approval = item.approval

\* The listings hold the rows of the current state, at its version, and no other:
\* a job that scans what is due finds every item that is, and no row survives the
\* schedule, the review or the slot it spoke of.
ListingsAreCurrent == rows = ContentRows(item)
=============================================================================
