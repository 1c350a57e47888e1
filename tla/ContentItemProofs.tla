-------------------------- MODULE ContentItemProofs --------------------------
(***************************************************************************)
(* What holds of one content item, of the views and notifications made of  *)
(* its events and of the objects uploaded for it, for every number of      *)
(* attachments, workers and uploads, every lifetime and every length of    *)
(* its history.                                                            *)
(***************************************************************************)
EXTENDS Notifications, Uploads, FiniteSetTheorems, TLAPS

\* moves deletes what leaves and puts what stays: written over the rows of the
\* previous state, the plan leaves the rows of the next one and nothing else.
LEMMA PlanReplaces ==
  ASSUME NEW previous, NEW new, rows = previous
  PROVE  Written(previous, new) = new
  BY DEF Written, Leaves

LEMMA FinishLists ==
  ASSUME NEW next, NEW new, Finish(next, new), ListingsAreCurrent
  PROVE  ListingsAreCurrent'
<1>1. rows = ContentRows(item)
  BY DEF ListingsAreCurrent
<1>2. rows' = ContentRows([next EXCEPT !.version = Fresh])
  BY <1>1, PlanReplaces DEF Finish
<1>3. item' = [next EXCEPT !.version = Fresh]
  BY DEF Finish
<1>4. rows' = ContentRows(item')
  BY <1>2, <1>3
<1> QED
  BY <1>4 DEF ListingsAreCurrent, ContentRows, StatusRow, ListRow, DueReviewRows,
     ScheduleRows, UploadRows, OrphanRows, Row, ExpiresAt, Retired

\* Every command ends in one plan and one version.
LEMMA CommandFinishes ==
  ASSUME Command
  PROVE  \E next, new : Finish(next, new)
<1>1. CASE Create
  BY <1>1 DEF Create
<1>2. CASE EditDraft
  BY <1>2 DEF EditDraft
<1>3. CASE ReopenDraft
  BY <1>3 DEF ReopenDraft
<1>4. CASE Archive
  BY <1>4 DEF Archive
<1>5. CASE ReviewCommand
  <2>1. CASE \E dueAt \in 1 .. MaxTime : Submit(dueAt)
    BY <2>1 DEF Submit
  <2>2. CASE RecordReviewReminder
    BY <2>2 DEF RecordReviewReminder
  <2>3. CASE Approve
    BY <2>3 DEF Approve
  <2>4. CASE RequestChanges
    BY <2>4 DEF RequestChanges
  <2> QED
    BY <1>5, <2>1, <2>2, <2>3, <2>4 DEF ReviewCommand
<1>6. CASE PublicationCommand
  <2>1. CASE \E at \in 1 .. MaxTime : Schedule(at)
    BY <2>1 DEF Schedule
  <2>2. CASE CancelSchedule
    BY <2>2 DEF CancelSchedule
  <2>3. CASE PublishNow \/ RequestDuePublication
    BY <2>3 DEF PublishNow, RequestDuePublication, RequestPublication
  <2>4. CASE CompletePublication
    BY <2>4 DEF CompletePublication
  <2> QED
    BY <1>6, <2>1, <2>2, <2>3, <2>4 DEF PublicationCommand
<1>7. CASE AssetCommand
  <2>1. PICK a \in Assets : \/ RegisterAsset(a)
                            \/ \E digest \in Digests : CompleteUpload(a, digest)
                            \/ RemoveAsset(a)
                            \/ ExpireAsset(a)
    BY <1>7 DEF AssetCommand
  <2>2. CASE RegisterAsset(a)
    BY <2>2 DEF RegisterAsset
  <2>3. CASE \E digest \in Digests : CompleteUpload(a, digest)
    BY <2>3 DEF CompleteUpload
  <2>4. CASE RemoveAsset(a)
    BY <2>4 DEF RemoveAsset
  <2>5. CASE ExpireAsset(a)
    BY <2>5 DEF ExpireAsset
  <2> QED
    BY <2>1, <2>2, <2>3, <2>4, <2>5
<1> QED
  BY <1>1, <1>2, <1>3, <1>4, <1>5, <1>6, <1>7 DEF Command

\* In every history the listings hold exactly the rows of the current state: a job
\* that scans what is due neither misses an item nor finds one that moved.
THEOREM ListingsFollow == ContentSpec => []ListingsAreCurrent
<1>1. ContentInit => ListingsAreCurrent
  BY DEF ContentInit, ListingsAreCurrent, ContentRows
<1>2. ListingsAreCurrent /\ [ContentNext]_contentVars => ListingsAreCurrent'
  <2> SUFFICES ASSUME ListingsAreCurrent, [ContentNext]_contentVars
               PROVE  ListingsAreCurrent'
    OBVIOUS
  <2>1. CASE Command
    BY <2>1, CommandFinishes, FinishLists
  <2>2. CASE UNCHANGED <<item, rows>>
    BY <2>2 DEF ListingsAreCurrent, ContentRows, StatusRow, ListRow, DueReviewRows,
       ScheduleRows, UploadRows, OrphanRows, Row, ExpiresAt, Retired
  <2> QED
    BY <2>1, <2>2 DEF ContentNext, Tick, contentVars
<1> QED
  BY <1>1, <1>2, PTL DEF ContentSpec
-----------------------------------------------------------------------------
(* The schema of a state.  ContentSchema is not inductive: it bounds a time *)
(* by a later one, and only the clock says which is later; and it says      *)
(* nothing of what has no value yet.                                        *)

Items ==
  [version : Nat, status : Statuses, revision : Nat, review : Reviews \cup {None},
   approval : Approvals \cup {None}, schedule : Schedules \cup {None},
   publication : Publications \cup {None}, slots : [Assets -> Slots]]
ContentTypeOK == clock \in Nat /\ item \in Items

SlotsHold ==
  \A a \in Assets : SlotHolds(item.slots[a]) /\ item.slots[a].registeredAt <= clock
FewActive == Cardinality({a \in Assets : Active(item.slots[a])}) <= ActiveAssets

InTime(review) == review.submitted.at <= clock /\ review.reminded <= DayOf(clock)
ReviewFits == item.review # None => ReviewHolds(item.review) /\ InTime(item.review)

ApprovalFits ==
  /\ item.review # None /\ item.review.status = "approved"
  /\ item.approval = [review |-> item.review.id, revision |-> item.revision,
                      at |-> item.review.decidedAt]
  /\ item.approval.revision = item.review.submitted.revision
PublicationFits ==
  /\ item.status \in {"publishing", "published", "archived"}
  /\ item.publication.snapshot = item.review.submitted
  /\ item.publication.approval = item.approval

\* Review, approval, schedule and publication agree in every status.
Agreement ==
  /\ (item.status = "inReview") = Pending
  /\ item.status \in SignedOff => item.approval # None /\ item.review.status = "approved"
  /\ item.status \in {"absent", "draft", "inReview"} => item.approval = None
  /\ item.status \in SignedOff \cup {"inReview"} \/ item.publication # None => MatchesSubmission
  /\ item.approval # None => ApprovalFits
  /\ (item.status = "scheduled") = (item.schedule # None)
  /\ item.schedule # None => item.schedule.revision = item.revision
  /\ item.status \in {"publishing", "published"} => item.publication # None
  /\ item.publication # None => PublicationFits

ContentHolds == ContentTypeOK /\ SlotsHold /\ FewActive /\ ReviewFits /\ Agreement

LEMMA HoldsImpliesSchema == ContentHolds => ContentSchema
BY DEF ContentHolds, ContentSchema, SlotsHold, FewActive, ReviewFits, Agreement,
       ApprovalFits, PublicationFits
-----------------------------------------------------------------------------
(* Values and times.                                                       *)

LEMMA NoneIsNoValue ==
  /\ None \notin Nat /\ None \notin Digests /\ None \notin Reviews
  /\ None \notin Approvals /\ None \notin Schedules /\ None \notin Publications
BY NoneAssumption

LEMMA Days ==
  ASSUME NEW i \in Nat, NEW j \in Nat, i <= j
  PROVE  DayOf(i) \in Nat /\ DayOf(i) # 0 /\ DayOf(i) <= DayOf(j)
BY ContentAssumption DEF DayOf

LEMMA FinishFields ==
  ASSUME ContentTypeOK, NEW next \in Items, NEW new, Finish(next, new)
  PROVE  /\ ContentTypeOK' /\ clock' = clock /\ facts' = facts \cup new
         /\ item'.version = item.version + 1
         /\ item.version <= item'.version /\ clock <= clock'
         /\ item'.status = next.status /\ item'.revision = next.revision
         /\ item'.review = next.review /\ item'.approval = next.approval
         /\ item'.schedule = next.schedule /\ item'.publication = next.publication
         /\ item'.slots = next.slots
<1>1. item' = [next EXCEPT !.version = item.version + 1]
  BY DEF Finish, Fresh
<1>2. item.version + 1 \in Nat
  BY DEF ContentTypeOK, Items
<1>. QED
  BY <1>1, <1>2 DEF ContentTypeOK, Items, Finish

\* What a command leaves alone stays as good as it was.
LEMMA SlotsStay ==
  ASSUME ContentTypeOK, SlotsHold, FewActive, ContentTypeOK', item'.slots = item.slots,
         item.version <= item'.version, clock <= clock'
  PROVE  SlotsHold' /\ FewActive'
<1>1. ASSUME NEW a \in Assets
      PROVE  (SlotHolds(item.slots[a]) /\ item.slots[a].registeredAt <= clock)'
  <2>1. /\ SlotHolds(item.slots[a]) /\ item.slots[a].registeredAt <= clock
        /\ item'.slots[a] = item.slots[a]
    BY DEF SlotsHold
  <2>2. /\ item.slots[a].source \in Nat /\ item.slots[a].registeredAt \in Nat
        /\ item.version \in Nat /\ item'.version \in Nat /\ clock \in Nat /\ clock' \in Nat
    BY DEF ContentTypeOK, Items, Slots
  <2>. QED
    BY <2>1, <2>2 DEF SlotHolds, ExpiresAt, Retired
<1>. QED
  BY <1>1 DEF SlotsHold, FewActive, Active

LEMMA ReviewStays ==
  ASSUME ContentTypeOK, ReviewFits, ContentTypeOK', item'.review = item.review,
         item.version <= item'.version, clock <= clock'
  PROVE  ReviewFits'
<1>1. SUFFICES ASSUME item.review # None
               PROVE  (ReviewHolds(item.review) /\ InTime(item.review))'
  BY DEF ReviewFits
<1>2. /\ item.review \in Reviews /\ ReviewHolds(item.review) /\ InTime(item.review)
      /\ item.version \in Nat /\ item'.version \in Nat /\ clock \in Nat /\ clock' \in Nat
  BY <1>1 DEF ReviewFits, ContentTypeOK, Items
<1>3. DayOf(clock) <= DayOf(clock') /\ DayOf(clock) \in Nat /\ DayOf(clock') \in Nat
  BY <1>2, Days
<1>4. item.review.source \in Nat /\ item.review.submitted.at \in Nat /\ item.review.reminded \in Nat
  BY <1>2 DEF Reviews, Submissions
<1>5. InTime(item.review)'
  BY <1>2, <1>3, <1>4 DEF InTime, DayOf
<1>6. ReviewHolds(item.review)'
  BY <1>2, <1>4 DEF ReviewHolds, DayOf
<1>. QED
  BY <1>5, <1>6
-----------------------------------------------------------------------------
(* What a command does to the slots and the review it tells nothing of, or  *)
(* tells in one fact: the snapshot the fact carries is what it leaves.      *)

Quiet == facts' = facts /\ item'.slots = item.slots /\ item'.review = item.review

FactTypes ==
  {"reviewRequested", "reviewReminderRecorded", "reviewDecided", "reviewSuperseded",
   "assetRegistered", "assetReady", "assetRemoved", "assetExpired"}

SlotStep(a) ==
  /\ item'.review = item.review
  /\ \A b \in Assets \ {a} : item'.slots[b] = item.slots[b]
  /\ \E type \in FactTypes : facts' = facts \cup {AssetFact(type, a, item'.slots[a])}
  /\ item'.slots[a].source = Fresh /\ item'.slots[a].status # "none"
  /\ item.slots[a].status = "none" \/ MayFollowAsset(item.slots[a], item'.slots[a])

ReviewStep ==
  /\ item'.slots = item.slots /\ item'.review # None
  /\ \E type \in FactTypes : facts' = facts \cup {ReviewFact(type, item'.review)}
  /\ item'.review.source = Fresh
  /\ \/ ~Pending /\ item'.review.id = Fresh
     \/ /\ Pending /\ item'.review.id = item.review.id
        /\ MayFollowReview(item.review, item'.review)

Moves == Quiet \/ ReviewStep \/ \E a \in Assets : SlotStep(a)
-----------------------------------------------------------------------------
(* The commands that leave the slots and the review alone.                 *)

LEMMA CreateHolds == ASSUME ContentHolds, Create PROVE  ContentHolds' /\ Quiet
<1>1. SUFFICES ASSUME NEW next, next = [item EXCEPT !.status = "draft", !.revision = Fresh]
              PROVE  ContentHolds' /\ Quiet
  OBVIOUS
<1>2. Finish(next, {}) /\ ContentTypeOK /\ item \in Items /\ Fresh \in Nat
  BY <1>1 DEF Create, ContentHolds, ContentTypeOK, Items, Fresh
<1>3. /\ next \in Items
      /\ next.status = "draft" /\ next.review = item.review /\ next.approval = item.approval
      /\ next.schedule = item.schedule /\ next.publication = item.publication
      /\ next.slots = item.slots
  BY <1>1, <1>2 DEF Items, Statuses
<1>4. Agreement'
  BY <1>2, <1>3, FinishFields
  DEF ContentHolds, Agreement, Create, SignedOff, Pending, PublicationFits
<1>. QED
  BY <1>2, <1>3, <1>4, FinishFields, SlotsStay, ReviewStays
  DEF ContentHolds, Quiet

LEMMA EditDraftHolds == ASSUME ContentHolds, EditDraft PROVE  ContentHolds' /\ Quiet
<1>1. PICK revision \in {item.revision, Fresh} :
        Finish([item EXCEPT !.revision = revision], {})
  BY DEF EditDraft
<1>2. SUFFICES ASSUME NEW next, next = [item EXCEPT !.revision = revision]
              PROVE  ContentHolds' /\ Quiet
  OBVIOUS
<1>3. Finish(next, {}) /\ ContentTypeOK /\ item \in Items /\ revision \in Nat
  BY <1>1, <1>2 DEF ContentHolds, ContentTypeOK, Items, Fresh
<1>4. /\ next \in Items
      /\ next.status = item.status /\ next.review = item.review
      /\ next.approval = item.approval /\ next.schedule = item.schedule
      /\ next.publication = item.publication /\ next.slots = item.slots
  BY <1>2, <1>3 DEF Items
<1>5. Agreement'
  BY <1>3, <1>4, FinishFields
  DEF ContentHolds, Agreement, EditDraft, SignedOff, Pending, PublicationFits
<1>. QED
  BY <1>3, <1>4, <1>5, FinishFields, SlotsStay, ReviewStays
  DEF ContentHolds, Quiet

LEMMA ScheduleHolds ==
  ASSUME ContentHolds, NEW at \in Nat, Schedule(at) PROVE  ContentHolds' /\ Quiet
<1>1. SUFFICES ASSUME NEW schedule, schedule = ScheduleFor(at), NEW next,
                      next = [item EXCEPT !.status = "scheduled", !.schedule = schedule]
              PROVE  ContentHolds' /\ Quiet
  OBVIOUS
<1>2. Finish(next, {}) /\ ContentTypeOK /\ item \in Items
  BY <1>1 DEF Schedule, ContentHolds, ContentTypeOK
<1>3. /\ schedule \in Schedules /\ schedule # None
      /\ schedule.revision = item.revision
  BY <1>1, <1>2, NoneIsNoValue DEF Items, Fresh, ScheduleFor, Schedules
<1>4. /\ next \in Items
      /\ next.status = "scheduled" /\ next.review = item.review
      /\ next.approval = item.approval /\ next.schedule = schedule
      /\ next.publication = item.publication /\ next.slots = item.slots
      /\ next.revision = item.revision
  BY <1>1, <1>2, <1>3 DEF Items, Statuses
<1>5. Agreement'
  BY <1>2, <1>3, <1>4, FinishFields
  DEF ContentHolds, Agreement, Schedule, SignedOff, Pending, PublicationFits, ApprovalFits,
      MatchesSubmission, InStatus
<1>. QED
  BY <1>2, <1>4, <1>5, FinishFields, SlotsStay, ReviewStays
  DEF ContentHolds, Quiet

LEMMA CancelScheduleHolds == ASSUME ContentHolds, CancelSchedule PROVE  ContentHolds' /\ Quiet
<1>1. SUFFICES ASSUME NEW next,
                      next = [item EXCEPT !.status = "approved", !.schedule = None]
              PROVE  ContentHolds' /\ Quiet
  OBVIOUS
<1>2. Finish(next, {}) /\ ContentTypeOK /\ item \in Items
  BY <1>1 DEF CancelSchedule, ContentHolds, ContentTypeOK
<1>3. /\ next \in Items
      /\ next.status = "approved" /\ next.review = item.review
      /\ next.approval = item.approval /\ next.schedule = None
      /\ next.publication = item.publication /\ next.slots = item.slots
      /\ next.revision = item.revision
  BY <1>1, <1>2 DEF Items, Statuses
<1>4. Agreement'
  BY <1>2, <1>3, FinishFields
  DEF ContentHolds, Agreement, CancelSchedule, SignedOff, Pending, PublicationFits,
      ApprovalFits, MatchesSubmission, InStatus
<1>. QED
  BY <1>2, <1>3, <1>4, FinishFields, SlotsStay, ReviewStays
  DEF ContentHolds, Quiet

LEMMA RequestPublicationHolds ==
  ASSUME ContentHolds, item.status \in {"approved", "scheduled"}, RequestPublication
  PROVE  ContentHolds' /\ Quiet
<1>1. SUFFICES ASSUME NEW publication,
                      publication = [id |-> Fresh, snapshot |-> item.review.submitted,
                                     approval |-> item.approval, schedule |-> item.schedule],
                      NEW next,
                      next = [item EXCEPT !.status = "publishing", !.schedule = None,
                                          !.publication = publication]
              PROVE  ContentHolds' /\ Quiet
  OBVIOUS
<1>2. Finish(next, {}) /\ ContentTypeOK /\ item \in Items
  BY <1>1 DEF RequestPublication, ContentHolds, ContentTypeOK
<1>3. item.approval # None /\ item.review # None
  BY DEF ContentHolds, Agreement, SignedOff, ApprovalFits
<1>4. /\ publication \in Publications /\ publication # None
      /\ publication.snapshot = item.review.submitted
      /\ publication.approval = item.approval
  <2>1. item.review.submitted \in Submissions /\ Fresh \in Nat
    BY <1>2, <1>3 DEF Items, Reviews, Fresh
  <2>. QED
    BY <1>1, <1>2, <1>3, <2>1, NoneIsNoValue DEF Items, Publications
<1>5. /\ next \in Items
      /\ next.status = "publishing" /\ next.review = item.review
      /\ next.approval = item.approval /\ next.schedule = None
      /\ next.publication = publication /\ next.slots = item.slots
      /\ next.revision = item.revision
  BY <1>1, <1>2, <1>4 DEF Items, Statuses
<1>6. Agreement'
  BY <1>2, <1>3, <1>4, <1>5, FinishFields
  DEF ContentHolds, Agreement, SignedOff, Pending, PublicationFits, ApprovalFits,
      MatchesSubmission, InStatus
<1>7. Quiet
  BY <1>2, <1>5, FinishFields DEF Quiet
<1>. QED
  BY <1>2, <1>5, <1>6, <1>7, FinishFields, SlotsStay, ReviewStays DEF ContentHolds

LEMMA CompletePublicationHolds ==
  ASSUME ContentHolds, CompletePublication PROVE  ContentHolds' /\ Quiet
<1>1. SUFFICES ASSUME NEW next, next = [item EXCEPT !.status = "published"]
              PROVE  ContentHolds' /\ Quiet
  OBVIOUS
<1>2. Finish(next, {}) /\ ContentTypeOK /\ item \in Items
  BY <1>1 DEF CompletePublication, ContentHolds, ContentTypeOK
<1>3. /\ next \in Items
      /\ next.status = "published" /\ next.review = item.review
      /\ next.approval = item.approval /\ next.schedule = item.schedule
      /\ next.publication = item.publication /\ next.slots = item.slots
      /\ next.revision = item.revision
  BY <1>1, <1>2 DEF Items, Statuses
<1>4. Agreement'
  BY <1>2, <1>3, FinishFields
  DEF ContentHolds, Agreement, CompletePublication, SignedOff, Pending, PublicationFits,
      ApprovalFits, MatchesSubmission, InStatus
<1>. QED
  BY <1>2, <1>3, <1>4, FinishFields, SlotsStay, ReviewStays
  DEF ContentHolds, Quiet
-----------------------------------------------------------------------------
(* The commands on the review.                                             *)

LEMMA SubmitHolds ==
  ASSUME ContentHolds, NEW dueAt \in Nat, Submit(dueAt) PROVE  ContentHolds' /\ ReviewStep
<1>1. SUFFICES ASSUME NEW submitted,
                      submitted = [revision |-> item.revision,
                                   attachments |-> InStatus("ready"), at |-> clock],
                      NEW review,
                      review = [id |-> Fresh, dueAt |-> dueAt, status |-> "pending",
                                source |-> Fresh, decidedAt |-> None, reminded |-> 0,
                                submitted |-> submitted],
                      NEW next, next = [item EXCEPT !.status = "inReview", !.review = review]
              PROVE  ContentHolds' /\ ReviewStep
  OBVIOUS
<1>2. /\ Finish(next, {ReviewFact("reviewRequested", review)})
      /\ ContentTypeOK /\ item \in Items /\ clock \in Nat /\ item.version \in Nat
      /\ item.status = "draft" /\ InStatus("pending") = {} /\ dueAt > clock
  BY <1>1 DEF Submit, Submittable, ContentHolds, ContentTypeOK, Items
<1>3. submitted \in Submissions
  BY <1>1, <1>2 DEF Items, Submissions, InStatus
<1>4. review \in Reviews /\ review # None /\ review.submitted = submitted
  BY <1>1, <1>2, <1>3, NoneIsNoValue DEF Reviews, Fresh
<1>5. /\ next \in Items
      /\ next.status = "inReview" /\ next.review = review
      /\ next.approval = item.approval /\ next.schedule = item.schedule
      /\ next.publication = item.publication /\ next.slots = item.slots
      /\ next.revision = item.revision
  BY <1>1, <1>2, <1>4 DEF Items, Statuses
<1>6. /\ item'.status = "inReview" /\ item'.review = review
      /\ item'.approval = None /\ item'.schedule = None /\ item'.publication = None
      /\ item'.slots = item.slots /\ item'.revision = item.revision
      /\ clock' = clock /\ item'.version = Fresh /\ ContentTypeOK'
  BY <1>2, <1>5, FinishFields DEF ContentHolds, Agreement, PublicationFits, Fresh
<1>7. MatchesSubmission'
  BY <1>1, <1>2, <1>4, <1>6 DEF MatchesSubmission, InStatus
<1>8. Agreement'
  BY <1>1, <1>4, <1>6, <1>7 DEF Agreement, SignedOff, Pending
<1>9. ReviewHolds(review)' /\ InTime(review)'
  <2>1. review.submitted.at = clock
    BY <1>1
  <2>. QED
    BY <1>1, <1>2, <1>6, <2>1, Days DEF ReviewHolds, InTime, Fresh
<1>10. ReviewStep
  <2>1. facts' = facts \cup {ReviewFact("reviewRequested", review)}
    BY <1>2, <1>5, FinishFields
  <2>2. ~Pending
    BY <1>2 DEF ContentHolds, Agreement
  <2>. QED
    BY <1>1, <1>4, <1>6, <2>1, <2>2 DEF ReviewStep, FactTypes
<1>. QED
  BY <1>10, <1>2, <1>5, <1>6, <1>8, <1>9, FinishFields, SlotsStay
  DEF ContentHolds, ReviewFits, ReviewHolds, InTime

LEMMA RecordReviewReminderHolds ==
  ASSUME ContentHolds, RecordReviewReminder PROVE  ContentHolds' /\ ReviewStep
<1>1. SUFFICES ASSUME NEW review,
                      review = [item.review EXCEPT !.reminded = DayOf(clock),
                                                   !.source = Fresh],
                      NEW next, next = [item EXCEPT !.review = review]
              PROVE  ContentHolds' /\ ReviewStep
  OBVIOUS
<1>2. /\ Finish(next, {ReviewFact("reviewReminderRecorded", review)})
      /\ ContentTypeOK /\ item \in Items /\ clock \in Nat /\ item.version \in Nat
      /\ item.status = "inReview" /\ item.review.dueAt <= clock
  BY <1>1 DEF RecordReviewReminder, ContentHolds, ContentTypeOK, Items
<1>3. /\ item.review # None /\ item.review.status = "pending" /\ item.review \in Reviews
      /\ ReviewHolds(item.review) /\ InTime(item.review)
  BY <1>2 DEF ContentHolds, Agreement, Pending, ReviewFits, Items
<1>4. /\ item.review.dueAt \in Nat /\ DayOf(clock) \in Nat /\ DayOf(clock) # 0
      /\ DayOf(item.review.dueAt) <= DayOf(clock)
  BY <1>2, <1>3, Days DEF Reviews
<1>5. /\ review \in Reviews /\ review # None
      /\ review.id = item.review.id /\ review.dueAt = item.review.dueAt
      /\ review.status = item.review.status /\ review.decidedAt = item.review.decidedAt
      /\ review.submitted = item.review.submitted
      /\ review.source = Fresh /\ review.reminded = DayOf(clock)
  <2>1. Fresh \in Nat
    BY <1>2 DEF Fresh
  <2>2. review \in Reviews
    BY <1>1, <1>3, <1>4, <2>1 DEF Reviews
  <2>3. review # None
    BY <2>2, NoneIsNoValue
  <2>. QED
    BY <1>1, <1>3, <2>2, <2>3 DEF Reviews
<1>6. /\ next \in Items
      /\ next.status = "inReview" /\ next.review = review
      /\ next.approval = item.approval /\ next.schedule = item.schedule
      /\ next.publication = item.publication /\ next.slots = item.slots
      /\ next.revision = item.revision
  BY <1>1, <1>2, <1>5 DEF Items
<1>7. /\ item'.status = "inReview" /\ item'.review = review
      /\ item'.approval = None /\ item'.schedule = None /\ item'.publication = None
      /\ item'.slots = item.slots /\ item'.revision = item.revision
      /\ clock' = clock /\ item'.version = Fresh /\ ContentTypeOK'
  BY <1>2, <1>6, FinishFields DEF ContentHolds, Agreement, PublicationFits, Fresh
<1>8. Agreement'
  BY <1>2, <1>3, <1>5, <1>7
  DEF ContentHolds, Agreement, SignedOff, Pending, MatchesSubmission, InStatus
<1>9. ReviewHolds(review)' /\ InTime(review)'
  BY <1>2, <1>3, <1>4, <1>5, <1>7 DEF ReviewHolds, InTime, DayOf, Fresh
<1>10. ReviewStep
  <2>1. facts' = facts \cup {ReviewFact("reviewReminderRecorded", review)}
    BY <1>2, <1>6, FinishFields
  <2>2. MayFollowReview(item.review, review)
    BY <1>2, <1>3, <1>4, <1>5 DEF MayFollowReview, Closed, InTime
  <2>. QED
    BY <1>3, <1>5, <1>7, <2>1, <2>2 DEF ReviewStep, FactTypes, Pending
<1>. QED
  BY <1>10, <1>2, <1>6, <1>7, <1>8, <1>9, FinishFields, SlotsStay
  DEF ContentHolds, ReviewFits, ReviewHolds, InTime

\* A pending review is closed, whatever the outcome.
CloseAs(status) == [item.review EXCEPT !.status = status, !.source = Fresh, !.decidedAt = clock]

LEMMA ClosedType ==
  ASSUME ContentTypeOK, Pending,
         NEW status \in {"approved", "changesRequested", "superseded"}
  PROVE  CloseAs(status) \in Reviews /\ CloseAs(status).id \in Nat
<1>1. item.review \in Reviews /\ clock \in Nat /\ Fresh \in Nat
  BY DEF Pending, ContentTypeOK, Items, Fresh
<1>. QED
  BY <1>1 DEF Reviews, CloseAs

LEMMA ClosedFits ==
  ASSUME ContentHolds, Pending, item'.version = Fresh, clock' = clock,
         NEW status \in {"approved", "changesRequested", "superseded"},
         NEW review, review = CloseAs(status)
  PROVE  /\ review \in Reviews /\ review # None
         /\ review.id = item.review.id /\ review.status = status
         /\ review.submitted = item.review.submitted
         /\ review.dueAt = item.review.dueAt /\ review.reminded = item.review.reminded
         /\ review.source = Fresh
         /\ review.decidedAt = clock /\ review.decidedAt # None
         /\ ReviewHolds(review)' /\ InTime(review)'
<1>1. /\ item.review # None /\ item.review \in Reviews /\ clock \in Nat /\ Fresh \in Nat
      /\ ReviewHolds(item.review) /\ InTime(item.review)
  BY DEF Pending, ContentHolds, ContentTypeOK, Items, ReviewFits, Fresh
<1>2. /\ review \in Reviews /\ review # None
      /\ review.id = item.review.id /\ review.status = status
      /\ review.submitted = item.review.submitted
      /\ review.dueAt = item.review.dueAt /\ review.reminded = item.review.reminded
      /\ review.source = Fresh /\ review.decidedAt = clock /\ clock # None
  BY <1>1, NoneIsNoValue DEF Reviews, CloseAs
<1>. QED
  BY <1>1, <1>2 DEF ReviewHolds, InTime, DayOf

LEMMA ClosedFollows ==
  ASSUME ContentHolds, Pending, NEW status \in {"approved", "changesRequested", "superseded"},
         NEW review, review = CloseAs(status)
  PROVE  MayFollowReview(item.review, review)
<1>1. item.review \in Reviews /\ item.review.status = "pending"
  BY DEF Pending, ContentHolds, ContentTypeOK, Items
<1>2. /\ review.submitted = item.review.submitted /\ review.dueAt = item.review.dueAt
      /\ review.reminded = item.review.reminded /\ item.review.reminded \in Nat
  BY <1>1 DEF Reviews, CloseAs
<1>. QED
  BY <1>1, <1>2 DEF MayFollowReview, Closed

LEMMA ApproveHolds == ASSUME ContentHolds, Approve PROVE  ContentHolds' /\ ReviewStep
<1>1. SUFFICES ASSUME NEW review, review = CloseAs("approved"),
                      NEW approval, approval = [review |-> review.id, revision |-> item.revision,
                                                at |-> clock],
                      NEW next, next = [item EXCEPT !.status = "approved", !.review = review,
                                                    !.approval = approval]
              PROVE  ContentHolds' /\ ReviewStep
  OBVIOUS
<1>2. /\ Finish(next, {ReviewFact("reviewDecided", review)})
      /\ ContentTypeOK /\ item \in Items /\ clock \in Nat /\ Fresh = item.version + 1
      /\ item.status = "inReview" /\ Pending
  BY <1>1 DEF Approve, CloseAs, ContentHolds, ContentTypeOK, Agreement, Fresh
<1>3. review \in Reviews /\ review.id \in Nat
  BY <1>1, <1>2, ClosedType
<1>4. approval \in Approvals /\ approval # None
  BY <1>1, <1>2, <1>3, NoneIsNoValue DEF Approvals, Items
<1>5. /\ next \in Items
      /\ next.status = "approved" /\ next.review = review /\ next.approval = approval
      /\ next.schedule = item.schedule /\ next.publication = item.publication
      /\ next.slots = item.slots /\ next.revision = item.revision
  BY <1>1, <1>2, <1>3, <1>4 DEF Items, Statuses
<1>6. /\ item'.status = "approved" /\ item'.review = review
      /\ item'.approval = approval /\ item'.schedule = None /\ item'.publication = None
      /\ item'.slots = item.slots /\ item'.revision = item.revision
      /\ clock' = clock /\ item'.version = Fresh /\ ContentTypeOK'
  BY <1>2, <1>5, FinishFields DEF ContentHolds, Agreement, PublicationFits
<1>7. /\ review # None /\ review.status = "approved" /\ review.submitted = item.review.submitted
      /\ review.decidedAt = clock /\ ReviewHolds(review)' /\ InTime(review)'
  BY <1>1, <1>2, <1>6, ClosedFits
<1>8. MatchesSubmission /\ MatchesSubmission'
  BY <1>2, <1>6, <1>7 DEF ContentHolds, Agreement, SignedOff, MatchesSubmission, InStatus
<1>9. ApprovalFits'
  BY <1>1, <1>6, <1>7, <1>8 DEF ApprovalFits, MatchesSubmission
<1>10. Agreement'
  BY <1>4, <1>6, <1>7, <1>8, <1>9 DEF Agreement, SignedOff, Pending
<1>11. ReviewStep
  <2>1. facts' = facts \cup {ReviewFact("reviewDecided", review)}
    BY <1>2, <1>5, FinishFields
  <2>2. MayFollowReview(item.review, review) /\ review.id = item.review.id /\ review.source = Fresh
    BY <1>1, <1>2, <1>6, ClosedFits, ClosedFollows
  <2>. QED
    BY <1>2, <1>6, <1>7, <2>1, <2>2 DEF ReviewStep, FactTypes
<1>. QED
  BY <1>11, <1>2, <1>5, <1>6, <1>7, <1>10, FinishFields, SlotsStay
  DEF ContentHolds, ReviewFits, ReviewHolds, InTime

LEMMA RequestChangesHolds == ASSUME ContentHolds, RequestChanges PROVE  ContentHolds' /\ ReviewStep
<1>1. SUFFICES ASSUME NEW review, review = CloseAs("changesRequested"),
                      NEW next, next = [item EXCEPT !.status = "draft", !.review = review,
                                                    !.approval = None]
              PROVE  ContentHolds' /\ ReviewStep
  OBVIOUS
<1>2. /\ Finish(next, {ReviewFact("reviewDecided", review)})
      /\ ContentTypeOK /\ item \in Items /\ Fresh = item.version + 1
      /\ item.status = "inReview" /\ Pending /\ clock \in Nat
  BY <1>1 DEF RequestChanges, CloseAs, ContentHolds, ContentTypeOK, Agreement, Fresh
<1>3. review \in Reviews
  BY <1>1, <1>2, ClosedType
<1>4. /\ next \in Items
      /\ next.status = "draft" /\ next.review = review /\ next.approval = None
      /\ next.schedule = item.schedule /\ next.publication = item.publication
      /\ next.slots = item.slots
  BY <1>1, <1>2, <1>3 DEF Items, Statuses
<1>5. /\ item'.status = "draft" /\ item'.review = review
      /\ item'.approval = None /\ item'.schedule = None /\ item'.publication = None
      /\ item'.slots = item.slots /\ clock' = clock /\ item'.version = Fresh /\ ContentTypeOK'
  BY <1>2, <1>4, FinishFields DEF ContentHolds, Agreement, PublicationFits
<1>6. /\ review # None /\ review.status = "changesRequested"
      /\ ReviewHolds(review)' /\ InTime(review)'
  BY <1>1, <1>2, <1>5, ClosedFits
<1>7. Agreement'
  BY <1>5, <1>6 DEF Agreement, SignedOff, Pending
<1>8. ReviewStep
  <2>1. facts' = facts \cup {ReviewFact("reviewDecided", review)}
    BY <1>2, <1>4, FinishFields
  <2>2. MayFollowReview(item.review, review) /\ review.id = item.review.id /\ review.source = Fresh
    BY <1>1, <1>2, <1>5, ClosedFits, ClosedFollows
  <2>. QED
    BY <1>2, <1>5, <1>6, <2>1, <2>2 DEF ReviewStep, FactTypes
<1>. QED
  BY <1>8, <1>2, <1>4, <1>5, <1>6, <1>7, FinishFields, SlotsStay
  DEF ContentHolds, ReviewFits, ReviewHolds, InTime

LEMMA SupersededType ==
  ASSUME ContentTypeOK
  PROVE  /\ Superseded \in Reviews \cup {None}
         /\ Pending => Superseded = CloseAs("superseded")
         /\ ~Pending => Superseded = item.review
BY ClosedType DEF Superseded, CloseAs, ContentTypeOK, Items

\* What supersede leaves is no pending review, and one the schema takes.
LEMMA SupersededFits ==
  ASSUME ContentHolds, item'.version = Fresh, clock' = clock,
         NEW review, review = Superseded
  PROVE  review # None => /\ review.status # "pending"
                          /\ ReviewHolds(review)' /\ InTime(review)'
<1>1. CASE Pending
  <2>1. review = CloseAs("superseded")
    BY <1>1, SupersededType DEF ContentHolds
  <2>. QED
    BY <1>1, <2>1, ClosedFits
<1>2. CASE ~Pending
  <2>1. SUFFICES ASSUME review # None
                 PROVE  /\ review.status # "pending"
                        /\ ReviewHolds(review)' /\ InTime(review)'
    OBVIOUS
  <2>2. review = item.review
    BY <1>2, SupersededType DEF ContentHolds
  <2>3. /\ review \in Reviews /\ ReviewHolds(review) /\ InTime(review)
        /\ item.version \in Nat
    BY <2>1, <2>2 DEF ContentHolds, ReviewFits, ContentTypeOK, Items
  <2>4. review.source \in Nat /\ item'.version = item.version + 1
    BY <2>3 DEF Reviews, Fresh
  <2>5. ReviewHolds(review)' /\ InTime(review)'
    BY <2>3, <2>4 DEF ReviewHolds, InTime, DayOf
  <2>. QED
    BY <1>2, <2>1, <2>2, <2>5 DEF Pending
<1>. QED
  BY <1>1, <1>2

LEMMA ReopenDraftHolds == ASSUME ContentHolds, ReopenDraft PROVE  ContentHolds' /\ (Quiet \/ ReviewStep)
<1>1. SUFFICES ASSUME NEW review, review = Superseded,
                      NEW next, next = [item EXCEPT !.status = "draft", !.revision = Fresh,
                                                    !.review = review, !.approval = None,
                                                    !.schedule = None]
              PROVE  ContentHolds' /\ (Quiet \/ ReviewStep)
  OBVIOUS
<1>2. /\ Finish(next, SupersededFacts)
      /\ ContentTypeOK /\ item \in Items /\ Fresh \in Nat /\ Fresh = item.version + 1
      /\ review \in Reviews \cup {None}
      /\ item.status \in {"inReview", "approved", "scheduled"}
  BY <1>1, SupersededType
  DEF ReopenDraft, Reopened, ContentHolds, ContentTypeOK, Items, Fresh
<1>3. /\ next \in Items
      /\ next.status = "draft" /\ next.review = review /\ next.approval = None
      /\ next.schedule = None /\ next.publication = item.publication
      /\ next.slots = item.slots
  BY <1>1, <1>2 DEF Items, Statuses
<1>4. /\ item'.status = "draft" /\ item'.review = review
      /\ item'.approval = None /\ item'.schedule = None /\ item'.publication = None
      /\ item'.slots = item.slots /\ clock' = clock /\ item'.version = Fresh /\ ContentTypeOK'
  BY <1>2, <1>3, FinishFields DEF ContentHolds, Agreement, PublicationFits
<1>5. review # None => /\ review.status # "pending"
                       /\ ReviewHolds(review)' /\ InTime(review)'
  BY <1>1, <1>4, SupersededFits
<1>6. Agreement'
  BY <1>4, <1>5 DEF Agreement, SignedOff, Pending
<1>7. Quiet \/ ReviewStep
  <2>1. facts' = facts \cup SupersededFacts
    BY <1>2, <1>3, FinishFields
  <2>2. CASE Pending
    <3>1. /\ review = CloseAs("superseded")
          /\ SupersededFacts = {ReviewFact("reviewSuperseded", review)}
      BY <1>1, <1>2, <2>2, SupersededType DEF SupersededFacts
    <3>2. /\ MayFollowReview(item.review, review) /\ review.id = item.review.id
          /\ review.source = Fresh /\ review # None
      BY <1>4, <2>2, <3>1, ClosedFits, ClosedFollows
    <3>. QED
      BY <1>4, <2>1, <2>2, <3>1, <3>2 DEF ReviewStep, FactTypes
  <2>3. CASE ~Pending
    BY <1>1, <1>2, <1>4, <2>1, <2>3, SupersededType DEF Quiet, SupersededFacts
  <2>. QED
    BY <2>2, <2>3
<1>. QED
  BY <1>7, <1>2, <1>3, <1>4, <1>5, <1>6, FinishFields, SlotsStay
  DEF ContentHolds, ReviewFits, ReviewHolds, InTime

LEMMA ArchiveHolds == ASSUME ContentHolds, Archive PROVE  ContentHolds' /\ (Quiet \/ ReviewStep)
<1>1. SUFFICES ASSUME NEW review, review = Superseded,
                      NEW next, next = [item EXCEPT !.status = "archived", !.review = review,
                                                    !.schedule = None]
              PROVE  ContentHolds' /\ (Quiet \/ ReviewStep)
  OBVIOUS
<1>2. /\ Finish(next, SupersededFacts)
      /\ ContentTypeOK /\ item \in Items /\ Fresh = item.version + 1
      /\ review \in Reviews \cup {None}
      /\ item.status \in {"draft", "inReview", "approved", "scheduled", "published"}
  BY <1>1, SupersededType DEF Archive, ContentHolds, ContentTypeOK, Fresh
<1>3. /\ next \in Items
      /\ next.status = "archived" /\ next.review = review /\ next.approval = item.approval
      /\ next.schedule = None /\ next.publication = item.publication
      /\ next.slots = item.slots /\ next.revision = item.revision
  BY <1>1, <1>2 DEF Items, Statuses
<1>4. /\ item'.status = "archived" /\ item'.review = review
      /\ item'.approval = item.approval /\ item'.schedule = None
      /\ item'.publication = item.publication /\ item'.revision = item.revision
      /\ item'.slots = item.slots /\ clock' = clock /\ item'.version = Fresh /\ ContentTypeOK'
  BY <1>2, <1>3, FinishFields
<1>5. review # None => /\ review.status # "pending"
                       /\ ReviewHolds(review)' /\ InTime(review)'
  BY <1>1, <1>4, SupersededFits
<1>6. item.approval # None \/ item.publication # None => review = item.review
  <2>1. ASSUME Pending PROVE item.approval = None /\ item.publication = None
    BY <2>1 DEF ContentHolds, Agreement, PublicationFits
  <2>. QED
    BY <1>1, <2>1, SupersededType DEF ContentHolds
<1>7. Agreement'
  BY <1>4, <1>5, <1>6
  DEF ContentHolds, Agreement, SignedOff, Pending, ApprovalFits, PublicationFits,
      MatchesSubmission, InStatus
<1>8. Quiet \/ ReviewStep
  <2>1. facts' = facts \cup SupersededFacts
    BY <1>2, <1>3, FinishFields
  <2>2. CASE Pending
    <3>1. /\ review = CloseAs("superseded")
          /\ SupersededFacts = {ReviewFact("reviewSuperseded", review)}
      BY <1>1, <1>2, <2>2, SupersededType DEF SupersededFacts
    <3>2. /\ MayFollowReview(item.review, review) /\ review.id = item.review.id
          /\ review.source = Fresh /\ review # None
      BY <1>4, <2>2, <3>1, ClosedFits, ClosedFollows
    <3>. QED
      BY <1>4, <2>1, <2>2, <3>1, <3>2 DEF ReviewStep, FactTypes
  <2>3. CASE ~Pending
    BY <1>1, <1>2, <1>4, <2>1, <2>3, SupersededType DEF Quiet, SupersededFacts
  <2>. QED
    BY <2>2, <2>3
<1>. QED
  BY <1>8, <1>2, <1>3, <1>4, <1>5, <1>7, FinishFields, SlotsStay
  DEF ContentHolds, ReviewFits, ReviewHolds, InTime
-----------------------------------------------------------------------------
(* The commands on the slots.                                              *)

LEMMA SlotChanges ==
  ASSUME ContentHolds, item.status = "draft", NEW next,
         next \in Items, next.status = "draft",
         next.review = item.review, next.approval = item.approval,
         next.schedule = item.schedule, next.publication = item.publication,
         NEW a \in Assets, NEW slot \in Slots, next.slots = [item.slots EXCEPT ![a] = slot],
         NEW type \in FactTypes, Finish(next, {AssetFact(type, a, slot)}),
         slot.status # "none",
         item.slots[a].status = "none" \/ MayFollowAsset(item.slots[a], slot),
         slot.source = Fresh, slot.registeredAt <= clock,
         slot.status = "ready" => slot.verified # None,
         slot.status \in {"pending", "expired"} => slot.verified = None,
         slot.status = "expired" => slot.retiredAt >= ExpiresAt(slot),
         Retired(slot) => slot.retiredAt >= slot.registeredAt,
         Active(slot) => \/ Active(item.slots[a])
                         \/ Cardinality({b \in Assets : Active(item.slots[b])}) < ActiveAssets
  PROVE  ContentHolds' /\ SlotStep(a)
<1>1. /\ ContentTypeOK /\ item \in Items /\ clock \in Nat /\ Fresh = item.version + 1
      /\ item.version \in Nat
  BY DEF ContentHolds, ContentTypeOK, Items, Fresh
<1>2. /\ item'.status = "draft" /\ item'.review = item.review
      /\ item'.approval = item.approval /\ item'.schedule = item.schedule
      /\ item'.publication = item.publication
      /\ item'.slots = [item.slots EXCEPT ![a] = slot]
      /\ clock' = clock /\ item'.version = Fresh /\ ContentTypeOK'
  BY <1>1, FinishFields
<1>3. Agreement'
  BY <1>2 DEF ContentHolds, Agreement, SignedOff, Pending, PublicationFits
<1>4. \A b \in Assets : item'.slots[b] = IF b = a THEN slot ELSE item.slots[b]
  BY <1>1, <1>2 DEF Items
<1>5. SlotsHold'
  <2>1. ASSUME NEW b \in Assets
        PROVE  (SlotHolds(item.slots[b]) /\ item.slots[b].registeredAt <= clock)'
    <3>1. CASE b = a
      BY <1>1, <1>2, <1>4, <3>1 DEF SlotHolds, ExpiresAt, Retired
    <3>2. CASE b # a
      <4>1. /\ SlotHolds(item.slots[b]) /\ item.slots[b].registeredAt <= clock
            /\ item.slots[b].source \in Nat
        BY <1>1 DEF ContentHolds, SlotsHold, Items, Slots
      <4>2. item'.slots[b] = item.slots[b]
        BY <1>4, <3>2
      <4>. QED
        BY <1>1, <1>2, <4>1, <4>2 DEF SlotHolds, ExpiresAt, Retired
    <3>. QED
      BY <3>1, <3>2
  <2>. QED
    BY <2>1 DEF SlotsHold
<1>6. FewActive'
  <2> DEFINE old == {b \in Assets : Active(item.slots[b])}
             now == {b \in Assets : Active(item'.slots[b])}
  <2>1. IsFiniteSet(old) /\ IsFiniteSet(now) /\ Cardinality(old) \in Nat
    BY ContentAssumption, FS_Subset, FS_CardinalityType
  <2>2. Cardinality(old) <= ActiveAssets
    BY DEF ContentHolds, FewActive
  <2>3. CASE now \subseteq old
    <3>1. Cardinality(now) <= Cardinality(old) /\ Cardinality(now) \in Nat
      BY <2>1, <2>3, FS_Subset, FS_CardinalityType
    <3>. QED
      BY <2>1, <2>2, <3>1, ContentAssumption DEF FewActive, Active
  <2>4. CASE ~(now \subseteq old)
    <3>1. Active(slot) /\ a \notin old /\ now \subseteq old \cup {a}
      BY <1>4, <2>4 DEF Active
    <3>2. Cardinality(old) < ActiveAssets
      BY <3>1
    <3>3. IsFiniteSet(old \cup {a}) /\ Cardinality(old \cup {a}) = Cardinality(old) + 1
      BY <2>1, <3>1, FS_AddElement
    <3>4. Cardinality(now) <= Cardinality(old) + 1 /\ Cardinality(now) \in Nat
      BY <2>1, <3>1, <3>3, FS_Subset, FS_CardinalityType
    <3>. QED
      BY <2>1, <3>2, <3>4, ContentAssumption DEF FewActive, Active
  <2>. QED
    BY <2>3, <2>4
<1>7. SlotStep(a)
  BY <1>1, <1>2, <1>4, FinishFields DEF SlotStep
<1>. QED
  BY <1>7, <1>1, <1>2, <1>3, <1>5, <1>6, FinishFields, ReviewStays DEF ContentHolds

\* A slot as a retiring command writes it.
LEMMA RetiredFields ==
  ASSUME ContentHolds, NEW a \in Assets, NEW status \in {"removed", "expired"},
         NEW slot, slot = RetiredSlot(item.slots[a], status)
  PROVE  /\ slot \in Slots /\ slot.status = status /\ slot.source = Fresh
         /\ slot.registeredAt = item.slots[a].registeredAt /\ slot.registeredAt <= clock
         /\ slot.verified = item.slots[a].verified /\ slot.retiredAt = clock
<1>1. /\ item.slots[a] \in Slots /\ clock \in Nat /\ Fresh \in Nat
      /\ item.slots[a].registeredAt <= clock
  BY DEF ContentHolds, ContentTypeOK, Items, Fresh, SlotsHold
<1>. QED
  BY <1>1 DEF RetiredSlot, Slots

LEMMA RegisterAssetHolds ==
  ASSUME ContentHolds, NEW a \in Assets, RegisterAsset(a) PROVE  ContentHolds' /\ SlotStep(a)
<1>1. SUFFICES ASSUME NEW slot,
                      slot = [EmptySlot EXCEPT !.status = "pending", !.registeredAt = clock,
                                               !.source = Fresh],
                      NEW next, next = [WithSlot(a, slot) EXCEPT !.revision = Fresh]
              PROVE  ContentHolds' /\ SlotStep(a)
  OBVIOUS
<1>2. /\ Finish(next, {AssetFact("assetRegistered", a, slot)})
      /\ item \in Items /\ clock \in Nat /\ Fresh \in Nat
      /\ item.status = "draft" /\ item.slots[a].status = "none"
      /\ Cardinality({b \in Assets : Active(item.slots[b])}) < ActiveAssets
  BY <1>1 DEF RegisterAsset, ContentHolds, ContentTypeOK, Items, Fresh
<1>3. /\ slot \in Slots /\ slot.status = "pending" /\ slot.registeredAt = clock
      /\ slot.source = Fresh /\ slot.verified = None
  BY <1>1, <1>2 DEF EmptySlot, Slots
<1>4. /\ next \in Items /\ next.status = "draft"
      /\ next.review = item.review /\ next.approval = item.approval
      /\ next.schedule = item.schedule /\ next.publication = item.publication
      /\ next.slots = [item.slots EXCEPT ![a] = slot]
  BY <1>1, <1>2, <1>3 DEF WithSlot, Items, Statuses
<1>5. "assetRegistered" \in FactTypes
  BY DEF FactTypes
<1>. QED
  BY <1>2, <1>3, <1>4, <1>5, SlotChanges DEF Retired

LEMMA CompleteUploadHolds ==
  ASSUME ContentHolds, NEW a \in Assets, NEW digest \in Digests, CompleteUpload(a, digest)
  PROVE  ContentHolds' /\ SlotStep(a)
<1>1. SUFFICES ASSUME NEW slot,
                      slot = [item.slots[a] EXCEPT !.status = "ready", !.verified = digest,
                                                   !.source = Fresh],
                      NEW next, next = WithSlot(a, slot)
              PROVE  ContentHolds' /\ SlotStep(a)
  OBVIOUS
<1>2. /\ Finish(next, {AssetFact("assetReady", a, slot)})
      /\ item \in Items /\ Fresh \in Nat /\ item.slots[a] \in Slots
      /\ item.status = "draft" /\ item.slots[a].status = "pending"
      /\ item.slots[a].registeredAt <= clock
  BY <1>1 DEF CompleteUpload, MayComplete, ContentHolds, ContentTypeOK, Items, Fresh, SlotsHold
<1>3. /\ slot \in Slots /\ slot.status = "ready" /\ slot.verified = digest
      /\ slot.registeredAt = item.slots[a].registeredAt /\ slot.source = Fresh
  BY <1>1, <1>2 DEF Slots
<1>4. /\ next \in Items /\ next.status = "draft"
      /\ next.review = item.review /\ next.approval = item.approval
      /\ next.schedule = item.schedule /\ next.publication = item.publication
      /\ next.slots = [item.slots EXCEPT ![a] = slot]
  BY <1>1, <1>2, <1>3 DEF WithSlot, Items, Statuses
<1>5. /\ slot.verified # None /\ Active(item.slots[a]) /\ ~Retired(slot)
      /\ slot.status \notin {"pending", "expired"} /\ slot.registeredAt <= clock
  BY <1>2, <1>3, NoneIsNoValue DEF Active, Retired
<1>6. "assetReady" \in FactTypes /\ MayFollowAsset(item.slots[a], slot)
  <2>1. item.slots[a].verified = None
    BY <1>2 DEF ContentHolds, SlotsHold, SlotHolds
  <2>. QED
    BY <1>2, <1>3, <2>1 DEF FactTypes, MayFollowAsset, Retired
<1>. QED
  BY <1>2, <1>3, <1>4, <1>5, <1>6, SlotChanges

LEMMA RemoveAssetHolds ==
  ASSUME ContentHolds, NEW a \in Assets, RemoveAsset(a) PROVE  ContentHolds' /\ SlotStep(a)
<1>1. SUFFICES ASSUME NEW slot, slot = RetiredSlot(item.slots[a], "removed"),
                      NEW next, next = [WithSlot(a, slot) EXCEPT !.revision = Fresh]
              PROVE  ContentHolds' /\ SlotStep(a)
  OBVIOUS
<1>2. /\ Finish(next, {AssetFact("assetRemoved", a, slot)})
      /\ item \in Items /\ Fresh \in Nat /\ item.status = "draft"
  BY <1>1 DEF RemoveAsset, ContentHolds, ContentTypeOK, Items, Fresh
<1>3. /\ slot \in Slots /\ slot.status = "removed" /\ slot.source = Fresh
      /\ slot.registeredAt <= clock /\ slot.retiredAt = clock
  BY <1>1, RetiredFields
<1>4. /\ next \in Items /\ next.status = "draft"
      /\ next.review = item.review /\ next.approval = item.approval
      /\ next.schedule = item.schedule /\ next.publication = item.publication
      /\ next.slots = [item.slots EXCEPT ![a] = slot]
  BY <1>1, <1>2, <1>3 DEF WithSlot, Items, Statuses
<1>5. "assetRemoved" \in FactTypes /\ MayFollowAsset(item.slots[a], slot)
  <2>1. Active(item.slots[a]) /\ slot.verified = item.slots[a].verified
        /\ slot.registeredAt = item.slots[a].registeredAt
    BY <1>1, RetiredFields DEF RemoveAsset
  <2>. QED
    BY <1>3, <2>1 DEF FactTypes, MayFollowAsset, Active, Retired
<1>6. slot.registeredAt \in Nat /\ clock \in Nat
  BY <1>3 DEF Slots, ContentHolds, ContentTypeOK
<1>. QED
  BY <1>2, <1>3, <1>4, <1>5, <1>6, SlotChanges DEF Active

LEMMA ExpireAssetHolds ==
  ASSUME ContentHolds, NEW a \in Assets, ExpireAsset(a) PROVE  ContentHolds' /\ SlotStep(a)
<1>1. SUFFICES ASSUME NEW slot, slot = RetiredSlot(item.slots[a], "expired"),
                      NEW next, next = [WithSlot(a, slot) EXCEPT !.revision = Fresh]
              PROVE  ContentHolds' /\ SlotStep(a)
  OBVIOUS
<1>2. /\ Finish(next, {AssetFact("assetExpired", a, slot)})
      /\ item \in Items /\ Fresh \in Nat /\ item.status = "draft"
      /\ item.slots[a].status = "pending" /\ clock >= ExpiresAt(item.slots[a])
  BY <1>1 DEF ExpireAsset, ContentHolds, ContentTypeOK, Items, Fresh
<1>3. item.slots[a].verified = None
  BY <1>2 DEF ContentHolds, SlotsHold, SlotHolds
<1>4. /\ slot \in Slots /\ slot.status = "expired" /\ slot.source = Fresh
      /\ slot.registeredAt = item.slots[a].registeredAt
      /\ slot.registeredAt <= clock /\ slot.retiredAt = clock
      /\ slot.verified = None
  BY <1>1, <1>3, RetiredFields
<1>5. /\ next \in Items /\ next.status = "draft"
      /\ next.review = item.review /\ next.approval = item.approval
      /\ next.schedule = item.schedule /\ next.publication = item.publication
      /\ next.slots = [item.slots EXCEPT ![a] = slot]
  BY <1>1, <1>2, <1>4 DEF WithSlot, Items, Statuses
<1>6. "assetExpired" \in FactTypes /\ MayFollowAsset(item.slots[a], slot)
  BY <1>2, <1>3, <1>4 DEF FactTypes, MayFollowAsset, Retired
<1>. QED
  BY <1>2, <1>4, <1>5, <1>6, SlotChanges DEF Active, ExpiresAt
-----------------------------------------------------------------------------
LEMMA ContentInitHolds == ContentInit => ContentHolds
<1>1. SUFFICES ASSUME ContentInit PROVE ContentHolds
  OBVIOUS
<1>2. EmptySlot \in Slots
  BY DEF EmptySlot, Slots
<1>3. ContentTypeOK
  BY <1>1, <1>2 DEF ContentInit, ContentTypeOK, Items, Statuses
<1>4. \A a \in Assets : item.slots[a] = EmptySlot
  BY <1>1 DEF ContentInit
<1>5. SlotsHold
  BY <1>1, <1>4 DEF ContentInit, SlotsHold, SlotHolds, EmptySlot, Retired
<1>6. {a \in Assets : Active(item.slots[a])} = {}
  BY <1>4 DEF Active, EmptySlot
<1>7. FewActive
  BY <1>6, FS_EmptySet, ContentAssumption DEF FewActive
<1>. QED
  BY <1>1, <1>3, <1>5, <1>7
  DEF ContentHolds, ContentInit, ReviewFits, Agreement, SignedOff, Pending

LEMMA ReviewCommandHolds ==
  ASSUME ContentHolds, ReviewCommand PROVE ContentHolds' /\ ReviewStep
<1>1. ASSUME NEW dueAt \in 1 .. MaxTime, Submit(dueAt) PROVE ContentHolds' /\ ReviewStep
  BY <1>1, SubmitHolds, ContentAssumption
<1>. QED
  BY <1>1, RecordReviewReminderHolds, ApproveHolds, RequestChangesHolds DEF ReviewCommand

LEMMA PublicationCommandHolds ==
  ASSUME ContentHolds, PublicationCommand PROVE ContentHolds' /\ Quiet
<1>1. ASSUME NEW at \in 1 .. MaxTime, Schedule(at) PROVE ContentHolds' /\ Quiet
  BY <1>1, ScheduleHolds, ContentAssumption
<1>2. CASE PublishNow
  BY <1>2, RequestPublicationHolds DEF PublishNow
<1>3. CASE RequestDuePublication
  BY <1>3, RequestPublicationHolds DEF RequestDuePublication
<1>. QED
  BY <1>1, <1>2, <1>3, CancelScheduleHolds, CompletePublicationHolds DEF PublicationCommand

LEMMA CommandHolds ==
  ASSUME ContentHolds, Command
  PROVE  /\ ContentHolds' /\ Moves
         /\ item'.version = Fresh /\ Fresh \in 1 .. MaxVersion
<1>1. ContentHolds' /\ Moves
  <2>1. CASE AssetCommand
    BY <2>1, RegisterAssetHolds, CompleteUploadHolds, RemoveAssetHolds, ExpireAssetHolds
    DEF AssetCommand, Moves
  <2>. QED
    BY <2>1, CreateHolds, EditDraftHolds, ReopenDraftHolds, ArchiveHolds,
       ReviewCommandHolds, PublicationCommandHolds
    DEF Command, Moves
<1>2. PICK next, new : Finish(next, new)
  BY CommandFinishes
<1>3. item.version < MaxVersion /\ item.version \in Nat /\ item' \in Items
      /\ item' = [next EXCEPT !.version = Fresh]
  BY <1>1, <1>2 DEF Finish, ContentHolds, ContentTypeOK, Items
<1>4. item'.version = Fresh
  <2>1. "version" \in DOMAIN next
    BY <1>3 DEF Items
  <2>. QED
    BY <1>3, <2>1
<1>. QED
  BY <1>1, <1>3, <1>4, ContentAssumption DEF Fresh

LEMMA TickHolds == ASSUME ContentHolds, Tick PROVE ContentHolds'
<1>1. /\ clock \in Nat /\ clock' = clock + 1 /\ item' = item
  BY DEF Tick, ContentHolds, ContentTypeOK
<1>2. ContentTypeOK'
  BY <1>1 DEF ContentHolds, ContentTypeOK
<1>3. item.version <= item'.version /\ clock <= clock'
  BY <1>1 DEF ContentHolds, ContentTypeOK, Items
<1>4. Agreement'
  BY <1>1 DEF ContentHolds, Agreement, Pending, ApprovalFits, PublicationFits,
     MatchesSubmission, InStatus
<1>. QED
  BY <1>1, <1>2, <1>3, <1>4, SlotsStay, ReviewStays DEF ContentHolds

LEMMA ContentNextHolds == ASSUME ContentHolds, [ContentNext]_contentVars PROVE ContentHolds'
<1>1. CASE UNCHANGED contentVars
  BY <1>1 DEF contentVars, ContentHolds, ContentTypeOK, SlotsHold, SlotHolds, ExpiresAt,
     Retired, FewActive, Active, ReviewFits, ReviewHolds, InTime, DayOf, Agreement, Pending,
     ApprovalFits, PublicationFits, MatchesSubmission, InStatus
<1>. QED
  BY <1>1, CommandHolds, TickHolds DEF ContentNext

LEMMA ContentAlwaysHolds == ContentSpec => []ContentHolds
<1>1. ContentHolds /\ [ContentNext]_contentVars => ContentHolds'
  BY ContentNextHolds
<1>. QED
  BY <1>1, ContentInitHolds, PTL DEF ContentSpec

\* No history of commands writes a state that its own schema would refuse to read
\* back: review, approval, schedule, publication and slots agree in every state.
THEOREM SchemaIsKept == ContentSpec => []ContentSchema
BY ContentAlwaysHolds, HoldsImpliesSchema, PTL
-----------------------------------------------------------------------------
(* The facts.  One command writes at most one, the facts of a target follow *)
(* each other in the order of their versions, and the last one shows the    *)
(* slot or the review as it is.                                             *)

ReviewFacts ==
  [type : FactTypes, target : {"review"} \X (1 .. MaxVersion), source : Nat,
   snapshot : Reviews]
AssetFacts ==
  [type : FactTypes, target : {"asset"} \X Assets, source : Nat, snapshot : Slots]

OfReview(f) == f \in ReviewFacts /\ f.snapshot.id = f.target[2]
OfAsset(f) == f \in AssetFacts /\ f.snapshot.status # "none"

FactsTyped ==
  \A f \in facts :
    /\ OfReview(f) \/ OfAsset(f)
    /\ f.snapshot.source = f.source /\ f.source <= item.version

OneFactPerVersion == \A f, g \in facts : f.source = g.source => f = g

FactsFollow ==
  \A f, g \in facts :
    f.target = g.target /\ f.source < g.source =>
      MayFollow(f.target[1], f.snapshot, g.snapshot)

About(target) == {f \in facts : f.target = target}

\* The last fact about a target carries this snapshot.
Tells(target, snapshot) ==
  /\ \E f \in About(target) : f.snapshot = snapshot
  /\ \A f \in About(target) : f.source <= snapshot.source

SlotsTold ==
  \A a \in Assets :
    IF item.slots[a].status = "none" THEN About(<<"asset", a>>) = {}
    ELSE Tells(<<"asset", a>>, item.slots[a])

ReviewTold ==
  item.review # None =>
    item.review.id <= item.version /\ Tells(<<"review", item.review.id>>, item.review)

\* A review that is no longer the current one was told to be closed.
FormersTold ==
  \A f \in facts :
    f.target[1] = "review" =>
      /\ item.review # None /\ f.target[2] <= item.review.id
      /\ f.target[2] # item.review.id => \E g \in About(f.target) : Closed(g.snapshot)

FactsHold ==
  FactsTyped /\ OneFactPerVersion /\ FactsFollow /\ SlotsTold /\ ReviewTold /\ FormersTold

LEMMA ReviewsFollow ==
  ASSUME NEW a \in Reviews, NEW b \in Reviews, NEW c \in Reviews,
         MayFollowReview(a, b), MayFollowReview(b, c)
  PROVE  MayFollowReview(a, c)
BY DEF MayFollowReview, Closed, Reviews

LEMMA AssetsFollow ==
  ASSUME NEW a \in Slots, NEW b \in Slots, NEW c \in Slots,
         a.status # "none", b.status # "none", MayFollowAsset(a, b), MayFollowAsset(b, c)
  PROVE  MayFollowAsset(a, c)
BY DEF MayFollowAsset, Retired, Slots

LEMMA TargetOf ==
  ASSUME NEW f
  PROVE  /\ OfReview(f) => /\ f.target = <<"review", f.target[2]>> /\ f.target[1] = "review"
                           /\ f.target \in Targets /\ f.snapshot \in Reviews
                           /\ f.snapshot.source \in Nat /\ f.source \in Nat
         /\ OfAsset(f) => /\ f.target = <<"asset", f.target[2]>> /\ f.target[1] = "asset"
                          /\ f.target \in Targets /\ f.snapshot \in Slots
                          /\ f.snapshot.source \in Nat /\ f.source \in Nat
BY DEF OfReview, OfAsset, ReviewFacts, AssetFacts, Targets, Reviews, Slots

\* Every fact about a target is the last one or is followed by it.
LEMMA LastFollows ==
  ASSUME FactsHold, NEW target, NEW snapshot, Tells(target, snapshot), NEW f \in About(target)
  PROVE  f.snapshot = snapshot \/ MayFollow(target[1], f.snapshot, snapshot)
<1>1. PICK last \in About(target) : last.snapshot = snapshot
  BY DEF Tells
<1>2. /\ f \in facts /\ last \in facts /\ f.target = target /\ last.target = target
      /\ last.source = snapshot.source /\ f.source <= last.source
      /\ f.source \in Nat /\ last.source \in Nat
  BY <1>1, TargetOf DEF About, Tells, FactsHold, FactsTyped
<1>3. CASE f.source = last.source
  BY <1>1, <1>2, <1>3 DEF FactsHold, OneFactPerVersion
<1>4. CASE f.source < last.source
  BY <1>1, <1>2, <1>4 DEF FactsHold, FactsFollow
<1>. QED
  BY <1>2, <1>3, <1>4

\* A fact that follows all the facts about its target.
LEMMA FactAdded ==
  ASSUME ContentTypeOK, FactsHold, item'.version = Fresh,
         NEW n, OfReview(n) \/ OfAsset(n), facts' = facts \cup {n},
         n.source = Fresh, n.snapshot.source = Fresh,
         \A f \in About(n.target) : MayFollow(n.target[1], f.snapshot, n.snapshot)
  PROVE  FactsTyped' /\ OneFactPerVersion' /\ FactsFollow'
<1>1. item.version \in Nat /\ Fresh = item.version + 1
  BY DEF ContentTypeOK, Items, Fresh
<1>2. \A f \in facts : f.source \in Nat /\ f.source <= item.version
  BY TargetOf DEF FactsHold, FactsTyped
<1>3. FactsTyped'
  BY <1>1, <1>2 DEF FactsHold, FactsTyped, OfReview, OfAsset
<1>4. OneFactPerVersion'
  BY <1>1, <1>2 DEF FactsHold, OneFactPerVersion
<1>5. FactsFollow'
  <2>1. SUFFICES ASSUME NEW f \in facts', NEW g \in facts', f.target = g.target,
                        f.source < g.source
                 PROVE  MayFollow(f.target[1], f.snapshot, g.snapshot)
    BY DEF FactsFollow
  <2>2. f \in facts
    BY <1>1, <1>2, <2>1
  <2>3. CASE g \in facts
    BY <2>1, <2>2, <2>3 DEF FactsHold, FactsFollow
  <2>4. CASE g = n
    BY <2>1, <2>2, <2>4 DEF About
  <2>. QED
    BY <2>3, <2>4
<1>. QED
  BY <1>3, <1>4, <1>5

LEMMA OtherTargets ==
  ASSUME NEW n, facts' = facts \cup {n}, NEW target, target # n.target
  PROVE  About(target)' = About(target)
BY DEF About

LEMMA NewIsLast ==
  ASSUME FactsHold, ContentTypeOK, NEW n, facts' = facts \cup {n},
         n.source = Fresh, n.snapshot.source = Fresh
  PROVE  Tells(n.target, n.snapshot)'
<1>1. \A f \in facts : f.source \in Nat /\ f.source <= item.version
  BY TargetOf DEF FactsHold, FactsTyped
<1>2. item.version \in Nat /\ Fresh = item.version + 1
  BY DEF ContentTypeOK, Items, Fresh
<1>. QED
  BY <1>1, <1>2 DEF Tells, About

LEMMA QuietKeepsFacts ==
  ASSUME ContentHolds, FactsHold, ContentHolds', Quiet, item.version <= item'.version
  PROVE  FactsHold'
<1>1. item.version \in Nat /\ item'.version \in Nat
  BY DEF ContentHolds, ContentTypeOK, Items
<1>2. FactsTyped'
  <2>1. ASSUME NEW f \in facts PROVE f.source <= item'.version
    BY <1>1, TargetOf DEF FactsHold, FactsTyped
  <2>. QED
    BY <2>1 DEF Quiet, FactsHold, FactsTyped, OfReview, OfAsset
<1>3. ReviewTold'
  <2>1. SUFFICES ASSUME item.review # None
                 PROVE  /\ item.review.id <= item'.version
                        /\ Tells(<<"review", item.review.id>>, item.review)'
    BY DEF Quiet, ReviewTold, Tells, About
  <2>2. /\ item.review # None /\ item.review.id \in Nat /\ item.review.id <= item.version
        /\ Tells(<<"review", item.review.id>>, item.review)
    BY <2>1 DEF Quiet, FactsHold, ReviewTold, ContentHolds, ContentTypeOK, Items, Reviews
  <2>. QED
    BY <1>1, <2>2 DEF Quiet, Tells, About
<1>. QED
  BY <1>2, <1>3 DEF Quiet, FactsHold, OneFactPerVersion, FactsFollow, SlotsTold, Tells,
     About, FormersTold

LEMMA SlotStepKeepsFacts ==
  ASSUME ContentHolds, FactsHold, ContentHolds', item'.version = Fresh,
         NEW a \in Assets, SlotStep(a)
  PROVE  FactsHold'
<1>1. PICK type \in FactTypes : facts' = facts \cup {AssetFact(type, a, item'.slots[a])}
  BY DEF SlotStep
<1>2. SUFFICES ASSUME NEW slot, slot = item'.slots[a],
                      NEW n, n = AssetFact(type, a, slot)
               PROVE  FactsHold'
  OBVIOUS
<1>3. /\ facts' = facts \cup {n} /\ slot \in Slots /\ slot.status # "none"
      /\ slot.source = Fresh /\ Fresh \in Nat /\ Fresh = item.version + 1
      /\ item.version \in Nat /\ item.slots[a] \in Slots /\ ContentTypeOK
  BY <1>1, <1>2 DEF SlotStep, ContentHolds, ContentTypeOK, Items, Fresh
<1>4. /\ n.target = <<"asset", a>> /\ n.target[1] = "asset" /\ n.snapshot = slot
      /\ n.source = Fresh
  BY <1>2 DEF AssetFact, Fact
<1>5. OfAsset(n)
  BY <1>2, <1>3 DEF OfAsset, AssetFacts, AssetFact, Fact
<1>6. ASSUME NEW f \in About(n.target)
      PROVE  MayFollow(n.target[1], f.snapshot, n.snapshot)
  <2>1. item.slots[a].status # "none" /\ Tells(<<"asset", a>>, item.slots[a])
    BY <1>4, <1>6 DEF FactsHold, SlotsTold
  <2>2. MayFollowAsset(item.slots[a], slot)
    BY <1>2, <2>1 DEF SlotStep
  <2>3. /\ f \in facts /\ f.target[1] = "asset" /\ OfAsset(f) /\ f.snapshot \in Slots
        /\ f.snapshot.status # "none" /\ f.snapshot.source = f.source
        /\ f.source <= item.version /\ f.source \in Nat
    BY <1>4, <1>6, TargetOf DEF About, FactsHold, FactsTyped, OfAsset
  <2>4. f.snapshot = item.slots[a] \/ MayFollowAsset(f.snapshot, item.slots[a])
    BY <1>4, <1>6, <2>1, LastFollows DEF MayFollow
  <2>5. MayFollowAsset(f.snapshot, slot)
    BY <1>3, <2>1, <2>2, <2>3, <2>4, AssetsFollow
  <2>. QED
    BY <1>3, <1>4, <2>3, <2>5 DEF MayFollow
<1>7. FactsTyped' /\ OneFactPerVersion' /\ FactsFollow'
  BY <1>3, <1>4, <1>5, <1>6, FactAdded
<1>8. \A target : target # <<"asset", a>> => About(target)' = About(target)
  BY <1>3, <1>4, OtherTargets
<1>9. SlotsTold'
  <2>1. SUFFICES ASSUME NEW b \in Assets
                 PROVE  IF item'.slots[b].status = "none" THEN About(<<"asset", b>>)' = {}
                        ELSE Tells(<<"asset", b>>, item.slots[b])'
    BY DEF SlotsTold, Tells, About
  <2>2. CASE b = a
    BY <1>2, <1>3, <1>4, <2>2, NewIsLast DEF Tells, About
  <2>3. CASE b # a
    <3>1. About(<<"asset", b>>)' = About(<<"asset", b>>)
      BY <1>8, <2>3
    <3>2. item'.slots[b] = item.slots[b]
      BY <2>3 DEF SlotStep
    <3>. QED
      BY <3>1, <3>2 DEF FactsHold, SlotsTold, Tells
  <2>. QED
    BY <2>2, <2>3
<1>10. \A id : About(<<"review", id>>)' = About(<<"review", id>>)
  BY <1>8
<1>11. ReviewTold'
  <2>1. SUFFICES ASSUME item.review # None
                 PROVE  /\ item.review.id <= item'.version
                        /\ Tells(<<"review", item.review.id>>, item.review)'
    BY DEF ReviewTold, SlotStep, Tells, About
  <2>2. /\ item.review.id \in Nat /\ item.review.id <= item.version
        /\ Tells(<<"review", item.review.id>>, item.review)
    BY <2>1 DEF FactsHold, ReviewTold, ContentHolds, ContentTypeOK, Items, Reviews
  <2>3. item'.review = item.review
    BY DEF SlotStep
  <2>. QED
    BY <1>3, <1>10, <2>2, <2>3 DEF Tells
<1>12. FormersTold'
  <2>1. SUFFICES ASSUME NEW f \in facts', f.target[1] = "review"
                 PROVE  /\ item'.review # None /\ f.target[2] <= item'.review.id
                        /\ f.target[2] # item'.review.id =>
                             \E g \in About(f.target)' : Closed(g.snapshot)
    BY DEF FormersTold, About
  <2>2. f \in facts
    BY <1>3, <1>4, <2>1
  <2>3. About(f.target)' = About(f.target)
    BY <1>8, <2>1
  <2>. QED
    BY <2>1, <2>2, <2>3 DEF FactsHold, FormersTold, SlotStep
<1>. QED
  BY <1>7, <1>9, <1>11, <1>12 DEF FactsHold

LEMMA ReviewIsTold ==
  ASSUME ContentHolds, FactsHold, ContentHolds', item'.version = Fresh, ReviewStep,
         FormersTold', NEW review \in Reviews, review = item'.review,
         NEW type \in FactTypes, NEW n, n = ReviewFact(type, review), facts' = facts \cup {n},
         review.source = Fresh, review.id \in 1 .. MaxVersion, review.id <= Fresh,
         \A f \in About(n.target) : MayFollow(n.target[1], f.snapshot, n.snapshot)
  PROVE  FactsHold'
<1>1. /\ n.target = <<"review", review.id>> /\ n.snapshot = review /\ n.source = Fresh
      /\ Fresh \in Nat /\ ContentTypeOK
  BY DEF ReviewFact, Fact, ContentHolds, ContentTypeOK, Items, Fresh
<1>2. OfReview(n)
  BY <1>1 DEF OfReview, ReviewFacts, ReviewFact, Fact
<1>3. FactsTyped' /\ OneFactPerVersion' /\ FactsFollow'
  BY <1>1, <1>2, FactAdded
<1>4. ReviewTold'
  BY <1>1, NewIsLast DEF ReviewTold, Tells, About
<1>5. SlotsTold'
  <2>1. SUFFICES ASSUME NEW a \in Assets
                 PROVE  IF item'.slots[a].status = "none" THEN About(<<"asset", a>>)' = {}
                        ELSE Tells(<<"asset", a>>, item.slots[a])'
    BY DEF SlotsTold, Tells, About
  <2>2. About(<<"asset", a>>)' = About(<<"asset", a>>)
    BY <1>1, OtherTargets
  <2>3. item'.slots = item.slots
    BY DEF ReviewStep
  <2>. QED
    BY <2>2, <2>3 DEF FactsHold, SlotsTold, Tells
<1>. QED
  BY <1>3, <1>4, <1>5 DEF FactsHold

\* A new review has an id that no fact knows.
LEMMA NewReviewIsUnknown ==
  ASSUME ContentHolds, FactsHold, NEW f \in facts, f.target[1] = "review"
  PROVE  /\ item.review # None /\ f.target[2] \in Nat
         /\ f.target[2] <= item.review.id /\ item.review.id <= item.version
         /\ item.review.id \in Nat /\ item.version \in Nat
         /\ f.target[2] # Fresh
<1>1. item.review # None /\ f.target[2] <= item.review.id /\ item.review.id <= item.version
  BY DEF FactsHold, FormersTold, ReviewTold
<1>2. item.review.id \in Nat /\ item.version \in Nat
  BY <1>1 DEF ContentHolds, ContentTypeOK, Items, Reviews
<1>3. OfReview(f) /\ f.target[2] \in Nat
  BY TargetOf, ContentAssumption DEF FactsHold, FactsTyped, OfReview, ReviewFacts
<1>. QED
  BY <1>1, <1>2, <1>3 DEF Fresh

LEMMA ReviewStepKeepsFacts ==
  ASSUME ContentHolds, FactsHold, ContentHolds', item'.version = Fresh,
         Fresh \in 1 .. MaxVersion, ReviewStep
  PROVE  FactsHold'
<1>1. PICK type \in FactTypes : facts' = facts \cup {ReviewFact(type, item'.review)}
  BY DEF ReviewStep
<1>2. SUFFICES ASSUME NEW review, review = item'.review,
                      NEW n, n = ReviewFact(type, review)
               PROVE  FactsHold'
  OBVIOUS
<1>3. /\ facts' = facts \cup {n} /\ review \in Reviews /\ review # None
      /\ review.source = Fresh /\ Fresh \in Nat /\ Fresh = item.version + 1
      /\ item.version \in Nat /\ item.review \in Reviews \cup {None} /\ ContentTypeOK
  BY <1>1, <1>2 DEF ReviewStep, ContentHolds, ContentTypeOK, Items, Fresh
<1>4. /\ n.target = <<"review", review.id>> /\ n.target[1] = "review"
      /\ n.target[2] = review.id /\ n.snapshot = review /\ n.source = Fresh
  BY <1>2 DEF ReviewFact, Fact
<1>5. CASE Pending
  <2>1. /\ item.review # None /\ item.review \in Reviews
        /\ Tells(<<"review", item.review.id>>, item.review)
        /\ review.id = item.review.id /\ MayFollowReview(item.review, review)
    BY <1>2, <1>3, <1>5 DEF Pending, ReviewStep, FactsHold, ReviewTold
  <2>2. review.id \in 1 .. MaxVersion
    <3>1. PICK f \in facts : f.target = <<"review", review.id>>
      BY <2>1 DEF Tells, About
    <3>2. f.target \in {"review"} \X (1 .. MaxVersion)
      BY <3>1 DEF FactsHold, FactsTyped, OfReview, OfAsset, ReviewFacts, AssetFacts
    <3>. QED
      BY <3>1, <3>2
  <2>3. ASSUME NEW f \in About(n.target)
        PROVE  MayFollow(n.target[1], f.snapshot, n.snapshot)
    <3>1. /\ f \in facts /\ f.target[1] = "review" /\ OfReview(f) /\ f.snapshot \in Reviews
          /\ f.snapshot.source = f.source /\ f.source <= item.version /\ f.source \in Nat
      BY <1>4, <2>3, TargetOf DEF About, FactsHold, FactsTyped, OfReview
    <3>2. f.snapshot = item.review \/ MayFollowReview(f.snapshot, item.review)
      BY <1>4, <2>1, <2>3, LastFollows DEF MayFollow
    <3>3. MayFollowReview(f.snapshot, review)
      BY <1>3, <2>1, <3>1, <3>2, ReviewsFollow
    <3>. QED
      BY <1>3, <1>4, <3>1, <3>3 DEF MayFollow
  <2>4. FormersTold'
    <3>1. SUFFICES ASSUME NEW f \in facts', f.target[1] = "review"
                   PROVE  /\ f.target[2] <= review.id
                          /\ f.target[2] # review.id =>
                               \E g \in About(f.target)' : Closed(g.snapshot)
      BY <1>2, <1>3 DEF FormersTold, About
    <3>2. CASE f = n
      BY <1>3, <1>4, <3>2 DEF Reviews
    <3>3. CASE f \in facts
      <4>1. About(f.target) \subseteq About(f.target)'
        BY <1>3 DEF About
      <4>. QED
        BY <2>1, <3>1, <3>3, <4>1 DEF FactsHold, FormersTold
    <3>. QED
      BY <1>3, <3>2, <3>3
  <2>5. item.review.id <= item.version /\ item.review.id \in Nat
    BY <2>1 DEF FactsHold, ReviewTold, Reviews
  <2>. QED
    BY <1>2, <1>3, <2>1, <2>2, <2>3, <2>4, <2>5, ReviewIsTold
<1>6. CASE ~Pending
  <2>1. review.id = Fresh
    BY <1>2, <1>6 DEF ReviewStep
  <2>2. About(n.target) = {}
    BY <1>4, <2>1, NewReviewIsUnknown DEF About
  <2>3. FormersTold'
    <3>1. SUFFICES ASSUME NEW f \in facts', f.target[1] = "review"
                   PROVE  /\ f.target[2] <= review.id
                          /\ f.target[2] # review.id =>
                               \E g \in About(f.target)' : Closed(g.snapshot)
      BY <1>2, <1>3 DEF FormersTold, About
    <3>2. CASE f = n
      BY <1>3, <1>4, <3>2 DEF Reviews
    <3>3. CASE f \in facts
      <4>1. About(f.target) \subseteq About(f.target)'
        BY <1>3 DEF About
      <4>2. /\ item.review # None /\ f.target[2] <= item.review.id /\ f.target[2] \in Nat
            /\ item.review.id <= item.version /\ item.review.id \in Nat
        BY <3>1, <3>3, NewReviewIsUnknown
      <4>3. \E g \in About(f.target) : Closed(g.snapshot)
        <5>1. CASE f.target[2] = item.review.id
          <6>1. f.target = <<"review", item.review.id>>
            BY <3>1, <3>3, <5>1, TargetOf DEF FactsHold, FactsTyped
          <6>2. Closed(item.review) /\ Tells(f.target, item.review)
            BY <1>6, <4>2, <6>1 DEF Pending, Closed, FactsHold, ReviewTold
          <6>. QED
            BY <6>2 DEF Tells
        <5>2. CASE f.target[2] # item.review.id
          BY <3>1, <3>3, <5>2 DEF FactsHold, FormersTold
        <5>. QED
          BY <5>1, <5>2
      <4>. QED
        BY <1>3, <2>1, <4>1, <4>2, <4>3
    <3>. QED
      BY <1>3, <3>2, <3>3
  <2>. QED
    BY <1>2, <1>3, <2>1, <2>2, <2>3, ReviewIsTold
<1>. QED
  BY <1>5, <1>6

LEMMA ContentInitFacts == ContentInit => FactsHold
BY DEF ContentInit, FactsHold, FactsTyped, OneFactPerVersion, FactsFollow, SlotsTold,
   ReviewTold, FormersTold, About, EmptySlot

LEMMA ContentNextFacts ==
  ASSUME ContentHolds, FactsHold, [ContentNext]_contentVars
  PROVE  FactsHold' /\ facts \subseteq facts'
<1>1. ContentHolds'
  BY ContentNextHolds
<1>2. item.version \in Nat
  BY DEF ContentHolds, ContentTypeOK, Items
<1>3. CASE Command
  <2>1. Moves /\ item'.version = Fresh /\ Fresh \in 1 .. MaxVersion
    BY <1>3, CommandHolds
  <2>2. CASE Quiet
    BY <1>1, <1>2, <2>1, <2>2, QuietKeepsFacts DEF Quiet, Fresh
  <2>3. CASE ReviewStep
    BY <1>1, <2>1, <2>3, ReviewStepKeepsFacts DEF ReviewStep
  <2>4. ASSUME NEW a \in Assets, SlotStep(a) PROVE FactsHold' /\ facts \subseteq facts'
    BY <1>1, <2>1, <2>4, SlotStepKeepsFacts DEF SlotStep
  <2>. QED
    BY <2>1, <2>2, <2>3, <2>4 DEF Moves
<1>4. CASE Tick \/ UNCHANGED contentVars
  <2>1. Quiet /\ item' = item
    BY <1>4 DEF Tick, contentVars, Quiet
  <2>. QED
    BY <1>1, <1>2, <2>1, QuietKeepsFacts DEF Quiet
<1>. QED
  BY <1>3, <1>4 DEF ContentNext
-----------------------------------------------------------------------------
(* The workers.  A view is the snapshot of some fact; a settled fact and a  *)
(* committed command have a view at least as new; and a worker about to     *)
(* dispatch has seen an older view, if the view is still the one it saw.    *)

Deliveries ==
  [pc : {"idle", "load", "dispatch"}, fact : facts \cup {None}, seen : Nat, attempt : Nat]

WorkersTypeOK ==
  /\ views \in [Targets -> Views \cup {None}]
  /\ worker \in [Workers -> Deliveries]
  /\ \A w \in Workers : worker[w].pc # "idle" => worker[w].fact \in facts

ViewsAreFacts ==
  \A target \in Targets :
    views[target] # None => \E f \in About(target) : f.snapshot = views[target].snapshot

Shown(fact) == views[fact.target] # None /\ Superseding(views[fact.target], fact)

AnsweredAreShown ==
  /\ settled \subseteq facts /\ \A fact \in settled : Shown(fact)
  /\ \A key \in commands : key[1] \in facts /\ Shown(key[1])

LoadedIsOlder ==
  \A w \in Workers :
    worker[w].pc = "dispatch" =>
      /\ worker[w].seen <= VersionOf(worker[w].fact.target)
      /\ Current(w) => ~Shown(worker[w].fact)

ViewsHold == WorkersTypeOK /\ ViewsAreFacts /\ AnsweredAreShown /\ LoadedIsOlder

\* No snapshot a worker finds newer than its view is one the view refuses.
LEMMA HoldsNeverRefuses == FactsHold /\ ViewsHold => NeverRefused
<1>1. SUFFICES ASSUME FactsHold, ViewsHold, NEW w \in Workers,
                      worker[w].pc = "dispatch", Current(w),
                      views[worker[w].fact.target] # None
               PROVE  MayFollow(worker[w].fact.target[1], views[worker[w].fact.target].snapshot,
                                worker[w].fact.snapshot)
  BY DEF NeverRefused, Refused, Accepts
<1> DEFINE fact == worker[w].fact
           view == views[fact.target]
<1>2. /\ fact \in facts /\ fact.target \in Targets /\ ~(view.snapshot.source >= fact.source)
      /\ fact.source \in Nat
  BY <1>1, TargetOf
  DEF ViewsHold, WorkersTypeOK, LoadedIsOlder, Shown, Superseding, FactsHold, FactsTyped
<1>3. PICK f \in About(fact.target) : f.snapshot = view.snapshot
  BY <1>1, <1>2 DEF ViewsHold, ViewsAreFacts
<1>4. f \in facts /\ f.target = fact.target /\ f.source = view.snapshot.source /\ f.source \in Nat
  BY <1>1, <1>3, TargetOf DEF About, FactsHold, FactsTyped
<1>. QED
  BY <1>1, <1>2, <1>3, <1>4 DEF FactsHold, FactsFollow

\* What is shown of a target when its last fact is: that fact, and nothing else.
LEMMA ShownIsLast ==
  ASSUME FactsHold, ViewsHold, NEW target \in Targets, NEW snapshot,
         Tells(target, snapshot), \A f \in About(target) : Shown(f)
  PROVE  views[target] # None /\ views[target].snapshot = snapshot
<1>1. PICK last \in About(target) : last.snapshot = snapshot
  BY DEF Tells
<1>2. /\ last \in facts /\ last.target = target /\ last.source = snapshot.source
      /\ views[target] # None /\ views[target].snapshot.source >= last.source
      /\ last.source \in Nat
  BY <1>1, TargetOf DEF About, Shown, Superseding, FactsHold, FactsTyped
<1>3. PICK f \in About(target) : f.snapshot = views[target].snapshot
  BY <1>2 DEF ViewsHold, ViewsAreFacts
<1>4. f \in facts /\ f.source = f.snapshot.source /\ f.source <= last.source /\ f.source \in Nat
  BY <1>2, <1>3, TargetOf DEF About, Tells, FactsHold, FactsTyped
<1>5. f.source = last.source
  BY <1>2, <1>3, <1>4
<1>6. f = last
  BY <1>2, <1>4, <1>5 DEF FactsHold, OneFactPerVersion
<1>. QED
  BY <1>1, <1>2, <1>3, <1>6

LEMMA HoldsConverges == FactsHold /\ ViewsHold => Converged
<1>1. SUFFICES ASSUME FactsHold, ViewsHold, facts \subseteq settled
               PROVE  /\ \A a \in Assets : item.slots[a].status # "none" => ShowsAsset(a)
                      /\ \A fact \in facts :
                           fact.target[1] = "review" => ShowsReview(fact.target[2])
  BY DEF Converged
<1>2. \A f \in facts : Shown(f)
  BY <1>1 DEF ViewsHold, AnsweredAreShown
<1>3. ASSUME NEW a \in Assets, item.slots[a].status # "none" PROVE ShowsAsset(a)
  <2>1. Tells(<<"asset", a>>, item.slots[a]) /\ <<"asset", a>> \in Targets
    BY <1>1, <1>3 DEF FactsHold, SlotsTold, Targets
  <2>. QED
    BY <1>1, <1>2, <2>1, ShownIsLast DEF ShowsAsset, About
<1>4. ASSUME NEW fact \in facts, fact.target[1] = "review"
      PROVE  ShowsReview(fact.target[2])
  <2>1. /\ fact.target = <<"review", fact.target[2]>> /\ fact.target \in Targets
        /\ OfReview(fact)
    BY <1>1, <1>4, TargetOf DEF FactsHold, FactsTyped
  <2>2. item.review # None
    BY <1>1, <1>4 DEF FactsHold, FormersTold
  <2>3. CASE fact.target[2] = item.review.id
    <3>1. Tells(fact.target, item.review)
      BY <1>1, <2>1, <2>2, <2>3 DEF FactsHold, ReviewTold
    <3>. QED
      BY <1>1, <1>2, <2>1, <3>1, ShownIsLast DEF ShowsReview, About
  <2>4. CASE fact.target[2] # item.review.id
    <3>1. PICK g \in About(fact.target) : Closed(g.snapshot)
      BY <1>1, <1>4, <2>4 DEF FactsHold, FormersTold
    <3>2. /\ g \in facts /\ g.target = fact.target /\ g.source \in Nat
          /\ views[fact.target] # None /\ views[fact.target].snapshot.source >= g.source
      BY <1>1, <1>2, <3>1, TargetOf DEF About, Shown, Superseding, FactsHold, FactsTyped
    <3>3. PICK h \in About(fact.target) : h.snapshot = views[fact.target].snapshot
      BY <1>1, <2>1, <3>2 DEF ViewsHold, ViewsAreFacts
    <3>4. /\ h \in facts /\ h.target = g.target /\ h.source \in Nat
          /\ h.source = views[fact.target].snapshot.source /\ h.source >= g.source
      BY <1>1, <3>2, <3>3, TargetOf DEF About, FactsHold, FactsTyped
    <3>5. h = g \/ MayFollow("review", g.snapshot, h.snapshot)
      BY <1>1, <1>4, <3>2, <3>4 DEF FactsHold, OneFactPerVersion, FactsFollow
    <3>6. Closed(h.snapshot)
      BY <3>1, <3>5 DEF MayFollow, MayFollowReview, Closed
    <3>. QED
      BY <2>1, <2>4, <3>2, <3>3, <3>6 DEF ShowsReview
  <2>. QED
    BY <2>3, <2>4
<1>. QED
  BY <1>3, <1>4
-----------------------------------------------------------------------------
(* The steps of the workers.                                               *)

LEMMA InitViews == Init => ViewsHold
BY NoneAssumption
DEF Init, ContentInit, ViewsHold, WorkersTypeOK, Deliveries, Idle, ViewsAreFacts,
    AnsweredAreShown, LoadedIsOlder

LEMMA VersionType ==
  ASSUME WorkersTypeOK, NEW target \in Targets
  PROVE  VersionOf(target) \in Nat
BY DEF WorkersTypeOK, VersionOf, Views

\* Facts only come to be: what the workers know of them stays.
LEMMA ContentKeepsViews ==
  ASSUME ViewsHold, facts \subseteq facts', UNCHANGED <<views, commands, worker, settled>>
  PROVE  ViewsHold'
<1>1. UNCHANGED <<views, commands, worker, settled>>
  OBVIOUS
<1>2. \A target : About(target) \subseteq About(target)'
  BY DEF About
<1>3. WorkersTypeOK' /\ LoadedIsOlder'
  BY <1>1 DEF ViewsHold, WorkersTypeOK, Deliveries, LoadedIsOlder, VersionOf, Current, Shown,
     Superseding
<1>4. ViewsAreFacts' /\ AnsweredAreShown'
  BY <1>1, <1>2 DEF ViewsHold, ViewsAreFacts, AnsweredAreShown, Shown, Superseding
<1>. QED
  BY <1>3, <1>4 DEF ViewsHold

\* A worker that moves on, and may settle what is shown.
LEMMA WorkerMoves ==
  ASSUME ViewsHold, NEW w \in Workers, NEW next \in Deliveries,
         worker' = [worker EXCEPT ![w] = next], UNCHANGED <<facts, views, commands>>,
         next.pc # "idle" => next.fact \in facts,
         next.pc = "dispatch" =>
           next.seen = VersionOf(next.fact.target) /\ ~Shown(next.fact),
         \A f \in settled' \ settled : f \in facts /\ Shown(f)
  PROVE  ViewsHold'
<1>1. \A x \in Workers : worker'[x] = IF x = w THEN next ELSE worker[x]
  BY DEF ViewsHold, WorkersTypeOK
<1>2. \A f : Shown(f)' <=> Shown(f)
  BY DEF Shown, Superseding
<1>3. \A target : About(target)' = About(target) /\ VersionOf(target)' = VersionOf(target)
  BY DEF About, VersionOf
<1>4. WorkersTypeOK'
  BY <1>1 DEF ViewsHold, WorkersTypeOK, Deliveries
<1>5. ViewsAreFacts'
  BY <1>3 DEF ViewsHold, ViewsAreFacts
<1>6. AnsweredAreShown'
  BY <1>2 DEF ViewsHold, AnsweredAreShown
<1>7. LoadedIsOlder'
  <2>1. SUFFICES ASSUME NEW x \in Workers, worker'[x].pc = "dispatch"
                 PROVE  /\ worker'[x].seen <= VersionOf(worker'[x].fact.target)
                        /\ VersionOf(worker'[x].fact.target) = worker'[x].seen
                             => ~Shown(worker'[x].fact)
    BY <1>2, <1>3 DEF LoadedIsOlder, Current, Shown, Superseding, VersionOf
  <2>2. CASE x = w
    BY <1>1, <2>1, <2>2 DEF Deliveries
  <2>3. CASE x # w
    BY <1>1, <2>1, <2>3 DEF ViewsHold, LoadedIsOlder, Current
  <2>. QED
    BY <2>2, <2>3
<1>. QED
  BY <1>4, <1>5, <1>6, <1>7 DEF ViewsHold

LEMMA IdleDelivers == Idle \in Deliveries /\ Idle.pc = "idle"
BY DEF Idle, Deliveries

LEMMA FailKeeps ==
  ASSUME ViewsHold, NEW w \in Workers, Fail(w), UNCHANGED <<facts, views, commands>>
  PROVE  ViewsHold'
BY IdleDelivers, WorkerMoves DEF Fail

LEMMA SettleKeeps ==
  ASSUME ViewsHold, NEW w \in Workers, Settle(w), UNCHANGED <<facts, views, commands>>,
         worker[w].fact \in facts, Shown(worker[w].fact)
  PROVE  ViewsHold'
<1>1. ASSUME NEW f \in settled' \ settled PROVE f \in facts /\ Shown(f)
  <2>1. f = worker[w].fact
    BY <1>1 DEF Settle
  <2>. QED
    BY <2>1
<1>. QED
  BY <1>1, IdleDelivers, WorkerMoves DEF Settle

LEMMA DeliverKeeps ==
  ASSUME ViewsHold, NEW w \in Workers, NEW fact \in facts, Deliver(w, fact)
  PROVE  ViewsHold'
<1>1. SUFFICES ASSUME NEW next, next = [Idle EXCEPT !.pc = "load", !.fact = fact]
              PROVE  ViewsHold'
  OBVIOUS
<1>2. next \in Deliveries /\ next.pc = "load" /\ next.fact = fact
  BY <1>1, IdleDelivers DEF Deliveries
<1>3. /\ worker' = [worker EXCEPT ![w] = next] /\ UNCHANGED <<facts, views, commands>>
      /\ settled' = settled
  BY <1>1 DEF Deliver, contentVars
<1>. QED
  BY <1>2, <1>3, WorkerMoves

LEMMA LoadKeeps ==
  ASSUME ViewsHold, FactsHold, NEW w \in Workers, Load(w)
  PROVE  ViewsHold'
<1> DEFINE me == worker[w]
<1>1. /\ me \in Deliveries /\ me.fact \in facts /\ me.fact.target \in Targets
      /\ UNCHANGED <<facts, views, commands>>
  BY TargetOf DEF Load, contentVars, ViewsHold, WorkersTypeOK, FactsHold, FactsTyped
<1>2. CASE /\ ~Shown(me.fact) /\ settled' = settled
           /\ worker' = [worker EXCEPT ![w].pc = "dispatch",
                                       ![w].seen = VersionOf(me.fact.target)]
  <2>1. SUFFICES ASSUME NEW seen, seen = VersionOf(me.fact.target),
                        NEW next, next = [me EXCEPT !.pc = "dispatch", !.seen = seen]
                 PROVE  ViewsHold'
    OBVIOUS
  <2>2. seen \in Nat
    BY <1>1, <2>1, VersionType DEF ViewsHold
  <2>3. next \in Deliveries /\ next.pc = "dispatch" /\ next.fact = me.fact /\ next.seen = seen
    BY <1>1, <2>1, <2>2 DEF Deliveries
  <2>4. worker' = [worker EXCEPT ![w] = next]
    BY <1>2, <2>1 DEF ViewsHold, WorkersTypeOK, Deliveries
  <2>. QED
    BY <1>1, <1>2, <2>1, <2>3, <2>4, WorkerMoves
<1>3. CASE Shown(me.fact) /\ Settle(w)
  BY <1>1, <1>3, SettleKeeps
<1>4. CASE Fail(w)
  BY <1>1, <1>4, FailKeeps
<1>. QED
  BY <1>2, <1>3, <1>4 DEF Load, Shown

\* A commit replaces an older view, if any: what was shown is shown, and who had seen
\* the old view no longer dispatches on it.
LEMMA CommitKeeps ==
  ASSUME ViewsHold, FactsHold, NEW w \in Workers, worker[w].pc = "dispatch", Current(w),
         Commit(worker[w].fact.target, worker[w].fact,
                <<worker[w].fact, worker[w].seen>>),
         facts' = facts, worker' = [worker EXCEPT ![w] = Idle],
         \A f \in settled' \ settled : f = worker[w].fact
  PROVE  ViewsHold'
<1> DEFINE fact == worker[w].fact
           target == fact.target
           version == VersionOf(target) + 1
<1>1. /\ fact \in facts /\ target \in Targets /\ fact \in About(target)
      /\ fact.snapshot.source = fact.source /\ fact.source \in Nat
      /\ fact.snapshot \in Reviews \cup Slots
      /\ VersionOf(target) \in Nat
  <2>1. fact \in facts
    BY DEF ViewsHold, WorkersTypeOK
  <2>2. /\ target \in Targets /\ fact.snapshot.source = fact.source /\ fact.source \in Nat
        /\ fact.snapshot \in Reviews \cup Slots
    BY <2>1, TargetOf DEF FactsHold, FactsTyped
  <2>. QED
    BY <2>1, <2>2, VersionType DEF About, ViewsHold
<1>2. SUFFICES ASSUME NEW view, view = [version |-> version, snapshot |-> fact.snapshot]
              PROVE  ViewsHold'
  OBVIOUS
<1>3. /\ view \in Views /\ view # None
      /\ view.version = VersionOf(target) + 1 /\ view.snapshot = fact.snapshot
  BY <1>1, <1>2, ViewAssumption DEF Views
<1>4. \A t \in Targets : views'[t] = IF t = target THEN view ELSE views[t]
  BY <1>2 DEF Commit, ViewsHold, WorkersTypeOK
<1>5. \A t : About(t)' = About(t)
  BY DEF About
<1>6. WorkersTypeOK'
  <2>1. views' \in [Targets -> Views \cup {None}]
    BY <1>2, <1>3 DEF Commit, ViewsHold, WorkersTypeOK
  <2>. QED
    BY <2>1, IdleDelivers DEF ViewsHold, WorkersTypeOK, Deliveries
<1>7. ViewsAreFacts'
  BY <1>1, <1>3, <1>4, <1>5 DEF ViewsHold, ViewsAreFacts
<1>8. ~Shown(fact)
  BY DEF ViewsHold, LoadedIsOlder
<1>9. ASSUME NEW f \in facts, Shown(f) \/ f = fact PROVE Shown(f)'
  <2>1. f.target \in Targets /\ f.source \in Nat
    BY TargetOf DEF FactsHold, FactsTyped
  <2>2. CASE f.target # target
    BY <1>4, <1>9, <2>1, <2>2 DEF Shown, Superseding
  <2>3. CASE f = fact
    BY <1>1, <1>3, <1>4, <2>3 DEF Shown, Superseding
  <2>4. CASE f.target = target /\ f # fact
    <3>1. /\ views[target] # None /\ views[target].snapshot.source >= f.source
          /\ ~(views[target].snapshot.source >= fact.source)
      BY <1>8, <1>9, <2>4 DEF Shown, Superseding
    <3>2. views[target].snapshot.source \in Nat
      BY <1>1, <3>1 DEF ViewsHold, WorkersTypeOK, Views, Reviews, Slots
    <3>3. fact.source >= f.source
      BY <1>1, <2>1, <3>1, <3>2
    <3>. QED
      BY <1>1, <1>3, <1>4, <2>4, <3>3 DEF Shown, Superseding
  <2>. QED
    BY <2>2, <2>3, <2>4
<1>10. AnsweredAreShown'
  <2>1. settled' \subseteq facts /\ \A f \in settled' : f = fact \/ Shown(f)
    BY <1>1 DEF ViewsHold, AnsweredAreShown
  <2>2. ASSUME NEW key \in commands'
        PROVE  key[1] \in facts /\ (key[1] = fact \/ Shown(key[1]))
    <3>1. key \in commands \/ key[1] = fact
      BY <2>2 DEF Commit
    <3>. QED
      BY <1>1, <3>1 DEF ViewsHold, AnsweredAreShown
  <2>3. \A key \in commands' : key[1] \in facts' /\ Shown(key[1])'
    BY <1>9, <2>2
  <2>4. \A f \in settled' : Shown(f)'
    BY <1>9, <2>1
  <2>. QED
    BY <2>1, <2>3, <2>4 DEF AnsweredAreShown, Shown, Superseding
<1>11. LoadedIsOlder'
  <2>1. SUFFICES ASSUME NEW x \in Workers, worker'[x].pc = "dispatch"
                 PROVE  /\ worker'[x].seen <= VersionOf(worker[x].fact.target)'
                        /\ Current(x)' => ~Shown(worker[x].fact)'
    BY DEF LoadedIsOlder
  <2>2. x # w /\ worker'[x] = worker[x]
    BY <2>1, IdleDelivers DEF ViewsHold, WorkersTypeOK
  <2>3. /\ worker[x].fact \in facts /\ worker[x].fact.target \in Targets
        /\ worker[x].seen \in Nat /\ worker[x].seen <= VersionOf(worker[x].fact.target)
        /\ Current(x) => ~Shown(worker[x].fact)
    BY <2>1, <2>2, TargetOf
    DEF ViewsHold, LoadedIsOlder, WorkersTypeOK, Deliveries, FactsHold, FactsTyped
  <2>4. CASE worker[x].fact.target = target
    <3>1. VersionOf(worker[x].fact.target)' = VersionOf(target) + 1
      BY <1>3, <1>4, <2>2, <2>3, <2>4 DEF VersionOf
    <3>. QED
      BY <1>1, <2>2, <2>3, <2>4, <3>1 DEF Current
  <2>5. CASE worker[x].fact.target # target
    <3>1. /\ VersionOf(worker[x].fact.target)' = VersionOf(worker[x].fact.target)
          /\ Shown(worker[x].fact)' <=> Shown(worker[x].fact)
      BY <1>4, <2>2, <2>3, <2>5 DEF VersionOf, Shown, Superseding
    <3>. QED
      BY <2>2, <2>3, <3>1 DEF Current
  <2>. QED
    BY <2>4, <2>5
<1>. QED
  BY <1>6, <1>7, <1>10, <1>11 DEF ViewsHold

LEMMA DispatchKeeps ==
  ASSUME ViewsHold, FactsHold, NEW w \in Workers, Dispatch(w)
  PROVE  ViewsHold'
<1> DEFINE me == worker[w]
           key == <<me.fact, me.seen>>
<1>1. /\ me \in Deliveries /\ me.pc = "dispatch" /\ me.fact \in facts /\ facts' = facts
  BY DEF Dispatch, contentVars, ViewsHold, WorkersTypeOK
<1>2. CASE key \in commands /\ Settle(w) /\ UNCHANGED <<views, commands>>
  <2>1. key[1] = me.fact /\ Shown(me.fact)
    BY <1>2 DEF ViewsHold, AnsweredAreShown
  <2>. QED
    BY <1>1, <1>2, <2>1, SettleKeeps
<1>3. CASE Current(w) /\ Commit(me.fact.target, me.fact, key) /\ (Settle(w) \/ Fail(w))
  BY <1>1, <1>3, CommitKeeps DEF Settle, Fail
<1>4. CASE Fail(w) /\ UNCHANGED <<views, commands>>
  BY <1>1, <1>4, FailKeeps
<1>5. CASE /\ worker' = [worker EXCEPT ![w].pc = "load", ![w].seen = 0, ![w].attempt = @ + 1]
           /\ UNCHANGED <<views, commands, settled>>
  <2>1. SUFFICES ASSUME NEW next,
                        next = [me EXCEPT !.pc = "load", !.seen = 0, !.attempt = me.attempt + 1]
                 PROVE  ViewsHold'
    OBVIOUS
  <2>4. me.attempt + 1 \in Nat
    BY <1>1 DEF Deliveries
  <2>5. next \in Deliveries
    BY <1>1, <2>1, <2>4 DEF Deliveries
  <2>2. next \in Deliveries /\ next.pc = "load" /\ next.fact = me.fact
    BY <1>1, <2>1, <2>5 DEF Deliveries
  <2>3. worker' = [worker EXCEPT ![w] = next]
    BY <1>5, <2>1 DEF ViewsHold, WorkersTypeOK, Deliveries
  <2>. QED
    BY <1>1, <1>5, <2>2, <2>3, WorkerMoves
<1>6. CASE Retried(w) /\ UNCHANGED <<views, commands, settled>>
  BY <1>4, <1>5, <1>6 DEF Retried, Fail
<1>. QED
  BY <1>2, <1>3, <1>4, <1>6 DEF Dispatch
-----------------------------------------------------------------------------
MaterializationHolds == ContentHolds /\ FactsHold /\ ViewsHold

LEMMA DeliveryHolds ==
  ASSUME MaterializationHolds, Delivery PROVE MaterializationHolds'
<1>1. UNCHANGED contentVars
  BY DEF Delivery, Deliver, Load, Dispatch
<1>2. ContentHolds' /\ FactsHold'
  BY <1>1, ContentNextHolds, ContentNextFacts DEF MaterializationHolds
<1>. QED
  BY <1>2, DeliverKeeps, LoadKeeps, DispatchKeeps DEF MaterializationHolds, Delivery

LEMMA ContentStepHolds ==
  ASSUME MaterializationHolds, [ContentNext]_contentVars,
         UNCHANGED <<views, commands, worker, settled>>
  PROVE  MaterializationHolds' /\ facts \subseteq facts'
BY ContentNextHolds, ContentNextFacts, ContentKeepsViews DEF MaterializationHolds

LEMMA InitHolds == Init => MaterializationHolds
BY ContentInitHolds, ContentInitFacts, InitViews DEF MaterializationHolds, Init

LEMMA MaterializationAlwaysHolds == Spec => []MaterializationHolds
<1>1. MaterializationHolds /\ [Next]_vars => MaterializationHolds'
  BY DeliveryHolds, ContentStepHolds DEF Next, Content, vars, viewVars
<1>. QED
  BY <1>1, InitHolds, PTL DEF Spec
-----------------------------------------------------------------------------
(* The notifications.  What a sender carries and what is stored is a        *)
(* rendering of an event, and the name of a notification is that of its     *)
(* event: no two events share it, because no two have one source version.   *)

Letters == {[id |-> NoticeId(f), says |-> f, deliveredAt |-> t] : f \in Notable, t \in Nat}

SendersTypeOK ==
  /\ sender \in [Workers ->
       [pc : {"idle", "get", "write", "winner"}, notice : Letters \cup {None}]]
  /\ \A w \in Workers : sender[w].pc # "idle" => Notice(w) \in Letters

StoredOnce ==
  /\ notices \subseteq Letters
  /\ \A m, n \in notices : m.id = n.id => m = n

ToldIsStored == \A f \in told : \E n \in notices : n.says = f

NoticesHold == SendersTypeOK /\ StoredOnce /\ ToldIsStored

LEMMA LettersAre ==
  ASSUME NEW n \in Letters
  PROVE  n.says \in Notable /\ n.says \in facts /\ n.id = NoticeId(n.says)
BY DEF Letters, Notable

\* The name alone tells the event.
LEMMA OneEventPerName ==
  ASSUME FactsHold, NEW m \in Letters, NEW n \in Letters, m.id = n.id
  PROVE  m.says = n.says
<1>1. m.says.source = n.says.source
  BY LettersAre DEF NoticeId
<1>. QED
  BY <1>1, LettersAre DEF FactsHold, OneFactPerVersion

LEMMA HoldsToldOnce == FactsHold /\ NoticesHold => ToldOnce
<1> SUFFICES ASSUME FactsHold, NoticesHold PROVE ToldOnce
  OBVIOUS
<1>1. ASSUME NEW w \in Workers, sender[w].pc # "idle" PROVE ~Conflicts(w)
  <2>1. Notice(w) \in Letters /\ notices \subseteq Letters
    BY <1>1 DEF NoticesHold, SendersTypeOK, StoredOnce
  <2>2. ASSUME NEW stored \in Found(w) PROVE SameNotification(stored, Notice(w))
    BY <2>1, OneEventPerName DEF Found, SameNotification
  <2>. QED
    BY <2>2 DEF Conflicts
<1>2. ASSUME NEW fact \in Notable
      PROVE  LET sent == {stored \in notices : stored.says = fact} IN
             Cardinality(sent) <= 1 /\ (fact \in told => sent # {})
  <2> DEFINE sent == {stored \in notices : stored.says = fact}
  <2>1. ASSUME NEW m \in sent, NEW n \in sent PROVE m = n
    BY LettersAre DEF NoticesHold, StoredOnce
  <2>2. sent = {} \/ \E m : sent = {m}
    BY <2>1
  <2>3. Cardinality(sent) <= 1
    <3>1. CASE sent = {}
      BY <3>1, FS_EmptySet
    <3>2. ASSUME NEW m, sent = {m} PROVE Cardinality(sent) = 1
      BY <3>2, FS_Singleton
    <3>. HIDE DEF sent
    <3>. QED
      BY <2>2, <3>1, <3>2
  <2>4. fact \in told => sent # {}
    BY DEF NoticesHold, ToldIsStored
  <2>. QED
    BY <2>3, <2>4
<1>. QED
  BY <1>1, <1>2 DEF ToldOnce

LEMMA NoticeInitHolds == NoticeInit => NoticesHold
BY DEF NoticeInit, NoticesHold, SendersTypeOK, StoredOnce, ToldIsStored, Resting

LEMMA OthersKeepNotices ==
  ASSUME NoticesHold, facts \subseteq facts', UNCHANGED <<notices, sender, told>>
  PROVE  NoticesHold'
<1>1. Letters \subseteq Letters'
  BY DEF Letters, Notable
<1>. QED
  BY <1>1 DEF NoticesHold, SendersTypeOK, StoredOnce, ToldIsStored, Notice

\* A sender that moves on, with what is stored and told as it was.
LEMMA SenderMoves ==
  ASSUME NoticesHold, NEW w \in Workers,
         NEW next \in [pc : {"idle", "get", "write", "winner"}, notice : Letters \cup {None}],
         sender' = [sender EXCEPT ![w] = next], facts' = facts,
         next.pc # "idle" => next.notice \in Letters
  PROVE  SendersTypeOK'
<1>1. Letters' = Letters
  BY DEF Letters, Notable
<1>2. \A x \in Workers : sender'[x] = IF x = w THEN next ELSE sender[x]
  BY DEF NoticesHold, SendersTypeOK
<1>. QED
  BY <1>1, <1>2 DEF NoticesHold, SendersTypeOK, Notice

LEMMA SendsKeeps ==
  ASSUME NoticesHold, NEW w \in Workers, NEW pc \in {"write", "winner"},
         sender[w].pc # "idle", Sends(w, pc), facts' = facts
  PROVE  SendersTypeOK'
<1>1. SUFFICES ASSUME NEW next, next = [sender[w] EXCEPT !.pc = pc] PROVE SendersTypeOK'
  OBVIOUS
<1>2. sender[w] \in [pc : {"idle", "get", "write", "winner"}, notice : Letters \cup {None}]
  BY DEF NoticesHold, SendersTypeOK
<1>3. /\ next \in [pc : {"idle", "get", "write", "winner"}, notice : Letters \cup {None}]
      /\ next.notice = sender[w].notice
  BY <1>1, <1>2
<1>4. sender' = [sender EXCEPT ![w] = next]
  BY <1>1 DEF Sends, NoticesHold, SendersTypeOK
<1>5. next.notice \in Letters
  BY <1>3 DEF NoticesHold, SendersTypeOK, Notice
<1>. QED
  BY <1>3, <1>4, <1>5, SenderMoves

LEMMA RestKeeps ==
  ASSUME NoticesHold, NEW w \in Workers, sender' = [sender EXCEPT ![w] = Resting],
         facts' = facts
  PROVE  SendersTypeOK'
BY SenderMoves DEF Resting

LEMMA AnswerKeeps ==
  ASSUME FactsHold, NoticesHold, NEW w \in Workers, sender[w].pc # "idle", facts' = facts,
         AnswerStored(w), UNCHANGED notices
  PROVE  NoticesHold'
<1>1. ~Conflicts(w)
  BY HoldsToldOnce DEF ToldOnce
<1>2. Told(w)
  BY <1>1 DEF AnswerStored
<1>3. PICK n \in notices : n.id = Notice(w).id
  BY DEF AnswerStored, Found
<1>4. n.says = Notice(w).says
  BY <1>1, <1>3 DEF Conflicts, Found, SameNotification
<1>5. ToldIsStored'
  BY <1>2, <1>3, <1>4 DEF Told, NoticesHold, ToldIsStored
<1>6. StoredOnce'
  BY DEF NoticesHold, StoredOnce, Letters, Notable
<1>. QED
  BY <1>2, <1>5, <1>6, RestKeeps DEF Told, NoticesHold

\* A failed delivery changes nothing but its sender.
LEMMA StillStored ==
  ASSUME NoticesHold, facts' = facts, UNCHANGED <<notices, told>>, SendersTypeOK'
  PROVE  NoticesHold'
BY DEF NoticesHold, StoredOnce, ToldIsStored, Letters, Notable

LEMMA RenderKeeps ==
  ASSUME ContentHolds, NoticesHold, NEW w \in Workers, NEW fact \in Notable, Render(w, fact),
         UNCHANGED contentVars
  PROVE  NoticesHold'
<1>1. facts' = facts /\ clock \in Nat
  BY DEF contentVars, ContentHolds, ContentTypeOK
<1>2. Rendered(fact) \in Letters
  BY <1>1 DEF Rendered, Letters
<1>3. SendersTypeOK'
  BY <1>1, <1>2, SenderMoves DEF Render
<1>. QED
  BY <1>1, <1>3, StillStored DEF Render

LEMMA GetKeeps ==
  ASSUME FactsHold, NoticesHold, NEW w \in Workers, Get(w), facts' = facts
  PROVE  NoticesHold'
<1>1. CASE AnswerStored(w)
  BY <1>1, AnswerKeeps DEF Get
<1>2. CASE (Sends(w, "write") /\ UNCHANGED told) \/ Throw(w)
  BY <1>2, SendsKeeps, RestKeeps, StillStored DEF Get, Throw
<1>. QED
  BY <1>1, <1>2 DEF Get

LEMMA WinnerKeeps ==
  ASSUME FactsHold, NoticesHold, NEW w \in Workers, Winner(w), facts' = facts
  PROVE  NoticesHold'
<1>1. CASE AnswerStored(w)
  BY <1>1, AnswerKeeps DEF Winner
<1>2. CASE Throw(w)
  BY <1>2, RestKeeps, StillStored DEF Winner, Throw
<1>. QED
  BY <1>1, <1>2 DEF Winner

LEMMA WriteKeeps ==
  ASSUME FactsHold, NoticesHold, NEW w \in Workers, Write(w), facts' = facts
  PROVE  NoticesHold'
<1>1. sender[w].pc # "idle" /\ Notice(w) \in Letters /\ Letters' = Letters
  BY DEF Write, NoticesHold, SendersTypeOK, Letters, Notable
<1>2. CASE Found(w) = {} /\ notices' = notices \cup {Notice(w)}
  <2>1. StoredOnce'
    BY <1>1, <1>2 DEF NoticesHold, StoredOnce, Found
  <2>2. Told(w) \/ (Sends(w, "winner") /\ UNCHANGED told)
    BY <1>1, <1>2 DEF Write
  <2>3. ToldIsStored'
    BY <1>2, <2>2 DEF Told, NoticesHold, ToldIsStored
  <2>4. SendersTypeOK'
    BY <1>1, <2>2, SendsKeeps, RestKeeps DEF Told
  <2>. QED
    BY <2>1, <2>3, <2>4 DEF NoticesHold
<1>3. CASE Sends(w, "winner") /\ UNCHANGED <<notices, told>>
  BY <1>1, <1>3, SendsKeeps, StillStored
<1>. QED
  BY <1>2, <1>3 DEF Write

NoticeHolds == MaterializationHolds /\ NoticesHold

LEMMA NotifyHolds == ASSUME NoticeHolds, Notify PROVE NoticeHolds'
<1>1. UNCHANGED contentVars /\ UNCHANGED <<views, commands, worker, settled>>
  BY DEF Notify
<1>2. MaterializationHolds' /\ facts' = facts
  BY <1>1, ContentStepHolds DEF NoticeHolds, contentVars
<1>3. PICK w \in Workers :
        (\E fact \in Notable : Render(w, fact)) \/ Get(w) \/ Write(w) \/ Winner(w)
  BY DEF Notify
<1>4. NoticesHold'
  BY <1>1, <1>2, <1>3, RenderKeeps, GetKeeps, WriteKeeps, WinnerKeeps
     DEF NoticeHolds, MaterializationHolds
<1>. QED
  BY <1>2, <1>4 DEF NoticeHolds

LEMMA NoticeAlwaysHolds == NoticeSpec => []NoticeHolds
<1>1. NoticeInit => NoticeHolds
  BY InitHolds, NoticeInitHolds DEF NoticeInit, NoticeHolds
<1>2. ASSUME NoticeHolds, Content \/ UNCHANGED vars, UNCHANGED noticeVars PROVE NoticeHolds'
  BY <1>2, ContentStepHolds, OthersKeepNotices
     DEF NoticeHolds, Content, vars, viewVars, noticeVars
<1>3. ASSUME NoticeHolds, Delivery, UNCHANGED noticeVars PROVE NoticeHolds'
  <2>1. facts' = facts
    BY <1>3 DEF Delivery, Deliver, Load, Dispatch, contentVars
  <2>. QED
    BY <1>3, <2>1, DeliveryHolds, OthersKeepNotices DEF NoticeHolds, noticeVars
<1>4. NoticeHolds /\ [NoticeNext]_<<vars, noticeVars>> => NoticeHolds'
  BY <1>2, <1>3, NotifyHolds DEF NoticeNext
<1>. QED
  BY <1>1, <1>4, PTL DEF NoticeSpec

LEMMA ViewsAlwaysHold == Spec \/ NoticeSpec => []MaterializationHolds
<1>1. NoticeHolds => MaterializationHolds
  BY DEF NoticeHolds
<1>. QED
  BY <1>1, MaterializationAlwaysHolds, NoticeAlwaysHolds, PTL

\* Whatever history the content item has, and in whatever order, how often and by how
\* many workers its events are delivered, no worker is ever refused an event it finds
\* newer than the view: no event stays that no redelivery can apply.
THEOREM NothingIsRefused == Spec \/ NoticeSpec => []NeverRefused
<1>1. MaterializationHolds => NeverRefused
  BY HoldsNeverRefuses DEF MaterializationHolds
<1>. QED
  BY <1>1, ViewsAlwaysHold, PTL

\* When every event has been answered, each slot and the current review are shown as
\* they are, and no former review is shown as pending.
THEOREM AnsweredMeansConverged == Spec \/ NoticeSpec => []Converged
<1>1. MaterializationHolds => Converged
  BY HoldsConverges DEF MaterializationHolds
<1>. QED
  BY <1>1, ViewsAlwaysHold, PTL

\* However often, by however many workers an event is delivered, and wherever a
\* delivery stops, one notification at most is stored for it, an answered one has one,
\* and no delivery takes what another stored for a conflict.
THEOREM NoticesAreToldOnce == NoticeSpec => []ToldOnce
<1>1. NoticeHolds => ToldOnce
  BY HoldsToldOnce DEF NoticeHolds, MaterializationHolds
<1>. QED
  BY <1>1, NoticeAlwaysHolds, PTL
-----------------------------------------------------------------------------
(* The bytes of the attachments.                                          *)

\* The fields the argument reads are there.
SlotFields == {"status", "verified", "retiredAt", "source"}
ItemShape ==
  /\ {"version", "slots"} \subseteq DOMAIN item
  /\ DOMAIN item.slots = Assets
  /\ \A a \in Assets : SlotFields \subseteq DOMAIN item.slots[a]

UploadShape ==
  /\ DOMAIN upload = Uploads
  /\ \A u \in Uploads :
       /\ {"pc", "seen", "attempt", "asset", "digest"} \subseteq DOMAIN upload[u]
       /\ upload[u].pc # "idle" => upload[u].asset \in Assets /\ upload[u].digest \in Digests

CleanerShape ==
  /\ {"pc", "asset", "observed"} \subseteq DOMAIN cleaner
  /\ cleaner.pc # "idle" => cleaner.asset \in Assets

Shape == ItemShape /\ UploadShape /\ CleanerShape /\ DOMAIN objects = Assets

\* What a command may do to a slot.
Kept(a) == item'.slots[a] = item.slots[a]
Opened(a) ==
  /\ item.slots[a].status = "none"
  /\ item'.slots[a].status = "pending" /\ item'.slots[a].verified = None
Completed(a, digest) ==
  /\ item.slots[a].status = "pending"
  /\ item'.slots[a].status = "ready" /\ item'.slots[a].verified = digest
Dropped(a) ==
  /\ Active(item.slots[a]) /\ Retired(item'.slots[a])
  /\ item'.slots[a].verified = item.slots[a].verified
-----------------------------------------------------------------------------
(* Commands on the slots.                                                  *)

\* The same slots under other fields.
SameSlots(next) == DOMAIN next = DOMAIN item /\ next.slots = item.slots

\* A command that says nothing of the slots leaves them alone.
LEMMA OtherCommands ==
  ASSUME ItemShape, NEW next, NEW new, Finish(next, new), SameSlots(next)
  PROVE  ItemShape' /\ \A a \in Assets : Kept(a)
<1>1. item' = [next EXCEPT !.version = Fresh]
  BY DEF Finish
<1>2. DOMAIN item' = DOMAIN item /\ item'.slots = item.slots
  BY <1>1 DEF ItemShape, SameSlots
<1> QED
  BY <1>2 DEF ItemShape, Kept

\* A command on one slot leaves the others alone.
LEMMA SlotCommand ==
  ASSUME ItemShape, NEW next, NEW new, Finish(next, new), NEW a \in Assets, NEW slot,
         SlotFields \subseteq DOMAIN slot, DOMAIN next = DOMAIN item,
         next.slots = [item.slots EXCEPT ![a] = slot]
  PROVE  ItemShape' /\ item'.slots[a] = slot /\ \A b \in Assets \ {a} : Kept(b)
<1>1. item' = [next EXCEPT !.version = Fresh]
  BY DEF Finish
<1>2. DOMAIN item' = DOMAIN item /\ item'.slots = [item.slots EXCEPT ![a] = slot]
  BY <1>1 DEF ItemShape
<1> QED
  BY <1>2 DEF ItemShape, Kept

\* The slots of an item with one slot replaced, whatever its revision.
LEMMA ReplacedSlot ==
  ASSUME ItemShape, NEW a \in Assets, NEW slot, NEW revision
  PROVE  /\ DOMAIN WithSlot(a, slot) = DOMAIN item
         /\ WithSlot(a, slot).slots = [item.slots EXCEPT ![a] = slot]
         /\ DOMAIN [WithSlot(a, slot) EXCEPT !.revision = revision] = DOMAIN item
         /\ [WithSlot(a, slot) EXCEPT !.revision = revision].slots
              = [item.slots EXCEPT ![a] = slot]
  BY DEF WithSlot, ItemShape

LEMMA Registered ==
  ASSUME ItemShape, NEW a \in Assets, RegisterAsset(a)
  PROVE  ItemShape' /\ Opened(a) /\ \A b \in Assets \ {a} : Kept(b)
<1> DEFINE slot == [EmptySlot EXCEPT !.status = "pending", !.registeredAt = clock,
                                     !.source = Fresh]
<1> DEFINE next == [WithSlot(a, slot) EXCEPT !.revision = Fresh]
<1>1. /\ SlotFields \subseteq DOMAIN slot
      /\ slot.status = "pending" /\ slot.verified = None
  BY DEF EmptySlot, SlotFields
<1>2. Finish(next, {AssetFact("assetRegistered", a, slot)}) /\ item.slots[a].status = "none"
  BY DEF RegisterAsset
<1>3. DOMAIN next = DOMAIN item /\ next.slots = [item.slots EXCEPT ![a] = slot]
  BY ReplacedSlot
<1> HIDE DEF slot, next
<1>4. ItemShape' /\ item'.slots[a] = slot /\ \A b \in Assets \ {a} : Kept(b)
  BY <1>1, <1>2, <1>3, SlotCommand
<1> QED
  BY <1>1, <1>2, <1>4 DEF Opened

LEMMA UploadCompleted ==
  ASSUME ItemShape, NEW a \in Assets, NEW digest, CompleteUpload(a, digest)
  PROVE  ItemShape' /\ Completed(a, digest) /\ \A b \in Assets \ {a} : Kept(b)
<1> DEFINE slot == [item.slots[a] EXCEPT !.status = "ready", !.verified = digest,
                                         !.source = Fresh]
<1> DEFINE next == WithSlot(a, slot)
<1>1. /\ SlotFields \subseteq DOMAIN slot
      /\ slot.status = "ready" /\ slot.verified = digest
  BY DEF ItemShape, SlotFields
<1>2. Finish(next, {AssetFact("assetReady", a, slot)}) /\ item.slots[a].status = "pending"
  BY DEF CompleteUpload, MayComplete
<1>3. DOMAIN next = DOMAIN item /\ next.slots = [item.slots EXCEPT ![a] = slot]
  BY ReplacedSlot
<1> HIDE DEF slot, next
<1>4. ItemShape' /\ item'.slots[a] = slot /\ \A b \in Assets \ {a} : Kept(b)
  BY <1>1, <1>2, <1>3, SlotCommand
<1> QED
  BY <1>1, <1>2, <1>4 DEF Completed

LEMMA SlotRetired ==
  ASSUME ItemShape, NEW a \in Assets, RemoveAsset(a) \/ ExpireAsset(a)
  PROVE  ItemShape' /\ Dropped(a) /\ \A b \in Assets \ {a} : Kept(b)
<1>1. PICK status \in {"removed", "expired"} :
        /\ Active(item.slots[a])
        /\ \E new : Finish([WithSlot(a, RetiredSlot(item.slots[a], status))
                              EXCEPT !.revision = Fresh], new)
  BY DEF RemoveAsset, ExpireAsset, Active
<1> DEFINE slot == RetiredSlot(item.slots[a], status)
<1> DEFINE next == [WithSlot(a, slot) EXCEPT !.revision = Fresh]
<1>2. /\ SlotFields \subseteq DOMAIN slot
      /\ slot.status = status /\ slot.verified = item.slots[a].verified
  BY DEF RetiredSlot, ItemShape, SlotFields
<1>3. DOMAIN next = DOMAIN item /\ next.slots = [item.slots EXCEPT ![a] = slot]
  BY ReplacedSlot
<1>4. PICK new : Finish(next, new)
  BY <1>1
<1> HIDE DEF slot, next
<1>5. ItemShape' /\ item'.slots[a] = slot /\ \A b \in Assets \ {a} : Kept(b)
  BY <1>2, <1>3, <1>4, SlotCommand
<1> QED
  BY <1>1, <1>2, <1>5 DEF Dropped, Retired

\* Every step of the content item keeps each slot or moves it forwards.
LEMMA ContentMoves ==
  ASSUME ItemShape, ContentNext
  PROVE  /\ ItemShape'
         /\ \A a \in Assets :
              Kept(a) \/ Opened(a) \/ (\E digest : Completed(a, digest)) \/ Dropped(a)
<1>1. CASE Tick
  BY <1>1 DEF Tick, ItemShape, Kept
<1>2. CASE Create \/ EditDraft \/ ReopenDraft \/ Archive
  <2>1. PICK next, new : Finish(next, new) /\ SameSlots(next)
    <3>1. CASE Create
      <4> DEFINE next == [item EXCEPT !.status = "draft", !.revision = Fresh]
      <4>1. \E new : Finish(next, new)
        BY <3>1 DEF Create
      <4>2. SameSlots(next)
        BY DEF SameSlots, ItemShape
      <4> QED
        BY <4>1, <4>2
    <3>2. CASE EditDraft
      <4>1. PICK revision : Finish([item EXCEPT !.revision = revision], {})
        BY <3>2 DEF EditDraft
      <4>2. SameSlots([item EXCEPT !.revision = revision])
        BY DEF SameSlots, ItemShape
      <4> QED
        BY <4>1, <4>2
    <3>3. CASE ReopenDraft
      <4> DEFINE next == Reopened
      <4>1. \E new : Finish(next, new)
        BY <3>3 DEF ReopenDraft
      <4>2. SameSlots(next)
        BY DEF SameSlots, ItemShape, Reopened
      <4> QED
        BY <4>1, <4>2
    <3>4. CASE Archive
      <4> DEFINE next == [item EXCEPT !.status = "archived",
                                      !.review = Superseded, !.schedule = None]
      <4>1. \E new : Finish(next, new)
        BY <3>4 DEF Archive
      <4>2. SameSlots(next)
        BY DEF SameSlots, ItemShape
      <4> QED
        BY <4>1, <4>2
    <3> QED
      BY <1>2, <3>1, <3>2, <3>3, <3>4
  <2> QED
    BY <2>1, OtherCommands
<1>3. CASE ReviewCommand
  <2>1. PICK next, new : Finish(next, new) /\ SameSlots(next)
    <3>1. CASE \E dueAt \in 1 .. MaxTime : Submit(dueAt)
      <4>1. PICK review, new :
          Finish([item EXCEPT !.status = "inReview", !.review = review], new)
        BY <3>1 DEF Submit
      <4>2. SameSlots([item EXCEPT !.status = "inReview", !.review = review])
        BY DEF SameSlots, ItemShape
      <4> QED
        BY <4>1, <4>2
    <3>2. CASE RecordReviewReminder
      <4>1. PICK review, new : Finish([item EXCEPT !.review = review], new)
        BY <3>2 DEF RecordReviewReminder
      <4>2. SameSlots([item EXCEPT !.review = review])
        BY DEF SameSlots, ItemShape
      <4> QED
        BY <4>1, <4>2
    <3>3. CASE Approve
      <4>1. PICK review, approval, new :
          Finish([item EXCEPT !.status = "approved", !.review = review, !.approval = approval], new)
        BY <3>3 DEF Approve
      <4>2. SameSlots([item EXCEPT !.status = "approved",
                                   !.review = review, !.approval = approval])
        BY DEF SameSlots, ItemShape
      <4> QED
        BY <4>1, <4>2
    <3>4. CASE RequestChanges
      <4>1. PICK review, new :
          Finish([item EXCEPT !.status = "draft", !.review = review, !.approval = None], new)
        BY <3>4 DEF RequestChanges
      <4>2. SameSlots([item EXCEPT !.status = "draft",
                                   !.review = review, !.approval = None])
        BY DEF SameSlots, ItemShape
      <4> QED
        BY <4>1, <4>2
    <3> QED
      BY <1>3, <3>1, <3>2, <3>3, <3>4 DEF ReviewCommand
  <2> QED
    BY <2>1, OtherCommands
<1>4. CASE PublicationCommand
  <2>1. PICK next, new : Finish(next, new) /\ SameSlots(next)
    <3>1. CASE \E at \in 1 .. MaxTime : Schedule(at)
      <4>1. PICK schedule, new :
          Finish([item EXCEPT !.status = "scheduled", !.schedule = schedule], new)
        BY <3>1 DEF Schedule
      <4>2. SameSlots([item EXCEPT !.status = "scheduled", !.schedule = schedule])
        BY DEF SameSlots, ItemShape
      <4> QED
        BY <4>1, <4>2
    <3>2. CASE CancelSchedule
      <4> DEFINE next == [item EXCEPT !.status = "approved", !.schedule = None]
      <4>1. \E new : Finish(next, new)
        BY <3>2 DEF CancelSchedule
      <4>2. SameSlots(next)
        BY DEF SameSlots, ItemShape
      <4> QED
        BY <4>1, <4>2
    <3>3. CASE PublishNow \/ RequestDuePublication
      <4>1. PICK publication, new :
          Finish([item EXCEPT !.status = "publishing", !.schedule = None, !.publication = publication], new)
        BY <3>3 DEF PublishNow, RequestDuePublication, RequestPublication
      <4>2. SameSlots([item EXCEPT !.status = "publishing",
                                   !.schedule = None, !.publication = publication])
        BY DEF SameSlots, ItemShape
      <4> QED
        BY <4>1, <4>2
    <3>4. CASE CompletePublication
      <4> DEFINE next == [item EXCEPT !.status = "published"]
      <4>1. \E new : Finish(next, new)
        BY <3>4 DEF CompletePublication
      <4>2. SameSlots(next)
        BY DEF SameSlots, ItemShape
      <4> QED
        BY <4>1, <4>2
    <3> QED
      BY <1>4, <3>1, <3>2, <3>3, <3>4 DEF PublicationCommand
  <2> QED
    BY <2>1, OtherCommands
<1>5. CASE AssetCommand
  <2>1. PICK a \in Assets : \/ RegisterAsset(a)
                            \/ \E digest \in Digests : CompleteUpload(a, digest)
                            \/ RemoveAsset(a) \/ ExpireAsset(a)
    BY <1>5 DEF AssetCommand
  <2>2. CASE RegisterAsset(a)
    BY <2>2, Registered
  <2>3. CASE \E digest \in Digests : CompleteUpload(a, digest)
    BY <2>3, UploadCompleted
  <2>4. CASE RemoveAsset(a) \/ ExpireAsset(a)
    BY <2>4, SlotRetired
  <2> QED
    BY <2>1, <2>2, <2>3, <2>4
<1> QED
  BY <1>1, <1>2, <1>3, <1>4, <1>5 DEF ContentNext, Command
-----------------------------------------------------------------------------
(* The invariant.                                                          *)

\* A slot nobody verified yet shows no digest.
Unverified == \A a \in Assets : item.slots[a].status \in {"none", "pending"} =>
                                item.slots[a].verified = None

\* An upload that verified its object still finds it, unless the slot was retired
\* since; then it will not complete.
BytesStay ==
  \A u \in Uploads : upload[u].pc \in {"load", "complete"} =>
    Matches(u) \/ Retired(item.slots[upload[u].asset])

\* The cleaner works on a slot that no upload can complete any more.
OnlyOrphans ==
  cleaner.pc # "idle" =>
    LET slot == item.slots[cleaner.asset] IN Retired(slot) /\ slot.verified = None

\* What was answered is final: the slot is past its upload.
AnswersFinal ==
  \A answer \in answered :
    /\ answer[1] \in Assets
    /\ item.slots[answer[1]].status \notin {"none", "pending"}
    /\ item.slots[answer[1]].verified = answer[2]

SlotsInv == Unverified /\ OnlyOrphans /\ AnswersFinal
UploadsInv == Shape /\ SlotsInv /\ BytesStay /\ VerifiedIsStored

LEMMA InitInv == UploadInit => UploadsInv
<1> SUFFICES ASSUME UploadInit PROVE UploadsInv
  OBVIOUS
<1> USE DEF UploadInit, ContentInit
<1>1. ItemShape /\ \A a \in Assets : item.slots[a] = EmptySlot
  BY DEF ItemShape, EmptySlot, SlotFields
<1>2. UploadShape /\ CleanerShape
  BY DEF UploadShape, CleanerShape, NoUpload, AtRest
<1>3. \A a \in Assets : item.slots[a].verified = None
  BY <1>1 DEF EmptySlot
<1>4. SlotsInv
  BY <1>3 DEF SlotsInv, Unverified, OnlyOrphans, AnswersFinal, AtRest
<1>5. BytesStay
  BY DEF BytesStay, NoUpload
<1> QED
  BY <1>1, <1>2, <1>3, <1>4, <1>5 DEF UploadsInv, Shape, VerifiedIsStored

\* Slots only move forwards, so what an upload, the cleaner or an answer relies on
\* survives every command that completes no upload.
LEMMA MovesKeepSlots ==
  ASSUME Shape, SlotsInv, UNCHANGED <<answered, cleaner>>,
         \A a \in Assets :
           Kept(a) \/ Opened(a) \/ (\E digest : Completed(a, digest)) \/ Dropped(a)
  PROVE  SlotsInv'
<1>1. Unverified'
  BY DEF SlotsInv, Unverified, Kept, Opened, Completed, Dropped, Active, Retired
<1>2. OnlyOrphans'
  BY DEF SlotsInv, OnlyOrphans, Shape, CleanerShape, Kept, Opened, Completed, Dropped,
     Active, Retired
<1>3. AnswersFinal'
  BY DEF SlotsInv, AnswersFinal, Kept, Opened, Completed, Dropped, Active, Retired
<1> QED
  BY <1>1, <1>2, <1>3 DEF SlotsInv

LEMMA EditorialKeeps ==
  ASSUME UploadsInv, Editorial
  PROVE  UploadsInv'
<1>1. /\ ItemShape'
      /\ \A a \in Assets : Kept(a) \/ Opened(a) \/ Dropped(a)
  <2>1. /\ ItemShape'
        /\ \A a \in Assets :
             Kept(a) \/ Opened(a) \/ (\E digest : Completed(a, digest)) \/ Dropped(a)
    BY ContentMoves DEF UploadsInv, Shape, Editorial
  <2>2. \A a \in Assets : \A digest : ~Completed(a, digest)
    BY DEF Editorial, Completed
  <2> QED
    BY <2>1, <2>2
<1>2. UNCHANGED <<objects, upload, answered, cleaner>>
  BY DEF Editorial
<1>3. Shape'
  BY <1>1, <1>2 DEF UploadsInv, Shape, UploadShape, CleanerShape
<1>4. SlotsInv'
  BY <1>1, <1>2, MovesKeepSlots DEF UploadsInv
<1>5. BytesStay'
  BY <1>1, <1>2 DEF UploadsInv, BytesStay, Matches, Shape, UploadShape, Kept, Opened,
     Dropped, Active, Retired
<1>6. VerifiedIsStored'
  BY <1>1, <1>2 DEF UploadsInv, VerifiedIsStored, Kept, Opened, Dropped
<1> QED
  BY <1>3, <1>4, <1>5, <1>6 DEF UploadsInv
-----------------------------------------------------------------------------
(* Uploads.                                                                *)

\* What an upload past the verification of its object may be told.
LocalFields == {"pc", "seen", "attempt", "asset", "digest"}
Sound(local) ==
  /\ LocalFields \subseteq DOMAIN local
  /\ local.pc # "idle" => local.asset \in Assets /\ local.digest \in Digests
  /\ local.pc \in {"load", "complete"} =>
       \/ objects[local.asset] # None /\ objects[local.asset].digest = local.digest
       \/ Retired(item.slots[local.asset])

LEMMA AllSound == ASSUME UploadsInv, NEW u \in Uploads PROVE Sound(upload[u])
  BY DEF UploadsInv, Shape, UploadShape, BytesStay, Matches, Sound, LocalFields

\* A step that moves one upload and leaves slots and objects alone.
LEMMA LocalStep ==
  ASSUME UploadsInv, NEW u \in Uploads, NEW local, Sound(local),
         upload' = [upload EXCEPT ![u] = local],
         UNCHANGED <<item, objects, cleaner>>, AnswersFinal'
  PROVE  UploadsInv'
<1>1. \A v \in Uploads : upload'[v] = IF v = u THEN local ELSE upload[v]
  BY DEF UploadsInv, Shape, UploadShape
<1>2. DOMAIN upload' = Uploads
  BY DEF UploadsInv, Shape, UploadShape
<1>3. Shape'
  BY <1>1, <1>2 DEF UploadsInv, Shape, ItemShape, UploadShape, CleanerShape, Sound, LocalFields
<1>4. SlotsInv'
  BY DEF UploadsInv, SlotsInv, Unverified, OnlyOrphans
<1>5. BytesStay'
  BY <1>1 DEF UploadsInv, BytesStay, Matches, Sound
<1>6. VerifiedIsStored'
  BY DEF UploadsInv, VerifiedIsStored
<1> QED
  BY <1>3, <1>4, <1>5, <1>6 DEF UploadsInv

LEMMA MovesOn ==
  ASSUME UploadsInv, NEW u \in Uploads,
         Stop(u) \/ (\E a \in Assets, digest \in Digests : Request(u, a, digest))
           \/ Inspect(u) \/ ReadBack(u) \/ Recheck(u) \/ Verify(u)
  PROVE  UploadsInv'
<1>1. UNCHANGED <<item, objects, cleaner, answered>>
  BY DEF Stop, Request, Inspect, ReadBack, Recheck, Verify, contentVars
<1>2. AnswersFinal'
  BY <1>1 DEF UploadsInv, SlotsInv, AnswersFinal
<1>3. PICK local : Sound(local) /\ upload' = [upload EXCEPT ![u] = local]
  <2>1. CASE Stop(u)
    <3>1. Sound(NoUpload)
      BY DEF Sound, NoUpload, LocalFields
    <3> QED
      BY <2>1, <3>1 DEF Stop
  <2>2. CASE \E a \in Assets, digest \in Digests : Request(u, a, digest)
    <3>1. PICK a \in Assets, digest \in Digests : Request(u, a, digest)
      BY <2>2
    <3> DEFINE local == [NoUpload EXCEPT !.pc = "inspect", !.asset = a, !.digest = digest]
    <3>2. Sound(local)
      BY DEF Sound, NoUpload, LocalFields
    <3>3. upload' = [upload EXCEPT ![u] = local]
      BY <3>1 DEF Request
    <3> QED
      BY <3>2, <3>3
  <2>3. CASE Inspect(u) \/ ReadBack(u) \/ Recheck(u)
    <3>1. PICK pc \in {"recheck", "readback", "confirm", "create"} :
            upload[u].pc # "idle" /\ Goto(u, pc)
      BY <2>3 DEF Inspect, ReadBack, Recheck
    <3> DEFINE local == [upload[u] EXCEPT !.pc = pc]
    <3>2. Sound(local)
      BY <3>1, AllSound DEF Sound, LocalFields
    <3>3. upload' = [upload EXCEPT ![u] = local]
      BY <3>1 DEF Goto
    <3> QED
      BY <3>2, <3>3
  <2>4. CASE Verify(u)
    <3> DEFINE local == [upload[u] EXCEPT !.pc = "load"]
    <3>1. Sound(local)
      BY <2>4, AllSound DEF Sound, LocalFields, Verify, Matches
    <3>2. upload' = [upload EXCEPT ![u] = local]
      BY <2>4 DEF Verify, Goto
    <3> QED
      BY <3>1, <3>2
  <2> QED
    BY <2>1, <2>2, <2>3, <2>4
<1> QED
  BY <1>1, <1>2, <1>3, LocalStep

\* An answer is given of a slot that is ready with these bytes.
LEMMA Answers ==
  ASSUME UploadsInv, NEW u \in Uploads, upload[u].pc # "idle", SameReady(u), Answer(u),
         UNCHANGED <<item, objects, cleaner>>
  PROVE  UploadsInv'
<1>1. upload[u].asset \in Assets
  BY AllSound DEF Sound
<1>2. AnswersFinal'
  BY <1>1 DEF Answer, SameReady, UploadsInv, SlotsInv, AnswersFinal
<1>3. Sound(NoUpload)
  BY DEF Sound, NoUpload, LocalFields
<1> QED
  BY <1>2, <1>3, LocalStep DEF Answer

LEMMA LoadAgainKeeps ==
  ASSUME UploadsInv, NEW u \in Uploads, LoadAgain(u) \/ Confirm(u)
  PROVE  UploadsInv'
<1>1. UNCHANGED <<item, objects, cleaner>> /\ upload[u].pc # "idle"
  BY DEF LoadAgain, Confirm, contentVars
<1>2. CASE SameReady(u) /\ Answer(u)
  BY <1>1, <1>2, Answers
<1>3. CASE /\ upload[u].pc = "load" /\ UNCHANGED answered
           /\ upload' = [upload EXCEPT ![u].pc = "complete", ![u].seen = item.version]
  <2> DEFINE local == [upload[u] EXCEPT !.pc = "complete", !.seen = item.version]
  <2>1. Sound(local)
    BY <1>3, AllSound DEF Sound, LocalFields
  <2>2. upload' = [upload EXCEPT ![u] = local]
    BY <1>3
  <2>3. AnswersFinal'
    BY <1>1, <1>3 DEF UploadsInv, SlotsInv, AnswersFinal
  <2> QED
    BY <1>1, <2>1, <2>2, <2>3, LocalStep
<1> QED
  BY <1>2, <1>3 DEF LoadAgain, Confirm

\* The put creates and never replaces: what others verified stays.
LEMMA StoreKeeps ==
  ASSUME UploadsInv, NEW u \in Uploads, Store(u)
  PROVE  UploadsInv'
<1>1. /\ UNCHANGED <<item, cleaner, answered>>
      /\ upload' = [upload EXCEPT ![u].pc = "verify"]
      /\ upload[u].pc = "create"
  BY DEF Store, Goto, contentVars
<1>2. /\ DOMAIN objects' = Assets
      /\ \A a \in Assets : objects[a] # None => objects'[a] = objects[a]
  BY DEF Store, Put, UploadsInv, Shape
<1>3. \A v \in Uploads : upload'[v] = IF v = u THEN [upload[u] EXCEPT !.pc = "verify"]
                                      ELSE upload[v]
  BY <1>1 DEF UploadsInv, Shape, UploadShape
<1>4. UploadShape'
  BY <1>1, <1>3 DEF UploadsInv, Shape, UploadShape
<1>5. Shape'
  BY <1>1, <1>2, <1>4 DEF UploadsInv, Shape, ItemShape, CleanerShape
<1>6. SlotsInv'
  BY <1>1 DEF UploadsInv, SlotsInv, Unverified, OnlyOrphans, AnswersFinal
<1>7. BytesStay'
  BY <1>1, <1>2, <1>3 DEF UploadsInv, Shape, UploadShape, BytesStay, Matches
<1>8. VerifiedIsStored'
  BY <1>1, <1>2 DEF UploadsInv, VerifiedIsStored
<1> QED
  BY <1>5, <1>6, <1>7, <1>8 DEF UploadsInv

LEMMA CompleteKeeps ==
  ASSUME UploadsInv, NEW u \in Uploads, Complete(u)
  PROVE  UploadsInv'
<1> DEFINE a == upload[u].asset
<1>1. a \in Assets /\ upload[u].pc = "complete" /\ UNCHANGED <<objects, answered, cleaner>>
  BY AllSound DEF Sound, Complete
<1>2. CASE CompleteUpload(a, upload[u].digest) /\ Goto(u, "confirm")
  <2>1. /\ ItemShape'
        /\ Completed(a, upload[u].digest)
        /\ \A b \in Assets \ {a} : Kept(b)
    BY <1>1, <1>2, UploadCompleted DEF UploadsInv, Shape
  <2>2. objects[a] # None /\ objects[a].digest = upload[u].digest
    BY <1>1, <2>1 DEF UploadsInv, BytesStay, Matches, Completed, Retired
  <2>3. \A v \in Uploads : upload'[v] = IF v = u THEN [upload[u] EXCEPT !.pc = "confirm"]
                                        ELSE upload[v]
    BY <1>2 DEF Goto, UploadsInv, Shape, UploadShape
  <2>4. DOMAIN upload' = Uploads
    BY <1>2 DEF Goto, UploadsInv, Shape, UploadShape
  <2>5. Shape'
    BY <1>1, <2>1, <2>3, <2>4 DEF UploadsInv, Shape, UploadShape, CleanerShape
  <2>6. SlotsInv'
    BY <1>1, <2>1, MovesKeepSlots DEF UploadsInv
  <2>7. BytesStay'
    BY <1>1, <2>1, <2>3 DEF UploadsInv, Shape, UploadShape, BytesStay, Matches, Kept,
       Completed, Retired
  <2>8. VerifiedIsStored'
    BY <1>1, <2>1, <2>2 DEF UploadsInv, VerifiedIsStored, Kept, Completed
  <2> QED
    BY <2>5, <2>6, <2>7, <2>8 DEF UploadsInv
<1>3. CASE /\ upload' = [upload EXCEPT ![u].pc = "load", ![u].seen = 0, ![u].attempt = @ + 1]
           /\ UNCHANGED contentVars
  <2> DEFINE local == [upload[u] EXCEPT !.pc = "load", !.seen = 0, !.attempt = @ + 1]
  <2>1. Sound(local)
    BY <1>1, AllSound DEF Sound, LocalFields
  <2>2. upload' = [upload EXCEPT ![u] = local]
    BY <1>3
  <2>3. UNCHANGED item
    BY <1>3 DEF contentVars
  <2>4. AnswersFinal'
    BY <1>1, <2>3 DEF UploadsInv, SlotsInv, AnswersFinal
  <2> QED
    BY <1>1, <2>1, <2>2, <2>3, <2>4, LocalStep
<1> QED
  BY <1>2, <1>3 DEF Complete
-----------------------------------------------------------------------------
(* The cleanup.                                                            *)

LEMMA CleaningKeeps ==
  ASSUME UploadsInv, Cleaning
  PROVE  UploadsInv'
<1>1. UNCHANGED <<item, upload, answered>>
  BY DEF Cleaning, Candidate, Observe, Reload, Check, Delete, Leave, contentVars
<1>2. CleanerShape' /\ OnlyOrphans'
  <2>1. CASE \E a \in Assets : Candidate(a)
    <3>1. PICK a \in Assets : Candidate(a)
      BY <2>1
    <3>2. {"pc", "asset", "observed"} \subseteq DOMAIN cleaner' /\ cleaner'.asset = a
      BY <3>1 DEF Candidate, AtRest
    <3>3. Retired(item.slots[a]) /\ item.slots[a].verified = None
      BY <3>1 DEF Candidate, Orphan
    <3> QED
      BY <1>1, <3>2, <3>3 DEF CleanerShape, OnlyOrphans
  <2>2. CASE Leave \/ Delete
    <3>1. cleaner' = AtRest
      BY <2>2 DEF Leave, Delete
    <3> QED
      BY <3>1 DEF AtRest, CleanerShape, OnlyOrphans
  <2>3. CASE Observe \/ Reload \/ Check
    <3>1. /\ {"pc", "asset", "observed"} \subseteq DOMAIN cleaner' /\ cleaner'.asset = cleaner.asset
          /\ cleaner.pc # "idle"
      BY <2>3 DEF Observe, Reload, Check, UploadsInv, Shape, CleanerShape
    <3> QED
      BY <1>1, <3>1 DEF UploadsInv, Shape, SlotsInv, CleanerShape, OnlyOrphans
  <2> QED
    BY <2>1, <2>2, <2>3 DEF Cleaning
<1>3. /\ DOMAIN objects' = Assets
      /\ \A a \in Assets : objects'[a] = objects[a]
           \/ (Retired(item.slots[a]) /\ item.slots[a].verified = None)
  <2>1. CASE Delete
    BY <2>1 DEF Delete, UploadsInv, Shape, CleanerShape, SlotsInv, OnlyOrphans
  <2>2. CASE UNCHANGED objects
    BY <2>2 DEF UploadsInv, Shape
  <2> QED
    BY <2>1, <2>2 DEF Cleaning, Candidate, Observe, Reload, Check, Leave
<1>4. Shape'
  BY <1>1, <1>2, <1>3 DEF UploadsInv, Shape, ItemShape, UploadShape
<1>5. SlotsInv'
  BY <1>1, <1>2 DEF UploadsInv, SlotsInv, Unverified, AnswersFinal
<1>6. BytesStay'
  BY <1>1, <1>3 DEF UploadsInv, Shape, UploadShape, BytesStay, Matches
<1>7. VerifiedIsStored'
  BY <1>1, <1>3 DEF UploadsInv, VerifiedIsStored
<1> QED
  BY <1>4, <1>5, <1>6, <1>7 DEF UploadsInv

LEMMA NextInv == UploadsInv /\ [UploadNext]_uploadVars => UploadsInv'
<1> SUFFICES ASSUME UploadsInv, [UploadNext]_uploadVars PROVE UploadsInv'
  OBVIOUS
<1>1. CASE Editorial
  BY <1>1, EditorialKeeps
<1>2. CASE Uploading
  BY <1>2, MovesOn, LoadAgainKeeps, StoreKeeps, CompleteKeeps DEF Uploading
<1>3. CASE Cleaning
  BY <1>3, CleaningKeeps
<1>4. CASE UNCHANGED uploadVars
  BY <1>4 DEF uploadVars, contentVars, UploadsInv, Shape, ItemShape, UploadShape, CleanerShape,
     SlotsInv, Unverified, OnlyOrphans, AnswersFinal, BytesStay, Matches, VerifiedIsStored
<1> QED
  BY <1>1, <1>2, <1>3, <1>4 DEF UploadNext

\* A verified attachment's object is there with the digest that was verified, for
\* any number of slots, contents and uploads and however they interleave.
THEOREM VerifiedStays == UploadSpec => []VerifiedIsStored
<1>1. UploadsInv => VerifiedIsStored
  BY DEF UploadsInv
<1> QED
  BY <1>1, InitInv, NextInv, PTL DEF UploadSpec

\* A success an upload was answered with is never taken back: no later command and
\* no upload of other bytes changes what the slot was verified with.
THEOREM AnswersStay == UploadSpec => []AnswersHold
<1>1. UploadsInv => AnswersHold
  BY DEF UploadsInv, SlotsInv, AnswersFinal, AnswersHold
<1> QED
  BY <1>1, InitInv, NextInv, PTL DEF UploadSpec
-----------------------------------------------------------------------------
LEMMA ContentOfDeliveries == Spec => ContentSpec
<1>1. Init => ContentInit
  BY DEF Init
<1>2. [Next]_vars => [ContentNext]_contentVars
  BY DEF Next, Content, Delivery, Deliver, Load, Dispatch, vars
<1>. QED
  BY <1>1, <1>2, PTL DEF Spec, ContentSpec

LEMMA ContentOfNotices == NoticeSpec => ContentSpec
<1>1. NoticeInit => ContentInit
  BY DEF NoticeInit, Init
<1>2. [NoticeNext]_<<vars, noticeVars>> => [ContentNext]_contentVars
  BY DEF NoticeNext, Content, Delivery, Deliver, Load, Dispatch, Notify, vars
<1>. QED
  BY <1>1, <1>2, PTL DEF NoticeSpec, ContentSpec

LEMMA ContentOfUploads == UploadSpec => ContentSpec
<1>1. UploadInit => ContentInit
  BY DEF UploadInit
<1>2. ASSUME UploadsInv, Uploading PROVE [ContentNext]_contentVars
  <2>1. ASSUME NEW u \in Uploads, Complete(u) PROVE [ContentNext]_contentVars
    <3>1. CASE UNCHANGED contentVars
      BY <3>1
    <3>2. CASE CompleteUpload(upload[u].asset, upload[u].digest)
      <4>1. upload[u].asset \in Assets /\ upload[u].digest \in Digests
        BY <1>2, <2>1 DEF Complete, UploadsInv, Shape, UploadShape
      <4>. QED
        BY <3>2, <4>1 DEF ContentNext, Command, AssetCommand
    <3>. QED
      BY <2>1, <3>1, <3>2 DEF Complete
  <2>. QED
    BY <1>2, <2>1 DEF Uploading, Request, Inspect, ReadBack, Confirm, Recheck, Store, Verify,
       LoadAgain, Stop
<1>3. Cleaning => UNCHANGED contentVars
  BY DEF Cleaning, Candidate, Observe, Reload, Check, Delete, Leave
<1>4. UploadsInv /\ [UploadNext]_uploadVars => [ContentNext]_contentVars
  BY <1>2, <1>3 DEF UploadNext, Editorial, uploadVars
<1>. QED
  BY <1>1, <1>4, InitInv, NextInv, PTL DEF UploadSpec, ContentSpec

\* Beside the workers, the notifications and the uploads the content item is the one
\* that ContentSpec describes: what holds of every history of its own holds with them.
THEOREM ContentIsItsOwn == Spec \/ NoticeSpec \/ UploadSpec => ContentSpec
BY ContentOfDeliveries, ContentOfNotices, ContentOfUploads
=============================================================================
