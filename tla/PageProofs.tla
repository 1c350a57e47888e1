------------------------------ MODULE PageProofs ------------------------------
(***************************************************************************)
(* Proofs about the browser's pages, for any texts, items, identities and  *)
(* bounds: a decision that a review offers is refused only for a change    *)
(* that the page has not seen, what a user entered on an item's page while *)
(* nothing was under way stays there until it is saved or given up, and a  *)
(* list shows what was asked for, with every row that stays.               *)
(***************************************************************************)
EXTENDS BrowserPages, SequenceTheorems, FiniteSetTheorems, WellFoundedInduction, TLAPS

-----------------------------------------------------------------------------
(* The page of a review.                                                   *)

ReviewStatuses == Outcomes \cup {"pending", "superseded", None}
Snapshots == [id : Nat, status : ReviewStatuses, source : Nat]
DeskFields == DOMAIN NoDesk
IsLoads == DOMAIN loads = {"now", "given"} /\ DOMAIN loads.now = DOMAIN NoLoad
Choices == [id : Nat, base : Nat, status : Outcomes \cup {None}, who : Identities \cup {None},
            applied : BOOLEAN]

\* The version a decision was made on has the review it is about, pending.
Stands(try) ==
  /\ try.base \in 1 .. Len(past)
  /\ past[try.base].id = try.id /\ IsPending(past[try.base])

Refusal == Len(past) > decision.try.base /\ ~decision.try.applied

ReviewHolds ==
  /\ past \in Seq(Snapshots)
  /\ DOMAIN desk = DeskFields /\ desk.who \in Identities \cup {None}
  /\ desk.base \in 0 .. Len(past)
  /\ IsLoads
  /\ loads.now.pc = "read" => loads.now.base \in 0 .. Len(past)
  /\ loads.now.pc # "none" => desk.loading /\ decision.pc = "none"
  /\ decision \in [pc : {"none", "sent", "ok", "conflict"}, try : Choices, late : Choices]
  /\ decision.pc = "sent" => Stands(decision.try)
  /\ decision.pc = "conflict" => Refusal

LEMMA AdoptedKeeps ==
  ASSUME NEW sheet, NEW model, NEW base, DOMAIN sheet = DeskFields
  PROVE  /\ DOMAIN Adopted(sheet, model, base) = DeskFields
         /\ Adopted(sheet, model, base).base = sheet.base
         /\ Adopted(sheet, model, base).who = sheet.who
         /\ Adopted(sheet, model, base).loading = sheet.loading
BY DEF Adopted, DeskFields, NoDesk

\* The versions of an item only become more.
LEMMA VersionedHolds ==
  ASSUME past \in Seq(Snapshots), NEW review \in Snapshots, Versioned(review)
  PROVE  /\ past' \in Seq(Snapshots) /\ Len(past') = Len(past) + 1
         /\ \A v \in 1 .. Len(past) : past'[v] = past[v]
BY DEF Versioned

LEMMA GrownHolds ==
  ASSUME ReviewHolds, NEW review \in Snapshots, Versioned(review), UNCHANGED <<desk, loads>>,
         decision' \in [pc : {"none", "sent", "ok", "conflict"}, try : Choices, late : Choices],
         decision'.pc = "sent" => decision.pc = "sent",
         decision'.pc = "conflict" => decision.pc = "conflict",
         loads.now.pc # "none" => decision'.pc = "none",
         \/ decision'.try = decision.try
         \/ decision'.try.base = decision.try.base /\ decision'.try.id = decision.try.id /\ decision'.pc # "conflict"
  PROVE  ReviewHolds'
<1>1. /\ past \in Seq(Snapshots) /\ past' \in Seq(Snapshots) /\ Len(past') = Len(past) + 1
      /\ Len(past) \in Nat
      /\ \A v \in 1 .. Len(past) : past'[v] = past[v]
  BY VersionedHolds DEF ReviewHolds
<1>2. decision'.pc = "sent" => Stands(decision.try)'
  BY <1>1 DEF ReviewHolds, Stands, IsPending, Choices
<1>3. decision'.pc = "conflict" => Refusal'
  BY <1>1 DEF ReviewHolds, Refusal, Choices
<1>4. desk'.base \in 0 .. Len(past') /\ (loads'.now.pc = "read" => loads'.now.base \in 0 .. Len(past'))
  BY <1>1 DEF ReviewHolds
<1>5. IsLoads' /\ (loads'.now.pc # "none" => desk'.loading /\ decision'.pc = "none")
  BY DEF ReviewHolds, IsLoads
<1>. QED
  BY <1>1, <1>2, <1>3, <1>4, <1>5 DEF ReviewHolds

LEMMA ReviewInitHolds ==
  ASSUME ReviewInit \/ NoReview
  PROVE  ReviewHolds /\ (ReviewInit => past # <<>>)
<1>1. NoTry \in Choices
  BY DEF NoTry, Choices
<1>2. /\ decision = NoDecision
      /\ \/ loads = [now |-> NoLoad, given |-> FALSE]
         \/ loads = [now |-> [NoLoad EXCEPT !.pc = "model", !.id = 1], given |-> FALSE]
  <2>1. CASE ReviewInit
    BY <2>1, Zenon DEF ReviewInit
  <2>2. CASE NoReview
    BY <2>2, Zenon DEF NoReview
  <2>. QED
    BY <2>1, <2>2
<1>3. past \in Seq(Snapshots) /\ (ReviewInit => past # <<>>)
  <2>1. CASE NoReview /\ ~ReviewInit
    BY <2>1 DEF NoReview
  <2>2. CASE ReviewInit
    <3> DEFINE open(r) == [id |-> r, status |-> "pending", source |-> r]
    <3>1. open(1) \in Snapshots /\ open(2) \in Snapshots
          /\ [open(1) EXCEPT !.status = "superseded"] \in Snapshots
      BY DEF Snapshots, ReviewStatuses
    <3>2. past \in {<<open(1)>>, <<[open(1) EXCEPT !.status = "superseded"], open(2)>>}
      BY <2>2 DEF ReviewInit
    <3>3. \E x, y \in Snapshots : past = <<x>> \/ past = <<x, y>>
      BY <3>1, <3>2, Zenon
    <3>4. PICK x, y \in Snapshots : past = <<x>> \/ past = <<x, y>>
      BY <3>3
    <3>5. <<x>> \in Seq(Snapshots) /\ <<x, y>> \in Seq(Snapshots) /\ <<x>> # <<>> /\ <<x, y>> # <<>>
      BY <3>4
    <3>. QED
      BY <3>4, <3>5
  <2>. QED
    BY <2>1, <2>2
<1>4. /\ DOMAIN desk = DeskFields /\ desk.base = 0 /\ desk.who \in Identities \cup {None}
      /\ ReviewInit => desk.loading
  <2>1. CASE NoReview /\ ~ReviewInit
    BY <2>1 DEF NoReview, NoDesk, DeskFields
  <2>2. CASE ReviewInit
    <3>1. PICK who \in Identities :
            desk = [NoDesk EXCEPT !.asked = 1, !.who = who, !.loading = TRUE]
      BY <2>2, Zenon DEF ReviewInit
    <3>. QED
      BY <3>1 DEF NoDesk, DeskFields
  <2>. QED
    BY <2>1, <2>2
<1>5. IsLoads /\ loads.now.pc # "read" /\ (~ReviewInit => loads.now.pc = "none")
  <2>1. NoLoad.pc = "none" /\ [NoLoad EXCEPT !.pc = "model", !.id = 1].pc = "model"
    BY DEF NoLoad
  <2>2. loads.now = NoLoad \/ loads.now = [NoLoad EXCEPT !.pc = "model", !.id = 1]
    BY <1>2
  <2>3. ~ReviewInit => loads.now = NoLoad
    BY DEF NoReview
  <2>4. DOMAIN loads.now = DOMAIN NoLoad
    BY <2>2 DEF NoLoad
  <2>5. DOMAIN loads = {"now", "given"}
    BY <1>2
  <2>. QED
    BY <2>1, <2>2, <2>3, <2>4, <2>5 DEF IsLoads
<1>. QED
  BY <1>1, <1>2, <1>3, <1>4, <1>5 DEF ReviewHolds, NoDecision

LEMMA ReadShape == ASSUME ReviewHolds, past # <<>> PROVE Latest \in Snapshots
BY DEF ReviewHolds, Latest

LEMMA ClosedShape ==
  ASSUME ReviewHolds, past # <<>>, NEW status \in ReviewStatuses
  PROVE  ClosedAs(status) \in Snapshots
<1>1. PICK l \in Snapshots : l = Latest
  BY ReadShape
<1>2. ClosedAs(status) = [l EXCEPT !.status = status, !.source = Len(past) + 1]
  BY <1>1 DEF ClosedAs
<1>3. l = [id |-> l.id, status |-> l.status, source |-> l.source]
  BY DEF Snapshots, ReviewStatuses
<1>4. ClosedAs(status) = [id |-> l.id, status |-> status, source |-> Len(past) + 1]
  BY <1>2, <1>3
<1>5. Len(past) + 1 \in Nat
  BY DEF ReviewHolds
<1>. QED
  BY <1>4, <1>5 DEF Snapshots

LEMMA OthersReviewHolds == ASSUME ReviewHolds, past # <<>>, OthersReview PROVE ReviewHolds'
<1>1. [id |-> Latest.id + 1, status |-> "pending", source |-> Len(past) + 1] \in Snapshots
  BY ReadShape DEF Snapshots, ReviewStatuses, ReviewHolds
<1>2. PICK review \in Snapshots : Versioned(review)
  BY <1>1, ClosedShape DEF OthersReview, ReviewStatuses
<1>. QED
  BY <1>2, GrownHolds DEF OthersReview, ReviewHolds

\* What does not change the item, nor a decision that is under way.
LEMMA BesideHolds ==
  ASSUME ReviewHolds, UNCHANGED <<past, decision>>,
         DOMAIN desk' = DeskFields, desk'.base = desk.base,
         desk'.who \in {desk.who} \cup Identities, IsLoads',
         loads'.now.pc = "read" => loads'.now.base \in 0 .. Len(past) \/ loads'.now = loads.now,
         loads'.now.pc # "none" => desk'.loading /\ decision.pc = "none"
  PROVE  ReviewHolds'
BY DEF ReviewHolds, Stands, Refusal

LEMMA LoadReviewHolds ==
  ASSUME ReviewHolds, NEW sheet, LoadReview(sheet), UNCHANGED <<item, decision>>,
         decision.pc = "none",
         DOMAIN sheet = DeskFields, sheet.base = desk.base, sheet.who \in {desk.who} \cup Identities
  PROVE  ReviewHolds'
<1>1. /\ DOMAIN desk' = DeskFields /\ desk'.base = desk.base
      /\ desk'.who \in {desk.who} \cup Identities
  BY DEF LoadReview, DeskFields, NoDesk
<1>2. IsLoads' /\ loads'.now.pc = "model"
  BY DEF LoadReview, NoLoad, IsLoads
<1>3. desk'.loading
  BY DEF LoadReview, DeskFields, NoDesk
<1>. QED
  BY <1>1, <1>2, <1>3, BesideHolds DEF item

LEMMA ReaderHolds ==
  ASSUME ReviewHolds,
         \/ \E r \in 1 .. MaxReviews : OpenReview(r)
         \/ \E who \in Identities : SwitchReviewer(who)
         \/ RefreshReview \/ WriteNote \/ DiscardNote
  PROVE  ReviewHolds'
<1>1. DOMAIN desk = DeskFields
  BY DEF ReviewHolds
<1>2. ASSUME NEW r \in 1 .. MaxReviews, OpenReview(r) PROVE ReviewHolds'
  BY <1>1, <1>2, LoadReviewHolds DEF OpenReview, DeskFields, NoDesk
<1>3. ASSUME NEW who \in Identities, SwitchReviewer(who) PROVE ReviewHolds'
  BY <1>1, <1>3, LoadReviewHolds DEF SwitchReviewer, DeskFields, NoDesk
<1>4. CASE RefreshReview
  BY <1>1, <1>4, LoadReviewHolds DEF RefreshReview
<1>5. CASE WriteNote \/ DiscardNote
  <2>1. /\ DOMAIN desk' = DeskFields /\ desk'.base = desk.base /\ desk'.who = desk.who
        /\ desk'.loading = desk.loading
    BY <1>1, <1>5 DEF WriteNote, DiscardNote, DeskFields, NoDesk
  <2>2. UNCHANGED <<past, decision, loads>>
    BY <1>5 DEF WriteNote, DiscardNote, item
  <2>. QED
    BY <2>1, <2>2, BesideHolds DEF ReviewHolds, IsLoads
<1>. QED
  BY <1>2, <1>3, <1>4, <1>5

LEMMA LoadingHolds ==
  ASSUME ReviewHolds,
         ReadModel \/ ReadItem \/ ReviewLoadFails \/ ReviewNotLoaded \/ GivenUpEnds
  PROVE  ReviewHolds'
<1>1. DOMAIN desk = DeskFields /\ Len(past) \in 0 .. Len(past)
  BY DEF ReviewHolds
<1>2. CASE ReadModel \/ ReadItem \/ ReviewLoadFails
  <2>1. IsLoads /\ loads.now.pc # "none" /\ desk.loading /\ decision.pc = "none"
    BY <1>2 DEF ReviewHolds, ReadModel, ReadItem, ReviewLoadFails
  <2>2. IsLoads'
    BY <1>2, <2>1 DEF ReadModel, ReadItem, ReviewLoadFails, IsLoads
  <2>4. ReadItem => loads'.now.base \in 0 .. Len(past)
    <3>1. ReadItem => \E pc : loads'.now = [loads.now EXCEPT !.pc = pc, !.base = Len(past)]
      BY <2>1 DEF ReadItem, IsLoads
    <3>2. ASSUME NEW pc PROVE [loads.now EXCEPT !.pc = pc, !.base = Len(past)].base = Len(past)
      BY <2>1 DEF IsLoads, NoLoad
    <3>. QED
      BY <1>1, <3>1, <3>2
  <2>5. ReadModel \/ ReviewLoadFails => loads'.now.pc # "read"
    BY <2>1 DEF ReadModel, ReviewLoadFails, IsLoads, NoLoad
  <2>3. UNCHANGED <<past, desk, decision>>
    BY <1>2 DEF ReadModel, ReadItem, ReviewLoadFails, item
  <2>. QED
    BY <1>1, <1>2, <2>1, <2>2, <2>3, <2>4, <2>5, BesideHolds
<1>3. CASE ReviewNotLoaded
  <2>1. IsLoads' /\ loads'.now.pc = "none"
    BY <1>3 DEF ReviewNotLoaded, NoLoad, ReviewHolds, IsLoads
  <2>2. DOMAIN desk' = DeskFields /\ desk'.base = desk.base /\ desk'.who = desk.who
    BY <1>1, <1>3 DEF ReviewNotLoaded, DeskFields, NoDesk
  <2>. QED
    BY <1>3, <2>1, <2>2, BesideHolds DEF ReviewNotLoaded, item
<1>4. CASE GivenUpEnds
  <2>1. IsLoads' /\ loads'.now = loads.now
    BY <1>4 DEF GivenUpEnds, ReviewHolds, IsLoads
  <2>2. UNCHANGED <<past, desk, decision>>
    BY <1>4 DEF GivenUpEnds, item
  <2>. QED
    BY <1>1, <2>1, <2>2, BesideHolds DEF ReviewHolds
<1>. QED
  BY <1>2, <1>3, <1>4

LEMMA ReviewLoadedHolds == ASSUME ReviewHolds, ReviewLoaded PROVE ReviewHolds'
<1> DEFINE sheet == [desk EXCEPT !.review = None, !.base = loads.now.base, !.loading = FALSE,
                                 !.conflict = FALSE]
<1>1. DOMAIN sheet = DeskFields /\ sheet.base = loads.now.base /\ sheet.who = desk.who
  BY DEF ReviewHolds, DeskFields, NoDesk
<1>2. /\ desk' = Adopted(sheet, loads.now.model, loads.now.base)
      /\ loads.now.pc = "read" /\ loads'.now = NoLoad
      /\ decision' = [decision EXCEPT !.try = NoTry] /\ UNCHANGED past
  BY DEF ReviewLoaded, item
<1>. HIDE DEF sheet
<1>3. /\ DOMAIN desk' = DeskFields /\ desk'.base \in 0 .. Len(past)
      /\ desk'.who \in Identities \cup {None}
  BY <1>1, <1>2, AdoptedKeeps DEF ReviewHolds
<1>4. IsLoads' /\ loads'.now.pc = "none"
  BY <1>2 DEF NoLoad, ReviewHolds, IsLoads, ReviewLoaded
<1>5. NoTry \in Choices /\ decision.pc = "none"
  BY <1>2 DEF NoTry, Choices, ReviewHolds
<1>6. /\ decision'.pc = "none"
      /\ decision' \in [pc : {"none", "sent", "ok", "conflict"}, try : Choices, late : Choices]
  BY <1>2, <1>5 DEF ReviewHolds
<1>. QED
  BY <1>2, <1>3, <1>4, <1>6 DEF ReviewHolds

\* The row is written, and read again while it is behind.
LEMMA SyncHolds ==
  ASSUME ReviewHolds,
         \/ \E r \in 1 .. MaxReviews : Materialize(r)
         \/ SyncFires \/ SyncReads \/ SyncAdopts \/ SyncPauses
  PROVE  ReviewHolds'
<1>1. DOMAIN desk = DeskFields
  BY DEF ReviewHolds
<1>2. /\ DOMAIN desk' = DeskFields /\ desk'.base = desk.base /\ desk'.who = desk.who
      /\ desk'.loading = desk.loading
  <2>1. CASE SyncAdopts
    BY <1>1, <2>1, AdoptedKeeps DEF SyncAdopts
  <2>2. CASE ~SyncAdopts
    BY <1>1, <2>2 DEF Materialize, SyncFires, SyncReads, SyncPauses
  <2>. QED
    BY <2>1, <2>2
<1>3. UNCHANGED <<past, loads, decision>>
  BY DEF Materialize, SyncFires, SyncReads, SyncAdopts, SyncPauses, item
<1>. QED
  BY <1>2, <1>3, BesideHolds DEF ReviewHolds, IsLoads

LEMMA DecideReviewHolds ==
  ASSUME ReviewHolds, NEW status \in Outcomes, DecideReview(status)
  PROVE  ReviewHolds'
<1> DEFINE try == [NoTry EXCEPT !.id = desk.review.id, !.base = desk.base, !.status = status,
                                !.who = desk.who]
<1>1. /\ CanDecide /\ decision.pc = "none"
      /\ decision' = [decision EXCEPT !.pc = "sent",
                        !.try = IF [decision.try EXCEPT !.applied = FALSE] = try THEN @ ELSE try]
      /\ UNCHANGED <<past, desk, loads>>
  BY DEF DecideReview, item
<1>2. desk.base \in 1 .. Len(past) /\ past[desk.base] \in Snapshots
  BY <1>1 DEF CanDecide, IsCurrent, ReviewHolds
<1>3. /\ past[desk.base].id = desk.review.id /\ IsPending(past[desk.base])
      /\ loads.now.pc = "none" /\ desk.who \in Identities \cup {None}
  BY <1>1 DEF CanDecide, IsCurrent, ReviewHolds
<1>4. desk.review.id \in Nat /\ desk.base \in Nat
  BY <1>2, <1>3 DEF Snapshots, ReviewHolds
<1>5. PICK n \in Choices : n = NoTry
  BY DEF NoTry, Choices
<1>6. try \in Choices /\ try.base = desk.base /\ try.id = desk.review.id
  BY <1>3, <1>4, <1>5 DEF Choices
<1>. HIDE DEF try
<1>7. decision \in [pc : {"none", "sent", "ok", "conflict"}, try : Choices, late : Choices]
  BY DEF ReviewHolds
<1>8. /\ decision' \in [pc : {"none", "sent", "ok", "conflict"}, try : Choices, late : Choices]
      /\ decision'.pc = "sent"
      /\ \/ decision'.try = try
         \/ [decision.try EXCEPT !.applied = FALSE] = try /\ decision'.try = decision.try
  <2>1. \E t \in Choices :
          /\ decision' = [decision EXCEPT !.pc = "sent", !.try = t]
          /\ \/ t = try
             \/ [decision.try EXCEPT !.applied = FALSE] = try /\ t = decision.try
    <3>1. CASE [decision.try EXCEPT !.applied = FALSE] = try
      BY <1>1, <1>7, <3>1, Zenon
    <3>2. CASE [decision.try EXCEPT !.applied = FALSE] # try
      BY <1>1, <1>6, <1>7, <3>2, Zenon
    <3>. QED
      BY <3>1, <3>2
  <2>. QED
    BY <1>7, <2>1
<1>9. decision'.try.base = desk.base /\ decision'.try.id = desk.review.id
  <2>1. CASE decision'.try = try
    BY <1>6, <2>1
  <2>2. CASE [decision.try EXCEPT !.applied = FALSE] = try /\ decision'.try = decision.try
    <3>1. PICK t \in Choices : t = decision.try
      BY <1>7
    <3>2. [t EXCEPT !.applied = FALSE].base = t.base /\ [t EXCEPT !.applied = FALSE].id = t.id
      BY DEF Choices
    <3>. QED
      BY <1>6, <2>2, <3>1, <3>2
  <2>. QED
    BY <1>8, <2>1, <2>2
<1>10. Stands(decision.try)'
  BY <1>1, <1>2, <1>3, <1>9 DEF Stands, IsPending
<1>. QED
  BY <1>1, <1>3, <1>8, <1>10 DEF ReviewHolds, IsLoads

\* What was asked for at a version that has the review pending is refused only later.
LEMMA ExecuteDecisionHolds ==
  ASSUME ReviewHolds, past # <<>>, ExecuteDecision
  PROVE  ReviewHolds'
<1>1. /\ Stands(decision.try) /\ loads.now.pc = "none" /\ Len(past) \in Nat
      /\ decision \in [pc : {"none", "sent", "ok", "conflict"}, try : Choices, late : Choices]
      /\ decision.pc = "sent" /\ UNCHANGED <<desk, loads>>
  BY DEF ExecuteDecision, ReviewHolds
<1>2. PICK t \in Choices : t = decision.try
  BY <1>1
<1>3. CASE decision' = [decision EXCEPT !.pc = "ok"] /\ UNCHANGED past
  BY <1>1, <1>3 DEF ReviewHolds, IsLoads
<1>4. CASE /\ Versioned(ClosedAs(t.status))
           /\ decision' = [decision EXCEPT !.pc = "ok", !.try.applied = TRUE]
  <2>1. ClosedAs(t.status) \in Snapshots
    BY ClosedShape DEF Choices, ReviewStatuses
  <2>2. decision'.pc = "ok" /\ decision'.late = decision.late
        /\ decision'.try = [t EXCEPT !.applied = TRUE]
    BY <1>1, <1>2, <1>4
  <2>3. [t EXCEPT !.applied = TRUE] \in Choices
        /\ [t EXCEPT !.applied = TRUE].base = t.base /\ [t EXCEPT !.applied = TRUE].id = t.id
    BY DEF Choices
  <2>4. decision' \in [pc : {"none", "sent", "ok", "conflict"}, try : Choices, late : Choices]
    BY <1>1, <1>4, <2>2, <2>3
  <2>. QED
    BY <1>1, <1>2, <1>4, <2>1, <2>2, <2>3, <2>4, GrownHolds
<1>5. CASE /\ ~t.applied /\ ~Takes(t) /\ UNCHANGED past
           /\ decision' = [decision EXCEPT !.pc = "conflict"]
  <2>1. Len(past) > t.base
    BY <1>1, <1>2, <1>5 DEF Stands, Takes, Latest
  <2>2. decision'.pc = "conflict" /\ decision'.try = decision.try
        /\ decision' \in [pc : {"none", "sent", "ok", "conflict"}, try : Choices, late : Choices]
    BY <1>1, <1>5
  <2>. QED
    BY <1>1, <1>2, <1>5, <2>1, <2>2 DEF ReviewHolds, IsLoads, Refusal
<1>. QED
  BY <1>2, <1>3, <1>4, <1>5 DEF ExecuteDecision

\* A command that comes late is the one that was refused only if it is refused as well.
LEMMA ExecuteLateDecisionHolds ==
  ASSUME ReviewHolds, past # <<>>, ExecuteLateDecision
  PROVE  ReviewHolds'
<1>1. /\ Len(past) \in Nat /\ UNCHANGED <<desk, loads>>
      /\ decision \in [pc : {"none", "sent", "ok", "conflict"}, try : Choices, late : Choices]
      /\ loads.now.pc # "none" => decision.pc = "none"
  BY DEF ExecuteLateDecision, ReviewHolds
<1>2. PICK t \in Choices, l \in Choices : t = decision.try /\ l = decision.late
  BY <1>1
<1>3. /\ IF Takes(l) THEN Versioned(ClosedAs(l.status)) ELSE UNCHANGED past
      /\ decision' = [decision EXCEPT !.late = NoTry, !.try.applied = @ \/ (Takes(l) /\ t = l)]
  BY <1>2 DEF ExecuteLateDecision
<1>4. NoTry \in Choices
  BY DEF NoTry, Choices
<1> DEFINE u == [t EXCEPT !.applied = @ \/ (Takes(l) /\ t = l)]
<1>5. decision'.pc = decision.pc /\ decision'.try = u /\ decision'.late = NoTry
  BY <1>1, <1>2, <1>3
<1>6. u \in Choices /\ u.base = t.base /\ u.id = t.id /\ (u = t \/ (Takes(l) /\ t = l))
  <2>1. Takes(l) \in BOOLEAN
    BY DEF Takes
  <2>2. t.applied \in BOOLEAN
    BY DEF Choices
  <2>3. (t.applied \/ (Takes(l) /\ t = l)) \in BOOLEAN
    OBVIOUS
  <2>4. PICK b \in BOOLEAN : b = (t.applied \/ (Takes(l) /\ t = l))
    BY <2>3
  <2>5. u = [t EXCEPT !.applied = b]
    BY <2>4
  <2>6. u \in Choices /\ u.base = t.base /\ u.id = t.id
    BY <2>5 DEF Choices
  <2>7. ~(Takes(l) /\ t = l) => b = t.applied
    BY <2>2, <2>4
  <2>8. b = t.applied => u = t
    BY <2>5 DEF Choices
  <2>. HIDE DEF u
  <2>. QED
    BY <2>6, <2>7, <2>8
<1>. HIDE DEF u
<1>7. decision' \in [pc : {"none", "sent", "ok", "conflict"}, try : Choices, late : Choices]
  <2>1. decision' = [pc |-> decision.pc, try |-> u, late |-> NoTry]
    BY <1>1, <1>3, <1>5
  <2>. QED
    BY <1>1, <1>4, <1>6, <2>1
<1>8. decision.pc = "conflict" => u = t
  <2>1. Takes(t) => t.base = Len(past)
    BY DEF Takes
  <2>2. decision.pc = "conflict" => Len(past) > t.base
    BY <1>2 DEF ReviewHolds, Refusal
  <2>. QED
    BY <1>1, <1>6, <2>1, <2>2
<1>9. CASE Takes(l)
  <2>1. ClosedAs(l.status) \in Snapshots
    BY ClosedShape DEF Choices, ReviewStatuses
  <2>. QED
    BY <1>1, <1>2, <1>3, <1>5, <1>6, <1>7, <1>8, <1>9, <2>1, GrownHolds
<1>10. CASE ~Takes(l)
  <2>1. UNCHANGED past /\ decision'.try = decision.try /\ decision'.pc = decision.pc
    BY <1>2, <1>3, <1>5, <1>6, <1>10
  <2>. QED
    BY <1>1, <1>7, <2>1 DEF ReviewHolds, IsLoads, Stands, Refusal
<1>. QED
  BY <1>9, <1>10

LEMMA DecidedHolds ==
  ASSUME ReviewHolds, LoseDecision \/ DecisionRecorded \/ DecisionRefused
  PROVE  ReviewHolds'
<1>1. /\ decision \in [pc : {"none", "sent", "ok", "conflict"}, try : Choices, late : Choices]
      /\ decision.pc # "none" /\ loads.now.pc = "none" /\ DOMAIN desk = DeskFields
  BY DEF ReviewHolds, LoseDecision, DecisionRecorded, DecisionRefused
<1>2. UNCHANGED past /\ decision'.pc = "none"
      /\ decision' \in [pc : {"none", "sent", "ok", "conflict"}, try : Choices, late : Choices]
  BY <1>1 DEF LoseDecision, DecisionRecorded, DecisionRefused, item
<1>3. DOMAIN desk' = DeskFields /\ desk'.base = desk.base /\ desk'.who = desk.who
  BY <1>1 DEF LoseDecision, DecisionRecorded, DecisionRefused, DeskFields, NoDesk
<1>4. IsLoads' /\ (loads'.now.pc = "none" \/ (loads'.now.pc = "model" /\ desk'.loading))
  <2>1. CASE DecisionRecorded
    <3>1. IsLoads
      BY DEF ReviewHolds
    <3>2. loads'.now = [NoLoad EXCEPT !.pc = "model", !.id = decision.try.id, !.decided = TRUE]
      BY <2>1, <3>1 DEF DecisionRecorded, IsLoads
    <3>3. DOMAIN loads' = {"now", "given"}
      BY <2>1, <3>1 DEF DecisionRecorded, IsLoads
    <3>4. desk'.loading
      BY <1>1, <2>1 DEF DecisionRecorded, DeskFields, NoDesk
    <3>5. loads'.now.pc = "model" /\ DOMAIN loads'.now = DOMAIN NoLoad
      BY <3>2 DEF NoLoad
    <3>. QED
      BY <3>3, <3>4, <3>5 DEF IsLoads
  <2>2. CASE ~DecisionRecorded
    BY <1>1, <2>2 DEF LoseDecision, DecisionRefused, ReviewHolds, IsLoads
  <2>. QED
    BY <2>1, <2>2
<1>. QED
  BY <1>2, <1>3, <1>4 DEF ReviewHolds

LEMMA ReviewNextHolds == ASSUME ReviewHolds, past # <<>>, ReviewNext PROVE ReviewHolds' /\ past' # <<>>
<1>1. ReviewHolds'
  BY OthersReviewHolds, ReaderHolds, LoadingHolds, ReviewLoadedHolds, SyncHolds, DecideReviewHolds,
     ExecuteDecisionHolds, ExecuteLateDecisionHolds, DecidedHolds
     DEF ReviewNext, ReviewStep, Reviewer
<1>2. past' # <<>>
  <2>1. past \in Seq(Snapshots) /\ (UNCHANGED past \/ \E review : Versioned(review))
    BY Zenon DEF ReviewHolds, ReviewNext, ReviewStep, Reviewer, OthersReview, Materialize, OpenReview,
       SwitchReviewer, RefreshReview, WriteNote, DiscardNote, DecideReview, ReadModel, ReadItem,
       ReviewLoadFails, ReviewLoaded, ReviewNotLoaded, GivenUpEnds, SyncFires, SyncReads,
       SyncAdopts, SyncPauses, ExecuteDecision, LoseDecision, ExecuteLateDecision,
       DecisionRecorded, DecisionRefused, item
  <2>2. CASE UNCHANGED past
    BY <2>2
  <2>3. CASE \E review : Versioned(review)
    <3>1. PICK review : past' = Append(past, review)
      BY <2>3 DEF Versioned
    <3>2. Len(past') = Len(past) + 1 /\ Len(past) \in Nat
      BY <2>1, <3>1
    <3>. QED
      BY <3>2
  <2>. QED
    BY <2>1, <2>2, <2>3
<1>. QED
  BY <1>1, <1>2

ReviewedHolds == ReviewHolds /\ (route = "review" => past # <<>>)

\* On every page and in every step, of a review or beside it.
LEMMA ReviewAlwaysHolds == BrowserSpec => []ReviewedHolds
<1>1. BrowserInit => ReviewedHolds
  <2>1. BrowserInit => ReviewInit \/ NoReview
    BY Zenon DEF BrowserInit
  <2>2. BrowserInit /\ route = "review" => ReviewInit
    BY DEF BrowserInit
  <2>. QED
    BY <2>1, <2>2, ReviewInitHolds DEF ReviewedHolds
<1>2. ReviewedHolds /\ [BrowserNext]_browserVars => ReviewedHolds'
  <2> SUFFICES ASSUME ReviewedHolds, [BrowserNext]_browserVars PROVE ReviewedHolds'
    OBVIOUS
  <2>1. CASE route = "review" /\ ReviewNext /\ UNCHANGED <<route, itemVars, listVars>>
    BY <2>1, ReviewNextHolds DEF ReviewedHolds
  <2>2. CASE UNCHANGED <<route, past, desk, loads, decision>>
    BY <2>2 DEF ReviewedHolds, ReviewHolds, IsLoads, Stands, Refusal
  <2>3. CASE UNCHANGED <<route, reviewVars>>
    BY <2>2, <2>3 DEF reviewVars, item
  <2>. QED
    BY <2>1, <2>3 DEF BrowserNext, browserVars
<1>. QED
  BY <1>1, <1>2, PTL DEF BrowserSpec

\* A decision that a review's page offers is refused only when the item has changed since
\* the page read it, and never because of its own first try: DecideReview checks, through
\* CanDecide, that the version read has the review pending, whatever made the page show it
\* (links, identities, loadings that were given up, rows that come late, polls), versions
\* only follow one another, and a command whose answer was lost is answered as before.
THEOREM DecisionsAreTaken == BrowserSpec => []RefusedWhenChanged
<1>1. ReviewedHolds => RefusedWhenChanged
  BY DEF ReviewedHolds, ReviewHolds, Refusal, RefusedWhenChanged
<1>. QED
  BY <1>1, ReviewAlwaysHolds, PTL

-----------------------------------------------------------------------------
(* The page of an item: what it holds and what the API has done.           *)

Rows == [version : Nat, data : Contents]
Drafts == {"create", "edit"}
PageFields == {"view", "row", "form", "latest", "file", "target", "time", "awaiting", "told",
               "conflict", "intent", "poll"}
CallFields == {"pc", "cmd", "key", "answer", "floor"}
IsPage(p) == /\ DOMAIN p = PageFields /\ DOMAIN p.view = {"pc", "floor"}
             /\ DOMAIN p.poll = Polls /\ DOMAIN p.intent = Intents

\* What is not exposed is held to by the invariant.
TypedShape == DOMAIN typed = {"text", "time", "exposed"} /\ typed.time \in BOOLEAN
USE DEF TypedShape, SureText, SureTime

ShapeHolds ==
  /\ IsPage(page) /\ DOMAIN call = Sessions /\ \A s \in Sessions : DOMAIN call[s] = CallFields
  /\ TypedShape

\* Once it is queued, an item is not worked on any more.
GoneStatuses == {"queued", "failed", "published"}
GoneAt(v) == history[v].status \in GoneStatuses
Gone == Now # 0 /\ GoneAt(Now)
HistoryHolds ==
  /\ history \in Seq(Contents)
  /\ \A i, j \in 1 .. Now : i <= j /\ GoneAt(i) => GoneAt(j)

\* What was done at a version stands behind its answer.
Written(cmd) == cmd.name \in Drafts => cmd.arg \in Texts
Did(cmd, version) ==
  /\ version \in 1 .. Now
  /\ cmd.name = "create" => version = 1
  /\ cmd.name \in {"publish", "retry"} => Gone
ResultsHold == \A k \in DOMAIN results : Did(results[k].cmd, results[k].version)
LateHolds == \A t \in late : Written(t.cmd)

\* A row is of a version that was stored, and shows it as gone only if it is.
Met(row) == /\ row \in Rows /\ row.version \in 1 .. Now
            /\ row.data.status \in GoneStatuses => Gone
RowsHold ==
  /\ page.row # None => Met(page.row) /\ page.form \in Texts
  /\ page.latest # None => Met(page.latest) /\ page.row # None
  /\ page.file => page.row # None
  /\ page.form \in Texts \cup {None}
IntentsHold ==
  \A i \in {"attachments", "removal"} :
    page.intent[i] # None =>
      page.intent[i].cmd.name = IF i = "removal" THEN "remove" ELSE "register"

\* A page without an item has not met one: nothing but creations was ever sent.
NewHolds ==
  page.row = None =>
    /\ \A s \in Sessions \ {"editor"} : ~Pending(s)
    /\ Pending("editor") => call["editor"].cmd.name = "create"
    /\ \A p \in Polls : page.poll[p] = Off
    /\ \A k \in DOMAIN results : results[k].cmd.name = "create"
    /\ \A t \in late : t.cmd.name = "create"

\* A page is not loaded, nor its item submitted, under a command of the editor.
EditorAtRest == ~Pending("editor") \/ call["editor"].cmd.name = "compare"
ViewHolds ==
  /\ ~Shown \/ Pending("action") => EditorAtRest
  /\ page.view.pc = "loading" => /\ page.view.floor \in 0 .. Now
                                 /\ page.view.floor = 0 => Now = 0 /\ late = {}

\* Each session asks for what is its own.
Own(s, name) ==
  \/ s = "editor" /\ name \in {"create", "edit", "compare"}
  \/ s = "action" /\ name \in {"submit", "reopen"}
  \/ s = "attachments" /\ name \in {"register", "remove", "store"}
  \/ s = "schedule" /\ name \in {"schedule", "reschedule", "cancel"}
  \/ s = "publication" /\ name = "publish"
  \/ s = "recovery" /\ name \in {"retry", "refresh"}

CallHolds(s, c) ==
  /\ c.answer # None => c.pc = "sent" /\ (c.answer.is = "ok" => Did(c.cmd, c.answer.version))
  /\ c.pc = "read" => c.floor \in 1 .. Now /\ (c.cmd.name \in {"publish", "retry"} => Gone)
  /\ c.pc = "sent" => Written(c.cmd)
  /\ c.pc # "idle" => Own(s, c.cmd.name)
  /\ s = "editor" /\ c.pc = "sent" /\ c.cmd.name # "create" =>
       c.cmd.name = "edit" /\ c.cmd.expected \in 1 .. Now
CallsHold ==
  /\ \A s \in Sessions : CallHolds(s, call[s])
  /\ call["editor"].pc = "sent" /\ call["editor"].cmd.name = "create" => page.row = None

\* A poll follows a scheduled row, or an item that was queued.
PollHolds(p, poll) ==
  /\ poll.pc = "reading" => poll.floor \in 1 .. Now
  /\ poll.pc # "off" =>
       \/ p = "publication" /\ page.row # None /\ Status = "scheduled"
       \/ IF poll.pc = "reading" THEN GoneAt(poll.floor) ELSE Gone
PollsHold == \A p \in Polls : PollHolds(p, page.poll[p])

\* A text that was entered at rest is never before a session that would replace it ...
TextHolds ==
  SureText # None =>
    /\ Shown /\ Editable /\ Dirty /\ page.form = SureText
    /\ \A s \in Sessions \ {"editor"} : ~Pending(s)
    /\ Pending("editor") /\ call["editor"].pc = "read" => call["editor"].cmd.name = "compare"
    /\ \A p \in Polls : page.poll[p] = Off

\* ... nor a schedule before one that would load the page.
TimeHolds ==
  SureTime =>
    /\ Shown /\ page.time /\ ~Editable /\ ~Conflict("editor")
    /\ \A s \in Sessions \ {"schedule"} : ~Pending(s)
    /\ call["schedule"].pc # "read"

PageHolds ==
  /\ ShapeHolds /\ HistoryHolds /\ ResultsHold /\ LateHolds /\ RowsHold /\ IntentsHold /\ NewHolds /\ ViewHolds
  /\ CallsHold /\ PollsHold /\ TextHolds /\ TimeHolds
-----------------------------------------------------------------------------
\* What a change of the row makes of the page.
Carried(p, q) ==
  /\ q.view = p.view /\ q.form = p.form /\ q.latest = p.latest /\ q.file = p.file
  /\ q.time = p.time /\ q.row = p.row

LEMMA WatchedPage ==
  ASSUME NEW p, IsPage(p)
  PROVE  /\ IsPage(Watched(p)) /\ Carried(p, Watched(p))
         /\ Watched(p).conflict = p.conflict /\ Watched(p).intent = p.intent
         /\ Watched(p).poll["publication"] = IF p.row.data.status = "scheduled" THEN Timer ELSE Off
         /\ Watched(p).poll["recovery"] = p.poll["recovery"]
BY DEF IsPage, PageFields, Watched, Carried, Polls

LEMMA FollowedPage ==
  ASSUME NEW p, IsPage(p)
  PROVE  /\ IsPage(Followed(p)) /\ Carried(p, Followed(p))
         /\ Followed(p).conflict = p.conflict /\ Followed(p).intent = p.intent
         /\ Followed(p).poll["publication"] = p.poll["publication"]
         /\ Followed(p).poll["recovery"] = IF p.row.data.status = "queued" THEN Timer ELSE Off
BY DEF IsPage, PageFields, Followed, Carried, Polls

LEMMA UpdatedPage ==
  ASSUME NEW p, IsPage(p)
  PROVE  /\ IsPage(Updated(p)) /\ Carried(p, Updated(p))
         /\ Updated(p).conflict \subseteq p.conflict
         /\ \A i \in Intents \ {"recovery"} : Updated(p).intent[i] = p.intent[i]
         /\ Updated(p).poll["publication"] = p.poll["publication"]
         /\ Updated(p).poll["recovery"] = IF p.row.data.status = "queued" THEN Timer ELSE Off
<1> DEFINE u == [p EXCEPT !.conflict = @ \ {"recovery"}, !.intent["recovery"] = None,
                          !.awaiting = @ \ {"recovery"}, !.told = @ \ {"recovery"}]
<1>1. /\ IsPage(u) /\ Carried(p, u) /\ u.poll = p.poll
      /\ u.conflict = p.conflict \ {"recovery"}
      /\ u.intent = [p.intent EXCEPT !["recovery"] = None]
  BY DEF IsPage, PageFields, Carried
<1>2. \A i \in Intents \ {"recovery"} : u.intent[i] = p.intent[i]
  BY <1>1 DEF IsPage
<1>3. Updated(p) = Followed(u)
  BY DEF Updated
<1>. HIDE DEF u
<1>4. /\ IsPage(Followed(u)) /\ Carried(u, Followed(u))
      /\ Followed(u).conflict = u.conflict /\ Followed(u).intent = u.intent
      /\ Followed(u).poll["publication"] = u.poll["publication"]
      /\ Followed(u).poll["recovery"] = IF u.row.data.status = "queued" THEN Timer ELSE Off
  BY <1>1, FollowedPage
<1>5. Carried(p, Followed(u)) /\ u.row = p.row
  BY <1>1, <1>4 DEF Carried
<1>. QED
  BY <1>1, <1>2, <1>3, <1>4, <1>5

\* The poll of a publication follows the new row; that of a recovery stays, ends or follows.
Replacing(p, q, row) ==
  /\ IsPage(q) /\ q.row = row
  /\ q.view = p.view /\ q.file = p.file /\ q.time = p.time
  /\ q.conflict \subseteq p.conflict
  /\ \A i \in {"attachments", "removal"} : q.intent[i] = p.intent[i]
  /\ q.poll["publication"] = IF row.data.status = "scheduled" THEN Timer ELSE Off
  /\ \/ q.poll["recovery"] \in {p.poll["recovery"], Off}
     \/ q.poll["recovery"] = Timer /\ row.data.status = "queued"

LEMMA ReplacedPage ==
  ASSUME NEW p, IsPage(p), NEW row
  PROVE  /\ Replacing(p, Replaced(p, row), row)
         /\ Replaced(p, row).form = p.form /\ Replaced(p, row).latest = p.latest
<1> DEFINE u == [p EXCEPT !.row = row,
                  !.awaiting = IF row.data.status = "approved" THEN @ ELSE @ \ {"publication"}]
<1>1. /\ IsPage(u) /\ u.row = row /\ u.view = p.view /\ u.file = p.file /\ u.time = p.time
      /\ u.conflict = p.conflict /\ u.intent = p.intent /\ u.poll = p.poll
      /\ u.form = p.form /\ u.latest = p.latest
  BY DEF IsPage, PageFields
<1>2. Replaced(p, row) \in {Watched(u), Updated(Watched(u))}
  BY DEF Replaced
<1>. HIDE DEF u
<1>3. /\ IsPage(Watched(u)) /\ Carried(u, Watched(u))
      /\ Watched(u).conflict = u.conflict /\ Watched(u).intent = u.intent
      /\ Watched(u).poll["publication"] = IF u.row.data.status = "scheduled" THEN Timer ELSE Off
      /\ Watched(u).poll["recovery"] = u.poll["recovery"]
  BY <1>1, WatchedPage
<1>4. PICK w : w = Watched(u)
  OBVIOUS
<1>5. /\ IsPage(Updated(w)) /\ Carried(w, Updated(w))
      /\ Updated(w).conflict \subseteq w.conflict
      /\ \A i \in Intents \ {"recovery"} : Updated(w).intent[i] = w.intent[i]
      /\ Updated(w).poll["publication"] = w.poll["publication"]
      /\ Updated(w).poll["recovery"] = IF w.row.data.status = "queued" THEN Timer ELSE Off
  BY <1>3, <1>4, UpdatedPage
<1>6. Replacing(p, w, row) /\ w.form = p.form /\ w.latest = p.latest
  BY <1>1, <1>3, <1>4 DEF Replacing, Carried
<1>7. {"attachments", "removal"} \subseteq Intents \ {"recovery"}
  BY DEF Intents, Sessions
<1>8. Replacing(p, Updated(w), row) /\ Updated(w).form = p.form /\ Updated(w).latest = p.latest
  BY <1>5, <1>6, <1>7 DEF Replacing, Carried
<1>. QED
  BY <1>2, <1>4, <1>6, <1>8

LEMMA AcceptedPage ==
  ASSUME NEW p, IsPage(p), NEW row
  PROVE  /\ Replacing(p, Accepted(p, row), row)
         /\ Accepted(p, row).form = row.data.text /\ Accepted(p, row).latest = None
<1> DEFINE u == [p EXCEPT !.latest = None, !.form = row.data.text,
                          !.conflict = @ \ {"editor"}, !.intent["editor"] = None]
<1>1. /\ IsPage(u) /\ u.view = p.view /\ u.file = p.file /\ u.time = p.time
      /\ u.conflict = p.conflict \ {"editor"} /\ u.poll = p.poll
      /\ u.intent = [p.intent EXCEPT !["editor"] = None]
      /\ u.form = row.data.text /\ u.latest = None
  BY DEF IsPage, PageFields
<1>2. \A i \in {"attachments", "removal"} : u.intent[i] = p.intent[i]
  BY <1>1 DEF IsPage, Intents
<1>3. Accepted(p, row) = Replaced(u, row)
  BY DEF Accepted
<1>. HIDE DEF u
<1>4. /\ Replacing(u, Replaced(u, row), row)
      /\ Replaced(u, row).form = u.form /\ Replaced(u, row).latest = u.latest
  BY <1>1, ReplacedPage
<1>. QED
  BY <1>1, <1>2, <1>3, <1>4 DEF Replacing

LEMMA LoadingPage ==
  ASSUME NEW p, IsPage(p)
  PROVE  /\ IsPage(Loading(p)) /\ Loading(p).view = [pc |-> "loading", floor |-> Now]
         /\ Loading(p).row = p.row /\ Loading(p).form = p.form /\ Loading(p).latest = p.latest
         /\ Loading(p).file = p.file /\ Loading(p).time = p.time
         /\ \A i \in {"attachments", "removal"} : Loading(p).intent[i] = p.intent[i]
         /\ \A q \in Polls : Loading(p).poll[q] = Off
<1>1. /\ DOMAIN Loading(p) = PageFields /\ Loading(p).view = [pc |-> "loading", floor |-> Now]
      /\ Loading(p).row = p.row /\ Loading(p).form = p.form /\ Loading(p).latest = p.latest
      /\ Loading(p).file = p.file /\ Loading(p).time = p.time
      /\ Loading(p).poll = [q \in Polls |-> Off]
      /\ Loading(p).intent = [p.intent EXCEPT !["publication"] = None, !["recovery"] = None]
  BY DEF IsPage, PageFields, Loading
<1>2. \A i \in {"attachments", "removal"} : Loading(p).intent[i] = p.intent[i]
  BY <1>1 DEF IsPage, Intents, Sessions
<1>3. DOMAIN Loading(p).view = {"pc", "floor"} /\ DOMAIN Loading(p).poll = Polls
      /\ DOMAIN Loading(p).intent = Intents /\ \A q \in Polls : Loading(p).poll[q] = Off
  BY <1>1 DEF IsPage
<1>. QED
  BY <1>1, <1>2, <1>3 DEF IsPage
-----------------------------------------------------------------------------
\* What the API does to an item.
LEMMA AfterHolds ==
  ASSUME NEW data \in Contents, NEW name, NEW arg, Allowed(data, name, arg), Now \in Nat,
         name = "edit" => arg \in Texts
  PROVE  /\ After(data, name, arg) \in Contents
         /\ data.status \in GoneStatuses => After(data, name, arg).status \in GoneStatuses
         /\ name \in {"publish", "retry"} => After(data, name, arg).status \in GoneStatuses
<1> DEFINE Slots == {"pending", "ready", "removed"}
           slots == CASE name = "register" -> Append(data.slots, "pending")
                      [] name = "store" -> [data.slots EXCEPT ![arg] = "ready"]
                      [] name = "remove" -> [data.slots EXCEPT ![arg] = "removed"]
                      [] OTHER -> data.slots
           generation == IF name \in {"schedule", "reschedule"} THEN Now + 1 ELSE data.generation
           text == IF name = "edit" THEN arg ELSE data.text
<1>1. data.slots \in Seq(Slots) /\ data.status \in Statuses /\ text \in Texts /\ generation \in Nat
  BY DEF Contents
<1>2. ASSUME NEW v \in Slots PROVE [data.slots EXCEPT ![arg] = v] \in Seq(Slots)
  <2>1. PICK f \in Seq(Slots) : f = data.slots
    BY <1>1
  <2>2. f \in [1 .. Len(f) -> Slots] /\ Len(f) \in Nat
    OBVIOUS
  <2>3. [f EXCEPT ![arg] = v] \in [1 .. Len(f) -> Slots]
    <3>. HIDE DEF Slots
    <3>. QED
      BY <1>2, <2>2
  <2>. QED
    BY <2>1, <2>2, <2>3, SeqDef
<1>3. slots \in Seq(Slots)
  BY <1>1, <1>2
<1>4. To(name, data.status) \in Statuses
  BY <1>1 DEF To, Statuses
<1>5. After(data, name, arg)
        = [text |-> text, status |-> To(name, data.status), generation |-> generation, slots |-> slots]
  BY DEF After
<1>6. data.status \in GoneStatuses => To(name, data.status) \in GoneStatuses
  BY DEF Allowed, From, To, GoneStatuses
<1>7. name \in {"publish", "retry"} => To(name, data.status) \in GoneStatuses
  BY DEF To, GoneStatuses
<1>. HIDE DEF text, slots, generation
<1>. QED
  BY <1>1, <1>3, <1>4, <1>5, <1>6, <1>7 DEF Contents

\* Later: the versions there were stay as they were, and an item that is gone stays so.
Later == /\ Now \in Nat /\ Now' \in Nat /\ Now <= Now' /\ (Gone => Gone')
         /\ \A v \in 1 .. Now : history'[v] = history[v]

LEMMA GrowHolds ==
  ASSUME HistoryHolds, Now # 0, NEW name, NEW arg, Allowed(history[Now], name, arg),
         name = "edit" => arg \in Texts, Grow(After(history[Now], name, arg))
  PROVE  /\ HistoryHolds' /\ Later /\ Now' = Now + 1
         /\ name \in {"publish", "retry"} => Gone'
<1>1. Now \in Nat \ {0} /\ history[Now] \in Contents
  BY DEF HistoryHolds, Now
<1>2. PICK d \in Contents : d = After(history[Now], name, arg)
  BY <1>1, AfterHolds
<1>3. /\ history[Now].status \in GoneStatuses => d.status \in GoneStatuses
      /\ name \in {"publish", "retry"} => d.status \in GoneStatuses
  BY <1>1, <1>2, AfterHolds
<1>4. /\ history' \in Seq(Contents) /\ Now' = Now + 1 /\ history'[Now + 1] = d
      /\ \A v \in 1 .. Now : history'[v] = history[v]
  BY <1>2 DEF Grow, HistoryHolds, Now
<1>5. \A v \in 1 .. Now : GoneAt(v)' <=> GoneAt(v)
  BY <1>4 DEF GoneAt
<1>6. GoneAt(Now)' <=> d.status \in GoneStatuses
  BY <1>4 DEF GoneAt
<1>7. \A i \in 1 .. Now : GoneAt(i) => d.status \in GoneStatuses
  BY <1>1, <1>3 DEF HistoryHolds, GoneAt
<1>8. \A i, j \in 1 .. Now' : i <= j /\ GoneAt(i)' => GoneAt(j)'
  <2> SUFFICES ASSUME NEW i \in 1 .. Now', NEW j \in 1 .. Now', i <= j, GoneAt(i)'
               PROVE  GoneAt(j)'
    OBVIOUS
  <2>1. CASE j \in 1 .. Now
    BY <1>1, <1>5, <2>1 DEF HistoryHolds
  <2>2. CASE j = Now'
    <3>1. CASE i \in 1 .. Now
      BY <1>5, <1>6, <1>7, <2>2, <3>1 DEF GoneAt
    <3>2. CASE i = Now'
      BY <2>2, <3>2
    <3>. QED
      BY <1>1, <1>4, <3>1, <3>2
  <2>. QED
    BY <1>1, <1>4, <2>1, <2>2
<1>9. Gone' <=> d.status \in GoneStatuses
  BY <1>1, <1>4, <1>6 DEF Gone, GoneAt
<1>. QED
  BY <1>1, <1>3, <1>4, <1>7, <1>8, <1>9 DEF HistoryHolds, Later, Gone

\* A command that is performed stands behind its answer; only a creation starts anew.
LEMMA PerformHolds ==
  ASSUME HistoryHolds, ResultsHold, NEW cmd, NEW key, NEW answer, Perform(cmd, key, answer),
         Written(cmd), cmd.name # "create" => Now # 0,
         cmd.name = "create" => \A k \in DOMAIN results : results[k].cmd.name = "create"
  PROVE  /\ HistoryHolds' /\ ResultsHold'
         /\ answer.is = "ok" => Did(cmd, answer.version)'
         /\ \A k \in DOMAIN results' : 
              \/ results'[k].cmd = cmd
              \/ k \in DOMAIN results /\ results'[k] = results[k]
         /\ Later \/ (cmd.name = "create" /\ Now' = 1)
<1>1. Now \in Nat
  BY DEF HistoryHolds, Now
<1>2. UNCHANGED history => Later
  BY <1>1 DEF Later, Now, Gone, GoneAt
<1>3. CASE /\ Known(key) /\ UNCHANGED <<history, results>>
           /\ answer = IF results[key].cmd = cmd THEN Ok(results[key].version) ELSE Error("conflict")
  <2>1. answer.is = "ok" => Did(cmd, answer.version)
    BY <1>3 DEF ResultsHold, Known, Ok, Error
  <2>. QED
    BY <1>2, <1>3, <2>1 DEF HistoryHolds, ResultsHold, Did, Now, Gone, GoneAt
<1>4. CASE /\ ~Known(key) /\ cmd.name = "create" /\ answer = Ok(1)
           /\ history' = <<Created(cmd.arg)>> /\ Record(key, cmd, 1)
  <2>1. Created(cmd.arg) \in Contents
    BY <1>4 DEF Written, Drafts, Created, Contents, Statuses
  <2>2. history' \in Seq(Contents) /\ Now' = 1
    BY <1>4, <2>1 DEF Now
  <2>3. HistoryHolds'
    BY <2>2 DEF HistoryHolds
  <2>4. Did(cmd, 1)'
    BY <1>4, <2>2 DEF Did
  <2>5. \A k \in DOMAIN results' :
          results'[k] = IF k = key THEN [cmd |-> cmd, version |-> 1] ELSE results[k]
    BY <1>4 DEF Record
  <2>6. DOMAIN results' = DOMAIN results \cup {key}
    BY <1>4 DEF Record
  <2>7. ASSUME NEW k \in DOMAIN results' PROVE Did(results[k].cmd, results[k].version)'
    <3>1. CASE k = key
      <4>1. results'[k].version = 1 /\ results'[k].cmd.name = "create"
        BY <1>4, <2>5, <3>1
      <4>. QED
        BY <2>2, <4>1 DEF Did
    <3>2. CASE k # key
      <4>1. results'[k] = results[k] /\ k \in DOMAIN results
        BY <2>5, <2>6, <3>2
      <4>2. results[k].version = 1 /\ results[k].cmd.name = "create"
        BY <1>4, <4>1 DEF ResultsHold, Did
      <4>. QED
        BY <2>2, <4>1, <4>2 DEF Did
    <3>. QED
      BY <3>1, <3>2
  <2>8. answer.is = "ok" => Did(cmd, answer.version)'
    BY <1>4, <2>4 DEF Ok
  <2>. QED
    BY <1>4, <2>2, <2>3, <2>5, <2>6, <2>7, <2>8 DEF ResultsHold
<1>5. CASE /\ ~Known(key) /\ Fits(cmd) /\ answer = Ok(Now + 1)
           /\ Grow(After(history[Now], cmd.name, cmd.arg))
           /\ IF cmd.name = "store" THEN UNCHANGED results ELSE Record(key, cmd, Now + 1)
  <2>1. /\ HistoryHolds' /\ Later /\ Now' = Now + 1
        /\ cmd.name \in {"publish", "retry"} => Gone'
    BY <1>5, GrowHolds DEF Fits, Written, Drafts
  <2>2. Did(cmd, Now)'
    BY <1>1, <1>5, <2>1 DEF Did, Fits
  <2>3. answer.is = "ok" => Did(cmd, answer.version)'
    BY <1>5, <2>1, <2>2 DEF Ok, Did
  <2>4. \A k \in DOMAIN results : Did(results[k].cmd, results[k].version) =>
          /\ results[k].version \in 1 .. Now'
          /\ results[k].cmd.name = "create" => results[k].version = 1
          /\ results[k].cmd.name \in {"publish", "retry"} => Gone'
    BY <1>1, <2>1 DEF Did, Later
  <2>5. \A k \in DOMAIN results' :
          \/ k \in DOMAIN results /\ results'[k] = results[k]
          \/ results'[k] = [cmd |-> cmd, version |-> Now']
    BY <1>5, <2>1 DEF Record
  <2>6. ASSUME NEW k \in DOMAIN results' PROVE Did(results[k].cmd, results[k].version)'
    <3>1. CASE k \in DOMAIN results /\ results'[k] = results[k]
      BY <2>4, <3>1 DEF ResultsHold, Did
    <3>2. CASE results'[k] = [cmd |-> cmd, version |-> Now']
      <4>1. results'[k].version = Now' /\ results'[k].cmd = cmd
        BY <3>2
      <4>. QED
        BY <2>2, <4>1 DEF Did
    <3>. QED
      BY <2>5, <3>1, <3>2
  <2>. QED
    BY <2>1, <2>3, <2>5, <2>6 DEF ResultsHold
<1>6. CASE Stored(cmd) /\ answer = Ok(Now) /\ UNCHANGED <<history, results>>
  <2>1. Did(cmd, answer.version)
    BY <1>1, <1>6 DEF Stored, Did, Ok
  <2>. QED
    BY <1>2, <1>6, <2>1 DEF HistoryHolds, ResultsHold, Did, Now, Gone, GoneAt
<1>7. CASE answer.is # "ok" /\ UNCHANGED <<history, results>>
  BY <1>2, <1>7 DEF HistoryHolds, ResultsHold, Did, Now, Gone, GoneAt
<1>8. Error("refused").is # "ok" /\ Error("conflict").is # "ok"
  BY DEF Error
<1>. QED
  BY <1>3, <1>4, <1>5, <1>6, <1>7, <1>8 DEF Perform

LEMMA LaterCall ==
  ASSUME Later, NEW s, NEW c, CallHolds(s, c)
  PROVE  CallHolds(s, c)'
<1>1. 1 .. Now \subseteq 1 .. Now' /\ (Gone => Gone')
  BY DEF Later
<1>. QED
  BY <1>1 DEF CallHolds, Did

LEMMA LaterPage ==
  ASSUME PageHolds, HistoryHolds', UNCHANGED <<page, typed>>,
         Later \/ (page.row = None /\ Now' = 1)
  PROVE  RowsHold' /\ IntentsHold' /\ PollsHold'
<1>1. page.row = None => page.latest = None /\ \A p \in Polls : page.poll[p] = Off
  BY DEF PageHolds, RowsHold, NewHolds
<1>2. CASE page.row = None
  <2>1. RowsHold' /\ IntentsHold'
    BY <1>1, <1>2 DEF PageHolds, RowsHold, IntentsHold
  <2>2. PollsHold'
    BY <1>1, <1>2 DEF PollsHold, PollHolds, Off
  <2>. QED
    BY <2>1, <2>2
<1>3. CASE page.row # None
  <2>1. 1 .. Now \subseteq 1 .. Now' /\ (Gone => Gone') /\ (\A v \in 1 .. Now : GoneAt(v)' <=> GoneAt(v))
    BY <1>3 DEF Later, GoneAt
  <2>2. ASSUME NEW row, Met(row) PROVE Met(row)'
    BY <2>1, <2>2 DEF Met
  <2>3. RowsHold' /\ IntentsHold'
    BY <1>3, <2>2 DEF PageHolds, RowsHold, IntentsHold
  <2>4. ASSUME NEW p \in Polls PROVE PollHolds(p, page.poll[p])'
    BY <1>3, <2>1 DEF PageHolds, PollsHold, PollHolds, Status
  <2>. QED
    BY <2>3, <2>4 DEF PollsHold
<1>. QED
  BY <1>2, <1>3

LEMMA OthersWriteHolds == ASSUME PageHolds, OthersWrite PROVE PageHolds'
<1>1. UNCHANGED <<results, late, keys, page, call, typed>> /\ Now # 0 /\ Now \in Nat
  BY DEF OthersWrite, PageHolds, HistoryHolds, Now
<1>2. PICK name, arg : /\ Allowed(history[Now], name, arg) /\ (name = "edit" => arg \in Texts)
                       /\ Grow(After(history[Now], name, arg))
  BY DEF OthersWrite
<1>3. HistoryHolds' /\ Later
  BY <1>1, <1>2, GrowHolds DEF PageHolds
<1>4. RowsHold' /\ IntentsHold' /\ PollsHold'
  BY <1>1, <1>3, LaterPage
<1>5. ResultsHold'
  BY <1>1, <1>3 DEF PageHolds, ResultsHold, Did, Later
<1>6. \A s \in Sessions : CallHolds(s, call[s])'
  <2> TAKE s \in Sessions
  <2>1. PICK c : c = call[s] /\ c = call'[s]
    BY <1>1
  <2>. QED
    BY <1>3, <2>1, LaterCall DEF PageHolds, CallsHold
<1>7. ViewHolds'
  BY <1>1, <1>3 DEF PageHolds, ViewHolds, Later, EditorAtRest, Shown, Pending
<1>. QED
  BY <1>1, <1>3, <1>4, <1>5, <1>6, <1>7
     DEF PageHolds, ShapeHolds, IsPage, LateHolds, NewHolds, CallsHold, TextHolds, TimeHolds,
         Pending, Shown, Editable, Status, Dirty, Baseline, Conflict

LEMMA ExecuteHolds == ASSUME PageHolds, NEW s \in Sessions, Execute(s) PROVE PageHolds'
<1>1. PICK c, answer : /\ c = call[s] /\ c.pc = "sent" /\ c.answer = None
                       /\ Perform(c.cmd, c.key, answer)
                       /\ call' = [call EXCEPT ![s].answer = answer]
  BY DEF Execute
<1>2. UNCHANGED <<late, page, typed>>
  BY DEF Execute
<1>3. CallHolds(s, c) /\ (s = "editor" /\ c.cmd.name = "create" => page.row = None)
  BY <1>1 DEF PageHolds, CallsHold
<1>4. Now \in Nat
  BY DEF PageHolds, HistoryHolds, Now
<1>5. c.cmd.name = "create" => s = "editor" /\ page.row = None
  BY <1>1, <1>3 DEF CallHolds, Own
<1>6. page.row = None => s = "editor" /\ c.cmd.name = "create"
  BY <1>1 DEF PageHolds, NewHolds, Pending
<1>7. c.cmd.name # "create" => Now # 0
  BY <1>4, <1>6 DEF PageHolds, RowsHold, Met
<1>8. page.row = None => \A k \in DOMAIN results : results[k].cmd.name = "create"
  BY DEF PageHolds, NewHolds
<1>9. /\ HistoryHolds' /\ ResultsHold'
      /\ answer.is = "ok" => Did(c.cmd, answer.version)'
      /\ \A k \in DOMAIN results' : \/ results'[k].cmd = c.cmd
                                    \/ k \in DOMAIN results /\ results'[k] = results[k]
      /\ Later \/ (c.cmd.name = "create" /\ Now' = 1)
  BY <1>1, <1>3, <1>5, <1>7, <1>8, PerformHolds DEF PageHolds, CallHolds
<1>10. RowsHold' /\ IntentsHold' /\ PollsHold'
  BY <1>2, <1>5, <1>9, LaterPage
<1>11. DOMAIN call = Sessions /\ \A t \in Sessions : DOMAIN call[t] = CallFields
  BY DEF PageHolds, ShapeHolds
<1>12. PICK d : d = [c EXCEPT !.answer = answer]
  OBVIOUS
<1>13. /\ DOMAIN d = CallFields /\ d.pc = "sent" /\ d.cmd = c.cmd /\ d.answer = answer
       /\ DOMAIN call' = Sessions /\ call'[s] = d
       /\ \A t \in Sessions \ {s} : call'[t] = call[t]
  BY <1>1, <1>11, <1>12 DEF CallFields
<1>14. CallHolds(s, d)'
  <2>1. c.cmd.name = "create" \/ 1 .. Now \subseteq 1 .. Now'
    BY <1>9 DEF Later
  <2>. QED
    BY <1>1, <1>3, <1>9, <1>13, <2>1 DEF CallHolds
<1>15. ASSUME NEW t \in Sessions \ {s} PROVE CallHolds(t, call[t])'
  <2>1. PICK e : e = call[t] /\ e = call'[t]
    BY <1>13
  <2>2. CASE Later
    BY <2>1, <2>2, LaterCall DEF PageHolds, CallsHold
  <2>3. CASE ~Later
    <3>1. t # "editor" /\ e.pc = "idle" /\ e.answer = None
      <4>1. t # "editor" /\ page.row = None
        BY <1>5, <1>9, <2>3
      <4>2. e.pc = "idle"
        BY <2>1, <4>1 DEF PageHolds, NewHolds, Pending
      <4>3. CallHolds(t, e)
        BY <2>1 DEF PageHolds, CallsHold
      <4>. QED
        BY <4>1, <4>2, <4>3 DEF CallHolds
    <3>. QED
      BY <2>1, <3>1 DEF CallHolds
  <2>. QED
    BY <2>2, <2>3
<1>16. \A t \in Sessions : CallHolds(t, call[t])'
  <2> TAKE t \in Sessions
  <2>1. CASE t = s
    BY <1>13, <1>14, <2>1
  <2>. QED
    BY <1>15, <2>1
<1>17. /\ \A t \in Sessions : call'[t].pc = call[t].pc /\ call'[t].cmd = call[t].cmd
       /\ "editor" \in Sessions /\ "action" \in Sessions /\ "schedule" \in Sessions
  BY <1>1, <1>13 DEF Sessions
<1>18. ViewHolds'
  <2>1. page.view.pc = "loading" => s # "editor"
    BY <1>1, <1>3 DEF PageHolds, ViewHolds, EditorAtRest, Shown, Pending, CallHolds
  <2>2. page.view.pc = "loading" => page.view.floor \in 1 .. Now /\ Later
    BY <1>4, <1>5, <1>7, <1>9, <2>1 DEF PageHolds, ViewHolds
  <2>3. page.view.pc = "loading" => page.view.floor \in 1 .. Now'
    BY <2>2 DEF Later
  <2>. QED
    BY <1>2, <1>17, <2>3, <1>9 DEF PageHolds, ViewHolds, EditorAtRest, Shown, Pending, HistoryHolds
<1>19. NewHolds'
  BY <1>2, <1>6, <1>9, <1>17 DEF PageHolds, NewHolds, Pending
<1>20. TextHolds' /\ TimeHolds'
  BY <1>2, <1>17 DEF PageHolds, TextHolds, TimeHolds, Pending, Shown, Editable, Status, Dirty, Baseline, Conflict
<1>21. ShapeHolds' /\ LateHolds'
  BY <1>2, <1>11, <1>13 DEF PageHolds, ShapeHolds, IsPage, LateHolds
<1>22. CallsHold'
  BY <1>2, <1>16, <1>17 DEF PageHolds, CallsHold
<1>. QED
  BY <1>9, <1>10, <1>18, <1>19, <1>20, <1>21, <1>22 DEF PageHolds

LEMMA ExecuteLateHolds == ASSUME PageHolds, ExecuteLate PROVE PageHolds'
<1>1. PICK c \in late :
        /\ late' = late \ {c} /\ UNCHANGED <<page, call, typed>>
        /\ IF c.cmd.name = "create" /\ history # <<>> THEN UNCHANGED <<history, results>>
           ELSE \E answer \in Answers : Perform(c.cmd, c.key, answer)
  BY DEF ExecuteLate
<1>2. Now \in Nat /\ (history = <<>> <=> Now = 0)
  BY DEF PageHolds, HistoryHolds, Now
<1>3. Now = 0 => page.row = None
  BY DEF PageHolds, RowsHold, Met
<1>4. page.row = None => /\ c.cmd.name = "create"
                         /\ \A k \in DOMAIN results : results[k].cmd.name = "create"
  BY DEF PageHolds, NewHolds
<1>5. /\ HistoryHolds' /\ ResultsHold' /\ Later
      /\ \A k \in DOMAIN results' : \/ results'[k].cmd = c.cmd
                                    \/ k \in DOMAIN results /\ results'[k] = results[k]
  <2>1. CASE UNCHANGED <<history, results>>
    BY <1>2, <2>1 DEF PageHolds, HistoryHolds, ResultsHold, Did, Later, Now, Gone, GoneAt
  <2>2. CASE ~UNCHANGED <<history, results>>
    <3>1. PICK answer : Perform(c.cmd, c.key, answer) /\ (c.cmd.name = "create" => Now = 0)
      BY <1>1, <1>2, <2>2
    <3>2. Written(c.cmd)
      BY DEF PageHolds, LateHolds
    <3>3. /\ HistoryHolds' /\ ResultsHold'
          /\ \A k \in DOMAIN results' : \/ results'[k].cmd = c.cmd
                                        \/ k \in DOMAIN results /\ results'[k] = results[k]
          /\ Later \/ (c.cmd.name = "create" /\ Now' = 1)
      BY <1>3, <1>4, <3>1, <3>2, PerformHolds DEF PageHolds
    <3>4. Now = 0 /\ Now' = 1 => Later
      BY DEF Later, Gone
    <3>. QED
      BY <3>1, <3>3, <3>4
  <2>. QED
    BY <2>1, <2>2
<1>6. RowsHold' /\ IntentsHold' /\ PollsHold'
  BY <1>1, <1>5, LaterPage
<1>7. \A s \in Sessions : CallHolds(s, call[s])'
  <2> TAKE s \in Sessions
  <2>1. PICK e : e = call[s] /\ e = call'[s]
    BY <1>1
  <2>. QED
    BY <1>5, <2>1, LaterCall DEF PageHolds, CallsHold
<1>8. ViewHolds'
  BY <1>1, <1>2, <1>5 DEF PageHolds, ViewHolds, Later, EditorAtRest, Shown, Pending
<1>9. NewHolds' /\ LateHolds'
  BY <1>1, <1>4, <1>5 DEF PageHolds, NewHolds, LateHolds, Pending
<1>. QED
  BY <1>1, <1>5, <1>6, <1>7, <1>8, <1>9
     DEF PageHolds, ShapeHolds, IsPage, CallsHold, TextHolds, TimeHolds,
         Pending, Shown, Editable, Status, Dirty, Baseline, Conflict
-----------------------------------------------------------------------------
\* What the page and its sessions do; the API has no part in it.
Quiet == UNCHANGED <<history, results>>

LEMMA QuietServer == ASSUME PageHolds, Quiet PROVE HistoryHolds' /\ ResultsHold'
BY DEF PageHolds, Quiet, HistoryHolds, ResultsHold, Did, Now, Gone, GoneAt

LEMMA QuietMet == ASSUME Quiet, NEW row, Met(row) PROVE Met(row)'
BY DEF Quiet, Met, Now, Gone, GoneAt

\* One session goes on.
LEMMA CallStep ==
  ASSUME PageHolds, Quiet, NEW s \in Sessions, NEW d, DOMAIN d = CallFields, CallHolds(s, d),
         call' = [call EXCEPT ![s] = d]
  PROVE  /\ DOMAIN call' = Sessions /\ \A t \in Sessions : DOMAIN call'[t] = CallFields
         /\ call'[s] = d /\ \A t \in Sessions \ {s} : call'[t] = call[t]
         /\ \A t \in Sessions : CallHolds(t, call[t])'
<1>1. /\ DOMAIN call = Sessions /\ \A t \in Sessions : DOMAIN call[t] = CallFields
      /\ \A t \in Sessions : CallHolds(t, call[t])
  BY DEF PageHolds, ShapeHolds, CallsHold
<1>2. /\ DOMAIN call' = Sessions /\ call'[s] = d
      /\ \A t \in Sessions \ {s} : call'[t] = call[t]
  BY <1>1
<1>3. \A t \in Sessions : CallHolds(t, call[t])'
  <2> TAKE t \in Sessions
  <2>1. PICK e : e = call'[t]
    OBVIOUS
  <2>2. CallHolds(t, e)
    BY <1>1, <1>2, <2>1
  <2>. QED
    BY <2>1, <2>2 DEF Quiet, CallHolds, Did, Now, Gone, GoneAt
<1>. QED
  BY <1>1, <1>2, <1>3

LEMMA Rests ==
  /\ DOMAIN Resting = CallFields /\ Resting.pc = "idle" /\ Resting.answer = None
  /\ \A s : CallHolds(s, Resting)
BY DEF Resting, CallFields, CallHolds

LEMMA Awaited ==
  ASSUME NEW pc, NEW cmd, NEW key, PageHolds
  PROVE  /\ DOMAIN Awaiting(pc, cmd, key) = CallFields
         /\ Awaiting(pc, cmd, key).pc = pc /\ Awaiting(pc, cmd, key).cmd = cmd
         /\ Awaiting(pc, cmd, key).answer = None /\ Awaiting(pc, cmd, key).floor = Now
         /\ Now \in Nat
BY DEF Awaiting, Resting, CallFields, PageHolds, HistoryHolds, Now

\* The row stays, and the polls of it go on or end; that of an item that is gone may start.
Beside(q) ==
  /\ IsPage(q) /\ q.row = page.row /\ q.form \in Texts \cup {page.form}
  /\ q.latest \in {page.latest, None} \/ (Met(q.latest) /\ page.row # None)
  /\ q.file => page.row # None
  /\ \A p \in Polls : \/ q.poll[p] \in {page.poll[p], Off}
                      \/ q.poll[p] = Timer /\ Gone /\ page.row # None /\ SureText = None

LEMMA BesidePage ==
  ASSUME PageHolds, Quiet, Beside(page')
  PROVE  RowsHold' /\ PollsHold' /\ (page.row = None => \A p \in Polls : page'.poll[p] = Off)
<1>1. RowsHold'
  BY QuietMet DEF PageHolds, RowsHold, Beside
<1>2. ASSUME NEW p \in Polls PROVE PollHolds(p, page.poll[p])'
  <2>1. PollHolds(p, page.poll[p])
    BY DEF PageHolds, PollsHold
  <2>2. CASE page'.poll[p] = page.poll[p]
    BY <2>1, <2>2 DEF Quiet, PollHolds, Beside, Status, Now, Gone, GoneAt
  <2>3. CASE page'.poll[p] = Off
    BY <2>3 DEF PollHolds, Off
  <2>4. CASE page'.poll[p] = Timer /\ Gone
    BY <2>4 DEF Quiet, PollHolds, Timer, Now, Gone, GoneAt
  <2>. QED
    BY <2>2, <2>3, <2>4 DEF Beside
<1>. QED
  BY <1>1, <1>2 DEF PageHolds, PollsHold, NewHolds, Beside

\* A command is sent, as it is or as it was first tried, by a session that may send it.
LEMMA SendHolds ==
  ASSUME PageHolds, NEW s \in Sessions, NEW i \in Intents, NEW cmd, NEW next, NEW given,
         Send(s, i, cmd, next, given), Shown, ~Pending(s),
         IsPage(next), next.row = page.row, next.form = page.form, next.latest = page.latest,
         next.file = page.file, next.time = page.time, next.view = page.view,
         next.conflict = page.conflict, next.intent = page.intent,
         \A p \in Polls : next.poll[p] \in {page.poll[p], Off},
         IF s = "editor"
         THEN /\ i = "editor" /\ ~Pending("action") /\ cmd.name \in Drafts /\ cmd.arg \in Texts
              /\ cmd.name = "create" <=> page.row = None
              /\ cmd.name = "edit" => cmd.expected \in 1 .. Now
              /\ given = typed /\ Editable
         ELSE /\ page.row # None /\ SureText = None
              /\ IF i \in {"attachments", "removal"}
                 THEN s = "attachments" /\ cmd.name = IF i = "removal" THEN "remove" ELSE "register"
                 ELSE Own(s, cmd.name),
         s = "action" => ~Pending("editor"),
         DOMAIN given = DOMAIN typed /\ given.time \in BOOLEAN,
         given.text = typed.text, given.exposed = typed.exposed, given.time => typed.time,
         given.time /\ SureTime => s = "schedule"
  PROVE  PageHolds'
<1>1. PICK intent : /\ intent = Intent(i, cmd)
                    /\ page' = [next EXCEPT !.intent[i] = intent]
                    /\ call' = [call EXCEPT ![s] = Awaiting("sent", intent.cmd, intent.key)]
                    /\ typed' = given /\ UNCHANGED <<history, results, late>>
  BY DEF Send, server
<1>2. \/ intent.cmd = cmd
      \/ /\ i \in {"attachments", "removal"} /\ s = "attachments"
         /\ intent.cmd.name = IF i = "removal" THEN "remove" ELSE "register"
  <2>1. intent = page.intent[i] \/ intent.cmd = cmd
    BY <1>1 DEF Intent
  <2>2. CASE i \in {"attachments", "removal"}
    BY <2>1, <2>2, <1>1 DEF PageHolds, IntentsHold, Intent
  <2>3. CASE i \notin {"attachments", "removal"}
    BY <1>1, <2>3 DEF Intent
  <2>. QED
    BY <2>2, <2>3
<1>3. /\ IsPage(page') /\ page'.row = page.row /\ page'.form = page.form
      /\ page'.latest = page.latest /\ page'.file = page.file /\ page'.time = page.time
      /\ page'.view = page.view /\ page'.conflict = page.conflict /\ page'.poll = next.poll
      /\ page'.intent = [page.intent EXCEPT ![i] = intent]
  BY <1>1 DEF IsPage, PageFields
<1>4. Quiet /\ Beside(page')
  BY <1>1, <1>3 DEF Quiet, Beside, PageHolds, RowsHold
<1>5. PICK d : d = Awaiting("sent", intent.cmd, intent.key)
  OBVIOUS
<1>6. DOMAIN d = CallFields /\ d.pc = "sent" /\ d.cmd = intent.cmd /\ d.answer = None /\ Now \in Nat
  BY <1>5, Awaited
<1>7. CallHolds(s, d)
  BY <1>2, <1>6 DEF CallHolds, Written, Drafts, Own
<1>8. /\ DOMAIN call' = Sessions /\ \A t \in Sessions : DOMAIN call'[t] = CallFields
      /\ call'[s] = d /\ \A t \in Sessions \ {s} : call'[t] = call[t]
      /\ \A t \in Sessions : CallHolds(t, call[t])'
  BY <1>1, <1>4, <1>5, <1>6, <1>7, CallStep
<1>9. /\ "editor" \in Sessions /\ "action" \in Sessions /\ "schedule" \in Sessions
  BY DEF Sessions
<1>10. CallsHold'
  BY <1>2, <1>3, <1>6, <1>8, <1>9 DEF PageHolds, CallsHold, Own
<1>11. ShapeHolds' /\ LateHolds'
  BY <1>1, <1>3, <1>8 DEF PageHolds, ShapeHolds, LateHolds
<1>12. IntentsHold'
  BY <1>2, <1>3, <1>1 DEF PageHolds, IntentsHold, IsPage, Intents, Sessions
<1>13. NewHolds'
  BY <1>1, <1>2, <1>3, <1>4, <1>6, <1>8, <1>9, BesidePage DEF PageHolds, NewHolds, Pending
<1>14. ViewHolds'
  BY <1>1, <1>3, <1>6, <1>8, <1>9 DEF PageHolds, ViewHolds, EditorAtRest, Pending, Shown
<1>15. TextHolds'
  <2>1. SureText # None => s = "editor" /\ \A p \in Polls : page'.poll[p] = Off
    BY <1>3 DEF PageHolds, TextHolds
  <2>. QED
    BY <1>1, <1>3, <1>6, <1>8, <1>9, <2>1
       DEF PageHolds, TextHolds, Pending, Shown, Editable, Status, Dirty, Baseline
<1>16. TimeHolds'
  BY <1>1, <1>3, <1>6, <1>8, <1>9
     DEF PageHolds, TimeHolds, Pending, Shown, Editable, Status, Conflict
<1>. QED
  BY <1>4, <1>10, <1>11, <1>12, <1>13, <1>14, <1>15, <1>16, QuietServer, BesidePage DEF PageHolds

\* What no command of the page takes away.
LEMMA TypedKeeps ==
  ASSUME PageHolds
  PROVE  /\ SureText # None => Editable /\ Dirty
         /\ SureTime => ~Editable /\ page.time
         /\ TypedShape
         /\ IsPage(page)
BY DEF PageHolds, TextHolds, TimeHolds, ShapeHolds

LEMMA SavesHold == ASSUME PageHolds, Save PROVE PageHolds'
<1> DEFINE cmd == IF page.row = None THEN Command("create", 0, page.form)
                  ELSE Command("edit", page.row.version, page.form)
<1>1. /\ Shown /\ Editable /\ ~MutationPending /\ Dirty
      /\ Send("editor", "editor", cmd, page, typed)
  BY DEF Save
<1>2. ~Pending("editor") /\ ~Pending("action") /\ "editor" \in Sessions /\ "editor" \in Intents
  BY <1>1 DEF MutationPending, Sessions, Intents
<1>3. page.form \in Texts
  BY <1>1 DEF PageHolds, RowsHold, Dirty, Baseline
<1>4. /\ cmd.name = IF page.row = None THEN "create" ELSE "edit"
      /\ cmd.arg = page.form
      /\ page.row # None => cmd.expected = page.row.version
  BY DEF Command
<1>5. page.row # None => page.row.version \in 1 .. Now
  BY DEF PageHolds, RowsHold, Met
<1>6. ~SureTime
  BY <1>1, TypedKeeps
<1>. HIDE DEF cmd
<1>. QED
  BY <1>1, <1>2, <1>3, <1>4, <1>5, <1>6, TypedKeeps, SendHolds DEF Drafts

\* Every session but the editor sends on an item, and never over an unsaved text.
LEMMA AsksHold ==
  ASSUME PageHolds, NEW s \in Sessions \ {"editor"}, NEW i \in Intents, NEW cmd, NEW given,
         Send(s, i, cmd, page, given), Shown, ~Pending(s), page.row # None,
         IF i \in {"attachments", "removal"}
         THEN s = "attachments" /\ cmd.name = IF i = "removal" THEN "remove" ELSE "register"
         ELSE Own(s, cmd.name),
         ~Editable \/ ~Dirty, s = "action" => ~Pending("editor"),
         \/ given = typed /\ (s = "schedule" \/ Editable \/ ~page.time)
         \/ given = [typed EXCEPT !.time = FALSE]
  PROVE  PageHolds'
<1>1. SureText = None
  BY TypedKeeps
<1>2. /\ DOMAIN given = DOMAIN typed /\ given.time \in BOOLEAN /\ given.text = typed.text
      /\ given.exposed = typed.exposed /\ (given.time => typed.time)
      /\ (given.time /\ SureTime => s = "schedule")
  BY TypedKeeps
<1>3. s \in Sessions /\ s # "editor"
  OBVIOUS
<1>. QED
  BY <1>1, <1>2, <1>3, TypedKeeps, SendHolds

LEMMA SubmitHolds == ASSUME PageHolds, Submit PROVE PageHolds'
<1>1. "action" \in Sessions \ {"editor"} /\ "action" \in Intents /\ ~Pending("action") /\ ~Pending("editor")
  BY DEF Submit, MutationPending, Sessions, Intents
<1>2. Own("action", Command("submit", page.row.version, None).name)
  BY DEF Command, Own
<1>. QED
  BY <1>1, <1>2, AsksHold DEF Submit

LEMMA ReopenHolds == ASSUME PageHolds, Reopen PROVE PageHolds'
<1>1. "action" \in Sessions \ {"editor"} /\ "action" \in Intents /\ ~Pending("action") /\ ~Pending("editor")
  BY DEF Reopen, MutationPending, Sessions, Intents
<1>2. Own("action", Command("reopen", page.row.version, None).name)
  BY DEF Command, Own
<1>3. ~Editable
  BY DEF Reopen, Editable, From
<1>. QED
  BY <1>1, <1>2, <1>3, AsksHold DEF Reopen

LEMMA AttachmentsAskHold ==
  ASSUME PageHolds, (Upload /\ page.target = None) \/ (\E slot : Remove(slot)) PROVE PageHolds'
<1>1. /\ "attachments" \in Sessions \ {"editor"} /\ {"attachments", "removal"} \subseteq Intents
      /\ ~Pending("attachments") /\ Shown /\ Editable /\ ~Dirty /\ page.row # None
  BY DEF Upload, Remove, AttachmentsBlocked, Sessions, Intents, PageHolds, RowsHold
<1>2. \E i \in {"attachments", "removal"} : \E cmd :
        /\ cmd.name = IF i = "removal" THEN "remove" ELSE "register"
        /\ Send("attachments", i, cmd, page, typed)
  <2>1. ASSUME NEW slot PROVE Command("remove", page.row.version, slot).name = "remove"
    BY DEF Command
  <2>2. Command("register", page.row.version, None).name = "register"
    BY DEF Command
  <2>. QED
    BY <2>1, <2>2 DEF Upload, Remove
<1>. QED
  BY <1>1, <1>2, AsksHold

LEMMA ScheduleAsksHold == ASSUME PageHolds, SaveSchedule \/ CancelSchedule PROVE PageHolds'
<1>1. "schedule" \in Sessions \ {"editor"} /\ "schedule" \in Intents
  BY DEF Sessions, Intents
<1>2. PICK name \in {"schedule", "reschedule", "cancel"}, given \in {typed, [typed EXCEPT !.time = FALSE]} :
        Scheduling(name, given)
  BY DEF SaveSchedule, CancelSchedule
<1>3. Own("schedule", Command(name, page.row.version, None).name)
  BY DEF Command, Own
<1>4. /\ Send("schedule", "schedule", Command(name, page.row.version, None), page, given)
      /\ Shown /\ ~Pending("schedule") /\ page.row # None /\ ~Dirty
  BY <1>2, <1>3 DEF Scheduling, ScheduleBlocked
<1>. QED
  BY <1>1, <1>2, <1>3, <1>4, AsksHold

LEMMA PublishHolds == ASSUME PageHolds, Publish PROVE PageHolds'
<1>1. /\ "publication" \in Sessions \ {"editor"} /\ "publication" \in Intents
      /\ ~Pending("publication") /\ ~Dirty /\ ~page.time
  BY DEF Publish, PublicationBlocked, MutationPending, Sessions, Intents
<1>2. Own("publication", Command("publish", page.row.version, None).name)
  BY DEF Command, Own
<1>. QED
  BY <1>1, <1>2, AsksHold DEF Publish

LEMMA RetryHolds == ASSUME PageHolds, Retry PROVE PageHolds'
<1>1. /\ "recovery" \in Sessions /\ "recovery" \in Intents
      /\ ~Pending("recovery") /\ ~Dirty /\ ~page.time /\ Shown /\ page.row # None
  BY DEF Retry, RecoveryBlocked, PublicationBlocked, MutationPending, Sessions, Intents
<1>2. Own("recovery", Command("retry", page.row.version, None).name)
  BY DEF Command, Own
<1>3. PICK next : next = [page EXCEPT !.poll["recovery"] = Off]
  OBVIOUS
<1>4. /\ IsPage(next) /\ next.row = page.row /\ next.form = page.form /\ next.latest = page.latest
      /\ next.file = page.file /\ next.time = page.time /\ next.view = page.view
      /\ next.conflict = page.conflict /\ next.intent = page.intent
      /\ next.poll = [page.poll EXCEPT !["recovery"] = Off]
  BY <1>3, TypedKeeps DEF IsPage, PageFields
<1>5. \A p \in Polls : next.poll[p] \in {page.poll[p], Off}
  BY <1>4, TypedKeeps DEF IsPage
<1>6. Send("recovery", "recovery", Command("retry", page.row.version, None), next, typed) /\ SureText = None /\ ~SureTime
  BY <1>1, <1>2, <1>3, TypedKeeps DEF Retry
<1>. QED
  BY <1>1, <1>2, <1>4, <1>5, <1>6, TypedKeeps, SendHolds

\* One session goes on with d, the others wait as they did.
GoesOn(s, d) ==
  /\ DOMAIN call' = Sessions /\ \A t \in Sessions : DOMAIN call'[t] = CallFields
  /\ call'[s] = d /\ \A t \in Sessions \ {s} : call'[t] = call[t]
  /\ \A t \in Sessions : CallHolds(t, call[t])'

LEMMA SessionHolds ==
  ASSUME PageHolds, Quiet, NEW s \in Sessions, NEW d, GoesOn(s, d), Beside(page'),
         page'.view = page.view \/ (~Shown /\ page'.view.pc = "failed") \/ ViewHolds',
         \A i \in {"attachments", "removal"} : page'.intent[i] \in {page.intent[i], None},
         d.pc \in {"idle", "read"} \/ d = call[s],
         d.pc = "read" /\ d # call[s] =>
           /\ s # "action" /\ (page.row = None => s = "editor" /\ d.cmd.name = "create"),
         EditorAtRest => EditorAtRest',
         LateHolds', page.row = None => \A t \in late' : t.cmd.name = "create",
         late' = late \/ page.view.pc # "loading" \/ page.view.floor # 0,
         TypedShape', TextHolds', TimeHolds'
  PROVE  PageHolds'
<1>1. /\ "editor" \in Sessions /\ "action" \in Sessions /\ "schedule" \in Sessions
  BY DEF Sessions
<1>2. /\ \A t \in Sessions \ {s} : call'[t] = call[t]
      /\ call'[s].pc \in {"idle", "read"} \/ call'[s] = call[s]
      /\ call'[s].pc = "read" /\ call'[s] # call[s] =>
           s # "action" /\ (page.row = None => s = "editor" /\ call'[s].cmd.name = "create")
      /\ page'.row = page.row /\ IsPage(page')
  BY DEF GoesOn, Beside
<1>3. CallsHold'
  BY <1>1, <1>2 DEF GoesOn, PageHolds, CallsHold
<1>4. ShapeHolds'
  BY <1>2 DEF GoesOn, ShapeHolds
<1>5. IntentsHold'
  BY DEF PageHolds, IntentsHold
<1>6. ViewHolds'
  <2> SUFFICES ASSUME page'.view = page.view \/ (~Shown /\ page'.view.pc = "failed")
               PROVE  ViewHolds'
    OBVIOUS
  <2>1. ~Shown \/ Pending("action")' => Pending("action") \/ ~Shown
    BY <1>1, <1>2 DEF Pending
  <2>2. EditorAtRest => EditorAtRest'
    OBVIOUS
  <2>3. UNCHANGED Now /\ (Shown' => Shown) /\ (page'.view = page.view \/ page'.view.pc = "failed")
    BY DEF Quiet, Now, Shown
  <2>4. Shown => Shown'
    BY DEF Shown
  <2>. QED
    BY <2>1, <2>2, <2>3, <2>4 DEF PageHolds, ViewHolds
<1>7. NewHolds'
  <2> SUFFICES ASSUME page.row = None PROVE NewHolds'
    BY <1>2 DEF NewHolds
  <2>1. \A t \in Sessions : \/ call'[t].pc = "idle" \/ call'[t] = call[t]
                            \/ t = "editor" /\ call'[t].cmd.name = "create"
    BY <1>2
  <2>2. \A p \in Polls : page'.poll[p] = Off
    BY BesidePage
  <2>. QED
    BY <1>1, <2>1, <2>2 DEF PageHolds, NewHolds, Pending, Quiet
<1>. QED
  BY <1>3, <1>4, <1>5, <1>6, <1>7, QuietServer, BesidePage DEF PageHolds

LEMMA StaysOn ==
  ASSUME PageHolds, Quiet, UNCHANGED call
  PROVE  GoesOn("editor", call["editor"]) /\ "editor" \in Sessions
<1>1. \A t \in Sessions : CallHolds(t, call[t])'
  <2> TAKE t \in Sessions
  <2>1. PICK e : e = call'[t] /\ e = call[t]
    OBVIOUS
  <2>2. CallHolds(t, e)
    BY <2>1 DEF PageHolds, CallsHold
  <2>. QED
    BY <2>1, <2>2 DEF Quiet, CallHolds, Did, Now, Gone, GoneAt
<1>. QED
  BY <1>1 DEF GoesOn, PageHolds, ShapeHolds, Sessions

\* What the user does on the page without asking for anything.
LEMMA OnPageHolds ==
  ASSUME PageHolds, UNCHANGED <<server, call>>, Beside(page'),
         page'.view = page.view \/ (~Shown /\ page'.view.pc = "failed"),
         \A i \in {"attachments", "removal"} : page'.intent[i] \in {page.intent[i], None},
         TypedShape', TextHolds', TimeHolds'
  PROVE  PageHolds'
<1>1. Quiet /\ "editor" \in Sessions /\ UNCHANGED late
  BY DEF server, Quiet, Sessions
<1>2. PICK d : d = call["editor"]
  OBVIOUS
<1>3. GoesOn("editor", d)
  BY <1>1, <1>2, StaysOn DEF server
<1>4. LateHolds' /\ (page.row = None => \A t \in late' : t.cmd.name = "create")
  BY <1>1 DEF PageHolds, LateHolds, NewHolds
<1>5. EditorAtRest => EditorAtRest'
  BY DEF EditorAtRest, Pending
<1>. QED
  BY <1>1, <1>2, <1>3, <1>4, <1>5, SessionHolds

LEMMA TypeHolds == ASSUME PageHolds, NEW text \in Texts, Type(text) PROVE PageHolds'
<1>1. /\ Shown /\ Editable /\ ~MutationPending /\ UNCHANGED <<server, call>>
      /\ page' = [page EXCEPT !.form = text]
      /\ typed' = Entered(text, Baseline(page))
  BY DEF Type
<1>2. /\ IsPage(page') /\ page'.form = text /\ page'.row = page.row /\ page'.view = page.view
      /\ page'.latest = page.latest /\ page'.file = page.file /\ page'.poll = page.poll
      /\ page'.intent = page.intent
  BY <1>1, TypedKeeps DEF IsPage, PageFields
<1>3. Beside(page')
  BY <1>2 DEF Beside, PageHolds, RowsHold
<1>4. TypedShape' /\ ~SureTime'
      /\ SureText' = IF AtRest /\ text # Baseline(page) THEN text ELSE None
  BY <1>1, TypedKeeps DEF Entered
<1>5. TextHolds'
  <2>1. SureText' # None => /\ AtRest /\ text # Baseline(page) /\ SureText' = text
    BY <1>4 DEF Entered
  <2>. QED
    BY <1>1, <1>2, <2>1
       DEF TextHolds, AtRest, MutationPending, Shown, Editable, Status, Dirty, Baseline, Pending, Sessions
<1>6. TimeHolds'
  BY <1>4 DEF TimeHolds
<1>. QED
  BY <1>1, <1>2, <1>3, <1>4, <1>5, <1>6, OnPageHolds

\* The texts, the row and the polls are left alone.
LEMMA AsideHolds ==
  ASSUME PageHolds, UNCHANGED <<server, call>>, IsPage(page'),
         page'.row = page.row, page'.form = page.form, page'.latest = page.latest,
         page'.poll = page.poll, page'.conflict \subseteq page.conflict,
         page'.view = page.view \/ (~Shown /\ page'.view.pc = "failed"),
         page'.file => page.file \/ page.row # None,
         \A i \in {"attachments", "removal"} : page'.intent[i] \in {page.intent[i], None},
         TypedShape', SureText' = SureText,
         SureTime' => \/ SureTime /\ page'.time = page.time
                      \/ /\ Shown /\ ~Editable /\ ~Conflict("editor") /\ ~MutationPending
                         /\ page'.time
  PROVE  PageHolds'
<1>1. Beside(page')
  BY DEF Beside, PageHolds, RowsHold
<1>2. TextHolds'
  BY DEF PageHolds, TextHolds, Shown, Editable, Status, Dirty, Baseline, Pending
<1>3. TimeHolds'
  <2>1. /\ "schedule" \in Sessions
        /\ SureTime \/ ~MutationPending => \A s \in Sessions \ {"schedule"} : ~Pending(s)
        /\ SureTime \/ ~MutationPending => call["schedule"].pc # "read"
        /\ Shown => page'.view = page.view
    BY DEF PageHolds, TimeHolds, MutationPending, Pending, Sessions
  <2>. QED
    BY <2>1 DEF PageHolds, TimeHolds, Shown, Editable, Status, Conflict, Pending
<1>. QED
  BY <1>1, <1>2, <1>3, OnPageHolds

LEMMA FilesHold ==
  ASSUME PageHolds, (\E slot : Select(slot)) \/ DiscardFile
  PROVE  PageHolds'
<1>1. IsPage(page) /\ UNCHANGED <<server, call, typed>>
  BY TypedKeeps DEF Select, DiscardFile
<1>2. /\ IsPage(page') /\ page'.row = page.row /\ page'.form = page.form
      /\ page'.latest = page.latest /\ page'.poll = page.poll /\ page'.view = page.view
      /\ page'.time = page.time /\ page'.conflict = page.conflict \ {"attachments"}
      /\ page'.file => page.row # None
  BY <1>1 DEF Select, DiscardFile, IsPage, PageFields
<1>3. \A i \in {"attachments", "removal"} : page'.intent[i] \in {page.intent[i], None}
  <2>1. \/ page'.intent = [page.intent EXCEPT !["attachments"] = None]
        \/ page'.intent = [page.intent EXCEPT !["attachments"] = None, !["removal"] = None]
    BY <1>1 DEF Select, DiscardFile, IsPage, PageFields
  <2>. QED
    BY <1>1, <2>1 DEF IsPage, Intents, Sessions
<1>. QED
  BY <1>1, <1>2, <1>3, TypedKeeps, AsideHolds

LEMMA TimesHold == ASSUME PageHolds, EditTime \/ DiscardTime PROVE PageHolds'
<1>1. IsPage(page) /\ UNCHANGED <<server, call>>
  BY TypedKeeps DEF EditTime, DiscardTime
<1>2. /\ IsPage(page') /\ page'.row = page.row /\ page'.form = page.form
      /\ page'.latest = page.latest /\ page'.poll = page.poll /\ page'.view = page.view
      /\ page'.conflict \subseteq page.conflict /\ page'.file = page.file
      /\ EditTime => page'.time
  BY <1>1 DEF EditTime, DiscardTime, IsPage, PageFields
<1>3. \A i \in {"attachments", "removal"} : page'.intent[i] = page.intent[i]
  <2>1. \/ page'.intent = page.intent
        \/ page'.intent = [page.intent EXCEPT !["schedule"] = None]
    BY <1>1 DEF EditTime, DiscardTime, IsPage, PageFields
  <2>. QED
    BY <1>1, <2>1 DEF IsPage, Intents, Sessions
<1>4. EditTime => ~Editable /\ ~MutationPending /\ Shown /\ ~Conflict("editor")
  BY DEF EditTime, Editable, Schedulable, ScheduleBlocked, PublicationBusy, MutationPending, Sessions
<1>5. /\ TypedShape' /\ SureText' = SureText
      /\ SureTime' = IF EditTime THEN TRUE ELSE FALSE
  BY TypedKeeps DEF EditTime, DiscardTime
<1>. QED
  BY <1>1, <1>2, <1>3, <1>4, <1>5, AsideHolds

LEMMA LoadFailsHolds == ASSUME PageHolds, LoadFails PROVE PageHolds'
<1>1. /\ ~Shown /\ UNCHANGED <<server, call, typed>>
      /\ page' = [page EXCEPT !.view.pc = "failed"]
  BY DEF LoadFails, Shown
<1>2. /\ IsPage(page') /\ page'.row = page.row /\ page'.form = page.form
      /\ page'.latest = page.latest /\ page'.poll = page.poll /\ page'.intent = page.intent
      /\ page'.conflict = page.conflict /\ page'.file = page.file /\ page'.time = page.time
      /\ page'.view = [page.view EXCEPT !.pc = "failed"]
  BY <1>1, TypedKeeps DEF IsPage, PageFields
<1>3. page'.view.pc = "failed"
  BY <1>2, TypedKeeps DEF IsPage
<1>. QED
  BY <1>1, <1>2, <1>3, TypedKeeps, AsideHolds

LEMMA GoesOnHolds ==
  ASSUME PageHolds, Quiet, NEW s \in Sessions, NEW d, DOMAIN d = CallFields, CallHolds(s, d),
         call' = [call EXCEPT ![s] = d]
  PROVE  GoesOn(s, d)
BY CallStep DEF GoesOn

\* An answer is heard, or not: the session rests, and nothing that was entered is touched.
LEMMA RestHolds ==
  ASSUME PageHolds, Quiet, NEW s \in Sessions, Done(s), Beside(page'), UNCHANGED typed,
         page'.view = page.view, page'.form = page.form, page'.time = page.time,
         page'.conflict \ {s} \subseteq page.conflict, call[s].pc # "idle",
         \A i \in {"attachments", "removal"} : page'.intent[i] = page.intent[i],
         LateHolds', page.row = None => \A t \in late' : t.cmd.name = "create",
         late' = late \/ page.view.pc # "loading" \/ page.view.floor # 0
  PROVE  PageHolds'
<1>1. PICK d : d = Resting
  OBVIOUS
<1>2. d.pc = "idle" /\ GoesOn(s, d)
  BY <1>1, Rests, GoesOnHolds DEF Done
<1>3. EditorAtRest => EditorAtRest'
  BY <1>2 DEF GoesOn, EditorAtRest, Pending, Sessions
<1>4. /\ \A t \in Sessions : Pending(t)' => Pending(t)
      /\ \A t \in Sessions : call'[t].pc = "read" => call'[t] = call[t]
      /\ {"editor", "schedule"} \subseteq Sessions
  BY <1>2 DEF GoesOn, Pending, Sessions
<1>5. TextHolds'
  BY <1>4 DEF PageHolds, TextHolds, Beside, Shown, Editable, Status, Dirty, Baseline
<1>6. TimeHolds'
  <2>1. SureTime => s = "schedule"
    BY DEF PageHolds, TimeHolds, Pending
  <2>2. SureTime => ~Conflict("editor")'
    BY <2>1 DEF PageHolds, TimeHolds, Conflict
  <2>. QED
    BY <1>4, <2>2 DEF PageHolds, TimeHolds, Beside, Shown, Editable, Status
<1>. QED
  BY <1>2, <1>3, <1>5, <1>6, TypedKeeps, SessionHolds

LEMMA RefusedHolds == ASSUME PageHolds, NEW s \in Sessions, Refused(s) PROVE PageHolds'
<1>1. /\ Quiet /\ Done(s) /\ UNCHANGED <<late, typed>>
      /\ \E con : page' = [page EXCEPT !.conflict = con] /\ con \in {page.conflict, page.conflict \cup {s}}
  BY DEF Refused, Quiet, server
<1>2. call[s].pc = "sent"
  BY DEF PageHolds, CallsHold, CallHolds, Refused
<1>3. /\ IsPage(page') /\ page'.row = page.row /\ page'.form = page.form /\ page'.file = page.file
      /\ page'.latest = page.latest /\ page'.poll = page.poll /\ page'.view = page.view
      /\ page'.time = page.time /\ page'.conflict \ {s} \subseteq page.conflict
      /\ page'.intent = page.intent
  BY <1>1, TypedKeeps DEF IsPage, PageFields
<1>4. Beside(page')
  BY <1>3 DEF Beside, PageHolds, RowsHold
<1>5. LateHolds' /\ (page.row = None => \A t \in late' : t.cmd.name = "create")
  BY <1>1 DEF PageHolds, LateHolds, NewHolds
<1>. QED
  BY <1>1, <1>2, <1>3, <1>4, <1>5, RestHolds

LEMMA LostHolds == ASSUME PageHolds, NEW s \in Sessions, Lost(s) PROVE PageHolds'
<1>1. /\ Quiet /\ Done(s) /\ UNCHANGED <<page, typed>> /\ call[s].pc = "sent"
      /\ late' = late \/ late' = late \cup {[cmd |-> call[s].cmd, key |-> call[s].key]}
  BY DEF Lost, Quiet
<1>2. CallHolds(s, call[s])
  BY DEF PageHolds, CallsHold
<1>3. LateHolds'
  BY <1>1, <1>2 DEF PageHolds, LateHolds, CallHolds
<1>4. page.row = None => s = "editor" /\ call[s].cmd.name = "create" /\ \A t \in late' : t.cmd.name = "create"
  BY <1>1 DEF PageHolds, NewHolds, Pending
<1>5. page.view.pc # "loading" \/ page.view.floor # 0
  <2> SUFFICES ASSUME page.view.pc = "loading", page.view.floor = 0 PROVE FALSE
    OBVIOUS
  <2>1. Now = 0 /\ EditorAtRest
    BY DEF PageHolds, ViewHolds, Shown
  <2>2. page.row = None
    BY <2>1 DEF PageHolds, RowsHold, Met
  <2>. QED
    BY <1>1, <1>4, <2>1, <2>2 DEF EditorAtRest, Pending
<1>6. Beside(page')
  BY <1>1, TypedKeeps DEF Beside, PageHolds, RowsHold
<1>. QED
  BY <1>1, <1>3, <1>4, <1>5, <1>6, RestHolds

LEMMA ReadHolds ==
  ASSUME PageHolds, Quiet, UNCHANGED late, NEW s \in Sessions \ {"action"}, NEW name, Read(s, name),
         Beside(page'), page'.view = page.view,
         \A i \in {"attachments", "removal"} : page'.intent[i] \in {page.intent[i], None},
         Own(s, name), s = "editor" => name = "compare" \/ ~EditorAtRest,
         page.row = None => s = "editor" /\ name = "create",
         Now # 0, name \in {"publish", "retry"} => Gone,
         TypedShape', TextHolds', TimeHolds'
  PROVE  PageHolds'
<1>1. PICK cmd : cmd = Command(name, None, None) /\ cmd.name = name
  <2>1. Command(name, None, None).name = name
    BY DEF Command
  <2>. QED
    BY <2>1
<1>2. PICK d : d = Awaiting("read", cmd, 0)
  OBVIOUS
<1>3. /\ DOMAIN d = CallFields /\ d.pc = "read" /\ d.cmd = cmd /\ d.answer = None /\ d.floor = Now
      /\ Now \in Nat
  BY <1>2, Awaited
<1>4. CallHolds(s, d)
  BY <1>1, <1>3 DEF CallHolds
<1>5. GoesOn(s, d)
  BY <1>1, <1>2, <1>3, <1>4, GoesOnHolds DEF Read
<1>6. EditorAtRest => EditorAtRest'
  BY <1>1, <1>3, <1>5 DEF GoesOn, EditorAtRest, Pending, Sessions
<1>7. LateHolds' /\ (page.row = None => \A t \in late' : t.cmd.name = "create")
  BY DEF PageHolds, LateHolds, NewHolds
<1>. QED
  BY <1>1, <1>3, <1>5, <1>6, <1>7, SessionHolds

LEMMA ComparesHold == ASSUME PageHolds, Compare PROVE PageHolds'
<1>1. /\ Quiet /\ UNCHANGED <<late, page, typed>> /\ Read("editor", "compare") /\ ~Pending("editor")
      /\ Shown /\ Conflict("editor") /\ page.row # None /\ "editor" \in Sessions \ {"action"}
  BY DEF Compare, Quiet, server, Sessions
<1>2. Beside(page') /\ Now # 0
  BY <1>1, TypedKeeps DEF Beside, PageHolds, RowsHold, Met
<1>3. /\ DOMAIN call = Sessions /\ DOMAIN call' = Sessions
      /\ \A t \in Sessions \ {"editor"} : call'[t] = call[t]
      /\ call'["editor"].cmd.name = "compare"
  BY <1>1, Awaited DEF Read, PageHolds, ShapeHolds, Command
<1>4. TextHolds'
  BY <1>1, <1>3 DEF PageHolds, TextHolds, Shown, Editable, Status, Dirty, Baseline, Pending
<1>5. ~SureTime
  BY <1>1 DEF PageHolds, TimeHolds
<1>6. TimeHolds'
  BY <1>1, <1>5 DEF TimeHolds
<1>. QED
  BY <1>1, <1>2, <1>4, <1>6, TypedKeeps, ReadHolds DEF Own

LEMMA UploadReadsHold == ASSUME PageHolds, Upload, page.target # None PROVE PageHolds'
<1>1. /\ Quiet /\ UNCHANGED <<late, page, typed>> /\ Read("attachments", "register")
      /\ page.row # None /\ Editable /\ ~Dirty /\ "attachments" \in Sessions \ {"action"}
  BY DEF Upload, AttachmentsBlocked, Quiet, server, Sessions, PageHolds, RowsHold
<1>2. Beside(page') /\ Now # 0
  BY <1>1, TypedKeeps DEF Beside, PageHolds, RowsHold, Met
<1>3. SureText' = None /\ ~SureTime'
  BY <1>1, TypedKeeps
<1>4. TextHolds' /\ TimeHolds'
  BY <1>3 DEF TextHolds, TimeHolds
<1>. QED
  BY <1>1, <1>2, <1>4, TypedKeeps, ReadHolds DEF Own

LEMMA RefreshHolds == ASSUME PageHolds, RefreshPublication PROVE PageHolds'
<1>1. /\ Quiet /\ UNCHANGED <<late, typed>> /\ Read("recovery", "refresh")
      /\ page.row # None /\ ~Dirty /\ ~page.time /\ "recovery" \in Sessions \ {"action"}
      /\ page' = [page EXCEPT !.poll["recovery"] = Off]
  BY DEF RefreshPublication, RecoveryBlocked, PublicationBlocked, Quiet, server, Sessions
<1>2. /\ IsPage(page') /\ page'.row = page.row /\ page'.form = page.form /\ page'.file = page.file
      /\ page'.latest = page.latest /\ page'.view = page.view /\ page'.intent = page.intent
      /\ page'.poll = [page.poll EXCEPT !["recovery"] = Off]
  BY <1>1, TypedKeeps DEF IsPage, PageFields
<1>3. \A p \in Polls : page'.poll[p] \in {page.poll[p], Off}
  BY <1>2, TypedKeeps DEF IsPage
<1>4. Beside(page') /\ Now # 0
  BY <1>1, <1>2, <1>3 DEF Beside, PageHolds, RowsHold, Met
<1>5. SureText' = None /\ ~SureTime'
  BY <1>1, TypedKeeps
<1>6. TextHolds' /\ TimeHolds'
  BY <1>5 DEF TextHolds, TimeHolds
<1>. QED
  BY <1>1, <1>2, <1>4, <1>6, TypedKeeps, ReadHolds DEF Own

\* The answer of every session but that of the editor's edits and of the page's actions.
LEMMA ConfirmsHold ==
  ASSUME PageHolds, NEW s \in Sessions \ {"action"}, Confirmed(s),
         s = "editor" => call[s].cmd.name = "create"
  PROVE  PageHolds'
<1>1. PICK c : c = call[s]
  OBVIOUS
<1>2. /\ c.answer # None /\ c.answer.is = "ok" /\ page' = OnOk(s, c) /\ Read(s, c.cmd.name)
      /\ Quiet /\ UNCHANGED late
      /\ typed' = CASE s = "editor" -> [typed EXCEPT !.text = None]
                    [] s = "schedule" -> [typed EXCEPT !.time = FALSE]
                    [] OTHER -> typed
  BY <1>1 DEF Confirmed, Quiet, server
<1>3. CallHolds(s, c)
  BY <1>1 DEF PageHolds, CallsHold
<1>4. /\ c.pc = "sent" /\ Written(c.cmd) /\ Now # 0
      /\ c.cmd.name \in {"publish", "retry"} => Gone
      /\ Own(s, c.cmd.name)
  BY <1>2, <1>3 DEF CallHolds, Did
<1>5. s = "editor" => ~EditorAtRest /\ c.cmd.arg \in Texts
  BY <1>1, <1>4 DEF EditorAtRest, Pending, Written, Drafts
<1>6. page.row = None => s = "editor" /\ c.cmd.name = "create"
  BY <1>1, <1>4 DEF PageHolds, NewHolds, Pending
<1>7. /\ IsPage(page') /\ page'.row = page.row /\ page'.file = page.file /\ page'.latest = page.latest
      /\ page'.poll = page.poll /\ page'.view = page.view /\ page'.form \in Texts \cup {page.form}
      /\ page'.conflict = page.conflict
      /\ page'.intent = page.intent \/ page'.intent = [page.intent EXCEPT !["editor"] = None]
      /\ page'.time = page.time \/ s = "schedule"
  <2>1. CASE s = "editor"
    <3>1. page' = [page EXCEPT !.intent["editor"] = None, !.form = c.cmd.arg]
      <4>1. c.cmd.name = "create"
        BY <1>1, <2>1
      <4>. QED
        BY <1>2, <2>1, <4>1 DEF OnOk, Polls
    <3>. QED
      BY <1>5, <2>1, <3>1, TypedKeeps DEF IsPage, PageFields
  <2>2. CASE s # "editor"
    BY <1>2, <2>2, TypedKeeps DEF OnOk, IsPage, PageFields
  <2>. QED
    BY <2>1, <2>2
<1>8. Beside(page')
  BY <1>7 DEF Beside, PageHolds, RowsHold
<1>9. \A i \in {"attachments", "removal"} : page'.intent[i] \in {page.intent[i], None}
  BY <1>7, TypedKeeps DEF IsPage, Intents, Sessions
<1>10. SureText' = None
  <2>1. s # "editor" => SureText = None
    BY <1>1, <1>4 DEF PageHolds, TextHolds, Pending
  <2>. QED
    BY <1>2, <2>1, TypedKeeps
<1>11. ~SureTime'
  <2>1. s # "schedule" => ~SureTime
    BY <1>1, <1>4 DEF PageHolds, TimeHolds, Pending
  <2>. QED
    BY <1>2, <2>1, TypedKeeps
<1>12. TypedShape'
  BY <1>2, <1>11, TypedKeeps
<1>13. TextHolds' /\ TimeHolds'
  BY <1>10, <1>11 DEF TextHolds, TimeHolds
<1>. QED
  BY <1>1, <1>2, <1>4, <1>5, <1>6, <1>7, <1>8, <1>9, <1>12, <1>13, ReadHolds
-----------------------------------------------------------------------------
\* The row is replaced.
LEMMA SeenMet ==
  ASSUME PageHolds, NEW floor \in 1 .. Now, NEW row \in Seen(floor)
  PROVE  Met(row) /\ (GoneAt(floor) => row.data.status \in GoneStatuses)
<1>1. PICK v \in floor .. Now : row = Row(v)
  BY DEF Seen
<1>2. v \in 1 .. Now /\ Now \in Nat /\ v <= Now /\ floor <= v /\ v \in Nat
  BY DEF PageHolds, HistoryHolds, Now
<1>3. history[v] \in Contents
  BY <1>2 DEF PageHolds, HistoryHolds, Now
<1>4. row = [version |-> v, data |-> history[v]]
  BY <1>1 DEF Row
<1>5. GoneAt(v) <=> row.data.status \in GoneStatuses
  BY <1>4 DEF GoneAt
<1>6. (GoneAt(v) => Gone) /\ (GoneAt(floor) => GoneAt(v))
  BY <1>2 DEF PageHolds, HistoryHolds, Gone
<1>. QED
  BY <1>2, <1>3, <1>4, <1>5, <1>6 DEF Met, Rows

LEMMA RowIsSome == ASSUME NEW row, Met(row) PROVE row # None /\ row.data.text \in Texts
BY PageAssumption DEF Met, Rows, Contents

PollOf(p, poll, row) ==
  \/ poll = Off \/ (p = "recovery" /\ poll = page.poll[p])
  \/ poll = Timer /\ \/ row.data.status = "queued"
                     \/ p = "publication" /\ row.data.status = "scheduled"

LEMMA RowChanges ==
  ASSUME PageHolds, Quiet, UNCHANGED late, NEW s \in Sessions, NEW d, GoesOn(s, d),
         NEW row, Met(row), IsPage(page'), page'.row = row, page'.form \in Texts,
         page'.latest \in {page.latest, None},
         \A p \in Polls : PollOf(p, page'.poll[p], row),
         \A i \in {"attachments", "removal"} : page'.intent[i] \in {page.intent[i], None},
         ~(call'["editor"].pc = "sent" /\ call'["editor"].cmd.name = "create"),
         ViewHolds', TypedShape', TextHolds', TimeHolds'
  PROVE  PageHolds'
<1>1. row # None
  BY RowIsSome
<1>2. ShapeHolds' /\ CallsHold' /\ IntentsHold' /\ LateHolds'
  BY DEF PageHolds, GoesOn, ShapeHolds, CallsHold, IntentsHold, LateHolds
<1>3. RowsHold'
  BY <1>1, QuietMet DEF PageHolds, RowsHold
<1>4. NewHolds'
  BY <1>1 DEF NewHolds
<1>5. ASSUME NEW p \in Polls PROVE PollHolds(p, page.poll[p])'
  <2>1. CASE page'.poll[p] = Off
    BY <2>1 DEF PollHolds, Off
  <2>2. CASE p = "recovery" /\ page'.poll[p] = page.poll[p]
    <3>1. PollHolds(p, page.poll[p])
      BY DEF PageHolds, PollsHold
    <3>. QED
      BY <2>2, <3>1 DEF Quiet, PollHolds, Now, Gone, GoneAt
  <2>3. CASE /\ page'.poll[p] = Timer
             /\ \/ row.data.status = "queued"
                \/ p = "publication" /\ row.data.status = "scheduled"
    <3>1. row.data.status = "queued" => Gone'
      BY QuietMet DEF Met, GoneStatuses
    <3>2. row.data.status = "scheduled" => Status' = "scheduled"
      BY <1>1 DEF Status
    <3>. QED
      BY <1>1, <2>3, <3>1, <3>2 DEF PollHolds, Timer
  <2>. QED
    BY <2>1, <2>2, <2>3 DEF PollOf
<1>. QED
  BY <1>2, <1>3, <1>4, <1>5, QuietServer DEF PageHolds, PollsHold

LEMMA ReplacingPolls ==
  ASSUME NEW q, NEW row, Replacing(page, q, row)
  PROVE  \A p \in Polls : PollOf(p, q.poll[p], row)
BY DEF Replacing, PollOf, Polls

LEMMA KeepsHold == ASSUME PageHolds, KeepLocal PROVE PageHolds'
<1> DEFINE kept == [page EXCEPT !.latest = None, !.conflict = @ \ {"editor"},
                                !.intent["editor"] = None]
<1>1. PICK row : /\ row = page.latest /\ row # None /\ row.data.status = "draft" /\ Shown
                 /\ page' = Replaced(kept, row) /\ Quiet /\ UNCHANGED <<late, call>>
                 /\ typed' = [Entered(page.form, row.data.text) EXCEPT !.exposed = @ \cup {"time"}]
  BY DEF KeepLocal, Quiet, server
<1>2. Met(row) /\ page.row # None /\ page.form \in Texts
  BY <1>1 DEF PageHolds, RowsHold
<1>3. /\ IsPage(kept) /\ kept.row = page.row /\ kept.form = page.form /\ kept.latest = None
      /\ kept.poll = page.poll /\ kept.view = page.view /\ kept.time = page.time
      /\ kept.intent = [page.intent EXCEPT !["editor"] = None]
  BY TypedKeeps DEF IsPage, PageFields
<1>4. \A i \in {"attachments", "removal"} : kept.intent[i] = page.intent[i]
  BY <1>3, TypedKeeps DEF IsPage, Intents
<1>. HIDE DEF kept
<1>5. /\ Replacing(kept, page', row) /\ page'.form = kept.form /\ page'.latest = kept.latest
  BY <1>1, <1>3, ReplacedPage
<1>6. /\ IsPage(page') /\ page'.row = row /\ page'.form = page.form /\ page'.latest = None
      /\ page'.view = page.view
      /\ \A i \in {"attachments", "removal"} : page'.intent[i] = page.intent[i]
      /\ page'.poll["publication"] = Off /\ page'.poll["recovery"] \in {page.poll["recovery"], Off}
  BY <1>1, <1>3, <1>4, <1>5 DEF Replacing
<1>7. \A p \in Polls : PollOf(p, page'.poll[p], row)
  BY <1>6 DEF PollOf, Polls
<1>8. ViewHolds'
  BY <1>1, <1>6 DEF PageHolds, ViewHolds, EditorAtRest, Pending, Shown, Quiet, Now
<1>9. TextHolds'
  <2> SUFFICES ASSUME SureText' # None PROVE TextHolds'
    BY DEF TextHolds
  <2>1. AtRest /\ page.form # row.data.text /\ SureText' = page.form
    BY <1>1 DEF Entered
  <2>2. \A p \in Polls : page'.poll[p] = Off
    BY <1>6, <2>1 DEF AtRest, Polls
  <2>3. \A t \in Sessions : ~Pending(t)'
    BY <1>1, <2>1 DEF AtRest, MutationPending, Pending
  <2>4. row # None /\ "editor" \in Sessions
    BY <1>1 DEF Sessions
  <2>. QED
    BY <1>1, <1>6, <2>1, <2>2, <2>3, <2>4 DEF TextHolds, Shown, Editable, Status, Dirty, Baseline
<1>10. TimeHolds' /\ TypedShape' /\ ~SureTime'
  BY <1>1, TypedKeeps DEF TimeHolds, Entered
<1>11. ~(call'["editor"].pc = "sent" /\ call'["editor"].cmd.name = "create")
  BY <1>1, <1>2 DEF PageHolds, CallsHold
<1>. QED
  BY <1>1, <1>2, <1>6, <1>7, <1>8, <1>9, <1>10, <1>11, StaysOn, RowChanges

LEMMA UsesHold == ASSUME PageHolds, UseServer PROVE PageHolds'
<1>1. PICK row : /\ row = page.latest /\ row # None /\ Shown
                 /\ page' = Accepted(page, row) /\ Quiet /\ UNCHANGED <<late, call>>
                 /\ typed' = [typed EXCEPT !.text = None,
                                           !.exposed = IF row.data.status = "draft"
                                                       THEN @ \cup {"time"} ELSE @]
  BY DEF UseServer, Quiet, server
<1>2. Met(row) /\ page.row # None
  BY <1>1 DEF PageHolds, RowsHold
<1>3. Replacing(page, page', row) /\ page'.form = row.data.text /\ page'.latest = None
  BY <1>1, TypedKeeps, AcceptedPage
<1>4. /\ IsPage(page') /\ page'.row = row /\ page'.form \in Texts /\ page'.latest = None
      /\ page'.view = page.view /\ page'.time = page.time /\ page'.conflict \subseteq page.conflict
      /\ \A i \in {"attachments", "removal"} : page'.intent[i] = page.intent[i]
  BY <1>2, <1>3, RowIsSome DEF Replacing
<1>5. \A p \in Polls : PollOf(p, page'.poll[p], row)
  BY <1>3, ReplacingPolls
<1>6. ViewHolds'
  BY <1>1, <1>4 DEF PageHolds, ViewHolds, EditorAtRest, Pending, Shown, Quiet, Now
<1>7. TextHolds' /\ TypedShape'
  BY <1>1, TypedKeeps DEF TextHolds
<1>8. TimeHolds'
  BY <1>1, <1>4, TypedKeeps DEF PageHolds, TimeHolds, Shown, Editable, Status, Conflict, Pending
<1>9. ~(call'["editor"].pc = "sent" /\ call'["editor"].cmd.name = "create")
  BY <1>1, <1>2 DEF PageHolds, CallsHold
<1>. QED
  BY <1>1, <1>2, <1>4, <1>5, <1>6, <1>7, <1>8, <1>9, StaysOn, RowChanges

\* The page is loaded while the editor rests; nothing that was entered is left then.
LEMMA LoadsHold ==
  ASSUME PageHolds, Quiet, UNCHANGED late, NEW s \in Sessions, NEW d, GoesOn(s, d),
         d.pc = "idle" \/ d = call[s], page' = Loading(page), EditorAtRest', Now # 0,
         TypedShape', SureText' = None, ~SureTime'
  PROVE  PageHolds'
<1>1. /\ IsPage(page') /\ page'.view = [pc |-> "loading", floor |-> Now]
      /\ page'.row = page.row /\ page'.form = page.form /\ page'.latest = page.latest
      /\ page'.file = page.file
      /\ \A i \in {"attachments", "removal"} : page'.intent[i] = page.intent[i]
      /\ \A q \in Polls : page'.poll[q] = Off
  BY TypedKeeps, LoadingPage
<1>2. Beside(page')
  BY <1>1 DEF Beside, PageHolds, RowsHold
<1>3. ViewHolds'
  <2>1. Now \in Nat /\ UNCHANGED Now
    BY DEF PageHolds, HistoryHolds, Now, Quiet
  <2>2. page'.view.pc = "loading" /\ page'.view.floor = Now
    BY <1>1
  <2>. QED
    BY <2>1, <2>2 DEF ViewHolds
<1>4. LateHolds' /\ (page.row = None => \A t \in late' : t.cmd.name = "create")
  BY DEF PageHolds, LateHolds, NewHolds
<1>5. TextHolds' /\ TimeHolds'
  BY DEF TextHolds, TimeHolds
<1>6. d.pc = "read" => d = call[s]
  OBVIOUS
<1>. QED
  BY <1>1, <1>2, <1>3, <1>4, <1>5, <1>6, SessionHolds

LEMMA LoadHolds == ASSUME PageHolds, Load PROVE PageHolds'
<1>1. /\ Quiet /\ UNCHANGED <<late, call>> /\ page' = Loading(page) /\ ~MutationPending
      /\ typed' = Nothing /\ Now # 0
  BY DEF Load, Quiet, server, PageHolds, HistoryHolds, Now
<1>2. EditorAtRest'
  BY <1>1 DEF EditorAtRest, MutationPending, Pending, Sessions
<1>3. TypedShape' /\ SureText' = None /\ ~SureTime'
  BY <1>1 DEF Nothing
<1>. QED
  BY <1>1, <1>2, <1>3, StaysOn, LoadsHold

LEMMA ActionsHold == ASSUME PageHolds, Confirmed("action") PROVE PageHolds'
<1>1. /\ Quiet /\ UNCHANGED late /\ Done("action") /\ page' = Loading(page)
      /\ typed' = typed /\ call["action"].answer # None /\ call["action"].answer.is = "ok"
      /\ "action" \in Sessions
  <2>1. Confirmed("action") => call["action"].pc = "sent" /\ Own("action", call["action"].cmd.name)
    BY DEF Confirmed, PageHolds, CallsHold, CallHolds, Sessions
  <2>2. OnOk("action", call["action"]) = Loading(page)
    BY <2>1 DEF OnOk, Polls, Own
  <2>. QED
    BY <2>2 DEF Confirmed, Quiet, server, Sessions
<1>2. CallHolds("action", call["action"])
  BY <1>1 DEF PageHolds, CallsHold
<1>3. Pending("action") /\ Now # 0
  BY <1>1, <1>2 DEF CallHolds, Did, Pending
<1>4. SureText = None /\ ~SureTime
  BY <1>1, <1>3 DEF PageHolds, TextHolds, TimeHolds, ShapeHolds
<1>5. PICK d : d = Resting
  OBVIOUS
<1>6. d.pc = "idle" /\ GoesOn("action", d)
  BY <1>1, <1>5, Rests, GoesOnHolds DEF Done
<1>7. EditorAtRest'
  BY <1>3, <1>6 DEF PageHolds, ViewHolds, EditorAtRest, GoesOn, Pending, Sessions
<1>. QED
  BY <1>1, <1>3, <1>4, <1>6, <1>7, TypedKeeps, LoadsHold

LEMMA LoadedHolds == ASSUME PageHolds, Loaded PROVE PageHolds'
<1>1. /\ page.view.pc = "loading" /\ Quiet /\ UNCHANGED <<late, call, typed>> /\ EditorAtRest
      /\ SureText = None /\ ~SureTime
  BY DEF Loaded, Quiet, server, PageHolds, ViewHolds, Shown, TextHolds, TimeHolds
<1>2. TextHolds' /\ TimeHolds' /\ TypedShape'
  BY <1>1, TypedKeeps DEF TextHolds, TimeHolds
<1>3. Now \in Nat /\ (history = <<>> <=> Now = 0)
  BY DEF PageHolds, HistoryHolds, Now
<1>4. EditorAtRest'
  BY <1>1 DEF EditorAtRest, Pending
<1> DEFINE shown == [page EXCEPT !.view.pc = "shown"]
<1>5. /\ IsPage(shown) /\ shown.view = [page.view EXCEPT !.pc = "shown"] /\ shown.row = page.row
      /\ shown.form = page.form /\ shown.latest = page.latest /\ shown.file = page.file
      /\ shown.poll = page.poll /\ shown.intent = page.intent
  BY TypedKeeps DEF IsPage, PageFields
<1>6. shown.view.pc = "shown"
  BY <1>5, TypedKeeps DEF IsPage
<1>7. page'.view.pc = "shown" => ViewHolds'
  BY <1>4 DEF ViewHolds, Shown
<1>8. CASE Now = 0
  <2>1. page' = shown
    BY <1>3, <1>8 DEF Loaded
  <2>. HIDE DEF shown
  <2>2. Beside(page')
    BY <1>5, <2>1 DEF Beside, PageHolds, RowsHold
  <2>3. \A i \in {"attachments", "removal"} : page'.intent[i] = page.intent[i]
    BY <1>5, <2>1
  <2>4. LateHolds' /\ (page.row = None => \A t \in late' : t.cmd.name = "create")
    BY <1>1 DEF PageHolds, LateHolds, NewHolds
  <2>5. PICK d : d = call["editor"]
    OBVIOUS
  <2>. QED
    BY <1>1, <1>2, <1>4, <1>6, <1>7, <2>1, <2>2, <2>3, <2>4, <2>5, StaysOn, SessionHolds
<1>9. CASE Now # 0
  <2>1. page.view.floor \in 1 .. Now
    BY <1>1, <1>3, <1>9 DEF PageHolds, ViewHolds
  <2>2. PICK row \in Seen(page.view.floor) :
          page' = Updated([Accepted(shown, row) EXCEPT !.file = FALSE, !.target = None,
                             !.time = FALSE, !.conflict = {}, !.intent = [i \in Intents |-> None]])
    BY <1>3, <1>9 DEF Loaded
  <2>3. Met(row)
    BY <2>1, SeenMet
  <2>. HIDE DEF shown
  <2>4. PICK q : q = Accepted(shown, row)
    OBVIOUS
  <2>5. Replacing(shown, q, row) /\ q.form = row.data.text /\ q.latest = None
    BY <1>5, <2>4, AcceptedPage
  <2>6. PICK u : u = [q EXCEPT !.file = FALSE, !.target = None, !.time = FALSE, !.conflict = {},
                               !.intent = [i \in Intents |-> None]]
    OBVIOUS
  <2>7. /\ IsPage(u) /\ u.row = row /\ u.form = row.data.text /\ u.latest = None
        /\ u.view = shown.view /\ u.poll = q.poll /\ u.intent = [i \in Intents |-> None]
    BY <2>5, <2>6 DEF Replacing, IsPage, PageFields
  <2>8. page' = Updated(u)
    BY <2>2, <2>4, <2>6
  <2>9. /\ IsPage(page') /\ Carried(u, page')
        /\ \A i \in Intents \ {"recovery"} : page'.intent[i] = u.intent[i]
        /\ page'.poll["publication"] = u.poll["publication"]
        /\ page'.poll["recovery"] = IF u.row.data.status = "queued" THEN Timer ELSE Off
    BY <2>7, <2>8, UpdatedPage
  <2>10. /\ page'.row = row /\ page'.form \in Texts /\ page'.latest = None
        /\ page'.view.pc = "shown"
    BY <1>6, <2>3, <2>7, <2>9, RowIsSome DEF Carried
  <2>11. \A p \in Polls : PollOf(p, page'.poll[p], row)
    BY <2>5, <2>7, <2>9 DEF PollOf, Replacing, Polls
  <2>12. \A i \in {"attachments", "removal"} : page'.intent[i] = None
    BY <2>7, <2>9 DEF Intents, Sessions
  <2>13. ~(call'["editor"].pc = "sent" /\ call'["editor"].cmd.name = "create")
    BY <1>1 DEF EditorAtRest, Pending
  <2>. QED
    BY <1>1, <1>2, <1>7, <2>3, <2>9, <2>10, <2>11, <2>12, <2>13, StaysOn, RowChanges
<1>. QED
  BY <1>8, <1>9

LEMMA EditsHold ==
  ASSUME PageHolds, Confirmed("editor"), call["editor"].cmd.name # "create" PROVE PageHolds'
<1>1. PICK c : c = call["editor"]
  OBVIOUS
<1>2. "editor" \in Sessions /\ "action" \in Sessions
  BY DEF Sessions
<1>3. /\ c.answer # None /\ c.answer.is = "ok" /\ page' = OnOk("editor", c)
      /\ Read("editor", c.cmd.name) /\ Quiet /\ UNCHANGED late
      /\ typed' = [typed EXCEPT !.text = None]
  BY <1>1, <1>2 DEF Confirmed, Quiet, server
<1>4. CallHolds("editor", c) /\ c.pc = "sent" /\ c.cmd.name = "edit"
  BY <1>1, <1>2, <1>3 DEF PageHolds, CallsHold, CallHolds
<1>5. /\ c.cmd.expected \in 1 .. Now /\ c.answer.version \in 1 .. Now /\ c.cmd.arg \in Texts
      /\ Now \in Nat
  BY <1>3, <1>4 DEF CallHolds, Did, Written, Drafts, PageHolds, HistoryHolds, Now
<1> DEFINE data == [history[c.cmd.expected] EXCEPT !.text = c.cmd.arg]
           row == SavedRow(c)
           kept == [page EXCEPT !.intent["editor"] = None, !.form = c.cmd.arg]
<1>6. Met(row) /\ row # None
  <2>1. PICK h \in Contents : h = history[c.cmd.expected]
    BY <1>5 DEF PageHolds, HistoryHolds, Now
  <2>2. data \in Contents /\ data.status = h.status
    BY <1>5, <2>1 DEF Contents
  <2>3. row = [version |-> c.answer.version, data |-> data]
    BY DEF SavedRow
  <2>4. h.status \in GoneStatuses => Gone
    BY <1>5, <2>1 DEF PageHolds, HistoryHolds, Gone, GoneAt
  <2>. HIDE DEF row, data
  <2>5. Met(row)
    BY <1>5, <2>2, <2>3, <2>4 DEF Met, Rows
  <2>. QED
    BY <2>5, RowIsSome
<1>7. page' = Replaced(kept, row)
  BY <1>3, <1>4 DEF OnOk, Polls
<1>8. /\ IsPage(kept) /\ kept.form = c.cmd.arg /\ kept.latest = page.latest
      /\ kept.poll = page.poll /\ kept.view = page.view
      /\ kept.intent = [page.intent EXCEPT !["editor"] = None]
  BY TypedKeeps DEF IsPage, PageFields
<1>9. \A i \in {"attachments", "removal"} : kept.intent[i] = page.intent[i]
  BY <1>8, TypedKeeps DEF IsPage, Intents
<1>. HIDE DEF row, kept
<1>10. /\ Replacing(kept, page', row) /\ page'.form = kept.form /\ page'.latest = kept.latest
  BY <1>7, <1>8, ReplacedPage
<1>11. /\ IsPage(page') /\ page'.row = row /\ page'.form \in Texts /\ page'.latest = page.latest
       /\ page'.view = page.view
       /\ \A i \in {"attachments", "removal"} : page'.intent[i] = page.intent[i]
  BY <1>5, <1>8, <1>9, <1>10 DEF Replacing
<1>12. \A p \in Polls : PollOf(p, page'.poll[p], row)
  BY <1>8, <1>10 DEF Replacing, PollOf, Polls
<1>13. PICK d : d = Awaiting("read", Command("edit", None, None), 0)
  OBVIOUS
<1>14. Command("edit", None, None).name = "edit"
  BY DEF Command
<1>15. DOMAIN d = CallFields /\ d.pc = "read" /\ d.cmd.name = "edit" /\ d.answer = None /\ d.floor = Now
  BY <1>13, <1>14, Awaited
<1>16. CallHolds("editor", d)
  BY <1>5, <1>15 DEF CallHolds, Own
<1>17. GoesOn("editor", d)
  BY <1>2, <1>3, <1>4, <1>13, <1>15, <1>16, GoesOnHolds DEF Read
<1>18. Shown /\ ~Pending("action")
  BY <1>1, <1>4 DEF PageHolds, ViewHolds, EditorAtRest, Pending
<1>19. ViewHolds'
  BY <1>2, <1>11, <1>17, <1>18 DEF ViewHolds, Shown, Pending, GoesOn
<1>20. ~SureTime
  BY <1>1, <1>2, <1>4 DEF PageHolds, TimeHolds, Pending
<1>21. TypedShape' /\ SureText' = None /\ ~SureTime'
  BY <1>3, <1>20, TypedKeeps
<1>22. TextHolds' /\ TimeHolds'
  BY <1>21 DEF TextHolds, TimeHolds
<1>23. ~(call'["editor"].pc = "sent" /\ call'["editor"].cmd.name = "create")
  BY <1>15, <1>17 DEF GoesOn
<1>. QED
  BY <1>2, <1>3, <1>6, <1>11, <1>12, <1>17, <1>19, <1>21, <1>22, <1>23, RowChanges
-----------------------------------------------------------------------------
\* The polls: none of them runs while a text is entered.
LEMMA PollTimes ==
  ASSUME PageHolds, NEW p \in Polls, page.poll[p].pc # "off"
  PROVE  SureText = None /\ page.row # None
BY DEF PageHolds, TextHolds, NewHolds, Off

Turns(p, poll) ==
  /\ IsPage(page') /\ page'.row = page.row /\ page'.form = page.form /\ page'.file = page.file
  /\ page'.latest = page.latest /\ page'.view = page.view /\ page'.time = page.time
  /\ page'.conflict = page.conflict /\ page'.intent = page.intent
  /\ page'.poll = [page.poll EXCEPT ![p] = poll]

LEMMA PollTurns ==
  ASSUME PageHolds, Quiet, UNCHANGED <<late, call, typed>>, NEW p \in Polls, NEW poll,
         Turns(p, poll), PollHolds(p, poll), page.poll[p].pc # "off"
  PROVE  PageHolds'
<1>1. /\ IsPage(page') /\ page'.row = page.row /\ page'.form = page.form /\ page'.file = page.file
      /\ page'.latest = page.latest /\ page'.view = page.view /\ page'.time = page.time
      /\ page'.conflict = page.conflict /\ page'.intent = page.intent
      /\ page'.poll = [page.poll EXCEPT ![p] = poll]
  BY DEF Turns
<1>2. page'.poll[p] = poll /\ \A q \in Polls \ {p} : page'.poll[q] = page.poll[q]
  BY <1>1, TypedKeeps DEF IsPage
<1>3. PollsHold'
  <2> SUFFICES ASSUME NEW q \in Polls PROVE PollHolds(q, page.poll[q])'
    BY DEF PollsHold
  <2>1. PollHolds(q, page'.poll[q])
    BY <1>2 DEF PageHolds, PollsHold
  <2>2. PICK r : r = page'.poll[q]
    OBVIOUS
  <2>. QED
    BY <1>1, <2>1, <2>2 DEF Quiet, PollHolds, Status, Now, Gone, GoneAt
<1>4. RowsHold'
  BY <1>1, QuietMet DEF PageHolds, RowsHold
<1>5. ShapeHolds' /\ LateHolds' /\ IntentsHold' /\ NewHolds' /\ TextHolds'
  BY <1>1, PollTimes DEF PageHolds, ShapeHolds, LateHolds, IntentsHold, NewHolds, TextHolds
<1>6. TimeHolds' /\ ViewHolds'
  BY <1>1 DEF PageHolds, TimeHolds, ViewHolds, Shown, Editable, Status, Conflict, Pending, EditorAtRest, Quiet, Now
<1>7. CallsHold'
  BY <1>1, StaysOn DEF GoesOn, PageHolds, CallsHold
<1>. QED
  BY <1>3, <1>4, <1>5, <1>6, <1>7, QuietServer DEF PageHolds

LEMMA PollTurnsHold == ASSUME PageHolds, NEW p \in Polls, PollReads(p) \/ PollFails(p) PROVE PageHolds'
<1>1. PollHolds(p, page.poll[p]) /\ Now \in Nat
  BY DEF PageHolds, PollsHold, HistoryHolds, Now
<1>2. Quiet /\ UNCHANGED <<late, call, typed>>
  BY DEF PollReads, PollFails, Quiet, server
<1>3. CASE PollReads(p)
  <2>1. PICK poll : poll = [pc |-> "reading", floor |-> Now]
    OBVIOUS
  <2>2. page.poll[p].pc = "timer" /\ page' = [page EXCEPT !.poll[p] = poll]
    BY <1>3, <2>1 DEF PollReads
  <2>3. Now # 0
    BY <1>1, <2>2 DEF PollHolds, Gone, PageHolds, RowsHold, Met
  <2>4. PollHolds(p, poll)
    BY <1>1, <2>1, <2>2, <2>3 DEF PollHolds, Gone
  <2>5. Turns(p, poll)
    BY <2>2, TypedKeeps DEF Turns, IsPage, PageFields
  <2>. QED
    BY <1>2, <2>2, <2>4, <2>5, PollTurns
<1>4. CASE PollFails(p)
  <2>1. page.poll[p].pc = "reading" /\ page' = [page EXCEPT !.poll[p] = Timer]
    BY <1>4 DEF PollFails
  <2>2. page.poll[p].floor \in 1 .. Now
    BY <1>1, <2>1 DEF PollHolds
  <2>3. GoneAt(page.poll[p].floor) => Gone
    BY <1>1, <2>2 DEF Gone, PageHolds, HistoryHolds
  <2>4. PollHolds(p, Timer)
    BY <1>1, <2>1, <2>3 DEF PollHolds, Timer
  <2>5. Turns(p, Timer)
    BY <2>1, TypedKeeps DEF Turns, IsPage, PageFields
  <2>. QED
    BY <1>2, <2>1, <2>4, <2>5, PollTurns
<1>. QED
  BY <1>3, <1>4

\* A poll brings a row that is not worked on: the schedule that was entered stays.
LEMMA PollBrings ==
  ASSUME PageHolds, Quiet, UNCHANGED <<late, call, typed>>, NEW p \in Polls,
         page.poll[p].pc # "off", NEW heard, NEW row, Met(row), row.data.status # "draft",
         IsPage(heard), heard.view = page.view, heard.time = page.time, heard.poll = page.poll,
         heard.conflict = page.conflict, heard.intent = page.intent, page' = Accepted(heard, row)
  PROVE  PageHolds'
<1>1. Replacing(heard, page', row) /\ page'.form = row.data.text /\ page'.latest = None
  BY AcceptedPage
<1>2. /\ IsPage(page') /\ page'.row = row /\ page'.form \in Texts /\ page'.latest = None
      /\ page'.view = page.view /\ page'.time = page.time /\ page'.conflict \subseteq page.conflict
      /\ \A i \in {"attachments", "removal"} : page'.intent[i] = page.intent[i]
  BY <1>1, RowIsSome DEF Replacing
<1>3. \A q \in Polls : PollOf(q, page'.poll[q], row)
  BY <1>1 DEF Replacing, PollOf, Polls
<1>4. SureText = None /\ page.row # None /\ row # None
  BY PollTimes, RowIsSome
<1>5. ViewHolds'
  BY <1>2 DEF PageHolds, ViewHolds, EditorAtRest, Pending, Shown, Quiet, Now
<1>6. TextHolds'
  BY <1>4 DEF TextHolds
<1>7. TimeHolds'
  BY <1>2, <1>4 DEF PageHolds, TimeHolds, Shown, Editable, Status, Conflict, Pending
<1>8. ~(call'["editor"].pc = "sent" /\ call'["editor"].cmd.name = "create")
  BY <1>4 DEF PageHolds, CallsHold
<1>. QED
  BY <1>2, <1>3, <1>5, <1>6, <1>7, <1>8, TypedKeeps, StaysOn, RowChanges

LEMMA PolledHolds == ASSUME PageHolds, NEW p \in Polls, Polled(p) PROVE PageHolds'
<1>1. PICK row \in Seen(page.poll[p].floor) :
        page' = IF p = "publication" THEN PublicationPolled(row) ELSE RecoveryPolled(row)
  BY DEF Polled
<1>2. /\ page.poll[p].pc = "reading" /\ Quiet /\ UNCHANGED <<late, call, typed>>
      /\ PollHolds(p, page.poll[p])
  BY DEF Polled, Quiet, server, PageHolds, PollsHold
<1>3. page.poll[p].floor \in 1 .. Now
  BY <1>2 DEF PollHolds
<1>4. Met(row) /\ (GoneAt(page.poll[p].floor) => row.data.status \in GoneStatuses)
  BY <1>1, <1>3, SeenMet
<1>5. \/ p = "publication" /\ page.row # None /\ Status = "scheduled"
      \/ row.data.status \in GoneStatuses
  BY <1>2, <1>4 DEF PollHolds
<1>6. page.row # None /\ Met(page.row)
  BY <1>2, PollTimes DEF PageHolds, RowsHold
<1>7. row.data.status = "queued" \/ page.row.data.status = "queued" => Gone
  BY <1>4, <1>6 DEF Met, GoneStatuses
<1>8. CASE p = "publication"
  <2>1. PICK heard : heard = [page EXCEPT !.told = @ \ {"publication"}]
    OBVIOUS
  <2>2. /\ IsPage(heard) /\ heard.row = page.row /\ heard.form = page.form /\ heard.file = page.file
        /\ heard.latest = page.latest /\ heard.view = page.view /\ heard.time = page.time
        /\ heard.conflict = page.conflict /\ heard.intent = page.intent /\ heard.poll = page.poll
    BY <2>1, TypedKeeps DEF IsPage, PageFields
  <2>3. page' = IF Displaced(row)
                THEN [heard EXCEPT !.told = @ \cup {"publication"}, !.poll["publication"] = Off]
                ELSE IF row.data.status = "scheduled" /\ Status = "scheduled"
                THEN [heard EXCEPT !.poll["publication"] = Timer]
                ELSE IF row.version # page.row.version THEN Accepted(heard, row)
                ELSE [heard EXCEPT !.poll["publication"] =
                        IF row.data.status = "queued" THEN Timer ELSE Off]
    BY <1>1, <1>8, <2>1 DEF PublicationPolled
  <2>4. ASSUME ~Displaced(row), page' = Accepted(heard, row) PROVE PageHolds'
    <3>1. row.data.status # "draft"
      BY <1>5, <2>4 DEF Displaced, GoneStatuses
    <3>. QED
      BY <1>2, <1>4, <2>2, <2>4, <3>1, PollBrings
  <2>5. PollHolds(p, Off)
    BY DEF PollHolds, Off
  <2>6. Gone \/ Status = "scheduled" => PollHolds(p, Timer)
    BY <1>6, <1>8 DEF PollHolds, Timer
  <2>7. ASSUME NEW poll, \/ page' = [heard EXCEPT !.told = @ \cup {"publication"}, !.poll["publication"] = poll]
                         \/ page' = [heard EXCEPT !.poll["publication"] = poll],
               PollHolds(p, poll)
        PROVE  PageHolds'
    <3>1. Turns(p, poll)
      BY <1>8, <2>2, <2>7 DEF Turns, IsPage, PageFields
    <3>. QED
      BY <1>2, <2>7, <3>1, PollTurns
  <2>. QED
    BY <1>7, <2>3, <2>4, <2>5, <2>6, <2>7
<1>9. CASE p # "publication"
  <2>1. p = "recovery"
    BY <1>9 DEF Polls
  <2>2. PICK heard : heard = [page EXCEPT !.awaiting = @ \ {"recovery"}, !.told = @ \ {"recovery"}]
    OBVIOUS
  <2>3. /\ IsPage(heard) /\ heard.row = page.row /\ heard.form = page.form /\ heard.file = page.file
        /\ heard.latest = page.latest /\ heard.view = page.view /\ heard.time = page.time
        /\ heard.conflict = page.conflict /\ heard.intent = page.intent /\ heard.poll = page.poll
    BY <2>2, TypedKeeps DEF IsPage, PageFields
  <2>4. page' = IF Conflict("recovery") THEN [page EXCEPT !.poll["recovery"] = Off]
                ELSE IF row.version # page.row.version THEN Accepted(heard, row)
                ELSE Followed(heard)
    BY <1>1, <1>9, <2>2 DEF RecoveryPolled
  <2>5. CASE page' = [page EXCEPT !.poll["recovery"] = Off]
    <3>1. Turns(p, Off)
      BY <2>1, <2>5, TypedKeeps DEF Turns, IsPage, PageFields
    <3>2. PollHolds(p, Off)
      BY DEF PollHolds, Off
    <3>. QED
      BY <1>2, <3>1, <3>2, PollTurns
  <2>6. CASE page' = Accepted(heard, row)
    <3>1. row.data.status # "draft"
      BY <1>5, <2>1 DEF GoneStatuses
    <3>. QED
      BY <1>2, <1>4, <2>3, <2>6, <3>1, PollBrings
  <2>7. CASE page' = Followed(heard)
    <3>1. PICK poll : poll = IF heard.row.data.status = "queued" THEN Timer ELSE Off
      OBVIOUS
    <3>2. page' = [heard EXCEPT !.poll["recovery"] = poll]
      BY <2>7, <3>1 DEF Followed
    <3>3. Turns(p, poll)
      BY <2>1, <2>3, <3>2 DEF Turns, IsPage, PageFields
    <3>4. PollHolds(p, poll)
      BY <1>7, <2>3, <3>1 DEF PollHolds, Timer, Off
    <3>. QED
      BY <1>2, <3>3, <3>4, PollTurns
  <2>. QED
    BY <2>4, <2>5, <2>6, <2>7
<1>. QED
  BY <1>8, <1>9

-----------------------------------------------------------------------------
\* A read that fails brings no row, and one that succeeds the row of its session.
Reads(s, c) ==
  /\ c = call[s] /\ c.pc = "read" /\ Quiet /\ UNCHANGED <<late, typed>>
  /\ Own(s, c.cmd.name) /\ c.floor \in 1 .. Now
  /\ c.cmd.name \in {"publish", "retry"} => Gone
  /\ c.cmd.name # "compare" => SureText = None
  /\ ~SureTime
  /\ page.row = None => s = "editor" /\ c.cmd.name = "create"
  /\ s = "editor" /\ c.cmd.name # "compare" => Shown /\ ~Pending("action")
  /\ s = "action" \/ ~Shown => EditorAtRest

LEMMA ReadsHold ==
  ASSUME PageHolds, NEW s \in Sessions, NEW c, c = call[s], c.pc = "read",
         UNCHANGED <<server, typed>>
  PROVE  Reads(s, c)
<1>1. CallHolds(s, c)
  BY DEF PageHolds, CallsHold
<1>2. Own(s, c.cmd.name) /\ c.floor \in 1 .. Now /\ (c.cmd.name \in {"publish", "retry"} => Gone)
  BY <1>1 DEF CallHolds
<1>3. Pending(s) /\ {"editor", "action"} \subseteq Sessions
  BY DEF Pending, Sessions
<1>4. c.cmd.name # "compare" => SureText = None
  BY <1>2, <1>3 DEF PageHolds, TextHolds
<1>5. ~SureTime
  BY <1>3 DEF PageHolds, TimeHolds
<1>6. page.row = None => s = "editor" /\ c.cmd.name = "create"
  BY <1>3 DEF PageHolds, NewHolds
<1>7. s = "editor" /\ c.cmd.name # "compare" => Shown /\ ~Pending("action")
  BY <1>3 DEF PageHolds, ViewHolds, EditorAtRest
<1>8. s = "action" \/ ~Shown => EditorAtRest
  BY <1>3 DEF PageHolds, ViewHolds
<1>. QED
  BY <1>2, <1>4, <1>5, <1>6, <1>7, <1>8 DEF Reads, Quiet, server

LEMMA ReadFailsHolds == ASSUME PageHolds, NEW s \in Sessions, ReadFails(s) PROVE PageHolds'
<1>1. PICK c : c = call[s]
  OBVIOUS
<1>2. c.pc = "read" /\ Done(s) /\ UNCHANGED <<server, typed>>
  BY <1>1 DEF ReadFails
<1>3. Reads(s, c)
  BY <1>1, <1>2, ReadsHold
<1>4. Quiet /\ UNCHANGED <<late, typed>> /\ c.pc = "read" /\ LateHolds' /\ ~SureTime
      /\ (page.row = None => \A t \in late' : t.cmd.name = "create")
  BY <1>3 DEF Reads, PageHolds, LateHolds, NewHolds
<1>5. page' = CASE c.cmd.name = "create" -> Loading(page)
               [] c.cmd.name = "publish" -> [page EXCEPT !.poll["publication"] = Timer]
               [] c.cmd.name = "retry" -> [page EXCEPT !.poll["recovery"] = Timer]
               [] c.cmd.name = "refresh" -> [page EXCEPT !.told = @ \cup {s}]
               [] OTHER -> page
  BY <1>1 DEF ReadFails
<1>6. ASSUME c.cmd.name = "create" PROVE PageHolds'
  <2>1. page' = Loading(page) /\ s = "editor" /\ SureText = None /\ Now # 0
    BY <1>3, <1>5, <1>6 DEF Reads, Own
  <2>2. PICK d : d = Resting
    OBVIOUS
  <2>3. d.pc = "idle" /\ GoesOn("editor", d)
    BY <1>2, <1>4, <2>1, <2>2, Rests, GoesOnHolds DEF Done
  <2>4. EditorAtRest'
    BY <2>3 DEF EditorAtRest, GoesOn, Pending
  <2>. QED
    BY <1>4, <2>1, <2>3, <2>4, TypedKeeps, LoadsHold
<1>7. ASSUME NEW p \in Polls, page' = [page EXCEPT !.poll[p] = Timer],
             c.cmd.name \in {"publish", "retry"}
      PROVE  PageHolds'
  <2>1. Gone /\ page.row # None /\ SureText = None
    BY <1>3, <1>7 DEF Reads
  <2>2. /\ IsPage(page') /\ page'.row = page.row /\ page'.form = page.form /\ page'.file = page.file
        /\ page'.latest = page.latest /\ page'.view = page.view /\ page'.time = page.time
        /\ page'.conflict = page.conflict /\ page'.intent = page.intent
        /\ page'.poll = [page.poll EXCEPT ![p] = Timer]
    BY <1>7, TypedKeeps DEF IsPage, PageFields
  <2>3. \A q \in Polls : page'.poll[q] \in {page.poll[q], Timer}
    BY <2>2, TypedKeeps DEF IsPage
  <2>4. Beside(page')
    BY <2>1, <2>2, <2>3 DEF Beside, PageHolds, RowsHold
  <2>. QED
    BY <1>1, <1>2, <1>4, <2>2, <2>4, RestHolds
<1>8. ASSUME page' = page \/ page' = [page EXCEPT !.told = @ \cup {s}] PROVE PageHolds'
  <2>1. /\ IsPage(page') /\ page'.row = page.row /\ page'.form = page.form /\ page'.file = page.file
        /\ page'.latest = page.latest /\ page'.view = page.view /\ page'.time = page.time
        /\ page'.conflict = page.conflict /\ page'.intent = page.intent /\ page'.poll = page.poll
    BY <1>8, TypedKeeps DEF IsPage, PageFields
  <2>2. Beside(page')
    BY <2>1 DEF Beside, PageHolds, RowsHold
  <2>. QED
    BY <1>1, <1>2, <1>4, <2>1, <2>2, RestHolds
<1>. QED
  BY <1>5, <1>6, <1>7, <1>8 DEF Polls

\* The page takes the row that a session read, but for what a creation loads anew.
TakesRow(q, row) ==
  /\ IsPage(q) /\ q.row = row /\ q.form = row.data.text /\ q.latest = None
  /\ \A p \in Polls : PollOf(p, q.poll[p], row)
  /\ \A i \in {"attachments", "removal"} : q.intent[i] \in {page.intent[i], None}

LEMMA OnReadPage ==
  ASSUME PageHolds, NEW s \in Sessions, NEW name, Own(s, name), name # "compare", NEW row,
         NEW q, q = OnRead(s, name, row)
  PROVE  /\ TakesRow(q, row)
         /\ q.view = IF name = "create" THEN [pc |-> "loading", floor |-> Now] ELSE page.view
<1>1. PICK a : a = Accepted(page, row)
  OBVIOUS
<1>2. Replacing(page, a, row) /\ a.form = row.data.text /\ a.latest = None /\ IsPage(page)
  BY <1>1, TypedKeeps, AcceptedPage
<1>3. TakesRow(a, row) /\ a.view = page.view
  BY <1>2, ReplacingPolls DEF TakesRow, Replacing
<1>4. q = CASE name = "create" -> Loading(a)
            [] name = "store" ->
                 IF row.data.slots[page.target] = "ready"
                 THEN [a EXCEPT !.file = FALSE, !.target = None, !.intent["attachments"] = None]
                 ELSE a
            [] name = "remove" -> [a EXCEPT !.intent["removal"] = None]
            [] s = "schedule" ->
                 [a EXCEPT !.time = FALSE, !.conflict = @ \ {s}, !.intent["schedule"] = None]
            [] name = "retry" -> Accepted([page EXCEPT !.awaiting = @ \ {s}], row)
            [] name = "refresh" ->
                 Followed([a EXCEPT !.conflict = @ \ {s}, !.intent["recovery"] = None,
                                    !.awaiting = @ \ {s}])
            [] OTHER -> a
  <2>1. /\ s = "schedule" => name \notin {"create", "store", "remove", "retry", "refresh"}
        /\ name \notin {"compare"}
    BY DEF Own
  <2>. QED
    BY <1>1, <2>1 DEF OnRead
<1>5. s = "schedule" => name \in {"schedule", "reschedule", "cancel"}
  BY DEF Own
<1>6. CASE name = "create"
  <2>1. q = Loading(a)
    BY <1>4, <1>5, <1>6
  <2>2. /\ IsPage(q) /\ q.view = [pc |-> "loading", floor |-> Now] /\ q.row = a.row
        /\ q.form = a.form /\ q.latest = a.latest /\ \A p \in Polls : q.poll[p] = Off
        /\ \A i \in {"attachments", "removal"} : q.intent[i] = a.intent[i]
    BY <1>3, <2>1, LoadingPage DEF TakesRow
  <2>. QED
    BY <1>3, <1>6, <2>2 DEF TakesRow, PollOf
<1>7. ASSUME NEW b, IsPage(b), b.row = a.row, b.form = a.form, b.latest = a.latest, b.view = a.view,
             b.poll = a.poll,
             \E i \in Intents : b.intent \in {a.intent, [a.intent EXCEPT ![i] = None]}
      PROVE  TakesRow(b, row) /\ b.view = page.view
  <2>1. IsPage(a) /\ {"attachments", "removal"} \subseteq Intents
    BY <1>3 DEF TakesRow, Intents, Sessions
  <2>2. \A i \in {"attachments", "removal"} : b.intent[i] \in {a.intent[i], None}
    BY <1>7, <2>1 DEF IsPage
  <2>. QED
    BY <1>3, <1>7, <2>2 DEF TakesRow
<1>8. CASE name \in {"store", "remove"} \/ s = "schedule"
  <2>1. /\ name # "create" /\ {"attachments", "removal", "schedule"} \subseteq Intents
        /\ \/ q = [a EXCEPT !.file = FALSE, !.target = None, !.intent["attachments"] = None]
           \/ q = a
           \/ q = [a EXCEPT !.intent["removal"] = None]
           \/ q = [a EXCEPT !.time = FALSE, !.conflict = @ \ {s}, !.intent["schedule"] = None]
    BY <1>4, <1>5, <1>8 DEF Intents, Sessions
  <2>2. /\ IsPage(q) /\ q.row = a.row /\ q.form = a.form /\ q.latest = a.latest /\ q.view = a.view
        /\ q.poll = a.poll
        /\ \E i \in Intents : q.intent \in {a.intent, [a.intent EXCEPT ![i] = None]}
    BY <1>3, <2>1 DEF TakesRow, IsPage, PageFields
  <2>. QED
    BY <1>7, <2>1, <2>2
<1>9. CASE name = "retry"
  <2>1. PICK heard : heard = [page EXCEPT !.awaiting = @ \ {s}]
    OBVIOUS
  <2>2. /\ IsPage(heard) /\ heard.view = page.view /\ heard.intent = page.intent
        /\ heard.poll = page.poll
    BY <1>2, <2>1 DEF IsPage, PageFields
  <2>3. q = Accepted(heard, row)
    BY <1>4, <1>5, <1>9, <2>1
  <2>4. Replacing(heard, q, row) /\ q.form = row.data.text /\ q.latest = None
    BY <2>2, <2>3, AcceptedPage
  <2>. QED
    BY <1>9, <2>2, <2>4 DEF TakesRow, Replacing, PollOf, Polls
<1>10. CASE name = "refresh"
  <2>1. PICK b : b = [a EXCEPT !.conflict = @ \ {s}, !.intent["recovery"] = None,
                               !.awaiting = @ \ {s}]
    OBVIOUS
  <2>2. /\ IsPage(b) /\ b.row = a.row /\ b.form = a.form /\ b.latest = a.latest /\ b.view = a.view
        /\ b.poll = a.poll /\ b.intent = [a.intent EXCEPT !["recovery"] = None]
    BY <1>3, <2>1 DEF TakesRow, IsPage, PageFields
  <2>3. "recovery" \in Intents
    BY DEF Intents, Sessions
  <2>4. TakesRow(b, row) /\ b.view = page.view
    BY <1>7, <2>2, <2>3
  <2>5. q = Followed(b)
    BY <1>4, <1>5, <1>10, <2>1
  <2>6. /\ IsPage(q) /\ Carried(b, q) /\ q.intent = b.intent
        /\ q.poll["publication"] = b.poll["publication"]
        /\ q.poll["recovery"] = IF b.row.data.status = "queued" THEN Timer ELSE Off
    BY <2>2, <2>5, FollowedPage
  <2>. QED
    BY <1>10, <2>4, <2>6 DEF TakesRow, Carried, PollOf, Polls
<1>11. CASE name \notin {"create", "store", "remove", "retry", "refresh"} /\ s # "schedule"
  BY <1>3, <1>4, <1>11
<1>. QED
  BY <1>6, <1>8, <1>9, <1>10, <1>11

LEMMA ArrivedHolds == ASSUME PageHolds, NEW s \in Sessions, Arrived(s) PROVE PageHolds'
<1>1. PICK c : c = call[s]
  OBVIOUS
<1>2. c.pc = "read" /\ UNCHANGED <<server, typed>>
  BY <1>1 DEF Arrived
<1>3. Reads(s, c)
  BY <1>1, <1>2, ReadsHold
<1>4. /\ Quiet /\ UNCHANGED <<late, typed>> /\ LateHolds' /\ ~SureTime
      /\ (page.row = None => \A t \in late' : t.cmd.name = "create")
      /\ c.floor \in 1 .. Now /\ Own(s, c.cmd.name)
  BY <1>3 DEF Reads, PageHolds, LateHolds, NewHolds
<1>5. PICK row \in Seen(c.floor) : page' = OnRead(s, c.cmd.name, row)
  BY <1>1 DEF Arrived
<1>6. Met(row)
  BY <1>4, <1>5, SeenMet
<1>7. CASE c.cmd.name = "compare"
  <2>1. Done(s) /\ page' = [page EXCEPT !.latest = row] /\ page.row # None
    BY <1>1, <1>3, <1>5, <1>7 DEF Arrived, OnRead, Reads, Own
  <2>2. /\ IsPage(page') /\ page'.row = page.row /\ page'.form = page.form /\ page'.file = page.file
        /\ page'.latest = row /\ page'.view = page.view /\ page'.time = page.time
        /\ page'.conflict = page.conflict /\ page'.intent = page.intent /\ page'.poll = page.poll
    BY <2>1, TypedKeeps DEF IsPage, PageFields
  <2>3. Beside(page')
    BY <1>6, <2>1, <2>2 DEF Beside, PageHolds, RowsHold
  <2>. QED
    BY <1>1, <1>2, <1>4, <2>1, <2>2, <2>3, RestHolds
<1>8. CASE c.cmd.name # "compare"
  <2>1. PICK d : d = IF c.cmd.name = "register"
                     THEN Awaiting("sent", Command("store", None, page.target), 0) ELSE Resting
    OBVIOUS
  <2>2. call' = [call EXCEPT ![s] = d]
    BY <1>1, <2>1 DEF Arrived, Done
  <2>3. Command("store", None, page.target).name = "store"
    BY DEF Command
  <2>4. DOMAIN d = CallFields /\ CallHolds(s, d) /\ (s \in {"editor", "action"} => d = Resting)
    <3>1. CASE c.cmd.name = "register"
      <4>1. s = "attachments" /\ DOMAIN d = CallFields /\ d.pc = "sent" /\ d.cmd.name = "store"
            /\ d.answer = None
        BY <1>4, <2>1, <2>3, <3>1, Awaited DEF Own
      <4>. QED
        BY <4>1 DEF CallHolds, Own, Written, Drafts
    <3>2. CASE c.cmd.name # "register"
      BY <2>1, <3>2, Rests
    <3>. QED
      BY <3>1, <3>2
  <2>5. GoesOn(s, d)
    BY <1>4, <2>2, <2>4, GoesOnHolds
  <2>6. /\ TakesRow(page', row)
        /\ page'.view = IF c.cmd.name = "create" THEN [pc |-> "loading", floor |-> Now] ELSE page.view
    BY <1>4, <1>5, <1>8, OnReadPage
  <2>7. row # None /\ row.data.text \in Texts
    BY <1>6, RowIsSome
  <2>8. SureText' = None /\ ~SureTime' /\ TypedShape'
    BY <1>3, <1>8, TypedKeeps DEF Reads
  <2>9. TextHolds' /\ TimeHolds'
    BY <2>8 DEF TextHolds, TimeHolds
  <2>10. {"editor", "action"} \subseteq Sessions
    BY DEF Sessions
  <2>11. s = "editor" => EditorAtRest'
    BY <2>4, <2>5, <2>10, Rests DEF GoesOn, EditorAtRest, Pending
  <2>12. EditorAtRest => EditorAtRest'
    BY <2>5, <2>10, <2>11 DEF GoesOn, EditorAtRest, Pending
  <2>13. Pending("action")' => Pending("action")
    BY <2>4, <2>5, <2>10, Rests DEF GoesOn, Pending
  <2>14. ViewHolds'
    <3>1. CASE c.cmd.name = "create"
      <4>1. s = "editor" /\ page'.view = [pc |-> "loading", floor |-> Now]
        BY <1>4, <2>6, <3>1 DEF Own
      <4>2. UNCHANGED Now /\ Now \in Nat /\ Now # 0
        BY <1>4 DEF Quiet, Now, PageHolds, HistoryHolds
      <4>. QED
        BY <2>11, <4>1, <4>2 DEF ViewHolds
    <3>2. CASE c.cmd.name # "create"
      BY <1>4, <2>6, <2>12, <2>13, <3>2 DEF PageHolds, ViewHolds, Shown, Quiet, Now
    <3>. QED
      BY <3>1, <3>2
  <2>15. ~(call'["editor"].pc = "sent" /\ call'["editor"].cmd.name = "create")
    <3>1. s = "editor" => call'["editor"].pc = "idle"
      BY <2>4, <2>5, Rests DEF GoesOn
    <3>2. s # "editor" => call'["editor"] = call["editor"] /\ page.row # None
      BY <1>3, <2>5, <2>10 DEF GoesOn, Reads
    <3>. QED
      BY <3>1, <3>2 DEF PageHolds, CallsHold
  <2>. QED
    BY <1>4, <1>6, <2>5, <2>6, <2>7, <2>8, <2>9, <2>14, <2>15, RowChanges DEF TakesRow
<1>. QED
  BY <1>7, <1>8
-----------------------------------------------------------------------------
\* Every page that is opened is one of these, and every step keeps it one.
LEMMA PageInitHolds == ASSUME Init PROVE PageHolds
<1>1. /\ results = <<>> /\ late = {} /\ page = Opened /\ call = [s \in Sessions |-> Resting]
      /\ typed = Nothing /\ (history = <<>> \/ \E first \in FirstVersions : history = <<first>>)
  BY DEF Init
<1>2. history \in Seq(Contents) /\ Now \in {0, 1}
  <2>1. CASE history = <<>>
    BY <2>1 DEF Now
  <2>2. CASE \E first \in FirstVersions : history = <<first>>
    <3>1. PICK first \in Contents : history = <<first>>
      BY <2>2, PageAssumption
    <3>. HIDE DEF Contents
    <3>. QED
      BY <3>1 DEF Now
  <2>. QED
    BY <1>1, <2>1, <2>2
<1>3. /\ IsPage(page) /\ page.view = [pc |-> "loading", floor |-> Now] /\ page.row = None
      /\ page.form = None /\ page.latest = None /\ page.file = FALSE
      /\ page.intent = [i \in Intents |-> None] /\ page.poll = [p \in Polls |-> Off]
  BY <1>1 DEF Opened, IsPage, PageFields
<1>4. {"editor", "action", "schedule"} \subseteq Sessions /\ {"attachments", "removal"} \subseteq Intents
  BY DEF Sessions, Intents
<1>5. \A s \in Sessions : call[s] = Resting
  BY <1>1
<1>6. ShapeHolds /\ HistoryHolds /\ ResultsHold /\ LateHolds /\ RowsHold /\ IntentsHold
  BY <1>1, <1>2, <1>3, <1>4, <1>5, Rests
     DEF ShapeHolds, Nothing, HistoryHolds, ResultsHold, LateHolds, RowsHold, IntentsHold
<1>7. NewHolds /\ ViewHolds
  BY <1>1, <1>2, <1>3, <1>4, <1>5, Rests DEF NewHolds, ViewHolds, EditorAtRest, Pending, Shown
<1>8. CallsHold /\ PollsHold
  <2>1. \A s \in Sessions : CallHolds(s, call[s])
    BY <1>5, Rests
  <2>2. \A p \in Polls : PollHolds(p, page.poll[p])
    BY <1>3 DEF PollHolds, Off
  <2>. QED
    BY <1>3, <2>1, <2>2 DEF CallsHold, PollsHold
<1>9. TextHolds /\ TimeHolds
  BY <1>1 DEF TextHolds, TimeHolds, Nothing
<1>. QED
  BY <1>6, <1>7, <1>8, <1>9 DEF PageHolds

LEMMA UserHolds == ASSUME PageHolds, User PROVE PageHolds'
<1>1. (\E text \in Texts : Type(text)) \/ Save \/ Compare \/ KeepLocal \/ UseServer => PageHolds'
  BY TypeHolds, SavesHold, ComparesHold, KeepsHold, UsesHold
<1>2. Load \/ Submit \/ Reopen \/ DiscardFile \/ (\E slot : Select(slot)) => PageHolds'
  BY LoadHolds, SubmitHolds, ReopenHolds, FilesHold
<1>3. Upload \/ (\E slot : Remove(slot)) => PageHolds'
  BY AttachmentsAskHold, UploadReadsHold
<1>4. EditTime \/ DiscardTime \/ SaveSchedule \/ CancelSchedule => PageHolds'
  BY TimesHold, ScheduleAsksHold
<1>5. Publish \/ Retry \/ RefreshPublication => PageHolds'
  BY PublishHolds, RetryHolds, RefreshHolds
<1>. QED
  BY <1>1, <1>2, <1>3, <1>4, <1>5, Zenon DEF User

LEMMA PageNextHolds == ASSUME PageHolds, Next PROVE PageHolds'
<1>1. User \/ Loaded \/ LoadFails => PageHolds'
  BY UserHolds, LoadedHolds, LoadFailsHolds
<1>2. ASSUME NEW s \in Sessions, Answer(s) \/ Lost(s) \/ ReadFails(s) PROVE PageHolds'
  <2>1. Confirmed(s) => PageHolds'
    BY ActionsHold, EditsHold, ConfirmsHold
  <2>. QED
    BY <1>2, <2>1, ExecuteHolds, RefusedHolds, ArrivedHolds, LostHolds, ReadFailsHolds DEF Answer
<1>3. ASSUME NEW p \in Polls, Poll(p) \/ PollFails(p) PROVE PageHolds'
  BY <1>3, PollTurnsHold, PolledHolds DEF Poll
<1>4. OthersWrite \/ ExecuteLate => PageHolds'
  BY OthersWriteHolds, ExecuteLateHolds
<1>. QED
  BY <1>1, <1>2, <1>3, <1>4, Zenon DEF Next

\* A page that is not shown does not change.
LEMMA PageStays == ASSUME PageHolds, UNCHANGED itemVars PROVE PageHolds'
<1>1. UNCHANGED <<history, results, late, page, call, typed>> /\ Quiet
  BY DEF itemVars, Quiet
<1>2. CallsHold'
  BY <1>1, StaysOn DEF GoesOn, PageHolds, CallsHold
<1>3. PollsHold'
  BY <1>1 DEF PageHolds, PollsHold, PollHolds, Status, Now, Gone, GoneAt
<1>4. RowsHold'
  BY <1>1, QuietMet DEF PageHolds, RowsHold
<1>5. ShapeHolds' /\ LateHolds' /\ IntentsHold' /\ NewHolds'
  BY <1>1 DEF PageHolds, ShapeHolds, LateHolds, IntentsHold, NewHolds, Pending
<1>6. ViewHolds' /\ TextHolds' /\ TimeHolds'
  BY <1>1 DEF PageHolds, ViewHolds, TextHolds, TimeHolds, EditorAtRest, Shown, Pending, Editable,
     Status, Dirty, Baseline, Conflict, Now
<1>. QED
  BY <1>1, <1>2, <1>3, <1>4, <1>5, <1>6, QuietServer DEF PageHolds

LEMMA PageAlwaysHolds == BrowserSpec => []PageHolds
<1>1. BrowserInit => PageHolds
  <2>1. BrowserInit => Init
    BY Zenon DEF BrowserInit, NoItem
  <2>. QED
    BY <2>1, PageInitHolds
<1>2. PageHolds /\ [BrowserNext]_browserVars => PageHolds'
  <2> SUFFICES ASSUME PageHolds, [BrowserNext]_browserVars PROVE PageHolds'
    OBVIOUS
  <2>1. Next \/ UNCHANGED vars \/ UNCHANGED itemVars
    BY Zenon DEF BrowserNext, browserVars
  <2>2. UNCHANGED vars => UNCHANGED itemVars
    BY DEF vars, itemVars
  <2>. QED
    BY <2>1, <2>2, PageNextHolds, PageStays
<1>. QED
  BY <1>1, <1>2, PTL DEF BrowserSpec

HIDE DEF TypedShape, SureText, SureTime

\* A text that was entered, or kept after a comparison, while nothing was under way is in
\* the form of the item's page until it is saved, replaced by choice or given up on
\* confirmation, and so is a schedule unless a draft is chosen over it.  A session that
\* would replace the form waits while the draft differs from its base (ScheduleBlocked,
\* AttachmentsBlocked, PublicationBlocked), and what comes while a schedule is entered
\* (the polls, the row the user chooses after a conflict) replaces the row and leaves the
\* schedule's form alone.  So it is whatever answers are lost, late or refused, whatever
\* others write to the item meanwhile, and with versions, keys and texts without bound.
\* It is not so of a text kept while an upload or a poll runs, which TypedIsKept speaks of.
THEOREM WhatIsEnteredAtRestIsKept == BrowserSpec => []EnteredAtRestIsKept
<1>1. PageHolds => EnteredAtRestIsKept
  BY DEF PageHolds, TextHolds, TimeHolds, EnteredAtRestIsKept
<1>. QED
  BY <1>1, PageAlwaysHolds, PTL
-----------------------------------------------------------------------------
(* The lists: what holds of the screen and of the requests for it.         *)

RowsOf == [at : Nat, edit : Nat]
Entries == Candidates \X RowsOf
AskFields == DOMAIN NoCall
ScreenFields == DOMAIN Blank(None, None, None)

StoreHolds == clock \in Nat /\ edits \in Nat /\ rows \in [Candidates -> {None} \cup RowsOf]

\* Where time tells, a cutoff is a time that has been.
CutoffHolds(q, cutoff) == Timed(q) => cutoff \in Nat /\ cutoff <= clock
CursorHolds(cursor) ==
  cursor # None => cursor \in Cursors /\ CutoffHolds(cursor.scope[1], cursor.cutoff)

ScreenHolds ==
  /\ DOMAIN screen = ScreenFields /\ screen.items \in Seq(Entries) /\ screen.steady \subseteq Candidates
  /\ screen.query \in Queries \cup {None} /\ screen.who \in Identities \cup {None}
  /\ CursorHolds(screen.cursor) /\ CursorHolds(screen.bookmark)
  /\ screen.cursor # None =>
       screen.listed /\ screen.cursor.scope = Scope(screen.query, screen.who, screen.cursor.cutoff)
  /\ \A n \in DOMAIN screen.items :
       /\ MayRead(screen.query, screen.who)
       /\ InRange(screen.query, screen.items[n][2])
       /\ Matches(screen.query, screen.items[n][1], screen.items[n][2], clock)

\* The requests that are heard are for the list on the screen.
Asked(ask) == ask.pc \in {"sent", "paging", "answered"}
Served(ask) == ask.pc \in {"paging", "answered"}
AskHolds(ask) ==
  /\ Asked(ask) =>
       /\ ask.query = screen.query /\ ask.who = screen.who
       /\ ask.append => screen.cursor # None
       /\ ask.cursor = IF ask.append THEN screen.cursor ELSE screen.bookmark
  /\ ask.pc = "sent" => ask.items = <<>>
  /\ Served(ask) =>
       /\ MayRead(ask.query, ask.who) /\ CutoffHolds(ask.query, ask.cutoff)
       /\ ask.cutoff \in Cutoffs /\ (ask.cursor # None => ask.cutoff = ask.cursor.cutoff)
       /\ ask.inner \in Marks \cup {None} /\ ask.items \in Seq(Entries) /\ ask.steady \subseteq Candidates
       /\ \A n \in DOMAIN ask.items : /\ InRange(ask.query, ask.items[n][2])
                                      /\ Matches(ask.query, ask.items[n][1], ask.items[n][2], ask.cutoff)
CallsAsk ==
  /\ DOMAIN calls = {"load", "late", "poll"} /\ \A slot \in DOMAIN calls : DOMAIN calls[slot] = AskFields
  /\ \A slot \in {"load", "poll"} : AskHolds(calls[slot])
  /\ screen.loading <=> calls.load.pc # "none"
  /\ screen.loading => calls.poll.pc = "none"
  /\ Asked(calls.poll) => ~calls.poll.append

\* How far a list was read: which of the rows that stay put it has.
Past(key, c) == key # None /\ ~Before(key, Position(c))
Covers(items, steady, read) ==
  /\ \A c \in read : \E n \in DOMAIN items :
       items[n] = <<c, rows[c]>> /\ \A m \in DOMAIN items : items[m][1] = c => m = n
  /\ \A c \in steady \ read : \A n \in DOMAIN items : items[n][1] # c
  /\ \A m, n \in DOMAIN items :
       m < n /\ {items[m][1], items[n][1]} \subseteq steady =>
         Before(Position(items[m][1]), Position(items[n][1]))
Due(q, steady, cutoff) ==
  \A c \in steady : rows[c] # None /\ InRange(q, rows[c]) /\ Matches(q, c, rows[c], cutoff)

ReadOf(ask, steady) ==
  {c \in steady : /\ ~Past(Resumed(ask), c)
                  /\ Past(ask.inner, c) \/ (ask.pc = "answered" /\ ask.inner = None)}
SteadyOf(ask) == IF ask.append THEN screen.steady ELSE ask.steady
AskCovers(ask) ==
  Served(ask) =>
    /\ Due(ask.query, SteadyOf(ask), ask.cutoff)
    /\ Covers(ask.items, SteadyOf(ask), ReadOf(ask, SteadyOf(ask)))
    /\ ask.pc = "paging" \/ ask.inner # None =>
         \A c \in SteadyOf(ask) : Past(Resumed(ask), c) => Past(ask.inner, c)
ScreenCovers ==
  screen.listed =>
    /\ \A c \in screen.steady : rows[c] # None
    /\ screen.cursor # None => Due(screen.query, screen.steady, screen.cursor.cutoff)
    /\ Covers(screen.items, screen.steady,
             {c \in screen.steady : screen.cursor = None \/ Past(screen.cursor.inner, c)})
CoversHold ==
  screen.bookmark = None => ScreenCovers /\ \A slot \in {"load", "poll"} : AskCovers(calls[slot])

ListHolds == StoreHolds /\ ScreenHolds /\ CallsAsk /\ CoversHold
-----------------------------------------------------------------------------
(* The lists: the order of the rows, and the map that a page of them passes. *)

LEMMA BeforeOrder ==
  ASSUME NEW x \in Marks, NEW y \in Marks, NEW z \in Marks
  PROVE  /\ ~Before(x, x)
         /\ Before(x, y) => ~Before(y, x)
         /\ Before(x, y) /\ Before(y, z) => Before(x, z)
         /\ x = y \/ Before(x, y) \/ Before(y, x)
<1>1. ASSUME NEW m \in Marks PROVE m[1] \in Nat /\ m[2] \in Nat /\ m = <<m[1], m[2]>>
  <2>1. Candidates \subseteq Nat
    BY ListAssumption
  <2>2. m[1] \in Nat /\ m[2] \in Candidates /\ m = <<m[1], m[2]>>
    BY DEF Marks
  <2>. QED
    BY <2>1, <2>2
<1>. QED
  BY <1>1 DEF Before

LEMMA PositionMark ==
  ASSUME StoreHolds, NEW c \in Candidates, rows[c] # None
  PROVE  Position(c) \in Marks /\ rows[c] \in RowsOf
BY DEF StoreHolds, Position, Marks, RowsOf

LEMMA PositionOwn == ASSUME NEW c, NEW d, Position(c) = Position(d) PROVE c = d
BY DEF Position

\* An order of as many places as a set of numbers has members has each of them.
LEMMA Ranked ==
  ASSUME NEW S, IsFiniteSet(S), NEW f \in [1 .. Cardinality(S) -> S],
         \A m, n \in DOMAIN f : f[m] = f[n] => m = n
  PROVE  \A s \in S : \E n \in DOMAIN f : f[n] = s
<1> DEFINE k == Cardinality(S)
<1>1. k \in Nat
  BY FS_CardinalityType
<1>2. IsFiniteSet(1 .. k) /\ Cardinality(1 .. k) = k
  BY <1>1, FS_Interval
<1>3. f \in Injection(1 .. k, S)
  BY DEF Injection, IsInjective
<1>4. f \in Surjection(1 .. k, S)
  BY <1>2, <1>3, FS_Injection
<1>. QED
  BY <1>4 DEF Surjection

LEMMA SortedHas ==
  ASSUME StoreHolds, NEW set \in SUBSET Candidates, \A c \in set : rows[c] # None,
         NEW found \in Sorted(set)
  PROVE  /\ IsFiniteSet(set) /\ found \in [1 .. Cardinality(set) -> set]
         /\ Cardinality(set) \in Nat
         /\ \A c \in set : \E n \in DOMAIN found :
              found[n] = c /\ \A m \in DOMAIN found : found[m] = c => m = n
         /\ \A m, n \in DOMAIN found : m < n => Before(Position(found[m]), Position(found[n]))
<1>1. IsFiniteSet(set) /\ Cardinality(set) \in Nat
  BY ListAssumption, FS_Subset, FS_CardinalityType
<1>2. /\ found \in [1 .. Cardinality(set) -> set]
      /\ \A m, n \in DOMAIN found : m < n => Before(Position(found[m]), Position(found[n]))
  BY DEF Sorted
<1>3. \A m, n \in DOMAIN found : found[m] = found[n] => m = n
  <2> SUFFICES ASSUME NEW m \in DOMAIN found, NEW n \in DOMAIN found, found[m] = found[n], m # n
               PROVE  FALSE
    OBVIOUS
  <2>1. Position(found[m]) \in Marks
    BY <1>2, PositionMark
  <2>2. ~Before(Position(found[m]), Position(found[n])) /\ ~Before(Position(found[n]), Position(found[m]))
    BY <2>1, BeforeOrder
  <2>3. m \in Nat /\ n \in Nat
    BY <1>1, <1>2
  <2>. QED
    BY <1>2, <2>2, <2>3
<1>. QED
  BY <1>1, <1>2, <1>3, Ranked

\* A set of places has a last one.
LEMMA LastPlace ==
  ASSUME NEW k \in Nat, NEW T, T \subseteq 1 .. k, T # {}
  PROVE  \E n \in T : \A m \in T : m <= n
<1> DEFINE U == {k - n : n \in T}
<1>1. U \subseteq Nat /\ U # {}
  <2>1. PICK n \in T : TRUE
    OBVIOUS
  <2>2. k - n \in U
    BY <2>1
  <2>3. \A m \in T : k - m \in Nat
    OBVIOUS
  <2>. QED
    BY <2>2, <2>3
<1>2. PICK u \in U : \A v \in U : ~(<<v, u>> \in OpToRel(<, Nat))
  <2>. HIDE DEF U
  <2>. QED
    BY <1>1, WFMin, NatLessThanWellFounded
<1>3. PICK n \in T : u = k - n
  BY <1>2
<1>4. ASSUME NEW m \in T PROVE m <= n
  <2>1. k - m \in U /\ k - m \in Nat /\ k - n \in Nat
    OBVIOUS
  <2>2. ~(k - m < k - n)
    <3>1. <<k - m, k - n>> \notin OpToRel(<, Nat)
      BY <1>2, <1>3, <2>1
    <3>2. <<k - m, k - n>> \in Nat \X Nat
      BY <2>1
    <3>. QED
      BY <3>1, <3>2 DEF OpToRel
  <2>. QED
    BY <2>2
<1>. QED
  BY <1>4

\* And a first one.
LEMMA FirstPlace ==
  ASSUME NEW k \in Nat, NEW T, T \subseteq 1 .. k, T # {}
  PROVE  \E n \in T : \A m \in T : n <= m
<1> DEFINE U == {k + 1 - n : n \in T}
<1>1. U \subseteq 1 .. k /\ U # {}
  <2>1. PICK n \in T : TRUE
    OBVIOUS
  <2>2. k + 1 - n \in U
    BY <2>1
  <2>3. \A m \in T : k + 1 - m \in 1 .. k
    OBVIOUS
  <2>. QED
    BY <2>2, <2>3
<1>2. PICK u \in U : \A v \in U : v <= u
  <2>. HIDE DEF U
  <2>. QED
    BY <1>1, LastPlace
<1>3. PICK n \in T : u = k + 1 - n
  BY <1>2
<1>4. ASSUME NEW m \in T PROVE n <= m
  <2>1. k + 1 - m \in U
    OBVIOUS
  <2>. QED
    BY <1>2, <1>3, <2>1
<1>. QED
  BY <1>4

LEMMA LastOfHas ==
  ASSUME NEW list \in Seq(Entries), NEW m \in DOMAIN list
  PROVE  \E n \in DOMAIN list : LastOf(list, list[m][1]) = list[n] /\ list[n][1] = list[m][1]
<1> DEFINE places == {n \in DOMAIN list : list[n][1] = list[m][1]}
           Last(n) == n \in places /\ \A i \in places : i <= n
<1>1. \E n \in places : Last(n)
  <2>1. places \subseteq 1 .. Len(list) /\ m \in places /\ Len(list) \in Nat
    OBVIOUS
  <2>. QED
    BY <2>1, LastPlace
<1>2. (CHOOSE n \in places : \A i \in places : i <= n) \in places
  BY <1>1
<1>. QED
  BY <1>2 DEF LastOf

\* The first places of a list, in their order.
LEMMA FirstsHas ==
  ASSUME NEW list \in Seq(Entries)
  PROVE  /\ Firsts(list) \subseteq DOMAIN list /\ IsFiniteSet(Firsts(list))
         /\ Cardinality(Firsts(list)) \in Nat
         /\ \A m \in DOMAIN list : \E n \in Firsts(list) : list[n][1] = list[m][1]
         /\ \A m, n \in Firsts(list) : list[m][1] = list[n][1] => m = n
<1>1. DOMAIN list = 1 .. Len(list) /\ Len(list) \in Nat
  OBVIOUS
<1>2. Firsts(list) \subseteq DOMAIN list
  BY DEF Firsts
<1>3. IsFiniteSet(Firsts(list)) /\ Cardinality(Firsts(list)) \in Nat
  <2>1. IsFiniteSet(1 .. Len(list)) /\ Firsts(list) \in SUBSET (1 .. Len(list))
    BY <1>1, <1>2, FS_Interval
  <2>. QED
    BY <2>1, FS_Subset, FS_CardinalityType
<1>4. ASSUME NEW m \in DOMAIN list PROVE \E n \in Firsts(list) : list[n][1] = list[m][1]
  <2> DEFINE places == {n \in DOMAIN list : list[n][1] = list[m][1]}
  <2>1. PICK n \in places : \A i \in places : n <= i
    <3>1. places \subseteq 1 .. Len(list) /\ m \in places
      BY <1>1
    <3>. QED
      BY <1>1, <3>1, FirstPlace
  <2>2. ASSUME NEW i \in 1 .. n - 1 PROVE list[i][1] # list[n][1]
    <3>1. i \in DOMAIN list /\ ~(n <= i)
      BY <1>1
    <3>. QED
      BY <2>1, <3>1
  <2>. QED
    BY <2>1, <2>2 DEF Firsts
<1>5. ASSUME NEW m \in Firsts(list), NEW n \in Firsts(list), list[m][1] = list[n][1] PROVE m = n
  <2>1. m \in Nat /\ n \in Nat /\ m >= 1 /\ n >= 1
    BY <1>1, <1>2
  <2>2. /\ \A i \in 1 .. m - 1 : list[i][1] # list[m][1]
        /\ \A i \in 1 .. n - 1 : list[i][1] # list[n][1]
    BY DEF Firsts
  <2>3. ~(m < n)
    <3>1. m < n => m \in 1 .. n - 1
      BY <2>1
    <3>. QED
      BY <2>2, <3>1, <1>5
  <2>4. ~(n < m)
    <3>1. n < m => n \in 1 .. m - 1
      BY <2>1
    <3>. QED
      BY <2>2, <3>1, <1>5
  <2>. QED
    BY <2>1, <2>3, <2>4
<1>. QED
  BY <1>2, <1>3, <1>4, <1>5

\* A map has each item of a list once, as an entry of the list, where it first came.
LEMMA MappedHas ==
  ASSUME NEW list \in Seq(Entries), NEW items \in Mapped(list)
  PROVE  /\ items \in Seq(Entries)
         /\ \A n \in DOMAIN items : \E m \in DOMAIN list : items[n] = list[m]
         /\ \A i \in DOMAIN list : \E n \in DOMAIN items :
              items[n][1] = list[i][1] /\ \A m \in DOMAIN items : items[m][1] = list[i][1] => m = n
         /\ \A m, n \in DOMAIN items : m < n =>
              \E i, j \in DOMAIN list : i < j /\ list[i][1] = items[m][1] /\ list[j][1] = items[n][1]
<1> DEFINE S == Firsts(list)  k == Cardinality(Firsts(list))
<1>1. PICK place \in [1 .. k -> S] :
        /\ \A m, n \in DOMAIN place : m < n => place[m] < place[n]
        /\ items = [n \in DOMAIN place |-> LastOf(list, list[place[n]][1])]
  BY DEF Mapped
<1>2. /\ S \subseteq DOMAIN list /\ IsFiniteSet(S) /\ k \in Nat
      /\ \A m \in DOMAIN list : \E n \in S : list[n][1] = list[m][1]
      /\ \A m, n \in S : list[m][1] = list[n][1] => m = n
  BY FirstsHas
<1>. HIDE DEF S, k
<1>3. DOMAIN items = 1 .. k /\ DOMAIN place = 1 .. k
  BY <1>1
<1>4. ASSUME NEW n \in 1 .. k
      PROVE  /\ items[n][1] = list[place[n]][1] /\ place[n] \in S
             /\ \E m \in DOMAIN list : items[n] = list[m]
  <2>1. place[n] \in S /\ place[n] \in DOMAIN list /\ items[n] = LastOf(list, list[place[n]][1])
    BY <1>1, <1>2
  <2>2. PICK m \in DOMAIN list :
          LastOf(list, list[place[n]][1]) = list[m] /\ list[m][1] = list[place[n]][1]
    BY <2>1, LastOfHas
  <2>. QED
    BY <2>1, <2>2
<1>5. items \in Seq(Entries)
  <2>1. \A n \in 1 .. k : items[n] \in Entries
    BY <1>4
  <2>2. items = [n \in 1 .. k |-> items[n]]
    BY <1>1, <1>3
  <2>3. [n \in 1 .. k |-> items[n]] \in [1 .. k -> Entries]
    BY <2>1
  <2>. QED
    BY <1>2, <2>2, <2>3
<1>6. \A m, n \in 1 .. k : place[m] = place[n] => m = n
  <2>1. \A n \in 1 .. k : place[n] \in Nat
    BY <1>2, <1>4
  <2>2. \A m, n \in 1 .. k : m < n => place[m] < place[n]
    BY <1>1, <1>3
  <2>. QED
    BY <1>2, <2>1, <2>2
<1>7. \A s \in S : \E n \in 1 .. k : place[n] = s
  <2>1. k = Cardinality(S)
    BY DEF S, k
  <2>2. place \in [1 .. Cardinality(S) -> S]
    BY <1>1, <2>1
  <2>. QED
    BY <1>2, <1>3, <1>6, <2>2, Ranked
<1>8. ASSUME NEW i \in DOMAIN list
      PROVE  \E n \in 1 .. k : /\ items[n][1] = list[i][1]
                               /\ \A m \in 1 .. k : items[m][1] = list[i][1] => m = n
  <2>1. PICK s \in S : list[s][1] = list[i][1]
    BY <1>2
  <2>2. PICK n \in 1 .. k : place[n] = s
    BY <1>7
  <2>3. items[n][1] = list[i][1]
    BY <1>4, <2>1, <2>2
  <2>4. ASSUME NEW m \in 1 .. k, items[m][1] = list[i][1] PROVE m = n
    <3>1. place[m] = place[n]
      BY <1>2, <1>4, <2>1, <2>2, <2>4
    <3>. QED
      BY <1>6, <3>1
  <2>. QED
    BY <2>3, <2>4
<1>9. ASSUME NEW m \in 1 .. k, NEW n \in 1 .. k, m < n
      PROVE  \E i, j \in DOMAIN list : i < j /\ list[i][1] = items[m][1] /\ list[j][1] = items[n][1]
  <2>1. /\ place[m] \in DOMAIN list /\ place[n] \in DOMAIN list /\ place[m] < place[n]
        /\ list[place[m]][1] = items[m][1] /\ list[place[n]][1] = items[n][1]
    BY <1>1, <1>2, <1>3, <1>4, <1>9
  <2>. QED
    BY <2>1
<1>. QED
  <2>1. \A n \in DOMAIN items : \E m \in DOMAIN list : items[n] = list[m]
    BY <1>3, <1>4
  <2>2. \A i \in DOMAIN list : \E n \in DOMAIN items :
          items[n][1] = list[i][1] /\ \A m \in DOMAIN items : items[m][1] = list[i][1] => m = n
    <3> SUFFICES ASSUME NEW i \in DOMAIN list
                 PROVE  \E n \in DOMAIN items : /\ items[n][1] = list[i][1]
                          /\ \A m \in DOMAIN items : items[m][1] = list[i][1] => m = n
      OBVIOUS
    <3>1. PICK n \in 1 .. k : /\ items[n][1] = list[i][1]
                              /\ \A m \in 1 .. k : items[m][1] = list[i][1] => m = n
      BY <1>8
    <3>. QED
      BY <1>3, <3>1
  <2>3. \A m, n \in DOMAIN items : m < n =>
          \E i, j \in DOMAIN list : i < j /\ list[i][1] = items[m][1] /\ list[j][1] = items[n][1]
    BY <1>3, <1>9
  <2>. QED
    BY <1>5, <2>1, <2>2, <2>3

\* What a list has of the rows that stay, its map has.
LEMMA CoversMapped ==
  ASSUME NEW list \in Seq(Entries), NEW items \in Mapped(list), NEW steady, NEW read,
         Covers(list, steady, read)
  PROVE  Covers(items, steady, read)
<1>1. ASSUME NEW c \in read
      PROVE  \E n \in DOMAIN items :
               items[n] = <<c, rows[c]>> /\ \A m \in DOMAIN items : items[m][1] = c => m = n
  <2>1. PICK i \in DOMAIN list :
          list[i] = <<c, rows[c]>> /\ \A m \in DOMAIN list : list[m][1] = c => m = i
    BY DEF Covers
  <2>2. list[i][1] = c
    BY <2>1
  <2>3. PICK n \in DOMAIN items :
          items[n][1] = c /\ \A m \in DOMAIN items : items[m][1] = c => m = n
    <3>1. \E n \in DOMAIN items :
            items[n][1] = list[i][1] /\ \A m \in DOMAIN items : items[m][1] = list[i][1] => m = n
      BY MappedHas
    <3>. QED
      BY <2>2, <3>1
  <2>4. PICK j \in DOMAIN list : items[n] = list[j]
    BY MappedHas
  <2>. QED
    BY <2>1, <2>3, <2>4
<1>2. \A c \in steady \ read : \A n \in DOMAIN items : items[n][1] # c
  <2>1. \A n \in DOMAIN items : \E m \in DOMAIN list : items[n] = list[m]
    BY MappedHas
  <2>. QED
    BY <2>1 DEF Covers
<1>3. \A m, n \in DOMAIN items :
        m < n /\ {items[m][1], items[n][1]} \subseteq steady =>
          Before(Position(items[m][1]), Position(items[n][1]))
  <2>1. \A m, n \in DOMAIN items : m < n =>
          \E i, j \in DOMAIN list : i < j /\ list[i][1] = items[m][1] /\ list[j][1] = items[n][1]
    BY MappedHas
  <2>. QED
    BY <2>1 DEF Covers
<1>. QED
  BY <1>1, <1>2, <1>3 DEF Covers

\* A list and one that goes on with later rows.
LEMMA CoversJoined ==
  ASSUME NEW one \in Seq(Entries), NEW two \in Seq(Entries), NEW steady,
         NEW r \in SUBSET steady, NEW s \in SUBSET steady,
         Covers(one, steady, r), Covers(two, steady, s), r \cap s = {},
         \A c \in r, d \in s : Before(Position(c), Position(d))
  PROVE  Covers(one \o two, steady, r \cup s)
<1> DEFINE both == one \o two  k == Len(one)
<1>1. /\ both \in Seq(Entries) /\ Len(both) = k + Len(two) /\ k \in Nat /\ Len(two) \in Nat
      /\ DOMAIN one = 1 .. k /\ DOMAIN two = 1 .. Len(two) /\ DOMAIN both = 1 .. k + Len(two)
      /\ \A n \in 1 .. k : both[n] = one[n] /\ n \in DOMAIN both
      /\ \A n \in 1 .. Len(two) : both[k + n] = two[n] /\ k + n \in DOMAIN both
  OBVIOUS
<1>2. ASSUME NEW n \in DOMAIN both
      PROVE  \/ n \in 1 .. k /\ both[n] = one[n]
             \/ n - k \in 1 .. Len(two) /\ both[n] = two[n - k] /\ n = k + (n - k)
  BY <1>1
<1>. HIDE DEF both, k
<1>3. /\ \A n \in DOMAIN one : one[n][1] \in steady => one[n][1] \in r
      /\ \A n \in DOMAIN two : two[n][1] \in steady => two[n][1] \in s
  BY DEF Covers
<1>4. ASSUME NEW c \in r \cup s
      PROVE  \E n \in DOMAIN both :
               both[n] = <<c, rows[c]>> /\ \A m \in DOMAIN both : both[m][1] = c => m = n
  <2>1. CASE c \in r
    <3>1. PICK n \in DOMAIN one :
            one[n] = <<c, rows[c]>> /\ \A m \in DOMAIN one : one[m][1] = c => m = n
      BY <2>1 DEF Covers
    <3>2. \A m \in DOMAIN two : two[m][1] # c
      BY <1>3, <2>1
    <3>3. n \in DOMAIN both /\ both[n] = <<c, rows[c]>>
      BY <1>1, <3>1
    <3>4. ASSUME NEW m \in DOMAIN both, both[m][1] = c PROVE m = n
      BY <1>1, <1>2, <3>1, <3>2, <3>4
    <3>. QED
      BY <3>3, <3>4
  <2>2. CASE c \in s
    <3>1. PICK n \in DOMAIN two :
            two[n] = <<c, rows[c]>> /\ \A m \in DOMAIN two : two[m][1] = c => m = n
      BY <2>2 DEF Covers
    <3>2. \A m \in DOMAIN one : one[m][1] # c
      BY <1>3, <2>2
    <3>3. k + n \in DOMAIN both /\ both[k + n] = <<c, rows[c]>>
      BY <1>1, <3>1
    <3>4. ASSUME NEW m \in DOMAIN both, both[m][1] = c PROVE m = k + n
      BY <1>1, <1>2, <3>1, <3>2, <3>4
    <3>. QED
      BY <3>3, <3>4
  <2>. QED
    BY <2>1, <2>2
<1>5. \A c \in steady \ (r \cup s) : \A n \in DOMAIN both : both[n][1] # c
  BY <1>1, <1>2, <1>3
<1>6. ASSUME NEW m \in DOMAIN both, NEW n \in DOMAIN both, m < n,
             {both[m][1], both[n][1]} \subseteq steady
      PROVE  Before(Position(both[m][1]), Position(both[n][1]))
  <2>1. CASE n \in 1 .. k /\ both[n] = one[n]
    <3>1. m \in 1 .. k /\ both[m] = one[m]
      BY <1>1, <1>6, <2>1
    <3>. QED
      BY <1>1, <1>6, <2>1, <3>1 DEF Covers
  <2>2. CASE n - k \in 1 .. Len(two) /\ both[n] = two[n - k] /\ n = k + (n - k)
    <3>1. CASE m \in 1 .. k /\ both[m] = one[m]
      <4>1. both[m][1] \in r /\ both[n][1] \in s
        BY <1>1, <1>3, <1>6, <2>2, <3>1
      <4>. QED
        BY <4>1
    <3>2. CASE m - k \in 1 .. Len(two) /\ both[m] = two[m - k] /\ m = k + (m - k)
      <4>1. m - k < n - k
        BY <1>1, <1>6, <2>2, <3>2
      <4>. QED
        BY <1>1, <1>6, <2>2, <3>2, <4>1 DEF Covers
    <3>. QED
      BY <1>2, <3>1, <3>2
  <2>. QED
    BY <1>2, <2>1, <2>2
<1>. QED
  BY <1>4, <1>5, <1>6 DEF Covers, both

\* The rows of a page of the store, in their order.
LEMMA CoversFound ==
  ASSUME StoreHolds, NEW set \in SUBSET Candidates, \A c \in set : rows[c] # None,
         NEW found \in Sorted(set), NEW list,
         list = [n \in DOMAIN found |-> <<found[n], rows[found[n]]>>], NEW steady
  PROVE  /\ list \in Seq(Entries) /\ Covers(list, steady, set \cap steady)
         /\ \A n \in DOMAIN list : list[n][1] \in set /\ list[n][2] = rows[list[n][1]]
<1> DEFINE k == Cardinality(set)
<1>1. /\ found \in [1 .. k -> set] /\ k \in Nat
      /\ \A c \in set : \E n \in DOMAIN found :
           found[n] = c /\ \A m \in DOMAIN found : found[m] = c => m = n
      /\ \A m, n \in DOMAIN found : m < n => Before(Position(found[m]), Position(found[n]))
  BY SortedHas
<1>. HIDE DEF k
<1>2. /\ DOMAIN list = 1 .. k /\ DOMAIN found = 1 .. k
      /\ \A n \in 1 .. k : list[n] = <<found[n], rows[found[n]]>> /\ list[n][1] = found[n]
                           /\ list[n][2] = rows[found[n]] /\ found[n] \in set
  BY <1>1
<1>3. list \in Seq(Entries)
  <2>1. \A n \in 1 .. k : <<found[n], rows[found[n]]>> \in Entries
    BY <1>2, PositionMark DEF Entries
  <2>2. list \in [1 .. k -> Entries]
    BY <1>2, <2>1
  <2>. QED
    BY <1>1, <2>2
<1>4. Covers(list, steady, set \cap steady)
  BY <1>1, <1>2 DEF Covers
<1>. QED
  BY <1>2, <1>3, <1>4
-----------------------------------------------------------------------------
(* The lists: what their steps keep.                                        *)

LEMMA MatchesLater ==
  ASSUME NEW q, NEW c, NEW row \in RowsOf, NEW cutoff, NEW time,
         Timed(q) => cutoff \in Nat /\ time \in Nat /\ cutoff <= time,
         Matches(q, c, row, cutoff)
  PROVE  Matches(q, c, row, time)
<1>1. row.at \in Nat
  BY DEF RowsOf
<1>2. CASE q.page = "reviews"
  <2>1. ReviewRow(q, c, row, cutoff)
    BY <1>2 DEF Matches
  <2>2. ReviewRow(q, c, row, time)
    BY <1>1, <1>2, <2>1 DEF ReviewRow, Timed
  <2>. QED
    BY <1>2, <2>2 DEF Matches
<1>3. CASE q.page # "reviews"
  BY <1>3 DEF Matches
<1>. QED
  BY <1>2, <1>3

\* The cursor of a request names a place in the order.
LEMMA ResumedMark ==
  ASSUME ListHolds, NEW ask, AskHolds(ask), Asked(ask)
  PROVE  Resumed(ask) \in Marks \cup {None}
<1>1. ask.cursor # None => ask.cursor \in Cursors
  BY DEF ListHolds, ScreenHolds, CursorHolds, AskHolds
<1>. QED
  BY <1>1 DEF Resumed, Cursors

\* One request goes on; the rows and the screen are as they were.
LEMMA OneCallHolds ==
  ASSUME ListHolds, UNCHANGED <<store, screen>>, NEW slot \in DOMAIN calls, NEW ask,
         calls' = [calls EXCEPT ![slot] = ask] \/ (UNCHANGED calls /\ ask = calls[slot]), DOMAIN ask = AskFields,
         slot # "late" => AskHolds(ask) /\ (screen.bookmark = None => AskCovers(ask)),
         slot = "load" => (screen.loading <=> ask.pc # "none"),
         slot = "poll" => (screen.loading => ask.pc = "none") /\ (Asked(ask) => ~ask.append)
  PROVE  ListHolds'
<1>1. /\ DOMAIN calls = {"load", "late", "poll"} /\ DOMAIN calls' = DOMAIN calls
      /\ \A s \in DOMAIN calls : calls'[s] = IF s = slot THEN ask ELSE calls[s]
  BY DEF ListHolds, CallsAsk
<1>2. clock' = clock /\ rows' = rows /\ edits' = edits /\ screen' = screen
  BY DEF store
<1>3. StoreHolds' /\ ScreenHolds'
  <2>1. StoreHolds'
    BY <1>2 DEF ListHolds, StoreHolds
  <2>2. ScreenHolds'
    BY <1>2 DEF ListHolds, ScreenHolds, CursorHolds, CutoffHolds
  <2>. QED
    BY <2>1, <2>2
<1>4. ASSUME NEW s \in {"load", "poll"}
      PROVE  AskHolds(calls[s])' /\ (screen'.bookmark = None => AskCovers(calls[s])')
  <2>1. PICK a : a = calls'[s] /\ AskHolds(a) /\ (screen.bookmark = None => AskCovers(a))
    BY <1>1 DEF ListHolds, CallsAsk, CoversHold
  <2>2. AskHolds(calls[s])'
    BY <1>2, <2>1 DEF AskHolds, CutoffHolds
  <2>3. screen'.bookmark = None => AskCovers(calls[s])'
    BY <1>2, <2>1 DEF AskCovers, Covers, Due, ReadOf, SteadyOf, Past, Position
  <2>. QED
    BY <2>2, <2>3
<1>5. CallsAsk'
  <2>1. \A s \in DOMAIN calls' : DOMAIN (calls'[s]) = AskFields
    BY <1>1 DEF ListHolds, CallsAsk
  <2>2. /\ screen'.loading <=> calls'.load.pc # "none"
        /\ screen'.loading => calls'.poll.pc = "none"
        /\ Asked(calls'.poll) => ~calls'.poll.append
    BY <1>1, <1>2 DEF ListHolds, CallsAsk
  <2>. QED
    BY <1>1, <1>4, <2>1, <2>2 DEF CallsAsk
<1>6. CoversHold'
  <2>1. ScreenCovers => ScreenCovers'
    BY <1>2 DEF ScreenCovers, Covers, Due, Past, Position
  <2>. QED
    BY <1>2, <1>4, <2>1 DEF CoversHold, ListHolds
<1>. QED
  BY <1>3, <1>5, <1>6 DEF ListHolds

LEMMA RefusalHolds ==
  ASSUME ListHolds, UNCHANGED <<store, screen>>, NEW slot \in DOMAIN calls,
         calls' = [calls EXCEPT ![slot] = Failure], calls[slot].pc # "none"
  PROVE  ListHolds'
<1>1. /\ Failure.pc = "failed" /\ DOMAIN Failure = AskFields /\ ~Asked(Failure) /\ ~Served(Failure)
  BY DEF Failure, NoCall, AskFields, Asked, Served
<1>2. AskHolds(Failure) /\ AskCovers(Failure)
  BY <1>1 DEF AskHolds, AskCovers
<1>3. (slot = "load" => screen.loading) /\ (slot = "poll" => ~screen.loading)
  BY DEF ListHolds, CallsAsk
<1>. QED
  BY <1>1, <1>2, <1>3, OneCallHolds

LEMMA FailHolds == ASSUME ListHolds, NEW slot \in DOMAIN calls, Fail(slot) PROVE ListHolds'
BY RefusalHolds DEF Fail

\* The first page of a listing that was not continued.
LEMMA WatchHolds == ASSUME ListHolds, Watch PROVE ListHolds'
<1> DEFINE ask == [NoCall EXCEPT !.pc = "sent", !.query = screen.query, !.who = screen.who,
                                 !.cursor = screen.bookmark]
<1>1. /\ DOMAIN ask = AskFields /\ ask.pc = "sent" /\ ask.query = screen.query
      /\ ask.who = screen.who /\ ~ask.append /\ ask.cursor = screen.bookmark
      /\ ask.items = <<>>
  BY DEF NoCall, AskFields
<1>. HIDE DEF ask
<1>2. AskHolds(ask) /\ AskCovers(ask)
  BY <1>1 DEF AskHolds, AskCovers, Asked, Served
<1>3. "poll" \in DOMAIN calls
  BY DEF ListHolds, CallsAsk
<1>4. ~screen.loading /\ UNCHANGED <<store, screen>> /\ calls' = [calls EXCEPT !["poll"] = ask]
  BY DEF Watch, ask
<1>. QED
  BY <1>1, <1>2, <1>3, <1>4, OneCallHolds

LEMMA AcceptHolds == ASSUME ListHolds, NEW slot \in DOMAIN calls, Accept(slot) PROVE ListHolds'
<1> DEFINE ask == calls[slot]
           q == ask.query
           cutoff == IF ask.cursor # None THEN ask.cursor.cutoff ELSE IF Timed(q) THEN clock ELSE None
           foreign == ask.cursor # None /\ ask.cursor.scope # Scope(q, ask.who, cutoff)
           due == {c \in Candidates : /\ rows[c] # None /\ InRange(q, rows[c])
                                      /\ Matches(q, c, rows[c], cutoff)}
           new == [ask EXCEPT !.pc = "paging", !.cutoff = cutoff, !.inner = Resumed(ask), !.steady = due]
<1>1. /\ ask.pc = "sent" /\ UNCHANGED <<store, screen>>
      /\ calls' = [calls EXCEPT ![slot] = IF foreign \/ ~MayRead(q, ask.who) THEN Failure ELSE new]
  BY DEF Accept
<1>2. CASE foreign \/ ~MayRead(q, ask.who)
  BY <1>1, <1>2, RefusalHolds
<1>3. CASE ~foreign /\ MayRead(q, ask.who)
  <2>1. DOMAIN ask = AskFields /\ slot \in {"load", "late", "poll"}
    BY DEF ListHolds, CallsAsk
  <2>2. /\ DOMAIN new = AskFields /\ new.pc = "paging" /\ new.cutoff = cutoff
        /\ new.inner = Resumed(ask) /\ new.steady = due /\ new.query = q /\ new.who = ask.who
        /\ new.append = ask.append /\ new.cursor = ask.cursor /\ new.items = ask.items
    BY <2>1 DEF AskFields, NoCall
  <2>3. ~(ask.pc = "none") /\ (slot = "load" => screen.loading) /\ (slot = "poll" => ~screen.loading)
        /\ (slot = "poll" => ~ask.append)
    BY <1>1 DEF ListHolds, CallsAsk, Asked
  <2>4. ASSUME slot # "late"
        PROVE  AskHolds(new) /\ (screen.bookmark = None => AskCovers(new))
    <3>1. AskHolds(ask) /\ Asked(ask) /\ clock \in Nat
      BY <1>1, <2>1, <2>4 DEF ListHolds, CallsAsk, Asked, StoreHolds
    <3>2. Resumed(ask) \in Marks \cup {None} /\ ask.items = <<>>
      BY <1>1, <3>1, ResumedMark DEF AskHolds
    <3>3. CutoffHolds(q, cutoff) /\ cutoff \in Cutoffs
      <4>1. CASE ask.cursor = None
        BY <3>1, <4>1 DEF CutoffHolds, Cutoffs
      <4>2. CASE ask.cursor # None
        <5>1. ask.cursor \in Cursors /\ CutoffHolds(ask.cursor.scope[1], ask.cursor.cutoff)
          BY <3>1, <4>2 DEF ListHolds, ScreenHolds, CursorHolds, AskHolds
        <5>2. ask.cursor.scope[1] = q
          BY <1>3, <4>2 DEF Scope, ActivityScope
        <5>. QED
          BY <4>2, <5>1, <5>2 DEF Cursors
      <4>. QED
        BY <4>1, <4>2
    <3>4. AskHolds(new)
      <4>1. <<>> \in Seq(Entries) /\ DOMAIN <<>> = {} /\ due \subseteq Candidates
        OBVIOUS
      <4>2. ask.cursor # None => cutoff = ask.cursor.cutoff
        OBVIOUS
      <4>. HIDE DEF new, cutoff, due
      <4>. QED
        BY <1>3, <2>2, <3>1, <3>2, <3>3, <4>1, <4>2 DEF AskHolds, Asked, Served
    <3>5. ASSUME screen.bookmark = None PROVE AskCovers(new)
      <4>1. Due(q, due, cutoff)
        BY DEF Due
      <4>2. ask.append => Due(q, screen.steady, cutoff)
        BY <3>1, <3>5 DEF ListHolds, CoversHold, ScreenCovers, ScreenHolds, AskHolds
      <4>. HIDE DEF new, cutoff, due
      <4>3. Due(new.query, SteadyOf(new), new.cutoff)
        BY <2>2, <4>1, <4>2 DEF SteadyOf
      <4>4. ReadOf(new, SteadyOf(new)) = {} /\ Resumed(new) = new.inner
        BY <2>2 DEF ReadOf, Resumed
      <4>5. Covers(<<>>, SteadyOf(new), {})
        BY DEF Covers
      <4>. QED
        BY <2>2, <3>2, <4>3, <4>4, <4>5 DEF AskCovers
    <3>. QED
      BY <3>4, <3>5
  <2>. HIDE DEF new
  <2>5. calls' = [calls EXCEPT ![slot] = new]
    BY <1>1, <1>3
  <2>. QED
    BY <1>1, <2>2, <2>3, <2>4, <2>5, OneCallHolds
<1>. QED
  BY <1>2, <1>3

\* A page of the store is the rows from a key on to where it is continued, or to the end.
LEMMA PageReads ==
  ASSUME StoreHolds, NEW q, NEW after \in Marks \cup {None}, NEW most,
         NEW head \in Heads(Behind(q, after), most), NEW inner \in Continued(head, Behind(q, after))
  PROVE  /\ head \subseteq Behind(q, after) /\ inner \in Marks \cup {None}
         /\ \A c \in Candidates : rows[c] # None /\ InRange(q, rows[c]) =>
              /\ c \in head <=> ~Past(after, c) /\ (inner = None \/ Past(inner, c))
              /\ Past(after, c) => inner = None \/ Past(inner, c)
<1> DEFINE behind == Behind(q, after)
<1>1. /\ head \subseteq behind
      /\ \A x \in head, y \in behind \ head : Before(Position(x), Position(y))
  BY DEF Heads
<1>2. \/ inner = None /\ head = behind
      \/ \E x \in head : inner = Position(x) /\ \A y \in head : ~Before(Position(x), Position(y))
  BY DEF Continued
<1>3. None \notin Marks
  BY ListAssumption
<1>4. \A c \in Candidates : rows[c] # None => Position(c) \in Marks
  BY PositionMark
<1>5. \A c \in behind : c \in Candidates /\ rows[c] # None
  BY DEF Behind
<1>6. ASSUME NEW c \in Candidates, rows[c] # None, InRange(q, rows[c])
      PROVE  c \in behind <=> ~Past(after, c)
  BY <1>6 DEF Behind, Past
<1>. HIDE DEF behind
<1>7. CASE inner = None /\ head = behind
  BY <1>1, <1>6, <1>7 DEF behind
<1>8. CASE \E x \in head : inner = Position(x) /\ \A y \in head : ~Before(Position(x), Position(y))
  <2>1. PICK x \in head : inner = Position(x) /\ \A y \in head : ~Before(Position(x), Position(y))
    BY <1>8
  <2>2. x \in behind /\ inner \in Marks /\ inner # None
    BY <1>1, <1>3, <1>4, <1>5, <2>1
  <2>3. after # None => after \in Marks /\ Before(after, inner)
    BY <2>1, <2>2 DEF behind, Behind
  <2>4. ASSUME NEW c \in Candidates, rows[c] # None, InRange(q, rows[c])
        PROVE  /\ c \in head <=> ~Past(after, c) /\ (inner = None \/ Past(inner, c))
               /\ Past(after, c) => inner = None \/ Past(inner, c)
    <3>1. Position(c) \in Marks /\ (c \in behind <=> ~Past(after, c))
      BY <1>4, <1>6, <2>4
    <3>2. c \in head => c \in behind /\ Past(inner, c)
      BY <1>1, <2>1, <2>2 DEF Past
    <3>3. c \in behind /\ Past(inner, c) => c \in head
      BY <1>1, <2>1 DEF Past
    <3>4. Past(after, c) => Past(inner, c)
      <4> SUFFICES ASSUME after # None, ~Before(after, Position(c)), Before(inner, Position(c))
                   PROVE  FALSE
        BY <2>2 DEF Past
      <4>. QED
        BY <2>2, <2>3, <3>1, BeforeOrder
    <3>. QED
      BY <2>2, <3>1, <3>2, <3>3, <3>4
  <2>. QED
    BY <1>1, <2>2, <2>4 DEF behind
<1>. QED
  BY <1>2, <1>7, <1>8

LEMMA PageOfStoreHolds == ASSUME ListHolds, NEW slot \in DOMAIN calls, Page(slot) PROVE ListHolds'
<1> DEFINE ask == calls[slot]
           q == ask.query
           left == Budget - ask.evaluated
           wanting == q.limit - Len(ask.items)
           most == IF wanting < left THEN wanting ELSE left
           behind == Behind(q, ask.inner)
           due(head) == {c \in head : Matches(q, c, rows[c], ask.cutoff)}
           shown(found) == [n \in DOMAIN found |-> <<found[n], rows[found[n]]>>]
           read(found, inner) ==
             [ask EXCEPT !.items = ask.items \o shown(found), !.inner = inner, !.evaluated = @ + most]
           next(found, inner) ==
             IF inner # None /\ read(found, inner).evaluated < Budget
                /\ Len(ask.items \o shown(found)) < q.limit
             THEN read(found, inner)
             ELSE [read(found, inner) EXCEPT !.pc = "answered", !.inner = Goes(read(found, inner), inner)]
<1>1. /\ ask.pc = "paging" /\ UNCHANGED <<store, screen>>
      /\ \E head \in Heads(behind, most) : \E inner \in Continued(head, behind) :
           \E found \in Sorted(due(head)) :
             calls' = [calls EXCEPT ![slot] = next(found, inner)]
  BY DEF Page
<1>2. ask = calls[slot]
  OBVIOUS
<1>. HIDE DEF ask
<1>3. PICK head \in Heads(behind, most) : \E inner \in Continued(head, behind) :
        \E found \in Sorted(due(head)) : calls' = [calls EXCEPT ![slot] = next(found, inner)]
  BY <1>1
<1>4. PICK inner \in Continued(head, behind) :
        \E found \in Sorted(due(head)) : calls' = [calls EXCEPT ![slot] = next(found, inner)]
  BY <1>3
<1>5. PICK found \in Sorted(due(head)) : calls' = [calls EXCEPT ![slot] = next(found, inner)]
  BY <1>4
<1>6. PICK new, list : new = next(found, inner) /\ list = shown(found)
  OBVIOUS
<1>7. DOMAIN ask = AskFields /\ slot \in {"load", "late", "poll"}
  BY <1>2 DEF ListHolds, CallsAsk
<1>8. /\ DOMAIN new = AskFields /\ new.query = q /\ new.who = ask.who /\ new.append = ask.append
      /\ new.cursor = ask.cursor /\ new.cutoff = ask.cutoff /\ new.steady = ask.steady
      /\ new.items = ask.items \o list /\ new.inner = inner
      /\ new.pc \in {"paging", "answered"} /\ (inner = None => new.pc = "answered")
  <2>1. /\ DOMAIN read(found, inner) = AskFields /\ read(found, inner).query = q
        /\ read(found, inner).who = ask.who /\ read(found, inner).append = ask.append
        /\ read(found, inner).cursor = ask.cursor /\ read(found, inner).cutoff = ask.cutoff
        /\ read(found, inner).steady = ask.steady /\ read(found, inner).items = ask.items \o list
        /\ read(found, inner).inner = inner /\ read(found, inner).pc = "paging"
    BY <1>1, <1>6, <1>7 DEF AskFields, NoCall
  <2>. HIDE DEF read
  <2>. QED
    BY <1>6, <2>1 DEF AskFields, NoCall, Goes
<1>9. /\ (slot = "load" => screen.loading) /\ (slot = "poll" => ~screen.loading)
      /\ (slot = "poll" => ~ask.append)
  BY <1>2, <1>1 DEF ListHolds, CallsAsk, Asked
<1>10. calls' = [calls EXCEPT ![slot] = new]
  BY <1>5, <1>6
<1>. HIDE DEF next, read, shown
<1>11. ASSUME slot # "late"
       PROVE  AskHolds(new) /\ (screen.bookmark = None => AskCovers(new))
  <2>1. AskHolds(ask) /\ Served(ask) /\ Asked(ask) /\ StoreHolds
    BY <1>2, <1>1, <1>7, <1>11 DEF ListHolds, CallsAsk, Served, Asked
  <2>2. ask.inner \in Marks \cup {None} /\ ask.items \in Seq(Entries)
    BY <2>1 DEF AskHolds
  <2>3. /\ head \subseteq behind /\ inner \in Marks \cup {None}
        /\ \A c \in Candidates : rows[c] # None /\ InRange(q, rows[c]) =>
             /\ c \in head <=> ~Past(ask.inner, c) /\ (inner = None \/ Past(inner, c))
             /\ Past(ask.inner, c) => inner = None \/ Past(inner, c)
    BY <2>1, <2>2, PageReads
  <2>4. \A c \in head : c \in Candidates /\ rows[c] # None /\ InRange(q, rows[c])
    BY <2>3 DEF Behind
  <2>5. due(head) \in SUBSET Candidates /\ \A c \in due(head) : rows[c] # None
    BY <2>4
  <2>6. list = [n \in DOMAIN found |-> <<found[n], rows[found[n]]>>]
    BY <1>6 DEF shown
  <2>7. PICK set : set = due(head)
    OBVIOUS
  <2>8. /\ list \in Seq(Entries) /\ \A steady : Covers(list, steady, set \cap steady)
        /\ \A n \in DOMAIN list : list[n][1] \in set /\ list[n][2] = rows[list[n][1]]
    <3>1. found \in Sorted(set) /\ set \in SUBSET Candidates /\ \A c \in set : rows[c] # None
      BY <2>5, <2>7
    <3>2. ASSUME NEW steady
          PROVE  /\ list \in Seq(Entries) /\ Covers(list, steady, set \cap steady)
                 /\ \A n \in DOMAIN list : list[n][1] \in set /\ list[n][2] = rows[list[n][1]]
      BY <2>1, <2>6, <3>1, CoversFound
    <3>. QED
      BY <3>2
  <2>. HIDE DEF due, behind, most
  <2>9. AskHolds(new)
    <3>1. new.items \in Seq(Entries)
      BY <1>8, <2>2, <2>8
    <3>2. ASSUME NEW n \in DOMAIN new.items
          PROVE  /\ InRange(q, new.items[n][2])
                 /\ Matches(q, new.items[n][1], new.items[n][2], ask.cutoff)
      <4>1. \/ n \in DOMAIN ask.items /\ new.items[n] = ask.items[n]
            \/ \E m \in DOMAIN list : new.items[n] = list[m]
        <5>1. /\ Len(new.items) = Len(ask.items) + Len(list) /\ n \in 1 .. Len(new.items)
              /\ DOMAIN ask.items = 1 .. Len(ask.items) /\ DOMAIN list = 1 .. Len(list)
              /\ new.items[n] = IF n <= Len(ask.items) THEN ask.items[n]
                                ELSE list[n - Len(ask.items)]
          BY <1>8, <2>2, <2>8, <3>2
        <5>2. Len(ask.items) \in Nat /\ Len(list) \in Nat
          BY <2>2, <2>8
        <5>3. n > Len(ask.items) => n - Len(ask.items) \in DOMAIN list
          BY <5>1, <5>2
        <5>. QED
          BY <5>1, <5>2, <5>3
      <4>2. CASE n \in DOMAIN ask.items /\ new.items[n] = ask.items[n]
        BY <2>1, <4>2 DEF AskHolds
      <4>3. CASE \E m \in DOMAIN list : new.items[n] = list[m]
        <5>1. PICK m \in DOMAIN list : new.items[n] = list[m]
          BY <4>3
        <5>2. list[m][1] \in set /\ list[m][2] = rows[list[m][1]]
          BY <2>8
        <5>3. \A c \in set : InRange(q, rows[c]) /\ Matches(q, c, rows[c], ask.cutoff)
          BY <2>4, <2>7 DEF due
        <5>. QED
          BY <5>1, <5>2, <5>3
      <4>. QED
        BY <4>1, <4>2, <4>3
    <3>. QED
      BY <1>8, <2>1, <2>3, <3>1, <3>2 DEF AskHolds, Served, Asked
  <2>10. ASSUME screen.bookmark = None PROVE AskCovers(new)
    <3>1. PICK steady : steady = SteadyOf(ask) /\ steady = SteadyOf(new)
      BY <1>8 DEF SteadyOf
    <3>2. /\ Due(q, steady, ask.cutoff) /\ steady \subseteq Candidates
          /\ Covers(ask.items, steady, ReadOf(ask, steady))
          /\ \A c \in steady : Past(Resumed(ask), c) => Past(ask.inner, c)
      BY <1>2, <1>1, <1>7, <1>11, <2>1, <2>10, <3>1
         DEF ListHolds, CoversHold, AskCovers, ScreenHolds, AskHolds, SteadyOf
    <3>3. PICK r, s : r = ReadOf(ask, steady) /\ s = set \cap steady
      OBVIOUS
    <3>4. Resumed(new) = Resumed(ask)
      BY <1>8 DEF Resumed
    <3>5. ASSUME NEW c \in steady
          PROVE  /\ rows[c] # None /\ c \in Candidates
                 /\ c \in r <=> ~Past(Resumed(ask), c) /\ Past(ask.inner, c)
                 /\ c \in s <=> ~Past(ask.inner, c) /\ (inner = None \/ Past(inner, c))
                 /\ Past(ask.inner, c) => inner = None \/ Past(inner, c)
      <4>1. rows[c] # None /\ InRange(q, rows[c]) /\ Matches(q, c, rows[c], ask.cutoff)
            /\ c \in Candidates
        BY <3>2 DEF Due
      <4>2. c \in s <=> c \in head
        BY <2>7, <3>3, <4>1 DEF due
      <4>3. c \in r <=> ~Past(Resumed(ask), c) /\ Past(ask.inner, c)
        BY <1>1, <3>3 DEF ReadOf
      <4>. QED
        BY <2>3, <4>1, <4>2, <4>3
    <3>6. r \cup s = ReadOf(new, steady) /\ r \cap s = {} /\ r \subseteq steady /\ s \subseteq steady
      <4>1. r \subseteq steady /\ s \subseteq steady
        BY <3>3 DEF ReadOf
      <4>2. \A c \in steady : c \in ReadOf(new, steady) <=>
              ~Past(Resumed(ask), c) /\ (inner = None \/ Past(inner, c))
        <5>1. Past(None, 0) = FALSE /\ \A c : ~Past(None, c)
          BY DEF Past
        <5>. QED
          BY <1>8, <3>4, <5>1 DEF ReadOf
      <4>3. ReadOf(new, steady) \subseteq steady
        BY DEF ReadOf
      <4>. QED
        BY <3>2, <3>5, <4>1, <4>2, <4>3
    <3>7. ASSUME NEW c \in r, NEW d \in s PROVE Before(Position(c), Position(d))
      <4>1. Past(ask.inner, c) /\ ~Past(ask.inner, d) /\ c \in steady /\ d \in steady
        BY <3>5, <3>6
      <4>2. ask.inner # None /\ ~Before(ask.inner, Position(c)) /\ Before(ask.inner, Position(d))
        BY <4>1 DEF Past
      <4>3. ask.inner \in Marks /\ Position(c) \in Marks /\ Position(d) \in Marks
        BY <2>1, <2>2, <3>5, <4>1, <4>2, PositionMark
      <4>. QED
        BY <4>2, <4>3, BeforeOrder
    <3>8. Covers(ask.items \o list, steady, r \cup s)
      BY <2>2, <2>8, <3>2, <3>3, <3>6, <3>7, CoversJoined
    <3>9. inner # None => \A c \in steady : Past(Resumed(new), c) => Past(new.inner, c)
      BY <1>8, <3>2, <3>4, <3>5
    <3>. QED
      BY <1>8, <3>1, <3>2, <3>6, <3>8, <3>9 DEF AskCovers
  <2>. QED
    BY <2>9, <2>10
<1>12. new.pc # "none"
  BY <1>8
<1>. QED
  BY <1>1, <1>8, <1>9, <1>10, <1>11, <1>12, OneCallHolds

\* What is heard takes the request off the list: no other that is heard is under way.
LEMMA HeardHolds ==
  ASSUME ListHolds, UNCHANGED store, NEW slot \in {"load", "poll"}, calls[slot].pc # "none",
         calls' = [calls EXCEPT ![slot] = NoCall], screen'.loading = FALSE,
         ScreenHolds', screen'.bookmark = None => ScreenCovers'
  PROVE  ListHolds'
<1>1. /\ DOMAIN calls = {"load", "late", "poll"} /\ DOMAIN calls' = DOMAIN calls
      /\ \A s \in DOMAIN calls : calls'[s] = IF s = slot THEN NoCall ELSE calls[s]
  BY DEF ListHolds, CallsAsk
<1>2. NoCall.pc = "none" /\ DOMAIN NoCall = AskFields
  BY DEF NoCall, AskFields
<1>3. \A s \in {"load", "poll"} : calls'[s].pc = "none"
  BY <1>1, <1>2 DEF ListHolds, CallsAsk
<1>4. \A s \in {"load", "poll"} : AskHolds(calls[s])' /\ AskCovers(calls[s])'
  BY <1>3 DEF AskHolds, AskCovers, Asked, Served
<1>5. CallsAsk'
  <2>1. \A s \in DOMAIN calls' : DOMAIN (calls'[s]) = AskFields
    BY <1>1, <1>2 DEF ListHolds, CallsAsk
  <2>2. calls'.load.pc = "none" /\ calls'.poll.pc = "none" /\ ~Asked(calls'.poll)
    BY <1>3 DEF Asked
  <2>. QED
    BY <1>1, <1>4, <2>1, <2>2 DEF CallsAsk
<1>6. StoreHolds'
  BY DEF ListHolds, StoreHolds, store
<1>. QED
  BY <1>4, <1>5, <1>6 DEF ListHolds, CoversHold

\* What is listed stays.
LEMMA ListedStays ==
  ASSUME ListHolds, UNCHANGED store, DOMAIN screen' = ScreenFields, screen'.query = screen.query,
         screen'.who = screen.who, screen'.bookmark = screen.bookmark,
         screen'.items = screen.items, screen'.cursor = screen.cursor,
         screen'.listed = screen.listed, screen'.steady = screen.steady
  PROVE  ScreenHolds' /\ (screen'.bookmark = None => ScreenCovers')
<1>1. rows' = rows /\ clock' = clock
  BY DEF store
<1>2. ScreenHolds'
  BY <1>1 DEF ListHolds, ScreenHolds, CursorHolds, CutoffHolds
<1>3. ScreenCovers => ScreenCovers'
  BY <1>1 DEF ScreenCovers, Covers, Due, Past, Position
<1>. QED
  BY <1>2, <1>3 DEF ListHolds, CoversHold

\* A failure leaves what is listed as it is.
LEMMA FailureShown ==
  ASSUME ListHolds, UNCHANGED store, screen' = [screen EXCEPT !.loading = FALSE]
  PROVE  ScreenHolds' /\ (screen'.bookmark = None => ScreenCovers') /\ screen'.loading = FALSE
<1>1. DOMAIN screen = ScreenFields
  BY DEF ListHolds, ScreenHolds
<1>2. /\ DOMAIN screen' = ScreenFields /\ screen'.loading = FALSE /\ screen'.query = screen.query
      /\ screen'.bookmark = screen.bookmark /\ screen'.who = screen.who
      /\ screen'.items = screen.items /\ screen'.cursor = screen.cursor
      /\ screen'.listed = screen.listed /\ screen'.steady = screen.steady
  BY <1>1 DEF ScreenFields, Blank
<1>. QED
  BY <1>2, ListedStays

\* The answer of a request that goes on from the list has what the list has not.
LEMMA AnswerCovers ==
  ASSUME ListHolds, NEW ask, AskHolds(ask), AskCovers(ask), ask.pc = "answered",
         screen.bookmark = None,
         NEW items \in Mapped((IF ask.append THEN screen.items ELSE <<>>) \o ask.items)
  PROVE  /\ Due(ask.query, SteadyOf(ask), ask.cutoff)
         /\ Covers(items, SteadyOf(ask),
                   {c \in SteadyOf(ask) : ask.inner = None \/ Past(ask.inner, c)})
<1> DEFINE listed == (IF ask.append THEN screen.items ELSE <<>>) \o ask.items
<1>1. PICK steady, r, goal : /\ steady = SteadyOf(ask) /\ r = ReadOf(ask, steady)
                             /\ goal = {c \in steady : ask.inner = None \/ Past(ask.inner, c)}
  OBVIOUS
<1>2. /\ Due(ask.query, steady, ask.cutoff) /\ Covers(ask.items, steady, r)
      /\ ask.inner # None => \A c \in steady : Past(Resumed(ask), c) => Past(ask.inner, c)
  BY <1>1 DEF AskCovers, Served
<1>3. ask.items \in Seq(Entries) /\ screen.items \in Seq(Entries) /\ steady \subseteq Candidates
  BY <1>1 DEF AskHolds, Served, ListHolds, ScreenHolds, SteadyOf
<1>4. r \subseteq steady /\ \A c \in steady :
        c \in r <=> ~Past(Resumed(ask), c) /\ (ask.inner = None \/ Past(ask.inner, c))
  BY <1>1 DEF ReadOf
<1>5. listed \in Seq(Entries) /\ Covers(listed, steady, goal)
  <2>1. CASE ~ask.append
    <3>1. listed = ask.items
      BY <1>3, <2>1
    <3>2. Resumed(ask) = None
      BY <2>1 DEF AskHolds, Asked, Resumed
    <3>3. r = goal
      BY <1>1, <1>4, <3>2 DEF Past
    <3>. QED
      BY <1>2, <1>3, <3>1, <3>3
  <2>2. CASE ask.append
    <3>1. listed = screen.items \o ask.items /\ steady = screen.steady
      BY <1>1, <2>2 DEF SteadyOf
    <3>2. screen.cursor # None /\ screen.listed /\ Resumed(ask) = screen.cursor.inner
          /\ screen.cursor \in Cursors
      BY <2>2 DEF AskHolds, Asked, Resumed, ListHolds, ScreenHolds, CursorHolds
    <3>3. PICK key : key = screen.cursor.inner /\ key \in Marks /\ key # None
      BY <3>2, ListAssumption DEF Cursors
    <3>4. PICK s : s = {c \in steady : Past(key, c)}
      OBVIOUS
    <3>5. Covers(screen.items, steady, s)
      <4>1. {c \in screen.steady : screen.cursor = None \/ Past(screen.cursor.inner, c)} = s
        BY <3>1, <3>2, <3>3, <3>4
      <4>. QED
        BY <3>1, <3>2, <4>1 DEF ListHolds, CoversHold, ScreenCovers
    <3>6. s \cap r = {} /\ s \cup r = goal /\ s \subseteq steady
      BY <1>1, <1>2, <1>4, <3>2, <3>3, <3>4
    <3>7. ASSUME NEW c \in s, NEW d \in r PROVE Before(Position(c), Position(d))
      <4>1. ~Before(key, Position(c)) /\ Before(key, Position(d)) /\ c \in steady /\ d \in steady
        BY <1>4, <3>2, <3>3, <3>4 DEF Past
      <4>2. Position(c) \in Marks /\ Position(d) \in Marks
        BY <1>2, <1>3, <4>1, PositionMark DEF ListHolds, Due
      <4>. QED
        BY <3>3, <4>1, <4>2, BeforeOrder
    <3>8. Covers(screen.items \o ask.items, steady, s \cup r)
      BY <1>2, <1>3, <1>4, <3>5, <3>6, <3>7, CoversJoined
    <3>9. Covers(listed, steady, goal)
      BY <3>1, <3>6, <3>8
    <3>10. listed \in Seq(Entries)
      BY <1>3, <3>1, ConcatProperties
    <3>. QED
      BY <3>9, <3>10
  <2>. QED
    BY <2>1, <2>2
<1>. QED
  BY <1>1, <1>2, <1>5, CoversMapped

LEMMA AnswerShown ==
  ASSUME ListHolds, UNCHANGED store, NEW ask, AskHolds(ask), ask.pc = "answered",
         screen.bookmark = None => AskCovers(ask), ShowPage(ask)
  PROVE  ScreenHolds' /\ (screen'.bookmark = None => ScreenCovers') /\ screen'.loading = FALSE
<1> DEFINE cursor == IF ask.inner = None THEN None
                     ELSE Cursor(ask.query, ask.who, ask.cutoff, ask.inner)
           before == IF ask.append THEN screen.items ELSE <<>>
<1>1. PICK items \in Mapped(before \o ask.items) :
        screen' = [screen EXCEPT !.items = items, !.cursor = cursor, !.loading = FALSE,
                                 !.listed = TRUE,
                                 !.steady = IF ask.append THEN screen.steady ELSE ask.steady]
  BY DEF ShowPage
<1>2. DOMAIN screen = ScreenFields
  BY DEF ListHolds, ScreenHolds
<1>. HIDE DEF cursor
<1>3. /\ DOMAIN screen' = ScreenFields /\ screen'.loading = FALSE /\ screen'.query = screen.query
      /\ screen'.bookmark = screen.bookmark /\ screen'.who = screen.who
      /\ screen'.items = items /\ screen'.cursor = cursor /\ screen'.listed = TRUE
      /\ screen'.steady = SteadyOf(ask)
  BY <1>1, <1>2 DEF ScreenFields, Blank, SteadyOf
<1>4. rows' = rows /\ clock' = clock /\ clock \in Nat
  BY DEF store, ListHolds, StoreHolds
<1>5. /\ ask.query = screen.query /\ ask.who = screen.who /\ MayRead(ask.query, ask.who)
      /\ CutoffHolds(ask.query, ask.cutoff) /\ ask.cutoff \in Cutoffs
      /\ ask.inner \in Marks \cup {None} /\ ask.items \in Seq(Entries) /\ ask.steady \subseteq Candidates
      /\ \A n \in DOMAIN ask.items :
           /\ InRange(ask.query, ask.items[n][2])
           /\ Matches(ask.query, ask.items[n][1], ask.items[n][2], ask.cutoff)
  BY DEF AskHolds, Asked, Served
<1>6. /\ screen.items \in Seq(Entries) /\ screen.steady \subseteq Candidates
      /\ screen.query \in Queries \cup {None} /\ screen.who \in Identities \cup {None}
      /\ CursorHolds(screen.bookmark)
      /\ \A n \in DOMAIN screen.items :
           /\ InRange(screen.query, screen.items[n][2])
           /\ Matches(screen.query, screen.items[n][1], screen.items[n][2], clock)
  BY DEF ListHolds, ScreenHolds
<1>7. PICK one, listed : one = before /\ listed = one \o ask.items
  OBVIOUS
<1>8. /\ one \in Seq(Entries) /\ listed \in Seq(Entries) /\ items \in Mapped(listed)
      /\ one = <<>> \/ one = screen.items
  <2>1. one \in Seq(Entries) /\ (one = <<>> \/ one = screen.items)
    BY <1>6, <1>7
  <2>2. listed \in Seq(Entries)
    BY <1>5, <1>7, <2>1, ConcatProperties
  <2>. QED
    BY <1>1, <1>7, <2>1, <2>2
<1>. HIDE DEF before
<1>9. items \in Seq(Entries) /\ \A n \in DOMAIN items : \E m \in DOMAIN listed : items[n] = listed[m]
  BY <1>8, MappedHas
<1>10. ASSUME NEW n \in DOMAIN listed
       PROVE  /\ InRange(ask.query, listed[n][2])
              /\ Matches(ask.query, listed[n][1], listed[n][2], clock)
  <2>1. \/ n \in DOMAIN screen.items /\ listed[n] = screen.items[n]
        \/ \E m \in DOMAIN ask.items : listed[n] = ask.items[m]
    <3>1. /\ Len(one) \in Nat /\ Len(ask.items) \in Nat
          /\ n \in 1 .. Len(one) + Len(ask.items) /\ DOMAIN one = 1 .. Len(one)
          /\ DOMAIN ask.items = 1 .. Len(ask.items)
          /\ listed[n] = IF n <= Len(one) THEN one[n] ELSE ask.items[n - Len(one)]
      BY <1>5, <1>7, <1>10, <1>8
    <3>2. n > Len(one) => n - Len(one) \in DOMAIN ask.items
      BY <3>1
    <3>3. n <= Len(one) => n \in DOMAIN one /\ one = screen.items
      BY <1>8, <3>1
    <3>. QED
      BY <3>1, <3>2, <3>3
  <2>2. CASE n \in DOMAIN screen.items /\ listed[n] = screen.items[n]
    BY <1>5, <1>6, <2>2
  <2>3. CASE \E m \in DOMAIN ask.items : listed[n] = ask.items[m]
    <3>1. PICK m \in DOMAIN ask.items : listed[n] = ask.items[m]
      BY <2>3
    <3>2. ask.items[m] \in Entries
      BY <1>5
    <3>3. ask.items[m][2] \in RowsOf
      BY <3>2 DEF Entries
    <3>. QED
      BY <1>4, <1>5, <3>1, <3>3, MatchesLater DEF CutoffHolds
  <2>. QED
    BY <2>1, <2>2, <2>3
<1>11. /\ CursorHolds(cursor)
       /\ cursor # None => cursor.scope = Scope(screen.query, screen.who, cursor.cutoff)
                           /\ cursor.cutoff = ask.cutoff
       /\ (cursor = None) <=> (ask.inner = None)
       /\ cursor # None => cursor.inner = ask.inner
  <2>1. CASE ask.inner = None
    BY <2>1 DEF cursor, CursorHolds
  <2>2. CASE ask.inner # None
    <3>1. /\ cursor = [scope |-> Scope(ask.query, ask.who, ask.cutoff), cutoff |-> ask.cutoff,
                       inner |-> ask.inner]
      BY <2>2 DEF cursor, Cursor
    <3>2. /\ Scope(ask.query, ask.who, ask.cutoff) \in
                (Queries \cup {None}) \X (Identities \cup {None}) \X Cutoffs
          /\ Scope(ask.query, ask.who, ask.cutoff)[1] = ask.query
      BY <1>5, <1>6 DEF Scope, ActivityScope, Cutoffs
    <3>3. cursor \in Cursors
      BY <1>5, <2>2, <3>1, <3>2 DEF Cursors
    <3>4. cursor # None
      BY <3>3, ListAssumption
    <3>. QED
      BY <1>5, <2>2, <3>1, <3>2, <3>3, <3>4 DEF CursorHolds
  <2>. QED
    BY <2>1, <2>2
<1>12. ScreenHolds'
  <2>1. CursorHolds(screen.cursor)' /\ CursorHolds(screen.bookmark)'
    BY <1>3, <1>4, <1>6, <1>11 DEF CursorHolds, CutoffHolds
  <2>2. SteadyOf(ask) \subseteq Candidates
    BY <1>5, <1>6 DEF SteadyOf
  <2>3. \A n \in DOMAIN items :
          /\ MayRead(screen.query, screen.who) /\ InRange(screen.query, items[n][2])
          /\ Matches(screen.query, items[n][1], items[n][2], clock)
    BY <1>5, <1>9, <1>10
  <2>. QED
    BY <1>3, <1>4, <1>6, <1>9, <1>11, <2>1, <2>2, <2>3 DEF ScreenHolds
<1>13. ASSUME screen'.bookmark = None PROVE ScreenCovers'
  <2>1. PICK steady : steady = SteadyOf(ask)
    OBVIOUS
  <2>2. items \in Mapped((IF ask.append THEN screen.items ELSE <<>>) \o ask.items)
    BY <1>1 DEF before
  <2>3. /\ Due(ask.query, steady, ask.cutoff)
        /\ Covers(items, steady, {c \in steady : ask.inner = None \/ Past(ask.inner, c)})
    BY <1>3, <1>13, <2>1, <2>2, AnswerCovers
  <2>4. {c \in steady : ask.inner = None \/ Past(ask.inner, c)}
          = {c \in steady : cursor = None \/ Past(cursor.inner, c)}
    BY <1>11
  <2>5. Covers(items, steady, {c \in steady : cursor = None \/ Past(cursor.inner, c)})
    BY <2>3, <2>4
  <2>6. Covers(screen.items, screen.steady,
               {c \in screen.steady : screen.cursor = None \/ Past(screen.cursor.inner, c)})'
    BY <1>3, <1>4, <2>1, <2>5 DEF Covers, Past, Position
  <2>7. /\ \A c \in steady : rows[c] # None
        /\ cursor # None => Due(screen.query, steady, cursor.cutoff)
    BY <1>5, <1>11, <2>3 DEF Due
  <2>8. /\ \A c \in screen'.steady : rows'[c] # None
        /\ screen'.cursor # None => Due(screen.query, screen.steady, screen.cursor.cutoff)'
    BY <1>3, <1>4, <2>1, <2>7 DEF Due
  <2>. QED
    BY <2>6, <2>8 DEF ScreenCovers
<1>. QED
  BY <1>3, <1>12, <1>13

LEMMA SettleHolds == ASSUME ListHolds, NEW slot \in DOMAIN calls, Settle(slot) PROVE ListHolds'
<1>1. /\ calls[slot].pc \in {"answered", "failed"} /\ UNCHANGED store
      /\ calls' = [calls EXCEPT ![slot] = NoCall]
      /\ slot \in {"load", "late", "poll"}
  BY DEF Settle, ListHolds, CallsAsk
<1>2. CASE slot = "late"
  <2>1. NoCall.pc = "none" /\ DOMAIN NoCall = AskFields /\ UNCHANGED screen
    BY <1>2 DEF NoCall, AskFields, Settle, Heard
  <2>. QED
    BY <1>1, <1>2, <2>1, OneCallHolds
<1>3. CASE slot # "late"
  <2>1. PICK ask : ask = calls[slot] /\ AskHolds(ask) /\ (screen.bookmark = None => AskCovers(ask))
    BY <1>1, <1>3 DEF ListHolds, CallsAsk, CoversHold
  <2>2. CASE ask.pc = "answered"
    <3>1. ShowPage(ask)
      BY <1>3, <2>1, <2>2 DEF Settle, Heard
    <3>. QED
      BY <1>1, <1>3, <2>1, <2>2, <3>1, AnswerShown, HeardHolds
  <2>3. CASE ask.pc = "failed"
    <3>1. screen' = [screen EXCEPT !.loading = IF slot = "poll" THEN @ ELSE FALSE]
      BY <1>3, <2>1, <2>3 DEF Settle, Heard, ShowFailure
    <3>2. slot = "poll" => screen.loading = FALSE
      <4>1. screen.loading <=> calls.load.pc # "none"
        BY DEF ListHolds, CallsAsk
      <4>2. slot = "poll" => ~screen.loading
        BY <1>1 DEF ListHolds, CallsAsk
      <4>. QED
        BY <4>2
    <3>3. screen' = [screen EXCEPT !.loading = FALSE]
      BY <3>1, <3>2
    <3>. QED
      BY <1>1, <1>3, <2>1, <2>3, <3>3, FailureShown, HeardHolds
  <2>. QED
    BY <1>1, <2>1, <2>2, <2>3
<1>. QED
  BY <1>2, <1>3

\* A list is asked for anew, or nothing is asked for: requests that were heard are not.
LEMMA AskedAnew ==
  ASSUME ListHolds, UNCHANGED store, NEW sent, NEW given, calls' = [load |-> sent, late |-> given, poll |-> NoCall],
         DOMAIN sent = AskFields, given = NoCall \/ \E s \in DOMAIN calls : given = calls[s],
         sent.pc \in {"none", "sent"}, AskHolds(sent)', screen'.loading <=> sent.pc = "sent",
         ScreenHolds', screen'.bookmark = None => ScreenCovers'
  PROVE  ListHolds'
<1>1. NoCall.pc = "none" /\ DOMAIN NoCall = AskFields
  BY DEF NoCall, AskFields
<1>2. DOMAIN given = AskFields
  BY <1>1 DEF ListHolds, CallsAsk
<1>3. DOMAIN calls' = {"load", "late", "poll"} /\ calls'.load = sent /\ calls'.poll = NoCall
      /\ calls'.late = given
  OBVIOUS
<1>4. AskHolds(calls.poll)' /\ AskCovers(calls.poll)' /\ AskCovers(calls.load)'
  BY <1>1, <1>3 DEF AskHolds, AskCovers, Asked, Served
<1>5. AskHolds(calls.load)'
  BY <1>3 DEF AskHolds, Asked, Served, CutoffHolds
<1>6. CallsAsk'
  <2>1. ~Asked(calls'.poll) /\ (screen'.loading <=> calls'.load.pc # "none")
        /\ calls'.poll.pc = "none"
    BY <1>1, <1>3 DEF Asked
  <2>2. \A s \in DOMAIN calls' : DOMAIN (calls'[s]) = AskFields
    BY <1>1, <1>2, <1>3
  <2>. QED
    BY <1>3, <1>4, <1>5, <2>1, <2>2 DEF CallsAsk
<1>7. StoreHolds'
  BY DEF ListHolds, StoreHolds, store
<1>. QED
  BY <1>4, <1>6, <1>7 DEF ListHolds, CoversHold

LEMMA GivenHas ==
  ASSUME NEW given \in GivenUp
  PROVE  given = NoCall \/ \E s \in DOMAIN calls : given = calls[s]
BY DEF GivenUp

\* What may be asked for: the screen's list, or one of an address and an identity.
Listable(list) ==
  /\ DOMAIN list = ScreenFields
  /\ list.query \in Queries \cup {None} /\ list.who \in Identities \cup {None}
  /\ CursorHolds(list.bookmark)

LEMMA BlankHolds ==
  ASSUME ListHolds, UNCHANGED store, NEW list, Listable(list), NEW loading \in BOOLEAN, NEW paged,
         LET blank == Blank(list.query, list.bookmark, list.who)
         IN  \/ screen' = blank /\ ~loading
             \/ screen' = [blank EXCEPT !.loading = loading, !.paged = paged]
  PROVE  /\ ScreenHolds' /\ ScreenCovers' /\ screen'.loading = loading
         /\ screen'.query = list.query /\ screen'.who = list.who
         /\ screen'.bookmark = list.bookmark /\ screen'.cursor = None
<1>1. /\ DOMAIN screen' = ScreenFields /\ screen'.loading = loading
      /\ screen'.query = list.query /\ screen'.who = list.who
      /\ screen'.bookmark = list.bookmark /\ screen'.cursor = None
      /\ screen'.items = <<>> /\ screen'.listed = FALSE /\ screen'.steady = {}
  <2>1. PICK blank : blank = Blank(list.query, list.bookmark, list.who)
    OBVIOUS
  <2>2. /\ DOMAIN blank = ScreenFields /\ blank.query = list.query /\ blank.who = list.who
        /\ blank.bookmark = list.bookmark /\ blank.cursor = None /\ blank.loading = FALSE
        /\ blank.items = <<>> /\ blank.listed = FALSE /\ blank.steady = {}
    BY <2>1 DEF Blank, ScreenFields
  <2>3. CASE screen' = blank /\ ~loading
    BY <2>2, <2>3
  <2>4. CASE screen' = [blank EXCEPT !.loading = loading, !.paged = paged]
    BY <2>2, <2>4 DEF ScreenFields, Blank
  <2>. QED
    BY <2>1, <2>3, <2>4
<1>2. <<>> \in Seq(Entries) /\ DOMAIN <<>> = {}
  OBVIOUS
<1>3. CursorHolds(screen.bookmark)' /\ CursorHolds(screen.cursor)'
  BY <1>1 DEF Listable, CursorHolds, CutoffHolds, store
<1>4. ScreenHolds'
  BY <1>1, <1>2, <1>3 DEF ScreenHolds, Listable
<1>5. ScreenCovers'
  BY <1>1 DEF ScreenCovers
<1>. QED
  BY <1>1, <1>4, <1>5

LEMMA ClearHolds ==
  ASSUME ListHolds, UNCHANGED store, NEW list, Listable(list), Clear(list)
  PROVE  ListHolds'
<1>1. PICK given \in GivenUp : calls' = [NoCalls EXCEPT !.late = given]
  BY DEF Clear
<1>2. calls' = [load |-> NoCall, late |-> given, poll |-> NoCall]
  BY <1>1 DEF NoCalls
<1>3. NoCall.pc = "none" /\ DOMAIN NoCall = AskFields
  BY DEF NoCall, AskFields
<1>4. screen' = Blank(list.query, list.bookmark, list.who)
  BY DEF Clear
<1>5. ScreenHolds' /\ ScreenCovers' /\ screen'.loading = FALSE
  BY <1>4, BlankHolds
<1>6. AskHolds(NoCall)'
  BY <1>3 DEF AskHolds, Asked, Served
<1>. QED
  BY <1>1, <1>2, <1>3, <1>5, <1>6, GivenHas, AskedAnew

LEMMA RequestHolds ==
  ASSUME ListHolds, UNCHANGED store, NEW list, Listable(list), NEW append \in BOOLEAN,
         append => list = screen /\ screen.cursor # None, Request(list, append)
  PROVE  ListHolds'
<1> DEFINE cursor == IF append /\ list.cursor # None THEN list.cursor ELSE list.bookmark
           sent == [NoCall EXCEPT !.pc = "sent", !.query = list.query, !.who = list.who,
                                  !.append = append, !.cursor = cursor]
<1>1. PICK given \in GivenUp : calls' = [load |-> sent, late |-> given, poll |-> NoCall]
  BY DEF Request
<1>2. screen' = [(IF append THEN list ELSE Blank(list.query, list.bookmark, list.who))
                 EXCEPT !.loading = TRUE, !.paged = append]
  BY DEF Request
<1>3. /\ DOMAIN sent = AskFields /\ sent.pc = "sent" /\ sent.query = list.query
      /\ sent.who = list.who /\ sent.append = append /\ sent.cursor = cursor /\ sent.items = <<>>
  BY DEF NoCall, AskFields
<1>. HIDE DEF sent
<1>4. /\ ScreenHolds' /\ (screen'.bookmark = None => ScreenCovers') /\ screen'.loading = TRUE
      /\ screen'.query = list.query /\ screen'.who = list.who /\ screen'.bookmark = list.bookmark
      /\ append => screen'.cursor = screen.cursor
  <2>1. CASE ~append
    <3>1. screen' = [Blank(list.query, list.bookmark, list.who) EXCEPT !.loading = TRUE, !.paged = append]
      BY <1>2, <2>1
    <3>. QED
      BY <2>1, <3>1, BlankHolds
  <2>2. CASE append
    <3>1. screen' = [screen EXCEPT !.loading = TRUE, !.paged = append] /\ list = screen
      BY <1>2, <2>2
    <3>2. DOMAIN screen = ScreenFields
      BY DEF ListHolds, ScreenHolds
    <3>3. /\ DOMAIN screen' = ScreenFields /\ screen'.loading = TRUE /\ screen'.query = screen.query
          /\ screen'.bookmark = screen.bookmark /\ screen'.who = screen.who
          /\ screen'.items = screen.items /\ screen'.cursor = screen.cursor
          /\ screen'.listed = screen.listed /\ screen'.steady = screen.steady
      BY <3>1, <3>2 DEF ScreenFields, Blank
    <3>. QED
      BY <3>1, <3>3, ListedStays
  <2>. QED
    BY <2>1, <2>2
<1>5. AskHolds(sent)'
  BY <1>3, <1>4 DEF AskHolds, Asked, Served
<1>. QED
  BY <1>1, <1>3, <1>4, <1>5, GivenHas, AskedAnew

LEMMA LoadListHolds ==
  ASSUME ListHolds, UNCHANGED store, NEW list, Listable(list), NEW append \in BOOLEAN,
         append => list = screen /\ screen.cursor # None, LoadList(list, append)
  PROVE  ListHolds'
<1>1. Request(list, append) \/ Clear(list)
  BY DEF LoadList, LoadContent, LoadCalendar, LoadReviews, LoadOperations, LoadActivity
<1>. QED
  BY <1>1, RequestHolds, ClearHolds

\* Whatever the user does.
LEMMA PersonHolds == ASSUME ListHolds, Person PROVE ListHolds'
<1>1. /\ Listable(screen) /\ CursorHolds(screen.cursor) /\ CursorHolds(None)
      /\ DOMAIN screen = ScreenFields
  BY DEF ListHolds, ScreenHolds, Listable, CursorHolds
<1>2. ASSUME NEW q \in Queries, NEW bookmark \in Bookmarks, Open(q, bookmark) PROVE ListHolds'
  <2>1. CursorHolds(bookmark)
    BY <1>1 DEF Bookmarks
  <2>2. Listable(At(q, bookmark))
    BY <1>1, <2>1 DEF Listable, At, ScreenFields, Blank
  <2>3. LoadList(At(q, bookmark), FALSE) /\ UNCHANGED store
    BY <1>2, Zenon DEF Open, OpenContent, OpenCalendar, OpenReviews, OpenOperations, LoadList
  <2>. QED
    BY <2>2, <2>3, LoadListHolds
<1>3. ASSUME NEW who \in Identities, SwitchIdentity(who) PROVE ListHolds'
  <2> DEFINE list == [screen EXCEPT !.who = who, !.bookmark = None]
  <2>1. Listable(list)
    BY <1>1 DEF Listable, ScreenFields, Blank
  <2>2. LoadList(list, FALSE) /\ UNCHANGED store
    BY <1>3 DEF SwitchIdentity
  <2>. QED
    BY <2>1, <2>2, LoadListHolds
<1>4. CASE OpenInvalid
  BY <1>1, <1>4, ClearHolds DEF OpenInvalid
<1>5. CASE Reload
  BY <1>1, <1>5, LoadListHolds DEF Reload
<1>6. CASE More
  BY <1>1, <1>6, LoadListHolds DEF More
<1>. QED
  BY <1>2, <1>3, <1>4, <1>5, <1>6 DEF Person

\* What stays of a list when a row moves.
LEMMA CoversEdited ==
  ASSUME NEW items, NEW steady, NEW read \in SUBSET steady, NEW c, Covers(items, steady, read),
         \A d \in steady \ {c} : rows'[d] = rows[d]
  PROVE  Covers(items, steady \ {c}, read \ {c})'
<1>1. \A d \in read \ {c} : \E n \in DOMAIN items :
        items[n] = <<d, rows'[d]>> /\ \A m \in DOMAIN items : items[m][1] = d => m = n
  <2> SUFFICES ASSUME NEW d \in read \ {c}
               PROVE  \E n \in DOMAIN items :
                        items[n] = <<d, rows'[d]>> /\ \A m \in DOMAIN items : items[m][1] = d => m = n
    OBVIOUS
  <2>1. rows'[d] = rows[d]
    OBVIOUS
  <2>. QED
    BY <2>1 DEF Covers
<1>2. \A d \in (steady \ {c}) \ (read \ {c}) : \A n \in DOMAIN items : items[n][1] # d
  BY DEF Covers
<1>3. \A d \in steady \ {c} : Position(d)' = Position(d)
  BY DEF Position
<1>4. \A m, n \in DOMAIN items :
        m < n /\ {items[m][1], items[n][1]} \subseteq steady \ {c} =>
          Before(Position(items[m][1])', Position(items[n][1])')
  BY <1>3 DEF Covers
<1>. QED
  BY <1>1, <1>2, <1>4 DEF Covers, Before, Position

LEMMA DueEdited ==
  ASSUME NEW q, NEW steady, NEW cutoff, NEW c, Due(q, steady, cutoff),
         \A d \in steady \ {c} : rows'[d] = rows[d]
  PROVE  Due(q, steady \ {c}, cutoff)'
BY DEF Due

LEMMA EditHolds ==
  ASSUME ListHolds, NEW c \in Candidates, NEW row \in {None} \cup RowsOf, Edit(c, row)
  PROVE  ListHolds'
<1>1. /\ rows' = [rows EXCEPT ![c] = row] /\ clock' = clock /\ edits' = edits + 1
      /\ screen' = [screen EXCEPT !.steady = screen.steady \ {c}]
      /\ calls' = [slot \in DOMAIN calls |-> [calls[slot] EXCEPT !.steady = calls[slot].steady \ {c}]]
  BY DEF Edit
<1>2. /\ DOMAIN screen = ScreenFields /\ DOMAIN calls = {"load", "late", "poll"}
      /\ \A s \in DOMAIN calls : DOMAIN (calls[s]) = AskFields
  BY DEF ListHolds, ScreenHolds, CallsAsk
<1>3. /\ DOMAIN screen' = ScreenFields /\ screen'.query = screen.query
      /\ screen'.who = screen.who /\ screen'.bookmark = screen.bookmark
      /\ screen'.items = screen.items /\ screen'.cursor = screen.cursor
      /\ screen'.listed = screen.listed /\ screen'.loading = screen.loading
      /\ screen'.steady = screen.steady \ {c}
  BY <1>1, <1>2 DEF ScreenFields, Blank
<1>4. DOMAIN calls' = DOMAIN calls
  BY <1>1
<1>5. ASSUME NEW s \in DOMAIN calls
      PROVE  /\ DOMAIN (calls'[s]) = AskFields /\ calls'[s].pc = calls[s].pc
             /\ calls'[s].query = calls[s].query /\ calls'[s].who = calls[s].who
             /\ calls'[s].append = calls[s].append /\ calls'[s].cursor = calls[s].cursor
             /\ calls'[s].cutoff = calls[s].cutoff /\ calls'[s].inner = calls[s].inner
             /\ calls'[s].items = calls[s].items /\ calls'[s].steady = calls[s].steady \ {c}
  <2>1. calls'[s] = [calls[s] EXCEPT !.steady = calls[s].steady \ {c}] /\ DOMAIN (calls[s]) = AskFields
    BY <1>1, <1>2
  <2>. QED
    BY <2>1 DEF AskFields, NoCall
<1>6. StoreHolds'
  BY <1>1 DEF ListHolds, StoreHolds
<1>7. \A d : d # c /\ d \in Candidates => rows'[d] = rows[d]
  BY <1>1 DEF ListHolds, StoreHolds
<1>8. ScreenHolds'
  <2>1. CursorHolds(screen.cursor)' /\ CursorHolds(screen.bookmark)'
    BY <1>1, <1>3 DEF ListHolds, ScreenHolds, CursorHolds, CutoffHolds
  <2>. QED
    BY <1>1, <1>3, <2>1 DEF ListHolds, ScreenHolds
<1>9. CallsAsk'
  <2>1. ASSUME NEW s \in {"load", "poll"} PROVE AskHolds(calls[s])'
    <3>1. AskHolds(calls[s])
      BY DEF ListHolds, CallsAsk
    <3>2. s \in DOMAIN calls
      BY <1>2
    <3>. QED
      BY <1>1, <1>3, <1>5, <3>1, <3>2 DEF AskHolds, Asked, Served, CutoffHolds
  <2>2. \A s \in DOMAIN calls' : DOMAIN (calls'[s]) = AskFields
    BY <1>4, <1>5
  <2>3. /\ screen'.loading <=> calls'.load.pc # "none"
        /\ screen'.loading => calls'.poll.pc = "none"
        /\ Asked(calls'.poll) => ~calls'.poll.append
    BY <1>2, <1>3, <1>5 DEF ListHolds, CallsAsk, Asked
  <2>. QED
    BY <1>2, <1>4, <2>1, <2>2, <2>3 DEF CallsAsk
<1>10. screen.steady \subseteq Candidates
  BY DEF ListHolds, ScreenHolds
<1>11. ASSUME ScreenCovers PROVE ScreenCovers'
  <2> SUFFICES ASSUME screen.listed PROVE ScreenCovers'
    BY <1>3 DEF ScreenCovers
  <2>1. PICK steady, read : /\ steady = screen.steady
                            /\ read = {d \in steady : screen.cursor = None \/ Past(screen.cursor.inner, d)}
    OBVIOUS
  <2>2. \A d \in steady \ {c} : rows'[d] = rows[d]
    BY <1>7, <1>10, <2>1
  <2>3. PICK items : items = screen.items
    OBVIOUS
  <2>4. Covers(items, steady, read) /\ read \in SUBSET steady
    BY <1>11, <2>1, <2>3 DEF ScreenCovers
  <2>5. Covers(items, steady \ {c}, read \ {c})'
    BY <2>2, <2>4, CoversEdited
  <2>6. read \ {c} = {d \in screen.steady : screen.cursor = None \/ Past(screen.cursor.inner, d)}'
    BY <1>3, <2>1, <2>2 DEF Past, Position
  <2>7. Covers(screen.items, screen.steady,
               {d \in screen.steady : screen.cursor = None \/ Past(screen.cursor.inner, d)})'
    BY <1>3, <2>1, <2>3, <2>5, <2>6
  <2>8. \A d \in screen'.steady : rows'[d] # None
    BY <1>3, <1>11, <2>1, <2>2 DEF ScreenCovers
  <2>9. ASSUME screen.cursor # None PROVE Due(screen.query, screen.steady, screen.cursor.cutoff)'
    <3>1. PICK q, cutoff : q = screen.query /\ cutoff = screen.cursor.cutoff
      OBVIOUS
    <3>2. Due(q, steady \ {c}, cutoff)'
      BY <1>11, <2>1, <2>2, <2>9, <3>1, DueEdited DEF ScreenCovers
    <3>. QED
      BY <1>3, <2>1, <3>1, <3>2
  <2>. QED
    BY <1>3, <2>7, <2>8, <2>9 DEF ScreenCovers
<1>12. ASSUME NEW s \in {"load", "poll"}, AskCovers(calls[s]) PROVE AskCovers(calls[s])'
  <2> SUFFICES ASSUME Served(calls[s]) PROVE AskCovers(calls[s])'
    BY <1>2, <1>5 DEF AskCovers, Served
  <2>1. PICK ask, new : ask = calls[s] /\ new = calls'[s]
    OBVIOUS
  <2>2. /\ new.pc = ask.pc /\ new.query = ask.query /\ new.append = ask.append
        /\ new.cursor = ask.cursor /\ new.cutoff = ask.cutoff /\ new.inner = ask.inner
        /\ new.items = ask.items /\ new.steady = ask.steady \ {c}
    BY <1>2, <1>5, <2>1
  <2>3. PICK steady, read : steady = SteadyOf(ask) /\ read = ReadOf(ask, steady)
    OBVIOUS
  <2>4. steady \subseteq Candidates
    BY <1>10, <2>1, <2>3 DEF SteadyOf, ListHolds, CallsAsk, AskHolds
  <2>5. SteadyOf(new)' = steady \ {c} /\ Resumed(new) = Resumed(ask)
    BY <1>3, <2>2, <2>3 DEF SteadyOf, Resumed
  <2>6. \A d \in steady \ {c} : rows'[d] = rows[d]
    BY <1>7, <2>4
  <2>7. /\ Due(ask.query, steady, ask.cutoff) /\ Covers(ask.items, steady, read)
        /\ read \in SUBSET steady
        /\ ask.pc = "paging" \/ ask.inner # None =>
             \A d \in steady : Past(Resumed(ask), d) => Past(ask.inner, d)
    BY <1>12, <2>1, <2>3 DEF AskCovers, ReadOf
  <2>8. Due(new.query, steady \ {c}, new.cutoff)'
    BY <2>2, <2>6, <2>7, DueEdited
  <2>9. Covers(new.items, steady \ {c}, read \ {c})'
    BY <2>2, <2>6, <2>7, CoversEdited
  <2>10. ReadOf(new, steady \ {c})' = read \ {c}
    BY <2>2, <2>3, <2>5, <2>6 DEF ReadOf, Past, Position, Resumed
  <2>11. new.pc = "paging" \/ new.inner # None =>
          \A d \in steady \ {c} : (Past(Resumed(new), d) => Past(new.inner, d))'
    BY <2>2, <2>5, <2>6, <2>7 DEF Past, Position, Resumed
  <2>12. AskCovers(new)'
    BY <2>5, <2>8, <2>9, <2>10, <2>11 DEF AskCovers
  <2>. QED
    BY <2>1, <2>12 DEF AskCovers, Covers, Due, ReadOf, SteadyOf, Past, Position
<1>13. CoversHold'
  BY <1>3, <1>11, <1>12 DEF ListHolds, CoversHold
<1>. QED
  BY <1>6, <1>8, <1>9, <1>13 DEF ListHolds

LEMMA TickHolds == ASSUME ListHolds, ListTick PROVE ListHolds'
<1>1. /\ clock' = clock + 1 /\ rows' = rows /\ edits' = edits /\ screen' = screen
      /\ calls' = calls /\ clock \in Nat
  BY DEF ListTick, ListHolds, StoreHolds
<1>2. \A q, cutoff : CutoffHolds(q, cutoff) => CutoffHolds(q, cutoff)'
  BY <1>1 DEF CutoffHolds
<1>3. ScreenHolds'
  <2>1. CursorHolds(screen.cursor)' /\ CursorHolds(screen.bookmark)'
    BY <1>1, <1>2 DEF ListHolds, ScreenHolds, CursorHolds
  <2>2. ASSUME NEW n \in DOMAIN screen.items
        PROVE  Matches(screen.query, screen.items[n][1], screen.items[n][2], clock + 1)
    <3>1. /\ screen.items[n] \in Entries
          /\ Matches(screen.query, screen.items[n][1], screen.items[n][2], clock)
      BY DEF ListHolds, ScreenHolds
    <3>2. screen.items[n][2] \in RowsOf
      BY <3>1 DEF Entries
    <3>3. clock <= clock + 1 /\ clock + 1 \in Nat
      BY <1>1
    <3>. QED
      BY <1>1, <3>1, <3>2, <3>3, MatchesLater
  <2>. QED
    BY <1>1, <2>1, <2>2 DEF ListHolds, ScreenHolds
<1>4. \A s \in {"load", "poll"} : AskHolds(calls[s])'
  <2> SUFFICES ASSUME NEW s \in {"load", "poll"} PROVE AskHolds(calls[s])'
    OBVIOUS
  <2>1. PICK ask : ask = calls[s] /\ AskHolds(ask)
    BY DEF ListHolds, CallsAsk
  <2>2. AskHolds(ask)'
    BY <1>1, <1>2, <2>1 DEF AskHolds
  <2>. QED
    BY <1>1, <2>1, <2>2 DEF AskHolds, CutoffHolds
<1>5. CallsAsk'
  BY <1>1, <1>4 DEF ListHolds, CallsAsk
<1>6. CoversHold'
  <2>1. ScreenCovers => ScreenCovers'
    BY <1>1 DEF ScreenCovers, Covers, Due, Past, Position
  <2>2. ASSUME NEW s \in {"load", "poll"}, AskCovers(calls[s]) PROVE AskCovers(calls[s])'
    BY <1>1, <2>2 DEF AskCovers, Covers, Due, ReadOf, SteadyOf, Past, Position
  <2>. QED
    BY <1>1, <2>1, <2>2 DEF ListHolds, CoversHold
<1>7. StoreHolds'
  BY <1>1 DEF ListHolds, StoreHolds
<1>. QED
  BY <1>3, <1>5, <1>6, <1>7 DEF ListHolds

\* A list that is not shown does not change.
LEMMA ListStays == ASSUME ListHolds, UNCHANGED listVars PROVE ListHolds'
<1>1. "late" \in DOMAIN calls /\ DOMAIN (calls["late"]) = AskFields
  BY DEF ListHolds, CallsAsk
<1>2. UNCHANGED <<store, screen>> /\ UNCHANGED calls
  BY DEF listVars
<1>. QED
  BY <1>1, <1>2, OneCallHolds

LEMMA ListNextHolds == ASSUME ListHolds, ListNext PROVE ListHolds'
<1>1. ASSUME NEW slot \in DOMAIN calls, Service(slot) PROVE ListHolds'
  BY <1>1, AcceptHolds, PageOfStoreHolds, FailHolds, SettleHolds DEF Service
<1>2. ASSUME NEW c \in Candidates, PutRow(c) PROVE ListHolds'
  <2>1. PICK at \in 1 .. MaxTime : Edit(c, [at |-> at, edit |-> edits + 1])
    BY <1>2 DEF PutRow
  <2>2. [at |-> at, edit |-> edits + 1] \in RowsOf
    BY DEF RowsOf, ListHolds, StoreHolds
  <2>. QED
    BY <2>1, <2>2, EditHolds
<1>3. ASSUME NEW c \in Candidates, RemoveRow(c) PROVE ListHolds'
  BY <1>3, EditHolds DEF RemoveRow
<1>. QED
  BY <1>1, <1>2, <1>3, PersonHolds, WatchHolds, TickHolds DEF ListNext

LEMMA ListInitHolds == ASSUME ListInit \/ NoList PROVE ListHolds
<1>1. StoreHolds
  <2>1. {MaxTime, MaxEdits} \subseteq Nat
    BY ListAssumption
  <2>2. [at : 1 .. MaxTime, edit : {0}] \subseteq RowsOf
    BY <2>1 DEF RowsOf
  <2>. QED
    BY <2>2 DEF ListInit, NoList, StoreHolds
<1>2. calls = NoCalls
  BY Zenon DEF ListInit, NoList
<1>3. PICK q, who : /\ screen = Blank(q, None, who)
                    /\ q \in Queries \cup {None} /\ who \in Identities \cup {None}
  <2>1. CASE ListInit
    BY <2>1 DEF ListInit
  <2>2. CASE NoList
    BY <2>2 DEF NoList
  <2>. QED
    BY <2>1, <2>2
<1>4. /\ DOMAIN screen = ScreenFields /\ screen.query = q /\ screen.who = who
      /\ screen.bookmark = None /\ screen.items = <<>> /\ screen.cursor = None
      /\ screen.loading = FALSE /\ screen.listed = FALSE /\ screen.steady = {}
  BY <1>3 DEF Blank, ScreenFields
<1>5. ScreenHolds
  <2>1. <<>> \in Seq(Entries) /\ DOMAIN <<>> = {}
    OBVIOUS
  <2>. QED
    BY <1>3, <1>4, <2>1 DEF ScreenHolds, CursorHolds
<1>6. /\ DOMAIN calls = {"load", "late", "poll"}
      /\ \A s \in DOMAIN calls : calls[s] = NoCall
  BY <1>2 DEF NoCalls
<1>7. NoCall.pc = "none" /\ DOMAIN NoCall = AskFields
  BY DEF NoCall, AskFields
<1>8. CallsAsk
  BY <1>4, <1>6, <1>7 DEF CallsAsk, AskHolds, Asked, Served
<1>9. CoversHold
  BY <1>4, <1>6, <1>7 DEF CoversHold, ScreenCovers, AskCovers, Served
<1>. QED
  BY <1>1, <1>5, <1>8, <1>9 DEF ListHolds

LEMMA ListAlwaysHolds == BrowserSpec => []ListHolds
<1>1. BrowserInit => ListHolds
  BY ListInitHolds, Zenon DEF BrowserInit
<1>2. ListHolds /\ [BrowserNext]_browserVars => ListHolds'
  <2> SUFFICES ASSUME ListHolds, [BrowserNext]_browserVars PROVE ListHolds'
    OBVIOUS
  <2>1. ListNext \/ UNCHANGED listVars
    BY Zenon DEF BrowserNext, browserVars
  <2>. QED
    BY <2>1, ListNextHolds, ListStays
<1>. QED
  BY <1>1, <1>2, PTL DEF BrowserSpec

\* The rows on the screen are what its address and identity ask for, and its cursor is one
\* that the service accepts, whatever answers come late, of another filter, month or
\* identity.  A request that is heard (the last one, the poll) was for the list on the
\* screen: whatever changes the list takes their numbers (requestId) from those before it.
\* The filter of the overdue reviews is applied at the cutoff of the first page, which
\* stays behind the clock on the pages that go on from it.
THEOREM ListsAreAsked == BrowserSpec => []ListedIsAsked
<1>1. ListHolds => ListedIsAsked
  BY DEF ListHolds, ScreenHolds, ListedIsAsked
<1>. QED
  BY <1>1, ListAlwaysHolds, PTL

\* A list read to its end has every row that was there from its first page on and did not
\* move exactly once, as it is, and those rows in their order, whatever other rows are
\* added, moved or removed between two pages of the store.  Where a request has got to
\* (its continuation) divides those rows: it has those up to there behind the cursor it
\* goes on from (Covers, ReadOf), each page adds those up to the next, the short page that
\* the filter or the budget left as well, and the map on the page adds those to the rows it
\* already has up to that cursor.  For any items, filters, limits and budget.
THEOREM ListsAreComplete == BrowserSpec => []ListIsComplete
<1>1. ListHolds => ListIsComplete
  <2> SUFFICES ASSUME ListHolds, Listed PROVE ListIsComplete
    BY DEF ListIsComplete
  <2>1. ScreenCovers /\ screen.listed /\ screen.cursor = None
    BY DEF ListHolds, CoversHold, Listed
  <2>2. {c \in screen.steady : screen.cursor = None \/ Past(screen.cursor.inner, c)} = screen.steady
    BY <2>1
  <2>3. Covers(screen.items, screen.steady, screen.steady)
    BY <2>1, <2>2 DEF ScreenCovers
  <2>. QED
    BY <2>3 DEF Covers, ListIsComplete
<1>. QED
  BY <1>1, ListAlwaysHolds, PTL
=============================================================================
