-------------------------- MODULE PublicationProofs --------------------------
(***************************************************************************)
(* For any number of publishers, attempts, generations, deliveries and     *)
(* faults: stored publications satisfy their schema, no two publishers     *)
(* work under leases that run, and an attempt is closed by its holder.     *)
(***************************************************************************)
EXTENDS Publication, FiniteSetTheorems, TLAPS

WorkingPoints == {"own", "write", "finish", "complete"}
Points == {"idle", "load", "claim", "verify", "settle", "reread", "fail"} \cup WorkingPoints

Locals ==
  [pc : Points, message : Messages \cup {None}, seen : Nat, at : Nat, tries : Nat,
   claim : Claims \cup {None}, code : FailureCodes \cup {None}]

ItemType ==
  /\ item \in [status : {"approved", "publishing", "published"}, version : Nat,
               publication : Publications \cup {None}]
  /\ clock \in Nat
  /\ item.status = "approved" => publication = None
  /\ item.status = "publishing" => publication # None /\ publication.phase # "succeeded"

\* What a command may rely on and has to keep.
ItemInv == ItemType /\ SchemaHolds

LocalsType == publisher \in [Publishers -> Locals]

\* A claim was made by one publisher, and not by a later command than the last.
ClaimsApart ==
  /\ \A p \in Publishers :
       publisher[p].claim # None => publisher[p].claim.attempt <= item.version
  /\ \A p, q \in Publishers :
       /\ publisher[p].claim # None /\ publisher[q].claim # None
       /\ publisher[p].claim.attempt = publisher[q].claim.attempt
       => p = q

\* Who works under a lease that runs has the claim that is on record.
Recorded(p) ==
  Working(p) /\ LeaseLive(publisher[p].claim, clock) =>
    publication # None /\ publication.claim = publisher[p].claim

PublicationInv ==
  ItemInv /\ LocalsType /\ ClaimsApart /\ \A p \in Publishers : Recorded(p)

LEMMA Constants ==
  /\ MaxAttempts \in Nat \ {0} /\ MaxGenerations \in Nat \ {0} /\ Lease \in Nat \ {0}
  /\ None \notin Nat /\ None \notin Claims /\ None \notin Outcomes
  /\ None \notin Publications
BY PublicationAssumption

USE Constants
-----------------------------------------------------------------------------
(* The commands of the item.                                               *)

LEMMA WriteTyped ==
  ASSUME ItemType, NEW status \in {"approved", "publishing", "published"},
         NEW next \in Publications, Write(status, next), clock' = clock,
         status = "publishing" => next.phase # "succeeded", status # "approved"
  PROVE  /\ ItemType' /\ publication' = next /\ item'.status = status
         /\ item'.version = item.version + 1
  BY DEF ItemType, Write, publication

LEMMA NextClaimTyped ==
  ASSUME ItemType, NEW now \in Nat
  PROVE  ClaimOf(now) \in Claims /\ ClaimOf(now).attempt = item.version + 1
  BY DEF ItemType, ClaimOf, Claims

LEMMA RequestKeeps ==
  ASSUME ItemInv, RequestPublication
  PROVE  ItemInv'
<1> DEFINE next == [generation |-> 1, phase |-> "queued", attempts |-> 0, claim |-> None,
                    last |-> None, deliveryFailure |-> None, artifact |-> FALSE]
<1>1. next \in Publications
  BY DEF Publications, Phases
<1>2. Write("publishing", next) /\ clock' = clock
  BY DEF RequestPublication
<1>3. ItemType' /\ publication' = next
  BY <1>1, <1>2, WriteTyped DEF ItemInv
<1>4. SchemaHolds'
  BY <1>3 DEF SchemaHolds, Satisfies, FailedHere
<1> QED
  BY <1>3, <1>4 DEF ItemInv

LEMMA FieldsTyped ==
  ASSUME NEW pub \in Publications
  PROVE  /\ pub.generation \in Nat /\ pub.phase \in Phases /\ pub.attempts \in Nat
         /\ pub.claim \in Claims \cup {None} /\ pub.last \in Outcomes \cup {None}
         /\ pub.deliveryFailure \in Nat \cup {None} /\ pub.artifact \in BOOLEAN
  BY DEF Publications

\* What a command of a publication under way finds.
LEMMA Present ==
  ASSUME ItemInv, NEW g, Active(g)
  PROVE  /\ publication # None /\ publication \in Publications /\ Satisfies(publication)
         /\ publication.phase # "succeeded" /\ item.version \in Nat /\ clock \in Nat
  BY DEF ItemInv, ItemType, SchemaHolds, Active, publication

LEMMA ClaimKeeps ==
  ASSUME ItemInv, NEW g, NEW now \in Nat, MayClaim(g, now), Claim(now), clock' = clock
  PROVE  /\ ItemInv' /\ item'.version = item.version + 1
         /\ publication' # None /\ publication'.claim = ClaimOf(now)
<1> DEFINE last == [attempt |-> item.version + 1, status |-> "claimed", code |-> None,
                    generation |-> publication.generation]
           claim == ClaimOf(now)
           next == [publication EXCEPT !.phase = "running", !.attempts = @ + 1,
                                       !.claim = claim, !.last = last]
<1>1. /\ publication \in Publications /\ Satisfies(publication) /\ item.version \in Nat
      /\ publication.phase # "succeeded"
  BY Present DEF MayClaim
<1>2. claim \in Claims /\ claim.attempt = item.version + 1 /\ claim # None
  BY NextClaimTyped DEF ItemInv
<1>3. publication.generation \in Nat /\ publication.attempts \in Nat
  BY <1>1, FieldsTyped
<1>4. last \in Outcomes /\ last # None
  BY <1>1, <1>3 DEF Outcomes
<1>5. Write("publishing", next)
  BY DEF Claim
<1>6. /\ next \in Publications
      /\ next.phase = "running" /\ next.attempts = publication.attempts + 1
      /\ next.claim = claim /\ next.last = last
      /\ next.generation = publication.generation /\ next.artifact = publication.artifact
      /\ next.deliveryFailure = publication.deliveryFailure
  <2>1. "running" \in Phases /\ publication.attempts + 1 \in Nat
    BY <1>3 DEF Phases
  <2> HIDE DEF claim, last
  <2> QED
    BY <1>1, <1>2, <1>4, <2>1 DEF Publications
<1>7. publication.attempts < MaxAttempts /\ publication.phase \in {"queued", "running"}
  BY DEF MayClaim
<1>8. ItemType' /\ publication' = next /\ item'.version = item.version + 1
  <2> HIDE DEF next
  <2> QED
    BY <1>5, <1>6, WriteTyped DEF ItemInv
<1>9. Satisfies(next)
  <2>1. ~publication.artifact /\ publication.deliveryFailure = None
    BY <1>1, <1>7 DEF Satisfies
  <2>2. last.status = "claimed" /\ last.attempt = claim.attempt
    BY <1>2
  <2>3. last.generation = publication.generation /\ publication.generation <= MaxGenerations
    BY <1>1 DEF Satisfies
  <2> HIDE DEF next, claim, last
  <2>4. ~FailedHere(next)
    BY <1>6, <2>2 DEF FailedHere
  <2>5. next.attempts > 0 /\ next.attempts <= MaxAttempts
    BY <1>3, <1>6, <1>7
  <2> QED
    BY <1>2, <1>3, <1>4, <1>6, <2>1, <2>2, <2>3, <2>4, <2>5 DEF Satisfies
<1> QED
  BY <1>2, <1>6, <1>8, <1>9 DEF ItemInv, SchemaHolds

\* The attempt that is running is the last one.
LEMMA Running ==
  ASSUME ItemInv, NEW g, NEW claim, NEW now, Fenced(g, claim, now)
  PROVE  /\ publication # None /\ publication \in Publications /\ Satisfies(publication)
         /\ publication.claim = claim /\ claim \in Claims /\ publication.phase = "running"
         /\ publication.last \in Outcomes /\ publication.last.attempt = claim.attempt
         /\ publication.last.generation = publication.generation
         /\ publication.attempts \in Nat /\ publication.attempts > 0
         /\ publication.deliveryFailure = None /\ ~publication.artifact
<1>1. /\ publication # None /\ publication \in Publications /\ Satisfies(publication)
      /\ publication.phase = "running" /\ publication.claim = claim
  BY Present DEF Fenced
<1>2. /\ publication.claim \in Claims \cup {None} /\ publication.last \in Outcomes \cup {None}
      /\ publication.attempts \in Nat
  BY <1>1, FieldsTyped
<1>3. claim # None /\ publication.attempts > 0 /\ publication.last # None
  BY <1>1 DEF Satisfies
<1> QED
  BY <1>1, <1>2, <1>3 DEF Satisfies

LEMMA StatusTyped ==
  ASSUME NEW last \in Outcomes, NEW status \in {"claimed", "succeeded", "failed", "expired"}
  PROVE  /\ [last EXCEPT !.status = status] \in Outcomes
         /\ [last EXCEPT !.status = status] # None
         /\ [last EXCEPT !.status = status].status = status
         /\ [last EXCEPT !.status = status].attempt = last.attempt
         /\ [last EXCEPT !.status = status].generation = last.generation
<1>1. [last EXCEPT !.status = status] \in Outcomes
  BY DEF Outcomes
<1> QED
  BY <1>1 DEF Outcomes

LEMMA CompleteKeeps ==
  ASSUME ItemInv, NEW g, NEW claim, NEW now, Fenced(g, claim, now), Complete, clock' = clock
  PROVE  /\ ItemInv' /\ item'.version = item.version + 1
         /\ facts' = facts \cup {Stage(claim.attempt, "succeeded")}
<1> DEFINE last == [publication.last EXCEPT !.status = "succeeded"]
           next == [publication EXCEPT !.phase = "succeeded", !.claim = None,
                                       !.artifact = TRUE, !.last = last]
<1>1. /\ publication \in Publications /\ Satisfies(publication)
      /\ publication.last \in Outcomes /\ publication.last.attempt = claim.attempt
      /\ publication.last.generation = publication.generation
      /\ publication.attempts > 0 /\ publication.deliveryFailure = None
  BY Running
<1>2. last \in Outcomes /\ last # None /\ last.status = "succeeded"
      /\ last.generation = publication.generation
  BY <1>1, StatusTyped
<1>3. Write("published", next)
  BY DEF Complete
<1>4. /\ next \in Publications
      /\ next.phase = "succeeded" /\ next.attempts = publication.attempts
      /\ next.claim = None /\ next.last = last /\ next.artifact
      /\ next.generation = publication.generation
      /\ next.deliveryFailure = publication.deliveryFailure
  <2> HIDE DEF last
  <2> QED
    BY <1>1, <1>2 DEF Publications, Phases
<1>5. ItemType' /\ publication' = next /\ item'.version = item.version + 1
  <2> HIDE DEF next
  <2> QED
    BY <1>3, <1>4, WriteTyped DEF ItemInv
<1>6. Satisfies(next)
  <2>1. publication.generation \in Nat /\ publication.generation <= MaxGenerations
    BY <1>1, FieldsTyped DEF Satisfies
  <2>2. publication.attempts <= MaxAttempts
    BY <1>1 DEF Satisfies
  <2> HIDE DEF next, last
  <2>3. ~FailedHere(next)
    BY <1>2, <1>4 DEF FailedHere
  <2> QED
    BY <1>1, <1>2, <1>4, <2>1, <2>2, <2>3 DEF Satisfies
<1> QED
  BY <1>1, <1>4, <1>5, <1>6 DEF ItemInv, SchemaHolds, Complete

LEMMA FailKeeps ==
  ASSUME ItemInv, NEW g, NEW claim, NEW now, Fenced(g, claim, now),
         NEW code \in FailureCodes \cup {None}, FailAttempt(code), clock' = clock
  PROVE  /\ ItemInv' /\ item'.version = item.version + 1
         /\ facts' = facts \cup {Stage(claim.attempt, "failed")}
<1> DEFINE last == [publication.last EXCEPT !.status = "failed", !.code = code]
           phase == IF EndsCycle(code) THEN "failed" ELSE "queued"
           next == [publication EXCEPT !.phase = phase, !.claim = None, !.last = last]
<1>1. /\ publication \in Publications /\ Satisfies(publication)
      /\ publication.last \in Outcomes /\ publication.last.attempt = claim.attempt
      /\ publication.last.generation = publication.generation
      /\ publication.attempts > 0 /\ publication.deliveryFailure = None
      /\ ~publication.artifact
  BY Running
<1>2. last \in Outcomes /\ last # None /\ last.status = "failed" /\ last.code = code
      /\ last.generation = publication.generation
  <2>1. last \in Outcomes
    BY <1>1 DEF Outcomes
  <2> QED
    BY <1>1, <2>1 DEF Outcomes
<1>3. Write("publishing", next)
  BY DEF FailAttempt
<1>4. /\ next \in Publications
      /\ next.phase = phase /\ next.attempts = publication.attempts
      /\ next.claim = None /\ next.last = last /\ next.artifact = publication.artifact
      /\ next.generation = publication.generation
      /\ next.deliveryFailure = publication.deliveryFailure
  <2>1. phase \in Phases
    BY DEF Phases
  <2> HIDE DEF last, phase
  <2> QED
    BY <1>1, <1>2, <2>1 DEF Publications
<1>5. ItemType' /\ publication' = next /\ item'.version = item.version + 1
  <2>1. phase # "succeeded"
    OBVIOUS
  <2> HIDE DEF next, phase
  <2> QED
    BY <1>3, <1>4, <2>1, WriteTyped DEF ItemInv
<1>6. Satisfies(next)
  <2>1. publication.generation \in Nat /\ publication.generation <= MaxGenerations
    BY <1>1, FieldsTyped DEF Satisfies
  <2>2. publication.attempts <= MaxAttempts
    BY <1>1 DEF Satisfies
  <2>3. /\ phase \in {"failed", "queued"}
        /\ phase = "failed" <=> Fatal(code) \/ publication.attempts >= MaxAttempts
    BY DEF EndsCycle
  <2> HIDE DEF next, last, phase
  <2>4. FailedHere(next)
    BY <1>2, <1>4 DEF FailedHere
  <2> QED
    BY <1>1, <1>2, <1>4, <2>1, <2>2, <2>3, <2>4 DEF Satisfies
<1> QED
  BY <1>1, <1>4, <1>5, <1>6 DEF ItemInv, SchemaHolds, FailAttempt

\* An attempt whose claim is dropped has expired, and its outcome is no failure.
LEMMA Dropped ==
  ASSUME NEW pub, pub = publication, pub \in Publications, Satisfies(pub),
         NEW last, last = Expired(pub.last)
  PROVE  /\ last \in Outcomes \cup {None}
         /\ last # None => pub.last # None /\ last.generation = pub.last.generation
         /\ last # None => last.status # "claimed"
         /\ last # None /\ last.status = "failed" => last = pub.last
         /\ last = None => pub.last = None
<1>1. pub.claim \in Claims \cup {None} /\ pub.last \in Outcomes \cup {None}
      /\ pub.attempts \in Nat
  BY FieldsTyped
<1>2. CASE pub.claim = None
  <2>1. last = pub.last
    BY <1>2 DEF Expired
  <2>2. pub.last # None => pub.last.status # "claimed"
    BY <1>2 DEF Satisfies
  <2> QED
    BY <1>1, <2>1, <2>2
<1>3. CASE pub.claim # None
  <2>1. last = [pub.last EXCEPT !.status = "expired"]
    BY <1>3 DEF Expired
  <2>2. pub.phase = "running"
    BY <1>3 DEF Satisfies
  <2>3. pub.last \in Outcomes
    BY <1>1, <2>2 DEF Satisfies
  <2>4. /\ [pub.last EXCEPT !.status = "expired"] \in Outcomes
        /\ [pub.last EXCEPT !.status = "expired"] # None
        /\ [pub.last EXCEPT !.status = "expired"].status = "expired"
        /\ [pub.last EXCEPT !.status = "expired"].generation = pub.last.generation
    BY <2>3, StatusTyped
  <2> QED
    BY <2>1, <2>3, <2>4
<1> QED
  BY <1>2, <1>3

LEMMA StallKeeps ==
  ASSUME ItemInv, NEW g, NEW now, MayReconcile(g, now), Stall, clock' = clock
  PROVE  ItemInv' /\ item'.version = item.version + 1 /\ facts' = facts \cup ExpiredFacts
<1> DEFINE pub == publication
           last == Expired(pub.last)
           next == [pub EXCEPT !.phase = "stalled", !.claim = None, !.last = last,
                               !.deliveryFailure = pub.generation]
<1>1. pub \in Publications /\ Satisfies(pub) /\ pub.phase \in {"queued", "running"}
  <2>1. pub \in Publications /\ Satisfies(pub)
    BY Present DEF MayReconcile
  <2> QED
    BY <2>1, FieldsTyped DEF MayReconcile, Terminal, Phases
<1>2. /\ pub.generation \in Nat /\ pub.attempts \in Nat /\ pub.artifact \in BOOLEAN
      /\ pub.last \in Outcomes \cup {None}
  BY <1>1, FieldsTyped
<1>3. /\ last \in Outcomes \cup {None}
      /\ last # None => pub.last # None /\ last.generation = pub.last.generation
      /\ last # None => last.status # "claimed"
      /\ last # None /\ last.status = "failed" => last = pub.last
      /\ last = None => pub.last = None
  BY <1>1, Dropped
<1>4. Write("publishing", next)
  BY DEF Stall
<1>5. /\ next \in Publications
      /\ next.phase = "stalled" /\ next.attempts = pub.attempts /\ next.claim = None
      /\ next.last = last /\ next.artifact = pub.artifact
      /\ next.generation = pub.generation /\ next.deliveryFailure = pub.generation
  <2> HIDE DEF pub, last
  <2> QED
    BY <1>1, <1>2, <1>3 DEF Publications, Phases
<1>6. ItemType' /\ publication' = next /\ item'.version = item.version + 1
  <2> HIDE DEF next
  <2> QED
    BY <1>4, <1>5, WriteTyped DEF ItemInv
<1>7. Satisfies(next)
  <2> HIDE DEF next, last, pub
  <2>1. ~pub.artifact
    BY <1>1 DEF Satisfies
  <2>2. FailedHere(next) => FailedHere(pub) /\ next.last = pub.last
    BY <1>3, <1>5 DEF FailedHere
  <2>3. FailedHere(next) => ~(Fatal(next.last.code) \/ next.attempts >= MaxAttempts)
    BY <1>1, <1>5, <2>2 DEF Satisfies
  <2>4. next.last # None =>
          /\ next.last.generation <= next.generation
          /\ next.last.generation = next.generation => next.attempts > 0
          /\ next.last.status # "claimed"
    BY <1>1, <1>3, <1>5 DEF Satisfies
  <2>5. next.attempts > 0 => next.last # None /\ next.last.generation = next.generation
    BY <1>1, <1>3, <1>5 DEF Satisfies
  <2>6. next.attempts <= MaxAttempts /\ next.generation <= MaxGenerations
    BY <1>1, <1>5 DEF Satisfies
  <2>7. next.deliveryFailure # None
    BY <1>2, <1>5
  <2> QED
    BY <1>5, <2>1, <2>3, <2>4, <2>5, <2>6, <2>7 DEF Satisfies
<1> QED
  BY <1>5, <1>6, <1>7 DEF ItemInv, SchemaHolds, Stall

LEMMA RetryKeeps ==
  ASSUME ItemInv, RetryPublication
  PROVE  ItemInv' /\ item'.version = item.version + 1 /\ facts' = facts \cup ExpiredFacts
<1> DEFINE pub == publication
           last == Expired(pub.last)
           generation == pub.generation + 1
           next == [pub EXCEPT !.generation = generation, !.phase = "queued", !.attempts = 0,
                               !.claim = None, !.last = last, !.deliveryFailure = None]
<1>1. pub # None /\ pub \in Publications /\ Satisfies(pub) /\ pub.phase # "succeeded"
  BY DEF ItemInv, ItemType, SchemaHolds, RetryPublication, MayRetry, publication
<1>2. /\ pub.generation \in Nat /\ pub.attempts \in Nat /\ pub.artifact \in BOOLEAN
      /\ pub.last \in Outcomes \cup {None}
  BY <1>1, FieldsTyped
<1>3. /\ last \in Outcomes \cup {None}
      /\ last # None => pub.last # None /\ last.generation = pub.last.generation
      /\ last # None => last.status # "claimed"
  BY <1>1, Dropped
<1>4. Write("publishing", next)
  BY DEF RetryPublication, Reopened
<1>5. /\ next \in Publications
      /\ next.phase = "queued" /\ next.attempts = 0 /\ next.claim = None
      /\ next.last = last /\ next.artifact = pub.artifact
      /\ next.generation = pub.generation + 1 /\ next.deliveryFailure = None
  <2>1. generation \in Nat /\ 0 \in Nat
    BY <1>2
  <2> HIDE DEF pub, last, generation
  <2> SUFFICES /\ next \in Publications
               /\ next.phase = "queued" /\ next.attempts = 0 /\ next.claim = None
               /\ next.last = last /\ next.artifact = pub.artifact
               /\ next.generation = generation /\ next.deliveryFailure = None
    BY DEF generation
  <2> QED
    BY <1>1, <1>2, <1>3, <2>1 DEF Publications, Phases
<1>6. ItemType' /\ publication' = next /\ item'.version = item.version + 1
  <2>1. clock' = clock
    BY DEF RetryPublication
  <2> HIDE DEF next
  <2> QED
    BY <1>4, <1>5, <2>1, WriteTyped DEF ItemInv
<1>7. Satisfies(next)
  <2>1. pub.generation < MaxGenerations
    BY DEF RetryPublication, MayRetry
  <2> HIDE DEF next, last, pub
  <2>2. ~pub.artifact
    BY <1>1 DEF Satisfies
  <2>3. last # None => last.generation <= pub.generation /\ last.generation \in Nat
    <3>1. last \in Outcomes => last.generation \in Nat
      BY DEF Outcomes
    <3> QED
      BY <1>1, <1>3, <3>1 DEF Satisfies
  <2>4. ~FailedHere(next)
    BY <1>2, <1>5, <2>3 DEF FailedHere
  <2> QED
    BY <1>2, <1>3, <1>5, <2>1, <2>2, <2>3, <2>4 DEF Satisfies
<1> QED
  BY <1>5, <1>6, <1>7 DEF ItemInv, SchemaHolds, RetryPublication
-----------------------------------------------------------------------------
(* The steps of a publisher: it works on quietly, claims, or closes what it *)
(* holds; the others stay where they are.                                   *)

Alone(p) ==
  LocalsType' /\ \A q \in Publishers : q # p => publisher'[q] = publisher[q]

Keeps(p, pc) ==
  Alone(p) /\ publisher'[p].pc = pc /\ publisher'[p].claim = publisher[p].claim

\* It works after the step only if it did before, or owns what it works on.
Quiet(p) ==
  /\ UNCHANGED <<item, facts>>
  /\ publisher'[p].claim \in {None, publisher[p].claim}
  /\ Working(p)' => publisher'[p].claim = publisher[p].claim /\ (Working(p) \/ Owned(p))

Claimed(p) ==
  \E now \in Nat :
    /\ now <= clock /\ MayClaim(Generation(p), now) /\ Claim(now)
    /\ publisher[p].claim = None /\ publisher'[p].claim \in {None, ClaimOf(now)}
    /\ ~Working(p)'

Closed(p) ==
  \E now \in Nat :
    /\ Fenced(Generation(p), publisher[p].claim, now)
    /\ Complete \/ \E code \in FailureCodes \cup {None} : FailAttempt(code)
    /\ publisher'[p].claim \in {None, publisher[p].claim}
    /\ ~Working(p)' /\ publisher'[p] # publisher[p]

Moves(p) == Alone(p) /\ clock' = clock /\ (Quiet(p) \/ Claimed(p) \/ Closed(p))

LEMMA LocalFields ==
  ASSUME LocalsType, NEW p \in Publishers
  PROVE  /\ publisher[p] \in Locals
         /\ publisher[p].pc \in Points /\ publisher[p].at \in Nat
         /\ publisher[p].tries \in Nat /\ publisher[p].claim \in Claims \cup {None}
         /\ publisher[p].code \in FailureCodes \cup {None}
  BY DEF LocalsType, Locals

LEMMA UpdateTyped ==
  ASSUME LocalsType, NEW p \in Publishers, NEW local \in Locals, Update(p, local)
  PROVE  Alone(p) /\ publisher'[p] = local
  BY DEF LocalsType, Update, Alone

LEMMA EndTyped ==
  ASSUME LocalsType, NEW p \in Publishers, Update(p, Idle)
  PROVE  Alone(p) /\ publisher'[p].claim = None /\ publisher'[p].pc = "idle"
<1>1. Idle \in Locals
  BY DEF Idle, Locals, Points
<1> QED
  BY <1>1, UpdateTyped DEF Idle

LEMMA GotoTyped ==
  ASSUME LocalsType, NEW p \in Publishers, NEW pc \in Points, Goto(p, pc)
  PROVE  Keeps(p, pc)
<1> DEFINE local == [publisher[p] EXCEPT !.pc = pc]
<1>1. local \in Locals /\ local.pc = pc /\ local.claim = publisher[p].claim
  BY LocalFields DEF Locals
<1>2. Update(p, local)
  BY DEF Goto
<1> HIDE DEF local
<1> QED
  BY <1>1, <1>2, UpdateTyped DEF Keeps

LEMMA LoadedTyped ==
  ASSUME LocalsType, ItemType, NEW p \in Publishers, NEW pc \in Points, Loaded(p, pc)
  PROVE  Keeps(p, pc)
<1> DEFINE version == item.version
           local == [publisher[p] EXCEPT !.pc = pc, !.seen = version, !.at = clock]
<1>1. local \in Locals /\ local.pc = pc /\ local.claim = publisher[p].claim
  <2>1. version \in Nat /\ clock \in Nat
    BY DEF ItemType
  <2> HIDE DEF version
  <2> QED
    BY <2>1, LocalFields DEF Locals
<1>2. Update(p, local)
  BY DEF Loaded
<1> HIDE DEF local
<1> QED
  BY <1>1, <1>2, UpdateTyped DEF Keeps

LEMMA CaughtTyped ==
  ASSUME LocalsType, NEW p \in Publishers, NEW code \in FailureCodes \cup {None},
         Caught(p, code)
  PROVE  Keeps(p, "settle")
<1> DEFINE local == [publisher[p] EXCEPT !.pc = "settle", !.code = code, !.tries = 0,
                                         !.seen = 0, !.at = 0]
<1>1. local \in Locals /\ local.pc = "settle" /\ local.claim = publisher[p].claim
  BY LocalFields DEF Locals, Points
<1>2. Update(p, local)
  BY DEF Caught
<1> HIDE DEF local
<1> QED
  BY <1>1, <1>2, UpdateTyped DEF Keeps

LEMMA AgainTyped ==
  ASSUME LocalsType, NEW p \in Publishers, NEW pc \in Points,
         Update(p, [publisher[p] EXCEPT !.pc = pc, !.tries = @ + 1, !.seen = 0, !.at = 0])
  PROVE  Keeps(p, pc)
<1> DEFINE tries == publisher[p].tries + 1
           local == [publisher[p] EXCEPT !.pc = pc, !.tries = tries, !.seen = 0, !.at = 0]
<1>1. local \in Locals /\ local.pc = pc /\ local.claim = publisher[p].claim
  <2>1. tries \in Nat
    BY LocalFields
  <2> HIDE DEF tries
  <2> QED
    BY <2>1, LocalFields DEF Locals
<1>2. Update(p, local)
  OBVIOUS
<1> HIDE DEF local
<1> QED
  BY <1>1, <1>2, UpdateTyped DEF Keeps

LEMMA QuietKeeps ==
  ASSUME NEW p \in Publishers, NEW pc, Keeps(p, pc), UNCHANGED <<clock, item, facts>>,
         pc \in WorkingPoints => Working(p) \/ Owned(p)
  PROVE  Moves(p)
<1>1. Working(p)' => pc \in WorkingPoints
  BY DEF Keeps, Working, WorkingPoints
<1> QED
  BY <1>1 DEF Moves, Quiet, Keeps

LEMMA QuietEnds ==
  ASSUME LocalsType, NEW p \in Publishers, Update(p, Idle), UNCHANGED <<clock, item, facts>>
  PROVE  Moves(p)
<1>1. Alone(p) /\ publisher'[p].claim = None /\ ~Working(p)'
  BY EndTyped DEF Working
<1> QED
  BY <1>1 DEF Moves, Quiet

LEMMA ReadSteps ==
  ASSUME LocalsType, ItemType, NEW p \in Publishers,
         \/ LoadForClaim(p) \/ VerifyClaim(p) \/ LoadBeforeWrite(p) \/ WriteObject(p)
         \/ LoadForCompletion(p) \/ Settle(p) \/ LoadForFailure(p) \/ Crash(p)
         \/ \E m \in Messages : Deliver(p, m)
  PROVE  Moves(p)
<1>1. CASE LoadForClaim(p)
  <2>1. UNCHANGED <<clock, item, facts>> /\ (Update(p, Idle) \/ Loaded(p, "claim"))
    BY <1>1 DEF LoadForClaim, Answer, Throw, End
  <2>2. "claim" \in Points \ WorkingPoints
    BY DEF Points, WorkingPoints
  <2> QED
    BY <2>1, <2>2, QuietEnds, LoadedTyped, QuietKeeps
<1>2. CASE VerifyClaim(p)
  <2>1. CASE Owned(p)
    <3>1. UNCHANGED <<clock, item, facts>>
      BY <1>2 DEF VerifyClaim
    <3> DEFINE local == [publisher[p] EXCEPT !.pc = "own", !.tries = 0]
    <3>2. local \in Locals /\ local.pc = "own" /\ local.claim = publisher[p].claim
      BY LocalFields DEF Locals, Points, WorkingPoints
    <3>3. Update(p, local)
      BY <1>2, <2>1 DEF VerifyClaim
    <3> HIDE DEF local
    <3>4. Keeps(p, "own")
      BY <3>2, <3>3, UpdateTyped DEF Keeps
    <3> QED
      BY <2>1, <3>1, <3>4, QuietKeeps
  <2>2. CASE ~Owned(p)
    <3>1. /\ UNCHANGED <<clock, item, facts>>
          /\ \/ Update(p, Idle)
             \/ Update(p, [publisher[p] EXCEPT !.pc = "load", !.tries = @ + 1,
                                               !.seen = 0, !.at = 0])
      BY <1>2, <2>2 DEF VerifyClaim, Again, Throw, End
    <3>2. "load" \in Points \ WorkingPoints
      BY DEF Points, WorkingPoints
    <3> QED
      BY <3>1, <3>2, QuietEnds, AgainTyped, QuietKeeps
  <2> QED
    BY <2>1, <2>2
<1>3. CASE LoadBeforeWrite(p)
  <2>1. /\ UNCHANGED <<clock, item, facts>> /\ Working(p)
        /\ \/ Goto(p, "write")
           \/ \E code \in FailureCodes \cup {None} : Caught(p, code)
    BY <1>3 DEF LoadBeforeWrite, Conflict, FailureCodes, Working
  <2>2. "write" \in Points
    BY DEF Points, WorkingPoints
  <2> QED
    BY <2>1, <2>2, GotoTyped, CaughtTyped, QuietKeeps
<1>4. CASE WriteObject(p)
  <2>1. /\ UNCHANGED <<clock, item, facts>> /\ Working(p)
        /\ \/ Goto(p, "finish")
           \/ \E code \in FailureCodes \cup {None} : Caught(p, code)
    BY <1>4 DEF WriteObject, FailureCodes, Working
  <2>2. "finish" \in Points
    BY DEF Points, WorkingPoints
  <2> QED
    BY <2>1, <2>2, GotoTyped, CaughtTyped, QuietKeeps
<1>5. CASE LoadForCompletion(p)
  <2>1. /\ UNCHANGED <<clock, item, facts>> /\ Working(p)
        /\ \/ Update(p, Idle) \/ Loaded(p, "complete")
           \/ \E code \in FailureCodes \cup {None} : Caught(p, code)
    BY <1>5 DEF LoadForCompletion, Answer, End, Conflict, FailureCodes, Working
  <2>2. "complete" \in Points
    BY DEF Points, WorkingPoints
  <2> QED
    BY <2>1, <2>2, QuietEnds, LoadedTyped, CaughtTyped, QuietKeeps
<1>6. CASE Settle(p)
  <2>1. UNCHANGED <<clock, item, facts>> /\ (Update(p, Idle) \/ Goto(p, "reread"))
    BY <1>6 DEF Settle, Answer, Throw, End
  <2>2. "reread" \in Points \ WorkingPoints
    BY DEF Points, WorkingPoints
  <2> QED
    BY <2>1, <2>2, QuietEnds, GotoTyped, QuietKeeps
<1>7. CASE LoadForFailure(p)
  <2>1. UNCHANGED <<clock, item, facts>> /\ (Update(p, Idle) \/ Loaded(p, "fail"))
    BY <1>7 DEF LoadForFailure, Throw, End
  <2>2. "fail" \in Points \ WorkingPoints
    BY DEF Points, WorkingPoints
  <2> QED
    BY <2>1, <2>2, QuietEnds, LoadedTyped, QuietKeeps
<1>8. CASE Crash(p)
  <2>1. UNCHANGED <<clock, item, facts>> /\ Update(p, Idle)
    BY <1>8 DEF Crash, Throw, End
  <2> QED
    BY <2>1, QuietEnds
<1>9. CASE \E m \in Messages : Deliver(p, m)
  <2>1. PICK m \in Messages : Deliver(p, m)
    BY <1>9
  <2> DEFINE local == [Idle EXCEPT !.pc = "load", !.message = m]
  <2>2. /\ UNCHANGED <<clock, item, facts>> /\ Update(p, local)
        /\ local \in Locals /\ local.pc = "load" /\ local.claim = None
    BY <2>1 DEF Deliver, Idle, Locals, Points
  <2> HIDE DEF local
  <2>3. Alone(p) /\ publisher'[p].claim = None /\ publisher'[p].pc = "load"
    BY <2>2, UpdateTyped
  <2> QED
    BY <2>2, <2>3 DEF Moves, Quiet, Working
<1> QED
  BY <1>1, <1>2, <1>3, <1>4, <1>5, <1>6, <1>7, <1>8, <1>9

LEMMA ClaimStep ==
  ASSUME LocalsType, ItemType, NEW p \in Publishers, DispatchClaim(p)
  PROVE  Moves(p)
<1>1. clock' = clock /\ "load" \in Points \ WorkingPoints /\ "verify" \in Points
  BY DEF DispatchClaim, Points, WorkingPoints
<1>2. PICK now \in DispatchTimes(p) :
        \/ Throw(p) /\ UNCHANGED <<item, facts>>
        \/ Again(p, "load", Throw(p)) /\ UNCHANGED <<item, facts>>
        \/ /\ publisher[p].claim = None /\ MayClaim(Generation(p), now) /\ Claim(now)
           /\ \/ Update(p, [publisher[p] EXCEPT !.pc = "verify", !.claim = ClaimOf(now),
                                                !.seen = 0, !.at = 0])
              \/ Throw(p)
  BY DEF DispatchClaim
<1>3. now \in Nat /\ now <= clock
  BY LocalFields DEF DispatchTimes, ItemType
<1>4. CASE Throw(p) /\ UNCHANGED <<item, facts>>
  BY <1>1, <1>4, QuietEnds DEF Throw, End
<1>5. CASE Again(p, "load", Throw(p)) /\ UNCHANGED <<item, facts>>
  <2>1. \/ Update(p, Idle)
        \/ Update(p, [publisher[p] EXCEPT !.pc = "load", !.tries = @ + 1,
                                          !.seen = 0, !.at = 0])
    BY <1>5 DEF Again, Throw, End
  <2> QED
    BY <1>1, <1>5, <2>1, QuietEnds, AgainTyped, QuietKeeps
<1>6. CASE /\ publisher[p].claim = None /\ MayClaim(Generation(p), now) /\ Claim(now)
           /\ \/ Update(p, [publisher[p] EXCEPT !.pc = "verify", !.claim = ClaimOf(now),
                                                !.seen = 0, !.at = 0])
              \/ Throw(p)
  <2> DEFINE claim == ClaimOf(now)
             local == [publisher[p] EXCEPT !.pc = "verify", !.claim = claim,
                                           !.seen = 0, !.at = 0]
  <2>1. local \in Locals /\ local.pc = "verify" /\ local.claim = claim
    <3>1. claim \in Claims
      BY <1>3, NextClaimTyped
    <3> HIDE DEF claim
    <3> QED
      BY <1>1, <3>1, LocalFields DEF Locals
  <2>2. Update(p, local) \/ Update(p, Idle)
    BY <1>6 DEF Throw, End
  <2> HIDE DEF local
  <2>3. Alone(p) /\ publisher'[p].claim \in {None, claim} /\ publisher'[p].pc \in {"verify", "idle"}
    BY <2>1, <2>2, UpdateTyped, EndTyped
  <2>4. ~Working(p)'
    BY <2>3 DEF Working
  <2> QED
    BY <1>1, <1>3, <1>6, <2>3, <2>4 DEF Moves, Claimed
<1> QED
  BY <1>2, <1>4, <1>5, <1>6

LEMMA ClosingSteps ==
  ASSUME LocalsType, ItemType, NEW p \in Publishers, DispatchCompletion(p) \/ DispatchFailure(p)
  PROVE  Moves(p)
<1>1. /\ clock' = clock /\ {"finish", "reread"} \subseteq Points /\ "reread" \notin WorkingPoints
      /\ publisher[p].pc \in {"complete", "fail"}
      /\ publisher[p].code \in FailureCodes \cup {None}
  BY LocalFields DEF DispatchCompletion, DispatchFailure, Points, WorkingPoints
<1>2. CASE DispatchCompletion(p)
  <2>1. PICK now \in DispatchTimes(p) :
          \/ /\ Fenced(Generation(p), publisher[p].claim, now) /\ Complete
             /\ Answer(p) \/ Caught(p, "execution.interrupted")
          \/ UNCHANGED <<item, facts>> /\ Again(p, "finish", Caught(p, Conflict))
          \/ UNCHANGED <<item, facts>> /\ Caught(p, "execution.interrupted")
    BY <1>2 DEF DispatchCompletion, Again
  <2>2. now \in Nat
    BY LocalFields DEF DispatchTimes, ItemType
  <2>3. Working(p)
    BY <1>2 DEF DispatchCompletion, Working
  <2>4. "execution.interrupted" \in FailureCodes
    BY DEF FailureCodes
  <2>5. CASE /\ Fenced(Generation(p), publisher[p].claim, now) /\ Complete
             /\ Answer(p) \/ Caught(p, "execution.interrupted")
    <3>1. /\ Alone(p) /\ publisher'[p].claim \in {None, publisher[p].claim}
          /\ publisher'[p].pc \in {"idle", "settle"}
      BY <2>4, <2>5, EndTyped, CaughtTyped DEF Answer, End, Keeps
    <3> QED
      BY <1>1, <2>2, <2>5, <3>1 DEF Moves, Closed, Working
  <2>6. CASE UNCHANGED <<item, facts>> /\ Again(p, "finish", Caught(p, Conflict))
    <3>1. \/ Caught(p, None)
          \/ Update(p, [publisher[p] EXCEPT !.pc = "finish", !.tries = @ + 1,
                                            !.seen = 0, !.at = 0])
      BY <2>6 DEF Again, Conflict
    <3> QED
      BY <1>1, <2>3, <2>6, <3>1, CaughtTyped, AgainTyped, QuietKeeps
  <2>7. CASE UNCHANGED <<item, facts>> /\ Caught(p, "execution.interrupted")
    BY <1>1, <2>3, <2>4, <2>7, CaughtTyped, QuietKeeps
  <2> QED
    BY <2>1, <2>5, <2>6, <2>7
<1>3. CASE DispatchFailure(p)
  <2>1. PICK now \in DispatchTimes(p) :
          \/ /\ Fenced(Generation(p), publisher[p].claim, now)
             /\ FailAttempt(publisher[p].code) /\ Throw(p)
          \/ UNCHANGED <<item, facts>> /\ Again(p, "reread", Throw(p))
    BY <1>3 DEF DispatchFailure
  <2>2. now \in Nat
    BY LocalFields DEF DispatchTimes, ItemType
  <2>3. CASE /\ Fenced(Generation(p), publisher[p].claim, now)
             /\ FailAttempt(publisher[p].code) /\ Throw(p)
    <3>1. Alone(p) /\ publisher'[p].claim = None /\ publisher'[p].pc = "idle"
      BY <2>3, EndTyped DEF Throw, End
    <3> QED
      BY <1>1, <2>2, <2>3, <3>1 DEF Moves, Closed, Working
  <2>4. CASE UNCHANGED <<item, facts>> /\ Again(p, "reread", Throw(p))
    <3>1. \/ Update(p, Idle)
          \/ Update(p, [publisher[p] EXCEPT !.pc = "reread", !.tries = @ + 1,
                                            !.seen = 0, !.at = 0])
      BY <2>4 DEF Again, Throw, End
    <3> QED
      BY <1>1, <2>4, <3>1, QuietEnds, AgainTyped, QuietKeeps
  <2> QED
    BY <2>1, <2>3, <2>4
<1> QED
  BY <1>2, <1>3
-----------------------------------------------------------------------------
LEMMA InitInv == Init => PublicationInv
<1> SUFFICES ASSUME Init PROVE PublicationInv
  OBVIOUS
<1>1. Idle \in Locals /\ Idle.claim = None /\ Idle.pc = "idle"
  BY DEF Idle, Locals, Points
<1>2. \A p \in Publishers : publisher[p] = Idle
  BY DEF Init
<1>3. LocalsType
  BY <1>1 DEF Init, LocalsType
<1>4. ItemInv
  BY DEF Init, ItemInv, ItemType, SchemaHolds, publication
<1>5. ClaimsApart /\ \A p \in Publishers : Recorded(p)
  BY <1>1, <1>2 DEF ClaimsApart, Recorded, LeaseLive
<1> QED
  BY <1>3, <1>4, <1>5 DEF PublicationInv

\* Whoever works under a lease that runs is the one the running lease was given to.
LEMMA Holds ==
  ASSUME PublicationInv, NEW q \in Publishers, Working(q), LeaseLive(publisher[q].claim, clock)
  PROVE  /\ publication # None /\ publication.claim = publisher[q].claim
         /\ publisher[q].claim \in Claims /\ clock \in Nat
         /\ \A now \in Nat : now <= clock => LeaseLive(publication.claim, now)
<1>1. publication # None /\ publication.claim = publisher[q].claim /\ clock \in Nat
  BY DEF PublicationInv, Recorded, ItemInv, ItemType
<1>2. publisher[q].claim # None /\ publisher[q].claim.leaseUntil > clock
  BY DEF LeaseLive
<1>3. publisher[q].claim \in Claims
  BY <1>2, LocalFields DEF PublicationInv
<1>4. publisher[q].claim.leaseUntil \in Nat
  BY <1>3 DEF Claims
<1> QED
  BY <1>1, <1>2, <1>3, <1>4 DEF LeaseLive

\* A command of nobody's own waits for the lease to end.
LEMMA OthersKeep ==
  ASSUME PublicationInv, UNCHANGED <<clock, publisher>>, ItemInv',
         item'.version >= item.version,
         publication' = publication \/ publication = None \/ ~LeaseLive(publication.claim, clock)
  PROVE  PublicationInv'
<1>1. LocalsType'
  BY DEF PublicationInv, LocalsType
<1>2. ClaimsApart'
  <2>1. \A p \in Publishers :
          publisher[p].claim # None => publisher[p].claim.attempt <= item'.version
    <3> TAKE p \in Publishers
    <3> HAVE publisher[p].claim # None
    <3>1. publisher[p].claim \in Claims
      BY LocalFields DEF PublicationInv
    <3>2. publisher[p].claim.attempt \in Nat /\ publisher[p].claim.attempt <= item.version
      BY <3>1 DEF Claims, PublicationInv, ClaimsApart
    <3>3. item.version \in Nat /\ item'.version \in Nat
      BY DEF PublicationInv, ItemInv, ItemType
    <3> QED
      BY <3>2, <3>3
  <2> QED
    BY <2>1 DEF PublicationInv, ClaimsApart
<1>3. ASSUME NEW q \in Publishers PROVE Recorded(q)'
  <2>1. CASE Working(q) /\ LeaseLive(publisher[q].claim, clock)
    <3>1. publication # None /\ publication.claim = publisher[q].claim
          /\ LeaseLive(publication.claim, clock)
      BY <2>1, Holds
    <3> QED
      BY <3>1 DEF Recorded
  <2>2. CASE ~(Working(q) /\ LeaseLive(publisher[q].claim, clock))
    BY <2>2 DEF Recorded, Working, LeaseLive
  <2> QED
    BY <2>1, <2>2
<1> QED
  BY <1>1, <1>2, <1>3 DEF PublicationInv

LEMMA QuietInv ==
  ASSUME PublicationInv, NEW p \in Publishers, Alone(p), clock' = clock, Quiet(p)
  PROVE  PublicationInv'
<1>1. item' = item /\ publication' = publication
  BY DEF Quiet, publication
<1>2. ItemInv' /\ LocalsType'
  BY <1>1 DEF PublicationInv, ItemInv, ItemType, SchemaHolds, Alone
<1>3. ClaimsApart'
  BY <1>1 DEF PublicationInv, ClaimsApart, Quiet, Alone
<1>4. ASSUME NEW q \in Publishers PROVE Recorded(q)'
  <2>1. CASE q # p
    BY <1>1, <1>4, <2>1 DEF PublicationInv, Recorded, Alone, Working, LeaseLive
  <2>2. CASE q = p /\ Working(p)'
    <3>1. publisher'[p].claim = publisher[p].claim /\ (Working(p) \/ Owned(p))
      BY <2>2 DEF Quiet
    <3>2. CASE Working(p)
      BY <1>1, <2>2, <3>1, <3>2 DEF PublicationInv, Recorded, LeaseLive
    <3>3. CASE Owned(p)
      <4>1. publication # None /\ publication.claim = publisher[p].claim
        BY <3>3, Running DEF Owned, PublicationInv
      <4> QED
        BY <1>1, <2>2, <3>1, <4>1 DEF Recorded
    <3> QED
      BY <3>1, <3>2, <3>3
  <2>3. CASE q = p /\ ~Working(p)'
    BY <2>3 DEF Recorded
  <2> QED
    BY <2>1, <2>2, <2>3
<1> QED
  BY <1>2, <1>3, <1>4 DEF PublicationInv

LEMMA ClaimedInv ==
  ASSUME PublicationInv, NEW p \in Publishers, Alone(p), clock' = clock, Claimed(p)
  PROVE  PublicationInv'
<1>1. PICK now \in Nat :
        /\ now <= clock /\ MayClaim(Generation(p), now) /\ Claim(now)
        /\ publisher'[p].claim \in {None, ClaimOf(now)} /\ ~Working(p)'
  BY DEF Claimed
<1>2. /\ ItemInv' /\ item'.version = item.version + 1 /\ item.version \in Nat
  BY <1>1, ClaimKeeps DEF PublicationInv, ItemInv, ItemType
<1>3. ClaimOf(now) \in Claims /\ ClaimOf(now).attempt = item.version + 1
  BY NextClaimTyped DEF PublicationInv, ItemInv
<1>4. ASSUME NEW q \in Publishers, q # p, publisher[q].claim # None
      PROVE  publisher[q].claim.attempt \in Nat /\ publisher[q].claim.attempt <= item.version
  <2>1. publisher[q].claim \in Claims
    BY <1>4, LocalFields DEF PublicationInv
  <2> QED
    BY <1>4, <2>1 DEF Claims, PublicationInv, ClaimsApart
<1>5. ClaimsApart'
  <2>1. ASSUME NEW q \in Publishers, publisher'[q].claim # None
        PROVE  publisher'[q].claim.attempt <= item'.version
    BY <1>1, <1>2, <1>3, <1>4, <2>1 DEF Alone
  <2>2. ASSUME NEW q \in Publishers, NEW r \in Publishers, q # r,
               publisher'[q].claim # None, publisher'[r].claim # None
        PROVE  publisher'[q].claim.attempt # publisher'[r].claim.attempt
    <3>1. CASE q = p
      BY <1>1, <1>2, <1>3, <1>4, <2>2, <3>1 DEF Alone
    <3>2. CASE r = p
      BY <1>1, <1>2, <1>3, <1>4, <2>2, <3>2 DEF Alone
    <3>3. CASE q # p /\ r # p
      BY <2>2, <3>3 DEF Alone, PublicationInv, ClaimsApart
    <3> QED
      BY <3>1, <3>2, <3>3
  <2> QED
    BY <2>1, <2>2 DEF ClaimsApart
<1>6. ASSUME NEW q \in Publishers PROVE Recorded(q)'
  <2>1. CASE q = p
    BY <1>1, <2>1 DEF Recorded
  <2>2. CASE q # p /\ Working(q) /\ LeaseLive(publisher[q].claim, clock)
    <3>1. LeaseLive(publication.claim, now)
      BY <1>1, <2>2, Holds
    <3> QED
      BY <1>1, <3>1 DEF MayClaim
  <2>3. CASE q # p /\ ~(Working(q) /\ LeaseLive(publisher[q].claim, clock))
    BY <2>3 DEF Recorded, Alone, Working, LeaseLive
  <2> QED
    BY <2>1, <2>2, <2>3
<1> QED
  BY <1>2, <1>5, <1>6 DEF PublicationInv, Alone

\* Closing an attempt: the item changes, and this claim is recorded as ended.
LEMMA ClosedItem ==
  ASSUME PublicationInv, NEW p \in Publishers, clock' = clock, Closed(p)
  PROVE  /\ ItemInv' /\ item'.version = item.version + 1
         /\ publication.claim = publisher[p].claim /\ publisher[p].claim \in Claims
         /\ \E stage \in {"succeeded", "failed"} :
              facts' = facts \cup {Stage(publisher[p].claim.attempt, stage)}
<1>1. PICK now \in Nat :
        /\ Fenced(Generation(p), publisher[p].claim, now)
        /\ Complete \/ \E code \in FailureCodes \cup {None} : FailAttempt(code)
  BY DEF Closed
<1>2. publication.claim = publisher[p].claim /\ publisher[p].claim \in Claims
  BY <1>1, Running DEF PublicationInv
<1>3. CASE Complete
  BY <1>1, <1>2, <1>3, CompleteKeeps DEF PublicationInv
<1>4. CASE \E code \in FailureCodes \cup {None} : FailAttempt(code)
  BY <1>1, <1>2, <1>4, FailKeeps DEF PublicationInv
<1> QED
  BY <1>1, <1>3, <1>4

LEMMA ClosedInv ==
  ASSUME PublicationInv, NEW p \in Publishers, Alone(p), clock' = clock, Closed(p)
  PROVE  PublicationInv'
<1>1. /\ ItemInv' /\ item'.version = item.version + 1
      /\ publication.claim = publisher[p].claim /\ publisher[p].claim \in Claims
  BY ClosedItem
<1>2. publisher'[p].claim \in {None, publisher[p].claim} /\ ~Working(p)'
  BY DEF Closed
<1>3. ClaimsApart'
  <2>1. ASSUME NEW q \in Publishers, publisher'[q].claim # None
        PROVE  publisher'[q].claim = publisher[q].claim
    BY <1>2, <2>1 DEF Alone
  <2>2. ASSUME NEW q \in Publishers, publisher[q].claim # None
        PROVE  publisher[q].claim.attempt <= item'.version
    <3>1. publisher[q].claim \in Claims
      BY <2>2, LocalFields DEF PublicationInv
    <3>2. publisher[q].claim.attempt \in Nat /\ publisher[q].claim.attempt <= item.version
      BY <2>2, <3>1 DEF Claims, PublicationInv, ClaimsApart
    <3>3. item.version \in Nat
      BY DEF PublicationInv, ItemInv, ItemType
    <3> QED
      BY <1>1, <3>2, <3>3
  <2> QED
    BY <2>1, <2>2 DEF PublicationInv, ClaimsApart
<1>4. ASSUME NEW q \in Publishers PROVE Recorded(q)'
  <2>1. CASE q = p
    BY <1>2, <2>1 DEF Recorded
  <2>2. CASE q # p /\ Working(q) /\ LeaseLive(publisher[q].claim, clock)
    <3>1. publisher[q].claim = publisher[p].claim
      BY <1>1, <2>2, Holds
    <3> QED
      BY <1>1, <2>2, <3>1 DEF PublicationInv, ClaimsApart
  <2>3. CASE q # p /\ ~(Working(q) /\ LeaseLive(publisher[q].claim, clock))
    BY <2>3 DEF Recorded, Alone, Working, LeaseLive
  <2> QED
    BY <2>1, <2>2, <2>3
<1> QED
  BY <1>1, <1>3, <1>4 DEF PublicationInv, Alone

LEMMA PublisherInv ==
  ASSUME PublicationInv, NEW p \in Publishers,
         Publish(p) \/ Crash(p) \/ \E m \in Messages : Deliver(p, m)
  PROVE  Moves(p) /\ PublicationInv'
<1>1. LocalsType /\ ItemType
  BY DEF PublicationInv, ItemInv
<1>2. Moves(p)
  BY <1>1, ReadSteps, ClaimStep, ClosingSteps DEF Publish
<1> QED
  BY <1>2, QuietInv, ClaimedInv, ClosedInv DEF Moves

\* The steps that are no publisher's, and what they record of attempts.
OtherStep ==
  Tick \/ RequestPublication \/ RetryPublication \/ Tamper \/ \E m \in Messages : Reconcile(m)

LEMMA OtherInv ==
  ASSUME PublicationInv, OtherStep
  PROVE  PublicationInv' /\ facts' \in {facts, facts \cup ExpiredFacts}
<1>1. ItemInv /\ item.version \in Nat /\ clock \in Nat
  BY DEF PublicationInv, ItemInv, ItemType
<1>2. CASE Tick
  <2>1. UNCHANGED <<item, facts, publisher>> /\ clock' = clock + 1
    BY <1>2 DEF Tick
  <2>2. ItemInv' /\ LocalsType' /\ ClaimsApart' /\ publication' = publication
    BY <1>1, <2>1 DEF PublicationInv, ItemInv, ItemType, SchemaHolds, publication,
                      LocalsType, ClaimsApart
  <2>3. ASSUME NEW q \in Publishers PROVE Recorded(q)'
    <3>1. CASE Working(q) /\ LeaseLive(publisher[q].claim, clock)
      BY <2>1, <2>2, <3>1, Holds DEF Recorded
    <3>2. CASE ~(Working(q) /\ LeaseLive(publisher[q].claim, clock))
      <4>1. publisher[q].claim \in Claims => publisher[q].claim.leaseUntil \in Nat
        BY DEF Claims
      <4>2. publisher[q].claim \in Claims \cup {None}
        BY LocalFields DEF PublicationInv
      <4> QED
        BY <1>1, <2>1, <3>2, <4>1, <4>2 DEF Recorded, Working, LeaseLive
    <3> QED
      BY <3>1, <3>2
  <2> QED
    BY <2>1, <2>2, <2>3 DEF PublicationInv
<1>3. CASE RequestPublication
  <2>1. UNCHANGED <<clock, publisher, facts>> /\ publication = None
        /\ item'.version = item.version + 1
    BY <1>1, <1>3 DEF RequestPublication, ItemInv, ItemType, Write
  <2> QED
    BY <1>1, <1>3, <2>1, RequestKeeps, OthersKeep
<1>4. CASE RetryPublication
  <2>1. UNCHANGED <<clock, publisher>> /\ ~LeaseLive(publication.claim, clock)
    BY <1>4 DEF RetryPublication, MayRetry
  <2> QED
    BY <1>1, <1>4, <2>1, RetryKeeps, OthersKeep
<1>5. CASE Tamper
  <2>1. UNCHANGED <<clock, item, facts, publisher>>
    BY <1>5 DEF Tamper
  <2>2. ItemInv' /\ publication' = publication
    BY <1>1, <2>1 DEF ItemInv, ItemType, SchemaHolds, publication
  <2> QED
    BY <1>1, <2>1, <2>2, OthersKeep
<1>6. CASE \E m \in Messages : Reconcile(m)
  <2>1. PICK m \in Messages : Reconcile(m)
    BY <1>6
  <2>2. UNCHANGED <<clock, publisher>>
    BY <2>1 DEF Reconcile
  <2>3. CASE UNCHANGED <<item, facts>>
    <3>1. ItemInv' /\ publication' = publication
      BY <1>1, <2>2, <2>3 DEF ItemInv, ItemType, SchemaHolds, publication
    <3> QED
      BY <1>1, <2>2, <2>3, <3>1, OthersKeep
  <2>4. CASE MayReconcile(m[1], clock) /\ Stall
    <3>1. ~LeaseLive(publication.claim, clock)
      BY <2>4 DEF MayReconcile
    <3>2. ItemInv' /\ item'.version = item.version + 1 /\ facts' = facts \cup ExpiredFacts
      BY <1>1, <2>2, <2>4, StallKeeps
    <3> QED
      BY <1>1, <2>2, <3>1, <3>2, OthersKeep
  <2> QED
    BY <2>1, <2>3, <2>4 DEF Reconcile
<1> QED
  BY <1>2, <1>3, <1>4, <1>5, <1>6 DEF OtherStep

LEMMA StepInv ==
  ASSUME PublicationInv, [Next]_vars
  PROVE  PublicationInv'
<1>1. CASE OtherStep
  BY <1>1, OtherInv
<1>2. CASE \E p \in Publishers : Publish(p) \/ Crash(p) \/ \E m \in Messages : Deliver(p, m)
  BY <1>2, PublisherInv
<1>3. CASE UNCHANGED vars
  BY <1>3 DEF vars, PublicationInv, ItemInv, ItemType, SchemaHolds, publication, LocalsType,
              ClaimsApart, Recorded, Working, LeaseLive
<1> QED
  BY <1>1, <1>2, <1>3 DEF Next, OtherStep

LEMMA InvHolds == Spec => []PublicationInv
  BY InitInv, StepInv, PTL DEF Spec

\* No command is refused by the schema of its result: in every order of claims,
\* failures, expiries, reconciliations and retries the stored publication satisfies it.
THEOREM StateHolds == Spec => []SchemaHolds
<1>1. PublicationInv => SchemaHolds
  BY DEF PublicationInv, ItemInv
<1> QED
  BY <1>1, InvHolds, PTL

\* Two publishers never both work under a lease that runs, however many there are.
THEOREM LeasesExclude == Spec => []OneWorkingLease
<1>1. ASSUME PublicationInv PROVE OneWorkingLease
  <2> DEFINE holders == {p \in Publishers : Working(p) /\ LeaseLive(publisher[p].claim, clock)}
  <2>1. ASSUME NEW p \in holders, NEW q \in holders PROVE p = q
    <3>1. publisher[p].claim = publisher[q].claim /\ publisher[p].claim \in Claims
      BY <1>1, <2>1, Holds
    <3> QED
      BY <1>1, <2>1, <3>1 DEF PublicationInv, ClaimsApart
  <2>2. CASE holders = {}
    BY <2>2, FS_EmptySet DEF OneWorkingLease
  <2>3. CASE holders # {}
    <3>1. PICK p \in holders : TRUE
      BY <2>3
    <3>2. holders = {p}
      BY <2>1, <3>1
    <3>3. Cardinality({p}) = 1
      BY FS_Singleton
    <3> QED
      BY <3>2, <3>3 DEF OneWorkingLease
  <2> QED
    BY <2>2, <2>3
<1> QED
  BY <1>1, InvHolds, PTL

\* A step records that an attempt has succeeded or failed only if it is the step of
\* the publisher that holds the attempt's claim.
LEMMA HolderCloses ==
  ASSUME PublicationInv, [Next]_vars
  PROVE  \A f \in facts' \ facts : f.stage \in {"succeeded", "failed"} =>
           \E p \in Publishers :
             /\ publisher[p].claim # None /\ publisher[p].claim.attempt = f.attempt
             /\ publisher'[p] # publisher[p]
<1> SUFFICES ASSUME NEW f \in facts' \ facts, f.stage \in {"succeeded", "failed"}
             PROVE  \E p \in Publishers :
                      /\ publisher[p].claim # None /\ publisher[p].claim.attempt = f.attempt
                      /\ publisher'[p] # publisher[p]
  OBVIOUS
<1>1. \A x \in ExpiredFacts : x.stage = "expired"
  BY DEF ExpiredFacts, Stage
<1>2. CASE OtherStep
  BY <1>1, <1>2, OtherInv
<1>3. CASE \E p \in Publishers : Publish(p) \/ Crash(p) \/ \E m \in Messages : Deliver(p, m)
  <2>1. PICK p \in Publishers : Moves(p)
    BY <1>3, PublisherInv
  <2>2. CASE Quiet(p)
    BY <2>2 DEF Quiet
  <2>3. CASE Claimed(p)
    <3>1. facts' = facts \cup ExpiredFacts \cup {Stage(item.version + 1, "claimed")}
      BY <2>3 DEF Claimed, Claim
    <3>2. Stage(item.version + 1, "claimed").stage = "claimed"
      BY DEF Stage
    <3> QED
      BY <1>1, <3>1, <3>2
  <2>4. CASE Closed(p)
    <3>1. /\ publisher[p].claim \in Claims
          /\ \E stage \in {"succeeded", "failed"} : f = Stage(publisher[p].claim.attempt, stage)
      BY <2>1, <2>4, ClosedItem DEF Moves
    <3>2. publisher'[p] # publisher[p]
      BY <2>4 DEF Closed
    <3> QED
      BY <3>1, <3>2 DEF Stage
  <2> QED
    BY <2>1, <2>2, <2>3, <2>4 DEF Moves
<1>4. CASE UNCHANGED vars
  BY <1>4 DEF vars
<1> QED
  BY <1>2, <1>3, <1>4 DEF Next, OtherStep

\* The attempt of the claim on record has not ended, and those that have are older
\* than the next.
OpenClaim ==
  /\ \A f \in facts : f.attempt \in 0 .. item.version
  /\ publication # None /\ publication.claim # None =>
       publication.claim.attempt \in 0 .. item.version /\ ~Ended(publication.claim.attempt)

LEMMA OpenInit == Init => OpenClaim
BY DEF Init, OpenClaim, publication

\* A claim that is dropped may be recorded as ended.
LEMMA DroppedClaim ==
  ASSUME PublicationInv, OpenClaim, item'.version = item.version + 1,
         publication' # None => publication'.claim = None,
         NEW more, facts' = facts \cup more,
         \A f \in more : f.attempt \in 0 .. item.version
  PROVE  OpenClaim'
<1>1. item.version \in Nat
  BY DEF PublicationInv, ItemInv, ItemType
<1> QED
  BY <1>1 DEF OpenClaim

LEMMA ExpiredFactsOld ==
  ASSUME OpenClaim, publication # None
  PROVE  \A f \in ExpiredFacts : f.attempt \in 0 .. item.version
BY DEF OpenClaim, ExpiredFacts, Stage

LEMMA OpenOther ==
  ASSUME PublicationInv, OpenClaim, OtherStep
  PROVE  OpenClaim'
<1>0. ItemInv
  BY DEF PublicationInv
<1>1. CASE UNCHANGED <<item, facts>>
  BY <1>1 DEF OpenClaim, Ended, publication
<1>2. CASE RequestPublication
  <2>1. /\ publication'.claim = None /\ item'.version = item.version + 1
        /\ facts' = facts
    BY <1>2 DEF RequestPublication, Write, publication
  <2>2. PICK none : none = {}
    OBVIOUS
  <2>3. facts' = facts \cup none /\ \A f \in none : f.attempt \in 0 .. item.version
    BY <2>1, <2>2
  <2> QED
    BY <2>1, <2>3, DroppedClaim
<1>3. CASE RetryPublication
  <2>1. item.status = "publishing" /\ publication # None
    BY <1>0, <1>3 DEF RetryPublication, MayRetry, ItemInv, ItemType
  <2>2. publication' = Reopened /\ item'.version = item.version + 1
        /\ facts' = facts \cup ExpiredFacts
    BY <1>3 DEF RetryPublication, Write, publication
  <2>3. publication \in Publications
    BY <1>0, <2>1 DEF ItemInv, ItemType, publication
  <2>4. publication'.claim = None
    BY <2>2, <2>3 DEF Reopened, Publications
  <2> QED
    BY <2>1, <2>2, <2>4, DroppedClaim, ExpiredFactsOld
<1>4. CASE \E m \in Messages : MayReconcile(m[1], clock) /\ Stall
  <2>1. publication # None /\ publication \in Publications
    BY <1>0, <1>4, Present DEF MayReconcile
  <2>2. /\ publication' = [publication EXCEPT !.phase = "stalled", !.claim = None,
                               !.last = Expired(publication.last),
                               !.deliveryFailure = publication.generation]
        /\ item'.version = item.version + 1 /\ facts' = facts \cup ExpiredFacts
    BY <1>4 DEF Stall, Write, publication
  <2>3. publication'.claim = None
    BY <2>1, <2>2 DEF Publications
  <2> QED
    BY <2>1, <2>2, <2>3, DroppedClaim, ExpiredFactsOld
<1> QED
  BY <1>1, <1>2, <1>3, <1>4 DEF OtherStep, Tick, Tamper, Reconcile

LEMMA OpenClaimed ==
  ASSUME PublicationInv, OpenClaim, NEW p \in Publishers, clock' = clock, Claimed(p)
  PROVE  OpenClaim'
<1>1. PICK now \in Nat : MayClaim(Generation(p), now) /\ Claim(now)
  BY DEF Claimed
<1>2. /\ item'.version = item.version + 1 /\ publication' # None
      /\ publication'.claim = ClaimOf(now)
  BY <1>1, ClaimKeeps DEF PublicationInv
<1>3. item.version \in Nat /\ ClaimOf(now).attempt = item.version + 1
  BY NextClaimTyped DEF PublicationInv, ItemInv, ItemType
<1>4. facts' = facts \cup ExpiredFacts \cup {Stage(item.version + 1, "claimed")}
  BY <1>1 DEF Claim
<1>5. \A f \in facts \cup ExpiredFacts : f.attempt \in 0 .. item.version
  <2>1. publication # None
    BY <1>1, Present DEF PublicationInv, MayClaim
  <2> QED
    BY <2>1, ExpiredFactsOld DEF OpenClaim
<1>6. ASSUME NEW stage \in {"succeeded", "failed", "expired"}
      PROVE  Stage(item.version + 1, stage) \notin facts'
  <2>1. Stage(item.version + 1, stage) # Stage(item.version + 1, "claimed")
    BY DEF Stage
  <2>2. Stage(item.version + 1, stage).attempt = item.version + 1
    BY DEF Stage
  <2> QED
    BY <1>3, <1>4, <1>5, <2>1, <2>2
<1>7. \A f \in facts' : f.attempt \in 0 .. item'.version
  <2>1. Stage(item.version + 1, "claimed").attempt = item.version + 1
    BY DEF Stage
  <2> QED
    BY <1>2, <1>3, <1>4, <1>5, <2>1
<1> QED
  BY <1>2, <1>3, <1>6, <1>7 DEF OpenClaim, Ended

LEMMA OpenClosed ==
  ASSUME PublicationInv, OpenClaim, NEW p \in Publishers, clock' = clock, Closed(p)
  PROVE  OpenClaim' /\ ~Ended(publisher[p].claim.attempt)
<1>1. PICK now \in Nat :
        /\ Fenced(Generation(p), publisher[p].claim, now)
        /\ Complete \/ \E code \in FailureCodes \cup {None} : FailAttempt(code)
  BY DEF Closed
<1>2. /\ publication # None /\ publication \in Publications
      /\ publication.claim = publisher[p].claim /\ publication.claim # None
  BY <1>1, Running DEF PublicationInv
<1>3. /\ item'.version = item.version + 1
      /\ \E stage \in {"succeeded", "failed"} :
           facts' = facts \cup {Stage(publisher[p].claim.attempt, stage)}
  BY ClosedItem
<1>4. publication'.claim = None
  <2>1. CASE Complete
    <3>1. publication' = [publication EXCEPT !.phase = "succeeded", !.claim = None,
                                             !.artifact = TRUE, !.last.status = "succeeded"]
      BY <2>1 DEF Complete, Write, publication
    <3> QED
      BY <1>2, <3>1 DEF Publications
  <2>2. ASSUME NEW code, FailAttempt(code) PROVE publication'.claim = None
    <3>1. PICK phase : publication' =
            [publication EXCEPT !.phase = phase, !.claim = None,
                                !.last.status = "failed", !.last.code = code]
      BY <2>2 DEF FailAttempt, Write, publication
    <3> QED
      BY <1>2, <3>1 DEF Publications
  <2> QED
    BY <1>1, <2>1, <2>2
<1>5. /\ publisher[p].claim.attempt \in 0 .. item.version
      /\ ~Ended(publisher[p].claim.attempt)
  BY <1>2 DEF OpenClaim
<1>6. OpenClaim'
  <2>1. PICK stage : facts' = facts \cup {Stage(publisher[p].claim.attempt, stage)}
    BY <1>3
  <2>2. \A f \in {Stage(publisher[p].claim.attempt, stage)} : f.attempt \in 0 .. item.version
    BY <1>5 DEF Stage
  <2> QED
    BY <1>3, <1>4, <2>1, <2>2, DroppedClaim
<1> QED
  BY <1>5, <1>6

LEMMA OpenStep ==
  ASSUME PublicationInv, OpenClaim, [Next]_vars
  PROVE  OpenClaim'
<1>1. CASE OtherStep
  BY <1>1, OpenOther
<1>2. CASE \E p \in Publishers : Publish(p) \/ Crash(p) \/ \E m \in Messages : Deliver(p, m)
  <2>1. PICK p \in Publishers : Moves(p)
    BY <1>2, PublisherInv
  <2>2. CASE Quiet(p)
    BY <2>2 DEF Quiet, OpenClaim, Ended, publication
  <2> QED
    BY <2>1, <2>2, OpenClaimed, OpenClosed DEF Moves
<1>3. CASE UNCHANGED vars
  BY <1>3 DEF vars, OpenClaim, Ended, publication
<1> QED
  BY <1>1, <1>2, <1>3 DEF Next, OtherStep

\* What a step records as succeeded or failed has not ended before.
LEMMA ClosedOnce ==
  ASSUME PublicationInv, OpenClaim, [Next]_vars
  PROVE  \A f \in facts' \ facts : f.stage \in {"succeeded", "failed"} => ~Ended(f.attempt)
<1> SUFFICES ASSUME NEW f \in facts' \ facts, f.stage \in {"succeeded", "failed"}
             PROVE  ~Ended(f.attempt)
  OBVIOUS
<1>1. \A x \in ExpiredFacts : x.stage = "expired"
  BY DEF ExpiredFacts, Stage
<1>2. CASE OtherStep
  BY <1>1, <1>2, OtherInv
<1>3. CASE \E p \in Publishers : Publish(p) \/ Crash(p) \/ \E m \in Messages : Deliver(p, m)
  <2>1. PICK p \in Publishers : Moves(p)
    BY <1>3, PublisherInv
  <2>2. CASE Quiet(p)
    BY <2>2 DEF Quiet
  <2>3. CASE Claimed(p)
    <3>1. facts' = facts \cup ExpiredFacts \cup {Stage(item.version + 1, "claimed")}
      BY <2>3 DEF Claimed, Claim
    <3>2. Stage(item.version + 1, "claimed").stage = "claimed"
      BY DEF Stage
    <3> QED
      BY <1>1, <3>1, <3>2
  <2>4. CASE Closed(p)
    <3>1. \E stage \in {"succeeded", "failed"} : f = Stage(publisher[p].claim.attempt, stage)
      BY <2>1, <2>4, ClosedItem DEF Moves
    <3>2. f.attempt = publisher[p].claim.attempt
      BY <3>1 DEF Stage
    <3> QED
      BY <2>1, <2>4, <3>2, OpenClosed DEF Moves
  <2> QED
    BY <2>1, <2>2, <2>3, <2>4 DEF Moves
<1>4. CASE UNCHANGED vars
  BY <1>4 DEF vars
<1> QED
  BY <1>2, <1>3, <1>4 DEF Next, OtherStep

LEMMA OpenHolds == Spec => []OpenClaim
  BY OpenInit, OpenStep, InvHolds, PTL DEF Spec

\* An attempt is closed by the publisher that holds its claim, never by one that was
\* overtaken while it wrote, and never a second time.
THEOREM OnlyHoldersClose == Spec => ClosedByItsHolder
<1>1. ASSUME PublicationInv, OpenClaim, [Next]_vars
      PROVE  [\A f \in facts' \ facts : f.stage \in {"succeeded", "failed"} =>
                /\ ~Ended(f.attempt)
                /\ \E p \in Publishers :
                     /\ publisher[p].claim # None /\ publisher[p].claim.attempt = f.attempt
                     /\ publisher'[p] # publisher[p]]_vars
  BY <1>1, HolderCloses, ClosedOnce
<1> QED
  BY <1>1, InvHolds, OpenHolds, PTL DEF Spec, ClosedByItsHolder
=============================================================================
