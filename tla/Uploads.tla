------------------------------- MODULE Uploads -------------------------------
(***************************************************************************)
(* The bytes of an attachment.  An upload checks the slot, creates the     *)
(* object under a key of the slot's own, never over an existing one, and   *)
(* only then completes the slot by a command.  The cleanup job deletes the *)
(* object of a slot retired before it was verified.  Uploads, editors and  *)
(* the job interleave at every await; any of them may stop half-way.       *)
(***************************************************************************)
EXTENDS ContentItem

CONSTANTS
  Uploads,          \* requests under way at once (2)
  Attempts,         \* completions an upload tries on a conflict (3)
  OrphanAge         \* how old an abandoned object must be (24 hours)

ASSUME UploadsAssumption ==
  /\ IsFiniteSet(Uploads)
  /\ Attempts \in Nat \ {0} /\ OrphanAge \in Nat

VARIABLES
  objects,      \* the stored object of each slot: None, or its digest and its age
  upload,       \* the request each upload serves
  answered,     \* <<slot, digest>> of the uploads answered with success
  cleaner       \* the candidate the cleanup job works on

uploadVars == <<contentVars, objects, upload, answered, cleaner>>
-----------------------------------------------------------------------------
NoUpload == [pc |-> "idle", asset |-> None, digest |-> None, seen |-> 0, attempt |-> 0]
AtRest == [pc |-> "idle", asset |-> None, olderThan |-> 0, observed |-> None]

UploadInit ==
  /\ ContentInit
  /\ objects = [a \in Assets |-> None]
  /\ upload = [u \in Uploads |-> NoUpload]
  /\ answered = {}
  /\ cleaner = AtRest

Goto(u, pc) == upload' = [upload EXCEPT ![u].pc = pc]

\* The request fails, or its caller is gone; the same bytes may be sent again.
Stop(u) ==
  /\ upload[u].pc # "idle"
  /\ upload' = [upload EXCEPT ![u] = NoUpload]
  /\ UNCHANGED <<contentVars, objects, answered, cleaner>>

\* The bytes are read and inspected before anything is stored.
Request(u, a, digest) ==
  /\ upload[u].pc = "idle"
  /\ upload' = [upload EXCEPT ![u] = [NoUpload EXCEPT !.pc = "inspect",
                                                      !.asset = a, !.digest = digest]]
  /\ UNCHANGED <<contentVars, objects, answered, cleaner>>

\* load: an active slot of a draft, and a pending one in time.  The step that
\* finds it otherwise is Stop.
Loadable(u) ==
  LET slot == item.slots[upload[u].asset] IN
  /\ item.status = "draft" /\ Active(slot)
  /\ slot.status = "pending" => clock < ExpiresAt(slot)
SameReady(u) ==
  LET slot == item.slots[upload[u].asset] IN
  slot.status = "ready" /\ slot.verified = upload[u].digest
PendingSlot(u) == item.slots[upload[u].asset].status = "pending"

\* read: the stored bytes have the digest of the reference.
Matches(u) ==
  LET object == objects[upload[u].asset] IN
  object # None /\ object.digest = upload[u].digest

Answer(u) ==
  /\ upload' = [upload EXCEPT ![u] = NoUpload]
  /\ answered' = answered \cup {<<upload[u].asset, upload[u].digest>>}

\* A ready slot accepts its own bytes again, once they are read back.
Inspect(u) ==
  /\ upload[u].pc = "inspect" /\ Loadable(u)
  /\ \/ PendingSlot(u) /\ Goto(u, "recheck")
     \/ SameReady(u) /\ Goto(u, "readback")
  /\ UNCHANGED <<contentVars, objects, answered, cleaner>>

ReadBack(u) ==
  /\ upload[u].pc = "readback" /\ Matches(u)
  /\ Goto(u, "confirm")
  /\ UNCHANGED <<contentVars, objects, answered, cleaner>>

\* After the ready slot's readback, and after the completion.
Confirm(u) ==
  /\ upload[u].pc = "confirm" /\ Loadable(u) /\ SameReady(u)
  /\ Answer(u)
  /\ UNCHANGED <<contentVars, objects, cleaner>>

Recheck(u) ==
  /\ upload[u].pc = "recheck" /\ Loadable(u)
  /\ Goto(u, "create")
  /\ UNCHANGED <<contentVars, objects, answered, cleaner>>

Stored(u) == [digest |-> upload[u].digest, modified |-> clock]

\* Seeded fault: the put has no condition.
Put_Overwrites(a, object) == [objects EXCEPT ![a] = object]

\* If-None-Match: an object that is there stays.
Put(a, object) == IF objects[a] = None THEN [objects EXCEPT ![a] = object] ELSE objects

Store(u) ==
  /\ upload[u].pc = "create"
  /\ objects' = Put(upload[u].asset, Stored(u))
  /\ Goto(u, "verify")
  /\ UNCHANGED <<contentVars, answered, cleaner>>

Verify(u) ==
  /\ upload[u].pc = "verify" /\ Matches(u)
  /\ Goto(u, "load")
  /\ UNCHANGED <<contentVars, objects, answered, cleaner>>

LoadAgain(u) ==
  /\ upload[u].pc = "load" /\ Loadable(u)
  /\ \/ /\ PendingSlot(u)
        /\ upload' = [upload EXCEPT ![u].pc = "complete", ![u].seen = item.version]
        /\ UNCHANGED answered
     \/ SameReady(u) /\ Answer(u)
  /\ UNCHANGED <<contentVars, objects, cleaner>>

\* The command is conditional on the version loaded; only a conflict is retried.
Complete(u) ==
  /\ upload[u].pc = "complete"
  /\ \/ /\ item.version = upload[u].seen
        /\ CompleteUpload(upload[u].asset, upload[u].digest)
        /\ Goto(u, "confirm")
     \/ /\ item.version # upload[u].seen /\ upload[u].attempt + 1 < Attempts
        /\ upload' = [upload EXCEPT ![u].pc = "load", ![u].seen = 0, ![u].attempt = @ + 1]
        /\ UNCHANGED contentVars
  /\ UNCHANGED <<objects, answered, cleaner>>
-----------------------------------------------------------------------------
Orphan(a, olderThan) ==
  /\ item.status # "archived"
  /\ Retired(item.slots[a]) /\ item.slots[a].verified = None
  /\ item.slots[a].retiredAt <= olderThan
  /\ item.review # None => a \notin item.review.submitted.attachments
  /\ item.publication # None => a \notin item.publication.snapshot.attachments

\* The job ends with its candidate, or loses its lease, at any step.
Leave ==
  /\ cleaner.pc # "idle"
  /\ cleaner' = AtRest
  /\ UNCHANGED <<contentVars, objects, upload, answered>>

Candidate(a) ==
  /\ cleaner.pc = "idle" /\ clock >= OrphanAge
  /\ Orphan(a, clock - OrphanAge)
  /\ cleaner' = [AtRest EXCEPT !.pc = "observe", !.asset = a, !.olderThan = clock - OrphanAge]
  /\ UNCHANGED <<contentVars, objects, upload, answered>>

Aged(object) == object # None /\ object.modified <= cleaner.olderThan

Observe ==
  /\ cleaner.pc = "observe" /\ Aged(objects[cleaner.asset])
  /\ cleaner' = [cleaner EXCEPT !.pc = "reload", !.observed = objects[cleaner.asset]]
  /\ UNCHANGED <<contentVars, objects, upload, answered>>

Reload ==
  /\ cleaner.pc = "reload" /\ Orphan(cleaner.asset, cleaner.olderThan)
  /\ cleaner' = [cleaner EXCEPT !.pc = "check"]
  /\ UNCHANGED <<contentVars, objects, upload, answered>>

Check ==
  /\ cleaner.pc = "check" /\ objects[cleaner.asset] = cleaner.observed
  /\ cleaner' = [cleaner EXCEPT !.pc = "delete"]
  /\ UNCHANGED <<contentVars, objects, upload, answered>>

\* Conditional on the ETag, which is that of the bytes.
Delete ==
  LET object == objects[cleaner.asset] IN
  /\ cleaner.pc = "delete"
  /\ object # None /\ object.digest = cleaner.observed.digest
  /\ objects' = [objects EXCEPT ![cleaner.asset] = None]
  /\ cleaner' = AtRest
  /\ UNCHANGED <<contentVars, upload, answered>>
-----------------------------------------------------------------------------
\* Editors and the other jobs; an attachment is completed by an upload only.
Editorial ==
  /\ ContentNext
  /\ \A a \in Assets : item'.slots[a].status = "ready" => item.slots[a].status = "ready"
  /\ UNCHANGED <<objects, upload, answered, cleaner>>

Uploading ==
  \E u \in Uploads :
    \/ \E a \in Assets, digest \in Digests : Request(u, a, digest)
    \/ Inspect(u) \/ ReadBack(u) \/ Confirm(u) \/ Recheck(u) \/ Store(u) \/ Verify(u)
    \/ LoadAgain(u) \/ Complete(u) \/ Stop(u)

Cleaning ==
  \/ \E a \in Assets : Candidate(a)
  \/ Observe \/ Reload \/ Check \/ Delete \/ Leave

UploadNext == Editorial \/ Uploading \/ Cleaning
UploadSpec == UploadInit /\ [][UploadNext]_uploadVars
-----------------------------------------------------------------------------
\* An attachment that was ever verified keeps its bytes: whatever uploads, removals,
\* expiries and cleanups interleave, the stored object has the digest the content
\* item, its reviews and its publication refer to.
VerifiedIsStored ==
  \A a \in Assets :
    item.slots[a].verified # None =>
      objects[a] # None /\ objects[a].digest = item.slots[a].verified

\* An upload answered with success stays true: the slot was verified with these
\* bytes, and no concurrent upload of other bytes is answered so.
AnswersHold == \A answer \in answered : item.slots[answer[1]].verified = answer[2]
=============================================================================
