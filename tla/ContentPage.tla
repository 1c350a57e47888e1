----------------------------- MODULE ContentPage -----------------------------
(***************************************************************************)
(* The page of one content item: its draft form and the sessions beside it *)
(* (submission and reopening, attachments, schedule, publication and       *)
(* recovery), each with a command of its own in flight, the loading of the *)
(* page and the two polls.  The API executes a command once per key and    *)
(* against the version the page had loaded; other editors and the workers  *)
(* write the same item.  Answers are lost, reads fail or are slow, and a   *)
(* command the page gave up may still be executed.                         *)
(***************************************************************************)
EXTENDS Naturals, Sequences, FiniteSets

CONSTANTS
  Texts,            \* contents of a draft
  FirstVersions,    \* the states an item may be in when its page is opened
  MaxVersions,      \* bound on the versions of the item
  MaxKeys,          \* bound on the idempotency keys the page draws
  MaxFaults,        \* bound on lost answers, failed reads and hidden tabs
  None

Statuses == {"draft", "inReview", "approved", "scheduled", "queued", "failed", "published"}
Contents == [text : Texts, status : Statuses, generation : Nat,
             slots : Seq({"pending", "ready", "removed"})]

ASSUME PageAssumption ==
  /\ None \notin Texts /\ None \notin [version : Nat, data : Contents]
  /\ FirstVersions \subseteq Contents
  /\ {MaxVersions, MaxKeys, MaxFaults} \subseteq Nat

Sessions == {"editor", "action", "attachments", "schedule", "publication", "recovery"}
Intents == Sessions \cup {"removal"}
Polls == {"publication", "recovery"}

VARIABLES
  history,      \* the versions the API has stored
  results,      \* what the API answered to each key
  late,         \* commands the page gave up that the API may yet execute
  keys,         \* keys drawn so far
  page,         \* what the page holds
  call,         \* what each session awaits
  typed,        \* what the user entered and neither saved nor gave up, and which of
                \* it was entered where the answer to something else may replace it
  faults

server == <<history, results, late>>
vars == <<history, results, late, keys, page, call, typed, faults>>
-----------------------------------------------------------------------------
Now == Len(history)
Row(v) == [version |-> v, data |-> history[v]]
Resting == [pc |-> "idle", cmd |-> None, key |-> 0, answer |-> None, floor |-> 0]
Off == [pc |-> "off", floor |-> 0]
Timer == [pc |-> "timer", floor |-> 0]
Nothing == [text |-> None, time |-> FALSE, exposed |-> {}]

Opened ==
  [view |-> [pc |-> "loading", floor |-> Now], row |-> None, form |-> None, latest |-> None,
   file |-> FALSE, target |-> None, time |-> FALSE, awaiting |-> {}, told |-> {},
   conflict |-> {}, intent |-> [i \in Intents |-> None], poll |-> [p \in Polls |-> Off]]

\* The page of a stored item, or of one that is yet to be created.
Init ==
  /\ history \in {<<>>} \cup {<<first>> : first \in FirstVersions}
  /\ results = <<>> /\ late = {} /\ keys = 0 /\ faults = 0
  /\ page = Opened
  /\ call = [s \in Sessions |-> Resting]
  /\ typed = Nothing

Fault == faults < MaxFaults /\ faults' = faults + 1
-----------------------------------------------------------------------------
\* The API, as the page meets it: a command, the statuses it may be given in and
\* what it makes of the item.
Command(name, expected, arg) == [name |-> name, expected |-> expected, arg |-> arg]

From(name) ==
  CASE name \in {"edit", "submit", "register", "remove", "store"} -> {"draft"}
    [] name = "decide" -> {"inReview"}
    [] name = "reopen" -> {"inReview", "approved", "scheduled"}
    [] name = "schedule" -> {"approved"}
    [] name \in {"reschedule", "cancel"} -> {"scheduled"}
    [] name = "publish" -> {"approved", "scheduled"}
    [] name \in {"finish", "fail"} -> {"queued"}
    [] name = "retry" -> {"failed"}

To(name, status) ==
  CASE name = "submit" -> "inReview"
    [] name \in {"decide", "cancel"} -> "approved"
    [] name = "reopen" -> "draft"
    [] name \in {"schedule", "reschedule"} -> "scheduled"
    [] name \in {"publish", "retry"} -> "queued"
    [] name = "finish" -> "published"
    [] name = "fail" -> "failed"
    [] OTHER -> status

Allowed(data, name, arg) ==
  /\ data.status \in From(name)
  /\ name = "submit" => \A i \in DOMAIN data.slots : data.slots[i] # "pending"
  /\ name = "store" => data.slots[arg] = "pending"
  /\ name = "remove" => data.slots[arg] # "removed"

After(data, name, arg) ==
  LET slots ==
        CASE name = "register" -> Append(data.slots, "pending")
          [] name = "store" -> [data.slots EXCEPT ![arg] = "ready"]
          [] name = "remove" -> [data.slots EXCEPT ![arg] = "removed"]
          [] OTHER -> data.slots
  IN [text |-> IF name = "edit" THEN arg ELSE data.text,
      status |-> To(name, data.status),
      generation |-> IF name \in {"schedule", "reschedule"} THEN Now + 1 ELSE data.generation,
      slots |-> slots]

Created(text) == [text |-> text, status |-> "draft", generation |-> 0, slots |-> <<>>]

\* Bytes may be stored at any version; they are stored already when the slot is ready.
Fits(cmd) ==
  /\ cmd.name # "create"
  /\ cmd.name = "store" \/ cmd.expected = Now
  /\ Allowed(history[Now], cmd.name, cmd.arg)
Stored(cmd) == cmd.name = "store" /\ history[Now].slots[cmd.arg] = "ready"

Grow(data) ==
  /\ Now < MaxVersions
  /\ history' = Append(history, data)

\* A key stands for one command: the same one is answered with its first outcome,
\* another one is refused.
Record(key, cmd, version) ==
  results' = [k \in DOMAIN results \cup {key} |->
                IF k = key THEN [cmd |-> cmd, version |-> version] ELSE results[k]]
Known(key) == key \in DOMAIN results

\* Another editor, the due job or the publisher.
OthersWrite ==
  /\ history # <<>>
  /\ \E name \in {"edit", "submit", "remove", "decide", "reopen", "reschedule", "cancel", "publish",
                  "finish", "fail", "retry"} :
     \E arg \in IF name = "edit" THEN Texts
                ELSE IF name = "remove" THEN DOMAIN history[Now].slots ELSE {None} :
       /\ Allowed(history[Now], name, arg)
       /\ Grow(After(history[Now], name, arg))
  /\ UNCHANGED <<results, late, keys, page, call, typed, faults>>

\* One execution of a command, and its answer.
Ok(version) == [is |-> "ok", version |-> version]
Error(is) == [is |-> is, version |-> 0]
Answers == {Ok(v) : v \in 1 .. MaxVersions} \cup {Error("conflict"), Error("refused")}

Perform(cmd, key, answer) ==
  \/ /\ Known(key)
     /\ answer = IF results[key].cmd = cmd THEN Ok(results[key].version) ELSE Error("conflict")
     /\ UNCHANGED <<history, results>>
  \/ /\ ~Known(key) /\ cmd.name = "create" /\ answer = Ok(1)
     /\ history' = <<Created(cmd.arg)>> /\ Record(key, cmd, 1)
  \/ /\ ~Known(key) /\ Fits(cmd) /\ answer = Ok(Now + 1)
     /\ Grow(After(history[Now], cmd.name, cmd.arg))
     /\ IF cmd.name = "store" THEN UNCHANGED results ELSE Record(key, cmd, Now + 1)
  \/ /\ Stored(cmd) /\ answer = Ok(Now) /\ UNCHANGED <<history, results>>
  \/ /\ ~Known(key) /\ cmd.name # "create" /\ ~Fits(cmd) /\ ~Stored(cmd)
     /\ answer = Error(IF cmd.name = "store" THEN "refused" ELSE "conflict")
     /\ UNCHANGED <<history, results>>

Execute(s) ==
  /\ call[s].pc = "sent" /\ call[s].answer = None
  /\ \E answer \in Answers :
       /\ Perform(call[s].cmd, call[s].key, answer)
       /\ call' = [call EXCEPT ![s].answer = answer]
  /\ UNCHANGED <<late, keys, page, typed, faults>>

\* A creation that comes late makes an item that this page is not about.
ExecuteLate ==
  \E c \in late :
    /\ late' = late \ {c}
    /\ IF c.cmd.name = "create" /\ history # <<>> THEN UNCHANGED <<history, results>>
       ELSE \E answer \in Answers : Perform(c.cmd, c.key, answer)
    /\ UNCHANGED <<keys, page, call, typed, faults>>
-----------------------------------------------------------------------------
\* What the page shows and allows.
Shown == page.view.pc = "shown"
Status == IF page.row = None THEN "draft" ELSE page.row.data.status
Baseline(p) == IF p.row = None THEN None ELSE p.row.data.text
Dirty == page.form # Baseline(page)
Pending(s) == call[s].pc # "idle"
PublicationBusy == Pending("publication") \/ Pending("recovery")
MutationPending == \E s \in Sessions : Pending(s)
Editable == Status = "draft"
Schedulable == Status \in {"approved", "scheduled"}
Conflict(s) == s \in page.conflict

ScheduleBlocked ==
  \/ Dirty \/ Conflict("editor") \/ Pending("editor") \/ Pending("action")
  \/ Pending("attachments") \/ PublicationBusy \/ page.file

\* Seeded fault: an attachment may be changed under unsaved text.
AttachmentsBlocked_NotByText ==
  \/ Pending("editor") \/ Conflict("editor") \/ Pending("action") \/ PublicationBusy

AttachmentsBlocked ==
  \/ Dirty \/ Pending("editor") \/ Conflict("editor") \/ Pending("action") \/ PublicationBusy

PublicationBlocked == Dirty \/ MutationPending \/ page.file \/ page.time
RecoveryBlocked == PublicationBlocked \/ Pending("publication") \/ "publication" \in page.awaiting

\* A poll runs while the row that is shown is to change by itself.
Watched(p) == [p EXCEPT !.poll["publication"] =
                 IF p.row.data.status = "scheduled" THEN Timer ELSE Off]
Followed(p) == [p EXCEPT !.poll["recovery"] =
                  IF p.row.data.status = "queued" THEN Timer ELSE Off]

\* RecoverySession.update: another version is another base for a retry.
Updated(p) ==
  Followed([p EXCEPT !.conflict = @ \ {"recovery"}, !.intent["recovery"] = None,
                     !.awaiting = @ \ {"recovery"}, !.told = @ \ {"recovery"}])

\* The row the page acts on is replaced: by the editor's accept, and by what the
\* publication and the recovery do when their input changes.
Replaced(p, row) ==
  LET replaced == [p EXCEPT !.row = row,
                     !.awaiting = IF row.data.status = "approved" THEN @ ELSE @ \ {"publication"}]
  IN IF p.row # None /\ p.row.version = row.version
     THEN Watched(replaced) ELSE Updated(Watched(replaced))

Accepted(p, row) ==
  Replaced([p EXCEPT !.latest = None, !.form = row.data.text,
                     !.conflict = @ \ {"editor"}, !.intent["editor"] = None], row)

\* The key of a try: that of the try before when nothing changed.  An upload is
\* registered as it was first tried; a removal is retried as it first was.
Intent(i, cmd) ==
  LET last == page.intent[i]
      same == CASE i = "attachments" -> TRUE
                [] i = "removal" -> last.cmd.arg = cmd.arg
                [] OTHER -> last.cmd = cmd
  IN IF last # None /\ same THEN last ELSE [cmd |-> cmd, key |-> keys + 1]

Awaiting(pc, cmd, key) == [Resting EXCEPT !.pc = pc, !.cmd = cmd, !.key = key, !.floor = Now]

\* Sends the command of a session under the key of its intent; next is the page's
\* state but for that, given what the user has not given up.
Send(s, i, cmd, next, given) ==
  LET intent == Intent(i, cmd) IN
  /\ intent.key <= MaxKeys
  /\ keys' = IF intent.key > keys THEN intent.key ELSE keys
  /\ page' = [next EXCEPT !.intent[i] = intent]
  /\ call' = [call EXCEPT ![s] = Awaiting("sent", intent.cmd, intent.key)]
  /\ typed' = given
  /\ UNCHANGED <<server, faults>>

\* A read returns a version that was the last one at some instant of the read.
Read(s, name) == call' = [call EXCEPT ![s] = Awaiting("read", Command(name, None, None), 0)]
Seen(floor) == {Row(v) : v \in floor .. Now}
Done(s) == call' = [call EXCEPT ![s] = Resting]
-----------------------------------------------------------------------------
\* The draft form.  A text is exposed that is entered or kept while a command or a poll
\* is under way: while a poll runs, a draft is shown only when the user chose it for the
\* item that is being published.
AtRest == ~MutationPending /\ \A p \in Polls : page.poll[p] = Off
Entered(text, base) ==
  [typed EXCEPT !.text = IF text # base THEN text ELSE None,
                !.exposed = IF AtRest THEN @ \ {"text"} ELSE @ \cup {"text"}]

Type(text) ==
  /\ Shown /\ Editable /\ ~MutationPending /\ page.form # text
  /\ page' = [page EXCEPT !.form = text]
  /\ typed' = Entered(text, Baseline(page))
  /\ UNCHANGED <<server, keys, call, faults>>

Save ==
  /\ Shown /\ Editable /\ ~MutationPending /\ ~Conflict("editor")
  /\ Dirty
  /\ Send("editor", "editor",
          IF page.row = None THEN Command("create", 0, page.form)
          ELSE Command("edit", page.row.version, page.form), page, typed)

Compare ==
  /\ Shown /\ Conflict("editor") /\ ~Pending("editor") /\ page.row # None
  /\ Read("editor", "compare")
  /\ UNCHANGED <<server, keys, page, typed, faults>>

\* The text stays and the version that was compared becomes its base.  A comparison
\* that comes when its conflict is over offers this during an upload too, or on an item
\* that is being published.  A schedule stays in its form on a draft that is chosen, where
\* a submission loads the page over it.
KeepLocal ==
  /\ Shown /\ page.latest # None /\ page.latest.data.status = "draft"
  /\ page' = Replaced([page EXCEPT !.latest = None, !.conflict = @ \ {"editor"},
                                   !.intent["editor"] = None], page.latest)
  /\ typed' = [Entered(page.form, page.latest.data.text) EXCEPT !.exposed = @ \cup {"time"}]
  /\ UNCHANGED <<server, keys, call, faults>>

UseServer ==
  /\ Shown /\ page.latest # None
  /\ page' = Accepted(page, page.latest)
  /\ typed' = [typed EXCEPT !.text = None,
                            !.exposed = IF page.latest.data.status = "draft"
                                        THEN @ \cup {"time"} ELSE @]
  /\ UNCHANGED <<server, keys, call, faults>>

-----------------------------------------------------------------------------
\* Submission and reopening, and the loading of the whole page.
Loading(p) ==
  [p EXCEPT !.view = [pc |-> "loading", floor |-> Now], !.poll = [q \in Polls |-> Off],
            !.awaiting = {}, !.told = {}, !.conflict = @ \ Polls,
            !.intent["publication"] = None, !.intent["recovery"] = None]

\* A refresh the user confirms, a change of identity or another try.
Load ==
  /\ page.view.pc # "loading" /\ ~MutationPending /\ history # <<>>
  /\ page.row # None \/ ~Shown
  /\ page' = Loading(page)
  /\ typed' = Nothing
  /\ UNCHANGED <<server, keys, call, faults>>

Loaded ==
  /\ page.view.pc = "loading"
  /\ IF history = <<>>
     THEN page' = [page EXCEPT !.view.pc = "shown"]
     ELSE \E row \in Seen(page.view.floor) :
            page' = Updated([Accepted([page EXCEPT !.view.pc = "shown"], row) EXCEPT
                      !.file = FALSE, !.target = None, !.time = FALSE,
                      !.conflict = {}, !.intent = [i \in Intents |-> None]])
  /\ UNCHANGED <<server, keys, call, typed, faults>>

LoadFails ==
  /\ page.view.pc = "loading" /\ history # <<>> /\ Fault
  /\ page' = [page EXCEPT !.view.pc = "failed"]
  /\ UNCHANGED <<server, keys, call, typed>>

Submit ==
  /\ Shown /\ page.row # None /\ Editable
  /\ ~Dirty /\ ~MutationPending /\ ~page.file /\ ~Conflict("action")
  /\ Send("action", "action", Command("submit", page.row.version, None), page, typed)

\* An unsaved schedule is given up only on confirmation, which comes first.
Reopen ==
  /\ Shown /\ page.row # None /\ Status \in From("reopen")
  /\ ~MutationPending /\ ~Conflict("action")
  /\ Send("action", "action", Command("reopen", page.row.version, None), page,
          [typed EXCEPT !.time = FALSE])
-----------------------------------------------------------------------------
\* Attachments.
Select(slot) ==
  /\ Shown /\ page.row # None /\ Editable /\ ~Pending("attachments") /\ ~page.file
  /\ page' = [page EXCEPT !.file = TRUE, !.target = slot, !.conflict = @ \ {"attachments"},
                          !.intent["attachments"] = None]
  /\ UNCHANGED <<server, keys, call, typed, faults>>

DiscardFile ==
  /\ Shown /\ page.file /\ Editable /\ ~Pending("attachments")
  /\ page' = [page EXCEPT !.file = FALSE, !.target = None, !.conflict = @ \ {"attachments"},
                          !.intent["attachments"] = None, !.intent["removal"] = None]
  /\ UNCHANGED <<server, keys, call, typed, faults>>

\* A file is registered once; a registered one is looked up and sent again.
Upload ==
  /\ Shown /\ page.file /\ Editable /\ ~Pending("attachments")
  /\ ~AttachmentsBlocked /\ ~Conflict("attachments")
  /\ IF page.target = None
     THEN Send("attachments", "attachments",
               Command("register", page.row.version, None), page, typed)
     ELSE /\ Read("attachments", "register")
          /\ UNCHANGED <<server, keys, page, typed, faults>>

Remove(slot) ==
  /\ Shown /\ page.row # None /\ Editable /\ ~Pending("attachments") /\ ~page.file
  /\ ~AttachmentsBlocked /\ ~Conflict("attachments")
  /\ page.row.data.slots[slot] # "removed"
  /\ Send("attachments", "removal", Command("remove", page.row.version, slot), page, typed)
-----------------------------------------------------------------------------
\* The schedule: time is TRUE while the form holds another one than the item.
EditTime ==
  /\ Shown /\ page.row # None /\ Schedulable /\ ~page.time
  /\ ~ScheduleBlocked /\ ~Pending("schedule") /\ ~Conflict("schedule")
  /\ page' = [page EXCEPT !.time = TRUE]
  /\ typed' = [typed EXCEPT !.time = TRUE, !.exposed = @ \ {"time"}]
  /\ UNCHANGED <<server, keys, call, faults>>

DiscardTime ==
  /\ Shown /\ page.time /\ ~Schedulable
  /\ page' = [page EXCEPT !.time = FALSE, !.conflict = @ \ {"schedule"},
                          !.intent["schedule"] = None]
  /\ typed' = [typed EXCEPT !.time = FALSE]
  /\ UNCHANGED <<server, keys, call, faults>>

Scheduling(name, given) ==
  /\ Shown /\ page.row # None /\ Status \in From(name)
  /\ ~ScheduleBlocked /\ ~Pending("schedule") /\ ~Conflict("schedule")
  /\ name = "reschedule" => page.time
  /\ Send("schedule", "schedule", Command(name, page.row.version, None), page, given)

SaveSchedule == Scheduling("schedule", typed) \/ Scheduling("reschedule", typed)
CancelSchedule == Scheduling("cancel", [typed EXCEPT !.time = FALSE])
-----------------------------------------------------------------------------
\* Publication and its recovery.
Publish ==
  /\ Shown /\ page.row # None /\ Status \in From("publish")
  /\ ~PublicationBlocked /\ ~Conflict("publication") /\ "publication" \notin page.awaiting
  /\ Send("publication", "publication",
          Command("publish", page.row.version, None), page, typed)

Retry ==
  /\ Shown /\ page.row # None /\ Status = "failed"
  /\ ~RecoveryBlocked /\ ~Conflict("recovery") /\ "recovery" \notin page.awaiting
  /\ Send("recovery", "recovery", Command("retry", page.row.version, None),
          [page EXCEPT !.poll["recovery"] = Off], typed)

RefreshPublication ==
  /\ Shown /\ page.row # None /\ Status \in {"queued", "failed", "published"}
  /\ ~RecoveryBlocked
  /\ Read("recovery", "refresh")
  /\ page' = [page EXCEPT !.poll["recovery"] = Off]
  /\ UNCHANGED <<server, keys, typed, faults>>
-----------------------------------------------------------------------------
\* What each session does with the answer to its command.  A saved row is the one that
\* the editor had when it began, with the text it saved.
SavedRow(c) ==
  [version |-> c.answer.version, data |-> [history[c.cmd.expected] EXCEPT !.text = c.cmd.arg]]

OnOk(s, c) ==
  CASE s = "editor" ->
         LET kept == [page EXCEPT !.intent["editor"] = None, !.form = c.cmd.arg]
         IN IF c.cmd.name = "create" THEN kept ELSE Replaced(kept, SavedRow(c))
    [] s = "action" -> Loading(page)
    [] c.cmd.name = "register" ->
         [page EXCEPT !.target = Len(history[c.answer.version].slots)]
    [] s = "schedule" -> [page EXCEPT !.time = FALSE]
    [] s \in Polls -> [page EXCEPT !.awaiting = @ \cup {s}]
    [] OTHER -> page

\* Every command but the action's is followed by a read of the item.
Confirmed(s) ==
  LET c == call[s] IN
  /\ c.answer # None /\ c.answer.is = "ok"
  /\ page' = OnOk(s, c)
  /\ IF s = "action" THEN Done(s) ELSE Read(s, c.cmd.name)
  /\ typed' = CASE s = "editor" -> [typed EXCEPT !.text = None]
                [] s = "schedule" -> [typed EXCEPT !.time = FALSE]
                [] OTHER -> typed
  /\ UNCHANGED <<server, keys, faults>>

\* A conflict stands in the session's way until the page is loaded or compared.
Refused(s) ==
  /\ call[s].answer # None /\ call[s].answer.is # "ok"
  /\ page' = [page EXCEPT !.conflict = IF call[s].answer.is = "conflict" THEN @ \cup {s} ELSE @]
  /\ Done(s)
  /\ UNCHANGED <<server, keys, typed, faults>>

\* The answer is lost, or the page gives up a command that is still under way.
Lost(s) ==
  /\ call[s].pc = "sent" /\ Fault
  /\ late' = IF call[s].answer = None
             THEN late \cup {[cmd |-> call[s].cmd, key |-> call[s].key]} ELSE late
  /\ Done(s)
  /\ UNCHANGED <<history, results, keys, page, typed>>

\* What each session does with the item it read.
OnRead(s, name, row) ==
  LET accepted == Accepted(page, row) IN
  CASE name = "compare" -> [page EXCEPT !.latest = row]
    [] name = "create" -> Loading(accepted)
    [] name = "store" ->
         IF row.data.slots[page.target] = "ready"
         THEN [accepted EXCEPT !.file = FALSE, !.target = None, !.intent["attachments"] = None]
         ELSE accepted
    [] name = "remove" -> [accepted EXCEPT !.intent["removal"] = None]
    [] s = "schedule" ->
         [accepted EXCEPT !.time = FALSE, !.conflict = @ \ {s}, !.intent["schedule"] = None]
    [] name = "retry" -> Accepted([page EXCEPT !.awaiting = @ \ {s}], row)
    [] name = "refresh" ->
         Followed([accepted EXCEPT !.conflict = @ \ {s}, !.intent["recovery"] = None,
                                   !.awaiting = @ \ {s}])
    [] OTHER -> accepted

Arrived(s) ==
  LET name == call[s].cmd.name IN
  /\ call[s].pc = "read"
  /\ \E row \in Seen(call[s].floor) : page' = OnRead(s, name, row)
  /\ IF name = "register"
     THEN call' = [call EXCEPT ![s] = Awaiting("sent", Command("store", None, page.target), 0)]
     ELSE Done(s)
  /\ UNCHANGED <<server, keys, typed, faults>>

ReadFails(s) ==
  LET name == call[s].cmd.name IN
  /\ call[s].pc = "read" /\ Fault
  /\ page' = CASE name = "create" -> Loading(page)
               [] name = "publish" -> [page EXCEPT !.poll["publication"] = Timer]
               [] name = "retry" -> [page EXCEPT !.poll["recovery"] = Timer]
               [] name = "refresh" -> [page EXCEPT !.told = @ \cup {s}]
               [] OTHER -> page
  /\ Done(s)
  /\ UNCHANGED <<server, keys, typed>>
-----------------------------------------------------------------------------
\* The polls.
PollReads(p) ==
  /\ page.poll[p].pc = "timer"
  /\ page' = [page EXCEPT !.poll[p] = [pc |-> "reading", floor |-> Now]]
  /\ UNCHANGED <<server, keys, call, typed, faults>>

\* A scheduled item is replaced by its publication and by nothing else.
Displaced(row) ==
  /\ Status = "scheduled"
  /\ \/ row.data.status \in {"draft", "inReview", "approved"}
     \/ row.data.status = "scheduled" /\ row.data.generation # page.row.data.generation

PublicationPolled(row) ==
  LET heard == [page EXCEPT !.told = @ \ {"publication"}] IN
  IF Displaced(row)
  THEN [heard EXCEPT !.told = @ \cup {"publication"}, !.poll["publication"] = Off]
  ELSE IF row.data.status = "scheduled" /\ Status = "scheduled"
  THEN [heard EXCEPT !.poll["publication"] = Timer]
  ELSE IF row.version # page.row.version THEN Accepted(heard, row)
  ELSE [heard EXCEPT !.poll["publication"] =
          IF row.data.status = "queued" THEN Timer ELSE Off]

\* Seeded fault: the poll ends when it has brought a newer version.
RecoveryPolled_Once(row) ==
  [Accepted(page, row) EXCEPT !.poll["recovery"] = Off]

RecoveryPolled(row) ==
  LET heard == [page EXCEPT !.awaiting = @ \ {"recovery"}, !.told = @ \ {"recovery"}] IN
  IF Conflict("recovery") THEN [page EXCEPT !.poll["recovery"] = Off]
  ELSE IF row.version # page.row.version THEN Accepted(heard, row)
  ELSE Followed(heard)

Polled(p) ==
  /\ page.poll[p].pc = "reading"
  /\ \E row \in Seen(page.poll[p].floor) :
       page' = IF p = "publication" THEN PublicationPolled(row) ELSE RecoveryPolled(row)
  /\ UNCHANGED <<server, keys, call, typed, faults>>

\* A poll whose read fails, or whose tab is hidden for a while, is run again.
PollFails(p) ==
  /\ page.poll[p].pc = "reading" /\ Fault
  /\ page' = [page EXCEPT !.poll[p] = Timer]
  /\ UNCHANGED <<server, keys, call, typed>>
-----------------------------------------------------------------------------
Answer(s) == Execute(s) \/ Confirmed(s) \/ Refused(s) \/ Arrived(s)
Poll(p) == PollReads(p) \/ Polled(p)

User ==
  \/ \E text \in Texts : Type(text)
  \/ Save \/ Compare \/ KeepLocal \/ UseServer
  \/ Load \/ Submit \/ Reopen
  \/ Select(None) \/ DiscardFile \/ Upload
  \/ \E slot \in IF page.row = None THEN {} ELSE DOMAIN page.row.data.slots :
       \/ page.row.data.slots[slot] = "pending" /\ Select(slot)
       \/ Remove(slot)
  \/ EditTime \/ DiscardTime \/ SaveSchedule \/ CancelSchedule
  \/ Publish \/ Retry \/ RefreshPublication

Next ==
  \/ User \/ Loaded \/ LoadFails
  \/ \E s \in Sessions : Answer(s) \/ Lost(s) \/ ReadFails(s)
  \/ \E p \in Polls : Poll(p) \/ PollFails(p)
  \/ OthersWrite \/ ExecuteLate

Spec == Init /\ [][Next]_vars
-----------------------------------------------------------------------------
\* What a user typed into the draft or the schedule is in its form until it is saved,
\* replaced by a version the user chose instead, or given up on confirmation.
TypedIsKept ==
  /\ typed.text # None => page.form = typed.text
  /\ typed.time => page.time

\* What of it is not exposed.
SureText == IF "text" \in typed.exposed THEN None ELSE typed.text
SureTime == typed.time /\ "time" \notin typed.exposed

\* A text that was typed, or kept after a comparison, while no command and no poll was
\* under way is in the form until it is saved, replaced by choice or given up on
\* confirmation, and so is a schedule unless a draft is chosen over it: no upload, poll,
\* refused command or reload that another session brings about later takes them away.
\* Nothing is said of a text that is typed or kept while one is under way.
EnteredAtRestIsKept ==
  /\ SureText # None => page.form = SureText
  /\ SureTime => page.time

Following ==
  /\ Shown /\ page.row # None
  /\ Status \in {"scheduled", "queued"} \/ page.awaiting # {}

\* A page that shows a scheduled or a publishing item shows the last of it in the
\* end, or says that it does not.
CatchesUp ==
  []<>(Following => page.row.version = Now \/ page.told # {} \/ page.conflict # {})
=============================================================================
