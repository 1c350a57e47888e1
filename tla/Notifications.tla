---------------------------- MODULE Notifications ----------------------------
(***************************************************************************)
(* The worker that tells an editor of a requested or overdue review, and   *)
(* an author of a decision.  A notification is named by its event, its     *)
(* recipient and its template, and is rendered from the event alone, up to *)
(* the time of its delivery.  Its destination, its operation record and    *)
(* its listing rows are one conditional transaction, whose answer may be   *)
(* lost; the sink then reads who has won.                                  *)
(*                                                                         *)
(* It takes the events that Materialization's workers take, and shares     *)
(* nothing else with them: a behaviour is about the one or the other.      *)
(***************************************************************************)
EXTENDS Materialization

VARIABLES
  consumer,     \* the worker the deliveries of this behaviour are for
  notices,      \* the notifications stored
  sender,       \* the delivery each worker executes
  told          \* events a worker has answered, so that they are not redelivered

noticeVars == <<consumer, notices, sender, told>>
-----------------------------------------------------------------------------
NoticeTypes == {"reviewRequested", "reviewDecided", "reviewReminderRecorded"}
Notable == {fact \in facts : fact.type \in NoticeTypes}
Resting == [pc |-> "idle", notice |-> None]

NoticeInit ==
  /\ Init
  /\ consumer \in {"materialize", "deliverNotification"}
  /\ notices = {}
  /\ sender = [w \in Workers |-> Resting]
  /\ told = {}

Recipient(fact) == IF fact.type = "reviewDecided" THEN "author" ELSE "editor"
Template(fact) ==
  IF fact.type = "reviewDecided" THEN fact.snapshot.status ELSE fact.type

\* The event's name is its type and the version that wrote it.
NoticeId(fact) == <<fact.type, fact.source, Recipient(fact), Template(fact)>>

Rendered(fact) == [id |-> NoticeId(fact), says |-> fact, deliveredAt |-> clock]

\* Seeded fault: a redelivery must also repeat the time of the first delivery.
SameNotification_Exactly(existing, incoming) == existing = incoming

\* The business content is compared; transport ids and the time of delivery are not.
SameNotification(existing, incoming) ==
  existing.id = incoming.id /\ existing.says = incoming.says
-----------------------------------------------------------------------------
Notice(w) == sender[w].notice
Found(w) == {stored \in notices : stored.id = Notice(w).id}
Conflicts(w) == \E stored \in Found(w) : ~SameNotification(stored, Notice(w))

Sends(w, pc) == sender' = [sender EXCEPT ![w].pc = pc]
Throw(w) == sender' = [sender EXCEPT ![w] = Resting] /\ UNCHANGED told
Told(w) ==
  /\ sender' = [sender EXCEPT ![w] = Resting]
  /\ told' = told \cup {Notice(w).says}

Render(w, fact) ==
  /\ sender[w].pc = "idle"
  /\ sender' = [sender EXCEPT ![w] = [pc |-> "get", notice |-> Rendered(fact)]]
  /\ UNCHANGED <<notices, told, faults>>

\* What is stored already is the answer, or a conflict.
AnswerStored(w) ==
  /\ Found(w) # {}
  /\ IF Conflicts(w) THEN Throw(w) ELSE Told(w)

Get(w) ==
  /\ sender[w].pc = "get" /\ UNCHANGED notices
  /\ \/ AnswerStored(w) /\ UNCHANGED faults
     \/ Found(w) = {} /\ Sends(w, "write") /\ UNCHANGED <<told, faults>>
     \/ Fault /\ Throw(w)

\* Every put is conditional on its key being new; a call may fail on either side of
\* its effect.
Write(w) ==
  /\ sender[w].pc = "write"
  /\ \/ /\ Found(w) = {} /\ notices' = notices \cup {Notice(w)}
        /\ \/ Told(w) /\ UNCHANGED faults
           \/ Fault /\ Sends(w, "winner") /\ UNCHANGED told
     \/ Found(w) # {} /\ Sends(w, "winner") /\ UNCHANGED <<notices, told, faults>>
     \/ Fault /\ Sends(w, "winner") /\ UNCHANGED <<notices, told>>

\* A competing insert and a lost answer are told alike: from what is stored now.
Winner(w) ==
  /\ sender[w].pc = "winner" /\ UNCHANGED notices
  /\ \/ AnswerStored(w) /\ UNCHANGED faults
     \/ Found(w) = {} /\ Throw(w) /\ UNCHANGED faults
     \/ Fault /\ Throw(w)
-----------------------------------------------------------------------------
Notify ==
  /\ consumer = "deliverNotification"
  /\ \E w \in Workers :
       (\E fact \in Notable : Render(w, fact)) \/ Get(w) \/ Write(w) \/ Winner(w)
  /\ UNCHANGED <<contentVars, views, commands, worker, settled, consumer>>

NoticeNext ==
  \/ Content /\ UNCHANGED noticeVars
  \/ consumer = "materialize" /\ Delivery /\ UNCHANGED noticeVars
  \/ Notify

NoticeSpec == NoticeInit /\ [][NoticeNext]_<<vars, noticeVars>>
-----------------------------------------------------------------------------
\* Every event is told once and as it says, whoever delivers it, as often as it is
\* delivered and wherever a delivery stops: an answered event has one notification,
\* and a delivery that finds one is never refused for it.
ToldOnce ==
  /\ \A w \in Workers : sender[w].pc # "idle" => ~Conflicts(w)
  /\ \A fact \in Notable :
       LET sent == {stored \in notices : stored.says = fact} IN
       /\ Cardinality(sent) <= 1
       /\ fact \in told => sent # {}
=============================================================================
