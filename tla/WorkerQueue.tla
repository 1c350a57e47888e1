----------------------------- MODULE WorkerQueue -----------------------------
(***************************************************************************)
(* A consumer's SQS queue and its dead-letter queue.  The worker takes a   *)
(* batch from the queue, the collector one from the dead-letter queue;     *)
(* both validate every record of the batch before they deliver the first,  *)
(* deliver in order, and give the whole batch back when one of them fails  *)
(* or is deferred.  Each record is an invocation of EventDelivery.         *)
(***************************************************************************)
EXTENDS EventDelivery, Sequences, SequencesExt

CONSTANTS
  Messages,     \* SQS messages; two may carry the same event
  Bodies,       \* the events that messages may carry: functions of messages
  Refused,      \* messages no validation accepts
  BatchSize,    \* messages of one invocation
  MaxReceive    \* receives before the queue moves a message to its dead-letter queue (3)

ASSUME QueueAssumption ==
  /\ \A body \in Bodies : body \in [DOMAIN body -> Events] /\ DOMAIN body \subseteq Messages
  /\ Refused \subseteq Messages
  /\ {BatchSize, MaxReceive} \subseteq Nat \ {0}

VARIABLES
  eventOf,      \* the event in each sent message's body; it never changes
  message,      \* where each message is and how often the queue handed it out
  job           \* the batch of each invocation and the record it is at

queueVars == <<vars, eventOf, message, job>>
-----------------------------------------------------------------------------
\* The messages that were sent to this queue.
Sent == DOMAIN eventOf

NoJob == [batch |-> <<>>, next |-> 1]

QueueInit ==
  /\ Init
  /\ eventOf \in Bodies
  /\ message = [m \in Sent |-> [place |-> "queue", receives |-> 0]]
  /\ job = [w \in Callers |-> NoJob]

\* Seeded fault: the collector is bound to the source queue.
Source_Queue(w) == "queue"

Source(w) == IF w \in Handlers THEN "queue" ELSE "dead"
Free(w) == job[w].batch = <<>>
Current(w) == eventOf[job[w].batch[job[w].next]]

\* The queue counts a message's receives; the dead-letter queue has no limit.
Received(batch, w) ==
  [m \in Sent |->
     IF m \notin ToSet(batch) THEN message[m]
     ELSE [place |-> "taken",
           receives |-> IF w \in Handlers THEN message[m].receives + 1
                        ELSE message[m].receives]]

\* A batch that was not acknowledged becomes visible again or dies.
GivenBack(batch, w, messages) ==
  [m \in Sent |->
     IF m \notin ToSet(batch) THEN messages[m]
     ELSE [messages[m] EXCEPT
             !.place = IF w \in Handlers /\ messages[m].receives < MaxReceive
                       THEN "queue" ELSE "dead"]]

\* The queue of a workflow with recoverable deliveries hands out one by one.
BatchLimit == IF \E m \in Sent : eventOf[m] \in Recoveries THEN 1 ELSE BatchSize

\* Every record of the batch is parsed and validated before the first effect.
Acceptable(batch) == ToSet(batch) \cap Refused = {}

\* An invocation receives a batch of its queue and validates it; a read that
\* fails during the validation refuses the batch as well.
Receive(w, batch) ==
  /\ UNCHANGED eventOf
  /\ Free(w) /\ batch # <<>> /\ IsInjective(batch)
  /\ \A m \in ToSet(batch) : m \in Sent /\ message[m].place = Source(w)
  /\ \/ /\ Acceptable(batch)
        /\ message' = Received(batch, w)
        /\ job' = [job EXCEPT ![w] = [batch |-> batch, next |-> 1]]
        /\ UNCHANGED vars
     \/ /\ IF Acceptable(batch) THEN ValidationFails ELSE UNCHANGED vars
        /\ message' = GivenBack(batch, w, Received(batch, w))
        /\ UNCHANGED job

Open(w) ==
  /\ ~Free(w) /\ delivery[w].pc = "idle"
  /\ Begin(w, Current(w))
  /\ UNCHANGED <<eventOf, message, job>>

Acknowledges(result) == result \in {"processed", "duplicate", "ignored"}

\* The record's delivery has returned: on to the next one, to the end of the
\* batch, which deletes it, or out with an error, which gives it back.
Close(w) ==
  /\ ~Free(w) /\ Take(w) /\ UNCHANGED eventOf
  /\ LET batch == job[w].batch IN
     IF ~Acknowledges(delivery[w].result)
     THEN /\ message' = GivenBack(batch, w, message)
          /\ job' = [job EXCEPT ![w] = NoJob]
     ELSE IF job[w].next < Len(batch)
     THEN /\ job' = [job EXCEPT ![w].next = @ + 1]
          /\ UNCHANGED message
     ELSE /\ message' = [m \in Sent |-> IF m \in ToSet(batch)
                          THEN [message[m] EXCEPT !.place = "deleted"] ELSE message[m]]
          /\ job' = [job EXCEPT ![w] = NoJob]

\* The process ends after a delivery was earned and before the batch is deleted: what
\* it handled to the end is handed out again.
Dies(w) ==
  /\ ~Free(w) /\ delivery[w].pc = "returned" /\ Acknowledges(delivery[w].result)
  /\ faults < MaxFaults
  /\ delivery' = [delivery EXCEPT ![w] = Idle] /\ faults' = faults + 1
  /\ message' = GivenBack(job[w].batch, w, message)
  /\ job' = [job EXCEPT ![w] = NoJob]
  /\ UNCHANGED <<clock, marker, handled, completed, collected, eventOf>>

Deliver(w) == Step(w) /\ UNCHANGED <<eventOf, message, job>>
Work(w) == Open(w) \/ Deliver(w) \/ Close(w)
QueueTick == Tick /\ UNCHANGED <<eventOf, message, job>>

QueueNext ==
  \/ QueueTick
  \/ \E w \in Callers : Work(w) \/ Dies(w) \/ \E batch \in SeqOf(Sent, BatchLimit) : Receive(w, batch)

QueueSpec == QueueInit /\ [][QueueNext]_queueVars

\* An invocation that runs comes to its end, time passes, and a queue hands out
\* every message that stays visible again and again.
QueueFairness ==
  /\ WF_queueVars(QueueTick)
  /\ \A w \in Callers : WF_queueVars(Work(w))
  /\ \A m \in Messages \ Refused :
       SF_queueVars(\E w \in Handlers : Receive(w, <<m>>))
         /\ SF_queueVars(\E w \in Collectors : Receive(w, <<m>>))

QueueFairSpec == QueueSpec /\ QueueFairness
-----------------------------------------------------------------------------
\* The queue forgets a message for good once its event was handled to the end,
\* belongs to another consumer, or was recorded as a failure.
Finished(m) ==
  LET e == eventOf[m] IN
  /\ message[m].place = "deleted"
  /\ \/ e \in Foreign \cup collected
     \/ handled[e] > 0 /\ (e \in Recoveries => e \in completed)

\* Every message that can be validated leaves the queues, and none before its time:
\* handled, or dead and collected, however often handlers fail and markers find no room.
EveryMessageSettles == \A m \in Messages \ Refused : <>(m \in Sent => Finished(m))
=============================================================================
