----------------------------- MODULE DeliveryProofs -----------------------------
(***************************************************************************)
(* Both ends of an event's way.  The sender: publish, then mark; for any   *)
(* number of events, batches, retries, sweeps and failed calls, no outbox  *)
(* row says PUBLISHED before its event is on the bus.  The receiver: for   *)
(* every number of events and of concurrent deliveries, with either marker *)
(* store, a marker stands only for finished work, and an answer that       *)
(* acknowledges an event is earned.  None of these is inductive: a row or  *)
(* a marker is written by someone who did the work several steps before,   *)
(* so each invariant also says what has been done by the step one is at.   *)
(***************************************************************************)
EXTENDS OutboxRelay, EventDelivery, FiniteSetTheorems, TLAPS

(* The sender: outbox rows, the dispatcher and the sweeper.                *)

DispatcherStates == [pc : {"idle", "publish", "mark"}, size : Nat, next : Nat, failures : Nat]

\* The batch in the dispatcher's hands is the front of the stream.
DispatcherShape ==
  /\ dispatcher \in DispatcherStates
  /\ dispatcher.pc # "idle" =>
       /\ 1 <= dispatcher.next /\ dispatcher.next <= dispatcher.size
       /\ dispatcher.size <= Len(stream)

StreamShape == \E S : stream \in Seq(S)

RelayShape ==
  /\ bus \in [OutboxEvents -> Nat]
  /\ DOMAIN row = OutboxEvents
  /\ StreamShape
  /\ DispatcherShape
  /\ {"pc", "items"} \subseteq DOMAIN sweeper

OnTheBus(e) == bus[e] > 0

\* Whoever is about to mark a row has published its event.
MarkersPublished ==
  /\ dispatcher.pc = "mark" => (Current.event \in OutboxEvents => OnTheBus(Current.event))
  /\ sweeper.pc = "mark" => (Head(sweeper.items) \in OutboxEvents => OnTheBus(Head(sweeper.items)))

RelayInv == RelayShape /\ MarkersPublished /\ PublishedIsOnTheBus
-----------------------------------------------------------------------------
LEMMA RelayInitInv == RelayInit => RelayInv
<1> SUFFICES ASSUME RelayInit PROVE RelayInv
  OBVIOUS
<1> USE DEF RelayInit
<1>1. stream \in Seq(OutboxEvents)
  OBVIOUS
<1>2. DispatcherShape
  BY DEF DispatcherShape, DispatcherStates
<1>3. RelayShape
  BY <1>1, <1>2 DEF RelayShape, StreamShape, Asleep
<1>4. MarkersPublished /\ PublishedIsOnTheBus
  BY DEF MarkersPublished, PublishedIsOnTheBus, AbsentRow, Asleep
<1> QED
  BY <1>3, <1>4 DEF RelayInv

\* The bus takes events and gives none back.
LEMMA BusGrows ==
  ASSUME RelayShape, NEW e, NEW outcome \in Outcomes, Published(e, outcome)
  PROVE  /\ bus' \in [OutboxEvents -> Nat]
         /\ \A x \in OutboxEvents : bus[x] > 0 => bus'[x] > 0
         /\ e \in OutboxEvents /\ outcome = "ok" => bus'[e] > 0
<1>1. CASE bus' = bus
  <2>1. outcome = "ok" /\ e \in OutboxEvents => bus[e] > 0
    BY <1>1 DEF Published, RelayShape, Repeatedly
  <2> QED
    BY <1>1, <2>1 DEF RelayShape
<1>2. CASE bus' = [bus EXCEPT ![e] = @ + 1]
  <2>1. CASE e \in OutboxEvents
    BY <1>2, <2>1 DEF RelayShape
  <2>2. CASE e \notin OutboxEvents
    BY <1>2, <2>2 DEF RelayShape
  <2> QED
    BY <2>1, <2>2
<1> QED
  BY <1>1, <1>2 DEF Published

\* Records are appended behind the batch.
LEMMA StreamGrows ==
  ASSUME RelayShape, NEW e, NEW outcome
  PROVE  \E T : /\ StreamAfter(e, outcome) \in Seq(T)
                /\ Len(stream) <= Len(StreamAfter(e, outcome))
                /\ \A i \in 1 .. Len(stream) : StreamAfter(e, outcome)[i] = stream[i]
<1> DEFINE r == Record(e, "PENDING", "PUBLISHED")
<1>1. PICK S : stream \in Seq(S)
  BY DEF RelayShape, StreamShape
<1> HIDE DEF r
<1>2. /\ Append(stream, r) \in Seq(S \cup {r})
      /\ Len(Append(stream, r)) = Len(stream) + 1
      /\ \A i \in 1 .. Len(stream) : Append(stream, r)[i] = stream[i]
  <2>1. stream \in Seq(S \cup {r})
    BY <1>1
  <2> QED
    BY <2>1
<1>3. Len(stream) \in Nat
  BY <1>1
<1>4. CASE Applies(e, outcome)
  <2>1. StreamAfter(e, outcome) = Append(stream, r)
    BY <1>4 DEF StreamAfter, r
  <2> QED
    BY <1>2, <1>3, <2>1
<1>5. CASE ~Applies(e, outcome)
  <2>1. StreamAfter(e, outcome) = stream
    BY <1>5 DEF StreamAfter
  <2> QED
    BY <1>1, <1>3, <2>1
<1> QED
  BY <1>4, <1>5

\* Only the row that is marked becomes PUBLISHED.
LEMMA RowsMarked ==
  ASSUME RelayShape, NEW e, NEW outcome, row' = RowsAfter(e, outcome)
  PROVE  /\ DOMAIN row' = OutboxEvents
         /\ \A x \in OutboxEvents : x # e => row'[x] = row[x]
         /\ \A x \in OutboxEvents : row'[x].status = "PUBLISHED" =>
              x = e \/ row[x].status = "PUBLISHED"
  BY DEF RelayShape, RowsAfter
-----------------------------------------------------------------------------
(* The dispatcher.                                                         *)

\* After a batch's record the next one is published or the batch is gone.
LEMMA Advances ==
  ASSUME RelayShape, dispatcher.pc # "idle", NEW T, NEW s \in Seq(T), Len(stream) <= Len(s),
         Advance(s)
  PROVE  /\ StreamShape'
         /\ DispatcherShape'
         /\ dispatcher'.pc # "mark"
<1>1. /\ Len(stream) \in Nat /\ Len(s) \in Nat
      /\ dispatcher.size \in Nat /\ dispatcher.next \in Nat
      /\ dispatcher.next <= dispatcher.size /\ dispatcher.size <= Len(stream)
      /\ 1 <= dispatcher.next
  BY DEF RelayShape, DispatcherShape, DispatcherStates
<1>2. CASE dispatcher.next < dispatcher.size
  <2>1. dispatcher' = [dispatcher EXCEPT !.pc = "publish", !.next = @ + 1] /\ stream' = s
    BY <1>2 DEF Advance
  <2>2. /\ dispatcher' \in DispatcherStates /\ dispatcher'.pc = "publish"
        /\ dispatcher'.next = dispatcher.next + 1 /\ dispatcher'.size = dispatcher.size
    <3>1. dispatcher \in DispatcherStates /\ dispatcher.next + 1 \in Nat
      BY <1>1 DEF RelayShape, DispatcherShape
    <3>2. PICK n \in Nat : n = dispatcher.next + 1
      BY <3>1
    <3>3. dispatcher' = [dispatcher EXCEPT !.pc = "publish", !.next = n]
      BY <2>1, <3>2
    <3> QED
      BY <3>1, <3>2, <3>3 DEF DispatcherStates
  <2>3. DispatcherShape'
    BY <1>1, <1>2, <2>1, <2>2 DEF DispatcherShape
  <2> QED
    BY <2>1, <2>2, <2>3 DEF StreamShape
<1>3. CASE ~(dispatcher.next < dispatcher.size)
  <2>1. /\ dispatcher' = [pc |-> "idle", size |-> 0, next |-> 1, failures |-> 0]
        /\ stream' = SubSeq(s, dispatcher.size + 1, Len(s))
    BY <1>3 DEF Advance
  <2>2. SubSeq(s, dispatcher.size + 1, Len(s)) \in Seq(T)
    BY <1>1
  <2> QED
    BY <2>1, <2>2 DEF DispatcherShape, DispatcherStates, StreamShape
<1> QED
  BY <1>2, <1>3

LEMMA Aborts ==
  ASSUME RelayShape, dispatcher.pc # "idle", NEW T, NEW s \in Seq(T), Len(stream) <= Len(s),
         Abort(s)
  PROVE  /\ StreamShape'
         /\ DispatcherShape'
         /\ dispatcher'.pc # "mark"
<1>1. /\ Len(stream) \in Nat /\ Len(s) \in Nat
      /\ dispatcher.size \in Nat /\ dispatcher.size <= Len(stream)
  BY DEF RelayShape, DispatcherShape, DispatcherStates
<1>2. CASE dispatcher.failures < Retries
  <2>1. dispatcher' = [dispatcher EXCEPT !.pc = "idle", !.failures = @ + 1] /\ stream' = s
    BY <1>2 DEF Abort
  <2>2. dispatcher' \in DispatcherStates /\ dispatcher'.pc = "idle"
    <3>1. dispatcher \in DispatcherStates /\ dispatcher.failures + 1 \in Nat
      BY DEF RelayShape, DispatcherShape, DispatcherStates
    <3>2. PICK n \in Nat : n = dispatcher.failures + 1
      BY <3>1
    <3>3. dispatcher' = [dispatcher EXCEPT !.pc = "idle", !.failures = n]
      BY <2>1, <3>2
    <3> QED
      BY <3>1, <3>3 DEF DispatcherStates
  <2> QED
    BY <2>1, <2>2 DEF DispatcherShape, StreamShape
<1>3. CASE ~(dispatcher.failures < Retries)
  <2>1. /\ dispatcher' = [pc |-> "idle", size |-> 0, next |-> 1, failures |-> 0]
        /\ stream' = SubSeq(s, dispatcher.size + 1, Len(s))
    BY <1>3 DEF Abort
  <2>2. SubSeq(s, dispatcher.size + 1, Len(s)) \in Seq(T)
    BY <1>1
  <2> QED
    BY <2>1, <2>2 DEF DispatcherShape, DispatcherStates, StreamShape
<1> QED
  BY <1>2, <1>3

LEMMA CurrentIsInStream ==
  ASSUME RelayShape, dispatcher.pc # "idle"
  PROVE  dispatcher.next \in 1 .. Len(stream)
<1>1. Len(stream) \in Nat
  BY DEF RelayShape, StreamShape
<1> QED
  BY <1>1 DEF RelayShape, DispatcherShape, DispatcherStates

LEMMA DispatchKeeps == ASSUME RelayInv, Dispatch PROVE RelayInv'
<1> USE DEF RelayInv
<1>1. CASE Poll
  <2>1. UNCHANGED <<row, stream, sweeper, bus>>
    BY <1>1 DEF Poll
  <2>2. DispatcherShape' /\ dispatcher'.pc = "publish"
    <3>1. PICK size \in 1 .. BatchSize :
            /\ size <= Len(stream)
            /\ dispatcher' = [dispatcher EXCEPT !.pc = "publish", !.size = size, !.next = 1]
      BY <1>1 DEF Poll
    <3>2. size \in Nat /\ 1 <= size
      BY RelayAssumption
    <3>3. dispatcher' \in DispatcherStates /\ dispatcher'.pc = "publish"
          /\ dispatcher'.size = size /\ dispatcher'.next = 1
      BY <3>1, <3>2 DEF RelayShape, DispatcherShape, DispatcherStates
    <3> QED
      BY <2>1, <3>1, <3>2, <3>3 DEF DispatcherShape
  <2> QED
    BY <2>1, <2>2 DEF RelayShape, StreamShape, MarkersPublished, PublishedIsOnTheBus, OnTheBus
<1>2. CASE Ignore
  <2>1. UNCHANGED <<row, sweeper, bus>> /\ Advance(stream) /\ dispatcher.pc # "idle"
    BY <1>2 DEF Ignore
  <2>2. StreamShape' /\ DispatcherShape' /\ dispatcher'.pc # "mark"
    <3>1. PICK S : stream \in Seq(S)
      BY DEF RelayShape, StreamShape
    <3>2. Len(stream) <= Len(stream)
      BY <3>1
    <3> QED
      BY <2>1, <3>1, <3>2, Advances
  <2> QED
    BY <2>1, <2>2 DEF RelayShape, MarkersPublished, PublishedIsOnTheBus, OnTheBus
<1>3. CASE DispatchPublish
  <2>1. UNCHANGED <<row, sweeper>> /\ dispatcher.pc = "publish"
    BY <1>3 DEF DispatchPublish
  <2>2. PICK outcome \in Outcomes :
          /\ Published(Current.event, outcome)
          /\ IF outcome = "ok"
             THEN dispatcher' = [dispatcher EXCEPT !.pc = "mark"] /\ UNCHANGED stream
             ELSE Abort(stream)
    BY <1>3 DEF DispatchPublish
  <2>3. /\ bus' \in [OutboxEvents -> Nat]
        /\ \A x \in OutboxEvents : bus[x] > 0 => bus'[x] > 0
        /\ Current.event \in OutboxEvents /\ outcome = "ok" => bus'[Current.event] > 0
    BY <2>2, BusGrows
  <2>4. StreamShape' /\ DispatcherShape'
        /\ (dispatcher'.pc = "mark" => outcome = "ok" /\ Current' = Current)
    <3>1. CASE outcome = "ok"
      BY <2>1, <2>2, <3>1 DEF RelayShape, StreamShape, DispatcherShape, DispatcherStates, Current
    <3>2. CASE outcome # "ok"
      <4>1. PICK S : stream \in Seq(S)
        BY DEF RelayShape, StreamShape
      <4>2. Abort(stream) /\ Len(stream) <= Len(stream)
        BY <2>2, <3>2, <4>1
      <4> QED
        BY <2>1, <4>1, <4>2, Aborts
    <3> QED
      BY <3>1, <3>2
  <2> QED
    BY <2>1, <2>3, <2>4 DEF RelayShape, MarkersPublished, PublishedIsOnTheBus, OnTheBus
<1>4. CASE DispatchMark
  <2>1. UNCHANGED <<sweeper, bus>> /\ dispatcher.pc = "mark"
    BY <1>4 DEF DispatchMark
  <2>2. PICK outcome \in Outcomes :
          /\ row' = RowsAfter(Current.event, outcome)
          /\ \/ Advance(StreamAfter(Current.event, outcome))
             \/ Abort(StreamAfter(Current.event, outcome))
    BY <1>4 DEF DispatchMark
  <2>3. PICK T : /\ StreamAfter(Current.event, outcome) \in Seq(T)
                 /\ Len(stream) <= Len(StreamAfter(Current.event, outcome))
    BY StreamGrows
  <2>4. StreamShape' /\ DispatcherShape' /\ dispatcher'.pc # "mark"
    BY <2>1, <2>2, <2>3, Advances, Aborts
  <2>5. DOMAIN row' = OutboxEvents /\ \A x \in OutboxEvents : row'[x].status = "PUBLISHED" =>
          x = Current.event \/ row[x].status = "PUBLISHED"
    BY <2>2, RowsMarked
  <2> QED
    BY <2>1, <2>4, <2>5 DEF RelayShape, MarkersPublished, PublishedIsOnTheBus, OnTheBus
<1> QED
  BY <1>1, <1>2, <1>3, <1>4 DEF Dispatch
-----------------------------------------------------------------------------
(* The sweeper.                                                            *)

LEMMA SweepKeeps == ASSUME RelayInv, SweepOnce PROVE RelayInv'
<1> USE DEF RelayInv
<1>1. CASE Sweep
  <2>1. UNCHANGED <<row, stream, dispatcher, bus>>
    BY <1>1 DEF Sweep
  <2>2. {"pc", "items"} \subseteq DOMAIN sweeper' /\ sweeper'.pc # "mark"
    BY <1>1 DEF Sweep, Asleep
  <2> QED
    BY <2>1, <2>2 DEF RelayShape, StreamShape, DispatcherShape, MarkersPublished, PublishedIsOnTheBus,
       OnTheBus, Current
<1>2. CASE SweepPublish
  <2>1. UNCHANGED <<row, stream, dispatcher>>
    BY <1>2 DEF SweepPublish
  <2>2. PICK outcome \in Outcomes :
          /\ Published(Head(sweeper.items), outcome)
          /\ sweeper' = IF outcome = "ok" THEN [sweeper EXCEPT !.pc = "mark"] ELSE Asleep
    BY <1>2 DEF SweepPublish
  <2>3. /\ bus' \in [OutboxEvents -> Nat]
        /\ \A x \in OutboxEvents : bus[x] > 0 => bus'[x] > 0
        /\ Head(sweeper.items) \in OutboxEvents /\ outcome = "ok" => bus'[Head(sweeper.items)] > 0
    BY <2>2, BusGrows
  <2>4. /\ {"pc", "items"} \subseteq DOMAIN sweeper'
        /\ sweeper'.pc = "mark" => outcome = "ok" /\ sweeper'.items = sweeper.items
    BY <2>2 DEF RelayShape, Asleep
  <2>5. RelayShape'
    BY <2>1, <2>3, <2>4 DEF RelayShape, StreamShape, DispatcherShape
  <2>6. MarkersPublished'
    BY <2>1, <2>3, <2>4, CurrentIsInStream DEF MarkersPublished, OnTheBus, Current
  <2>7. PublishedIsOnTheBus'
    BY <2>1, <2>3 DEF PublishedIsOnTheBus
  <2> QED
    BY <2>5, <2>6, <2>7
<1>3. CASE SweepMark
  <2>1. UNCHANGED <<dispatcher, bus>> /\ sweeper.pc = "mark"
    BY <1>3 DEF SweepMark
  <2>2. PICK outcome \in Outcomes :
          /\ row' = RowsAfter(Head(sweeper.items), outcome)
          /\ stream' = StreamAfter(Head(sweeper.items), outcome)
          /\ sweeper' = SweepNext(outcome)
    BY <1>3 DEF SweepMark
  <2>3. {"pc", "items"} \subseteq DOMAIN sweeper' /\ sweeper'.pc # "mark"
    BY <2>2 DEF SweepNext, Asleep
  <2>4. /\ StreamShape' /\ Len(stream) <= Len(stream')
        /\ \A i \in 1 .. Len(stream) : stream'[i] = stream[i]
    BY <2>2, StreamGrows DEF StreamShape
  <2>5. DOMAIN row' = OutboxEvents /\ \A x \in OutboxEvents : row'[x].status = "PUBLISHED" =>
          x = Head(sweeper.items) \/ row[x].status = "PUBLISHED"
    BY <2>2, RowsMarked
  <2>6. DispatcherShape'
    <3>1. Len(stream) \in Nat /\ Len(stream') \in Nat
      BY <2>4 DEF RelayShape, StreamShape
    <3> QED
      BY <2>1, <2>4, <3>1 DEF RelayShape, DispatcherShape, DispatcherStates
  <2>7. MarkersPublished'
    BY <2>1, <2>3, <2>4, CurrentIsInStream DEF MarkersPublished, OnTheBus, Current
  <2>8. PublishedIsOnTheBus'
    BY <2>1, <2>5 DEF MarkersPublished, PublishedIsOnTheBus, OnTheBus
  <2> QED
    BY <2>1, <2>3, <2>4, <2>5, <2>6, <2>7, <2>8 DEF RelayShape
<1> QED
  BY <1>1, <1>2, <1>3 DEF SweepOnce
-----------------------------------------------------------------------------
LEMMA RelayNextInv == RelayInv /\ [RelayNext]_relayVars => RelayInv'
<1> SUFFICES ASSUME RelayInv, [RelayNext]_relayVars PROVE RelayInv'
  OBVIOUS
<1> USE DEF RelayInv
<1>1. CASE Dispatch \/ SweepOnce
  BY <1>1, DispatchKeeps, SweepKeeps
<1>2. CASE UNCHANGED <<row, stream, dispatcher, sweeper, bus>>
  BY <1>2 DEF RelayShape, StreamShape, DispatcherShape, MarkersPublished, PublishedIsOnTheBus,
     OnTheBus, Current
<1>3. ASSUME NEW e \in OutboxEvents, NEW at \in 0 .. MaxClock, CommitCommand(e, at) PROVE RelayInv'
  <2>1. UNCHANGED <<dispatcher, sweeper, bus>>
    BY <1>3 DEF CommitCommand
  <2>2. DOMAIN row' = OutboxEvents
        /\ \A x \in OutboxEvents : row'[x].status = "PUBLISHED" => row[x].status = "PUBLISHED"
    BY <1>3 DEF CommitCommand, RelayShape
  <2>3. /\ StreamShape' /\ Len(stream) \in Nat /\ Len(stream') = Len(stream) + 1
        /\ \A i \in 1 .. Len(stream) : stream'[i] = stream[i]
    <3> DEFINE r == Record(e, "ABSENT", "PENDING")
    <3>1. PICK S : stream \in Seq(S)
      BY DEF RelayShape, StreamShape
    <3>2. stream' = Append(stream, r)
      BY <1>3 DEF CommitCommand
    <3> HIDE DEF r
    <3>3. stream \in Seq(S \cup {r}) /\ r \in S \cup {r}
      BY <3>1
    <3>4. stream' \in Seq(S \cup {r})
      BY <3>2, <3>3
    <3> QED
      BY <3>1, <3>2, <3>4 DEF StreamShape
  <2>4. DispatcherShape'
    BY <2>1, <2>3 DEF RelayShape, DispatcherShape, DispatcherStates
  <2>5. MarkersPublished'
    BY <2>1, <2>3, CurrentIsInStream DEF MarkersPublished, OnTheBus, Current
  <2> QED
    BY <2>1, <2>2, <2>3, <2>4, <2>5 DEF RelayShape, PublishedIsOnTheBus
<1> QED
  BY <1>1, <1>2, <1>3 DEF RelayNext, TimePasses, Propagate, relayVars

\* No row says PUBLISHED before its event reached the bus: for any number of events,
\* any batches, retries and sweeps, and whichever calls fail or lose their answer.
THEOREM NoEventIsLost == RelaySpec => []PublishedIsOnTheBus
<1>1. RelayInv => PublishedIsOnTheBus
  BY DEF RelayInv
<1> QED
  BY <1>1, RelayInitInv, RelayNextInv, PTL DEF RelaySpec

-----------------------------------------------------------------------------
(* The receiver: a delivered event, its marker and its handling.           *)

\* What it takes to write the marker of an event.
HandledToTheEnd(e) == handled[e] > 0 /\ (e \in Recoveries => e \in completed)

\* A delivery at "complete" has handled its event, one at "mark" has done all.
StepsAreEarned ==
  \A d \in Callers :
    LET e == delivery[d].event IN
    /\ delivery[d].pc = "complete" => d \in Handlers /\ handled[e] > 0
    /\ delivery[d].pc = "mark" =>
         IF d \in Handlers THEN HandledToTheEnd(e) ELSE e \in collected

\* The steps of an invocation and its records.
Pcs == {"idle", "check", "work", "complete", "mark", "returned"}
Invocations == [pc : Pcs, event : Events, result : Results]

\* The shapes the argument needs: the counters and the markers are numbers.
Shapes ==
  /\ clock \in Nat
  /\ marker \in [Kinds -> [Events -> Nat]]
  /\ delivery \in [Callers -> Invocations]
  /\ handled \in [Events -> Nat]

\* The inductive invariant.
DeliveryInv == Shapes /\ MarkedIsDone /\ AnswerIsEarned /\ StepsAreEarned

\* Facts that only grow: a step takes back neither handling nor records.
Grows ==
  /\ \A e \in Events : handled[e] > 0 => handled'[e] > 0
  /\ completed \subseteq completed'
  /\ collected \subseteq collected'

\* One more handling is at least one handling, also where the count stops.
LEMMA CountedIsPositive ==
  ASSUME NEW n \in Nat
  PROVE  Counted(n) \in Nat /\ Counted(n) > 0
<1>1. Many \in Nat \ {0}
  BY DeliveryAssumption, FS_CardinalityType DEF Many
<1> QED  BY <1>1 DEF Counted

\* A handler's two outcomes keep the counters numbers and take nothing back.
LEMMA HandledGrows ==
  ASSUME handled \in [Events -> Nat], NEW x \in Events,
         handled' = handled \/ handled' = [handled EXCEPT ![x] = Counted(@)]
  PROVE  /\ handled' \in [Events -> Nat]
         /\ \A e \in Events : handled[e] > 0 => handled'[e] > 0
<1>1. Counted(handled[x]) \in Nat /\ Counted(handled[x]) > 0  BY CountedIsPositive
<1> QED  BY <1>1

\* Moving an invocation to a step, answering it or replacing it keeps its shape.
LEMMA MovesKeepShape ==
  ASSUME delivery \in [Callers -> Invocations], NEW d \in Callers,
         \/ \E p \in Pcs : Goto(d, p)
         \/ \E r \in Results : Return(d, r)
         \/ \E i \in Invocations : delivery' = [delivery EXCEPT ![d] = i]
  PROVE  delivery' \in [Callers -> Invocations]
<1>1. CASE \E p \in Pcs : Goto(d, p)
  <2>1. PICK p \in Pcs : delivery' = [delivery EXCEPT ![d].pc = p]  BY <1>1 DEF Goto
  <2>2. [delivery[d] EXCEPT !.pc = p] \in Invocations  BY DEF Invocations
  <2> QED  BY <2>1, <2>2
<1>2. CASE \E r \in Results : Return(d, r)
  <2>1. PICK r \in Results :
          delivery' = [delivery EXCEPT ![d].pc = "returned", ![d].result = r]
    BY <1>2 DEF Return
  <2>2. [[delivery[d] EXCEPT !.pc = "returned"] EXCEPT !.result = r] \in Invocations
    BY DEF Invocations, Pcs
  <2> QED  BY <2>1, <2>2
<1>3. CASE \E i \in Invocations : delivery' = [delivery EXCEPT ![d] = i]
  BY <1>3
<1> QED  BY <1>1, <1>2, <1>3

\* Every step of a delivery keeps the shapes and only adds to what is done.
LEMMA StepShapes ==
  ASSUME Shapes, NEW d \in Callers, Step(d)
  PROVE  Shapes' /\ Grows
<1>0. /\ {"work", "complete", "mark"} \subseteq Pcs
      /\ {"processed", "duplicate", "deferred", "error"} \subseteq Results
      /\ delivery[d].event \in Events
  BY DEF Pcs, Results, Shapes, Invocations
<1>1. delivery' \in [Callers -> Invocations]
  <2>1. \/ \E p \in {"work", "complete", "mark"} : Goto(d, p)
        \/ \E r \in {"processed", "duplicate", "deferred", "error"} : Return(d, r)
    BY DEF Step, Check, Handle, Complete, Collect, Mark, Fail
  <2> QED  BY <1>0, <2>1, MovesKeepShape DEF Shapes
<1>2. clock' \in Nat  BY DEF Step, Check, Handle, Complete, Collect, Mark, Shapes
<1>3. /\ handled' \in [Events -> Nat]
      /\ \A e \in Events : handled[e] > 0 => handled'[e] > 0
  <2>1. handled' = handled \/ handled' = [handled EXCEPT ![delivery[d].event] = Counted(@)]
    BY DEF Step, Check, Handle, Complete, Collect, Mark
  <2> QED  BY <1>0, <2>1, HandledGrows DEF Shapes
<1>4. marker' \in [Kinds -> [Events -> Nat]]
  <2> DEFINE kind == KindOf(d)
             e == delivery[d].event
  <2>1. kind \in Kinds /\ e \in Events  BY <1>0 DEF KindOf, Kinds
  <2>2. Expiry(kind, e) \in Nat
    <3>1. MarkerTTL \in Nat  BY DeliveryAssumption
    <3>2. marker[kind][e] \in Nat /\ clock \in Nat  BY <2>1 DEF Shapes
    <3> QED  BY <3>1, <3>2 DEF Expiry
  <2>3. marker' = marker \/ marker' = [marker EXCEPT ![kind][e] = Expiry(kind, e)]
    BY DEF Step, Check, Handle, Complete, Collect, Mark
  <2> HIDE DEF kind, e
  <2> QED  BY <2>1, <2>2, <2>3 DEF Shapes
<1>5. completed \subseteq completed' /\ collected \subseteq collected'
  BY DEF Step, Check, Handle, Complete, Collect, Mark
<1> QED  BY <1>1, <1>2, <1>3, <1>4, <1>5 DEF Shapes, Grows

USE DEF Invocations, Pcs

\* Init establishes the inductive invariant.
LEMMA InitInv == Init => DeliveryInv
<1> SUFFICES ASSUME Init PROVE DeliveryInv  OBVIOUS
<1>1. (CHOOSE e \in Events : TRUE) \in Events  BY DeliveryAssumption
<1>2. Shapes
  BY <1>1 DEF Init, Shapes, Idle, Results
<1>3. MarkedIsDone
  BY DEF Init, MarkedIsDone, Kinds
<1>4. AnswerIsEarned /\ StepsAreEarned
  BY DEF Init, AnswerIsEarned, StepsAreEarned, Idle
<1> QED  BY <1>2, <1>3, <1>4 DEF DeliveryInv

\* A marker that stands is still backed after a step: only Mark writes one, and
\* the delivery that writes it has done what the marker says.
LEMMA StepMarked ==
  ASSUME DeliveryInv, NEW d \in Callers, Step(d), Shapes', Grows
  PROVE  MarkedIsDone'
<1> USE DEF DeliveryInv
<1>1. CASE Mark(d)
  <2> DEFINE kind == KindOf(d)
             x == delivery[d].event
  <2>1. kind \in Kinds /\ x \in Events  BY DEF KindOf, Kinds, Shapes
  <2>2. marker' = marker \/ marker' = [marker EXCEPT ![kind][x] = Expiry(kind, x)]
    BY <1>1 DEF Mark
  <2>3. IF d \in Handlers THEN HandledToTheEnd(x) ELSE x \in collected
    BY <1>1 DEF Mark, StepsAreEarned
  <2>4. UNCHANGED <<handled, completed, collected>>  BY <1>1 DEF Mark
  <2>5. ASSUME NEW e \in Events, marker'["delivery"][e] > 0
        PROVE  handled[e] > 0 /\ (e \in Recoveries => e \in completed)
    <3>1. CASE marker["delivery"][e] > 0  BY <3>1 DEF MarkedIsDone
    <3>2. CASE ~(marker["delivery"][e] > 0)
      <4>1. kind = "delivery" /\ x = e
        BY <2>1, <2>2, <2>5, <3>2 DEF Shapes, Kinds
      <4>2. d \in Handlers  BY <4>1 DEF KindOf
      <4> QED  BY <2>3, <4>1, <4>2 DEF HandledToTheEnd
    <3> QED  BY <3>1, <3>2
  <2>6. ASSUME NEW e \in Events, marker'["collection"][e] > 0
        PROVE  e \in collected
    <3>1. CASE marker["collection"][e] > 0  BY <3>1 DEF MarkedIsDone
    <3>2. CASE ~(marker["collection"][e] > 0)
      <4>1. kind = "collection" /\ x = e
        BY <2>1, <2>2, <2>6, <3>2 DEF Shapes, Kinds
      <4>2. d \notin Handlers  BY <4>1 DEF KindOf
      <4> QED  BY <2>3, <4>1, <4>2
    <3> QED  BY <3>1, <3>2
  <2> QED  BY <2>4, <2>5, <2>6 DEF MarkedIsDone
<1>2. CASE ~Mark(d)
  <2>1. UNCHANGED marker
    BY <1>2 DEF Step, Check, Handle, Complete, Collect
  <2> QED  BY <2>1 DEF MarkedIsDone, Grows
<1> QED  BY <1>1, <1>2

\* The others' steps take nothing from a delivery: what it has done stays done.
LEMMA OthersKeep ==
  ASSUME DeliveryInv, Grows, NEW q \in Callers, delivery'[q] = delivery[q]
  PROVE  /\ (delivery[q].pc = "complete" => q \in Handlers /\ handled[delivery[q].event] > 0)'
         /\ (delivery[q].pc = "mark" =>
               IF q \in Handlers THEN HandledToTheEnd(delivery[q].event)
               ELSE delivery[q].event \in collected)'
         /\ (delivery[q].pc = "returned" /\ delivery[q].result \in {"processed", "duplicate", "ignored"} =>
               \/ delivery[q].event \in Foreign
               \/ q \in Handlers /\ HandledToTheEnd(delivery[q].event)
               \/ q \in Collectors /\ delivery[q].event \in collected)'
BY DEF DeliveryInv, Grows, Shapes, StepsAreEarned, AnswerIsEarned, HandledToTheEnd

\* The delivery that takes the step earns what its next state claims.
LEMMA StepEarned ==
  ASSUME DeliveryInv, NEW d \in Callers, Step(d), Shapes', Grows
  PROVE  AnswerIsEarned' /\ StepsAreEarned'
<1> USE DEF DeliveryInv
<1> DEFINE e == delivery[d].event
           Earned(q) ==
             /\ delivery[q].pc = "complete" => q \in Handlers /\ handled[delivery[q].event] > 0
             /\ delivery[q].pc = "mark" =>
                  IF q \in Handlers THEN HandledToTheEnd(delivery[q].event)
                  ELSE delivery[q].event \in collected
             /\ delivery[q].pc = "returned"
                  /\ delivery[q].result \in {"processed", "duplicate", "ignored"} =>
                  \/ delivery[q].event \in Foreign
                  \/ q \in Handlers /\ HandledToTheEnd(delivery[q].event)
                  \/ q \in Collectors /\ delivery[q].event \in collected
<1>0. e \in Events /\ d \in Handlers \cup Collectors  BY DEF Shapes, Callers
<1>1. ASSUME NEW q \in Callers, q # d  PROVE Earned(q)'
  <2>1. delivery'[q] = delivery[q]
    BY <1>1 DEF Step, Check, Handle, Complete, Collect, Mark, Goto, Return, Fail, Shapes
  <2> QED  BY <1>1, <2>1, OthersKeep
<1>2. Earned(d)'
  <2>1. CASE Check(d)
    <3>1. CASE delivery'[d].pc = "returned" /\ delivery'[d].result = "duplicate"
      <4>1. Marked(KindOf(d), e) /\ delivery'[d].event = e
        BY <2>1, <3>1 DEF Check, Return, Goto, Fail, Shapes
      <4>2. marker[KindOf(d)][e] > 0
        BY <1>0, <4>1 DEF Marked, Live, Shapes, KindOf, Kinds
      <4>3. IF d \in Handlers THEN HandledToTheEnd(e) ELSE e \in collected
        BY <1>0, <4>2 DEF MarkedIsDone, KindOf, HandledToTheEnd
      <4> QED  BY <1>0, <2>1, <3>1, <4>1, <4>3 DEF Check, HandledToTheEnd
    <3>2. CASE ~(delivery'[d].pc = "returned" /\ delivery'[d].result = "duplicate")
      BY <2>1, <3>2 DEF Check, Return, Goto, Fail, Shapes
    <3> QED  BY <3>1, <3>2
  <2>2. CASE Handle(d)
    <3>1. CASE Quiet /\ handled' = [handled EXCEPT ![e] = Counted(@)]
               /\ Goto(d, IF e \in Recoveries THEN "complete" ELSE "mark")
      <4>1. Counted(handled[e]) > 0  BY <1>0, CountedIsPositive DEF Shapes
      <4>2. handled'[e] > 0  BY <1>0, <3>1, <4>1 DEF Shapes
      <4>3. delivery'[d] = [delivery[d] EXCEPT !.pc = IF e \in Recoveries THEN "complete" ELSE "mark"]
        BY <3>1 DEF Goto, Shapes
      <4> QED  BY <2>2, <4>2, <4>3 DEF Handle, HandledToTheEnd, Shapes
    <3>2. CASE Fail(d)
      BY <3>2 DEF Fail, Return, Shapes
    <3> QED  BY <2>2, <3>1, <3>2 DEF Handle
  <2>3. CASE Complete(d)
    <3>1. d \in Handlers /\ handled[e] > 0  BY <2>3 DEF Complete, StepsAreEarned
    <3>2. CASE completed' = completed \cup {e} /\ Goto(d, "mark")
      BY <2>3, <3>1, <3>2 DEF Complete, Goto, Shapes, HandledToTheEnd
    <3>3. CASE Fail(d)
      BY <3>3 DEF Fail, Return, Shapes
    <3> QED  BY <2>3, <3>2, <3>3 DEF Complete
  <2>4. CASE Collect(d)
    <3>1. d \notin Handlers  BY <2>4, DeliveryAssumption DEF Collect
    <3>2. CASE collected' = collected \cup {e} /\ Goto(d, "mark")
      BY <3>1, <3>2 DEF Goto, Shapes
    <3>3. CASE Fail(d)
      BY <3>3 DEF Fail, Return, Shapes
    <3> QED  BY <2>4, <3>2, <3>3 DEF Collect
  <2>5. CASE Mark(d)
    <3>1. IF d \in Handlers THEN HandledToTheEnd(e) ELSE e \in collected
      BY <2>5 DEF Mark, StepsAreEarned
    <3>2. delivery'[d].pc = "returned" /\ delivery'[d].event = e
      BY <2>5 DEF Mark, Return, Fail, Shapes
    <3>3. UNCHANGED <<handled, completed, collected>>  BY <2>5 DEF Mark
    <3> QED  BY <1>0, <3>1, <3>2, <3>3 DEF HandledToTheEnd
  <2> QED  BY <2>1, <2>2, <2>3, <2>4, <2>5 DEF Step
<1>3. \A q \in Callers : Earned(q)'  BY <1>1, <1>2
<1> QED  BY <1>3 DEF AnswerIsEarned, StepsAreEarned, HandledToTheEnd

\* Every step of the deliveries keeps the inductive invariant.
LEMMA NextInv == DeliveryInv /\ [Next]_vars => DeliveryInv'
<1> SUFFICES ASSUME DeliveryInv, [Next]_vars PROVE DeliveryInv'  OBVIOUS
<1>1. ASSUME NEW d \in Callers, Step(d) PROVE DeliveryInv'
  <2>1. Shapes' /\ Grows  BY <1>1, StepShapes DEF DeliveryInv
  <2> QED  BY <1>1, <2>1, StepMarked, StepEarned DEF DeliveryInv
<1>2. ASSUME NEW d \in Callers, NEW x \in Events, Begin(d, x) PROVE DeliveryInv'
  <2>1. Shapes'
    <3>1. \/ \E r \in {"error"} : Return(d, r)
          \/ delivery' = [delivery EXCEPT ![d] =
               IF x \in Foreign THEN [pc |-> "returned", event |-> x, result |-> "ignored"]
               ELSE [pc |-> "check", event |-> x, result |-> "none"]]
      BY <1>2 DEF Begin, Fail
    <3>2. delivery' \in [Callers -> Invocations]
      BY <3>1, MovesKeepShape DEF DeliveryInv, Shapes, Invocations, Pcs, Results
    <3> QED  BY <1>2, <3>2 DEF DeliveryInv, Shapes, Begin
  <2>2. Grows /\ UNCHANGED <<marker, handled, completed, collected>>
    BY <1>2 DEF Begin, Grows
  <2>3. MarkedIsDone'  BY <2>2 DEF DeliveryInv, MarkedIsDone
  <2>4. delivery'[d].pc = "check" \/ delivery'[d].result = "error" \/ delivery'[d].event \in Foreign
    BY <1>2 DEF DeliveryInv, Shapes, Begin, Fail, Return
  <2>5. delivery'[d].pc \in {"check", "returned"}
    BY <1>2 DEF DeliveryInv, Shapes, Begin, Fail, Return
  <2>6. \A q \in Callers : q # d => delivery'[q] = delivery[q]
    BY <1>2 DEF DeliveryInv, Shapes, Begin, Fail, Return
  <2>7. AnswerIsEarned'
    BY <2>2, <2>4, <2>5, <2>6 DEF DeliveryInv, AnswerIsEarned
  <2>8. StepsAreEarned'
    BY <2>2, <2>5, <2>6 DEF DeliveryInv, StepsAreEarned, HandledToTheEnd
  <2> QED  BY <2>1, <2>3, <2>7, <2>8 DEF DeliveryInv
<1>3. ASSUME NEW d \in Callers, Take(d) PROVE DeliveryInv'
  <2>1. (CHOOSE e \in Events : TRUE) \in Events  BY DeliveryAssumption
  <2>2. delivery' = [delivery EXCEPT ![d] = Idle] /\ Idle.pc = "idle"
    BY <1>3 DEF Take, Idle
  <2>3. Shapes'
    BY <1>3, <2>1 DEF DeliveryInv, Shapes, Take, Idle, Results
  <2>4. UNCHANGED <<marker, handled, completed, collected>>  BY <1>3 DEF Take
  <2>5. MarkedIsDone'  BY <2>4 DEF DeliveryInv, MarkedIsDone
  <2>6. \A q \in Callers : delivery'[q] = delivery[q] \/ delivery'[q].pc = "idle"
    BY <2>2 DEF DeliveryInv, Shapes
  <2>7. AnswerIsEarned'  BY <2>4, <2>6 DEF DeliveryInv, AnswerIsEarned
  <2>8. StepsAreEarned'  BY <2>4, <2>6 DEF DeliveryInv, StepsAreEarned, HandledToTheEnd
  <2> QED  BY <2>3, <2>5, <2>7, <2>8 DEF DeliveryInv
<1>4. CASE Tick \/ ValidationFails \/ UNCHANGED vars
  <2>1. UNCHANGED <<marker, delivery, handled, completed, collected>> /\ clock' \in Nat
    BY <1>4 DEF Tick, ValidationFails, vars, DeliveryInv, Shapes
  <2> QED
    BY <2>1 DEF DeliveryInv, Shapes, MarkedIsDone, AnswerIsEarned, StepsAreEarned, HandledToTheEnd
<1> QED  BY <1>1, <1>2, <1>3, <1>4 DEF Next

\* A marker stands only for finished work (delivery.ts writes it last), whatever
\* deliveries ran beside the one that wrote it.
THEOREM MarkersAreEarned == Spec => []MarkedIsDone
<1>1. DeliveryInv => MarkedIsDone  BY DEF DeliveryInv
<1> QED  BY <1>1, InitInv, NextInv, PTL DEF Spec

\* The transport is told that it may forget an event only when the event has
\* been dealt with.
THEOREM AnswersAreEarned == Spec => []AnswerIsEarned
<1>1. DeliveryInv => AnswerIsEarned  BY DEF DeliveryInv
<1> QED  BY <1>1, InitInv, NextInv, PTL DEF Spec
=============================================================================
