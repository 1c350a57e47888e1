-------------------------- MODULE FailureLedgerProofs --------------------------
(***************************************************************************)
(* For any number of collectors, consumers and operators, any budget and   *)
(* any faults: what an operation reported as done is on record, and stays  *)
(* on record whatever the operations that race with it do.                 *)
(***************************************************************************)
EXTENDS FailureLedger, TLAPS

Operations == {"collect", "complete", "replay"}
Errors ==
  {"command.rejected", "runtime.unavailable", "resource.invalid_state",
   "resource.conflict", "resource.not_found"}

Running ==
  [pc : {"authorize", "decide", "commit", "reconcile"}, op : Operations, generation : Nat,
   request : Events \cup {NoEvent}, phase : {1, 2}, attempt : Nat, candidate : Nat,
   resolution : Resolutions, next : Records \cup {NoRecord},
   event : Events \cup {NoEvent}]

Finished ==
  [pc : {"done"}, op : Operations, generation : Nat, result : Errors \cup {"ok"}]

Locals == {Resting} \cup Finished \cup Running

\* What operation op on generation g has put on record once it is done.
Durable(op, g, r) ==
  /\ op = "complete" => r.resolvedGeneration >= g
  /\ op = "collect" => Collected(r, g) /\ Resolution(r, g) # "pending"
  /\ op = "replay" => Recoveries(r) > 0

\* What the update an operation is at puts on record: a collector's first one
\* the collection, its second one the resolution.
Achieved(me, r) ==
  IF me.op = "collect" /\ me.phase = 1 THEN Collected(r, me.generation)
  ELSE Durable(me.op, me.generation, r)

\* What a running operation relies on after it has read the record.
Relies(me, r) ==
  /\ me.op = "complete" => me.request # NoEvent
  /\ me.op = "collect" /\ me.request = NoEvent => me.generation = 0
  /\ me.request # NoEvent /\ me.pc # "authorize" =>
       r # NoRecord /\ me.generation <= Recoveries(r)
  /\ me.pc = "reconcile" => me.op = "collect"
  /\ me.pc = "reconcile" \/ me.phase = 2 =>
       r # NoRecord /\ Collected(r, me.generation)
  /\ me.pc = "commit" =>
       me.next \in Records /\ WellFormed(me.next) /\ Achieved(me, me.next)

LocalInv(me, r) ==
  \/ me = Resting
  \/ me \in Finished /\ (me.result = "ok" =>
       r # NoRecord /\ Durable(me.op, me.generation, r))
  \/ me \in Running /\ Relies(me, r)

RecordInv(r) == r = NoRecord \/ (r \in Records /\ WellFormed(r))

LedgerInv ==
  /\ RecordInv(record)
  /\ outbox \subseteq Events
  /\ actor \in [Actors -> Locals]
  /\ \A a \in Actors : LocalInv(actor[a], record)

\* A record as a commit may leave it: nothing achieved is lost.
Grows(old, new) ==
  /\ new \in Records
  /\ old # NoRecord =>
       /\ Recoveries(old) <= Recoveries(new)
       /\ Len(old.collections) <= Len(new.collections)
       /\ old.resolvedGeneration <= new.resolvedGeneration
       /\ \A i \in DOMAIN old.collections :
            old.collections[i] # "pending" => new.collections[i] = old.collections[i]

LEMMA Constants ==
  /\ ReplayBudget \in Nat \ {0} /\ Attempts \in Nat \ {0} /\ MaxFaults \in Nat
  /\ NoRecord \notin Records /\ NoEvent \notin Events
BY LedgerAssumption

-----------------------------------------------------------------------------
(* What is on record stays on record.                                      *)

LEMMA ValidGrows ==
  ASSUME NEW old, RecordInv(old), NEW new \in Records, NEW event,
         ValidChange(old, new, event)
  PROVE  Grows(old, new)
BY DEF RecordInv, ValidChange, Grows, Records, Recoveries, Prefix

LEMMA CollectedGrows ==
  ASSUME NEW old, RecordInv(old), old # NoRecord, NEW new, Grows(old, new),
         NEW g \in Nat, Collected(old, g)
  PROVE  /\ Collected(new, g)
         /\ Resolution(old, g) # "pending" => Resolution(new, g) = Resolution(old, g)
BY DEF RecordInv, Grows, Collected, Resolution, Records

LEMMA DurableGrows ==
  ASSUME NEW old, RecordInv(old), old # NoRecord, NEW new, Grows(old, new),
         NEW op \in Operations, NEW g \in Nat, Durable(op, g, old)
  PROVE  Durable(op, g, new)
<1>1. op = "complete" => new.resolvedGeneration >= g
  BY DEF Durable, Grows, RecordInv, Records
<1>2. op = "collect" => Collected(new, g) /\ Resolution(new, g) # "pending"
  BY CollectedGrows DEF Durable
<1>3. op = "replay" => Recoveries(new) > 0
  BY DEF Durable, Grows, RecordInv, Records, Recoveries
<1> QED
  BY <1>1, <1>2, <1>3 DEF Durable

LEMMA ReliesStable ==
  ASSUME NEW old, RecordInv(old), NEW new, new = old \/ Grows(old, new),
         NEW me \in Running, Relies(me, old)
  PROVE  Relies(me, new)
<1>1. CASE new = old
  BY <1>1
<1>2. CASE Grows(old, new)
  <2>1. me.op \in Operations /\ me.generation \in Nat /\ new # NoRecord
    BY <1>2, Constants DEF Running, Grows
  <2>2. me.request # NoEvent /\ me.pc # "authorize" => me.generation <= Recoveries(new)
    BY <1>2, <2>1 DEF Relies, Grows, RecordInv, Records, Recoveries
  <2>3. me.pc = "reconcile" \/ me.phase = 2 => Collected(new, me.generation)
    BY <1>2, <2>1, CollectedGrows DEF Relies
  <2> QED
    BY <2>1, <2>2, <2>3 DEF Relies
<1> QED
  BY <1>1, <1>2

\* What an operation has achieved or relies on survives the commits of the others.
LEMMA LocalStable ==
  ASSUME NEW old, RecordInv(old), NEW new, new = old \/ Grows(old, new),
         NEW me, LocalInv(me, old)
  PROVE  LocalInv(me, new)
<1>1. CASE new = old
  BY <1>1
<1>2. CASE Grows(old, new)
  <2>0. new # NoRecord
    BY <1>2, Constants DEF Grows
  <2>1. CASE me = Resting
    BY <2>1 DEF LocalInv
  <2>2. CASE me \in Finished /\ (me.result = "ok" =>
               old # NoRecord /\ Durable(me.op, me.generation, old))
    <3>1. me.op \in Operations /\ me.generation \in Nat
      BY <2>2 DEF Finished
    <3> QED
      BY <1>2, <2>0, <2>2, <3>1, DurableGrows DEF LocalInv
  <2>3. CASE me \in Running /\ Relies(me, old)
    BY <1>2, <2>3, ReliesStable DEF LocalInv
  <2> QED
    BY <2>1, <2>2, <2>3 DEF LocalInv
<1> QED
  BY <1>1, <1>2

\* One operation moves while the record stays or grows.
LEMMA SetInv ==
  ASSUME LedgerInv, NEW a \in Actors, NEW local \in Locals, Set(a, local),
         RecordInv(record'), record' = record \/ Grows(record, record'),
         outbox' \subseteq Events, LocalInv(local, record')
  PROVE  LedgerInv'
<1>1. actor' \in [Actors -> Locals]
  BY DEF LedgerInv, Set
<1>2. \A x \in Actors : LocalInv(actor'[x], record')
  <2> TAKE x \in Actors
  <2>1. actor'[x] = IF x = a THEN local ELSE actor[x]
    BY DEF LedgerInv, Set
  <2>2. LocalInv(actor[x], record')
    BY LocalStable DEF LedgerInv
  <2> QED
    BY <2>1, <2>2
<1> QED
  BY <1>1, <1>2 DEF LedgerInv

LEMMA DoneInv ==
  ASSUME LedgerInv, NEW a \in Actors, actor[a] \in Running,
         NEW result \in Errors \cup {"ok"},
         Done(a, result), RecordInv(record'), record' = record \/ Grows(record, record'),
         outbox' \subseteq Events,
         result = "ok" =>
           record' # NoRecord /\ Durable(actor[a].op, actor[a].generation, record')
  PROVE  LedgerInv'
<1> DEFINE local == [pc |-> "done", op |-> actor[a].op, generation |-> actor[a].generation,
                     result |-> result]
<1>1. local \in Finished
  BY DEF Finished, Running
<1>2. LocalInv(local, record')
  BY <1>1 DEF LocalInv
<1>3. Set(a, local)
  BY DEF Done
<1> QED
  BY <1>1, <1>2, <1>3, SetInv DEF Locals
-----------------------------------------------------------------------------
(* The decisions: to keep a record on which the update is achieved, to     *)
(* refuse, or to commit a record on which it will be.                      *)

Decided(me, old, d) ==
  \/ d.kind = "keep" /\ old # NoRecord /\ Achieved(me, old)
  \/ d.kind = "error" /\ d.code \in Errors
  \/ /\ d.kind = "change"
     /\ d.next \in Records /\ d.event \in Events \cup {NoEvent} /\ Achieved(me, d.next)

\* The records the decisions make of the one they have read.
LEMMA NextCollections ==
  ASSUME NEW old \in Records, NEW c \in Seq(Resolutions \cup {"pending"})
  PROVE  /\ [old EXCEPT !.version = @ + 1, !.collections = c] \in Records
         /\ [old EXCEPT !.version = @ + 1, !.collections = c].collections = c
<1> SUFFICES ASSUME NEW next, next = [old EXCEPT !.version = @ + 1, !.collections = c]
             PROVE  next \in Records /\ next.collections = c
  OBVIOUS
<1>1. next = [version |-> old.version + 1, collections |-> c,
             recoveries |-> old.recoveries, resolvedGeneration |-> old.resolvedGeneration]
  BY DEF Records
<1>2. /\ old.version + 1 \in Nat /\ old.collections \in Seq(Resolutions \cup {"pending"})
      /\ old.recoveries \in Seq(Actors) /\ old.resolvedGeneration \in Int
  BY DEF Records
<1> QED
  BY <1>1, <1>2 DEF Records

LEMMA NextResolution ==
  ASSUME NEW old \in Records, NEW c \in Seq(Resolutions \cup {"pending"}), NEW v \in Int
  PROVE  /\ [old EXCEPT !.version = @ + 1, !.collections = c,
                         !.resolvedGeneration = v] \in Records
         /\ [old EXCEPT !.version = @ + 1, !.collections = c,
                         !.resolvedGeneration = v].collections = c
<1> SUFFICES ASSUME NEW next, next = [old EXCEPT !.version = @ + 1, !.collections = c,
                         !.resolvedGeneration = v]
             PROVE  next \in Records /\ next.collections = c
  OBVIOUS
<1>1. next = [version |-> old.version + 1, collections |-> c,
             recoveries |-> old.recoveries, resolvedGeneration |-> v]
  BY DEF Records
<1>2. /\ old.version + 1 \in Nat /\ old.collections \in Seq(Resolutions \cup {"pending"})
      /\ old.recoveries \in Seq(Actors) /\ old.resolvedGeneration \in Int
  BY DEF Records
<1> QED
  BY <1>1, <1>2 DEF Records

LEMMA NextCompletion ==
  ASSUME NEW old \in Records, NEW v \in Int
  PROVE  /\ [old EXCEPT !.version = @ + 1, !.resolvedGeneration = v] \in Records
         /\ [old EXCEPT !.version = @ + 1, !.resolvedGeneration = v].resolvedGeneration = v
<1> SUFFICES ASSUME NEW next, next = [old EXCEPT !.version = @ + 1, !.resolvedGeneration = v]
             PROVE  next \in Records /\ next.resolvedGeneration = v
  OBVIOUS
<1>1. next = [version |-> old.version + 1, collections |-> old.collections,
             recoveries |-> old.recoveries, resolvedGeneration |-> v]
  BY DEF Records
<1>2. /\ old.version + 1 \in Nat /\ old.collections \in Seq(Resolutions \cup {"pending"})
      /\ old.recoveries \in Seq(Actors) /\ old.resolvedGeneration \in Int
  BY DEF Records
<1> QED
  BY <1>1, <1>2 DEF Records

LEMMA NextRecoveries ==
  ASSUME NEW old \in Records, NEW rs \in Seq(Actors)
  PROVE  /\ [old EXCEPT !.version = @ + 1, !.recoveries = rs] \in Records
         /\ [old EXCEPT !.version = @ + 1, !.recoveries = rs].recoveries = rs
<1> SUFFICES ASSUME NEW next, next = [old EXCEPT !.version = @ + 1, !.recoveries = rs]
             PROVE  next \in Records /\ next.recoveries = rs
  OBVIOUS
<1>1. next = [version |-> old.version + 1, collections |-> old.collections,
             recoveries |-> rs, resolvedGeneration |-> old.resolvedGeneration]
  BY DEF Records
<1>2. /\ old.version + 1 \in Nat /\ old.collections \in Seq(Resolutions \cup {"pending"})
      /\ old.recoveries \in Seq(Actors) /\ old.resolvedGeneration \in Int
  BY DEF Records
<1> QED
  BY <1>1, <1>2 DEF Records

LEMMA CollectionDecided ==
  ASSUME NEW old, RecordInv(old), NEW me \in Running, Relies(me, old), me.pc = "decide",
         me.op = "collect", me.phase = 1
  PROVE  Decided(me, old, DecideCollection(me, old))
<1> DEFINE d == DecideCollection(me, old)
<1>1. CASE old = NoRecord /\ me.request # NoEvent
  BY <1>1 DEF Decided, DecideCollection, Reject, Errors
<1>2. CASE old = NoRecord /\ me.request = NoEvent
  <2> DEFINE first == [version |-> 1, collections |-> <<"pending">>, recoveries |-> <<>>,
                       resolvedGeneration |-> -1]
  <2>1. d = Change(first, NoEvent)
    BY <1>2 DEF DecideCollection
  <2>2. first \in Records
    BY DEF Records
  <2>3. Collected(first, me.generation)
    BY <1>2 DEF Relies, Collected
  <2> QED
    BY <2>1, <2>2, <2>3 DEF Decided, Change, Achieved
<1>3. CASE old # NoRecord /\ Collected(old, me.generation)
  BY <1>3 DEF Decided, DecideCollection, Keep, Achieved
<1>4. CASE old # NoRecord /\ ~Collected(old, me.generation)
  <2> DEFINE grown == [old EXCEPT !.version = @ + 1, !.collections = Append(@, "pending")]
  <2>0. old \in Records /\ WellFormed(old) /\ me.generation \in Nat
    BY <1>4 DEF RecordInv, Running
  <2>1. d = Change(grown, NoEvent)
    BY <1>4 DEF DecideCollection
  <2>2. grown \in Records /\ grown.collections = Append(old.collections, "pending")
    <3>1. Append(old.collections, "pending") \in Seq(Resolutions \cup {"pending"})
      BY <2>0 DEF Records
    <3> QED
      BY <2>0, <3>1, NextCollections
  <2>3. me.generation <= Len(old.collections)
    <3>1. CASE me.request = NoEvent
      BY <2>0, <3>1 DEF Relies, Records
    <3>2. CASE me.request # NoEvent
      <4>1. me.generation <= Recoveries(old)
        BY <3>2 DEF Relies
      <4>2. Recoveries(old) <= Len(old.collections)
        BY <2>0 DEF WellFormed, Collected, Recoveries, Records
      <4> QED
        BY <2>0, <4>1, <4>2 DEF Records, Recoveries
    <3> QED
      BY <3>1, <3>2
  <2>4. Collected(grown, me.generation)
    BY <2>0, <2>2, <2>3 DEF Collected, Records
  <2> HIDE DEF grown
  <2> QED
    BY <2>1, <2>2, <2>4 DEF Decided, Change, Achieved
<1> QED
  BY <1>1, <1>2, <1>3, <1>4

LEMMA ResolutionDecided ==
  ASSUME NEW old, RecordInv(old), NEW me \in Running, Relies(me, old), me.pc = "decide",
         me.op = "collect", me.phase = 2
  PROVE  Decided(me, old, DecideResolution(me, old))
<1> DEFINE d == DecideResolution(me, old)
           g == me.generation
<1>0. /\ old # NoRecord /\ old \in Records /\ Collected(old, g)
      /\ g \in Nat /\ me.resolution \in Resolutions
  BY DEF Relies, RecordInv, Running
<1>1. CASE Resolution(old, g) # "pending"
  BY <1>0, <1>1 DEF Decided, DecideResolution, Keep, Achieved, Durable
<1>2. CASE Resolution(old, g) = "pending"
  <2> DEFINE highest == IF me.resolution = "succeeded"
                        THEN AtLeast(old.resolvedGeneration, g) ELSE old.resolvedGeneration
             next == [old EXCEPT !.version = @ + 1, !.collections[g + 1] = me.resolution,
                                 !.resolvedGeneration =
                                   IF me.resolution = "succeeded" THEN AtLeast(@, g) ELSE @]
  <2>1. d = Change(next, NoEvent)
    BY <1>2 DEF DecideResolution
  <2> DEFINE settled == [old.collections EXCEPT ![g + 1] = me.resolution]
  <2>2. settled \in Seq(Resolutions \cup {"pending"}) /\ highest \in Int
    BY <1>0 DEF Records, Collected, AtLeast
  <2>3. next = [old EXCEPT !.version = @ + 1, !.collections = settled,
                           !.resolvedGeneration = highest]
    BY <1>0 DEF Records
  <2>4. next \in Records /\ next.collections = settled
    <3> HIDE DEF next, settled, highest
    <3>1. LET new == [old EXCEPT !.version = @ + 1, !.collections = settled,
                                 !.resolvedGeneration = highest]
          IN  new \in Records /\ new.collections = settled
      BY <1>0, <2>2, NextResolution
    <3> QED
      BY <2>3, <3>1
  <2>5. Collected(next, g) /\ Resolution(next, g) # "pending"
    <3>1. g + 1 \in DOMAIN settled /\ settled[g + 1] # "pending"
      BY <1>0 DEF Collected, Resolutions, Records
    <3> HIDE DEF next
    <3> QED
      BY <2>4, <3>1 DEF Collected, Resolution
  <2> HIDE DEF next
  <2> QED
    BY <2>1, <2>4, <2>5 DEF Decided, Change, Achieved, Durable
<1> QED
  BY <1>1, <1>2

LEMMA CompletionDecided ==
  ASSUME NEW old, RecordInv(old), NEW me \in Running, Relies(me, old), me.pc = "decide",
         me.op = "complete"
  PROVE  Decided(me, old, DecideCompletion(me, old))
<1>1. old # NoRecord /\ old \in Records /\ me.generation \in Nat
  BY DEF Relies, RecordInv, Running
<1>2. CASE old.resolvedGeneration >= me.generation
  BY <1>1, <1>2 DEF Decided, DecideCompletion, Keep, Achieved, Durable
<1>3. CASE ~(old.resolvedGeneration >= me.generation)
  <2> DEFINE next == [old EXCEPT !.version = @ + 1, !.resolvedGeneration = me.generation]
  <2>1. DecideCompletion(me, old) = Change(next, NoEvent)
    BY <1>3 DEF DecideCompletion
  <2>2. next \in Records /\ next.resolvedGeneration = me.generation
    <3>1. old \in Records /\ me.generation \in Int
      BY <1>1
    <3> QED
      BY <3>1, NextCompletion
  <2> HIDE DEF next
  <2> QED
    BY <1>1, <2>1, <2>2 DEF Decided, Change, Achieved, Durable
<1> QED
  BY <1>2, <1>3

LEMMA ReplayDecided ==
  ASSUME NEW a \in Actors, NEW old, RecordInv(old), old # NoRecord, NEW me \in Running,
         Relies(me, old), me.pc = "decide", me.op = "replay"
  PROVE  Decided(me, old, DecideReplay(a, me, old))
<1> DEFINE d == DecideReplay(a, me, old)
           length == Recoveries(old)
           next == [old EXCEPT !.version = @ + 1, !.recoveries = Append(@, a)]
<1>0. /\ old \in Records /\ WellFormed(old) /\ length \in Nat /\ me.candidate \in Nat
  BY DEF RecordInv, Running, Records, Recoveries
<1>1. CASE d = Keep
  <2>1. length > 0
    <3>1. \/ \E i \in 1 .. length : old.recoveries[i] = a
          \/ ~Collected(old, length)
          \/ me.candidate # 0 /\ length >= me.candidate
      BY <1>1 DEF DecideReplay, Keep, Reject, Change
    <3>2. Collected(old, 0)
      BY <1>0 DEF WellFormed, Collected, Records
    <3> QED
      BY <1>0, <3>1, <3>2
  <2> QED
    BY <1>1, <2>1 DEF Decided, Keep, Achieved, Durable
<1>2. CASE d # Keep
  <2>1. \/ d = Reject("command.rejected") \/ d = Reject("resource.conflict")
        \/ d = Change(next, [generation |-> length + 1, request |-> a])
    BY <1>2 DEF DecideReplay
  <2>2. next \in Records /\ Recoveries(next) > 0
    <3> DEFINE rs == Append(old.recoveries, a)
    <3>1. rs \in Seq(Actors) /\ Len(rs) > 0
      BY <1>0 DEF Records
    <3> HIDE DEF rs
    <3>2. next = [old EXCEPT !.version = @ + 1, !.recoveries = rs]
      BY DEF rs
    <3>3. next \in Records /\ next.recoveries = rs
      BY <1>0, <3>1, <3>2, NextRecoveries
    <3> QED
      BY <3>1, <3>3 DEF Recoveries
  <2>4. [generation |-> length + 1, request |-> a] \in Events
    BY <1>0 DEF Events
  <2>3. Achieved(me, next)
    BY <2>2 DEF Achieved, Durable
  <2> HIDE DEF next, length
  <2> QED
    BY <2>1, <2>2, <2>3, <2>4 DEF Decided, Reject, Change, Errors
<1> QED
  BY <1>1, <1>2

LEMMA AllDecided ==
  ASSUME NEW a \in Actors, NEW old, RecordInv(old), NEW me \in Running, Relies(me, old),
         me.pc = "decide"
  PROVE  Decided(me, old, Decision(a, me, old))
<1>0. me.op \in Operations /\ me.phase \in {1, 2}
  BY DEF Running
<1>1. CASE me.op = "collect" /\ me.phase = 1
  BY <1>1, CollectionDecided DEF Decision
<1>2. CASE me.op = "collect" /\ me.phase = 2
  BY <1>2, ResolutionDecided DEF Decision
<1>3. CASE me.op = "complete"
  BY <1>3, CompletionDecided DEF Decision
<1>4. CASE me.op = "replay" /\ old = NoRecord
  BY <1>4 DEF Decision, Decided, Reject, Errors
<1>5. CASE me.op = "replay" /\ old # NoRecord
  BY <1>5, ReplayDecided DEF Decision
<1> QED
  BY <1>0, <1>1, <1>2, <1>3, <1>4, <1>5 DEF Operations
-----------------------------------------------------------------------------
(* The local states the steps lead to.                                     *)

LEMMA ToDecide ==
  ASSUME NEW me \in Running, NEW x, x = [me EXCEPT !.pc = "decide"]
  PROVE  /\ x \in Running
         /\ x.pc = "decide" /\ x.op = me.op
         /\ x.generation = me.generation /\ x.request = me.request
         /\ x.phase = me.phase /\ x.attempt = me.attempt
         /\ x.candidate = me.candidate /\ x.resolution = me.resolution
         /\ x.next = me.next /\ x.event = me.event
BY DEF Running, Operations, Resolutions

LEMMA ToReconcile ==
  ASSUME NEW me \in Running
  PROVE  LET x == [me EXCEPT !.pc = "reconcile", !.next = NoRecord,
                         !.event = NoEvent, !.attempt = 0]
         IN  /\ x \in Running /\ x.pc = "reconcile" /\ x.op = me.op
             /\ x.phase = me.phase /\ x.generation = me.generation /\ x.request = me.request
<1> SUFFICES ASSUME NEW x, x = [me EXCEPT !.pc = "reconcile", !.next = NoRecord,
                                       !.event = NoEvent, !.attempt = 0]
             PROVE  /\ x \in Running /\ x.pc = "reconcile" /\ x.op = me.op
                    /\ x.phase = me.phase /\ x.generation = me.generation /\ x.request = me.request
  OBVIOUS
<1> QED
  BY DEF Running, Operations, Resolutions

LEMMA ToCommit ==
  ASSUME NEW me \in Running, NEW d, d.next \in Records, d.event \in Events \cup {NoEvent}
  PROVE  LET x == Proposing(me, d)
         IN  /\ x \in Running /\ x.pc = "commit" /\ x.next = d.next /\ x.op = me.op
             /\ x.phase = me.phase /\ x.generation = me.generation
             /\ x.request = me.request
<1> SUFFICES ASSUME NEW x, x = Proposing(me, d)
             PROVE  /\ x \in Running /\ x.pc = "commit" /\ x.next = d.next /\ x.op = me.op
                    /\ x.phase = me.phase /\ x.generation = me.generation
                    /\ x.request = me.request
  OBVIOUS
<1> DEFINE n == IF d.event = NoEvent \/ me.candidate # 0 THEN me.candidate
                ELSE d.event.generation
<1>1. n \in Nat
  BY DEF Running, Events
<1>2. x = [me EXCEPT !.pc = "commit", !.next = d.next, !.event = d.event, !.candidate = n]
  BY DEF Proposing
<1> HIDE DEF n
<1> QED
  BY <1>1, <1>2 DEF Running, Operations, Resolutions

LEMMA ToRetry ==
  ASSUME NEW me \in Running, NEW n \in Nat
  PROVE  LET x == [me EXCEPT !.pc = "decide", !.attempt = n, !.next = NoRecord,
                         !.event = NoEvent]
         IN  /\ x \in Running /\ x.pc = "decide" /\ x.op = me.op
             /\ x.phase = me.phase /\ x.generation = me.generation /\ x.request = me.request
<1> SUFFICES ASSUME NEW x, x = [me EXCEPT !.pc = "decide", !.attempt = n, !.next = NoRecord,
                                       !.event = NoEvent]
             PROVE  /\ x \in Running /\ x.pc = "decide" /\ x.op = me.op
                    /\ x.phase = me.phase /\ x.generation = me.generation /\ x.request = me.request
  OBVIOUS
<1> QED
  BY DEF Running, Operations, Resolutions

LEMMA ToResolve ==
  ASSUME NEW me \in Running, NEW resolution \in Resolutions
  PROVE  LET x == [me EXCEPT !.pc = "decide", !.phase = 2, !.resolution = resolution]
         IN  /\ x \in Running /\ x.pc = "decide" /\ x.op = me.op /\ x.phase = 2
             /\ x.generation = me.generation /\ x.request = me.request
<1> SUFFICES ASSUME NEW x, x = [me EXCEPT !.pc = "decide", !.phase = 2,
                                           !.resolution = resolution]
             PROVE  /\ x \in Running /\ x.pc = "decide" /\ x.op = me.op /\ x.phase = 2
                    /\ x.generation = me.generation /\ x.request = me.request
  OBVIOUS
<1> QED
  BY DEF Running, Operations, Resolutions

LEMMA RunningRelies ==
  ASSUME NEW me, NEW r, LocalInv(me, r),
         me.pc \in {"authorize", "decide", "commit", "reconcile"}
  PROVE  me \in Running /\ Relies(me, r)
BY DEF LocalInv, Resting, Finished
-----------------------------------------------------------------------------
(* The steps.                                                              *)

LEMMA InitInv == Init => LedgerInv
BY DEF Init, LedgerInv, RecordInv, Locals, LocalInv

\* A step of the operation's own that leaves the record alone.
LEMMA LocalStep ==
  ASSUME LedgerInv, NEW a \in Actors, NEW x \in Running, Set(a, x),
         UNCHANGED <<record, outbox>>, Relies(x, record)
  PROVE  LedgerInv'
<1>1. LocalInv(x, record') /\ x \in Locals
  BY DEF LocalInv, Locals
<1>2. RecordInv(record') /\ outbox' \subseteq Events
  BY DEF LedgerInv
<1> QED
  BY <1>1, <1>2, SetInv

LEMMA BeginInv ==
  ASSUME LedgerInv, NEW a \in Actors, NEW op \in Operations, NEW g \in Nat,
         NEW request \in Events \cup {NoEvent}, Set(a, Begun(op, g, request)),
         op = "complete" => request # NoEvent,
         op = "collect" /\ request = NoEvent => g = 0,
         UNCHANGED <<record, outbox>>
  PROVE  LedgerInv'
<1>1. Begun(op, g, request) \in Running
  BY DEF Begun, Running, Resolutions
<1>2. Relies(Begun(op, g, request), record)
  BY DEF Relies, Begun
<1> QED
  BY <1>1, <1>2, LocalStep

LEMMA CollectInv == ASSUME LedgerInv, NEW a \in Collectors, Collect(a) PROVE LedgerInv'
<1> a \in Actors
  BY DEF Actors
<1>1. CASE Set(a, Begun("collect", 0, NoEvent))
  BY <1>1, BeginInv DEF Collect, Operations
<1>2. CASE \E e \in outbox : Set(a, Begun("collect", e.generation, e))
  <2>1. PICK e \in outbox : Set(a, Begun("collect", e.generation, e))
    BY <1>2
  <2>2. e \in Events /\ e.generation \in Nat /\ e # NoEvent
    BY Constants DEF LedgerInv, Events
  <2> QED
    BY <2>1, <2>2, BeginInv DEF Collect, Operations
<1> QED
  BY <1>1, <1>2 DEF Collect

LEMMA CompleteInv == ASSUME LedgerInv, NEW a \in Completers, Complete(a) PROVE LedgerInv'
<1>1. PICK e \in outbox : Set(a, Begun("complete", e.generation, e))
  BY DEF Complete
<1>2. e \in Events /\ e.generation \in Nat /\ e # NoEvent /\ a \in Actors
  BY Constants DEF LedgerInv, Events, Actors
<1> QED
  BY <1>1, <1>2, BeginInv DEF Complete, Operations

LEMMA ReplayInv == ASSUME LedgerInv, NEW a \in Operators, Replay(a) PROVE LedgerInv'
BY BeginInv DEF Replay, Operations, Actors

LEMMA RefusedInv ==
  ASSUME LedgerInv, NEW a \in Actors, actor[a] \in Running, NEW result \in Errors,
         Done(a, result), UNCHANGED <<record, outbox>>
  PROVE  LedgerInv'
<1>1. RecordInv(record') /\ outbox' \subseteq Events /\ result # "ok"
  BY DEF LedgerInv, Errors
<1> QED
  BY <1>1, DoneInv

LEMMA AuthorizeInv == ASSUME LedgerInv, NEW a \in Actors, Authorize(a) PROVE LedgerInv'
<1> DEFINE me == actor[a]
<1>1. me \in Running /\ Relies(me, record) /\ me.pc = "authorize"
  BY RunningRelies DEF LedgerInv, Authorize
<1>2. CASE me.request = NoEvent \/ UpToDate(me)
  <2>1. PICK x : x = [me EXCEPT !.pc = "decide"]
    OBVIOUS
  <2>2. Set(a, x)
    BY <1>2, <2>1 DEF Authorize
  <2>3. x \in Running
    BY <1>1, <2>1, ToDecide
  <2>4. me.request # NoEvent => record # NoRecord /\ me.generation <= Recoveries(record)
    BY <1>1, <1>2 DEF UpToDate, Running
  <2>5. Relies(x, record)
    BY <1>1, <2>1, <2>4, ToDecide DEF Relies
  <2> QED
    BY <2>2, <2>3, <2>5, LocalStep DEF Authorize
<1>3. CASE ~(me.request = NoEvent \/ UpToDate(me))
  BY <1>1, <1>3, RefusedInv DEF Authorize, Errors
<1> QED
  BY <1>2, <1>3

\* The update of an operation is achieved: a collector goes on, the others are done.
LEMMA UpdatedInv ==
  ASSUME LedgerInv, NEW a \in Actors, actor[a] \in Running, Relies(actor[a], record),
         actor[a].pc \in {"decide", "commit"}, RecordInv(record'), record' # NoRecord,
         record' = record \/ Grows(record, record'), outbox' \subseteq Events, Achieved(actor[a], record'),
         Updated(a, actor[a], record')
  PROVE  LedgerInv'
<1> DEFINE me == actor[a]
<1>0. Relies(me, record')
  BY ReliesStable DEF LedgerInv
<1>1. CASE /\ me.op = "collect" /\ me.phase = 1
           /\ Resolution(record', me.generation) = "pending"
  <2>1. PICK x : x = [me EXCEPT !.pc = "reconcile", !.next = NoRecord, !.event = NoEvent,
                                !.attempt = 0]
    OBVIOUS
  <2>2. Set(a, x)
    BY <1>1, <2>1 DEF Updated
  <2>3. /\ x \in Running /\ x.pc = "reconcile" /\ x.op = me.op /\ x.phase = me.phase
        /\ x.generation = me.generation /\ x.request = me.request
    BY <2>1, ToReconcile
  <2>4. Relies(x, record')
    BY <1>0, <1>1, <2>3 DEF Relies, Achieved
  <2> QED
    BY <2>2, <2>3, <2>4, SetInv DEF Locals, LocalInv
<1>2. CASE ~(/\ me.op = "collect" /\ me.phase = 1
             /\ Resolution(record', me.generation) = "pending")
  <2>1. Done(a, "ok")
    BY <1>2 DEF Updated
  <2>2. Durable(me.op, me.generation, record')
    BY <1>2 DEF Achieved, Durable
  <2> QED
    BY <2>1, <2>2, DoneInv
<1> QED
  BY <1>1, <1>2

LEMMA DecideInv == ASSUME LedgerInv, NEW a \in Actors, Decide(a) PROVE LedgerInv'
<1> DEFINE me == actor[a]
           d == Decision(a, me, record)
<1>1. me \in Running /\ Relies(me, record) /\ me.pc = "decide"
  BY RunningRelies DEF LedgerInv, Decide
<1>2. Decided(me, record, d) /\ RecordInv(record)
  BY <1>1, AllDecided DEF LedgerInv
<1>3. UNCHANGED <<record, outbox>> /\ outbox \subseteq Events
  BY DEF Decide, LedgerInv
<1>4. CASE d.kind = "keep" /\ Updated(a, me, record)
  <2>1. record # NoRecord /\ Achieved(me, record)
    BY <1>2, <1>4 DEF Decided
  <2>2. RecordInv(record') /\ record' # NoRecord /\ Achieved(me, record')
        /\ Updated(a, me, record')
    BY <1>2, <1>3, <1>4, <2>1
  <2> QED
    BY <1>1, <1>3, <2>2, UpdatedInv
<1>5. CASE d.kind = "error" /\ Done(a, d.code)
  <2>1. d.code \in Errors
    BY <1>2, <1>5 DEF Decided
  <2> QED
    BY <1>1, <1>3, <1>5, <2>1, RefusedInv
<1>6. CASE d.kind = "change" /\ WellFormed(d.next) /\ Set(a, Proposing(me, d))
  <2> DEFINE x == Proposing(me, d)
  <2>1. d.next \in Records /\ d.event \in Events \cup {NoEvent} /\ Achieved(me, d.next)
    BY <1>2, <1>6 DEF Decided
  <2> HIDE DEF d
  <2>2. /\ x \in Running /\ x.pc = "commit" /\ x.next = d.next /\ x.op = me.op
        /\ x.phase = me.phase /\ x.generation = me.generation /\ x.request = me.request
    BY <1>1, <2>1, ToCommit
  <2> HIDE DEF x
  <2>3. Achieved(x, x.next)
    BY <2>1, <2>2 DEF Achieved
  <2>4. Relies(x, record)
    BY <1>1, <1>6, <2>1, <2>2, <2>3 DEF Relies
  <2> QED
    BY <1>3, <1>6, <2>2, <2>4, LocalStep DEF x
<1>7. CASE \/ Done(a, "runtime.unavailable") \/ Done(a, "resource.invalid_state")
  BY <1>1, <1>3, <1>7, RefusedInv DEF Errors
<1> HIDE DEF d
<1> QED
  BY <1>4, <1>5, <1>6, <1>7 DEF Decide, d

LEMMA TryAgainInv ==
  ASSUME LedgerInv, NEW a \in Actors, actor[a] \in Running, actor[a].pc = "commit",
         Relies(actor[a], record), RecordInv(record'), outbox' \subseteq Events,
         record' = record \/ Grows(record, record'), TryAgain(a, actor[a])
  PROVE  LedgerInv'
<1> DEFINE me == actor[a]
           n == me.attempt + 1
<1>1. n \in Nat
  BY DEF Running
<1>2. PICK x : x = [me EXCEPT !.pc = "decide", !.attempt = n, !.next = NoRecord,
                              !.event = NoEvent]
  OBVIOUS
<1>3. Set(a, x)
  BY <1>2 DEF TryAgain
<1> HIDE DEF n
<1>4. /\ x \in Running /\ x.pc = "decide" /\ x.op = me.op /\ x.phase = me.phase
      /\ x.generation = me.generation /\ x.request = me.request
  BY <1>1, <1>2, ToRetry
<1>5. Relies(me, record')
  BY ReliesStable DEF LedgerInv
<1>6. Relies(x, record')
  BY <1>4, <1>5 DEF Relies
<1> QED
  BY <1>3, <1>4, <1>6, SetInv DEF Locals, LocalInv

LEMMA CommitInv == ASSUME LedgerInv, NEW a \in Actors, Commit(a) PROVE LedgerInv'
<1> DEFINE me == actor[a]
<1>1. me \in Running /\ Relies(me, record) /\ me.pc = "commit"
  BY RunningRelies DEF LedgerInv, Commit
<1>2. /\ me.next \in Records /\ WellFormed(me.next) /\ Achieved(me, me.next)
      /\ me.event \in Events \cup {NoEvent} /\ RecordInv(record) /\ outbox \subseteq Events
  BY <1>1 DEF Relies, Running, LedgerInv
<1>3. CASE Accepts(me) /\ Write(me)
  <2>1. /\ record' = me.next /\ record' # NoRecord /\ RecordInv(record')
        /\ outbox' \subseteq Events
    BY <1>2, <1>3, Constants DEF Write, RecordInv
  <2>2. Grows(record, record')
    BY <1>2, <1>3, <2>1, ValidGrows DEF Accepts
  <2>3. CASE Updated(a, me, me.next)
    BY <1>1, <1>2, <2>1, <2>2, <2>3, UpdatedInv
  <2>4. CASE TryAgain(a, me)
    BY <1>1, <2>1, <2>2, <2>4, TryAgainInv
  <2> QED
    BY <1>3, <2>3, <2>4 DEF Commit, Accepts
<1>4. CASE TryAgain(a, me) /\ UNCHANGED <<record, outbox>>
  BY <1>1, <1>2, <1>4, TryAgainInv
<1> QED
  BY <1>3, <1>4 DEF Commit

LEMMA ReconcileInv == ASSUME LedgerInv, NEW a \in Actors, Reconcile(a) PROVE LedgerInv'
<1> DEFINE me == actor[a]
<1>1. me \in Running /\ Relies(me, record) /\ me.pc = "reconcile"
  BY RunningRelies DEF LedgerInv, Reconcile
<1>2. CASE \E resolution \in Resolutions :
             Set(a, [me EXCEPT !.pc = "decide", !.phase = 2, !.resolution = resolution])
  <2>0. PICK resolution \in Resolutions :
          Set(a, [me EXCEPT !.pc = "decide", !.phase = 2, !.resolution = resolution])
    BY <1>2
  <2>1. PICK x : /\ x = [me EXCEPT !.pc = "decide", !.phase = 2, !.resolution = resolution]
                 /\ Set(a, x)
    BY <2>0
  <2>2. /\ x \in Running /\ x.pc = "decide" /\ x.op = me.op /\ x.phase = 2
        /\ x.generation = me.generation /\ x.request = me.request
    BY <1>1, <2>1, ToResolve
  <2>3. Relies(x, record)
    BY <1>1, <2>2 DEF Relies
  <2> QED
    BY <2>1, <2>2, <2>3, LocalStep DEF Reconcile
<1>3. CASE Done(a, "runtime.unavailable")
  BY <1>1, <1>3, RefusedInv DEF Reconcile, Errors
<1> QED
  BY <1>2, <1>3 DEF Reconcile

LEMMA DieInv == ASSUME LedgerInv, NEW a \in Actors, Die(a) PROVE LedgerInv'
BY SetInv DEF Die, LedgerInv, Locals, LocalInv

LEMMA NextInv == LedgerInv /\ [Next]_vars => LedgerInv'
<1> SUFFICES ASSUME LedgerInv, [Next]_vars PROVE LedgerInv'
  OBVIOUS
<1>1. CASE \E a \in Collectors : Collect(a)
  BY <1>1, CollectInv
<1>2. CASE \E a \in Completers : Complete(a)
  BY <1>2, CompleteInv
<1>3. CASE \E a \in Operators : Replay(a)
  BY <1>3, ReplayInv
<1>4. CASE \E a \in Actors : Step(a) \/ Die(a)
  BY <1>4, AuthorizeInv, DecideInv, CommitInv, ReconcileInv, DieInv DEF Step
<1>5. CASE UNCHANGED vars
  BY <1>5 DEF vars, LedgerInv
<1> QED
  BY <1>1, <1>2, <1>3, <1>4, <1>5 DEF Next
-----------------------------------------------------------------------------
\* A replay event that went out is the recovery on record under its generation.
Emitted(events, r) ==
  \A e \in events : /\ r # NoRecord
                    /\ e.generation \in DOMAIN r.recoveries
                    /\ r.recoveries[e.generation] = e.request

LEMMA EmittedInit == Init => Emitted(outbox, record)
BY DEF Init, Emitted

\* A record that may follow another keeps its recoveries, and emits the one it adds.
LEMMA EmittedWrite ==
  ASSUME NEW old, RecordInv(old), NEW new \in Records, NEW event, NEW events,
         Emitted(events, old), ValidChange(old, new, event)
  PROVE  Emitted(IF event = NoEvent THEN events ELSE events \cup {event}, new)
<1>1. CASE old = NoRecord
  BY <1>1 DEF Emitted, ValidChange
<1>2. CASE old # NoRecord
  <2>0. old \in Records /\ new # NoRecord /\ Prefix(old.recoveries, new.recoveries)
    BY <1>2, Constants DEF RecordInv, ValidChange
  <2>1. Emitted(events, new)
    <3> SUFFICES ASSUME NEW e \in events
                 PROVE  /\ e.generation \in DOMAIN new.recoveries
                        /\ new.recoveries[e.generation] = e.request
      BY <2>0 DEF Emitted
    <3>1. e.generation \in DOMAIN old.recoveries /\ old.recoveries[e.generation] = e.request
      BY DEF Emitted
    <3>2. /\ e.generation \in DOMAIN new.recoveries
          /\ new.recoveries[e.generation] = old.recoveries[e.generation]
      BY <2>0, <3>1 DEF Prefix, Records
    <3> QED
      BY <3>1, <3>2
  <2>2. CASE event # NoEvent
    <3>1. /\ Recoveries(new) > Recoveries(old)
          /\ event = [generation |-> Recoveries(new),
                      request |-> new.recoveries[Recoveries(new)]]
      BY <1>2, <2>2 DEF ValidChange
    <3>2. Recoveries(new) \in DOMAIN new.recoveries
      BY <2>0, <3>1 DEF Recoveries, Records
    <3>3. Emitted({event}, new)
      BY <2>0, <3>1, <3>2 DEF Emitted
    <3> QED
      BY <2>1, <2>2, <3>3 DEF Emitted
  <2> QED
    BY <2>1, <2>2
<1> QED
  BY <1>1, <1>2

LEMMA EmittedNext ==
  LedgerInv /\ Emitted(outbox, record) /\ [Next]_vars => Emitted(outbox, record)'
<1> SUFFICES ASSUME LedgerInv, Emitted(outbox, record), [Next]_vars
             PROVE  Emitted(outbox', record')
  BY DEF Emitted
<1>1. CASE UNCHANGED <<record, outbox>>
  BY <1>1
<1>2. CASE \E a \in Actors : Commit(a)
  <2>1. PICK a \in Actors : Commit(a)
    BY <1>2
  <2>2. CASE Accepts(actor[a]) /\ Write(actor[a])
    <3>1. actor[a].next \in Records
      BY <2>1, RunningRelies DEF LedgerInv, Commit, Relies
    <3>2. ValidChange(record, actor[a].next, actor[a].event) /\ RecordInv(record)
      BY <2>2 DEF Accepts, LedgerInv
    <3> QED
      BY <2>2, <3>1, <3>2, EmittedWrite DEF Write
  <2> QED
    BY <1>1, <2>1, <2>2 DEF Commit
<1>3. CASE ~\E a \in Actors : Commit(a)
  BY <1>1, <1>3 DEF Next, vars, Collect, Complete, Replay, Step, Authorize, Decide, Reconcile, Die
<1> QED
  BY <1>2, <1>3

LEMMA InvDurable == LedgerInv /\ Emitted(outbox, record) => AckIsDurable
<1> SUFFICES ASSUME LedgerInv, Emitted(outbox, record)
             PROVE  AckIsDurable
  OBVIOUS
<1>1. ASSUME NEW a \in Actors, actor[a].pc = "done", actor[a].result = "ok"
      PROVE  CASE actor[a].op = "complete" ->
                    record.resolvedGeneration >= actor[a].generation
               [] actor[a].op = "collect" ->
                    /\ Collected(record, actor[a].generation)
                    /\ ~Pending(actor[a].generation)
               [] OTHER -> Recoveries(record) > 0
  <2>1. actor[a] \in Finished /\ Durable(actor[a].op, actor[a].generation, record)
    BY <1>1 DEF LedgerInv, LocalInv, Resting, Running
  <2>2. actor[a].op \in Operations
    BY <2>1 DEF Finished
  <2> QED
    BY <2>1, <2>2 DEF Durable, Operations, Pending
<1> QED
  BY <1>1 DEF AckIsDurable, Emitted

\* An operation that was acknowledged is on record and stays there: a completed
\* generation resolved, a collected one reconciled, a replay accepted, and a replay
\* that went out under the name of its operator.
THEOREM AcksAreDurable == Spec => []AckIsDurable
  BY InitInv, NextInv, EmittedInit, EmittedNext, InvDurable, PTL DEF Spec
=============================================================================
