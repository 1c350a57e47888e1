---------------------------- MODULE StarterProofs ----------------------------
(***************************************************************************)
(* What holds of the starter's commands, its list and its pages for any    *)
(* number of requests, keys and invocations, in memory and on AWS.         *)
(***************************************************************************)
EXTENDS StarterPages, FiniteSetTheorems, TLAPS

Statuses == {"none", "open", "closed"} \cup {q.status : q \in Requests}
Rows == [id : Ids, at : Nat, status : Statuses]
States == [version : Nat, status : Statuses, updatedAt : Nat]
Committed == [event : Ids \X Nat, call : Calls, key : Keys \cup {NoKey}]
Invoked == [pc : {"lookup", "load", "commit", "returned"}, request : Requests \cup {Unasked},
            now : Nat, id : Ids \cup {NoId}, previous : States, result : Answers]

StarterTypeOK ==
  /\ clock \in Nat
  /\ resource \in [Ids -> States]
  /\ idempotency \in [Keys -> KeyRows \cup {NoRow}]
  /\ outbox \subseteq Committed /\ list \subseteq Rows
  /\ call \in [Calls -> Invoked \cup {IdleCall}]

\* An event is one of its call, and of its key if that has one; its call is over, and
\* its version is one the resource has had.
EventsHold ==
  \A e \in outbox :
    /\ call[e.call].pc = "returned"
    /\ e.event[2] \in 1 .. resource[e.event[1]].version
    /\ \A f \in outbox : \/ e.call = f.call
                         \/ e.key = f.key /\ e.key # NoKey
                         => e = f

\* What a key's row says of the event of that key.
Recalls(row, k) ==
  /\ row.response.code = "ok" /\ row.response.ok
  /\ row.fingerprint[2] # NoId => row.response.id = row.fingerprint[2]
  /\ \E e \in outbox : e.key = k /\ e.event[1] = row.response.id

\* A key has a row exactly when it has had its event.
KeysHold ==
  \A k \in Keys :
    /\ idempotency[k] # NoRow => Recalls(idempotency[k], k)
    /\ idempotency[k] # NoRow <=> \E e \in outbox : e.key = k

\* A call that is under way has written nothing.
Underway(c) ==
  LET me == call[c] IN
  /\ me.request \in Requests
  /\ \A e \in outbox : e.call # c
  /\ me.pc = "lookup" => me.request.key # NoKey
  /\ me.pc # "commit" \/ me.request.id # NoId => me.id = me.request.id
  /\ me.pc = "commit" => me.id \in Ids

\* A success has an event behind it, a refusal has none.
Told(c) ==
  LET me == call[c] IN
  /\ me.result.ok <=> me.result.code = "ok"
  /\ me.result.ok =>
       IF me.request.key = NoKey
       THEN me.result.id = me.id /\ \E e \in outbox : e.call = c /\ e.event[1] = me.id
       ELSE \E e \in outbox : /\ e.key = me.request.key
                              /\ e.event[1] = me.result.id \/ Overtaken(c)
  /\ Status(me.result.code) \in 400 .. 499 => \A e \in outbox : e.call # c

CallsHold ==
  \A c \in Calls : /\ call[c].pc \in {"lookup", "load", "commit"} => Underway(c)
                   /\ call[c].pc = "returned" => Told(c)

StarterHolds == StarterTypeOK /\ EventsHold /\ KeysHold /\ CallsHold /\ ListIsCurrent
-----------------------------------------------------------------------------
LEMMA StatusIs ==
  /\ Status("ok") = 200
  /\ Status("runtime.unavailable") = 503
  /\ \A code : Status(code) = 200 => code = "ok"
  BY DEF Status

LEMMA NextStateIsTyped ==
  ASSUME StarterTypeOK, NEW c \in Calls, call[c] \in Invoked, call[c].request \in Requests
  PROVE  NextState(call[c]) \in States
<1>1. /\ call[c].previous \in States /\ call[c].now \in Nat
      /\ call[c].request.status \in Statuses
  BY DEF Invoked, Statuses
<1>2. call[c].previous.version + 1 \in Nat /\ call[c].previous.status \in Statuses
  BY <1>1 DEF States
<1>3. NextStatus(call[c].request, call[c].previous) \in Statuses
  BY <1>1, <1>2 DEF NextStatus, Statuses
<1> QED
  BY <1>1, <1>2, <1>3 DEF NextState, States

LEMMA StarterInitHolds == ASSUME Init PROVE StarterHolds
<1>1. Absent \in States
  BY DEF Absent, States, Statuses
<1>2. StarterTypeOK
  BY <1>1 DEF Init, StarterTypeOK
<1>3. \A c \in Calls : call[c].pc = "idle"
  BY DEF Init, IdleCall
<1>4. \A r \in Ids : resource[r].version = 0
  BY DEF Init, Absent
<1> QED
  BY <1>2, <1>3, <1>4 DEF Init, StarterHolds, EventsHold, KeysHold, CallsHold, ListIsCurrent

\* A step of one call that writes nothing.
LEMMA CallAlone ==
  ASSUME StarterHolds, NEW c \in Calls, NEW next \in Invoked, Goto(c, next),
         call[c].pc # "returned", UNCHANGED <<deployment, clock, store>>,
         next.pc \in {"lookup", "load", "commit"} => Underway(c)',
         next.pc = "returned" => Told(c)'
  PROVE  StarterHolds'
<1>1. call' = [call EXCEPT ![c] = next] /\ call'[c] = next
  BY DEF Goto, StarterHolds, StarterTypeOK
<1>2. \A d \in Calls : d # c => call'[d] = call[d]
  BY <1>1 DEF StarterHolds, StarterTypeOK
<1>3. StarterTypeOK'
  BY <1>1 DEF StarterHolds, StarterTypeOK, store
<1>4. EventsHold'
  <2>1. \A e \in outbox : e.call \in Calls /\ e.call # c
    BY DEF StarterHolds, StarterTypeOK, EventsHold, Committed
  <2> QED
    BY <1>2, <2>1 DEF StarterHolds, EventsHold, store
<1>5. KeysHold'
  BY DEF StarterHolds, KeysHold, Recalls, store
<1>6. CallsHold'
  <2> SUFFICES ASSUME NEW d \in Calls
               PROVE  /\ call'[d].pc \in {"lookup", "load", "commit"} => Underway(d)'
                      /\ call'[d].pc = "returned" => Told(d)'
    BY DEF CallsHold
  <2>1. CASE d = c
    BY <1>1, <2>1
  <2>2. CASE d # c
    BY <1>2, <2>2 DEF StarterHolds, CallsHold, Underway, Told, Overtaken, Effects, Local, store
  <2> QED
    BY <2>1, <2>2
<1>7. ListIsCurrent'
  BY DEF StarterHolds, ListIsCurrent, Local, Row, store
<1> QED
  BY <1>3, <1>4, <1>5, <1>6, <1>7 DEF StarterHolds

LEMMA ReturnMoves ==
  ASSUME StarterTypeOK, NEW c \in Calls, call[c] \in Invoked, NEW result \in Answers,
         Return(c, result)
  PROVE  \E next \in Invoked :
           /\ Goto(c, next) /\ call'[c] = next /\ next.pc = "returned" /\ next.result = result
           /\ next.request = call[c].request /\ next.id = call[c].id
<1> DEFINE next == [call[c] EXCEPT !.pc = "returned", !.result = result, !.now = 0,
                                   !.previous = Absent]
<1>1. Goto(c, next) /\ call'[c] = next
  BY DEF Return, Goto, StarterTypeOK
<1>2. Absent \in States
  BY DEF Absent, States, Statuses
<1>3. SUFFICES ASSUME NEW n, n = next
               PROVE  /\ n \in Invoked /\ n.pc = "returned" /\ n.result = result
                      /\ n.request = call[c].request /\ n.id = call[c].id
  BY <1>1
<1> QED
  BY <1>2, <1>3 DEF Invoked

\* A call that fails, or is refused, without an effect of its own.
LEMMA ReturnsEmpty ==
  ASSUME StarterHolds, NEW c \in Calls, call[c].pc \in {"lookup", "load", "commit"},
         NEW code \in Codes, code # "ok", Return(c, Error(code)),
         UNCHANGED <<deployment, clock, store>>
  PROVE  StarterHolds'
<1>1. call[c] \in Invoked /\ Underway(c)
  BY DEF StarterHolds, StarterTypeOK, CallsHold, IdleCall
<1>2. Error(code) \in Answers /\ ~Error(code).ok /\ Error(code).code = code
  BY DEF Error, Answers
<1>3. PICK next \in Invoked :
        /\ Goto(c, next) /\ call'[c] = next /\ next.pc = "returned"
        /\ next.result = Error(code)
  BY <1>1, <1>2, ReturnMoves DEF StarterHolds
<1>4. Told(c)'
  BY <1>1, <1>2, <1>3 DEF Told, Underway, store
<1> QED
  BY <1>3, <1>4, CallAlone
-----------------------------------------------------------------------------
\* Every write leaves the row of the new state in the list, and in memory no other
\* row of that request; the rows of other requests stay.
LEMMA ListFollows ==
  ASSUME ListIsCurrent, NEW r \in Ids, NEW state \in States,
         resource \in [Ids -> States],
         resource' = [resource EXCEPT ![r] = state], list' = RowsAfter(r, state),
         UNCHANGED deployment
  PROVE  ListIsCurrent'
<1> SUFFICES ASSUME NEW d \in Ids, resource'[d].version > 0
             PROVE  /\ Row(d, resource'[d]) \in list'
                    /\ Local => {row \in list' : row.id = d} = {Row(d, resource'[d])}
  BY DEF ListIsCurrent, Row, Local
<1>1. /\ Row(r, state).id = r
      /\ \A row : Replaces(Row(r, state), row) => row.id = r
      /\ \A row : Local /\ row.id = r => Replaces(Row(r, state), row)
  BY DEF Row, Replaces
<1>2. list' = {row \in list : ~Replaces(Row(r, state), row)} \cup {Row(r, state)}
  BY DEF RowsAfter
<1>3. CASE d = r
  BY <1>1, <1>2, <1>3
<1>4. CASE d # r
  <2>1. resource'[d] = resource[d] /\ Row(d, resource[d]).id = d
    BY <1>4 DEF Row
  <2>2. /\ Row(d, resource[d]) \in list
        /\ Local => {row \in list : row.id = d} = {Row(d, resource[d])}
    BY <2>1 DEF ListIsCurrent
  <2>3. {row \in list' : row.id = d} = {row \in list : row.id = d}
    BY <1>1, <1>2, <1>4
  <2> QED
    BY <1>1, <1>2, <1>4, <2>1, <2>2, <2>3
<1> QED
  BY <1>3, <1>4

LEMMA WriteKeeps ==
  ASSUME StarterHolds, NEW c \in Calls, call[c].pc = "commit",
         NEW result \in {Ok(call[c].id), Error("runtime.unavailable")}, Return(c, result),
         Write(c), Holds(call[c]), Recorded(call[c]) = NoRow,
         UNCHANGED <<deployment, clock>>
  PROVE  StarterHolds'
<1> DEFINE me == call[c]
           q == me.request
           r == me.id
           state == NextState(me)
           e == [event |-> <<r, state.version>>, call |-> c, key |-> q.key]
           row == [fingerprint |-> Fingerprint(q), response |-> Ok(r)]
<1>1. me \in Invoked /\ Underway(c) /\ r \in Ids /\ q \in Requests
  BY DEF StarterHolds, StarterTypeOK, CallsHold, IdleCall, Underway
<1>2. q \in Asked
  BY <1>1, StarterAssumption
<1>3. state \in States
  BY <1>1, NextStateIsTyped DEF StarterHolds
<1>4. /\ resource[r] \in States /\ resource[r].version \in Nat
      /\ state.version = resource[r].version + 1
  BY <1>1 DEF StarterHolds, StarterTypeOK, NextState, Holds, States
<1>5. e \in Committed /\ e.call = c /\ e.key = q.key /\ e.event[1] = r /\ e.event[2] = state.version
  BY <1>1, <1>2, <1>3 DEF Committed, States, Asked
<1>6. Ok(r) \in Answers /\ Ok(r).code = "ok" /\ Ok(r).ok /\ Ok(r).id = r
  BY <1>1 DEF Ok, Answers, Codes
<1>7. row \in KeyRows /\ row # NoRow /\ row.response = Ok(r)
  <2>1. q.command \in STRING /\ q.id \in Ids \cup {NoId} /\ q.status \in STRING
    BY <1>2 DEF Asked
  <2> QED
    BY <1>6, <2>1, StarterAssumption DEF KeyRows, Fingerprint
<1>8. /\ resource' = [resource EXCEPT ![r] = state]
      /\ list' = RowsAfter(r, state)
      /\ outbox' = outbox \cup {e}
      /\ idempotency' = IF q.key = NoKey THEN idempotency ELSE [idempotency EXCEPT ![q.key] = row]
  BY DEF Write
<1>9. result \in Answers /\ (result.ok <=> result.code = "ok")
      /\ (result.ok => result.id = r) /\ Status(result.code) \notin 400 .. 499
  <2>1. CASE result = Ok(r)
    BY <1>6, <2>1, StatusIs
  <2>2. CASE result = Error("runtime.unavailable")
    BY <2>2, StatusIs DEF Error, Answers, Codes
  <2> QED
    BY <2>1, <2>2
<1>10. PICK next \in Invoked :
         /\ Goto(c, next) /\ call'[c] = next /\ next.pc = "returned" /\ next.result = result
         /\ next.request = q /\ next.id = r
  BY <1>1, <1>9, ReturnMoves DEF StarterHolds
<1>11. \A d \in Calls : d # c => call'[d] = call[d]
  BY <1>10 DEF Goto, StarterHolds, StarterTypeOK
<1>12. Row(r, state) \in Rows
  BY <1>1, <1>3 DEF Row, Rows, States
<1>13. q.key # NoKey => q.key \in Keys /\ idempotency[q.key] = NoRow
  BY <1>2 DEF Recorded, Asked
<1> HIDE DEF me, q, r, state, e, row
<1>14. StarterTypeOK'
  <2>1. resource' \in [Ids -> States]
    BY <1>1, <1>3, <1>8 DEF StarterHolds, StarterTypeOK
  <2>2. idempotency' \in [Keys -> KeyRows \cup {NoRow}]
    BY <1>7, <1>8, <1>13 DEF StarterHolds, StarterTypeOK
  <2>3. outbox' \subseteq Committed /\ list' \subseteq Rows
    BY <1>5, <1>8, <1>12 DEF StarterHolds, StarterTypeOK, RowsAfter
  <2>4. call' \in [Calls -> Invoked \cup {IdleCall}]
    BY <1>10 DEF StarterHolds, StarterTypeOK, Goto
  <2> QED
    BY <2>1, <2>2, <2>3, <2>4 DEF StarterHolds, StarterTypeOK
<1>15. \A f \in outbox : /\ f.call \in Calls /\ f.call # c
                         /\ f.event[1] \in Ids /\ f.event[2] \in Nat
                         /\ q.key # NoKey => f.key # q.key
  <2>1. \A f \in outbox : f.call \in Calls /\ f.event[1] \in Ids /\ f.event[2] \in Nat
    BY DEF StarterHolds, StarterTypeOK, Committed
  <2> QED
    BY <1>1, <1>13, <2>1 DEF Underway, StarterHolds, KeysHold
<1>16. EventsHold'
  <2>1. ASSUME NEW f \in outbox'
        PROVE  /\ call'[f.call].pc = "returned"
               /\ f.event[2] \in 1 .. resource'[f.event[1]].version
    <3>1. CASE f \in outbox
      <4>1. call'[f.call].pc = "returned"
        BY <1>11, <1>15, <3>1 DEF StarterHolds, EventsHold
      <4>2. f.event[2] \in 1 .. resource[f.event[1]].version
        BY <3>1 DEF StarterHolds, EventsHold
      <4>3. resource'[f.event[1]] = IF f.event[1] = r THEN state ELSE resource[f.event[1]]
        BY <1>8, <1>15, <3>1 DEF StarterHolds, StarterTypeOK
      <4> QED
        BY <1>4, <1>15, <3>1, <4>1, <4>2, <4>3
    <3>2. CASE f = e
      <4>1. resource'[r] = state
        BY <1>1, <1>8 DEF StarterHolds, StarterTypeOK
      <4> QED
        BY <1>4, <1>5, <1>10, <3>2, <4>1
    <3> QED
      BY <1>8, <3>1, <3>2
  <2>2. ASSUME NEW f \in outbox', NEW g \in outbox',
               f.call = g.call \/ (f.key = g.key /\ f.key # NoKey)
        PROVE  f = g
    <3>1. CASE f \in outbox /\ g \in outbox
      BY <2>2, <3>1 DEF StarterHolds, EventsHold
    <3>2. CASE f = e \/ g = e
      BY <1>5, <1>8, <1>15, <2>2, <3>2
    <3> QED
      BY <1>8, <3>1, <3>2
  <2> QED
    BY <2>1, <2>2 DEF EventsHold
<1>17. KeysHold'
  <2> SUFFICES ASSUME NEW k \in Keys
               PROVE  /\ idempotency'[k] # NoRow => Recalls(idempotency[k], k)'
                      /\ idempotency'[k] # NoRow <=> \E f \in outbox' : f.key = k
    BY DEF KeysHold
  <2>1. CASE k = q.key
    <3>1. q.key # NoKey
      BY <2>1, StarterAssumption
    <3>2. idempotency'[k] = row
      BY <1>8, <2>1, <3>1 DEF StarterHolds, StarterTypeOK
    <3>3. row.fingerprint[2] = q.id /\ (q.id # NoId => q.id = r)
      BY <1>1 DEF row, me, q, r, Fingerprint, Underway
    <3>4. e \in outbox'
      BY <1>8
    <3>5. Recalls(idempotency[k], k)'
      BY <1>5, <1>6, <1>7, <2>1, <3>2, <3>3, <3>4 DEF Recalls
    <3> QED
      BY <1>5, <1>7, <2>1, <3>2, <3>4, <3>5
  <2>2. CASE k # q.key
    <3>1. idempotency'[k] = idempotency[k]
      BY <1>8, <2>2 DEF StarterHolds, StarterTypeOK
    <3> QED
      BY <1>5, <1>8, <2>2, <3>1 DEF StarterHolds, KeysHold, Recalls
  <2> QED
    BY <2>1, <2>2
<1>18. CallsHold'
  <2> SUFFICES ASSUME NEW d \in Calls
               PROVE  /\ call'[d].pc \in {"lookup", "load", "commit"} => Underway(d)'
                      /\ call'[d].pc = "returned" => Told(d)'
    BY DEF CallsHold
  <2>1. CASE d = c
    <3>1. Told(c)'
      <4>1. e \in outbox'
        BY <1>8
      <4> QED
        BY <1>1, <1>5, <1>9, <1>10, <4>1 DEF Told
    <3> QED
      BY <1>10, <2>1, <3>1
  <2>2. CASE d # c
    <3>1. call'[d] = call[d] /\ (\A f \in outbox' : f \in outbox \/ f.call # d) /\ outbox \subseteq outbox'
      BY <1>5, <1>8, <1>11, <2>2
    <3>2. call[d].pc \in {"lookup", "load", "commit"} => Underway(d)'
      BY <3>1 DEF StarterHolds, CallsHold, Underway
    <3>3. call[d].pc = "returned" => Told(d)'
      <4>1. Overtaken(d) => Overtaken(d)'
        BY <3>1 DEF Overtaken, Effects, Local
      <4> QED
        BY <3>1, <4>1 DEF StarterHolds, CallsHold, Told
    <3> QED
      BY <3>1, <3>2, <3>3
  <2> QED
    BY <2>1, <2>2
<1>19. ListIsCurrent'
  BY <1>1, <1>3, <1>8, ListFollows DEF StarterHolds, StarterTypeOK
<1> QED
  BY <1>14, <1>16, <1>17, <1>18, <1>19 DEF StarterHolds
-----------------------------------------------------------------------------
LEMMA BeginKeeps ==
  ASSUME StarterHolds, NEW c \in Calls, NEW q \in Requests, Begin(c, q)
  PROVE  StarterHolds'
<1>1. /\ call[c].pc = "idle" /\ UNCHANGED <<deployment, clock, store>>
      /\ \/ /\ Refusal(q) # "none"
            /\ Goto(c, Asking(Unasked, "returned", Refusal(q)))
         \/ \E pc \in {"load", "lookup"} :
              /\ Goto(c, Asking(q, pc, "none"))
              /\ pc = "lookup" => q.key # NoKey
  BY DEF Begin, At, Elsewhere
<1>2. \A e \in outbox : e.call # c
  BY <1>1 DEF StarterHolds, EventsHold
<1>3. clock \in Nat /\ Absent \in States
  BY DEF StarterHolds, StarterTypeOK, Absent, States, Statuses
<1>4. \A code \in Codes \ {"ok"} :
        Error(code) \in Answers /\ ~Error(code).ok /\ Error(code).code = code
  BY DEF Error, Answers
<1>5. CASE Refusal(q) # "none" /\ Goto(c, Asking(Unasked, "returned", Refusal(q)))
  <2>1. SUFFICES ASSUME NEW next, next = Asking(Unasked, "returned", Refusal(q))
                 PROVE  StarterHolds'
    OBVIOUS
  <2>2. Refusal(q) \in Codes \ {"ok"}
    BY DEF Refusal, Codes
  <2>3. next \in Invoked /\ next.pc = "returned" /\ next.result = Error(Refusal(q))
    BY <1>3, <1>4, <2>1, <2>2 DEF Asking, Invoked, Unasked
  <2>4. Goto(c, next) /\ call'[c] = next
    BY <1>5, <2>1 DEF Goto, StarterHolds, StarterTypeOK
  <2>5. Told(c)'
    BY <1>1, <1>2, <1>4, <2>2, <2>3, <2>4 DEF Told, store
  <2> QED
    BY <1>1, <2>3, <2>4, <2>5, CallAlone
<1>6. ASSUME NEW pc \in {"load", "lookup"}, Goto(c, Asking(q, pc, "none")),
             pc = "lookup" => q.key # NoKey
      PROVE  StarterHolds'
  <2>1. SUFFICES ASSUME NEW next, next = Asking(q, pc, "none")
                 PROVE  StarterHolds'
    OBVIOUS
  <2>2. q.id \in Ids \cup {NoId}
    BY StarterAssumption DEF Asked
  <2>3. "none" \in Codes \ {"ok"}
    BY DEF Codes
  <2>4. Error("none") \in Answers
    BY <1>4, <2>3
  <2>5. /\ next \in Invoked /\ next.pc = pc /\ next.request = q /\ next.id = q.id
    BY <1>3, <2>1, <2>2, <2>4 DEF Asking, Invoked
  <2>6. Goto(c, next) /\ call'[c] = next
    BY <1>6, <2>1 DEF Goto, StarterHolds, StarterTypeOK
  <2>7. Underway(c)'
    BY <1>1, <1>2, <1>6, <2>5, <2>6 DEF Underway, store
  <2> QED
    BY <1>1, <1>6, <2>5, <2>6, <2>7, CallAlone
<1> QED
  BY <1>1, <1>5, <1>6

LEMMA UnavailableKeeps ==
  ASSUME StarterHolds, NEW c \in Calls, call[c].pc \in {"lookup", "load", "commit"},
         Unavailable(c), UNCHANGED <<deployment, clock>>
  PROVE  StarterHolds'
<1>1. "runtime.unavailable" \in Codes /\ "runtime.unavailable" # "ok"
  BY DEF Codes
<1> QED
  BY <1>1, ReturnsEmpty DEF Unavailable

\* A success that is answered for a key, by its first call or by a later one.
LEMMA ReturnsKeyed ==
  ASSUME StarterHolds, NEW c \in Calls, call[c].pc \in {"lookup", "commit"},
         call[c].request.key \in Keys, idempotency[call[c].request.key] # NoRow,
         NEW result \in Answers, result.code = "ok", result.ok, Return(c, result),
         UNCHANGED <<deployment, clock, store>>,
         \/ result.id = idempotency[call[c].request.key].response.id
         \/ /\ Local /\ Creates(call[c].request) /\ call[c].request.id = NoId
            /\ call[c].id # NoId /\ result.id = call[c].id
  PROVE  StarterHolds'
<1>1. call[c] \in Invoked /\ Underway(c)
  BY DEF StarterHolds, StarterTypeOK, CallsHold, IdleCall
<1>2. PICK next \in Invoked :
        /\ Goto(c, next) /\ call'[c] = next /\ next.pc = "returned"
        /\ next.result = result /\ next.request = call[c].request /\ next.id = call[c].id
  BY <1>1, ReturnMoves DEF StarterHolds
<1>3. \E e \in outbox : /\ e.key = call[c].request.key
                        /\ e.event[1] = idempotency[call[c].request.key].response.id
  BY DEF StarterHolds, KeysHold, Recalls
<1>4. call[c].request.key # NoKey
  BY StarterAssumption
<1>5. Told(c)'
  <2>1. CASE result.id = idempotency[call[c].request.key].response.id
    BY <1>1, <1>2, <1>3, <1>4, <2>1, StatusIs DEF Told, Underway, store
  <2>2. CASE result.id # idempotency[call[c].request.key].response.id
    <3>1. Effects(c)' = {}
      BY <1>1 DEF Underway, Effects, store
    <3>2. Overtaken(c)'
      BY <1>2, <2>2, <3>1 DEF Overtaken, Local
    <3> QED
      BY <1>1, <1>2, <1>3, <1>4, <3>2, StatusIs DEF Told, Underway, store
  <2> QED
    BY <2>1, <2>2
<1> QED
  BY <1>2, <1>5, CallAlone

LEMMA LookupKeeps ==
  ASSUME StarterHolds, NEW c \in Calls, Lookup(c)
  PROVE  StarterHolds'
<1> DEFINE q == call[c].request
           row == idempotency[q.key]
<1>1. call[c].pc = "lookup" /\ UNCHANGED <<deployment, clock>>
  BY DEF Lookup, At, Elsewhere
<1>2. call[c] \in Invoked /\ Underway(c) /\ q \in Requests /\ q.key # NoKey
  BY <1>1 DEF StarterHolds, StarterTypeOK, CallsHold, IdleCall, Underway
<1>3. q.key \in Keys
  BY <1>2, StarterAssumption DEF Asked
<1>4. CASE Unavailable(c)
  BY <1>1, <1>4, UnavailableKeeps
<1>5. CASE row = NoRow /\ Goto(c, [call[c] EXCEPT !.pc = "load"]) /\ UNCHANGED store
  <2>1. SUFFICES ASSUME NEW next, next = [call[c] EXCEPT !.pc = "load"]
                 PROVE  StarterHolds'
    OBVIOUS
  <2>2. next \in Invoked /\ next.pc = "load" /\ next.request = q /\ next.id = call[c].id
    BY <1>2, <2>1 DEF Invoked
  <2>3. Goto(c, next) /\ call'[c] = next
    BY <1>5, <2>1 DEF Goto, StarterHolds, StarterTypeOK
  <2>4. Underway(c)'
    BY <1>1, <1>2, <1>5, <2>2, <2>3 DEF Underway, store
  <2> QED
    BY <1>1, <1>5, <2>2, <2>3, <2>4, CallAlone
<1>6. CASE row # NoRow /\ Return(c, row.response) /\ UNCHANGED store
  <2>1. row \in KeyRows /\ row.response.code = "ok" /\ row.response.ok
    BY <1>3, <1>6 DEF StarterHolds, StarterTypeOK, KeysHold, Recalls
  <2>2. row.response \in Answers
    BY <2>1 DEF KeyRows
  <2> QED
    BY <1>1, <1>3, <1>6, <2>1, <2>2, ReturnsKeyed
<1>7. CASE Return(c, Error("idempotency.conflict")) /\ UNCHANGED store
  <2>1. "idempotency.conflict" \in Codes /\ "idempotency.conflict" # "ok"
    BY DEF Codes
  <2> QED
    BY <1>1, <1>7, <2>1, ReturnsEmpty
<1> QED
  BY <1>4, <1>5, <1>6, <1>7 DEF Lookup

\* A call goes on to its commit.
LEMMA PlannedKeeps ==
  ASSUME StarterHolds, NEW c \in Calls, call[c].pc = "load",
         NEW id \in Ids, NEW previous \in States,
         call[c].request.id # NoId => id = call[c].request.id,
         Goto(c, [call[c] EXCEPT !.pc = "commit", !.id = id, !.previous = previous]),
         UNCHANGED <<deployment, clock, store>>
  PROVE  StarterHolds'
<1>1. call[c] \in Invoked /\ Underway(c)
  BY DEF StarterHolds, StarterTypeOK, CallsHold, IdleCall
<1>2. SUFFICES ASSUME NEW next, next = [call[c] EXCEPT !.pc = "commit", !.id = id,
                                                       !.previous = previous]
               PROVE  StarterHolds'
  OBVIOUS
<1>3. next \in Invoked /\ next.pc = "commit" /\ next.request = call[c].request /\ next.id = id
  BY <1>1, <1>2 DEF Invoked
<1>4. Goto(c, next) /\ call'[c] = next
  BY <1>2 DEF Goto, StarterHolds, StarterTypeOK
<1>5. Underway(c)'
  BY <1>1, <1>3, <1>4 DEF Underway, store
<1> QED
  BY <1>3, <1>4, <1>5, CallAlone

LEMMA LoadKeeps ==
  ASSUME StarterHolds, NEW c \in Calls, Load(c)
  PROVE  StarterHolds'
<1> DEFINE me == call[c]
           q == me.request
           planned == [me EXCEPT !.pc = "commit"]
<1>1. me.pc = "load" /\ UNCHANGED <<deployment, clock>>
  BY DEF Load, At, Elsewhere
<1>2. me \in Invoked /\ Underway(c) /\ q \in Requests
  BY <1>1 DEF StarterHolds, StarterTypeOK, CallsHold, IdleCall, Underway
<1>3. /\ q.id \in Ids \cup {NoId} /\ me.id \in Ids \cup {NoId} /\ me.previous \in States
      /\ me.id = q.id /\ (~Creates(q) => q.id \in Ids)
  BY <1>1, <1>2, StarterAssumption DEF Asked, Invoked, Creates, Underway
<1>5. CASE Unavailable(c)
  BY <1>1, <1>5, UnavailableKeeps
<1>6. ASSUME NEW r \in Ids, Creates(q), q.id = NoId, UNCHANGED store,
             Goto(c, [planned EXCEPT !.id = r])
      PROVE  StarterHolds'
  <2>1. [planned EXCEPT !.id = r] = [me EXCEPT !.pc = "commit", !.id = r, !.previous = me.previous]
    BY <1>2 DEF Invoked
  <2> QED
    BY <1>1, <1>3, <1>6, <2>1, PlannedKeeps
<1>7. CASE Creates(q) /\ q.id # NoId /\ UNCHANGED store /\ Goto(c, planned)
  <2>1. planned = [me EXCEPT !.pc = "commit", !.id = me.id, !.previous = me.previous]
    BY <1>2 DEF Invoked
  <2>2. me.id \in Ids /\ me.id = call[c].request.id /\ me.previous \in States
    BY <1>3, <1>7
  <2>3. Goto(c, [call[c] EXCEPT !.pc = "commit", !.id = me.id, !.previous = me.previous])
    BY <1>7, <2>1
  <2> QED
    BY <1>1, <1>7, <2>2, <2>3, PlannedKeeps
<1>8. CASE ~Creates(q) /\ UNCHANGED store /\ Return(c, Error("resource.not_found"))
  <2>1. "resource.not_found" \in Codes /\ "resource.not_found" # "ok"
    BY DEF Codes
  <2> QED
    BY <1>1, <1>8, <2>1, ReturnsEmpty
<1>9. CASE ~Creates(q) /\ UNCHANGED store /\ Goto(c, [planned EXCEPT !.previous = resource[q.id]])
  <2>1. [planned EXCEPT !.previous = resource[q.id]] =
          [me EXCEPT !.pc = "commit", !.id = me.id, !.previous = resource[q.id]]
    BY <1>2 DEF Invoked
  <2>2. resource[q.id] \in States
    BY <1>3, <1>9 DEF StarterHolds, StarterTypeOK
  <2> QED
    BY <1>1, <1>3, <1>9, <2>1, <2>2, PlannedKeeps
<1>10. Fresh \subseteq Ids
  BY DEF Fresh
<1> QED
  BY <1>3, <1>5, <1>6, <1>7, <1>8, <1>9, <1>10 DEF Load
-----------------------------------------------------------------------------
LEMMA CommitLocallyKeeps ==
  ASSUME StarterHolds, NEW c \in Calls, CommitLocally(c)
  PROVE  StarterHolds'
<1> DEFINE me == call[c]
           row == Recorded(me)
<1>1. me.pc = "commit" /\ UNCHANGED <<deployment, clock>>
  BY DEF CommitLocally, At
<1>2. me \in Invoked /\ me.id \in Ids /\ me.request \in Requests
  BY <1>1 DEF StarterHolds, StarterTypeOK, CallsHold, IdleCall, Underway
<1>3. /\ Ok(me.id) \in Answers /\ Ok(me.id).code = "ok" /\ Ok(me.id).ok
      /\ {"idempotency.conflict", "resource.conflict"} \subseteq Codes \ {"ok"}
  BY <1>2 DEF Ok, Answers, Codes
<1>4. Unwritten => UNCHANGED store
  BY DEF Unwritten
<1>5. CASE /\ row # NoRow /\ Return(c, Ok(me.id)) /\ Unwritten
           /\ row.fingerprint = Fingerprint(me.request)
  <2>1. /\ me.request.key \in Keys /\ idempotency[me.request.key] # NoRow
        /\ row = idempotency[me.request.key]
    BY <1>2, <1>5, StarterAssumption DEF Recorded, Asked
  <2>2. Ok(me.id).id = me.id /\ Local /\ me.id # NoId
    BY <1>2, StarterAssumption DEF Ok, CommitLocally
  <2>3. CASE me.request.id # NoId
    <3>1. row.fingerprint[2] = me.request.id
      BY <1>5 DEF Fingerprint
    <3>2. me.id = me.request.id
      BY <1>1, <2>3 DEF StarterHolds, CallsHold, Underway
    <3>3. Ok(me.id).id = row.response.id
      BY <2>1, <2>2, <2>3, <3>1, <3>2 DEF StarterHolds, KeysHold, Recalls
    <3> QED
      BY <1>1, <1>3, <1>4, <1>5, <2>1, <3>3, ReturnsKeyed
  <2>4. CASE me.request.id = NoId
    <3>1. Creates(me.request)
      BY <1>2, <2>4, StarterAssumption DEF Creates
    <3> QED
      BY <1>1, <1>3, <1>4, <1>5, <2>1, <2>2, <2>4, <3>1, ReturnsKeyed
  <2> QED
    BY <2>3, <2>4
<1>6. CASE row = NoRow /\ Holds(me) /\ Write(c) /\ Return(c, Ok(me.id))
  BY <1>1, <1>6, WriteKeeps
<1>7. CASE Unwritten /\ (Return(c, Error("idempotency.conflict")) \/ Return(c, Error("resource.conflict")))
  BY <1>1, <1>3, <1>4, <1>7, ReturnsEmpty
<1> QED
  BY <1>5, <1>6, <1>7 DEF CommitLocally

LEMMA TransactKeeps ==
  ASSUME StarterHolds, NEW c \in Calls, Transact(c)
  PROVE  StarterHolds'
<1> DEFINE me == call[c]
<1>1. me.pc = "commit" /\ UNCHANGED <<deployment, clock>>
  BY DEF Transact, At
<1>2. {"resource.conflict", "runtime.unavailable"} \subseteq Codes \ {"ok"}
  BY DEF Codes
<1>3. Unwritten => UNCHANGED store
  BY DEF Unwritten
<1>4. CASE /\ me.request.key = NoKey /\ Holds(me) /\ Write(c)
           /\ Return(c, Ok(me.id)) \/ Return(c, Error("runtime.unavailable"))
  <2>1. Recorded(me) = NoRow
    BY <1>4 DEF Recorded
  <2> QED
    BY <1>1, <1>4, <2>1, WriteKeeps
<1>5. CASE Unwritten /\ (Return(c, Error("resource.conflict")) \/ Return(c, Error("runtime.unavailable")))
  BY <1>1, <1>2, <1>3, <1>5, ReturnsEmpty
<1> QED
  BY <1>4, <1>5 DEF Transact

LEMMA ExecuteKeeps ==
  ASSUME StarterHolds, NEW c \in Calls, Execute(c)
  PROVE  StarterHolds'
  BY LookupKeeps, LoadKeeps, CommitLocallyKeeps, TransactKeeps DEF Execute

\* The worker, the reminder and the clock leave the commands alone.
LEMMA OthersKeep ==
  ASSUME StarterHolds, UNCHANGED <<deployment, store, call>>, clock' \in Nat
  PROVE  StarterHolds'
<1>1. StarterTypeOK'
  BY DEF StarterHolds, StarterTypeOK, store
<1>2. EventsHold' /\ KeysHold'
  BY DEF StarterHolds, EventsHold, KeysHold, Recalls, store
<1>3. CallsHold'
  BY DEF StarterHolds, CallsHold, Underway, Told, Overtaken, Effects, Local, store
<1>4. ListIsCurrent'
  BY DEF StarterHolds, ListIsCurrent, Local, Row, store
<1> QED
  BY <1>1, <1>2, <1>3, <1>4 DEF StarterHolds

LEMMA StarterNextKeeps ==
  ASSUME StarterHolds, [Next]_vars
  PROVE  StarterHolds'
<1>1. CASE \E c \in Calls : Execute(c) \/ \E q \in Requests : Begin(c, q)
  BY <1>1, ExecuteKeeps, BeginKeeps
<1>2. clock \in Nat
  BY DEF StarterHolds, StarterTypeOK
<1>3. CASE Tick
  BY <1>2, <1>3, OthersKeep DEF Tick
<1>4. CASE UNCHANGED vars
  BY <1>2, <1>4, OthersKeep DEF vars
<1>5. CASE Scan \/ Remind
  BY <1>2, <1>5, OthersKeep DEF Scan, Remind, AwayFromReminder
<1>6. CASE Deliver
  BY <1>2, <1>6, OthersKeep DEF Deliver, Receive, AwayFromWorker
<1>7. CASE Serve
  BY <1>2, <1>7, OthersKeep DEF Serve, Check, Work, Mark, AwayFromWorker
<1>8. CASE \E e \in Events : Duplicate(e)
  BY <1>2, <1>8, OthersKeep DEF Duplicate, AwayFromWorker
<1> QED
  BY <1>1, <1>3, <1>4, <1>5, <1>6, <1>7, <1>8 DEF Next

LEMMA OnlyOne ==
  ASSUME NEW S, NEW x \in S, \A y \in S, z \in S : y = z
  PROVE  Cardinality(S) = 1
<1>1. S = {x}
  OBVIOUS
<1> QED
  BY <1>1, FS_Singleton

LEMMA AtMostOne ==
  ASSUME NEW S, \A y \in S, z \in S : y = z
  PROVE  Cardinality(S) <= 1
<1>1. CASE S = {}
  BY <1>1, FS_EmptySet
<1>2. CASE S # {}
  <2>1. PICK x \in S : TRUE
    BY <1>2
  <2>2. Cardinality(S) = 1
    BY <2>1, OnlyOne
  <2> QED
    BY <2>2
<1> QED
  BY <1>1, <1>2

LEMMA HeldIsTrue ==
  ASSUME StarterHolds
  PROVE  AnswersFitEffects
<1> SUFFICES ASSUME NEW c \in Calls, At(c, "returned")
             PROVE  LET me == call[c]
                        status == Status(me.result.code)
                        keyed == Keyed(me.request.key)
                    IN
                    CASE status = 200 /\ me.request.key = NoKey ->
                           About(Effects(c), me.result.id)
                      [] status = 200 /\ me.request.key # NoKey ->
                           About(keyed, me.result.id) \/ (Overtaken(c) /\ Cardinality(keyed) = 1)
                      [] status \in 400 .. 499 -> Effects(c) = {}
                      [] OTHER -> Cardinality(Effects(c)) <= 1
  BY DEF AnswersFitEffects
<1> DEFINE key == call[c].request.key
           status == Status(call[c].result.code)
<1>1. Told(c)
  BY DEF At, StarterHolds, CallsHold
<1>2. /\ \A e, f \in Effects(c) : e = f
      /\ key # NoKey => \A e, f \in Keyed(key) : e = f
  BY DEF Effects, Keyed, StarterHolds, EventsHold
<1>3. status = 200 => call[c].result.ok
  BY <1>1, StatusIs DEF Told
<1>4. status = 200 /\ key = NoKey => About(Effects(c), call[c].result.id)
  BY <1>1, <1>2, <1>3, OnlyOne DEF Told, Effects, About
<1>5. status = 200 /\ key # NoKey =>
        \/ About(Keyed(key), call[c].result.id)
        \/ Overtaken(c) /\ Cardinality(Keyed(key)) = 1
  <2> SUFFICES ASSUME status = 200, key # NoKey
               PROVE  \/ About(Keyed(key), call[c].result.id)
                      \/ Overtaken(c) /\ Cardinality(Keyed(key)) = 1
    OBVIOUS
  <2>1. \E e \in outbox : /\ e.key = call[c].request.key
                          /\ e.event[1] = call[c].result.id \/ Overtaken(c)
    <3>1. call[c].result.ok
      BY <1>3
    <3> HIDE DEF status
    <3> QED
      BY <1>1, <3>1 DEF Told
  <2> DEFINE overtaken == Overtaken(c)
             id == call[c].result.id
  <2>2. \E e \in outbox : e.key = call[c].request.key /\ (e.event[1] = id \/ overtaken)
    BY <2>1
  <2> HIDE DEF overtaken, id
  <2>3. PICK e \in Keyed(key) : e.event[1] = id \/ overtaken
    BY <2>2 DEF Keyed
  <2>4. \A f \in Keyed(key) : f = e
    BY <1>2, <2>3
  <2>5. Cardinality(Keyed(key)) = 1
    BY <2>3, <2>4, OnlyOne
  <2>6. About(Keyed(key), id) \/ (overtaken /\ Cardinality(Keyed(key)) = 1)
    BY <2>3, <2>4, <2>5 DEF About
  <2> QED
    BY <2>6 DEF overtaken, id
<1>6. status \in 400 .. 499 => Effects(c) = {}
  BY <1>1 DEF Told, Effects
<1>7. Cardinality(Effects(c)) <= 1
  BY <1>2, AtMostOne
<1> HIDE DEF key, status
<1> QED
  BY <1>4, <1>5, <1>6, <1>7 DEF key, status
-----------------------------------------------------------------------------
(* The pages.                                                               *)

Failures == {"none", "missing", "lost"}
Shows == [loading : BOOLEAN, error : Failures, version : Nat, rows : SUBSET Rows,
          crossed : BOOLEAN]
Asks == [pc : {"sent", "answered", "failed"}, error : Failures, version : Nat,
         rows : SUBSET Rows]

PagesTypeOK ==
  /\ page \in [at : {"none", "list", "new", "request"}, id : Ids \cup {NoId}, own : Nat]
  /\ panes \in [Panes -> Shows]
  /\ loads \in [Panes -> Seq(Asks)]
  /\ dialog \in [open : BOOLEAN, runs : SUBSET Calls, error : BOOLEAN]

\* A call that the page waits for asks without a key and, on a request's page, for
\* that request.
Awaited(c) ==
  /\ call[c].pc # "idle" /\ call[c].request.key = NoKey
  /\ page.at = "request" /\ (call[c].pc # "returned" \/ call[c].result.ok) =>
       call[c].id = page.id /\ ~Creates(call[c].request)

\* A component whose loads did not cross has at most one under way, which was asked
\* after the page's last own command.
Follows(p) ==
  ~panes[p].crossed =>
    /\ Len(loads[p]) <= 1
    /\ \A n \in DOMAIN loads[p] : loads[p][n].pc # "sent" =>
         loads[p][n].version >= page.own \/ loads[p][n].error = "lost"
    /\ loads[p] = <<>> => panes[p].version >= page.own \/ panes[p].error = "lost"

PagesHold ==
  /\ PagesTypeOK
  /\ \A c \in dialog.runs : Awaited(c)
  /\ page.at = "request" => page.id \in Ids
  /\ page.own > 0 =>
       /\ page.at = "request"
       /\ page.own <= resource[page.id].version
       /\ \A p \in {"detail", "timeline"} : Follows(p)

LEMMA PagesInitHold == ASSUME PagesInit PROVE PagesHold
<1>1. page.at \in {"none", "list"} /\ page.id = NoId /\ page.own = 0
  BY DEF PagesInit, NoPage
<1>2. Empty \in Shows
  BY DEF Empty, Shows, Failures
<1>3. Sent \in Asks
  BY DEF Sent, Asks, Failures
<1>4. panes \in [Panes -> Shows]
  BY <1>2 DEF PagesInit
<1>5. loads \in [Panes -> Seq(Asks)]
  <2>1. <<Sent>> \in Seq(Asks) /\ <<>> \in Seq(Asks)
    BY <1>3
  <2> QED
    BY <2>1 DEF PagesInit
<1>6. page \in [at : {"none", "list", "new", "request"}, id : Ids \cup {NoId}, own : Nat]
  BY DEF PagesInit, NoPage
<1>7. dialog \in [open : BOOLEAN, runs : SUBSET Calls, error : BOOLEAN] /\ dialog.runs = {}
  BY DEF PagesInit, NoDialog
<1> QED
  BY <1>1, <1>4, <1>5, <1>6, <1>7 DEF PagesHold, PagesTypeOK

LEMMA RemovesOne ==
  ASSUME NEW S, NEW s \in Seq(S), NEW n \in DOMAIN s
  PROVE  /\ RemoveAt(s, n) \in Seq(S)
         /\ Len(s) <= 1 => RemoveAt(s, n) = <<>>
<1>1. n \in 1 .. Len(s) /\ Len(s) \in Nat
  OBVIOUS
<1>2. SubSeq(s, 1, n - 1) \in Seq(S) /\ SubSeq(s, n + 1, Len(s)) \in Seq(S)
  BY <1>1
<1>3. Len(s) <= 1 => SubSeq(s, 1, n - 1) = <<>> /\ SubSeq(s, n + 1, Len(s)) = <<>>
  BY <1>1
<1> QED
  BY <1>2, <1>3 DEF RemoveAt

\* A page that appears waits for nobody, and its components have just asked.
LEMMA VisitKeeps ==
  ASSUME PagesHold, StarterHolds, NEW at \in {"list", "new", "request"},
         NEW r \in Ids \cup {NoId}, NEW own \in {0, 1}, Visit(at, r, own),
         at = "request" => r \in Ids,
         own = 1 => at = "request" /\ resource[r].version >= 1,
         UNCHANGED vars
  PROVE  PagesHold'
<1>1. Sent \in Asks /\ Sent.pc = "sent"
  BY DEF Sent, Asks, Failures
<1>2. Empty \in Shows /\ \A b \in BOOLEAN : [Empty EXCEPT !.loading = b] \in Shows
  BY DEF Empty, Shows, Failures
<1>3. panes' \in [Panes -> Shows]
  <2>1. \A p \in Panes : [Empty EXCEPT !.loading = p \in PanesOf(at)] \in Shows
    <3> SUFFICES ASSUME NEW p \in Panes, NEW b, b = (p \in PanesOf(at))
                 PROVE  [Empty EXCEPT !.loading = b] \in Shows
      OBVIOUS
    <3>1. b \in BOOLEAN
      OBVIOUS
    <3> QED
      BY <1>2, <3>1
  <2> QED
    BY <2>1 DEF Visit
<1>4. loads' \in [Panes -> Seq(Asks)]
  <2>1. <<Sent>> \in Seq(Asks) /\ <<>> \in Seq(Asks)
    BY <1>1
  <2> QED
    BY <2>1 DEF Visit
<1>5. dialog' \in [open : BOOLEAN, runs : SUBSET Calls, error : BOOLEAN] /\ dialog'.runs = {}
  BY DEF Visit, NoDialog
<1>6. /\ page' \in [at : {"none", "list", "new", "request"}, id : Ids \cup {NoId}, own : Nat]
      /\ page'.at = at /\ page'.id = r /\ page'.own = own
  BY DEF Visit
<1>7. own = 1 => \A p \in {"detail", "timeline"} : loads'[p] = <<Sent>>
  BY DEF Visit, Panes, PanesOf
<1>8. own = 1 => \A p \in {"detail", "timeline"} : Follows(p)'
  <2>1. Len(<<Sent>>) = 1 /\ <<Sent>> # <<>> /\ \A n \in DOMAIN <<Sent>> : <<Sent>>[n] = Sent
    OBVIOUS
  <2> QED
    <3> SUFFICES ASSUME own = 1, NEW p \in {"detail", "timeline"}
                 PROVE  Follows(p)'
      OBVIOUS
    <3>1. loads'[p] = <<Sent>>
      BY <1>7
    <3>2. Len(loads'[p]) <= 1 /\ loads'[p] # <<>> /\ \A n \in DOMAIN loads'[p] : loads'[p][n].pc = "sent"
      BY <1>1, <2>1, <3>1
    <3> QED
      BY <3>2 DEF Follows
<1> QED
  BY <1>3, <1>4, <1>5, <1>6, <1>8 DEF PagesHold, PagesTypeOK, vars, store

\* What a component's one load brings, and what it leaves when it is shown.
LEMMA ReadsKeep ==
  ASSUME PagesHold, StarterHolds, NEW p \in PanesOf(page.at), Reads(p), UNCHANGED vars
  PROVE  PagesHold'
<1>1. UNCHANGED <<page, panes, dialog>> /\ p \in Panes
  BY DEF Reads, PanesOf, Panes
<1>2. loads[p] \in Seq(Asks) /\ loads \in [Panes -> Seq(Asks)]
  BY <1>1 DEF PagesHold, PagesTypeOK
<1>3. PICK n \in DOMAIN loads[p], load \in {Answer(p), [Sent EXCEPT !.pc = "failed", !.error = "lost"]} :
        loads' = [loads EXCEPT ![p][n] = load]
  BY DEF Reads
<1>4. load \in Asks /\ (page.own > 0 => load.error = "lost" \/ load.version >= page.own)
  <2>1. CASE load = [Sent EXCEPT !.pc = "failed", !.error = "lost"]
    BY <2>1 DEF Sent, Asks, Failures
  <2>2. CASE load = ListRoute /\ page.at = "list"
    <3>1. page.own = 0
      BY <2>2 DEF PagesHold, PagesTypeOK
    <3>2. list \in SUBSET Rows
      BY DEF StarterHolds, StarterTypeOK
    <3>3. load \in Asks
      BY <2>2, <3>2 DEF ListRoute, Sent, Asks, Failures
    <3> QED
      BY <3>1, <3>3
  <2>3. CASE load = GetRoute(page.id) /\ page.at = "request"
    <3>1. resource[page.id].version \in Nat
      BY <2>3 DEF PagesHold, StarterHolds, StarterTypeOK, States
    <3>2. load \in Asks /\ load.version = resource[page.id].version
      BY <2>3, <3>1 DEF GetRoute, Sent, Asks, Failures
    <3> QED
      BY <3>2 DEF PagesHold, PagesTypeOK
  <2> QED
    BY <1>3, <2>1, <2>2, <2>3 DEF Answer, ActivityRoute, PanesOf
<1>5. /\ loads'[p] = [loads[p] EXCEPT ![n] = load]
      /\ \A d \in Panes \ {p} : loads'[d] = loads[d]
  BY <1>1, <1>2, <1>3
<1>6. /\ loads'[p] \in Seq(Asks) /\ Len(loads'[p]) = Len(loads[p]) /\ loads'[p] # <<>>
      /\ DOMAIN loads'[p] = DOMAIN loads[p] /\ loads'[p][n] = load
      /\ \A m \in DOMAIN loads[p] \ {n} : loads'[p][m] = loads[p][m]
  BY <1>2, <1>3, <1>4, <1>5
<1>7. loads' \in [Panes -> Seq(Asks)]
  BY <1>2, <1>3, <1>5, <1>6
<1>8. PagesTypeOK'
  BY <1>1, <1>7 DEF PagesHold, PagesTypeOK
<1>9. ASSUME page.own > 0, NEW d \in {"detail", "timeline"}
      PROVE  Follows(d)'
  <2>1. CASE d = p
    BY <1>1, <1>4, <1>6, <1>9, <2>1 DEF PagesHold, Follows
  <2>2. CASE d # p
    BY <1>1, <1>5, <1>9, <2>2 DEF PagesHold, Follows, Panes
  <2> QED
    BY <2>1, <2>2
<1>10. \A c \in dialog'.runs : Awaited(c)'
  BY <1>1 DEF PagesHold, Awaited, vars
<1> QED
  BY <1>1, <1>8, <1>9, <1>10 DEF PagesHold, vars, store

LEMMA ShownKeeps ==
  ASSUME PagesHold, StarterHolds, NEW p \in PanesOf(page.at), Shown(p), UNCHANGED vars
  PROVE  PagesHold'
<1>1. UNCHANGED <<page, dialog>> /\ p \in Panes
  BY DEF Shown, PanesOf, Panes
<1>2. /\ loads[p] \in Seq(Asks) /\ loads \in [Panes -> Seq(Asks)]
      /\ panes[p] \in Shows /\ panes \in [Panes -> Shows]
  BY <1>1 DEF PagesHold, PagesTypeOK
<1>3. PICK n \in DOMAIN loads[p] :
        /\ loads[p][n].pc \in {"answered", "failed"}
        /\ panes' = [panes EXCEPT ![p] =
                      [@ EXCEPT !.loading = FALSE, !.error = loads[p][n].error,
                                !.version = loads[p][n].version, !.rows = loads[p][n].rows]]
        /\ loads' = [loads EXCEPT ![p] = RemoveAt(@, n)]
  BY DEF Shown
<1>4. loads[p][n] \in Asks
  BY <1>2
<1>5. SUFFICES ASSUME NEW shown,
                      shown = [panes[p] EXCEPT !.loading = FALSE, !.error = loads[p][n].error,
                                 !.version = loads[p][n].version, !.rows = loads[p][n].rows]
               PROVE  PagesHold'
  OBVIOUS
<1>6. /\ shown \in Shows /\ shown.crossed = panes[p].crossed
      /\ shown.version = loads[p][n].version /\ shown.error = loads[p][n].error
  BY <1>2, <1>4, <1>5 DEF Shows, Asks
<1>7. /\ panes' = [panes EXCEPT ![p] = shown] /\ panes'[p] = shown
      /\ \A d \in Panes \ {p} : panes'[d] = panes[d] /\ loads'[d] = loads[d]
      /\ loads'[p] = RemoveAt(loads[p], n)
  BY <1>1, <1>2, <1>3, <1>5
<1>8. loads'[p] \in Seq(Asks) /\ (Len(loads[p]) <= 1 => loads'[p] = <<>>)
  BY <1>2, <1>7, RemovesOne
<1>9. panes' \in [Panes -> Shows] /\ loads' \in [Panes -> Seq(Asks)]
  BY <1>1, <1>2, <1>3, <1>6, <1>7, <1>8
<1>10. PagesTypeOK'
  BY <1>1, <1>9 DEF PagesHold, PagesTypeOK
<1>11. ASSUME page.own > 0, NEW d \in {"detail", "timeline"}
       PROVE  Follows(d)'
  <2>1. CASE d = p
    <3>1. SUFFICES ASSUME ~panes[p].crossed
                   PROVE  Follows(p)'
      BY <1>6, <1>7, <2>1 DEF Follows
    <3>2. Follows(p)
      BY <1>11, <2>1 DEF PagesHold
    <3>3. Len(loads[p]) <= 1
      BY <3>1, <3>2 DEF Follows
    <3>4. loads[p][n].version >= page.own \/ loads[p][n].error = "lost"
      BY <1>3, <3>1, <3>2 DEF Follows
    <3>5. loads'[p] = <<>>
      BY <1>8, <3>3
    <3> QED
      BY <1>1, <1>6, <1>7, <3>4, <3>5 DEF Follows
  <2>2. CASE d # p
    BY <1>1, <1>7, <1>11, <2>2 DEF PagesHold, Follows, Panes
  <2> QED
    BY <2>1, <2>2
<1>12. \A c \in dialog'.runs : Awaited(c)'
  BY <1>1 DEF PagesHold, Awaited, vars
<1> QED
  BY <1>1, <1>10, <1>11, <1>12 DEF PagesHold, vars, store
-----------------------------------------------------------------------------
\* What a step of a call does to the calls, and to the versions: it goes on with what
\* it was asked, and versions only grow.
MovesOn(c) ==
  /\ call[c].pc \in {"lookup", "load", "commit"}
  /\ \E next : /\ Goto(c, next) /\ next.pc # "idle" /\ next.request = call[c].request
               /\ ~Creates(call[c].request) => next.id = call[c].id

LEMMA ReturnMovesOn ==
  ASSUME NEW c \in Calls, call[c] \in Invoked, call[c].pc \in {"lookup", "load", "commit"},
         NEW result, Return(c, result)
  PROVE  MovesOn(c)
<1>1. PICK next : /\ Goto(c, next)
                  /\ next = [call[c] EXCEPT !.pc = "returned", !.result = result, !.now = 0,
                                            !.previous = Absent]
  BY DEF Return
<1>2. next.pc = "returned" /\ next.request = call[c].request /\ next.id = call[c].id
  BY <1>1 DEF Invoked
<1> QED
  BY <1>1, <1>2 DEF MovesOn

LEMMA ExecuteMovesOn ==
  ASSUME StarterHolds, NEW c \in Calls, Execute(c)
  PROVE  MovesOn(c)
<1>1. call[c].pc \in {"lookup", "load", "commit"}
  BY DEF Execute, Lookup, Load, CommitLocally, Transact, At
<1>2. call[c] \in Invoked
  BY <1>1 DEF StarterHolds, StarterTypeOK, IdleCall
<1>3. CASE \E result : Return(c, result)
  BY <1>1, <1>2, <1>3, ReturnMovesOn
<1>4. ASSUME NEW next, Goto(c, next), next.pc # "idle", next.request = call[c].request,
             ~Creates(call[c].request) => next.id = call[c].id
      PROVE  MovesOn(c)
  BY <1>1, <1>4 DEF MovesOn
<1>5. CASE Lookup(c)
  <2>1. CASE Goto(c, [call[c] EXCEPT !.pc = "load"])
    <3>1. /\ [call[c] EXCEPT !.pc = "load"].pc = "load"
          /\ [call[c] EXCEPT !.pc = "load"].request = call[c].request
          /\ [call[c] EXCEPT !.pc = "load"].id = call[c].id
      BY <1>2 DEF Invoked
    <3> QED
      BY <1>4, <2>1, <3>1
  <2> QED
    BY <1>3, <1>5, <2>1 DEF Lookup, Unavailable
<1>6. CASE Load(c)
  <2> DEFINE planned == [call[c] EXCEPT !.pc = "commit"]
  <2>1. planned.pc = "commit" /\ planned.request = call[c].request /\ planned.id = call[c].id
    BY <1>2 DEF Invoked
  <2>2. CASE Goto(c, planned)
    BY <1>4, <2>1, <2>2
  <2>3. ASSUME NEW r, Creates(call[c].request), Goto(c, [planned EXCEPT !.id = r])
        PROVE  MovesOn(c)
    <3>1. /\ [planned EXCEPT !.id = r].pc = "commit"
          /\ [planned EXCEPT !.id = r].request = call[c].request
      BY <1>2 DEF Invoked
    <3> QED
      BY <1>4, <2>3, <3>1
  <2>4. ASSUME NEW previous, Goto(c, [planned EXCEPT !.previous = previous])
        PROVE  MovesOn(c)
    <3>1. /\ [planned EXCEPT !.previous = previous].pc = "commit"
          /\ [planned EXCEPT !.previous = previous].request = call[c].request
          /\ [planned EXCEPT !.previous = previous].id = call[c].id
      BY <1>2 DEF Invoked
    <3> QED
      BY <1>4, <2>4, <3>1
  <2> QED
    BY <1>3, <1>6, <2>2, <2>3, <2>4 DEF Load, Unavailable
<1>7. CASE CommitLocally(c) \/ Transact(c)
  BY <1>3, <1>7 DEF CommitLocally, Transact
<1> QED
  BY <1>5, <1>6, <1>7 DEF Execute

LEMMA VersionsGrow ==
  ASSUME StarterHolds, NEW c \in Calls, Execute(c), NEW r \in Ids
  PROVE  resource'[r].version >= resource[r].version
<1>1. resource[r].version \in Nat
  BY DEF StarterHolds, StarterTypeOK, States
<1>2. CASE UNCHANGED resource
  BY <1>1, <1>2
<1>3. CASE Write(c) /\ Holds(call[c])
  <2>1. resource' = [resource EXCEPT ![call[c].id] = NextState(call[c])]
    BY <1>3 DEF Write
  <2>2. NextState(call[c]).version = resource[call[c].id].version + 1
    BY <1>3 DEF NextState, Holds
  <2> QED
    BY <1>1, <2>1, <2>2 DEF StarterHolds, StarterTypeOK
<1> QED
  BY <1>2, <1>3 DEF Execute, Lookup, Load, Unavailable, CommitLocally, Transact, Unwritten, store

\* The page is left alone while calls go on beside it.
LEMMA CallsBeside ==
  ASSUME PagesHold, StarterHolds, UNCHANGED pageVars, NEW c \in Calls,
         Execute(c) \/ \E q \in Requests : Begin(c, q)
  PROVE  PagesHold'
<1>1. UNCHANGED <<page, panes, loads, dialog>>
  BY DEF pageVars
<1>2. page.at = "request" => resource'[page.id].version >= resource[page.id].version
  <2>1. CASE Execute(c)
    BY <2>1, VersionsGrow DEF PagesHold
  <2>2. CASE UNCHANGED resource /\ page.at = "request"
    BY <2>2 DEF PagesHold, StarterHolds, StarterTypeOK, States
  <2> QED
    BY <2>1, <2>2 DEF Begin, store
<1>3. page.own > 0 => page.own <= resource'[page.id].version
  <2>1. page.own \in Nat
    BY DEF PagesHold, PagesTypeOK
  <2>2. page.own > 0 => /\ resource[page.id].version \in Nat
                        /\ page.own <= resource[page.id].version
    BY DEF PagesHold, StarterHolds, StarterTypeOK, States
  <2>3. page.own > 0 => resource'[page.id].version \in Nat
    <3>1. StarterHolds'
      BY ExecuteKeeps, BeginKeeps
    <3> QED
      BY <1>1, <3>1 DEF PagesHold, StarterHolds, StarterTypeOK, States
  <2> QED
    BY <1>2, <2>1, <2>2, <2>3 DEF PagesHold
<1>4. ASSUME NEW d \in dialog.runs PROVE Awaited(d)'
  <2>1. Awaited(d) /\ d \in Calls
    BY DEF PagesHold, PagesTypeOK
  <2>2. CASE Execute(c) /\ d = c
    <3>1. MovesOn(c)
      BY <2>2, ExecuteMovesOn
    <3>2. PICK next : /\ Goto(c, next) /\ next.pc # "idle" /\ next.request = call[c].request
                      /\ ~Creates(call[c].request) => next.id = call[c].id
      BY <3>1 DEF MovesOn
    <3>3. call'[c] = next /\ call[c].pc # "returned"
      BY <3>1, <3>2 DEF MovesOn, Goto, StarterHolds, StarterTypeOK
    <3> QED
      BY <1>1, <2>1, <2>2, <3>2, <3>3 DEF Awaited
  <2>3. CASE call'[d] = call[d]
    BY <1>1, <2>1, <2>3 DEF Awaited
  <2>4. CASE d # c
    <3>1. \E next : Goto(c, next)
      BY ExecuteMovesOn DEF Begin, MovesOn
    <3>2. call'[d] = call[d]
      BY <2>1, <2>4, <3>1 DEF Goto, StarterHolds, StarterTypeOK
    <3> QED
      BY <2>3, <3>2
  <2>5. CASE d = c /\ ~Execute(c)
    BY <2>1, <2>5 DEF Begin, At, Awaited
  <2> QED
    BY <2>2, <2>4, <2>5
<1>5. \A p : Follows(p) => Follows(p)'
  BY <1>1 DEF Follows
<1> QED
  BY <1>1, <1>3, <1>4, <1>5 DEF PagesHold, PagesTypeOK

LEMMA PagesAlone ==
  ASSUME PagesHold, UNCHANGED pageVars, UNCHANGED <<store, call>>
  PROVE  PagesHold'
  BY DEF PagesHold, PagesTypeOK, Awaited, Follows, pageVars, store

\* The dialog opens, closes, or waits for one call less.
LEMMA DialogKeeps ==
  ASSUME PagesHold, UNCHANGED vars, UNCHANGED <<page, panes, loads>>,
         dialog' \in [open : BOOLEAN, runs : SUBSET Calls, error : BOOLEAN],
         dialog'.runs \subseteq dialog.runs
  PROVE  PagesHold'
  BY DEF PagesHold, PagesTypeOK, Awaited, Follows, vars, store

LEMMA SubmitKeeps ==
  ASSUME PagesHold, StarterHolds, NEW c \in Calls, NEW q \in Requests, Submit(c, q)
  PROVE  PagesHold'
<1>1. /\ UNCHANGED <<page, panes, loads>> /\ Begin(c, q)
      /\ dialog' = [dialog EXCEPT !.runs = @ \cup {c}, !.error = FALSE]
      /\ q.key = NoKey /\ (page.at = "request" => ~Creates(q) /\ q.id = page.id)
  BY DEF Submit, Submittable
<1>2. UNCHANGED <<resource>>
  BY <1>1 DEF Begin, store
<1>3. /\ dialog' \in [open : BOOLEAN, runs : SUBSET Calls, error : BOOLEAN]
      /\ dialog'.runs = dialog.runs \cup {c}
  BY <1>1 DEF PagesHold, PagesTypeOK
<1>4. PICK next : /\ Goto(c, next)
                  /\ \/ next = Asking(Unasked, "returned", Refusal(q))
                     \/ \E pc \in {"load", "lookup"} : next = Asking(q, pc, "none")
  BY <1>1 DEF Begin
<1>5. /\ next.pc # "idle" /\ next.request.key = NoKey
      /\ next.pc # "returned" \/ next.result.ok => next.id = q.id /\ next.request = q
  BY <1>1, <1>4 DEF Asking, Unasked, Error
<1>6. call'[c] = next /\ \A d \in Calls : d # c => call'[d] = call[d]
  BY <1>4 DEF Goto, StarterHolds, StarterTypeOK
<1>7. Awaited(c)'
  BY <1>1, <1>5, <1>6 DEF Awaited
<1>8. \A d \in dialog.runs : d # c => Awaited(d)'
  BY <1>1, <1>6 DEF PagesHold, PagesTypeOK, Awaited
<1>9. \A p : Follows(p) => Follows(p)'
  BY <1>1 DEF Follows
<1> QED
  BY <1>1, <1>2, <1>3, <1>7, <1>8, <1>9 DEF PagesHold, PagesTypeOK

\* An awaited call that succeeded has left its event.
LEMMA AwaitedIsWritten ==
  ASSUME PagesHold, StarterHolds, NEW c \in dialog.runs, At(c, "returned"), call[c].result.ok
  PROVE  /\ call[c].result.id \in Ids /\ resource[call[c].result.id].version >= 1
         /\ page.at = "request" =>
              LET version == (CHOOSE e \in outbox : e.call = c).event[2]
              IN version \in Nat /\ version <= resource[page.id].version
<1>1. c \in Calls /\ Awaited(c)
  BY DEF PagesHold, PagesTypeOK
<1>2. PICK e \in outbox : e.call = c /\ e.event[1] = call[c].id /\ call[c].result.id = call[c].id
  BY <1>1 DEF At, StarterHolds, CallsHold, Told, Awaited
<1>3. e.event[1] \in Ids /\ e.event[2] \in Nat /\ e.event[2] \in 1 .. resource[e.event[1]].version
  BY DEF StarterHolds, StarterTypeOK, EventsHold, Committed
<1>4. resource[e.event[1]].version \in Nat
  BY <1>3 DEF StarterHolds, StarterTypeOK, States
<1>5. (CHOOSE f \in outbox : f.call = c) = e
  BY <1>2 DEF StarterHolds, EventsHold
<1>6. page.at = "request" => call[c].id = page.id
  BY <1>1 DEF Awaited
<1>7. e.event[2] >= 1 /\ e.event[2] <= resource[e.event[1]].version
  BY <1>3, <1>4
<1>8. resource[e.event[1]].version >= 1
  BY <1>3, <1>4, <1>7
<1>9. call[c].result.id \in Ids /\ resource[call[c].result.id].version >= 1
  BY <1>2, <1>3, <1>8
<1>10. page.at = "request" => e.event[2] \in Nat /\ e.event[2] <= resource[page.id].version
  BY <1>2, <1>3, <1>6, <1>7
<1> QED
  BY <1>5, <1>9, <1>10

LEMMA CompletedKeeps ==
  ASSUME PagesHold, StarterHolds, NEW c \in dialog.runs, At(c, "returned"), Completed(c),
         UNCHANGED vars
  PROVE  PagesHold'
<1> DEFINE version == (CHOOSE e \in outbox : e.call = c).event[2]
           own == IF version > page.own THEN version ELSE page.own
<1>1. /\ page.at = "request" /\ call[c].result.ok /\ Reload
      /\ page' = [page EXCEPT !.own = own]
      /\ dialog' = [dialog EXCEPT !.runs = @ \ {c}, !.open = FALSE]
  BY DEF Completed
<1>2. version \in Nat /\ version <= resource[page.id].version
  BY <1>1, AwaitedIsWritten
<1>3. /\ page.own \in Nat /\ page.id \in Ids
      /\ page.own > 0 => page.own <= resource[page.id].version
  BY <1>1 DEF PagesHold, PagesTypeOK
<1>4. resource[page.id].version \in Nat
  BY <1>3 DEF StarterHolds, StarterTypeOK, States
<1>5. own \in Nat /\ own <= resource[page.id].version
  BY <1>2, <1>3, <1>4
<1> HIDE DEF own
<1>6. /\ page' \in [at : {"none", "list", "new", "request"}, id : Ids \cup {NoId}, own : Nat]
      /\ page'.at = "request" /\ page'.id = page.id /\ page'.own = own
  BY <1>1, <1>5 DEF PagesHold, PagesTypeOK
<1>7. /\ dialog' \in [open : BOOLEAN, runs : SUBSET Calls, error : BOOLEAN]
      /\ dialog'.runs \subseteq dialog.runs
  BY <1>1 DEF PagesHold, PagesTypeOK
<1>8. Sent \in Asks /\ Sent.pc = "sent"
  BY DEF Sent, Asks, Failures
<1>9. loads' \in [Panes -> Seq(Asks)]
  <2>1. ASSUME NEW p \in Panes PROVE Append(loads[p], Sent) \in Seq(Asks)
    <3>1. loads[p] \in Seq(Asks)
      BY DEF PagesHold, PagesTypeOK
    <3> HIDE DEF version
    <3>2. ASSUME NEW a \in Asks, NEW q \in Seq(Asks) PROVE Append(q, a) \in Seq(Asks)
      OBVIOUS
    <3> QED
      BY <1>8, <3>1, <3>2
  <2>2. loads' = [p \in Panes |-> IF Reloaded(p) THEN Append(loads[p], Sent) ELSE loads[p]]
    BY <1>1 DEF Reload
  <2>3. loads \in [Panes -> Seq(Asks)]
    BY DEF PagesHold, PagesTypeOK
  <2> QED
    BY <2>1, <2>2, <2>3
<1>10. panes' \in [Panes -> Shows]
  <2>1. ASSUME NEW p \in Panes, NEW crossed \in BOOLEAN
        PROVE  [panes[p] EXCEPT !.loading = TRUE, !.error = "none", !.crossed = crossed] \in Shows
    BY DEF PagesHold, PagesTypeOK, Shows, Failures
  <2>2. \A p \in Panes : (panes[p].crossed \/ loads[p] # <<>>) \in BOOLEAN
    OBVIOUS
  <2> QED
    BY <1>1, <2>1, <2>2 DEF Reload, PagesHold, PagesTypeOK
<1>11. ASSUME NEW p \in {"detail", "timeline"} PROVE Follows(p)'
  <2>1. /\ p \in Panes /\ loads[p] \in Seq(Asks) /\ panes[p] \in Shows
        /\ loads'[p] = Append(loads[p], Sent)
        /\ panes'[p] = [panes[p] EXCEPT !.loading = TRUE, !.error = "none",
                                        !.crossed = @ \/ loads[p] # <<>>]
    BY <1>1 DEF Reload, Reloaded, Panes, PagesHold, PagesTypeOK
  <2>2. panes'[p].crossed = (panes[p].crossed \/ loads[p] # <<>>)
    BY <2>1 DEF Shows
  <2>3. CASE loads[p] # <<>>
    BY <2>2, <2>3 DEF Follows
  <2>4. CASE loads[p] = <<>>
    <3>1. loads'[p] = <<Sent>>
      BY <2>1, <2>4
    <3>2. Len(<<Sent>>) = 1 /\ <<Sent>> # <<>> /\ \A n \in DOMAIN <<Sent>> : <<Sent>>[n] = Sent
      OBVIOUS
    <3>3. Len(loads'[p]) <= 1 /\ loads'[p] # <<>> /\ \A n \in DOMAIN loads'[p] : loads'[p][n].pc = "sent"
      BY <1>8, <3>1, <3>2
    <3> QED
      BY <3>3 DEF Follows
  <2> QED
    BY <2>3, <2>4
<1>12. \A d \in dialog'.runs : Awaited(d)'
  BY <1>1, <1>6, <1>7 DEF PagesHold, Awaited, vars
<1> QED
  BY <1>3, <1>5, <1>6, <1>7, <1>9, <1>10, <1>11, <1>12 DEF PagesHold, PagesTypeOK, vars, store

LEMMA BrowseKeeps ==
  ASSUME PagesHold, StarterHolds, Browse, UNCHANGED vars
  PROVE  PagesHold'
<1>1. CASE Back \/ New
  BY <1>1, VisitKeeps DEF Back, New
<1>2. ASSUME NEW row \in panes["list"].rows, Select(row) PROVE PagesHold'
  <2>1. row.id \in Ids
    BY DEF PagesHold, PagesTypeOK, Shows, Rows, Panes
  <2> QED
    BY <1>2, <2>1, VisitKeeps DEF Select
<1>3. CASE OpenDialog \/ CloseDialog
  BY <1>3, DialogKeeps DEF OpenDialog, CloseDialog, PagesHold, PagesTypeOK
<1>4. ASSUME NEW p \in PanesOf(page.at), Reads(p) \/ Shown(p) PROVE PagesHold'
  BY <1>4, ReadsKeep, ShownKeeps
<1>5. ASSUME NEW c \in Calls, Replied(c) PROVE PagesHold'
  <2>1. c \in dialog.runs /\ At(c, "returned")
    BY <1>5 DEF Replied
  <2>2. CASE Created(c)
    BY <2>1, <2>2, AwaitedIsWritten, VisitKeeps DEF Created
  <2>3. CASE Refused(c)
    BY <2>3, DialogKeeps DEF Refused, PagesHold, PagesTypeOK
  <2> QED
    BY <1>5, <2>1, <2>2, <2>3, CompletedKeeps DEF Replied
<1> QED
  BY <1>1, <1>2, <1>3, <1>4, <1>5 DEF Browse

LEMMA PagesNextKeeps ==
  ASSUME PagesHold, StarterHolds, [PagesNext]_<<vars, pageVars>>
  PROVE  PagesHold' /\ StarterHolds'
<1>1. CASE UNCHANGED <<vars, pageVars>>
  <2>1. UNCHANGED vars /\ UNCHANGED pageVars /\ UNCHANGED <<store, call>>
    BY <1>1 DEF vars, store
  <2> QED
    BY <2>1, PagesAlone, StarterNextKeeps
<1>2. ASSUME NEW c \in Calls, UNCHANGED pageVars,
             Execute(c) \/ \E q \in Requests : Begin(c, q)
      PROVE  PagesHold' /\ StarterHolds'
  BY <1>2, CallsBeside, ExecuteKeeps, BeginKeeps
<1>3. CASE Next /\ UNCHANGED pageVars
  <2>1. StarterHolds'
    BY <1>3, StarterNextKeeps
  <2>2. CASE UNCHANGED <<store, call>>
    BY <1>3, <2>1, <2>2, PagesAlone
  <2> QED
    BY <1>2, <1>3, <2>1, <2>2 DEF Next, Tick, Scan, Remind, AwayFromReminder, Deliver, Receive,
       Serve, Check, Work, Mark, Duplicate, AwayFromWorker
<1>4. CASE Browse /\ UNCHANGED vars
  BY <1>4, BrowseKeeps, StarterNextKeeps
<1>5. ASSUME NEW c \in Calls, NEW q \in Requests, Submit(c, q)
      PROVE  PagesHold' /\ StarterHolds'
  BY <1>5, SubmitKeeps, BeginKeeps DEF Submit
<1> QED
  BY <1>1, <1>2, <1>3, <1>4, <1>5 DEF PagesNext

LEMMA HeldIsShown ==
  ASSUME PagesHold
  PROVE  OwnCommandIsShown
<1> SUFFICES ASSUME page.own > 0, NEW p \in PanesOf(page.at), loads[p] = <<>>, ~panes[p].crossed
             PROVE  panes[p].version >= page.own \/ panes[p].error = "lost"
  BY DEF OwnCommandIsShown
<1>1. p \in {"detail", "timeline"}
  BY DEF PagesHold, PanesOf
<1> QED
  BY <1>1 DEF PagesHold, Follows

\* Commands, keys, the list and the pages, of any number of people (executeCommand and
\* the units of work; the starter's Angular pages).
THEOREM StarterIsSound == PagesSpec => [](StarterHolds /\ PagesHold)
<1>1. PagesInit => StarterHolds /\ PagesHold
  BY StarterInitHolds, PagesInitHold DEF PagesInit
<1>2. StarterHolds /\ PagesHold /\ [PagesNext]_<<vars, pageVars>> => (StarterHolds /\ PagesHold)'
  BY PagesNextKeeps
<1> QED
  BY <1>1, <1>2, PTL DEF PagesSpec

\* Whatever races, and whatever answers are lost, what a caller of executeCommand is told
\* fits what was done: one event behind each success, one for all the successes of a key,
\* about the request that is named, and no effect behind a refusal.  The one exception is
\* the name told to the loser of two creations with one key in memory (Overtaken).
THEOREM AnswersKeepFitting == PagesSpec => []AnswersFitEffects
<1>1. StarterHolds => AnswersFitEffects
  BY HeldIsTrue
<1> QED
  BY <1>1, StarterIsSound, PTL

\* The list projection shows every stored request in its present state, and in memory
\* nothing else of it (workRequestListProjection and both unit of works' writes).
THEOREM ListStaysCurrent == PagesSpec => []ListIsCurrent
<1>1. StarterHolds => ListIsCurrent
  BY DEF StarterHolds
<1> QED
  BY <1>1, StarterIsSound, PTL

\* A component whose loads did not cross shows what the page's last own command left, or
\* something later, unless an answer was lost (reload after a completed dialog).
THEOREM OwnCommandsAreShown == PagesSpec => []OwnCommandIsShown
<1>1. PagesHold => OwnCommandIsShown
  BY HeldIsShown
<1> QED
  BY <1>1, StarterIsSound, PTL
=============================================================================
