----------------------------- MODULE ContentLists -----------------------------
(***************************************************************************)
(* The paged lists of the browser: contents, calendar, reviews, operations *)
(* and the activity of an item.  Each reads the rows of a projection in    *)
(* their order, a page at a time.  One answer of the service may take      *)
(* several pages of the store, and editors move the rows between any two;  *)
(* requests fail, are given up and are heard all the same.                 *)
(***************************************************************************)
EXTENDS ContentPage

CONSTANTS
  Candidates,       \* items that may have a row
  MaxTime,          \* bound on the clock and on the times that order the rows
  MaxEdits,         \* bound on what editors do to the rows
  Queries,          \* what the lists may be asked for
  Budget,           \* rows that one answer may evaluate
  Authors, Editors  \* the identities a person may take

\* What a list may be asked for.
QueryInput(q) ==
  /\ q.page \in {"content", "calendar", "reviews", "operations", "activity"}
  /\ q.of \subseteq Candidates /\ q.limit \in Nat \ {0}
  /\ q.page = "calendar" => q.from < q.before

Identities == Authors \cup Editors
Marks == Nat \X Candidates
Cutoffs == Nat \cup {None}
Cursors == [scope : (Queries \cup {None}) \X (Identities \cup {None}) \X Cutoffs,
            cutoff : Cutoffs, inner : Marks]

ASSUME ListAssumption ==
  /\ Candidates \subseteq Nat /\ IsFiniteSet(Candidates)
  /\ None \notin Marks /\ None \notin [at : Nat, edit : Nat] /\ None \notin Cursors
  /\ {MaxTime, MaxEdits} \subseteq Nat /\ Budget \in Nat \ {0}
  /\ \A q \in Queries : QueryInput(q)

VARIABLES
  clock,
  rows,         \* the row of each item: None, or its time and the edit it is of
  edits,
  screen,       \* the list on the screen
  calls         \* the page's requests: its last one, one it gave up, and the poll's

store == <<clock, rows, edits>>
listVars == <<store, screen, calls>>
-----------------------------------------------------------------------------
\* A listing is sorted by the rows' times, then by item.
Before(x, y) == x[1] < y[1] \/ (x[1] = y[1] /\ x[2] < y[2])
Position(c) == <<rows[c].at, c>>

NoCall == [pc |-> "none", query |-> None, who |-> None, append |-> FALSE, cursor |-> None,
           cutoff |-> None, inner |-> None, evaluated |-> 0, items |-> <<>>, steady |-> {}]
Failure == [NoCall EXCEPT !.pc = "failed"]
NoCalls == [load |-> NoCall, late |-> NoCall, poll |-> NoCall]

\* `bookmark` is the cursor in the address; `steady` holds, for the properties, the
\* rows that were to be listed when this listing began and have not moved since.
Blank(query, bookmark, who) ==
  [query |-> query, bookmark |-> bookmark, who |-> who, items |-> <<>>, cursor |-> None,
   loading |-> FALSE, paged |-> FALSE, listed |-> FALSE, steady |-> {}]

\* Rows of an activity are added and stay.
Appends == screen.query.page = "activity"

\* A page over any rows.
ListInit ==
  /\ clock = 0 /\ edits = 0
  /\ \E q \in Queries, who \in Identities : screen = Blank(q, None, who)
  /\ rows \in [Candidates -> {None} \cup [at : 1 .. MaxTime, edit : {0}]]
  /\ \A c \in Candidates : rows[c] = None => Appends
  /\ calls = NoCalls
-----------------------------------------------------------------------------
\* The bounds of the key range: only the calendar asks for one.
InRange(q, row) == q.page = "calendar" => row.at >= q.from /\ row.at < q.before

\* What each list filters out of the pages of its projection.
ContentRow(q, c) == c \in q.of
ReviewRow(q, c, row, cutoff) == c \in q.of /\ (q.overdue => row.at <= cutoff)
OperationRow(q, c) == c \in q.of

Matches(q, c, row, cutoff) ==
  CASE q.page = "content" -> ContentRow(q, c)
    [] q.page = "reviews" -> ReviewRow(q, c, row, cutoff)
    [] q.page = "operations" -> OperationRow(q, c)
    [] OTHER -> TRUE

Timed(q) == q.page = "reviews" /\ q.overdue

\* requireFixture: the operations are for editors.
MayRead(q, who) == q.page = "operations" => who \in Editors

\* The scope that a cursor carries and the service compares; an activity's cursor is
\* the store's own, whoever asks.
ActivityScope(q) == <<q, None, None>>
Scope(q, who, cutoff) ==
  IF q.page = "activity" THEN ActivityScope(q) ELSE <<q, who, cutoff>>
Cursor(q, who, cutoff, inner) == [scope |-> Scope(q, who, cutoff), cutoff |-> cutoff, inner |-> inner]
-----------------------------------------------------------------------------
Resumed(ask) == IF ask.cursor = None THEN None ELSE ask.cursor.inner

\* The request is read: a cursor of another list, filter or identity is refused.
Accept(slot) ==
  LET ask == calls[slot]
      q == ask.query
      cutoff == IF ask.cursor # None THEN ask.cursor.cutoff
                ELSE IF Timed(q) THEN clock ELSE None
      foreign == ask.cursor # None /\ ask.cursor.scope # Scope(q, ask.who, cutoff)
  IN
  /\ ask.pc = "sent"
  /\ calls' = [calls EXCEPT ![slot] =
       IF foreign \/ ~MayRead(q, ask.who) THEN Failure
       ELSE [@ EXCEPT !.pc = "paging", !.cutoff = cutoff,
                      !.inner = Resumed(ask),
                      !.steady = {c \in Candidates : /\ rows[c] # None
                                                     /\ InRange(q, rows[c])
                                                     /\ Matches(q, c, rows[c], cutoff)}]]
  /\ UNCHANGED <<store, screen>>

\* The rows of the range behind a key, and a first part of them in their order.
Behind(q, after) ==
  {c \in Candidates : rows[c] # None /\ InRange(q, rows[c])
                      /\ (after = None \/ Before(after, Position(c)))}
Sorted(set) ==
  {list \in [1 .. Cardinality(set) -> set] :
     \A m, n \in DOMAIN list : m < n => Before(Position(list[m]), Position(list[n]))}
Heads(set, most) ==
  {head \in SUBSET set :
     /\ Cardinality(head) <= most
     /\ set # {} => head # {}
     /\ \A x \in head, y \in set \ head : Before(Position(x), Position(y))}

\* A last page may come with a continuation or without: the table's reader returns one
\* with every full page, the memory's while rows remain.
Continued(head, behind) ==
  {Position(c) : c \in {x \in head : \A y \in head : ~Before(Position(x), Position(y))}}
  \cup (IF head = behind THEN {None} ELSE {})

\* Seeded fault: an answer that has used up its budget has no continuation.
Goes_Ends(ask, inner) ==
  IF ask.evaluated < Budget THEN inner ELSE None

\* An answer has a continuation as long as the store's last page had one.
Goes(ask, inner) == inner

\* Pages of the store until the answer is full or its budget used up, whatever
\* number of rows a page returned.
Page(slot) ==
  LET ask == calls[slot]
      q == ask.query
      left == Budget - ask.evaluated
      wanting == q.limit - Len(ask.items)
      most == IF wanting < left THEN wanting ELSE left
      behind == Behind(q, ask.inner)
  IN
  /\ ask.pc = "paging"
  /\ \E head \in Heads(behind, most) : \E inner \in Continued(head, behind) :
     \E found \in Sorted({c \in head : Matches(q, c, rows[c], ask.cutoff)}) :
       LET items == ask.items \o [n \in DOMAIN found |-> <<found[n], rows[found[n]]>>]
           read == [ask EXCEPT !.items = items, !.inner = inner, !.evaluated = @ + most]
       IN calls' = [calls EXCEPT ![slot] =
            IF inner # None /\ read.evaluated < Budget /\ Len(items) < q.limit THEN read
            ELSE [read EXCEPT !.pc = "answered", !.inner = Goes(read, inner)]]
  /\ UNCHANGED <<store, screen>>

\* Any request may fail, and the browser's checks may refuse its answer.
Fail(slot) ==
  /\ calls[slot].pc \in {"sent", "paging"}
  /\ calls' = [calls EXCEPT ![slot] = Failure]
  /\ UNCHANGED <<store, screen>>
-----------------------------------------------------------------------------
\* What was asked for is given up: aborted, unless its answer is on its way already.
GivenUp ==
  LET heard == {slot \in DOMAIN calls : calls[slot].pc = "answered"} IN
  IF heard = {} THEN {NoCall} ELSE {calls[slot] : slot \in heard}

Request(list, append) ==
  LET cursor == IF append /\ list.cursor # None THEN list.cursor ELSE list.bookmark
      sent == [NoCall EXCEPT !.pc = "sent", !.query = list.query, !.who = list.who,
                             !.append = append, !.cursor = cursor]
  IN
  /\ \E given \in GivenUp : calls' = [load |-> sent, late |-> given, poll |-> NoCall]
  /\ screen' = [(IF append THEN list ELSE Blank(list.query, list.bookmark, list.who))
                EXCEPT !.loading = TRUE, !.paged = append]

\* Nothing is asked for: the list is empty.
Clear(list) ==
  /\ screen' = Blank(list.query, list.bookmark, list.who)
  /\ \E given \in GivenUp : calls' = [NoCalls EXCEPT !.late = given]

LoadContent(list, append) == list.query.page = "content" /\ Request(list, append)
LoadCalendar(list, append) == list.query.page = "calendar" /\ Request(list, append)
LoadReviews(list, append) == list.query.page = "reviews" /\ Request(list, append)
LoadActivity(list, append) == list.query.page = "activity" /\ Request(list, append)

\* The operations page asks for an editor only.
LoadOperations(list, append) ==
  /\ list.query.page = "operations"
  /\ IF MayRead(list.query, list.who) THEN Request(list, append) ELSE Clear(list)

LoadList(list, append) ==
  \/ LoadContent(list, append) \/ LoadCalendar(list, append) \/ LoadReviews(list, append)
  \/ LoadOperations(list, append) \/ LoadActivity(list, append)
-----------------------------------------------------------------------------
\* An address may hold the cursor of the list on the screen.  Every list reads one
\* from its address; the bound is that only the calendar's is given one here.
Bookmarks == {None} \cup (IF screen.query.page = "calendar" THEN {screen.cursor} ELSE {})

\* A new address of the same page: other filters, another month, a bookmark.  The
\* content and the calendar fetch only what differs from the last address.
At(q, bookmark) == [screen EXCEPT !.query = q, !.bookmark = bookmark]
Differs(q, bookmark) == <<q, bookmark>> # <<screen.query, screen.bookmark>>

OpenContent(q, bookmark) == Differs(q, bookmark) /\ LoadContent(At(q, bookmark), FALSE)
OpenCalendar(q, bookmark) == Differs(q, bookmark) /\ LoadCalendar(At(q, bookmark), FALSE)
OpenReviews(q, bookmark) == LoadReviews(At(q, bookmark), FALSE)
OpenOperations(q, bookmark) == LoadOperations(At(q, bookmark), FALSE)

Open(q, bookmark) ==
  /\ q.page = screen.query.page
  /\ \/ OpenContent(q, bookmark) \/ OpenCalendar(q, bookmark)
     \/ OpenReviews(q, bookmark) \/ OpenOperations(q, bookmark)
  /\ UNCHANGED store

\* An address that does not parse empties the page.
OpenInvalid ==
  /\ screen.query.page # "activity"
  /\ Clear(screen)
  /\ UNCHANGED store

\* Another identity: the cursor of the address goes, and the list is asked for anew.
SwitchIdentity(who) ==
  /\ who # screen.who
  /\ LoadList([screen EXCEPT !.who = who, !.bookmark = None], FALSE)
  /\ UNCHANGED store

Reload ==
  /\ LoadList(screen, FALSE)
  /\ UNCHANGED store

More ==
  /\ ~screen.loading /\ screen.cursor # None
  /\ LoadList(screen, TRUE)
  /\ UNCHANGED store

\* While an operation is pending, the first page of a listing that was not continued
\* is asked for again and again.
Watch ==
  /\ screen.query.page = "operations" /\ screen.listed
  /\ ~screen.loading /\ ~screen.paged /\ calls.poll.pc = "none"
  /\ calls' = [calls EXCEPT !.poll = [NoCall EXCEPT !.pc = "sent", !.query = screen.query,
                                      !.who = screen.who, !.cursor = screen.bookmark]]
  /\ UNCHANGED <<store, screen>>
-----------------------------------------------------------------------------
\* Seeded fault: a request that was given up is heard like the others.
Heard_All(slot) == TRUE

\* The sequence number, and for the poll the signal too, name the last request.
Heard(slot) == slot # "late"

\* What a map makes of a list: each item once, in the place where it first came, as it
\* came last.
Firsts(list) == {n \in DOMAIN list : \A m \in 1 .. n - 1 : list[m][1] # list[n][1]}
LastOf(list, c) ==
  LET places == {n \in DOMAIN list : list[n][1] = c}
  IN list[CHOOSE n \in places : \A m \in places : m <= n]
Mapped(list) ==
  {[n \in DOMAIN place |-> LastOf(list, list[place[n]][1])] :
     place \in {f \in [1 .. Cardinality(Firsts(list)) -> Firsts(list)] :
                  \A m, n \in DOMAIN f : m < n => f[m] < f[n]}}

ShowPage(ask) ==
  \E items \in Mapped((IF ask.append THEN screen.items ELSE <<>>) \o ask.items) :
    screen' = [screen EXCEPT
      !.items = items,
      !.cursor = IF ask.inner = None THEN None
                 ELSE Cursor(ask.query, ask.who, ask.cutoff, ask.inner),
      !.loading = FALSE, !.listed = TRUE,
      !.steady = IF ask.append THEN screen.steady ELSE ask.steady]

ShowFailure(slot) ==
  screen' = [screen EXCEPT !.loading = IF slot = "poll" THEN @ ELSE FALSE]

Settle(slot) ==
  /\ calls[slot].pc \in {"answered", "failed"}
  /\ calls' = [calls EXCEPT ![slot] = NoCall]
  /\ IF Heard(slot)
     THEN IF calls[slot].pc = "answered" THEN ShowPage(calls[slot]) ELSE ShowFailure(slot)
     ELSE UNCHANGED screen
  /\ UNCHANGED store
-----------------------------------------------------------------------------
\* Time tells in one list only, that of the overdue reviews.
ListTick ==
  /\ Timed(screen.query) /\ clock < MaxTime
  /\ clock' = clock + 1
  /\ UNCHANGED <<rows, edits, screen, calls>>

\* An item gets a row, another one or none: no listing owes the former any more.
Edit(c, row) ==
  /\ edits < MaxEdits
  /\ edits' = edits + 1
  /\ rows' = [rows EXCEPT ![c] = row]
  /\ screen' = [screen EXCEPT !.steady = @ \ {c}]
  /\ calls' = [slot \in DOMAIN calls |-> [calls[slot] EXCEPT !.steady = @ \ {c}]]
  /\ UNCHANGED clock

PutRow(c) ==
  /\ Appends => rows[c] = None
  /\ \E at \in 1 .. MaxTime : Edit(c, [at |-> at, edit |-> edits + 1])
RemoveRow(c) == ~Appends /\ rows[c] # None /\ Edit(c, None)

Person ==
  \/ \E q \in Queries, bookmark \in Bookmarks : Open(q, bookmark)
  \/ \E who \in Identities : SwitchIdentity(who)
  \/ OpenInvalid \/ Reload \/ More

Service(slot) == Accept(slot) \/ Page(slot) \/ Fail(slot) \/ Settle(slot)

ListNext ==
  \/ Person \/ Watch
  \/ \E slot \in DOMAIN calls : Service(slot)
  \/ \E c \in Candidates : PutRow(c) \/ RemoveRow(c)
  \/ ListTick

ListSpec == ListInit /\ [][ListNext]_listVars
-----------------------------------------------------------------------------
\* What is on the screen is what the present address and identity ask for: no late
\* answer of another filter or identity is shown, and the page is continued by a
\* cursor that the service will accept.
ListedIsAsked ==
  /\ \A n \in DOMAIN screen.items :
       LET c == screen.items[n][1]
           row == screen.items[n][2]
       IN MayRead(screen.query, screen.who) /\ InRange(screen.query, row)
          /\ Matches(screen.query, c, row, clock)
  /\ screen.cursor # None =>
       screen.cursor.scope = Scope(screen.query, screen.who, screen.cursor.cutoff)

Listed ==
  /\ screen.listed /\ ~screen.loading /\ screen.cursor = None /\ screen.bookmark = None

\* A list read to its end shows every row that was there from its first page on and
\* did not move exactly once, as it is, and those rows in their order: neither the
\* pages of the store, the budget, the filter, the retries nor the moves of other
\* rows lose or repeat one.
ListIsComplete ==
  Listed =>
    /\ \A c \in screen.steady :
         \E n \in DOMAIN screen.items :
           /\ screen.items[n] = <<c, rows[c]>>
           /\ \A m \in DOMAIN screen.items : screen.items[m][1] = c => m = n
    /\ \A m, n \in DOMAIN screen.items :
         m < n /\ {screen.items[m][1], screen.items[n][1]} \subseteq screen.steady
           => Before(Position(screen.items[m][1]), Position(screen.items[n][1]))
=============================================================================
