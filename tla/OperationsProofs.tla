--------------------------- MODULE OperationsProofs ---------------------------
(***************************************************************************)
(* The work that nobody waits for an answer of: a pass of a scheduled job  *)
(* skips nobody, for any number of invocations that overlap, of candidates,*)
(* of edits of the listing and of faults; and the local lab is never       *)
(* orphaned nor takes what is not its own, for any number of sessions, of  *)
(* runtimes, of owners and of failures.                                    *)
(***************************************************************************)
EXTENDS JobPass, LocalLab, FiniteSetTheorems, WellFoundedInduction, TLAPS

(* The jobs.  What a checkpoint passes is what somebody has seen.           *)

Progresses == [cutoff : Nat \cup {None}, cursor : (Nat \X Nat) \cup {None}]
Pcs == {"idle", "query", "process", "dispatch", "save", "write", "finish", "release"}
Ticks == [pc : Pcs, progress : Progresses, next : Progresses,
          page : (Candidates \X Listed) \cup {None}, examined : BOOLEAN]

JobTypeOK ==
  /\ clock \in Nat /\ edits \in Nat
  /\ rows \in [Candidates -> Listed \cup {None}]
  /\ job \in [token : Invocations \cup {None}, progress : Progresses]
  /\ lapsed \in BOOLEAN
  /\ tick \in [Invocations -> Ticks]
  /\ owed \subseteq Candidates

\* The row of a candidate is still ahead of a checkpoint.
Reaches(progress, c, row) ==
  /\ progress.cutoff # None /\ row # None /\ row.at <= progress.cutoff
  /\ progress.cursor = None \/ Before(progress.cursor, <<row.at, c>>)

\* A checkpoint on record would have passed nothing that is owed; the first one of a
\* pass stands before the whole listing.
Safe(progress) ==
  /\ \A c \in owed : Reaches(progress, c, rows[c])
  /\ job.progress.cutoff = None /\ progress.cutoff # None => progress.cursor = None

\* Who works on a page under the lease does so from the checkpoint on record.
Resumes(i) ==
  tick[i].pc \in {"query", "process", "dispatch"} /\ Fenced(i) =>
    tick[i].progress = job.progress /\ job.progress.cutoff # None

\* The checkpoint behind the page passes nothing but the candidate on it, which is
\* owed only in the row that was read.
Chosen(i) ==
  tick[i].pc \in {"process", "dispatch"} /\ Fenced(i) =>
    /\ \A c \in owed \ {tick[i].page[1]} : Reaches(tick[i].next, c, rows[c])
    /\ tick[i].page[1] \in owed => Current(i)

\* A checkpoint that may yet reach the record is safe there.  One whose lease is lost
\* before the put was prepared may have passed a candidate, and is never put.
Saves(i) ==
  (\/ tick[i].pc \in {"save", "finish"} /\ Usable(i)
   \/ tick[i].pc \in {"write", "release"} /\ Fenced(i)) => Safe(tick[i].progress)

Keeps(i) == Resumes(i) /\ Chosen(i) /\ Saves(i)

PassInv ==
  /\ JobTypeOK
  /\ \A c \in owed : Reaches(job.progress, c, rows[c])
  /\ \A i \in Invocations : Keeps(i)
-----------------------------------------------------------------------------
\* The order of the listing.
LEMMA BeforeOrders ==
  ASSUME NEW x \in Nat \X Nat, NEW y \in Nat \X Nat, NEW z \in Nat \X Nat
  PROVE  /\ ~Before(x, x)
         /\ Before(x, y) /\ Before(y, z) => Before(x, z)
         /\ x[2] # y[2] => Before(x, y) \/ Before(y, x)
<1>1. /\ x[1] \in Nat /\ x[2] \in Nat /\ y[1] \in Nat /\ y[2] \in Nat
      /\ z[1] \in Nat /\ z[2] \in Nat
  OBVIOUS
<1> QED
  BY <1>1 DEF Before

LEMMA PositionsAreTyped ==
  ASSUME JobTypeOK, NEW c \in Candidates, rows[c] # None
  PROVE  /\ rows[c] \in Listed /\ rows[c].at \in Nat
         /\ Position(c) \in Nat \X Nat /\ Position(c)[2] = c
<1>1. rows[c] \in Listed
  BY DEF JobTypeOK
<1>2. rows[c].at \in Nat /\ c \in Nat
  BY <1>1, JobAssumption DEF Listed
<1> QED
  BY <1>1, <1>2 DEF Position

\* What is left of the listing has a first candidate: one that no other precedes, for
\* those that precede a candidate are fewer with each step forwards.
LEMMA FirstLeads ==
  ASSUME JobTypeOK, NEW S \in SUBSET Candidates, S # {}, \A c \in S : rows[c] # None
  PROVE  /\ First(S) \in S
         /\ \A other \in S \ {First(S)} : Before(Position(First(S)), Position(other))
<1> DEFINE Lower(c) == {d \in S : Before(Position(d), Position(c))}
           U == {Lower(c) : c \in S}
<1>1. \A c \in S : Position(c) \in Nat \X Nat /\ Position(c)[2] = c
  BY PositionsAreTyped
<1>2. IsWellFoundedOn(StrictSubsetOrdering(S), SUBSET S)
  <2>1. IsFiniteSet(S)
    BY JobAssumption, FS_Subset
  <2>2. FiniteSubsetsOf(S) = SUBSET S
    BY <2>1, FS_FiniteSubsetsOfFinite
  <2> QED
    BY <2>2, FS_StrictSubsetOrderingWellFounded
<1>3. U \subseteq SUBSET S /\ U # {}
  OBVIOUS
<1>4. PICK u \in U : \A v \in U : <<v, u>> \notin StrictSubsetOrdering(S)
  <2> HIDE DEF U
  <2> QED
    BY <1>2, <1>3, WFMin
<1>5. PICK c \in S : u = Lower(c)
  BY <1>4
<1>6. ASSUME NEW d \in S, d # c PROVE Before(Position(c), Position(d))
  <2>1. CASE Before(Position(d), Position(c))
    <3>1. Lower(d) \subseteq Lower(c)
      BY <1>1, <2>1, BeforeOrders
    <3>2. d \in Lower(c) /\ d \notin Lower(d)
      BY <1>1, <2>1, BeforeOrders
    <3>3. <<Lower(d), Lower(c)>> \in StrictSubsetOrdering(S)
      BY <3>1, <3>2 DEF StrictSubsetOrdering
    <3> QED
      BY <1>4, <1>5, <3>3
  <2>2. Position(c) \in Nat \X Nat /\ Position(d) \in Nat \X Nat /\ Position(c)[2] # Position(d)[2]
    BY <1>1, <1>6
  <2> QED
    BY <2>1, <2>2, BeforeOrders
<1> QED
  BY <1>6 DEF First
-----------------------------------------------------------------------------
LEMMA InitHolds == Init => PassInv
<1> SUFFICES ASSUME Init PROVE PassInv
  OBVIOUS
<1>1. Start \in Progresses
  BY DEF Start, Progresses
<1>2. Idle \in Ticks /\ Idle.pc = "idle"
  BY <1>1 DEF Idle, Ticks, Pcs
<1>3. JobTypeOK
  BY <1>1, <1>2 DEF Init, JobTypeOK
<1> QED
  BY <1>2, <1>3 DEF Init, PassInv, Keeps, Resumes, Chosen, Saves

\* A step that neither touches the record nor the invocation i, takes rows at most out
\* of what is owed, and gives back no lease, keeps what i relies on.
LEMMA Undisturbed ==
  ASSUME PassInv, NEW i \in Invocations, tick'[i] = tick[i], job' = job,
         lapsed' \in BOOLEAN, lapsed => lapsed',
         owed' \subseteq owed, \A c \in owed' : rows'[c] = rows[c]
  PROVE  Keeps(i)'
<1>1. Keeps(i)
  BY DEF PassInv
<1>2. Resumes(i)'
  BY <1>1 DEF Keeps, Resumes, Fenced
<1>3. Chosen(i)'
  BY <1>1 DEF Keeps, Chosen, Fenced, Current
<1>4. Saves(i)'
  BY <1>1 DEF Keeps, Saves, Fenced, Usable, Safe
<1> QED
  BY <1>2, <1>3, <1>4 DEF Keeps

\* A step of i alone.
LEMMA Stepped ==
  ASSUME PassInv, NEW i \in Invocations, NEW next \in Ticks,
         tick' = [tick EXCEPT ![i] = next],
         UNCHANGED <<clock, edits, job, lapsed>>,
         rows' \in [Candidates -> Listed \cup {None}],
         owed' \subseteq owed, \A c \in owed' : rows'[c] = rows[c],
         Keeps(i)'
  PROVE  PassInv'
<1>1. JobTypeOK'
  BY DEF PassInv, JobTypeOK
<1>2. \A c \in owed' : Reaches(job'.progress, c, rows'[c])
  BY DEF PassInv
<1>3. \A j \in Invocations : Keeps(j)'
  <2> SUFFICES ASSUME NEW j \in Invocations, j # i PROVE Keeps(j)'
    OBVIOUS
  <2>1. tick'[j] = tick[j]
    BY DEF PassInv, JobTypeOK
  <2> QED
    BY <2>1, Undisturbed DEF PassInv, JobTypeOK
<1> QED
  BY <1>1, <1>2, <1>3 DEF PassInv

\* A step of i that writes the record: no other invocation holds it any more.
LEMMA Recorded ==
  ASSUME PassInv, NEW i \in Invocations, NEW next \in Ticks,
         tick' = [tick EXCEPT ![i] = next],
         UNCHANGED <<clock, edits, rows>>,
         job' \in [token : {i, None}, progress : Progresses],
         lapsed' \in BOOLEAN, owed' \subseteq Candidates,
         \A c \in owed' : Reaches(job'.progress, c, rows[c]),
         Keeps(i)'
  PROVE  PassInv'
<1>1. JobTypeOK'
  BY DEF PassInv, JobTypeOK
<1>2. \A j \in Invocations : Keeps(j)'
  <2> SUFFICES ASSUME NEW j \in Invocations, j # i PROVE Keeps(j)'
    OBVIOUS
  <2>1. ~Fenced(j)' /\ ~Usable(j)'
    BY JobAssumption DEF Fenced, Usable
  <2> QED
    BY <2>1 DEF Keeps, Resumes, Chosen, Saves
<1> QED
  BY <1>1, <1>2 DEF PassInv
-----------------------------------------------------------------------------
\* Editors and the clock.
LEMMA EditorsKeep ==
  ASSUME PassInv, Tick \/ \E c \in Candidates : Put(c) \/ Delist(c)
  PROVE  PassInv'
<1>1. UNCHANGED <<job, lapsed, tick>>
  BY DEF Tick, Put, Delist
<1>2. owed' \subseteq owed /\ \A d \in owed' : rows'[d] = rows[d]
  BY DEF PassInv, JobTypeOK, Tick, Put, Delist
<1>3. rows' \in [Candidates -> Listed \cup {None}]
  <2>1. ASSUME NEW c \in Candidates, Put(c)
        PROVE  rows' \in [Candidates -> Listed \cup {None}]
    <3>1. PICK at \in clock + 1 .. MaxTime : rows' = [rows EXCEPT ![c] = [at |-> at, edit |-> edits]]
      BY <2>1 DEF Put
    <3>2. clock \in Nat /\ edits \in Nat /\ MaxTime \in Nat
      BY JobAssumption DEF PassInv, JobTypeOK
    <3>3. [at |-> at, edit |-> edits] \in Listed
      BY <3>2 DEF Listed
    <3> QED
      BY <3>1, <3>3 DEF PassInv, JobTypeOK
  <2> QED
    BY <2>1 DEF PassInv, JobTypeOK, Tick, Delist
<1>4. clock' \in Nat /\ edits' \in Nat
  BY DEF PassInv, JobTypeOK, Tick, Put, Delist
<1>5. JobTypeOK'
  BY <1>1, <1>2, <1>3, <1>4 DEF PassInv, JobTypeOK
<1>6. \A d \in owed' : Reaches(job'.progress, d, rows'[d])
  BY <1>1, <1>2 DEF PassInv
<1>7. \A i \in Invocations : Keeps(i)'
  BY <1>1, <1>2, Undisturbed DEF PassInv, JobTypeOK
<1> QED
  BY <1>5, <1>6, <1>7 DEF PassInv

LEMMA LapsesKeep ==
  ASSUME PassInv, LapseAbandoned \/ LapseStalled
  PROVE  PassInv'
<1>1. UNCHANGED <<clock, rows, edits, job, tick, owed>> /\ lapsed' = TRUE
  BY DEF LapseAbandoned, LapseStalled
<1>2. JobTypeOK'
  BY <1>1 DEF PassInv, JobTypeOK
<1>3. \A i \in Invocations : Keeps(i)'
  BY <1>1, Undisturbed DEF PassInv
<1> QED
  BY <1>1, <1>2, <1>3 DEF PassInv

LEMMA CrashKeeps ==
  ASSUME PassInv, NEW i \in Invocations, Crash(i)
  PROVE  PassInv'
<1>1. Idle \in Ticks /\ Idle.pc = "idle"
  BY DEF Idle, Ticks, Pcs, Start, Progresses
<1>2. UNCHANGED <<clock, edits, job, lapsed, rows, owed>> /\ tick' = [tick EXCEPT ![i] = Idle]
  BY DEF Crash
<1>3. tick'[i] = Idle
  BY <1>2 DEF PassInv, JobTypeOK
<1>4. Keeps(i)'
  BY <1>1, <1>3 DEF Keeps, Resumes, Chosen, Saves
<1> QED
  BY <1>1, <1>2, <1>4, Stepped DEF PassInv, JobTypeOK

\* The lease is taken from the checkpoint on record, which is safe.
LEMMA AcquireKeeps ==
  ASSUME PassInv, NEW i \in Invocations, Acquire(i)
  PROVE  PassInv'
<1> DEFINE fresh == [Idle EXCEPT !.pc = "save", !.progress = [cutoff |-> clock, cursor |-> None]]
           resumed == [Idle EXCEPT !.pc = "query", !.progress = job.progress]
           next == IF job.progress.cutoff = None THEN fresh ELSE resumed
<1>1. job.progress \in Progresses /\ clock \in Nat
  BY DEF PassInv, JobTypeOK
<1>2. next \in Ticks
  BY <1>1 DEF Idle, Ticks, Pcs, Start, Progresses
<1>3. /\ UNCHANGED <<clock, rows, edits, owed>> /\ lapsed' = FALSE
      /\ job' = [job EXCEPT !.token = i]
      /\ tick' = [tick EXCEPT ![i] = next]
  BY DEF Acquire
<1>4. job' \in [token : {i, None}, progress : Progresses] /\ job'.progress = job.progress
  BY <1>1, <1>3 DEF PassInv, JobTypeOK
<1>5. tick'[i] = next
  BY <1>3 DEF PassInv, JobTypeOK
<1>6. CASE job.progress.cutoff = None
  <2>1. tick'[i].pc = "save" /\ tick'[i].progress = [cutoff |-> clock, cursor |-> None]
    BY <1>5, <1>6 DEF Idle
  <2>2. owed = {}
    BY <1>6 DEF PassInv, Reaches
  <2>3. Keeps(i)'
    BY <1>3, <2>1, <2>2 DEF Keeps, Resumes, Chosen, Saves, Safe
  <2> QED
    BY <1>2, <1>3, <1>4, <2>3, Recorded DEF PassInv, JobTypeOK
<1>7. CASE job.progress.cutoff # None
  <2>1. tick'[i].pc = "query" /\ tick'[i].progress = job.progress
    BY <1>5, <1>7 DEF Idle
  <2>2. Keeps(i)'
    BY <1>4, <1>7, <2>1 DEF Keeps, Resumes, Chosen, Saves
  <2> QED
    BY <1>2, <1>3, <1>4, <2>2, Recorded DEF PassInv, JobTypeOK
<1> QED
  BY <1>6, <1>7
-----------------------------------------------------------------------------
\* Only the counter of the invocation moves.
LEMMA GotoSteps ==
  ASSUME PassInv, NEW i \in Invocations, NEW pc \in Pcs, Goto(i, pc)
  PROVE  /\ [tick[i] EXCEPT !.pc = pc] \in Ticks
         /\ tick' = [tick EXCEPT ![i] = [tick[i] EXCEPT !.pc = pc]]
         /\ tick'[i] = [tick[i] EXCEPT !.pc = pc]
         /\ tick'[i].pc = pc /\ tick'[i].progress = tick[i].progress
         /\ tick'[i].next = tick[i].next /\ tick'[i].page = tick[i].page
<1>1. tick[i] \in Ticks /\ tick \in [Invocations -> Ticks]
  BY DEF PassInv, JobTypeOK
<1>2. tick' = [tick EXCEPT ![i] = [tick[i] EXCEPT !.pc = pc]]
  BY DEF Goto
<1>3. SUFFICES ASSUME NEW next, next = [tick[i] EXCEPT !.pc = pc]
               PROVE  /\ next \in Ticks /\ next.pc = pc /\ next.progress = tick[i].progress
                      /\ next.next = tick[i].next /\ next.page = tick[i].page
  BY <1>1, <1>2
<1> QED
  BY <1>1, <1>3 DEF Ticks

\* The page holds the first candidate ahead of the checkpoint, so what stays owed is
\* behind its cursor; without a cursor it was the last.
LEMMA QueryKeeps ==
  ASSUME PassInv, NEW i \in Invocations, Query(i)
  PROVE  PassInv'
<1> DEFINE progress == tick[i].progress
           ahead == Ahead(progress)
           c == First(ahead)
           behind == [progress EXCEPT !.cursor = Position(c)]
<1>1. /\ tick[i].pc = "query" /\ Usable(i) /\ Fenced(i)
      /\ UNCHANGED <<clock, rows, edits, job, lapsed, owed>>
  BY DEF Query, Usable, Fenced
<1>2. progress = job.progress /\ job.progress.cutoff # None /\ progress \in Progresses
  BY <1>1 DEF PassInv, JobTypeOK, Keeps, Resumes, Ticks
<1>3. owed \subseteq ahead
  BY <1>2 DEF PassInv, JobTypeOK, Reaches, Ahead, Due, Position
<1>4. tick[i] \in Ticks /\ tick \in [Invocations -> Ticks] /\ Start \in Progresses
  BY DEF PassInv, JobTypeOK, Start, Progresses
<1>5. CASE ahead = {} /\ tick' = [tick EXCEPT ![i].pc = "save", ![i].progress = Start]
  <2>1. SUFFICES ASSUME NEW next, next = [tick[i] EXCEPT !.pc = "save", !.progress = Start]
                 PROVE  PassInv'
    OBVIOUS
  <2>2. next \in Ticks /\ next.pc = "save" /\ next.progress = Start
    BY <1>4, <2>1 DEF Ticks, Pcs
  <2>3. tick' = [tick EXCEPT ![i] = next] /\ tick'[i] = next
    BY <1>4, <1>5, <2>1
  <2>4. owed' = {} /\ tick'[i].pc = "save" /\ tick'[i].progress.cutoff = None
    BY <1>1, <1>3, <1>5, <2>2, <2>3 DEF Start
  <2>5. Keeps(i)'
    BY <2>4 DEF Keeps, Resumes, Chosen, Saves, Safe
  <2> QED
    BY <1>1, <2>2, <2>3, <2>5, Stepped DEF PassInv, JobTypeOK
<1>6. ASSUME NEW after \in {behind} \cup (IF ahead = {c} THEN {Start} ELSE {}), ahead # {},
             tick' = [tick EXCEPT ![i].pc = "process", ![i].page = <<c, rows[c]>>,
                                  ![i].next = after]
      PROVE  PassInv'
  <2>1. ahead \in SUBSET Candidates /\ \A d \in ahead : rows[d] # None
    BY DEF Ahead, Due
  <2>2. c \in ahead /\ \A d \in ahead \ {c} : Before(Position(c), Position(d))
    BY <1>6, <2>1, FirstLeads DEF PassInv
  <2>3. rows[c] \in Listed /\ Position(c) \in Nat \X Nat /\ c \in Candidates
    BY <2>1, <2>2, PositionsAreTyped DEF PassInv
  <2>4. /\ behind \in Progresses /\ behind.cutoff = progress.cutoff /\ behind.cursor = Position(c)
    BY <1>2, <2>3 DEF Progresses
  <2>5. \A d \in owed \ {c} : Reaches(after, d, rows[d])
    <3>1. CASE after = behind
      BY <1>2, <1>3, <2>2, <2>4, <3>1 DEF Reaches, Ahead, Due, Position
    <3>2. CASE ahead = {c}
      BY <1>3, <3>2
    <3> QED
      BY <1>6, <3>1, <3>2
  <2>6. after \in Progresses
    BY <1>4, <1>6, <2>4
  <2> HIDE DEF c, ahead, behind
  <2>7. SUFFICES ASSUME NEW next, next = [tick[i] EXCEPT !.pc = "process", !.page = <<c, rows[c]>>,
                                                         !.next = after]
                 PROVE  PassInv'
    OBVIOUS
  <2>8. <<c, rows[c]>> \in Candidates \X Listed
    BY <2>3
  <2>9. /\ next \in Ticks /\ next.pc = "process" /\ next.progress = progress
        /\ next.next = after /\ next.page = <<c, rows[c]>>
    BY <1>4, <2>6, <2>7, <2>8 DEF Ticks, Pcs
  <2>10. tick' = [tick EXCEPT ![i] = next] /\ tick'[i] = next
    BY <1>4, <1>6, <2>7
  <2>11. tick'[i].page[1] = c /\ tick'[i].page[2] = rows[c]
    BY <2>9, <2>10
  <2>12. Keeps(i)'
    BY <1>1, <1>2, <2>5, <2>9, <2>10, <2>11 DEF Keeps, Resumes, Chosen, Saves, Current
  <2> QED
    BY <1>1, <2>9, <2>10, <2>12, Stepped DEF PassInv, JobTypeOK
<1> QED
  BY <1>5, <1>6 DEF Query

\* An invocation that gives up a page has the checkpoint on record, or no lease.
LEMMA YieldKeeps ==
  ASSUME PassInv, NEW i \in Invocations, Yield(i)
  PROVE  PassInv'
<1>1. /\ UNCHANGED <<clock, rows, edits, job, lapsed, owed>> /\ Goto(i, "finish")
      /\ \/ tick[i].pc \in {"query", "process"}
         \/ ~Usable(i)
  BY DEF Yield
<1>2. /\ [tick[i] EXCEPT !.pc = "finish"] \in Ticks
      /\ tick' = [tick EXCEPT ![i] = [tick[i] EXCEPT !.pc = "finish"]]
      /\ tick'[i].pc = "finish" /\ tick'[i].progress = tick[i].progress
  BY <1>1, GotoSteps DEF Pcs
<1>3. Usable(i) => tick[i].progress = job.progress
  BY <1>1 DEF PassInv, Keeps, Resumes, Usable, Fenced
<1>4. Keeps(i)'
  BY <1>1, <1>2, <1>3 DEF PassInv, Keeps, Resumes, Chosen, Saves, Safe, Usable
<1> QED
  BY <1>1, <1>2, <1>4, Stepped DEF PassInv, JobTypeOK

\* Past a page: what the page's candidate was owed is done, or the lease is lost.
LEMMA AdvancedKeeps ==
  ASSUME PassInv, NEW i \in Invocations, Advanced(i),
         tick[i].pc \in {"process", "dispatch"},
         UNCHANGED <<clock, edits, job, lapsed>>,
         rows' \in [Candidates -> Listed \cup {None}],
         owed' \subseteq owed, \A c \in owed' : rows'[c] = rows[c],
         Usable(i) => tick[i].page[1] \notin owed'
  PROVE  PassInv'
<1>1. tick[i] \in Ticks /\ tick \in [Invocations -> Ticks] /\ Start \in Progresses
  BY DEF PassInv, JobTypeOK, Start, Progresses
<1>2. SUFFICES ASSUME NEW next,
                      next = [tick[i] EXCEPT !.pc = "save", !.progress = tick[i].next,
                                             !.next = Start, !.page = None, !.examined = TRUE]
               PROVE  PassInv'
  OBVIOUS
<1>3. next \in Ticks /\ next.pc = "save" /\ next.progress = tick[i].next
  BY <1>1, <1>2 DEF Ticks, Pcs
<1>4. tick' = [tick EXCEPT ![i] = next] /\ tick'[i] = next
  BY <1>1, <1>2 DEF Advanced
<1>5. Usable(i) => /\ \A c \in owed' : Reaches(tick[i].next, c, rows'[c])
                   /\ job.progress.cutoff # None
  BY DEF PassInv, Keeps, Resumes, Chosen, Usable, Fenced
<1>6. Keeps(i)'
  BY <1>3, <1>4, <1>5 DEF Keeps, Resumes, Chosen, Saves, Safe, Usable
<1> QED
  BY <1>3, <1>4, <1>6, Stepped

LEMMA ProcessKeeps ==
  ASSUME PassInv, NEW i \in Invocations, Process(i)
  PROVE  PassInv'
<1>1. UNCHANGED <<clock, rows, edits, job, lapsed, owed>> /\ tick[i].pc = "process"
  BY DEF Process
<1>2. Usable(i) /\ ~Current(i) => tick[i].page[1] \notin owed
  BY <1>1 DEF PassInv, Keeps, Chosen, Usable, Fenced
<1>3. CASE Advanced(i) /\ ~(Usable(i) /\ Current(i))
  BY <1>1, <1>2, <1>3, AdvancedKeeps DEF PassInv, JobTypeOK
<1>4. CASE Goto(i, "dispatch")
  <2>1. /\ [tick[i] EXCEPT !.pc = "dispatch"] \in Ticks
        /\ tick' = [tick EXCEPT ![i] = [tick[i] EXCEPT !.pc = "dispatch"]]
        /\ tick'[i].pc = "dispatch" /\ tick'[i].progress = tick[i].progress
        /\ tick'[i].next = tick[i].next /\ tick'[i].page = tick[i].page
    BY <1>4, GotoSteps DEF Pcs
  <2>2. Keeps(i)'
    BY <1>1, <2>1 DEF PassInv, Keeps, Resumes, Chosen, Saves, Fenced, Current
  <2> QED
    BY <1>1, <2>1, <2>2, Stepped DEF PassInv, JobTypeOK
<1> QED
  BY <1>3, <1>4 DEF Process, Failed

LEMMA DispatchKeeps ==
  ASSUME PassInv, NEW i \in Invocations, Dispatch(i)
  PROVE  PassInv'
<1>1. UNCHANGED <<clock, edits, job, lapsed>> /\ tick[i].pc = "dispatch"
  BY DEF Dispatch
<1>2. Usable(i) /\ ~Current(i) => tick[i].page[1] \notin owed
  BY <1>1 DEF PassInv, Keeps, Chosen, Usable, Fenced
<1>3. Advanced(i)
  BY DEF Dispatch, Failed
<1>4. /\ owed' \subseteq owed /\ \A c \in owed' : rows'[c] = rows[c]
      /\ Usable(i) => tick[i].page[1] \notin owed'
  BY <1>2 DEF PassInv, JobTypeOK, Dispatch
<1>5. rows' \in [Candidates -> Listed \cup {None}]
  BY DEF PassInv, JobTypeOK, Dispatch
<1> QED
  BY <1>1, <1>3, <1>4, <1>5, AdvancedKeeps
-----------------------------------------------------------------------------
LEMMA SaveKeeps ==
  ASSUME PassInv, NEW i \in Invocations, Save(i)
  PROVE  PassInv'
<1>1. /\ UNCHANGED <<clock, rows, edits, job, lapsed, owed>> /\ Goto(i, "write")
      /\ tick[i].pc = "save" /\ Usable(i)
  BY DEF Save
<1>2. /\ [tick[i] EXCEPT !.pc = "write"] \in Ticks
      /\ tick' = [tick EXCEPT ![i] = [tick[i] EXCEPT !.pc = "write"]]
      /\ tick'[i].pc = "write" /\ tick'[i].progress = tick[i].progress
  BY <1>1, GotoSteps DEF Pcs
<1>3. Keeps(i)'
  BY <1>1, <1>2 DEF PassInv, Keeps, Resumes, Chosen, Saves, Safe
<1> QED
  BY <1>1, <1>2, <1>3, Stepped DEF PassInv, JobTypeOK

\* A safe checkpoint that reaches the record stays safe there: a pass that begins owes
\* what its cutoff reaches, and one that ends owes nothing.
LEMMA CheckpointIsSafe ==
  ASSUME PassInv, NEW progress \in Progresses, NEW token, Safe(progress),
         Checkpoint(progress, token)
  PROVE  /\ job'.progress = progress /\ job'.token = token
         /\ owed' \subseteq Candidates
         /\ \A c \in owed' : Reaches(progress, c, rows[c])
         /\ PassEnds => owed = {}
<1>1. job'.progress = progress /\ job'.token = token
  BY DEF Checkpoint
<1>2. CASE job.progress.cutoff = None /\ progress.cutoff # None
  <2>1. owed' = Due(progress.cutoff) /\ progress.cursor = None
    BY <1>2 DEF Checkpoint, Safe
  <2> QED
    BY <1>1, <1>2, <2>1 DEF Due, Reaches, PassEnds
<1>3. CASE ~(job.progress.cutoff = None /\ progress.cutoff # None)
  <2>1. owed' = owed
    BY <1>3 DEF Checkpoint
  <2> QED
    BY <1>1, <2>1 DEF Safe, Reaches, PassEnds, PassInv, JobTypeOK
<1> QED
  BY <1>2, <1>3

LEMMA WriteKeeps ==
  ASSUME PassInv, NEW i \in Invocations, Write(i)
  PROVE  PassInv' /\ (PassEnds => owed = {})
<1> DEFINE progress == tick[i].progress
<1>1. UNCHANGED <<clock, rows, edits, lapsed>> /\ tick[i].pc = "write"
  BY DEF Write
<1>2. progress \in Progresses
  BY DEF PassInv, JobTypeOK, Ticks
<1>3. PICK pc \in {"finish", "query"} :
        /\ Goto(i, pc)
        /\ \/ /\ Fenced(i) /\ Checkpoint(progress, i)
              /\ pc = "query" => progress.cutoff # None
           \/ UNCHANGED <<job, owed>> /\ pc = "finish" /\ (~Fenced(i) \/ Fault)
  BY DEF Write, AfterWrite
<1>4. /\ [tick[i] EXCEPT !.pc = pc] \in Ticks
      /\ tick' = [tick EXCEPT ![i] = [tick[i] EXCEPT !.pc = pc]]
      /\ tick'[i].pc = pc /\ tick'[i].progress = progress
  BY <1>3, GotoSteps DEF Pcs
<1>5. Fenced(i) => Safe(progress)
  BY <1>1 DEF PassInv, Keeps, Saves
<1>6. CASE Fenced(i) /\ Checkpoint(progress, i) /\ (pc = "query" => progress.cutoff # None)
  <2>1. /\ job'.progress = progress /\ job'.token = i /\ owed' \subseteq Candidates
        /\ \A c \in owed' : Reaches(progress, c, rows[c])
        /\ PassEnds => owed = {}
    BY <1>2, <1>5, <1>6, CheckpointIsSafe
  <2>2. job' \in [token : {i, None}, progress : Progresses]
    BY <1>2, <1>6 DEF Checkpoint
  <2>3. Keeps(i)'
    BY <1>1, <1>3, <1>4, <1>6, <2>1 DEF Keeps, Resumes, Chosen, Saves, Safe
  <2> QED
    BY <1>1, <1>4, <2>1, <2>2, <2>3, Recorded DEF PassInv, JobTypeOK
<1>7. CASE UNCHANGED <<job, owed>> /\ pc = "finish"
  <2>1. Keeps(i)'
    BY <1>1, <1>4, <1>5, <1>7 DEF Keeps, Resumes, Chosen, Saves, Safe, Usable, Fenced
  <2>2. PassInv'
    BY <1>1, <1>4, <1>7, <2>1, Stepped DEF PassInv, JobTypeOK
  <2> QED
    BY <1>7, <2>2 DEF PassEnds
<1> QED
  BY <1>3, <1>6, <1>7

LEMMA FinishKeeps ==
  ASSUME PassInv, NEW i \in Invocations, Finish(i)
  PROVE  PassInv'
<1>1. UNCHANGED <<clock, rows, edits, job, lapsed, owed>> /\ tick[i].pc = "finish"
  BY DEF Finish
<1>2. CASE Usable(i) /\ Goto(i, "release")
  <2>1. /\ [tick[i] EXCEPT !.pc = "release"] \in Ticks
        /\ tick' = [tick EXCEPT ![i] = [tick[i] EXCEPT !.pc = "release"]]
        /\ tick'[i].pc = "release" /\ tick'[i].progress = tick[i].progress
    BY <1>2, GotoSteps DEF Pcs
  <2>2. Keeps(i)'
    BY <1>1, <1>2, <2>1 DEF PassInv, Keeps, Resumes, Chosen, Saves, Safe
  <2> QED
    BY <1>1, <2>1, <2>2, Stepped DEF PassInv, JobTypeOK
<1>3. CASE tick' = [tick EXCEPT ![i] = Idle]
  <2>1. Idle \in Ticks /\ Idle.pc = "idle"
    BY DEF Idle, Ticks, Pcs, Start, Progresses
  <2>2. tick'[i] = Idle
    BY <1>3 DEF PassInv, JobTypeOK
  <2>3. Keeps(i)'
    BY <2>1, <2>2 DEF Keeps, Resumes, Chosen, Saves
  <2> QED
    BY <1>1, <1>3, <2>1, <2>3, Stepped DEF PassInv, JobTypeOK
<1> QED
  BY <1>2, <1>3 DEF Finish

LEMMA ReleaseKeeps ==
  ASSUME PassInv, NEW i \in Invocations, Release(i)
  PROVE  PassInv' /\ (PassEnds => owed = {})
<1>1. /\ UNCHANGED <<clock, rows, edits>> /\ tick[i].pc = "release"
      /\ tick' = [tick EXCEPT ![i] = Idle]
  BY DEF Release
<1>2. Idle \in Ticks /\ Idle.pc = "idle"
  BY DEF Idle, Ticks, Pcs, Start, Progresses
<1>3. tick'[i] = Idle
  BY <1>1 DEF PassInv, JobTypeOK
<1>4. Keeps(i)'
  BY <1>2, <1>3 DEF Keeps, Resumes, Chosen, Saves
<1>5. CASE Fenced(i) /\ Checkpoint(tick[i].progress, None) /\ lapsed' = FALSE
  <2>1. tick[i].progress \in Progresses /\ Safe(tick[i].progress)
    BY <1>1, <1>5 DEF PassInv, JobTypeOK, Ticks, Keeps, Saves
  <2>2. /\ job'.progress = tick[i].progress /\ job'.token = None /\ owed' \subseteq Candidates
        /\ \A c \in owed' : Reaches(job'.progress, c, rows[c])
        /\ PassEnds => owed = {}
    BY <1>5, <2>1, CheckpointIsSafe
  <2>3. job' \in [token : {i, None}, progress : Progresses]
    BY <1>5, <2>1 DEF Checkpoint
  <2> QED
    BY <1>1, <1>2, <1>4, <1>5, <2>2, <2>3, Recorded
<1>6. CASE UNCHANGED <<job, owed, lapsed>>
  <2>1. PassInv'
    BY <1>1, <1>2, <1>4, <1>6, Stepped DEF PassInv, JobTypeOK
  <2> QED
    BY <1>6, <2>1 DEF PassEnds
<1> QED
  BY <1>5, <1>6 DEF Release
-----------------------------------------------------------------------------
LEMMA NextKeeps ==
  ASSUME PassInv, [Next]_vars
  PROVE  PassInv' /\ (PassEnds => owed = {})
<1>1. CASE UNCHANGED vars
  BY <1>1 DEF vars, PassInv, JobTypeOK, Keeps, Resumes, Chosen, Saves, Safe, Fenced, Usable,
              Current, PassEnds
<1>2. CASE \E c \in Candidates : Put(c) \/ Delist(c)
  BY <1>2, EditorsKeep DEF Put, Delist, PassEnds
<1>3. CASE LapseAbandoned \/ LapseStalled
  BY <1>3, LapsesKeep DEF LapseAbandoned, LapseStalled, PassEnds
<1>4. ASSUME NEW i \in Invocations, Acquire(i) \/ Crash(i)
      PROVE  PassInv' /\ ~PassEnds
  <2>1. job'.progress = job.progress
    BY <1>4 DEF Acquire, Crash, PassInv, JobTypeOK
  <2> QED
    BY <1>4, <2>1, AcquireKeeps, CrashKeeps DEF PassEnds
<1>5. ASSUME NEW i \in Invocations, Step(i)
      PROVE  PassInv' /\ (PassEnds => owed = {})
  <2>1. CASE Query(i)
    BY <2>1, QueryKeeps DEF Query, PassEnds
  <2>2. CASE Yield(i)
    BY <2>2, YieldKeeps DEF Yield, PassEnds
  <2>3. CASE Process(i)
    BY <2>3, ProcessKeeps DEF Process, PassEnds
  <2>4. CASE Dispatch(i)
    BY <2>4, DispatchKeeps DEF Dispatch, PassEnds
  <2>5. CASE Save(i)
    BY <2>5, SaveKeeps DEF Save, PassEnds
  <2>6. CASE Write(i)
    BY <2>6, WriteKeeps
  <2>7. CASE Finish(i)
    BY <2>7, FinishKeeps DEF Finish, PassEnds
  <2>8. CASE Release(i)
    BY <2>8, ReleaseKeeps
  <2> QED
    BY <1>5, <2>1, <2>2, <2>3, <2>4, <2>5, <2>6, <2>7, <2>8 DEF Step
<1>6. CASE Tick
  BY <1>6, EditorsKeep DEF Tick, PassEnds
<1> QED
  BY <1>1, <1>2, <1>3, <1>4, <1>5, <1>6 DEF Next

\* The record and every invocation agree on what is still ahead, whoever holds the
\* lease, loses it, dies or is late (job-store.ts, jobs.ts).
THEOREM CheckpointsAreSafe == Spec => []PassInv
<1>1. Init => PassInv
  BY InitHolds
<1>2. PassInv /\ [Next]_vars => PassInv'
  BY NextKeeps
<1> QED
  BY <1>1, <1>2, PTL DEF Spec

\* However invocations overlap, stall, die and put late, a pass ends only when every
\* row that was due at its cutoff, and is still there, was processed (jobs.ts, tick).
THEOREM PassesAreComplete == Spec => PassIsComplete
<1>1. PassInv /\ [Next]_vars => [PassEnds => owed = {}]_vars
  BY NextKeeps
<1> QED
  BY <1>1, CheckpointsAreSafe, PTL DEF Spec, PassIsComplete
-----------------------------------------------------------------------------
(* The lab.  Who holds the lock works alone, and what a session knows of    *)
(* the lab when it is at a step is what nobody but itself can change.       *)

Owners == 1 .. owners
Marks == {Foreign} \cup Owners
Operations == {"up", "provision", "reset", "verify", "prove", "down"}

\* The steps of a teardown, those that it shares with a reset, and those of a session
\* whose manifest may not be on disk yet.
CleanupSteps == {"stop", "stopping", "list", "removing", "rest"}
PastUnroute == {"down.stop", "down.container", "down.network", "down.final", "forget"}
TearDownSteps == {"down.begin", "down.unroute"} \cup PastUnroute
Unsaved == {"up.inspect", "up.save"}
Deleting == {"reset.unroute", "reset.save", "delete"}
Steps ==
  Unsaved \cup CleanupSteps \cup TearDownSteps \cup Deleting \cup
  {"closed", "up.network", "up.create", "up.start", "up.ready", "begin", "provision",
   "provision.unroute", "vacant", "provision.save", "create", "complete", "ready.save",
   "route", "mark", "reset", "verify", "prove", "owned", "emptied", "fresh.save"}
Locals ==
  [pc : Steps, op : Operations \cup {Nothing}, m : Manifests \cup {Nothing},
   persisted : BOOLEAN, todo : SUBSET (Kinds \cup Runtimes), down : BOOLEAN, again : BOOLEAN]

Containers == [state : {"none", "running", "exited", "removing"}, owner : Marks]

LabTypeOK ==
  /\ owners \in Nat
  /\ disk # Nothing => disk \in Manifests /\ disk.owner \in Owners
  /\ routing \in {Nothing} \cup Owners
  /\ network \in {Nothing} \cup Marks
  /\ emulator \in [state : {"none", "created", "running", "exited"}, owner : Marks]
  /\ emulator.state = "none" => emulator.owner = Foreign
  /\ emulator.state \in {"created", "running"} => emulator.owner \in Owners
  /\ runtime \in [Runtimes -> Containers]
  /\ \A r \in Runtimes : runtime[r].state = "none" => runtime[r].owner = Foreign
  /\ DOMAIN service = Kinds

\* A session is the one that the lock names.
OneSession ==
  /\ session \in [Sessions -> Locals]
  /\ \A s \in Sessions : session[s].pc = "closed" => session[s] = Closed
  /\ \A s \in Sessions : session[s].pc # "closed" => lock = s

\* What the session with the local state x may rely on.
Relies(x) ==
  /\ x.m \in Manifests /\ x.m.owner \in Owners /\ x.op \in Operations
  /\ IF x.persisted THEN OnDisk(x.m) ELSE disk = Nothing /\ x.op = "up" /\ x.pc \in Unsaved
  /\ x.pc = "begin" => x.op \notin {"up", "down"}
  /\ x.down => x.pc \in TearDownSteps \cup CleanupSteps
  /\ x.pc \in TearDownSteps => x.down
  /\ x.pc \in PastUnroute \/ (x.down /\ x.pc \in CleanupSteps) => routing = Nothing
  /\ x.pc = "removing" => \A r \in x.todo \cap Runtimes : runtime[r] # Stranger
  /\ x.pc \in Deleting =>
       /\ x.todo \subseteq Kinds
       /\ emulator.state = "running" =>
            \A k \in x.todo : service[k] \notin {"none"} \cup Strangers
  /\ x.pc \in {"provision.save", "create"} /\ emulator.state = "running" =>
       \A k \in Kinds : service[k] # "foreign"
  /\ x.pc = "forget" =>
       /\ emulator.owner = Foreign
       /\ network \in {Nothing, Foreign}
       /\ \A r \in Runtimes : runtime[r].owner = Foreign

LabInv ==
  /\ LabTypeOK /\ NothingIsOrphaned /\ OneSession
  /\ \A s \in Sessions : session[s].pc # "closed" => Relies(session[s])

\* No step of a session changes what a stranger made, but that a creation may take over
\* a service that a stranger has just made.
ServicesUntouched ==
  \A k \in Kinds : service[k] \in Strangers /\ emulator'.state = "running" =>
    \/ service'[k] = service[k]
    \/ /\ service[k] = "late" /\ k \in Upserted
       /\ \E s \in Sessions : session[s].pc = "create"

Untouched ==
  /\ emulator = Stranger => emulator' = emulator
  /\ network = Foreign => network' = network
  /\ \A r \in Runtimes : runtime[r] = Stranger => runtime'[r] = Stranger
  /\ ServicesUntouched
-----------------------------------------------------------------------------
\* A set of places has a first one.
LEMMA LeastIsThere ==
  ASSUME NEW n \in Nat, NEW T \in SUBSET (1 .. n), T # {}
  PROVE  Min(T) \in T
<1> DEFINE U == {1 .. i : i \in T}
<1>1. FiniteSubsetsOf(1 .. n) = SUBSET (1 .. n)
  <2>1. IsFiniteSet(1 .. n)
    BY FS_Interval
  <2> QED
    BY <2>1, FS_FiniteSubsetsOfFinite
<1>2. IsWellFoundedOn(StrictSubsetOrdering(1 .. n), SUBSET (1 .. n))
  BY <1>1, FS_StrictSubsetOrderingWellFounded
<1>3. U \subseteq SUBSET (1 .. n) /\ U # {}
  <2>1. \A i \in T : \A k \in 1 .. i : k \in 1 .. n
    OBVIOUS
  <2>2. U \subseteq SUBSET (1 .. n)
    BY <2>1
  <2>3. PICK i \in T : TRUE
    OBVIOUS
  <2>4. (1 .. i) \in U
    OBVIOUS
  <2> QED
    BY <2>2, <2>4
<1>4. PICK u \in U : \A v \in U : <<v, u>> \notin StrictSubsetOrdering(1 .. n)
  <2> HIDE DEF U
  <2> QED
    BY <1>2, <1>3, WFMin
<1>5. PICK i \in T : u = 1 .. i
  BY <1>4
<1>6. ASSUME NEW j \in T PROVE i <= j
  <2>1. (1 .. j) \in U /\ (1 .. j) \in SUBSET (1 .. n) /\ (1 .. i) \in SUBSET (1 .. n)
    OBVIOUS
  <2>2. ~((1 .. j) \subseteq (1 .. i) /\ (1 .. j) # (1 .. i))
    <3>1. <<1 .. j, 1 .. i>> \notin StrictSubsetOrdering(1 .. n)
      BY <1>4, <1>5, <2>1
    <3> QED
      BY <2>1, <3>1 DEF StrictSubsetOrdering
  <2>3. CASE j < i
    <3>1. (1 .. j) \subseteq (1 .. i) /\ i \in 1 .. i /\ i \notin 1 .. j
      BY <2>3
    <3> QED
      BY <2>2, <3>1
  <2> QED
    BY <2>3
<1> QED
  BY <1>6 DEF Min

\* What is deleted next is one of what is left.
LEMMA FirstIsLeft ==
  ASSUME NEW S \in SUBSET Kinds, S # {}
  PROVE  FirstOf(DeleteOrder, S) \in S
<1> DEFINE places == {i \in 1 .. 11 : DeleteOrder[i] \in S}
<1>1. Len(DeleteOrder) = 11
  BY DEF DeleteOrder
<1>2. places # {}
  <2>1. PICK k \in S : k \in {"bucket", "table", "bus", "queue", "role", "log", "function",
                              "rule", "mapping", "group", "schedule"}
    BY LabAssumption
  <2>2. \E i \in 1 .. 11 : DeleteOrder[i] = k
    BY <2>1 DEF DeleteOrder
  <2> QED
    BY <2>1, <2>2
<1>3. places \in SUBSET (1 .. 11)
  OBVIOUS
<1>4. Min(places) \in places
  <2> HIDE DEF places
  <2> QED
    BY <1>2, <1>3, LeastIsThere
<1> QED
  BY <1>1, <1>4 DEF FirstOf

\* A step of the session that holds the lock: who is not at work is not concerned.
LEMMA SessionSteps ==
  ASSUME LabInv, NEW s \in Sessions, session[s].pc # "closed",
         NEW next \in Locals, next.pc # "closed",
         session' = [session EXCEPT ![s] = next], lock' = lock,
         LabTypeOK', NothingIsOrphaned', Relies(next)'
  PROVE  LabInv'
<1>1. \A t \in Sessions : t # s => session[t].pc = "closed"
  BY DEF LabInv, OneSession
<1>2. \A t \in Sessions : session'[t] = IF t = s THEN next ELSE session[t]
  BY DEF LabInv, OneSession
<1>3. OneSession'
  BY <1>1, <1>2 DEF LabInv, OneSession
<1> QED
  BY <1>1, <1>2, <1>3 DEF LabInv

\* Most steps only look.
LEMMA Looks ==
  ASSUME LabInv, NEW s \in Sessions, session[s].pc # "closed",
         NEW next \in Locals, next.pc # "closed", Relies(next),
         session' = [session EXCEPT ![s] = next],
         UNCHANGED <<files, docker, service, owners>>
  PROVE  LabInv' /\ Untouched
<1>1. LabTypeOK' /\ NothingIsOrphaned' /\ Relies(next)'
  BY DEF LabInv, LabTypeOK, NothingIsOrphaned, Relies, OnDisk, Exists, Owners, Marks, Containers,
         files, docker
<1> QED
  BY <1>1, SessionSteps DEF Untouched, ServicesUntouched, files, docker

\* A session that ends.
LEMMA Closes ==
  ASSUME LabInv, NEW s \in Sessions, session[s].pc # "closed",
         session' = [session EXCEPT ![s] = Closed], LabTypeOK', NothingIsOrphaned'
  PROVE  LabInv'
<1>1. \A t \in Sessions : t # s => session[t].pc = "closed" /\ session[t] = Closed
  BY DEF LabInv, OneSession
<1>2. Closed \in Locals /\ Closed.pc = "closed"
  BY DEF Closed, Locals, Steps
<1>3. \A t \in Sessions : session'[t] = Closed
  BY <1>1 DEF LabInv, OneSession
<1>4. OneSession'
  BY <1>2, <1>3 DEF LabInv, OneSession
<1> QED
  BY <1>2, <1>3, <1>4 DEF LabInv

\* A session that goes to another step with what it knows.
LEMMA Moves ==
  ASSUME LabInv, NEW s \in Sessions, session[s].pc # "closed", NEW pc \in Steps
  PROVE  /\ [session[s] EXCEPT !.pc = pc] \in Locals
         /\ [session EXCEPT ![s].pc = pc] =
              [session EXCEPT ![s] = [session[s] EXCEPT !.pc = pc]]
         /\ \A next : next = [session[s] EXCEPT !.pc = pc] =>
              /\ next.pc = pc
              /\ next.op = session[s].op /\ next.m = session[s].m
              /\ next.persisted = session[s].persisted /\ next.down = session[s].down
              /\ next.todo = session[s].todo
<1>1. session[s] \in Locals
  BY DEF LabInv, OneSession
<1> QED
  BY <1>1 DEF Locals

\* A manifest that is brought up to date is still its lab's.
LEMMA Updated ==
  ASSUME NEW m \in Manifests,
         NEW status \in {"starting", "provisioning", "ready", "resetting"},
         NEW marked \in BOOLEAN
  PROVE  /\ [m EXCEPT !.status = status] \in Manifests
         /\ [m EXCEPT !.status = status].owner = m.owner
         /\ [m EXCEPT !.marked = marked] \in Manifests
         /\ [m EXCEPT !.marked = marked].owner = m.owner
         /\ [m EXCEPT !.status = status, !.marked = marked] \in Manifests
         /\ [m EXCEPT !.status = status, !.marked = marked].owner = m.owner
  BY DEF Manifests

\* What the checks of the steps tell.
LEMMA Checked ==
  ASSUME NEW s \in Sessions
  PROVE  LET x == session[s] IN
         /\ At(s, "up.network") => network \in {Nothing, x.m.owner}
         /\ At(s, "up.create") => (Exists(emulator) => emulator.owner = x.m.owner)
         /\ At(s, "up.start") => Exists(emulator) /\ emulator.owner = x.m.owner
         /\ At(s, "owned") => Accepts(x.m, "reset")
         /\ At(s, "create") /\ x.todo # {} =>
              LET k == FirstOf(CreateOrder, x.todo) IN
              emulator.state = "running" /\ (service[k] \notin Strangers \/ k \in Upserted)
         /\ At(s, "vacant") => \A k \in Kinds : service[k] = "none"
         /\ At(s, "list") \/ At(s, "down.container") \/ At(s, "down.network") => Proven(x.m)
         /\ At(s, "down.final") =>
              ~Exists(emulator) /\ Present(x.m) = {} /\ network = Nothing
<1>1. At(s, "vacant") => \A k \in Kinds : service[k] = "none"
  BY DEF At, Holds, Accepts, Has
<1> QED
  BY <1>1 DEF At, Holds

LEMMA AtWork ==
  ASSUME LabInv, NEW s \in Sessions, NEW pc, At(s, pc), pc # "closed"
  PROVE  session[s].pc = pc /\ Relies(session[s]) /\ session[s] \in Locals
  BY DEF At, LabInv, OneSession
-----------------------------------------------------------------------------
\* Steps that only look, and go on.
LEMMA LookingKeeps ==
  ASSUME LabInv, NEW s \in Sessions,
         \/ UpInspect(s) \/ BeginCommand(s) \/ Provision(s) \/ Created(s) \/ Verified(s) \/ Reset(s)
         \/ Deleted(s) \/ Emptied(s) \/ Cleaned(s) \/ DownBegin(s) \/ DownFinal(s)
  PROVE  LabInv' /\ Untouched
<1> DEFINE x == session[s]
<1>1. ASSUME NEW here \in Steps \ {"closed"}, NEW there \in Steps \ {"closed"},
             At(s, here), MoveTo(s, there), UNCHANGED <<files, docker, service, world>>,
             \A next \in Locals :
               /\ x.pc = here /\ Relies(x) /\ next.pc = there
               /\ next.op = x.op /\ next.m = x.m /\ next.persisted = x.persisted
               /\ next.down = x.down /\ next.todo = x.todo
               => Relies(next)
      PROVE  LabInv' /\ Untouched
  <2>1. x.pc = here /\ Relies(x)
    BY <1>1, AtWork
  <2>2. PICK next \in Locals : next = [x EXCEPT !.pc = there]
    BY <1>1, <2>1, Moves
  <2>3. /\ next.pc = there /\ next.op = x.op /\ next.m = x.m /\ next.persisted = x.persisted
        /\ next.down = x.down /\ next.todo = x.todo
        /\ session' = [session EXCEPT ![s] = next]
    BY <1>1, <2>1, <2>2, Moves DEF MoveTo
  <2>4. Relies(next)
    BY <1>1, <2>1, <2>3
  <2> QED
    BY <1>1, <2>1, <2>3, <2>4, Looks DEF world
<1> USE DEF Steps, Unsaved, CleanupSteps, TearDownSteps, PastUnroute, Deleting
<1>2. CASE UpInspect(s)
  BY <1>1, <1>2 DEF UpInspect, Relies
<1>3. CASE BeginCommand(s)
  <2>1. x.op \in {"provision", "reset", "verify", "prove"}
    BY <1>3, AtWork DEF BeginCommand, Relies, Operations
  <2>2. x.pc = "begin" /\ Relies(x)
    BY <1>3, AtWork DEF BeginCommand
  <2>3. x.persisted /\ ~x.down
    BY <2>2 DEF Relies
  <2>4. ASSUME NEW next \in Locals, next.pc = x.op, next.op = x.op, next.m = x.m,
               next.persisted = x.persisted, next.down = x.down
        PROVE  Relies(next)
    BY <2>1, <2>2, <2>3, <2>4 DEF Relies, OnDisk
  <2>5. x.op \in Steps \ {"closed"} /\ At(s, "begin") /\ MoveTo(s, x.op)
    BY <1>3, <2>1 DEF BeginCommand
  <2> QED
    BY <1>1, <1>3, <2>4, <2>5 DEF BeginCommand
<1>4. CASE Provision(s)
  BY <1>1, <1>4 DEF Provision, Relies
<1>5. CASE Created(s)
  BY <1>1, <1>5 DEF Created, Relies
<1>6. CASE Verified(s)
  BY <1>1, <1>6 DEF Verified, Relies
<1>7. CASE Reset(s)
  BY <1>1, <1>7 DEF Reset, Relies
<1>8. CASE Emptied(s)
  BY <1>1, <1>8 DEF Emptied, Relies
<1>9. CASE Cleaned(s)
  BY <1>1, <1>9 DEF Cleaned, Relies
<1>10. CASE DownBegin(s)
  BY <1>1, <1>10 DEF DownBegin, Relies
<1>11. CASE DownFinal(s)
  <2>1. /\ emulator.owner = Foreign /\ network = Nothing
        /\ \A r \in Runtimes : runtime[r].owner = Foreign
    <3>1. ~Exists(emulator) /\ Present(x.m) = {} /\ network = Nothing
      BY <1>11, Checked DEF DownFinal
    <3>2. /\ emulator.state = "none" /\ \A r \in Runtimes : runtime[r].state = "none"
      BY <3>1 DEF Exists, Present
    <3> QED
      BY <3>1, <3>2 DEF LabInv, LabTypeOK
  <2> QED
    BY <1>1, <1>11, <2>1 DEF DownFinal, Relies
<1>12. CASE Deleted(s)
  BY <1>1, <1>12 DEF Deleted, Relies
<1> QED
  BY <1>2, <1>3, <1>4, <1>5, <1>6, <1>7, <1>8, <1>9, <1>10, <1>11, <1>12

\* Steps that only look, and learn something.
LEMMA LearningKeeps ==
  ASSUME LabInv, NEW s \in Sessions,
         \/ Vacant(s) \/ Complete(s) \/ Proved(s) \/ Owned(s)
         \/ CleanupList(s, "stop", "stopping", {r \in Runtimes : runtime[r].state = "running"})
         \/ CleanupList(s, "list", "removing", Present(session[s].m))
  PROVE  LabInv' /\ Untouched
<1> DEFINE x == session[s]
<1> USE DEF Steps, Unsaved, CleanupSteps, TearDownSteps, PastUnroute, Deleting
<1>1. ASSUME NEW next \in Locals, next.pc # "closed", Relies(next),
             session' = [session EXCEPT ![s] = next], session[s].pc # "closed",
             UNCHANGED <<files, docker, service, world>>
      PROVE  LabInv' /\ Untouched
  BY <1>1, Looks DEF world
<1>2. ASSUME NEW here, NEW there, At(s, here), here \in {"vacant", "complete"},
             there \in {"provision.save", "ready.save"},
             there = "provision.save" => \A k \in Kinds : service[k] # "foreign",
             NEW status \in {"provisioning", "ready"},
             Knowing(s, there, [x.m EXCEPT !.status = status]),
             UNCHANGED <<files, docker, service, world>>
      PROVE  LabInv' /\ Untouched
  <2>1. x.pc = here /\ Relies(x) /\ x \in Locals
    BY <1>2, AtWork
  <2>2. PICK m \in Manifests : m = [x.m EXCEPT !.status = status] /\ m.owner = x.m.owner
    BY <1>2, <2>1 DEF Relies, Manifests
  <2>3. PICK next \in Locals : next = [x EXCEPT !.pc = there, !.m = m]
    BY <1>2, <2>1 DEF Locals
  <2>4. /\ next.pc = there /\ next.op = x.op /\ next.m = m /\ next.persisted = x.persisted
        /\ next.down = x.down /\ next.todo = x.todo
    BY <2>1, <2>3 DEF Locals
  <2>5. session' = [session EXCEPT ![s] = next]
    BY <1>2, <2>1, <2>2, <2>3 DEF Knowing, LabInv, OneSession
  <2>6. Relies(next)
    BY <1>2, <2>1, <2>2, <2>4 DEF Relies, OnDisk
  <2> QED
    BY <1>1, <1>2, <2>1, <2>4, <2>5, <2>6
<1>3. CASE Vacant(s)
  BY <1>2, <1>3, Checked DEF Vacant
<1>4. CASE Complete(s)
  BY <1>2, <1>4 DEF Complete
<1>5. CASE Proved(s)
  <2>1. x.pc = "prove" /\ Relies(x) /\ x \in Locals
    BY <1>5, AtWork DEF Proved
  <2>2. PICK next \in Locals : next = [x EXCEPT !.pc = "down.begin", !.down = TRUE]
    BY <2>1 DEF Locals
  <2>3. /\ next.pc = "down.begin" /\ next.op = x.op /\ next.m = x.m
        /\ next.persisted = x.persisted /\ next.down
    BY <2>1, <2>2 DEF Locals
  <2>4. session' = [session EXCEPT ![s] = next]
    BY <1>5, <2>1, <2>2 DEF Proved, TearDown, LabInv, OneSession
  <2>5. Relies(next)
    BY <2>1, <2>3 DEF Relies
  <2> QED
    BY <1>1, <1>5, <2>1, <2>3, <2>4, <2>5 DEF Proved
<1>6. CASE Owned(s)
  <2>1. x.pc = "owned" /\ Relies(x) /\ x \in Locals
    BY <1>6, AtWork DEF Owned
  <2> DEFINE status == IF x.m.status = "ready" THEN "resetting" ELSE x.m.status
             todo == {k \in Kinds : service[k] # "none"}
  <2>2. PICK m \in Manifests : m = [x.m EXCEPT !.status = status] /\ m.owner = x.m.owner
    <3>1. x.m \in Manifests
      BY <2>1 DEF Relies
    <3>2. status \in {"starting", "provisioning", "ready", "resetting"}
      BY <3>1 DEF Manifests
    <3> HIDE DEF status
    <3> QED
      BY <3>1, <3>2, Updated
  <2>3. PICK next \in Locals : next = [x EXCEPT !.pc = "reset.unroute", !.m = m, !.todo = todo]
    BY <2>1 DEF Locals
  <2>4. /\ next.pc = "reset.unroute" /\ next.op = x.op /\ next.m = m
        /\ next.persisted = x.persisted /\ next.down = x.down /\ next.todo = todo
    BY <2>1, <2>3 DEF Locals
  <2>5. session' = [session EXCEPT ![s] = next]
    <3>1. session \in [Sessions -> Locals]
      BY DEF LabInv, OneSession
    <3>2. session' = [session EXCEPT ![s].pc = "reset.unroute", ![s].m.status = status,
                                     ![s].todo = todo]
      BY <1>6 DEF Owned
    <3> HIDE DEF status, todo
    <3>3. session' = [session EXCEPT ![s] =
                        [x EXCEPT !.pc = "reset.unroute", !.m.status = status, !.todo = todo]]
      BY <3>1, <3>2
    <3>4. [x EXCEPT !.pc = "reset.unroute", !.m.status = status, !.todo = todo] = next
      BY <2>1, <2>2, <2>3 DEF Locals
    <3> QED
      BY <3>3, <3>4
  <2>6. \A k \in todo : service[k] \notin {"none"} \cup Strangers
    <3>1. Accepts(x.m, "reset")
      BY <1>6, Checked DEF Owned
    <3> QED
      BY <3>1 DEF Accepts, Has, Tagged
  <2>7. Relies(next)
    BY <2>1, <2>2, <2>4, <2>6 DEF Relies, OnDisk
  <2> QED
    BY <1>1, <1>6, <2>1, <2>4, <2>5, <2>7 DEF Owned
<1>7. ASSUME NEW here, NEW there, NEW S \in SUBSET Runtimes, CleanupList(s, here, there, S),
             \/ here = "stop" /\ there = "stopping"
             \/ here = "list" /\ there = "removing" /\ \A r \in S : runtime[r] # Stranger
      PROVE  LabInv' /\ Untouched
  <2>1. x.pc = here /\ Relies(x) /\ x \in Locals
    BY <1>7, AtWork DEF CleanupList
  <2>2. PICK next \in Locals : next = [x EXCEPT !.pc = there, !.todo = S]
    BY <1>7, <2>1 DEF Locals
  <2>3. /\ next.pc = there /\ next.op = x.op /\ next.m = x.m
        /\ next.persisted = x.persisted /\ next.down = x.down /\ next.todo = S
    BY <2>1, <2>2 DEF Locals
  <2>4. session' = [session EXCEPT ![s] = next]
    BY <1>7, <2>1, <2>2 DEF CleanupList, Listing, LabInv, OneSession
  <2>5. Relies(next)
    BY <1>7, <2>1, <2>3 DEF Relies
  <2> QED
    BY <1>1, <1>7, <2>1, <2>3, <2>4, <2>5 DEF CleanupList
<1>8. CASE CleanupList(s, "stop", "stopping", {r \in Runtimes : runtime[r].state = "running"})
  BY <1>7, <1>8
<1>9. CASE CleanupList(s, "list", "removing", Present(session[s].m))
  <2>1. \A r \in Present(x.m) : runtime[r] # Stranger
    <3>1. x.m.owner \in Owners
      BY <1>9, AtWork DEF CleanupList, Relies
    <3>2. \A r \in Present(x.m) : runtime[r].owner = x.m.owner
      BY <1>9, Checked DEF CleanupList, Proven
    <3>3. Foreign \notin Owners
      BY DEF Foreign, Owners, LabInv, LabTypeOK
    <3> QED
      BY <3>1, <3>2, <3>3 DEF Stranger
  <2>2. Present(x.m) \in SUBSET Runtimes
    BY DEF Present
  <2> QED
    BY <1>7, <1>9, <2>1, <2>2
<1> QED
  BY <1>3, <1>4, <1>5, <1>6, <1>8, <1>9
-----------------------------------------------------------------------------
\* A manifest is written by its own lab, which is the one on disk or the first there.
LEMMA SavedManifest ==
  ASSUME LabInv, NEW x \in Locals, Relies(x), NEW m \in Manifests, m.owner = x.m.owner,
         disk' = m, UNCHANGED <<routing, docker, service, owners>>
  PROVE  LabTypeOK' /\ NothingIsOrphaned' /\ Untouched /\ OnDisk(m)'
<1>1. m # Nothing /\ m.owner \in Owners
  BY LabAssumption DEF Relies
<1>2. LabTypeOK'
  BY <1>1 DEF LabInv, LabTypeOK, Containers, docker, Owners, Marks
<1>3. disk # Nothing => disk.owner = m.owner
  BY DEF Relies, OnDisk
<1>4. NothingIsOrphaned'
  BY <1>1, <1>3 DEF LabInv, NothingIsOrphaned, docker, Exists, Owners
<1> QED
  BY <1>1, <1>2, <1>4 DEF Untouched, ServicesUntouched, docker, OnDisk

\* A session that saves its manifest and goes on.
LEMMA SavingMoves ==
  ASSUME LabInv, NEW s \in Sessions, NEW pc, At(s, pc), pc # "closed",
         NEW m \in Manifests, m.owner = session[s].m.owner, disk' = m, lock' = lock,
         UNCHANGED <<routing, docker, service, owners>>,
         NEW next \in Locals, next.pc # "closed", session' = [session EXCEPT ![s] = next],
         next.op = session[s].op, next.m.owner = m.owner, next.m \in Manifests,
         next.persisted, next.pc # "begin",
         next.down => next.pc \in TearDownSteps \cup CleanupSteps,
         next.pc \in TearDownSteps => next.down,
         next.pc \notin PastUnroute \cup CleanupSteps,
         next.pc \in Deleting => session[s].pc \in Deleting /\ next.todo = session[s].todo,
         next.pc \notin {"provision.save", "create"} \/ pc = "provision.save"
  PROVE  LabInv' /\ Untouched
<1> DEFINE x == session[s]
<1>1. x.pc = pc /\ Relies(x) /\ x \in Locals
  BY AtWork
<1>2. LabTypeOK' /\ NothingIsOrphaned' /\ Untouched /\ OnDisk(m)'
  BY <1>1, SavedManifest
<1>3. Relies(next)'
  BY <1>1, <1>2 DEF Relies, OnDisk, Owners, docker, CleanupSteps, PastUnroute
<1> QED
  BY <1>1, <1>2, <1>3, SessionSteps

LEMMA SavingKeeps ==
  ASSUME LabInv, NEW s \in Sessions,
         \/ UpSave(s) \/ ProvisionSave(s) \/ ReadySave(s) \/ Mark(s)
         \/ ResetSave(s) \/ FreshSave(s)
  PROVE  LabInv' /\ Untouched
<1> DEFINE x == session[s]
<1> USE DEF Steps, Unsaved, CleanupSteps, TearDownSteps, PastUnroute, Deleting
<1>0. session \in [Sessions -> Locals]
  BY DEF LabInv, OneSession
<1>1. CASE UpSave(s)
  <2>1. At(s, "up.save") /\ x.pc = "up.save" /\ Relies(x) /\ x \in Locals
    BY <1>1, AtWork DEF UpSave
  <2>2. PICK next \in Locals : next = [x EXCEPT !.pc = "up.network", !.persisted = TRUE]
    BY <2>1 DEF Locals
  <2>3. /\ next.pc = "up.network" /\ next.op = x.op /\ next.m = x.m /\ next.persisted
        /\ next.down = x.down
    BY <2>1, <2>2 DEF Locals
  <2>4. session' = [session EXCEPT ![s] = next]
    BY <1>0, <1>1, <2>2 DEF UpSave
  <2>5. x.m \in Manifests /\ ~x.down
    BY <2>1 DEF Relies
  <2> QED
    BY <1>1, <2>1, <2>3, <2>4, <2>5, SavingMoves DEF UpSave, SaveManifest, world
<1>2. CASE ProvisionSave(s)
  <2>1. At(s, "provision.save") /\ x.pc = "provision.save" /\ Relies(x) /\ x \in Locals
    BY <1>2, AtWork DEF ProvisionSave
  <2>2. PICK next \in Locals : next = [x EXCEPT !.pc = "create", !.todo = Kinds]
    BY <2>1 DEF Locals
  <2>3. /\ next.pc = "create" /\ next.op = x.op /\ next.m = x.m
        /\ next.persisted = x.persisted /\ next.down = x.down
    BY <2>1, <2>2 DEF Locals
  <2>4. session' = [session EXCEPT ![s] = next]
    BY <1>0, <1>2, <2>2 DEF ProvisionSave, Listing
  <2>5. x.m \in Manifests /\ ~x.down /\ x.persisted
    BY <2>1 DEF Relies
  <2> QED
    BY <1>2, <2>1, <2>3, <2>4, <2>5, SavingMoves DEF ProvisionSave, SaveManifest, world
<1>3. ASSUME NEW here, NEW there, At(s, here), SaveManifest(s), MoveTo(s, there),
             \/ here = "ready.save" /\ there = "route"
             \/ here = "reset.save" /\ there = "delete",
             UNCHANGED <<lock, routing, docker, service, world>>
      PROVE  LabInv' /\ Untouched
  <2>1. x.pc = here /\ Relies(x) /\ x \in Locals
    BY <1>3, AtWork
  <2>2. PICK next \in Locals : next = [x EXCEPT !.pc = there]
    BY <1>3, <2>1 DEF Locals
  <2>3. /\ next.pc = there /\ next.op = x.op /\ next.m = x.m
        /\ next.persisted = x.persisted /\ next.down = x.down /\ next.todo = x.todo
    BY <2>1, <2>2 DEF Locals
  <2>4. session' = [session EXCEPT ![s] = next]
    BY <1>0, <1>3, <2>2 DEF MoveTo
  <2>5. x.m \in Manifests /\ ~x.down /\ x.persisted
    BY <1>3, <2>1 DEF Relies
  <2> QED
    BY <1>3, <2>1, <2>3, <2>4, <2>5, SavingMoves DEF SaveManifest, world
<1>4. CASE ReadySave(s)
  BY <1>3, <1>4 DEF ReadySave
<1>5. CASE ResetSave(s)
  BY <1>3, <1>5 DEF ResetSave
<1>6. CASE Mark(s)
  <2>1. At(s, "mark") /\ x.pc = "mark" /\ Relies(x) /\ x \in Locals
    BY <1>6, AtWork DEF Mark
  <2>2. x.m \in Manifests /\ disk' = x.m /\ x.persisted
        /\ UNCHANGED <<routing, docker, service, owners>>
    BY <1>6, <2>1 DEF Mark, Relies, SaveManifest, world
  <2>3. CASE x.op = "verify"
    <3>1. PICK next \in Locals : next = [x EXCEPT !.pc = "down.begin", !.down = TRUE]
      BY <2>1 DEF Locals
    <3>2. /\ next.pc = "down.begin" /\ next.op = x.op /\ next.m = x.m
          /\ next.persisted = x.persisted /\ next.down
      BY <2>1, <3>1 DEF Locals
    <3>3. session' = [session EXCEPT ![s] = next] /\ lock' = lock
      BY <1>0, <1>6, <2>3, <3>1 DEF Mark, TearDown
    <3> QED
      BY <2>1, <2>2, <3>2, <3>3, SavingMoves
  <2>4. CASE x.op # "verify"
    <3>1. session' = [session EXCEPT ![s] = Closed]
      BY <1>6, <2>4 DEF Mark, Close
    <3> QED
      BY <2>1, <2>2, <3>1, SavedManifest, Closes
  <2> QED
    BY <2>3, <2>4
<1>7. CASE FreshSave(s)
  <2>1. At(s, "fresh.save") /\ x.pc = "fresh.save" /\ Relies(x) /\ x \in Locals
    BY <1>7, AtWork DEF FreshSave
  <2>2. PICK m \in Manifests : /\ m = [x.m EXCEPT !.status = "starting", !.marked = FALSE]
                               /\ m.owner = x.m.owner
    <3>1. x.m \in Manifests
      BY <2>1 DEF Relies
    <3> QED
      BY <3>1, Updated
  <2>3. x.persisted /\ ~x.down
    BY <2>1 DEF Relies
  <2>4. disk' = m /\ UNCHANGED <<routing, docker, service, owners>>
    BY <1>7, <2>2 DEF FreshSave, world
  <2>5. CASE x.op = "verify"
    <3>1. PICK next \in Locals : next = [x EXCEPT !.pc = "provision", !.m = m]
      BY <2>1 DEF Locals
    <3>2. /\ next.pc = "provision" /\ next.op = x.op /\ next.m = m
          /\ next.persisted = x.persisted /\ next.down = x.down
      BY <2>1, <3>1 DEF Locals
    <3>3. session' = [session EXCEPT ![s] = next] /\ lock' = lock
      BY <1>0, <1>7, <2>2, <2>5, <3>1 DEF FreshSave, Knowing
    <3> QED
      BY <2>1, <2>2, <2>3, <2>4, <3>2, <3>3, SavingMoves
  <2>6. CASE x.op # "verify"
    <3>1. session' = [session EXCEPT ![s] = Closed]
      BY <1>7, <2>6 DEF FreshSave, Close
    <3> QED
      BY <2>1, <2>2, <2>4, <3>1, SavedManifest, Closes
  <2> QED
    BY <2>5, <2>6
<1> QED
  BY <1>1, <1>2, <1>4, <1>5, <1>6, <1>7
-----------------------------------------------------------------------------
\* A session that goes on while it changes the lab: what it relies on there is what it
\* relied on before, but for what its new step demands.
LEMMA WorkingMoves ==
  ASSUME LabInv, NEW s \in Sessions, NEW here \in Steps, At(s, here), here # "closed",
         NEW there \in Steps, MoveTo(s, there), there # "closed",
         UNCHANGED <<lock, disk, owners>>, LabTypeOK', NothingIsOrphaned',
         here \notin Unsaved, there \notin Unsaved, there # "begin",
         here \in TearDownSteps \cup CleanupSteps <=> there \in TearDownSteps \cup CleanupSteps,
         there \in TearDownSteps => here \in TearDownSteps,
         there \in PastUnroute \cup CleanupSteps => routing' = Nothing,
         there \notin {"removing", "forget", "provision.save", "create"},
         there \in Deleting => here \in Deleting /\ UNCHANGED <<emulator, service>>
  PROVE  LabInv'
<1> DEFINE x == session[s]
<1>1. x.pc = here /\ Relies(x) /\ x \in Locals
  BY AtWork
<1>2. PICK next \in Locals : next = [x EXCEPT !.pc = there]
  BY <1>1, Moves
<1>3. /\ next.pc = there /\ next.op = x.op /\ next.m = x.m /\ next.persisted = x.persisted
      /\ next.down = x.down /\ next.todo = x.todo
      /\ session' = [session EXCEPT ![s] = next]
  BY <1>1, <1>2, Moves DEF MoveTo
<1>4. Relies(next)'
  BY <1>1, <1>3 DEF Relies, OnDisk, Owners
<1> QED
  BY <1>1, <1>3, <1>4, SessionSteps

\* The routing file.
LEMMA RoutingKeeps ==
  ASSUME LabInv, NEW s \in Sessions,
         \/ Unroute(s, "provision.unroute", "vacant")
         \/ Unroute(s, "reset.unroute", "reset.save")
         \/ Unroute(s, "down.unroute", "down.stop")
         \/ WriteRouting(s)
  PROVE  LabInv' /\ Untouched
<1> DEFINE x == session[s]
<1> USE DEF Steps, Unsaved, CleanupSteps, TearDownSteps, PastUnroute, Deleting
<1>1. ASSUME NEW here \in Steps, NEW there \in Steps, Unroute(s, here, there),
             \/ here = "provision.unroute" /\ there = "vacant"
             \/ here = "reset.unroute" /\ there = "reset.save"
             \/ here = "down.unroute" /\ there = "down.stop"
      PROVE  LabInv' /\ Untouched
  <2>1. LabTypeOK' /\ NothingIsOrphaned' /\ Untouched
    BY <1>1, LabAssumption DEF Unroute, LabInv, LabTypeOK, NothingIsOrphaned, Untouched,
                              ServicesUntouched, Owners,
                               Marks, Containers, docker, world
  <2>2. LabInv'
    BY <1>1, <2>1, WorkingMoves DEF Unroute, docker, world
  <2> QED
    BY <2>1, <2>2
<1>2. CASE WriteRouting(s)
  <2>1. At(s, "route") /\ x.pc = "route" /\ Relies(x) /\ x \in Locals
    BY <1>2, AtWork DEF WriteRouting
  <2>2. OnDisk(x.m) /\ x.m.owner \in Owners /\ x.m \in Manifests /\ x.persisted /\ ~x.down
    BY <2>1 DEF Relies
  <2>3. LabTypeOK' /\ NothingIsOrphaned' /\ Untouched
    BY <1>2, <2>2 DEF WriteRouting, LabInv, LabTypeOK, NothingIsOrphaned, Untouched,
                              ServicesUntouched, Owners,
                      Marks, Containers, OnDisk, docker, world
  <2>4. PICK m \in Manifests : m = [x.m EXCEPT !.marked = TRUE] /\ m.owner = x.m.owner
    BY <2>2, Updated
  <2>5. PICK next \in Locals : next = [x EXCEPT !.pc = "mark", !.m = m]
    BY <2>1 DEF Locals
  <2>6. /\ next.pc = "mark" /\ next.op = x.op /\ next.m = m
        /\ next.persisted = x.persisted /\ next.down = x.down
    BY <2>1, <2>5 DEF Locals
  <2>7. session' = [session EXCEPT ![s] = next]
    BY <1>2, <2>4, <2>5 DEF WriteRouting, Knowing, LabInv, OneSession
  <2>8. Relies(next)'
    BY <1>2, <2>1, <2>2, <2>4, <2>6 DEF WriteRouting, Relies, OnDisk, Owners, world
  <2> QED
    BY <1>2, <2>1, <2>3, <2>6, <2>7, <2>8, SessionSteps DEF WriteRouting
<1> QED
  BY <1>1, <1>2

\* up, from the network on.
LEMMA UpKeeps ==
  ASSUME LabInv, NEW s \in Sessions, UpNetwork(s) \/ UpCreate(s) \/ UpStart(s) \/ UpReady(s)
  PROVE  LabInv' /\ Untouched
<1> DEFINE x == session[s]
<1> USE DEF Steps, Unsaved, CleanupSteps, TearDownSteps, PastUnroute, Deleting
<1>1. ASSUME x.pc \in {"up.network", "up.create", "up.start"}, Relies(x)
      PROVE  OnDisk(x.m) /\ x.m.owner \in Owners /\ Foreign \notin Owners /\ x.m.owner # Nothing
  BY <1>1, LabAssumption DEF Relies, LabInv, LabTypeOK, Owners, Foreign
<1>2. CASE UpNetwork(s)
  <2>1. At(s, "up.network") /\ x.pc = "up.network" /\ Relies(x)
    BY <1>2, AtWork DEF UpNetwork
  <2>2. network \in {Nothing, x.m.owner} /\ network' = x.m.owner
    BY <1>2, <2>1, Checked DEF UpNetwork
  <2>3. Nothing # Foreign
    BY LabAssumption DEF Foreign
  <2>4. LabTypeOK' /\ NothingIsOrphaned' /\ Untouched
    BY <1>1, <1>2, <2>1, <2>2, <2>3 DEF UpNetwork, LabInv, LabTypeOK, NothingIsOrphaned,
                                  Untouched, ServicesUntouched, Owners, Marks, Containers,
                                  OnDisk, files, world
  <2>5. LabInv'
    BY <1>2, <2>1, <2>4, WorkingMoves DEF UpNetwork, files, world
  <2> QED
    BY <2>4, <2>5
<1>3. CASE UpCreate(s)
  <2>1. At(s, "up.create") /\ x.pc = "up.create" /\ Relies(x)
    BY <1>3, AtWork DEF UpCreate
  <2>2. Exists(emulator) => emulator.owner = x.m.owner
    BY <2>1, Checked
  <2>3. /\ emulator' \in [state : {"none", "created", "running", "exited"}, owner : Marks]
        /\ emulator' = emulator \/ (emulator'.state = "created" /\ emulator'.owner = x.m.owner)
        /\ emulator = Stranger => emulator' = emulator
    BY <1>1, <1>3, <2>1 DEF UpCreate, LabInv, LabTypeOK, Marks, Containers, Exists, Stranger
  <2>4. LabTypeOK' /\ NothingIsOrphaned' /\ Untouched
    BY <1>1, <1>3, <2>1, <2>3 DEF UpCreate, LabInv, LabTypeOK, NothingIsOrphaned, Exists,
                                  Untouched, ServicesUntouched, Owners, Marks, Containers,
                                  OnDisk, files, world
  <2>5. LabInv'
    BY <1>3, <2>1, <2>4, WorkingMoves DEF UpCreate, files, world
  <2> QED
    BY <2>4, <2>5
<1>4. CASE UpStart(s)
  <2>1. At(s, "up.start") /\ x.pc = "up.start" /\ Relies(x)
    BY <1>4, AtWork DEF UpStart
  <2>2. Exists(emulator) /\ emulator.owner = x.m.owner
    BY <2>1, Checked
  <2>3. /\ emulator' \in [state : {"none", "created", "running", "exited"}, owner : Marks]
        /\ emulator'.state = "running" /\ emulator'.owner = emulator.owner
        /\ emulator # Stranger
    BY <1>1, <1>4, <2>1, <2>2 DEF UpStart, LabInv, LabTypeOK, Marks, Containers, Stranger
  <2>4. LabTypeOK' /\ NothingIsOrphaned' /\ Untouched
    BY <1>1, <1>4, <2>1, <2>2, <2>3 DEF UpStart, LabInv, LabTypeOK, NothingIsOrphaned, Exists,
                                  Untouched, ServicesUntouched, Owners, Marks, Containers,
                                  OnDisk, files, world
  <2>5. LabInv'
    BY <1>4, <2>1, <2>4, WorkingMoves DEF UpStart, files, world
  <2> QED
    BY <2>4, <2>5
<1>5. CASE UpReady(s)
  <2>1. x.pc # "closed" /\ session' = [session EXCEPT ![s] = Closed]
    BY <1>5 DEF UpReady, Close, At
  <2>2. LabTypeOK' /\ NothingIsOrphaned' /\ Untouched
    BY <1>5 DEF UpReady, LabInv, LabTypeOK, NothingIsOrphaned, Exists,
                Untouched, ServicesUntouched, Owners, Marks, Containers, docker, world
  <2> QED
    BY <2>1, <2>2, Closes
<1> QED
  BY <1>2, <1>3, <1>4, <1>5
-----------------------------------------------------------------------------
\* A session that strikes an element from its list, or leaves it for the next call,
\* while the services or the runtimes change.
LEMMA StrikingStays ==
  ASSUME LabInv, NEW s \in Sessions, NEW pc \in {"create", "delete", "stopping", "removing"},
         At(s, pc), NEW e, Strike(s, pc, e) \/ UNCHANGED session,
         UNCHANGED <<files, owners>>, LabTypeOK', NothingIsOrphaned',
         pc = "removing" =>
           \A r \in Runtimes : runtime[r] # Stranger => runtime'[r] # Stranger,
         pc = "create" =>
           /\ UNCHANGED emulator
           /\ \A k \in Kinds : service[k] # "foreign" => service'[k] # "foreign",
         pc = "delete" =>
           /\ UNCHANGED emulator
           /\ \A k \in Kinds :
                service'[k] \in {service[k], "part"} \/ (Strike(s, pc, e) /\ e = k)
  PROVE  LabInv'
<1> DEFINE x == session[s]
<1> USE DEF Steps, Unsaved, CleanupSteps, TearDownSteps, PastUnroute, Deleting
<1>1. x.pc = pc /\ Relies(x) /\ x \in Locals
  BY AtWork
<1>4. pc \in {"provision.save", "create"} /\ emulator'.state = "running" =>
        \A k \in Kinds : service'[k] # "foreign"
  BY <1>1 DEF Relies
<1>5. pc = "delete" /\ emulator'.state = "running" =>
        \A k \in x.todo : k \in Kinds /\
          (service'[k] \notin {"none"} \cup Strangers \/ (Strike(s, pc, e) /\ e = k))
  BY <1>1 DEF Relies, Strangers
<1>2. CASE Strike(s, pc, e)
  <2>1. PICK next \in Locals : next = [x EXCEPT !.pc = pc, !.todo = x.todo \ {e}]
    BY <1>1 DEF Locals
  <2>2. /\ next.pc = pc /\ next.op = x.op /\ next.m = x.m /\ next.persisted = x.persisted
        /\ next.down = x.down /\ next.todo = x.todo \ {e}
    BY <1>1, <2>1 DEF Locals
  <2>3. session' = [session EXCEPT ![s] = next]
    BY <1>2, <2>1 DEF Strike, LabInv, OneSession
  <2>4. Relies(next)'
    BY <1>1, <1>4, <1>5, <2>2 DEF Relies, OnDisk, Owners, files
  <2> QED
    BY <1>1, <2>2, <2>3, <2>4, SessionSteps DEF files
<1>3. CASE UNCHANGED session /\ ~Strike(s, pc, e)
  <2>1. session' = [session EXCEPT ![s] = x]
    BY <1>3 DEF LabInv, OneSession
  <2>2. PICK next \in Locals : next = x
    BY <1>1
  <2>3. Relies(next)'
    BY <1>1, <1>3, <1>4, <1>5, <2>2 DEF Relies, OnDisk, Owners, files
  <2> QED
    BY <1>1, <2>1, <2>2, <2>3, SessionSteps DEF files
<1> QED
  BY <1>2, <1>3

\* Whatever a call makes of a service, the lab's profile knows it.
LEMMA Built ==
  ASSUME NEW k, service[k] \notin Strangers \/ k \in Upserted, NEW stage \in Builds(k)
  PROVE  stage \in {"untagged", "part", "whole"}
<1>1. Stages(k) \in {<<"untagged", "part", "whole">>, <<"part", "whole">>, <<"whole">>}
  BY DEF Stages
<1>2. Stages(k)[1] \in {"untagged", "part", "whole"}
  BY <1>1
<1>3. \A i \in 1 .. Len(Stages(k)) - 1 : Stages(k)[i + 1] \in {"untagged", "part", "whole"}
  BY <1>1
<1>4. CASE service[k] \in Strangers
  <2>1. k \in {"bucket", "queue", "rule"}
    BY <1>4 DEF Upserted
  <2>2. Builds(k) = Adopted[k]
    BY <1>4, Zenon DEF Builds
  <2>3. Adopted[k] \subseteq {"untagged", "part"}
    BY <2>1 DEF Adopted
  <2> QED
    BY <2>2, <2>3
<1>5. CASE service[k] \notin Strangers
  BY <1>2, <1>3, <1>5 DEF Builds
<1> QED
  BY <1>4, <1>5

\* The services.
LEMMA ServicesKeep ==
  ASSUME LabInv, NEW s \in Sessions, Create(s) \/ Delete(s)
  PROVE  LabInv' /\ Untouched
<1> DEFINE x == session[s]
<1>1. CASE Create(s)
  <2> DEFINE k == FirstOf(CreateOrder, x.todo)
  <2>1. /\ At(s, "create") /\ x.todo # {} /\ UNCHANGED <<files, docker, world>>
        /\ \E stage \in Builds(k) : service' = [service EXCEPT ![k] = stage]
        /\ Strike(s, "create", k) \/ UNCHANGED session
    BY <1>1 DEF Create
  <2>2. emulator.state = "running" /\ (service[k] \notin Strangers \/ k \in Upserted)
    BY <2>1, Checked
  <2>3. x.pc = "create" /\ \A e \in Kinds : service[e] # "foreign"
    BY <2>1, <2>2, AtWork DEF Relies
  <2> HIDE DEF k
  <2>4. ASSUME NEW e \in Kinds, service'[e] # service[e]
        PROVE  e = k /\ service'[e] \notin Strangers
    <3>1. PICK stage \in Builds(k) : service' = [service EXCEPT ![k] = stage]
      BY <2>1
    <3>2. e = k /\ service'[e] = stage
      BY <2>4, <3>1 DEF LabInv, LabTypeOK
    <3> QED
      BY <2>2, <3>2, Built DEF Strangers
  <2>5. ServicesUntouched
    BY <2>2, <2>3, <2>4 DEF ServicesUntouched, Strangers
  <2>6. LabTypeOK' /\ NothingIsOrphaned' /\ Untouched
    BY <2>1, <2>5 DEF LabInv, LabTypeOK, NothingIsOrphaned, Exists, Untouched, Owners, Marks,
                      Containers, files, docker, world
  <2>7. \A e \in Kinds : service[e] # "foreign" => service'[e] # "foreign"
    BY <2>4 DEF Strangers
  <2>8. LabInv'
    BY <2>1, <2>6, <2>7, StrikingStays DEF docker, world
  <2> QED
    BY <2>6, <2>8
<1>2. CASE Delete(s)
  <2> DEFINE k == FirstOf(DeleteOrder, x.todo)
  <2>1. /\ At(s, "delete") /\ x.todo # {} /\ UNCHANGED <<files, docker, world>>
        /\ \/ service' = [service EXCEPT ![k] = "part"] /\ UNCHANGED session
           \/ service' = [service EXCEPT ![k] = "none"] /\ Strike(s, "delete", k)
    BY <1>2 DEF Delete
  <2>2. x.pc = "delete" /\ Relies(x) /\ emulator.state = "running"
    BY <2>1, AtWork DEF At, Holds
  <2>3. x.todo \subseteq Kinds /\ \A e \in x.todo : service[e] \notin {"none"} \cup Strangers
    BY <2>2 DEF Relies, Deleting
  <2>4. k \in x.todo
    BY <2>1, <2>3, FirstIsLeft
  <2> HIDE DEF k
  <2>5. LabTypeOK' /\ NothingIsOrphaned' /\ Untouched
    BY <2>1, <2>3, <2>4 DEF LabInv, LabTypeOK, NothingIsOrphaned, Exists, Untouched,
                      ServicesUntouched, Owners, Marks,
                      Containers, files, docker, world
  <2>6. ASSUME NEW e \in Kinds
        PROVE  service'[e] \in {service[e], "part"} \/ (Strike(s, "delete", k) /\ k = e)
    <3>1. DOMAIN service = Kinds
      BY DEF LabInv, LabTypeOK
    <3>2. CASE service' = [service EXCEPT ![k] = "part"]
      BY <3>1, <3>2
    <3>3. CASE service' = [service EXCEPT ![k] = "none"] /\ Strike(s, "delete", k)
      <4>1. e # k => service'[e] = service[e]
        BY <3>1, <3>3
      <4> QED
        BY <3>3, <4>1
    <3> QED
      BY <2>1, <3>2, <3>3
  <2>7. LabInv'
    BY <2>1, <2>5, <2>6, StrikingStays DEF docker, world
  <2> QED
    BY <2>5, <2>7
<1> QED
  BY <1>1, <1>2

\* The runtimes.
LEMMA RuntimesKeep ==
  ASSUME LabInv, NEW s \in Sessions, StopRuntime(s) \/ RemoveRuntime(s)
  PROVE  LabInv' /\ Untouched
<1> DEFINE x == session[s]
<1>1. ASSUME NEW here \in {"stopping", "removing"}, NEW there \in {"list", "rest"},
             At(s, here), MoveTo(s, there), UNCHANGED runtime,
             here = "stopping" <=> there = "list",
             UNCHANGED <<files, emulator, network, service, world>>
      PROVE  LabInv' /\ Untouched
  <2> USE DEF Steps, Unsaved, CleanupSteps, TearDownSteps, PastUnroute, Deleting
  <2>1. x.pc = here /\ Relies(x) /\ x \in Locals
    BY <1>1, AtWork
  <2>2. PICK next \in Locals : next = [x EXCEPT !.pc = there]
    BY <1>1, <2>1, Moves
  <2>3. /\ next.pc = there /\ next.op = x.op /\ next.m = x.m /\ next.persisted = x.persisted
        /\ next.down = x.down /\ next.todo = x.todo
        /\ session' = [session EXCEPT ![s] = next]
    BY <1>1, <2>1, <2>2, Moves DEF MoveTo
  <2>4. Relies(next)
    BY <1>1, <2>1, <2>3 DEF Relies
  <2> QED
    BY <1>1, <2>1, <2>3, <2>4, Looks DEF docker, world
<1>2. ASSUME NEW pc \in {"stopping", "removing"}, At(s, pc),
             UNCHANGED <<files, emulator, network, service, world>>,
             NEW r \in x.todo, Strike(s, pc, r),
             \/ UNCHANGED runtime
             \/ /\ pc = "stopping" /\ Exists(runtime[r])
                /\ runtime' = [runtime EXCEPT ![r].state = "exited"]
             \/ pc = "removing" /\ runtime' = [runtime EXCEPT ![r] = Gone]
      PROVE  LabInv' /\ Untouched
  <2>1. x.pc = pc /\ Relies(x)
    BY <1>2, AtWork
  <2>2. r \in Runtimes /\ pc = "removing" => runtime[r] # Stranger
    BY <2>1 DEF Relies
  <2>3. ASSUME NEW q \in Runtimes
        PROVE  /\ runtime'[q] \in Containers
               /\ \/ runtime'[q] \in {runtime[q], Gone}
                  \/ /\ runtime'[q].owner = runtime[q].owner /\ Exists(runtime[q])
                     /\ runtime'[q].state = "exited"
               /\ runtime[q] = Stranger => runtime'[q] = Stranger
               /\ pc = "removing" => runtime'[q] \in {runtime[q], Gone}
    <3>1. runtime \in [Runtimes -> Containers]
      BY DEF LabInv, LabTypeOK
    <3>2. CASE runtime'[q] = runtime[q]
      BY <3>1, <3>2
    <3>3. CASE /\ q = r /\ pc = "stopping" /\ Exists(runtime[r])
               /\ runtime' = [runtime EXCEPT ![r].state = "exited"]
      <4>1. PICK c \in Containers : c = runtime[q]
        BY <3>1
      <4>2. runtime'[q] = [c EXCEPT !.state = "exited"]
        BY <3>1, <3>3, <4>1
      <4>3. /\ runtime'[q] \in Containers
            /\ runtime'[q].owner = c.owner /\ runtime'[q].state = "exited"
        BY <4>2 DEF Containers
      <4>4. c = Stranger => runtime'[q] = Stranger
        BY <4>2 DEF Stranger
      <4> QED
        BY <3>3, <4>1, <4>3, <4>4
    <3>4. CASE q = r /\ pc = "removing" /\ runtime' = [runtime EXCEPT ![r] = Gone]
      <4>1. runtime'[q] = Gone
        BY <3>1, <3>4
      <4>2. Gone \in Containers
        BY DEF Gone, Marks, Containers
      <4> QED
        BY <2>2, <3>4, <4>1, <4>2
    <3>5. q # r => runtime'[q] = runtime[q]
      BY <1>2, <3>1
    <3> QED
      BY <1>2, <3>2, <3>3, <3>4, <3>5
  <2>4. DOMAIN runtime' = Runtimes
        /\ \E S : runtime' = [q \in Runtimes |-> S[q]]
    BY <1>2 DEF LabInv, LabTypeOK
  <2>5. runtime' \in [Runtimes -> Containers]
    BY <2>3, <2>4
  <2>6. LabTypeOK'
    BY <1>2, <2>3, <2>5 DEF LabInv, LabTypeOK, Gone, Containers, Exists, Owners, Marks,
                            files, world
  <2>7. NothingIsOrphaned'
    BY <1>2, <2>3 DEF LabInv, NothingIsOrphaned, Gone, Exists, files, world
  <2>8. Untouched
    BY <1>2, <2>3 DEF Untouched, ServicesUntouched
  <2>9. pc = "removing" =>
          \A q \in Runtimes : runtime[q] # Stranger => runtime'[q] # Stranger
    BY <2>3 DEF Gone, Stranger
  <2>10. LabInv'
    BY <1>2, <2>6, <2>7, <2>9, StrikingStays DEF world
  <2> QED
    BY <2>8, <2>10
<1>3. CASE StopRuntime(s)
  <2>1. CASE x.todo = {}
    <3>1. /\ At(s, "stopping") /\ MoveTo(s, "list") /\ UNCHANGED runtime
          /\ UNCHANGED <<files, emulator, network, service, world>>
      BY <1>3, <2>1 DEF StopRuntime
    <3> QED
      BY <1>1, <3>1
  <2>2. CASE x.todo # {}
    BY <1>2, <1>3, <2>2 DEF StopRuntime
  <2> QED
    BY <2>1, <2>2
<1>4. CASE RemoveRuntime(s)
  <2>1. CASE x.todo = {}
    BY <1>1, <1>4, <2>1 DEF RemoveRuntime
  <2>2. CASE x.todo # {}
    BY <1>2, <1>4, <2>2 DEF RemoveRuntime
  <2> QED
    BY <2>1, <2>2
<1> QED
  BY <1>3, <1>4

\* down: the emulator, the network and, last of all, the manifest.
LEMMA DownKeeps ==
  ASSUME LabInv, NEW s \in Sessions,
         DownStop(s) \/ DownContainer(s) \/ DownNetwork(s) \/ Forget(s)
  PROVE  LabInv' /\ Untouched
<1> DEFINE x == session[s]
<1> USE DEF Steps, Unsaved, CleanupSteps, TearDownSteps, PastUnroute, Deleting
<1>1. Nothing # Foreign /\ Nothing \notin Owners /\ Foreign \notin Owners
  BY LabAssumption DEF LabInv, LabTypeOK, Owners, Foreign
<1>2. CASE DownStop(s)
  <2>1. At(s, "down.stop") /\ x.pc = "down.stop" /\ Relies(x)
    BY <1>2, AtWork DEF DownStop
  <2>2. /\ emulator' \in [state : {"none", "created", "running", "exited"}, owner : Marks]
        /\ emulator'.owner = emulator.owner /\ DOMAIN service' = Kinds
        /\ \/ UNCHANGED <<emulator, service>>
           \/ emulator.state = "running" /\ emulator'.state = "exited"
    BY <1>2 DEF DownStop, LabInv, LabTypeOK
  <2>3. emulator = Stranger => UNCHANGED emulator
    BY <2>2 DEF Stranger
  <2>4. LabTypeOK' /\ NothingIsOrphaned' /\ Untouched
    BY <1>2, <2>2, <2>3 DEF DownStop, LabInv, LabTypeOK, NothingIsOrphaned, Exists,
                            Untouched, ServicesUntouched, Owners, Marks, Containers, files, world
  <2>5. LabInv'
    BY <1>2, <2>1, <2>4, WorkingMoves DEF DownStop, Relies, files, world
  <2> QED
    BY <2>4, <2>5
<1>3. CASE DownContainer(s)
  <2>1. At(s, "down.container") /\ x.pc = "down.container" /\ Relies(x)
    BY <1>3, AtWork DEF DownContainer
  <2>2. Exists(emulator) => emulator.owner = x.m.owner
    BY <2>1, Checked DEF Proven
  <2>3. emulator # Stranger
    BY <1>1, <2>1, <2>2 DEF Relies, Stranger, Exists
  <2>4. emulator' \in [state : {"none", "created", "running", "exited"}, owner : Marks]
        /\ emulator'.state = "none" /\ emulator'.owner = Foreign
    BY <1>3 DEF DownContainer, Gone, Marks
  <2>5. LabTypeOK' /\ NothingIsOrphaned' /\ Untouched
    BY <1>3, <2>3, <2>4 DEF DownContainer, LabInv, LabTypeOK, NothingIsOrphaned, Exists,
                            Untouched, ServicesUntouched, Owners, Marks, Containers, files, world
  <2>6. LabInv'
    BY <1>3, <2>1, <2>5, WorkingMoves DEF DownContainer, Relies, files, world
  <2> QED
    BY <2>5, <2>6
<1>4. CASE DownNetwork(s)
  <2>1. At(s, "down.network") /\ x.pc = "down.network" /\ Relies(x)
    BY <1>4, AtWork DEF DownNetwork
  <2>2. network \in {Nothing, x.m.owner}
    BY <2>1, Checked DEF Proven
  <2>3. network # Foreign
    BY <1>1, <2>1, <2>2 DEF Relies
  <2>4. LabTypeOK' /\ NothingIsOrphaned' /\ Untouched
    BY <1>1, <1>4, <2>3 DEF DownNetwork, LabInv, LabTypeOK, NothingIsOrphaned, Exists,
                            Untouched, ServicesUntouched, Owners, Marks, Containers, files, world
  <2>5. LabInv'
    BY <1>4, <2>1, <2>4, WorkingMoves DEF DownNetwork, Relies, files, world
  <2> QED
    BY <2>4, <2>5
<1>5. CASE Forget(s)
  <2>1. At(s, "forget") /\ x.pc = "forget" /\ Relies(x)
    BY <1>5, AtWork DEF Forget
  <2>2. /\ emulator.owner = Foreign /\ network \in {Nothing, Foreign} /\ routing = Nothing
        /\ \A r \in Runtimes : runtime[r].owner = Foreign
    BY <2>1 DEF Relies
  <2>3. LabTypeOK'
    BY <1>5 DEF Forget, LabInv, LabTypeOK, Owners, Marks, Containers, docker, world
  <2>4. NothingIsOrphaned'
    BY <1>1, <1>5, <2>2 DEF Forget, NothingIsOrphaned, Owners, docker, world
  <2>5. Untouched
    BY <1>5 DEF Forget, Untouched, ServicesUntouched, docker
  <2>6. session' = [session EXCEPT ![s] = Closed]
    BY <1>5 DEF Forget, Close
  <2>7. LabInv'
    BY <2>1, <2>3, <2>4, <2>6, Closes
  <2> QED
    BY <2>5, <2>7
<1> QED
  BY <1>2, <1>3, <1>4, <1>5

\* A step that throws, and a session that is killed.
LEMMA FailingKeeps ==
  ASSUME LabInv, NEW s \in Sessions, Throw(s) \/ Killed(s)
  PROVE  LabInv' /\ Untouched
<1> DEFINE x == session[s]
<1> USE DEF Steps, Unsaved, CleanupSteps, TearDownSteps, PastUnroute, Deleting
<1>1. /\ x.pc # "closed" /\ Relies(x) /\ x \in Locals
      /\ UNCHANGED <<disk, routing, docker, service, owners>>
  BY DEF Throw, Killed, Mishap, LabInv, OneSession
<1>2. LabTypeOK' /\ NothingIsOrphaned' /\ Untouched
  BY <1>1 DEF LabInv, LabTypeOK, NothingIsOrphaned, Exists, Untouched,
                      ServicesUntouched, Owners, Marks,
              Containers, docker
<1>3. CASE session' = [session EXCEPT ![s] = Closed]
  BY <1>1, <1>2, <1>3, Closes
<1>4. CASE /\ x.op = "verify" \/ x.pc = "prove"
           /\ session' = [session EXCEPT ![s].pc = "down.begin", ![s].down = TRUE,
                                         ![s].again = x.down]
           /\ UNCHANGED lock
  <2>1. PICK next \in Locals :
               next = [x EXCEPT !.pc = "down.begin", !.down = TRUE, !.again = x.down]
    BY <1>1 DEF Locals
  <2>2. /\ next.pc = "down.begin" /\ next.op = x.op /\ next.m = x.m
        /\ next.persisted = x.persisted /\ next.down = TRUE
    BY <1>1, <2>1 DEF Locals
  <2>3. session' = [session EXCEPT ![s] = next]
    BY <1>4, <2>1 DEF LabInv, OneSession
  <2>4. x.persisted
    BY <1>1, <1>4 DEF Relies
  <2>5. Relies(next)
    BY <1>1, <2>2, <2>4 DEF Relies
  <2>6. UNCHANGED <<files, docker, service, owners>>
    BY <1>1, <1>4 DEF files
  <2> QED
    BY <1>1, <2>2, <2>3, <2>5, <2>6, Looks
<1>5. \/ session' = [session EXCEPT ![s] = Closed]
      \/ /\ x.op = "verify" \/ x.pc = "prove"
         /\ session' = [session EXCEPT ![s].pc = "down.begin", ![s].down = TRUE,
                                       ![s].again = x.down]
         /\ UNCHANGED lock
  BY DEF Throw, Throws, Close, Killed
<1> QED
  BY <1>2, <1>3, <1>4, <1>5

\* A session is opened only where nobody is at work, and a new owner owns nothing yet.
LEMMA OpeningKeeps ==
  ASSUME LabInv, NEW s \in Sessions, NEW op \in Operations, Open(s, op)
  PROVE  LabInv' /\ Untouched
<1> USE DEF Steps, Unsaved, CleanupSteps, TearDownSteps, PastUnroute, Deleting
<1> DEFINE fresh == [owner |-> owners + 1, status |-> "starting", marked |-> FALSE]
           m == IF disk = Nothing THEN fresh ELSE disk
<1>1. \A t \in Sessions : session[t].pc = "closed" /\ session[t] = Closed
  BY LabAssumption DEF Open, Unlocked, LabInv, OneSession
<1>2. Nothing \notin Nat /\ Nothing \notin Owners
  BY LabAssumption DEF LabInv, LabTypeOK, Owners
<1>3. /\ owners' \in {owners, owners + 1} /\ m \in Manifests /\ m.owner \in Owners'
      /\ disk # Nothing => disk = m
      /\ disk = Nothing => op = "up"
  BY <1>2 DEF Open, LabInv, LabTypeOK, Manifests, Owners
<1>4. FirstStep(op) \in {"up.inspect", "down.begin", "begin"}
      /\ (op = "up" <=> FirstStep(op) = "up.inspect")
      /\ (op = "down" <=> FirstStep(op) = "down.begin")
  BY DEF FirstStep, Operations
<1>5. PICK next : next = [Closed EXCEPT !.pc = FirstStep(op), !.op = op, !.down = op = "down",
                                        !.persisted = disk # Nothing, !.m = m]
  OBVIOUS
<1>6. next \in Locals /\ next.pc = FirstStep(op) /\ next.op = op /\ next.m = m
      /\ next.down = (op = "down") /\ next.persisted = (disk # Nothing) /\ next.todo = {}
  <2> HIDE DEF m
  <2> QED
    BY <1>3, <1>4, <1>5 DEF Closed, Locals
<1>7. session' = [session EXCEPT ![s] = next]
  BY <1>5 DEF Open
<1>8. lock' = s /\ UNCHANGED <<disk, routing, docker, service>>
  BY DEF Open
<1>9. LabTypeOK'
  BY <1>3, <1>8 DEF LabInv, LabTypeOK, Owners, Marks, Containers, docker
<1>10. NothingIsOrphaned'
  <2>1. owners \in Nat
    BY DEF LabInv, LabTypeOK
  <2>2. network # owners + 1 /\ routing # owners + 1 /\ emulator.owner # owners + 1
        /\ \A r \in Runtimes : runtime[r].owner # owners + 1
    BY <1>2, <2>1 DEF LabInv, LabTypeOK, Owners, Marks, Foreign, Containers
  <2>3. \A owner \in 1 .. owners' : owner \in 1 .. owners \/ owner = owners + 1
    BY <1>3, <2>1
  <2> QED
    BY <1>8, <2>2, <2>3 DEF LabInv, NothingIsOrphaned, Exists, docker
<1>11. Relies(next)'
  <2> HIDE DEF m
  <2> QED
    BY <1>3, <1>4, <1>6, <1>8 DEF Relies, OnDisk, Owners
<1>12. \A t \in Sessions : session'[t] = IF t = s THEN next ELSE Closed
  BY <1>1, <1>7 DEF LabInv, OneSession
<1>13. OneSession'
  <2>1. session' \in [Sessions -> Locals]
    BY <1>6, <1>7 DEF LabInv, OneSession
  <2>2. Closed.pc = "closed" /\ next.pc # "closed"
    BY <1>4, <1>6 DEF Closed
  <2> QED
    BY <1>8, <1>12, <2>1, <2>2 DEF OneSession
<1>14. Untouched
  BY <1>8 DEF Untouched, ServicesUntouched, docker
<1>15. (\A t \in Sessions : session[t].pc # "closed" => Relies(session[t]))'
  <2>1. \A t \in Sessions : session'[t].pc # "closed" => session'[t] = next
    BY <1>12 DEF Closed
  <2> QED
    BY <1>11, <2>1
<1> QED
  BY <1>9, <1>10, <1>13, <1>14, <1>15 DEF LabInv
-----------------------------------------------------------------------------
\* Whoever changes the lab beside the session at work leaves it what it relies on.
LEMMA BesidesIt ==
  ASSUME LabInv, UNCHANGED <<files, session, owners>>, LabTypeOK', NothingIsOrphaned',
         \A s \in Sessions : \A r \in session[s].todo \cap Runtimes :
           runtime[r] # Stranger => runtime'[r] # Stranger,
         emulator'.state = "running" =>
           /\ emulator.state = "running"
           /\ \A k \in Kinds : service[k] \notin {"none"} \cup Strangers
                               => service'[k] \notin {"none"} \cup Strangers
           /\ Provisioning =>
                \A k \in Kinds : service[k] # "foreign" => service'[k] # "foreign",
         emulator'.owner \in {emulator.owner, Foreign},
         network' \in {network, Nothing, Foreign},
         \A r \in Runtimes : runtime'[r].owner \in {runtime[r].owner, Foreign, emulator.owner}
  PROVE  LabInv'
<1>1. OneSession'
  BY DEF LabInv, OneSession, files
<1>2. ASSUME NEW s \in Sessions, session[s].pc # "closed"
      PROVE  Relies(session[s])'
  <2> DEFINE x == session[s]
  <2>1. Relies(x)
    BY <1>2 DEF LabInv
  <2>2. x' = x
    OBVIOUS
  <2>3. x.pc = "forget" =>
          /\ emulator'.owner = Foreign
          /\ network' \in {Nothing, Foreign}
          /\ \A r \in Runtimes : runtime'[r].owner = Foreign
    BY <2>1 DEF Relies
  <2>4. x.pc \in Deleting =>
          /\ x.todo \subseteq Kinds
          /\ emulator'.state = "running" =>
               \A k \in x.todo : service'[k] \notin {"none"} \cup Strangers
    BY <2>1 DEF Relies
  <2>5. x.pc = "removing" => \A r \in x.todo \cap Runtimes : runtime'[r] # Stranger
    BY <2>1 DEF Relies
  <2>6. x.pc \in {"provision.save", "create"} /\ emulator'.state = "running" =>
          \A k \in Kinds : service'[k] # "foreign"
    BY <2>1 DEF Relies, Provisioning
  <2> QED
    BY <2>1, <2>2, <2>3, <2>4, <2>5, <2>6 DEF Relies, OnDisk, Owners, files
<1> QED
  BY <1>1, <1>2 DEF LabInv

\* The runtimes that come and go with the emulator, and it itself.
LEMMA EmulatorKeeps ==
  ASSUME LabInv, \/ \E r \in Runtimes : Spawn(r) \/ Reap(r) \/ Removed(r)
                 \/ EmulatorDies
  PROVE  LabInv'
<1>1. CASE EmulatorDies
  <2>1. /\ emulator' \in [state : {"none", "created", "running", "exited"}, owner : Marks]
        /\ emulator'.owner = emulator.owner /\ emulator'.state = "exited"
        /\ emulator.state = "running" /\ DOMAIN service' = Kinds
    BY <1>1 DEF EmulatorDies, LabInv, LabTypeOK
  <2>2. LabTypeOK' /\ NothingIsOrphaned'
    BY <1>1, <2>1 DEF EmulatorDies, Mishap, LabInv, LabTypeOK, NothingIsOrphaned, Exists,
                      Owners, Marks, Containers, files
  <2> QED
    BY <1>1, <2>1, <2>2, BesidesIt DEF EmulatorDies, Mishap
<1>2. ASSUME NEW r \in Runtimes, Spawn(r) \/ Reap(r) \/ Removed(r)
      PROVE  LabInv'
  <2>1. /\ runtime \in [Runtimes -> Containers]
        /\ emulator.state = "running" => emulator.owner \in Owners
        /\ Foreign \notin Owners
    BY DEF LabInv, LabTypeOK, Owners, Foreign
  <2>2. PICK c \in Containers :
          /\ runtime' = [runtime EXCEPT ![r] = c]
          /\ \/ c = Gone
             \/ /\ emulator.state = "running" /\ c.owner = emulator.owner
                /\ c.state \in {"running", "exited", "removing"}
    <3>1. CASE Spawn(r)
      <4>1. emulator.owner \in Marks
        BY <2>1, <3>1 DEF Spawn, Marks
      <4> DEFINE c == [state |-> "running", owner |-> emulator.owner]
      <4>2. c \in Containers /\ c.owner = emulator.owner /\ c.state = "running"
        BY <4>1 DEF Containers
      <4> QED
        BY <3>1, <4>2 DEF Spawn
    <3>2. CASE Reap(r)
      <4>1. PICK state \in {"exited", "removing"} :
                   runtime' = [runtime EXCEPT ![r].state = state]
        BY <3>2 DEF Reap
      <4>2. PICK old \in Containers : old = runtime[r] /\ old.owner = emulator.owner
        BY <2>1, <3>2 DEF Reap
      <4>3. PICK c \in Containers : c = [old EXCEPT !.state = state]
        BY <4>2 DEF Containers
      <4>4. c.owner = emulator.owner /\ c.state = state
        BY <4>2, <4>3 DEF Containers
      <4>5. runtime' = [runtime EXCEPT ![r] = c]
        BY <2>1, <4>1, <4>2, <4>3
      <4> QED
        BY <3>2, <4>4, <4>5 DEF Reap
    <3>3. CASE Removed(r)
      <4>1. Gone \in Containers
        BY DEF Gone, Containers, Marks
      <4> QED
        BY <3>3, <4>1 DEF Removed
    <3> QED
      BY <1>2, <3>1, <3>2, <3>3
  <2>3. \A q \in Runtimes : runtime'[q] = IF q = r THEN c ELSE runtime[q]
    BY <2>1, <2>2
  <2>4. runtime' \in [Runtimes -> Containers]
    BY <2>1, <2>2
  <2>5. c # Stranger /\ (c.state = "none" => c.owner = Foreign)
        /\ c.owner \in {Foreign, emulator.owner}
    BY <2>1, <2>2 DEF Gone, Stranger
  <2>6. UNCHANGED <<files, emulator, network, service, session, world>>
    BY <1>2 DEF Spawn, Reap, Removed
  <2>7. LabTypeOK'
    BY <2>3, <2>4, <2>5, <2>6 DEF LabInv, LabTypeOK, Owners, Marks, Containers, files, world
  <2>8. NothingIsOrphaned'
    BY <2>2, <2>3, <2>6 DEF LabInv, NothingIsOrphaned, Exists, Gone, files, world
  <2>9. \A s \in Sessions : \A q \in session[s].todo \cap Runtimes :
          runtime[q] # Stranger => runtime'[q] # Stranger
    BY <2>3, <2>5
  <2> QED
    BY <2>3, <2>5, <2>6, <2>7, <2>8, <2>9, BesidesIt DEF world
<1> QED
  BY <1>1, <1>2

\* The strangers.
LEMMA StrangersKeep ==
  ASSUME LabInv, ForeignAppears \/ ForeignLeaves
  PROVE  LabInv'
<1> USE DEF Foreign
<1>1. UNCHANGED <<files, session, owners>>
  BY DEF ForeignAppears, ForeignLeaves, Mishap, world
<1>2. Foreign \notin Owners /\ Stranger.owner = Foreign /\ Stranger.state = "exited"
      /\ Gone.owner = Foreign /\ Gone.state = "none"
      /\ Stranger \in Containers /\ Gone \in Containers
  BY DEF Owners, Stranger, Gone, Containers, Marks
<1>3. CASE emulator' \in {Gone, Stranger} /\ UNCHANGED <<network, runtime, service>>
  <2>1. emulator' \in [state : {"none", "created", "running", "exited"}, owner : Marks]
        /\ emulator'.owner = Foreign
        /\ emulator'.state \in {"none", "exited"}
    BY <1>3 DEF Gone, Stranger, Marks
  <2>2. LabTypeOK' /\ NothingIsOrphaned'
    BY <1>1, <1>3, <2>1 DEF LabInv, LabTypeOK, NothingIsOrphaned, Exists,
                      Owners, Marks, Containers, files
  <2> QED
    BY <1>1, <1>3, <2>1, <2>2, BesidesIt
<1>4. CASE network' \in {Nothing, Foreign} /\ UNCHANGED <<emulator, runtime, service>>
  <2>1. LabTypeOK' /\ NothingIsOrphaned'
    BY <1>1, <1>2, <1>4, LabAssumption
    DEF LabInv, LabTypeOK, NothingIsOrphaned, Exists, Owners, Marks, Containers, files
  <2> QED
    BY <1>1, <1>4, <2>1, BesidesIt
<1>5. ASSUME NEW r \in Runtimes, NEW c \in {Gone, Stranger},
             runtime' = [runtime EXCEPT ![r] = c], UNCHANGED <<emulator, network, service>>,
             c = Gone \/ Free(r)
      PROVE  LabInv'
  <2>1. runtime \in [Runtimes -> Containers]
    BY DEF LabInv, LabTypeOK
  <2>2. \A q \in Runtimes : runtime'[q] = IF q = r THEN c ELSE runtime[q]
    BY <1>5, <2>1
  <2>3. runtime' \in [Runtimes -> Containers]
    BY <1>2, <1>5, <2>1
  <2>4. LabTypeOK'
    BY <1>1, <1>2, <1>5, <2>2, <2>3 DEF LabInv, LabTypeOK, Owners, Marks, Containers, files
  <2>5. NothingIsOrphaned'
    BY <1>1, <1>2, <1>5, <2>2 DEF LabInv, NothingIsOrphaned, Exists, Owners, files
  <2>6. \A s \in Sessions : \A q \in session[s].todo \cap Runtimes :
          runtime[q] # Stranger => runtime'[q] # Stranger
    BY <1>2, <1>5, <2>2 DEF Free
  <2> QED
    BY <1>1, <1>2, <1>5, <2>2, <2>4, <2>5, <2>6, BesidesIt
<1>6. ASSUME NEW k \in Kinds, service[k] \in {"none"} \cup Strangers, NEW v,
             v = "foreign" => ~Provisioning,
             service' = [service EXCEPT ![k] = v], UNCHANGED docker
      PROVE  LabInv'
  <2>1. LabTypeOK' /\ NothingIsOrphaned'
    BY <1>1, <1>6 DEF LabInv, LabTypeOK, NothingIsOrphaned, Exists,
                      Owners, Marks, Containers, files, docker
  <2>2. \A e \in Kinds : /\ service[e] \notin {"none"} \cup Strangers
                            => service'[e] \notin {"none"} \cup Strangers
                         /\ Provisioning /\ service[e] # "foreign" => service'[e] # "foreign"
    BY <1>6 DEF LabInv, LabTypeOK
  <2> QED
    BY <1>1, <1>6, <2>1, <2>2, BesidesIt DEF docker
<1>7. CASE ForeignAppears
  BY <1>3, <1>4, <1>5, <1>6, <1>7 DEF ForeignAppears
<1>8. CASE ForeignLeaves
  BY <1>3, <1>4, <1>5, <1>6, <1>8 DEF ForeignLeaves
<1> QED
  BY <1>7, <1>8

\* The lock of a dead session is removed while nobody is at work.
LEMMA StaleLockKeeps ==
  ASSUME LabInv, RemoveStaleLock
  PROVE  LabInv'
<1>1. \A s \in Sessions : session[s].pc = "closed"
  BY LabAssumption DEF RemoveStaleLock, LabInv, OneSession
<1> QED
  BY <1>1 DEF RemoveStaleLock, LabInv, LabTypeOK, NothingIsOrphaned, OneSession, Exists, Owners,
              Marks, Containers, docker, world
-----------------------------------------------------------------------------
\* Every step keeps the invariant, and a step of a session what strangers made.
ServicesSafe ==
  \A k \in Kinds : service[k] \in Strangers /\ emulator'.state = "running" =>
    \/ service'[k] = service[k]
    \/ service'[k] = "none" /\ session' = session
    \/ /\ service[k] = "late" /\ k \in Upserted
       /\ \E s \in Sessions : session[s].pc = "create"

LEMMA LabStepKeeps ==
  ASSUME LabInv, [LabNext]_labVars
  PROVE  LabInv' /\ (session' # session => Untouched) /\ ServicesSafe
<1>1. CASE UNCHANGED labVars
  BY <1>1 DEF labVars, LabInv, LabTypeOK, NothingIsOrphaned, OneSession, Relies, OnDisk,
              ServicesSafe, Exists, Owners, Marks, Containers
<1>2. ASSUME NEW s \in Sessions, Operate(s)
      PROVE  LabInv' /\ Untouched
  <2>1. CASE \E op \in Operations : Open(s, op)
    BY <2>1, OpeningKeeps
  <2>2. CASE Up(s)
    BY <2>2, LookingKeeps, SavingKeeps, UpKeeps DEF Up
  <2>3. CASE BeginCommand(s) \/ ProvisionSteps(s)
    BY <2>3, LookingKeeps, LearningKeeps, SavingKeeps, RoutingKeeps, ServicesKeep
    DEF ProvisionSteps
  <2>4. CASE ResetSteps(s)
    BY <2>4, LookingKeeps, LearningKeeps, SavingKeeps, RoutingKeeps, ServicesKeep DEF ResetSteps
  <2>5. CASE Cleanup(s)
    BY <2>5, LookingKeeps, LearningKeeps, RuntimesKeep DEF Cleanup
  <2>6. CASE DownSteps(s)
    BY <2>6, LookingKeeps, RoutingKeeps, DownKeeps DEF DownSteps
  <2>7. CASE Throw(s)
    BY <2>7, FailingKeeps
  <2> QED
    BY <1>2, <2>1, <2>2, <2>3, <2>4, <2>5, <2>6, <2>7 DEF Operate, Work, Operations
<1>3. ASSUME NEW s \in Sessions, Killed(s)
      PROVE  LabInv' /\ Untouched
  BY <1>3, FailingKeeps
<1>4. CASE (\E r \in Runtimes : Spawn(r) \/ Reap(r) \/ Removed(r)) \/ EmulatorDies
  <2>1. UNCHANGED session /\ (UNCHANGED service \/ emulator'.state # "running")
    BY <1>4 DEF Spawn, Reap, Removed, EmulatorDies, LabInv, LabTypeOK
  <2> QED
    BY <1>4, <2>1, EmulatorKeeps DEF ServicesSafe
<1>5. CASE ForeignAppears \/ ForeignLeaves
  <2>1. UNCHANGED session /\ \A k \in Kinds : \/ service'[k] \in {service[k], "none"}
                                             \/ service[k] = "none"
    BY <1>5 DEF ForeignAppears, ForeignLeaves, LabInv, LabTypeOK
  <2> QED
    BY <1>5, <2>1, StrangersKeep DEF ServicesSafe, Strangers
<1>6. CASE RemoveStaleLock
  BY <1>6, StaleLockKeeps DEF RemoveStaleLock, ServicesSafe
<1>7. CASE Leave
  BY <1>7 DEF Leave, LabInv, LabTypeOK, NothingIsOrphaned, OneSession, Relies, OnDisk, ServicesSafe,
              Exists, Owners, Marks, Containers, files, docker
<1>8. Untouched => ServicesSafe
  BY DEF Untouched, ServicesUntouched, ServicesSafe
<1> QED
  BY <1>1, <1>2, <1>3, <1>4, <1>5, <1>6, <1>7, <1>8 DEF LabNext, Surroundings

LEMMA LabStarts ==
  ASSUME LabInit
  PROVE  LabInv
<1>1. Closed \in Locals
  BY DEF Closed, Locals, Steps
<1>2. Gone.state = "none" /\ Gone.owner = Foreign
      /\ Gone \in Containers
      /\ Gone \in [state : {"none", "created", "running", "exited"}, owner : Marks]
  BY DEF Gone, Containers, Marks
<1>3. LabTypeOK
  BY <1>2 DEF LabInit, LabTypeOK
<1>4. NothingIsOrphaned
  BY DEF LabInit, NothingIsOrphaned
<1>5. OneSession /\ \A s \in Sessions : session[s].pc = "closed"
  BY <1>1 DEF LabInit, OneSession, Closed
<1> QED
  BY <1>3, <1>4, <1>5 DEF LabInv

\* Whatever of the lab exists, its manifest is on disk, so it can always be torn down and
\* never has two owners: wherever an up or a down of openLab's sessions is killed, and
\* whatever the emulator, its runtimes and strangers do, for any number of sessions,
\* runtimes, owners and failures.
THEOREM LabIsNeverOrphaned == LabSpec => []NothingIsOrphaned
<1>1. LabInit => LabInv
  BY LabStarts
<1>2. LabInv /\ [LabNext]_labVars => LabInv'
  BY LabStepKeeps
<1>3. LabInv => NothingIsOrphaned
  BY DEF LabInv
<1> QED
  BY <1>1, <1>2, <1>3, PTL DEF LabSpec

\* No step of a session touches a container, a network or a service that somebody else
\* made under the lab's names, also one that appeared after the inspection, with one
\* exception: a bucket, a queue or a rule that appears between the inspection of a
\* provisioning and the call that makes its namesake is taken over by that call.
THEOREM StrangersAreSafe == LabSpec => ForeignIsUntouched
<1>1. LabInit => LabInv
  BY LabStarts
<1>2. LabInv /\ [LabNext]_labVars => LabInv'
  BY LabStepKeeps
<1>3. LabInv /\ [LabNext]_labVars =>
        [/\ session' # session =>
              /\ emulator = Stranger => emulator' = emulator
              /\ network = Foreign => network' = network
              /\ \A r \in Runtimes : runtime[r] = Stranger => runtime'[r] = Stranger
         /\ \A k \in Kinds : service[k] \in Strangers /\ emulator'.state = "running" =>
              \/ service'[k] = service[k]
              \/ service'[k] = "none" /\ session' = session
              \/ /\ service[k] = "late" /\ k \in Upserted
                 /\ \E s \in Sessions : session[s].pc = "create"]_labVars
  BY LabStepKeeps DEF Untouched, ServicesSafe
<1> QED
  BY <1>1, <1>2, <1>3, PTL DEF LabSpec, ForeignIsUntouched
=============================================================================
