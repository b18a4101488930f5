-------------------------- MODULE WorkRecordsProofs --------------------------
(* Inductive invariants of the parts of Workbench that start work for a turn  *)
(* or keep its record: coding tasks, memory, background commands, requests to *)
(* teammates, and traces.                                                     *)
EXTENDS CodingTasks, BackgroundTasks, Protocols, Memory, Traces,
        TLAPS, FiniteSetTheorems, SequenceTheorems, WellFoundedInduction

---------------------------------------------------------------------------
(* Coding tasks *)

JobSteps == {"run", "promote", "append", "save", "diff", "done", "raised"}
FindingLists == [promoted : SUBSET Findings, skipped : SUBSET Findings, rejected : SUBSET Findings]
SnapshotsOfSources == UNION {[S -> Nat] : S \in SUBSET Sources}
Job == [step : JobSteps, before : SnapshotsOfSources, learnt : SUBSET Findings, lists : FindingLists,
        next : Findings \cup {"none"}, touched : SUBSET Sources, others : SUBSET Sources]

CodingTypes ==
    /\ work \in [CodingJobs -> Job \cup {NotStarted}]
    /\ review \in Seq(Findings)
    /\ tree \in [Sources -> Nat] /\ edits \in Nat
    /\ DOMAIN archived = CodingJobs /\ DOMAIN session = CodingJobs /\ DOMAIN report = CodingJobs

Begun(t) == work[t] # NotStarted
ListsOf(t) == UNION {work[t].lists.promoted, work[t].lists.skipped, work[t].lists.rejected}

\* What a task's lists call promoted or skipped is in PENDING.md, and its lists are
\* of what it has learnt.
ListsAreFiled(t) ==
    Begun(t) => /\ work[t].lists.promoted \cup work[t].lists.skipped \subseteq ToSet(review)
                /\ ListsOf(t) \subseteq work[t].learnt
                /\ Working(t) = "append" => work[t].next \in work[t].learnt

\* A file that nobody has touched since the task began is as its first snapshot has it.
Untouched(t, p) == /\ tree[p] # 0 <=> p \in DOMAIN work[t].before
                   /\ tree[p] # 0 => work[t].before[p] = tree[p]
TouchesAreKnown(t) == Begun(t) => \A p \in Sources : p \in work[t].touched \cup work[t].others \/ Untouched(t, p)

\* What is written of a task, from one step of run_coding_task to the next.
FiledFor(t) ==
    /\ ~Begun(t) \/ Working(t) \in {"run", "promote", "append"} => archived[t] = Unfiled
    /\ Begun(t) /\ Working(t) \in {"save", "diff", "done"} =>
           /\ work[t].learnt = ListsOf(t)
           /\ archived[t] = Unfiled \/ archived[t].lists = work[t].lists
    /\ Begun(t) /\ Working(t) \in {"diff", "done"} =>
           session[t] = [status |-> "completed", artifacts |-> archived[t].status]
ReportIsOf(t) ==
    report[t].status = "completed" =>
        /\ Begun(t) /\ Working(t) = "done" /\ report[t].lists = work[t].lists
        /\ DiffTells(t)

\* Who is about to append a finding that is there by now, or that another is about to
\* append as well, is noted in appending.
AppendsAreNoted ==
    /\ \A t \in CodingJobs : Begun(t) /\ Working(t) = "append" =>
           /\ work[t].next \in Findings
           /\ work[t].next \in ToSet(review) => work[t].next \in appending
    /\ \A t, o \in CodingJobs : /\ t # o /\ Begun(t) /\ Begun(o)
                                /\ Working(t) = "append" /\ Working(o) = "append" /\ work[t].next = work[o].next
                                => work[t].next \in appending
OnceUnlessNoted == \A i, j \in DOMAIN review : i # j /\ review[i] = review[j] => review[i] \in appending

TaskInv(t) == ListsAreFiled(t) /\ TouchesAreKnown(t) /\ FiledFor(t) /\ ReportIsOf(t)
CodingInv == CodingTypes /\ (\A t \in CodingJobs : TaskInv(t)) /\ AppendsAreNoted /\ OnceUnlessNoted

LEMMA NotBegun == NotStarted \notin Job /\ NotStarted.step = "none"
BY DEF NotStarted, Job, JobSteps

\* The steps of a task, one lemma for what all of them keep.
LEMMA CodingStart == CodingInit => CodingInv
<1> SUFFICES ASSUME CodingInit PROVE CodingInv
  OBVIOUS
<1> USE DEF CodingInit
<1>1. CodingTypes
  BY DEF CodingTypes
<1>2. \A t \in CodingJobs : ~Begun(t) /\ report[t].status # "completed"
  BY DEF Begun, Unfiled
<1>3. \A t \in CodingJobs : TaskInv(t)
  BY <1>2 DEF TaskInv, ListsAreFiled, TouchesAreKnown, FiledFor, ReportIsOf
<1> QED BY <1>1, <1>2, <1>3 DEF CodingInv, AppendsAreNoted, OnceUnlessNoted

LEMMA CodingStutters == CodingInv /\ UNCHANGED codingVars => CodingInv'
BY DEF CodingInv, CodingTypes, TaskInv, ListsAreFiled, TouchesAreKnown, FiledFor, ReportIsOf, AppendsAreNoted,
       OnceUnlessNoted, codingVars, Begun, ListsOf, Untouched, Working, DiffTells

\* What is appended to a list is in it, behind all that was there.
LEMMA Appended ==
  ASSUME NEW S, NEW s \in Seq(S), NEW e \in S
  PROVE  /\ Append(s, e) \in Seq(S) /\ ToSet(Append(s, e)) = ToSet(s) \cup {e}
         /\ DOMAIN Append(s, e) = DOMAIN s \cup {Len(s) + 1} /\ Append(s, e)[Len(s) + 1] = e
         /\ \A i \in DOMAIN s : Append(s, e)[i] = s[i]
<1>1. /\ Append(s, e) \in Seq(S)
      /\ DOMAIN Append(s, e) = DOMAIN s \cup {Len(s) + 1} /\ Append(s, e)[Len(s) + 1] = e
      /\ \A i \in DOMAIN s : Append(s, e)[i] = s[i]
  OBVIOUS
<1> DEFINE t == Append(s, e)
           n == Len(s) + 1
<1>2. DOMAIN t = DOMAIN s \cup {n} /\ t[n] = e /\ \A i \in DOMAIN s : t[i] = s[i]
  BY <1>1
<1> HIDE DEF t, n
<1>3. ToSet(t) = ToSet(s) \cup {e}
  BY <1>2 DEF ToSet
<1> QED BY <1>1, <1>3 DEF t

\* A task that a step leaves alone.
LEMMA OthersStay ==
  ASSUME NEW o \in CodingJobs, TaskInv(o), work'[o] = work[o], archived'[o] = archived[o], session'[o] = session[o],
         report'[o] = report[o], tree' = tree, ToSet(review) \subseteq ToSet(review')
  PROVE  TaskInv(o)'
BY DEF TaskInv, ListsAreFiled, TouchesAreKnown, FiledFor, ReportIsOf, Begun, ListsOf, Untouched, Working, DiffTells

\* Where a task is not about to append before, and is not after, nothing is to be noted.
LEMMA NotAppending ==
  ASSUME NEW t \in CodingJobs, AppendsAreNoted, OnceUnlessNoted, review' = review, appending \subseteq appending',
         \A o \in CodingJobs \ {t} : work'[o] = work[o] \/ (~Begun(o)' \/ Working(o)' # "append"),
         ~Begun(t)' \/ Working(t)' # "append"
  PROVE  AppendsAreNoted' /\ OnceUnlessNoted'
<1>1. \A o \in CodingJobs : Begun(o)' /\ Working(o)' = "append" => o # t /\ work'[o] = work[o] /\ Begun(o) /\ Working(o) = "append"
  BY DEF Begun, Working
<1> QED BY <1>1 DEF AppendsAreNoted, OnceUnlessNoted

LEMMA StartCoding == ASSUME CodingInv, NEW t \in CodingJobs, StartTask(t) PROVE CodingInv'
<1> USE NotBegun DEF StartTask, outputs
<1> DEFINE fresh == [step |-> "run", before |-> Snapshot, learnt |-> {}, lists |-> NoConclusions,
                     next |-> "none", touched |-> {}, others |-> {}]
<1>1. fresh \in Job
  <2>1. Snapshot \in SnapshotsOfSources
    <3> DEFINE S == {q \in Sources : tree[q] # 0}
    <3>1. S \in SUBSET Sources /\ Snapshot \in [S -> Nat]
      BY DEF Snapshot, CodingInv, CodingTypes
    <3> QED BY <3>1 DEF SnapshotsOfSources
  <2> QED BY <2>1 DEF Job, JobSteps, NoConclusions, FindingLists
<1>2. /\ fresh.step = "run" /\ fresh.touched = {} /\ fresh.others = {} /\ fresh.before = Snapshot
      /\ fresh.lists.promoted = {} /\ fresh.lists.skipped = {} /\ fresh.lists.rejected = {} /\ fresh.learnt = {}
  BY DEF NoConclusions
<1>3. work' = [work EXCEPT ![t] = fresh]
  OBVIOUS
<1> HIDE DEF fresh
<1>4. CodingTypes'
  <2>1. work' \in [CodingJobs -> Job \cup {NotStarted}]
    BY <1>1, <1>3 DEF CodingInv, CodingTypes
  <2>2. DOMAIN report' = CodingJobs
    BY DEF CodingInv, CodingTypes
  <2> QED BY <2>1, <2>2 DEF CodingInv, CodingTypes
<1>5. work'[t] = fresh /\ report'[t].status = "running" /\ work[t] = NotStarted
      /\ \A o \in CodingJobs \ {t} : work'[o] = work[o] /\ report'[o] = report[o]
  BY <1>3 DEF CodingInv, CodingTypes
<1>6. TaskInv(t)'
  <2>1. \A p \in Sources : Untouched(t, p)'
    BY <1>2, <1>5 DEF Untouched, Snapshot
  <2>2. ListsAreFiled(t)' /\ TouchesAreKnown(t)'
    BY <1>2, <1>5, <2>1 DEF ListsAreFiled, TouchesAreKnown, ListsOf, Working
  <2>3. archived[t] = Unfiled
    BY <1>5 DEF CodingInv, TaskInv, FiledFor, Begun
  <2> QED BY <1>2, <1>5, <2>2, <2>3 DEF TaskInv, FiledFor, ReportIsOf, Working
<1>7. \A o \in CodingJobs : TaskInv(o)'
  BY <1>5, <1>6, OthersStay DEF CodingInv
<1>8. AppendsAreNoted' /\ OnceUnlessNoted'
  BY <1>2, <1>5, NotAppending DEF CodingInv, Working
<1> QED BY <1>4, <1>7, <1>8 DEF CodingInv

SameButTouched(o) ==
    /\ work'[o].step = work[o].step /\ work'[o].before = work[o].before /\ work'[o].learnt = work[o].learnt
    /\ work'[o].lists = work[o].lists /\ work'[o].next = work[o].next

LEMMA EditCoding == ASSUME CodingInv, NEW t \in CodingJobs, NEW p \in Sources, EditSource(t, p) PROVE CodingInv'
<1>1. ASSUME NEW o \in CodingJobs
      PROVE  /\ Begun(o)' <=> Begun(o)
             /\ Begun(o) => /\ work'[o] \in Job /\ SameButTouched(o)
                            /\ work'[o].touched \cup work'[o].others = work[o].touched \cup work[o].others \cup {p}
  <2>1. work[o] \in Job \/ work[o] = NotStarted
    BY DEF CodingInv, CodingTypes
  <2>2. work[t] \in Job
    BY NotBegun DEF EditSource, Working, CodingInv, CodingTypes
  <2>3. \/ work[o] = NotStarted /\ work'[o] = NotStarted
        \/ work[o] \in Job /\ work'[o] = [work[o] EXCEPT !.touched = @ \cup {p}]
        \/ work[o] \in Job /\ work'[o] = [work[o] EXCEPT !.others = @ \cup {p}]
    BY <2>1, <2>2 DEF EditSource
  <2>4. ASSUME NEW j \in Job
        PROVE  /\ [j EXCEPT !.touched = @ \cup {p}] \in Job /\ [j EXCEPT !.others = @ \cup {p}] \in Job
    BY DEF Job
  <2>5. CASE work[o] = NotStarted /\ work'[o] = NotStarted
    BY <2>5 DEF Begun
  <2>6. ASSUME work[o] \in Job, work'[o] \in Job PROVE Begun(o) /\ Begun(o)'
    BY <2>6, NotBegun DEF Begun
  <2>7. CASE work[o] \in Job /\ work'[o] = [work[o] EXCEPT !.touched = @ \cup {p}]
    <3>1. work'[o] \in Job
      BY <2>4, <2>7
    <3>2. SameButTouched(o) /\ work'[o].touched \cup work'[o].others = work[o].touched \cup work[o].others \cup {p}
      BY <2>7 DEF SameButTouched, Job
    <3> QED BY <2>6, <2>7, <3>1, <3>2
  <2>8. CASE work[o] \in Job /\ work'[o] = [work[o] EXCEPT !.others = @ \cup {p}]
    <3>1. work'[o] \in Job
      BY <2>4, <2>8
    <3>2. SameButTouched(o) /\ work'[o].touched \cup work'[o].others = work[o].touched \cup work[o].others \cup {p}
      BY <2>8 DEF SameButTouched, Job
    <3> QED BY <2>6, <2>8, <3>1, <3>2
  <2> QED BY <2>3, <2>5, <2>7, <2>8
<1>2. CodingTypes'
  <2>1. \A o \in CodingJobs : work'[o] \in Job \cup {NotStarted}
    BY <1>1 DEF Begun
  <2> QED BY <2>1 DEF CodingInv, CodingTypes, EditSource, outputs
<1>3. \A q \in Sources : q # p => tree'[q] = tree[q]
  BY DEF CodingInv, CodingTypes, EditSource
<1>4. UNCHANGED <<review, archived, session, report, appending>>
  BY DEF EditSource, outputs
<1>5. ASSUME NEW o \in CodingJobs PROVE TaskInv(o)'
  <2>1. TaskInv(o)
    BY DEF CodingInv
  <2>2. CASE ~Begun(o)
    BY <1>1, <1>4, <2>1, <2>2 DEF TaskInv, ListsAreFiled, TouchesAreKnown, FiledFor, ReportIsOf
  <2>3. CASE Begun(o)
    <3>1. TouchesAreKnown(o)'
      BY <1>1, <1>3, <2>1, <2>3 DEF SameButTouched, TaskInv, TouchesAreKnown, Untouched
    <3>2. ListsAreFiled(o)' /\ FiledFor(o)'
      BY <1>1, <1>4, <2>1, <2>3 DEF SameButTouched, TaskInv, ListsAreFiled, FiledFor, ListsOf, Working
    <3>3. ReportIsOf(o)'
      BY <1>1, <1>4, <2>1, <2>3 DEF SameButTouched, TaskInv, ReportIsOf, DiffTells, Working
    <3> QED BY <3>1, <3>2, <3>3 DEF TaskInv
  <2> QED BY <2>2, <2>3
<1>6. \A o \in CodingJobs : Begun(o)' => Begun(o) /\ work'[o].step = work[o].step /\ work'[o].next = work[o].next
  BY <1>1 DEF SameButTouched
<1>7. AppendsAreNoted' /\ OnceUnlessNoted'
  BY <1>4, <1>6 DEF CodingInv, AppendsAreNoted, OnceUnlessNoted, Working
<1> QED BY <1>2, <1>5, <1>7 DEF CodingInv

\* A step of one task: the workspace and the outputs of the others stay.
TaskMoves(t) ==
    /\ work' \in [CodingJobs -> Job \cup {NotStarted}] /\ work'[t] \in Job
    /\ work'[t].before = work[t].before /\ work'[t].touched = work[t].touched /\ work'[t].others = work[t].others
    /\ \A o \in CodingJobs \ {t} : /\ work'[o] = work[o] /\ archived'[o] = archived[o]
                                   /\ session'[o] = session[o] /\ report'[o] = report[o]
    /\ DOMAIN archived' = CodingJobs /\ DOMAIN session' = CodingJobs /\ DOMAIN report' = CodingJobs
    /\ UNCHANGED <<tree, edits>>

LEMMA TaskMoved ==
  ASSUME CodingInv, NEW t \in CodingJobs, work[t] \in Job, TaskMoves(t),
         ToSet(review) \subseteq ToSet(review'), review' \in Seq(Findings)
  PROVE  /\ CodingTypes' /\ TouchesAreKnown(t)' /\ \A o \in CodingJobs \ {t} : TaskInv(o)'
<1>1. CodingTypes'
  BY DEF CodingInv, CodingTypes, TaskMoves
<1>2. TouchesAreKnown(t)'
  BY NotBegun DEF CodingInv, TaskInv, TouchesAreKnown, Untouched, Begun, TaskMoves
<1>3. ASSUME NEW o \in CodingJobs \ {t} PROVE TaskInv(o)'
  BY <1>3, OthersStay DEF CodingInv, TaskMoves
<1> QED BY <1>1, <1>2, <1>3

LEMMA OneJobMoves ==
  ASSUME CodingInv, NEW t \in CodingJobs, NEW j \in Job, work' = [work EXCEPT ![t] = j], UNCHANGED <<tree, edits, outputs>>,
         j.before = work[t].before, j.touched = work[t].touched, j.others = work[t].others
  PROVE  TaskMoves(t) /\ Begun(t)' /\ work'[t] = j
<1>1. work \in [CodingJobs -> Job \cup {NotStarted}]
  BY DEF CodingInv, CodingTypes
<1>2. work' \in [CodingJobs -> Job \cup {NotStarted}] /\ work'[t] = j /\ \A o \in CodingJobs \ {t} : work'[o] = work[o]
  BY <1>1
<1>3. DOMAIN archived = CodingJobs /\ DOMAIN session = CodingJobs /\ DOMAIN report = CodingJobs
  BY DEF CodingInv, CodingTypes
<1>4. TaskMoves(t)
  BY <1>2, <1>3 DEF TaskMoves, outputs
<1> QED BY <1>2, <1>4, NotBegun DEF Begun

LEMMA AtWorkIsJob ==
  ASSUME CodingInv, NEW t \in CodingJobs, Working(t) # "none"
  PROVE  work[t] \in Job /\ Begun(t) /\ TaskInv(t)
BY NotBegun DEF CodingInv, CodingTypes, Working, Begun

LEMMA MemorizeCoding ==
  ASSUME CodingInv, NEW t \in CodingJobs, NEW more \in SUBSET Findings, NEW step \in {"run", "promote"}, Working(t) = "run",
         work' = [work EXCEPT ![t].step = step, ![t].learnt = @ \cup more],
         UNCHANGED <<review, tree, edits, outputs, appending>>
  PROVE  CodingInv'
<1>1. work[t] \in Job /\ Begun(t) /\ TaskInv(t)
  BY AtWorkIsJob
<1>2. work \in [CodingJobs -> Job \cup {NotStarted}]
  BY DEF CodingInv, CodingTypes
<1> DEFINE j == [work[t] EXCEPT !.step = step, !.learnt = @ \cup more]
<1>3. j \in Job /\ j.step = step /\ j.lists = work[t].lists /\ j.learnt = work[t].learnt \cup more
      /\ j.before = work[t].before /\ j.touched = work[t].touched /\ j.others = work[t].others
  BY <1>1 DEF Job, JobSteps
<1>4. work' = [work EXCEPT ![t] = j]
  BY <1>1, <1>2
<1> HIDE DEF j
<1>5. TaskMoves(t) /\ Begun(t)' /\ work'[t] = j
  BY <1>3, <1>4, OneJobMoves
<1>6. CodingTypes' /\ TouchesAreKnown(t)' /\ \A o \in CodingJobs \ {t} : TaskInv(o)'
  BY <1>1, <1>5, TaskMoved DEF CodingInv, CodingTypes
<1>7. ListsAreFiled(t)' /\ FiledFor(t)'
  BY <1>1, <1>3, <1>5 DEF TaskInv, ListsAreFiled, FiledFor, Working, outputs, ListsOf
<1>8. ReportIsOf(t)'
  BY <1>1 DEF TaskInv, ReportIsOf, outputs
<1>9. AppendsAreNoted' /\ OnceUnlessNoted'
  BY <1>3, <1>5, NotAppending DEF CodingInv, TaskMoves, Working
<1> QED BY <1>6, <1>7, <1>8, <1>9 DEF CodingInv, TaskInv

\* A task that fails, by itself or with its process, keeps what it has written.
LEMMA RaiseCoding ==
  ASSUME CodingInv, \A o \in CodingJobs : \/ work'[o] = work[o]
                                          \/ /\ Working(o) \in {"run", "promote", "append", "save", "diff"}
                                             /\ work'[o] = [work[o] EXCEPT !.step = "raised"],
         DOMAIN work' = CodingJobs, work' = [o \in CodingJobs |-> work'[o]],
         UNCHANGED <<review, tree, edits, outputs, appending>>
  PROVE  CodingInv'
<1>1. ASSUME NEW o \in CodingJobs, work'[o] # work[o]
      PROVE  /\ work[o] \in Job /\ Begun(o) /\ work'[o] \in Job /\ Begun(o)' /\ work'[o].step = "raised"
             /\ work'[o].lists = work[o].lists /\ work'[o].learnt = work[o].learnt /\ work'[o].before = work[o].before
             /\ work'[o].touched = work[o].touched /\ work'[o].others = work[o].others
             /\ Working(o) # "done"
  <2>1. work[o] \in Job /\ Begun(o) /\ work'[o] = [work[o] EXCEPT !.step = "raised"] /\ Working(o) # "done"
    BY <1>1, AtWorkIsJob
  <2>2. [work[o] EXCEPT !.step = "raised"] \in Job
    BY <2>1 DEF Job, JobSteps
  <2> QED BY <2>1, <2>2, NotBegun DEF Job, Begun
<1>2. CodingTypes'
  <2>1. \A o \in CodingJobs : work'[o] \in Job \cup {NotStarted}
    BY <1>1 DEF CodingInv, CodingTypes
  <2> QED BY <2>1 DEF CodingInv, CodingTypes, outputs
<1>3. ASSUME NEW o \in CodingJobs PROVE TaskInv(o)'
  <2>1. TaskInv(o)
    BY DEF CodingInv
  <2>2. CASE work'[o] = work[o]
    BY <2>1, <2>2, OthersStay DEF outputs
  <2>3. CASE work'[o] # work[o]
    <3>1. ListsAreFiled(o)' /\ TouchesAreKnown(o)'
      BY <1>1, <2>1, <2>3 DEF TaskInv, ListsAreFiled, TouchesAreKnown, Untouched, ListsOf, Working
    <3>2. FiledFor(o)' /\ ReportIsOf(o)'
      BY <1>1, <2>1, <2>3 DEF TaskInv, FiledFor, ReportIsOf, Working, outputs
    <3> QED BY <3>1, <3>2 DEF TaskInv
  <2> QED BY <2>2, <2>3
<1>4. \A o \in CodingJobs : Begun(o)' /\ Working(o)' = "append" => work'[o] = work[o]
  BY <1>1 DEF Working
<1>5. AppendsAreNoted' /\ OnceUnlessNoted'
  BY <1>4 DEF CodingInv, AppendsAreNoted, OnceUnlessNoted, Begun, Working
<1> QED BY <1>2, <1>3, <1>5 DEF CodingInv

\* The promoter rejects a finding, or finds it in PENDING.md.
LEMMA ListCoding ==
  ASSUME CodingInv, NEW t \in CodingJobs, NEW f \in Left(t), Working(t) = "promote",
         work' = Listed(t, "rejected", f) \/ (f \in ToSet(review) /\ work' = Listed(t, "skipped", f)),
         appending \subseteq appending', UNCHANGED <<review, tree, edits, outputs>>
  PROVE  CodingInv'
<1>1. work[t] \in Job /\ Begun(t) /\ TaskInv(t)
  BY AtWorkIsJob
<1>2. work \in [CodingJobs -> Job \cup {NotStarted}] /\ f \in Findings /\ f \in work[t].learnt
  BY <1>1 DEF CodingInv, CodingTypes, Left, Job
<1> DEFINE j(list) == [work[t] EXCEPT !.lists[list] = @ \cup {f}]
<1>3. ASSUME NEW list \in {"rejected", "skipped"}
      PROVE  /\ j(list) \in Job /\ j(list).step = "promote"
             /\ j(list).before = work[t].before /\ j(list).touched = work[t].touched /\ j(list).others = work[t].others
             /\ j(list).learnt = work[t].learnt
             /\ \A k \in {"promoted", "skipped", "rejected"} : j(list).lists[k] \subseteq work[t].lists[k] \cup {f}
             /\ j(list).lists.promoted = work[t].lists.promoted
             /\ j("rejected").lists.skipped = work[t].lists.skipped
             /\ j("skipped").lists.skipped = work[t].lists.skipped \cup {f}
  BY <1>1, <1>2 DEF Job, FindingLists, Working
<1>4. work' = [work EXCEPT ![t] = j("rejected")] \/ (f \in ToSet(review) /\ work' = [work EXCEPT ![t] = j("skipped")])
  BY <1>1, <1>2 DEF Listed
<1> HIDE DEF j
<1>5. TaskMoves(t) /\ Begun(t)'
  BY <1>2, <1>3, <1>4, NotBegun DEF TaskMoves, outputs, Begun, CodingInv, CodingTypes
<1>6. /\ work'[t].step = "promote" /\ work'[t].lists.promoted \cup work'[t].lists.skipped \subseteq ToSet(review)
      /\ ListsOf(t)' \subseteq work'[t].learnt
  BY <1>1, <1>2, <1>3, <1>4 DEF TaskInv, ListsAreFiled, ListsOf
<1>7. CodingTypes' /\ TouchesAreKnown(t)' /\ \A o \in CodingJobs \ {t} : TaskInv(o)'
  BY <1>1, <1>5, TaskMoved DEF CodingInv, CodingTypes
<1>8. ListsAreFiled(t)' /\ FiledFor(t)' /\ ReportIsOf(t)'
  BY <1>1, <1>5, <1>6 DEF TaskInv, ListsAreFiled, FiledFor, ReportIsOf, Working, outputs
<1>9. AppendsAreNoted' /\ OnceUnlessNoted'
  BY <1>5, <1>6, NotAppending DEF CodingInv, TaskMoves, Working
<1> QED BY <1>7, <1>8, <1>9 DEF CodingInv, TaskInv

\* It is about to append it.
LEMMA DecideCoding ==
  ASSUME CodingInv, NEW t \in CodingJobs, NEW f \in Findings, Promote(t, f),
         work' = [work EXCEPT ![t].step = "append", ![t].next = f], f \notin ToSet(review)
  PROVE  CodingInv'
<1>1. work[t] \in Job /\ Begun(t) /\ TaskInv(t) /\ Working(t) = "promote"
  BY AtWorkIsJob DEF Promote
<1>2. work \in [CodingJobs -> Job \cup {NotStarted}]
  BY DEF CodingInv, CodingTypes
<1> DEFINE j == [work[t] EXCEPT !.step = "append", !.next = f]
<1>3. j \in Job /\ j.step = "append" /\ j.next = f /\ j.lists = work[t].lists /\ j.learnt = work[t].learnt /\ f \in j.learnt
      /\ j.before = work[t].before /\ j.touched = work[t].touched /\ j.others = work[t].others
  BY <1>1 DEF Job, JobSteps, Promote, Left
<1>4. work' = [work EXCEPT ![t] = j]
  BY <1>1, <1>2
<1> HIDE DEF j
<1>5. TaskMoves(t) /\ Begun(t)' /\ work'[t] = j
  <2>1. UNCHANGED <<tree, edits, outputs>>
    BY DEF Promote
  <2> QED BY <1>3, <1>4, <2>1, OneJobMoves
<1>6. CodingTypes' /\ TouchesAreKnown(t)' /\ \A o \in CodingJobs \ {t} : TaskInv(o)'
  BY <1>1, <1>5, TaskMoved DEF CodingInv, CodingTypes, Promote
<1>7. ListsAreFiled(t)' /\ FiledFor(t)' /\ ReportIsOf(t)'
  BY <1>1, <1>3, <1>5 DEF TaskInv, ListsAreFiled, FiledFor, ReportIsOf, Working, outputs, Promote, ListsOf
<1>8. /\ review' = review /\ appending \subseteq appending'
      /\ \A o \in CodingJobs \ {t} : /\ work'[o] = work[o]
                                     /\ Working(o) = "append" /\ work[o].next = f => f \in appending'
  <2>1. review' = review /\ appending \subseteq appending' /\ \A o \in CodingJobs \ {t} : work'[o] = work[o]
    BY <1>5 DEF Promote, TaskMoves
  <2>2. ASSUME NEW o \in CodingJobs \ {t}, Working(o) = "append", work[o].next = f PROVE f \in appending'
    BY <2>2 DEF Promote, AboutToAppend
  <2> QED BY <2>1, <2>2
<1>9. AppendsAreNoted'
  <2>1. \A o \in CodingJobs \ {t} : Begun(o)' /\ Working(o)' = "append" =>
            /\ Begun(o) /\ Working(o) = "append" /\ work'[o].next = work[o].next
            /\ work[o].next = f => f \in appending'
    BY <1>8 DEF Begun, Working
  <2>2. work'[t].next = f /\ f \in Findings /\ f \notin ToSet(review')
    BY <1>3, <1>5, <1>8
  <2>3. ASSUME NEW o \in CodingJobs, Begun(o)', Working(o)' = "append"
        PROVE  work'[o].next \in Findings /\ (work'[o].next \in ToSet(review') => work'[o].next \in appending')
    BY <1>8, <2>1, <2>2, <2>3 DEF CodingInv, AppendsAreNoted
  <2>4. ASSUME NEW o \in CodingJobs, NEW q \in CodingJobs, o # q, Begun(o)', Begun(q)',
               Working(o)' = "append", Working(q)' = "append", work'[o].next = work'[q].next
        PROVE  work'[o].next \in appending'
    <3>1. CASE o = t
      <4>1. Begun(q) /\ Working(q) = "append" /\ work'[q].next = work[q].next /\ work'[q].next = f
        BY <2>1, <2>2, <2>4, <3>1
      <4> QED BY <1>8, <2>4, <3>1, <4>1
    <3>2. CASE q = t
      <4>1. Begun(o) /\ Working(o) = "append" /\ work'[o].next = work[o].next /\ work'[o].next = f
        BY <2>1, <2>2, <2>4, <3>2
      <4> QED BY <1>8, <2>4, <3>2, <4>1
    <3>3. CASE o # t /\ q # t
      <4>1. work[o].next = work[q].next /\ Begun(o) /\ Begun(q) /\ Working(o) = "append" /\ Working(q) = "append"
        BY <2>1, <2>4, <3>3
      <4>2. work[o].next \in appending
        BY <2>4, <4>1 DEF CodingInv, AppendsAreNoted
      <4> QED BY <1>8, <2>1, <2>4, <3>3, <4>2
    <3> QED BY <3>1, <3>2, <3>3
  <2> QED BY <2>3, <2>4 DEF AppendsAreNoted
<1>10. OnceUnlessNoted'
  BY <1>8 DEF CodingInv, OnceUnlessNoted
<1> QED BY <1>6, <1>7, <1>9, <1>10 DEF CodingInv, TaskInv

LEMMA AppendCoding == ASSUME CodingInv, NEW t \in CodingJobs, PromoteAppend(t) PROVE CodingInv'
<1>1. work[t] \in Job /\ Begun(t) /\ TaskInv(t) /\ Working(t) = "append"
  BY AtWorkIsJob DEF PromoteAppend
<1>2. work \in [CodingJobs -> Job \cup {NotStarted}]
  BY DEF CodingInv, CodingTypes
<1> DEFINE f == work[t].next
           j == [work[t] EXCEPT !.lists["promoted"] = @ \cup {f}, !.step = "promote"]
<1>3. f \in Findings /\ (f \in ToSet(review) => f \in appending)
  BY <1>1 DEF CodingInv, AppendsAreNoted
<1>4. /\ j \in Job /\ j.step = "promote" /\ j.lists.promoted = work[t].lists.promoted \cup {f}
      /\ j.lists.skipped = work[t].lists.skipped /\ j.lists.rejected = work[t].lists.rejected
      /\ j.learnt = work[t].learnt /\ f \in j.learnt
      /\ j.before = work[t].before /\ j.touched = work[t].touched /\ j.others = work[t].others
  BY <1>1, <1>3 DEF Job, JobSteps, FindingLists, TaskInv, ListsAreFiled
<1>5. work' = [work EXCEPT ![t] = j] /\ review' = Append(review, f)
  BY <1>1, <1>2 DEF PromoteAppend, Listed
<1>6. \A o \in CodingJobs \ {t} : Begun(o) /\ Working(o) = "append" /\ work[o].next = f => f \in appending
  BY <1>1 DEF CodingInv, AppendsAreNoted
<1> HIDE DEF f, j
<1>7. TaskMoves(t) /\ Begun(t)' /\ work'[t] = j
  <2>1. UNCHANGED <<tree, edits, outputs>>
    BY DEF PromoteAppend
  <2> QED BY <1>4, <1>5, <2>1, OneJobMoves
<1>8. /\ review' \in Seq(Findings) /\ ToSet(review') = ToSet(review) \cup {f}
      /\ DOMAIN review' = DOMAIN review \cup {Len(review) + 1} /\ review'[Len(review) + 1] = f
      /\ \A i \in DOMAIN review : review'[i] = review[i]
  BY <1>3, <1>5, Appended DEF CodingInv, CodingTypes
<1>9. CodingTypes' /\ TouchesAreKnown(t)' /\ \A o \in CodingJobs \ {t} : TaskInv(o)'
  BY <1>1, <1>7, <1>8, TaskMoved
<1>10. ListsAreFiled(t)' /\ FiledFor(t)' /\ ReportIsOf(t)'
  <2>1. ListsAreFiled(t)'
    BY <1>1, <1>4, <1>7, <1>8 DEF TaskInv, ListsAreFiled, Working, ListsOf
  <2>2. FiledFor(t)' /\ ReportIsOf(t)'
    BY <1>1, <1>4, <1>7 DEF TaskInv, FiledFor, ReportIsOf, Working, outputs, PromoteAppend
  <2> QED BY <2>1, <2>2
<1>11. appending' = appending
  BY DEF PromoteAppend
<1>12. ASSUME NEW o \in CodingJobs, Begun(o)', Working(o)' = "append"
       PROVE  o # t /\ work'[o] = work[o] /\ Begun(o) /\ Working(o) = "append"
  BY <1>4, <1>7, <1>12 DEF TaskMoves, Begun, Working
<1>13. AppendsAreNoted'
  BY <1>6, <1>8, <1>11, <1>12 DEF CodingInv, AppendsAreNoted
<1>14. OnceUnlessNoted'
  <2>1. \A i \in DOMAIN review : review[i] = f => f \in appending
    BY <1>3 DEF ToSet
  <2> QED BY <1>8, <1>11, <2>1 DEF CodingInv, OnceUnlessNoted
<1> QED BY <1>9, <1>10, <1>13, <1>14 DEF CodingInv, TaskInv

\* The lists are complete, and written beside the task or not.
LEMMA ArchiveCoding == ASSUME CodingInv, NEW t \in CodingJobs, WriteTaskArtifacts(t) PROVE CodingInv'
<1>1. work[t] \in Job /\ Begun(t) /\ TaskInv(t) /\ Working(t) = "promote" /\ Left(t) = {}
  BY AtWorkIsJob DEF WriteTaskArtifacts
<1>2. work \in [CodingJobs -> Job \cup {NotStarted}]
  BY DEF CodingInv, CodingTypes
<1>3. work[t].learnt = ListsOf(t)
  BY <1>1 DEF Left, Lists, ListsOf, TaskInv, ListsAreFiled
<1> DEFINE j == [work[t] EXCEPT !.step = "save"]
<1>4. /\ j \in Job /\ j.step = "save" /\ j.lists = work[t].lists /\ j.learnt = work[t].learnt
      /\ j.before = work[t].before /\ j.touched = work[t].touched /\ j.others = work[t].others
  BY <1>1 DEF Job, JobSteps
<1>5. work' = [work EXCEPT ![t] = j]
  BY <1>1, <1>2 DEF WriteTaskArtifacts
<1> HIDE DEF j
<1>6. TaskMoves(t) /\ Begun(t)' /\ work'[t] = j
  BY <1>2, <1>4, <1>5, NotBegun DEF TaskMoves, Begun, CodingInv, CodingTypes, WriteTaskArtifacts
<1>7. CodingTypes' /\ TouchesAreKnown(t)' /\ \A o \in CodingJobs \ {t} : TaskInv(o)'
  BY <1>1, <1>6, TaskMoved DEF CodingInv, CodingTypes, WriteTaskArtifacts
<1>8. archived'[t] = Unfiled \/ archived'[t].lists = work[t].lists
  <2>1. archived[t] = Unfiled
    BY <1>1 DEF TaskInv, FiledFor
  <2>2. archived'[t] \in {archived[t], [status |-> "written", lists |-> Lists(t)]}
    BY DEF WriteTaskArtifacts, CodingInv, CodingTypes
  <2> QED BY <2>1, <2>2 DEF Lists

<1>9. ListsAreFiled(t)'
  BY <1>1, <1>4, <1>6 DEF TaskInv, ListsAreFiled, ListsOf, Working, WriteTaskArtifacts
<1>10. FiledFor(t)' /\ ReportIsOf(t)'
  BY <1>1, <1>3, <1>4, <1>6, <1>8 DEF TaskInv, FiledFor, ReportIsOf, Working, ListsOf, WriteTaskArtifacts
<1>11. AppendsAreNoted' /\ OnceUnlessNoted'
  BY <1>4, <1>6, NotAppending DEF CodingInv, TaskMoves, Working, WriteTaskArtifacts
<1> QED BY <1>7, <1>9, <1>10, <1>11 DEF CodingInv, TaskInv

LEMMA SaveCoding == ASSUME CodingInv, NEW t \in CodingJobs, SaveTask(t) PROVE CodingInv'
<1>1. work[t] \in Job /\ Begun(t) /\ TaskInv(t) /\ Working(t) = "save"
  BY AtWorkIsJob DEF SaveTask
<1>2. work \in [CodingJobs -> Job \cup {NotStarted}]
  BY DEF CodingInv, CodingTypes
<1> DEFINE j == [work[t] EXCEPT !.step = "diff"]
<1>3. /\ j \in Job /\ j.step = "diff" /\ j.lists = work[t].lists /\ j.learnt = work[t].learnt
      /\ j.before = work[t].before /\ j.touched = work[t].touched /\ j.others = work[t].others
  BY <1>1 DEF Job, JobSteps
<1>4. work' = [work EXCEPT ![t] = j]
  BY <1>1, <1>2 DEF SaveTask
<1> HIDE DEF j
<1>5. TaskMoves(t) /\ Begun(t)' /\ work'[t] = j
  BY <1>2, <1>3, <1>4, NotBegun DEF TaskMoves, Begun, CodingInv, CodingTypes, SaveTask
<1>6. CodingTypes' /\ TouchesAreKnown(t)' /\ \A o \in CodingJobs \ {t} : TaskInv(o)'
  BY <1>1, <1>5, TaskMoved DEF CodingInv, CodingTypes, SaveTask
<1>7. ListsAreFiled(t)'
  BY <1>1, <1>3, <1>5 DEF TaskInv, ListsAreFiled, ListsOf, Working, SaveTask
<1>8. session'[t] = [status |-> "completed", artifacts |-> archived'[t].status]
  BY DEF SaveTask, CodingInv, CodingTypes
<1>9. FiledFor(t)' /\ ReportIsOf(t)'
  BY <1>1, <1>3, <1>5, <1>8 DEF TaskInv, FiledFor, ReportIsOf, Working, ListsOf, SaveTask
<1>10. AppendsAreNoted' /\ OnceUnlessNoted'
  BY <1>3, <1>5, NotAppending DEF CodingInv, TaskMoves, Working, SaveTask
<1> QED BY <1>6, <1>7, <1>9, <1>10 DEF CodingInv, TaskInv

LEMMA ReportCoding == ASSUME CodingInv, NEW t \in CodingJobs, Report(t) PROVE CodingInv'
<1>1. work[t] \in Job /\ Begun(t) /\ TaskInv(t) /\ Working(t) = "diff"
  BY AtWorkIsJob DEF Report
<1>2. work \in [CodingJobs -> Job \cup {NotStarted}]
  BY DEF CodingInv, CodingTypes
<1> DEFINE j == [work[t] EXCEPT !.step = "done"]
<1>3. /\ j \in Job /\ j.step = "done" /\ j.lists = work[t].lists /\ j.learnt = work[t].learnt
      /\ j.before = work[t].before /\ j.touched = work[t].touched /\ j.others = work[t].others
  BY <1>1 DEF Job, JobSteps
<1>4. work' = [work EXCEPT ![t] = j]
  BY <1>1, <1>2 DEF Report
<1> HIDE DEF j
<1>5. TaskMoves(t) /\ Begun(t)' /\ work'[t] = j
  BY <1>2, <1>3, <1>4, NotBegun DEF TaskMoves, Begun, CodingInv, CodingTypes, Report
<1>6. CodingTypes' /\ TouchesAreKnown(t)' /\ \A o \in CodingJobs \ {t} : TaskInv(o)'
  BY <1>1, <1>5, TaskMoved DEF CodingInv, CodingTypes, Report
<1>7. ListsAreFiled(t)' /\ FiledFor(t)'
  BY <1>1, <1>3, <1>5 DEF TaskInv, ListsAreFiled, FiledFor, ListsOf, Working, Report
<1>8. ReportIsOf(t)'
  <2> DEFINE d == Diff(work[t].before, Snapshot)
  <2>1. report'[t].lists = work[t].lists /\ report'[t].diff = d
    BY DEF Report, CodingInv, CodingTypes, Lists
  <2>2. DOMAIN work[t].before \subseteq Sources
    BY <1>1 DEF Job, SnapshotsOfSources
  <2>3. \A p \in Sources : p \in work[t].touched \cup work[t].others \/ Untouched(t, p)
    BY <1>1 DEF TaskInv, TouchesAreKnown
  <2>4. UNION {d.created, d.deleted, d.modified} \subseteq work[t].touched \cup work[t].others
    BY <2>2, <2>3 DEF Diff, Snapshot, Untouched
  <2> HIDE DEF d
  <2> QED BY <1>3, <1>5, <2>1, <2>4 DEF ReportIsOf, DiffTells, Working
<1>9. AppendsAreNoted' /\ OnceUnlessNoted'
  BY <1>3, <1>5, NotAppending DEF CodingInv, TaskMoves, Working, Report
<1> QED BY <1>6, <1>7, <1>8, <1>9 DEF CodingInv, TaskInv

\* Promote decides between the three.
LEMMA PromoteCoding == ASSUME CodingInv, NEW t \in CodingJobs, NEW f \in Findings, Promote(t, f) PROVE CodingInv'
<1>1. f \in Left(t) /\ Working(t) = "promote" /\ appending \subseteq appending' /\ UNCHANGED <<review, tree, edits, outputs>>
  BY DEF Promote
<1>2. Contains(review, f) <=> f \in ToSet(review)
  BY DEF Contains, ToSet, CodingInv, CodingTypes
<1>3. \/ work' = Listed(t, "rejected", f)
      \/ f \in ToSet(review) /\ work' = Listed(t, "skipped", f)
      \/ f \notin ToSet(review) /\ work' = [work EXCEPT ![t].step = "append", ![t].next = f]
  BY <1>2 DEF Promote
<1> QED BY <1>1, <1>3, ListCoding, DecideCoding

LEMMA CodingStep == CodingInv /\ CodingNext => CodingInv'
<1> SUFFICES ASSUME CodingInv, CodingNext PROVE CodingInv'
  OBVIOUS
<1>1. CASE CodingCrash
  <2>1. work' = [o \in CodingJobs |-> IF Working(o) \in {"none", "done"} THEN work[o]
                                      ELSE [work[o] EXCEPT !.step = "raised"]]
        /\ UNCHANGED <<review, tree, edits, outputs, appending>>
    BY <1>1 DEF CodingCrash
  <2>2. ASSUME NEW o \in CodingJobs
        PROVE  \/ work'[o] = work[o]
               \/ /\ Working(o) \in {"run", "promote", "append", "save", "diff"}
                  /\ work'[o] = [work[o] EXCEPT !.step = "raised"]
    <3>1. CASE Working(o) \in {"none", "done"}
      BY <2>1, <3>1
    <3>2. CASE Working(o) = "raised"
      <4>1. work[o] \in Job
        BY <3>2, AtWorkIsJob
      <4>2. [work[o] EXCEPT !.step = "raised"] = work[o]
        BY <3>2, <4>1 DEF Working, Job
      <4> QED BY <2>1, <3>2, <4>2
    <3>3. CASE Working(o) \notin {"none", "done", "raised"}
      <4>1. work[o] \in Job
        BY <3>3, AtWorkIsJob
      <4> QED BY <2>1, <3>3, <4>1 DEF Working, Job, JobSteps
    <3> QED BY <3>1, <3>2, <3>3
  <2>3. DOMAIN work' = CodingJobs /\ work' = [o \in CodingJobs |-> work'[o]]
    BY <2>1
  <2> QED BY <2>1, <2>2, <2>3, RaiseCoding
<1>2. ASSUME NEW t \in CodingJobs, TaskRaises(t) PROVE CodingInv'
  <2>1. work' = [work EXCEPT ![t].step = "raised"] /\ UNCHANGED <<review, tree, edits, outputs, appending>>
        /\ Working(t) \in {"run", "promote", "append", "save", "diff"}
    BY <1>2 DEF TaskRaises
  <2>2. work = [o \in CodingJobs |-> work[o]]
    BY DEF CodingInv, CodingTypes
  <2>3. \A o \in CodingJobs : \/ work'[o] = work[o]
                              \/ /\ Working(o) \in {"run", "promote", "append", "save", "diff"}
                                 /\ work'[o] = [work[o] EXCEPT !.step = "raised"]
    BY <2>1, <2>2
  <2>4. DOMAIN work' = CodingJobs /\ work' = [o \in CodingJobs |-> work'[o]]
    BY <2>1, <2>2
  <2> QED BY <2>1, <2>3, <2>4, RaiseCoding
<1>3. ASSUME NEW t \in CodingJobs, NEW f \in Findings, Memorize(t, f) PROVE CodingInv'
  <2>1. work \in [CodingJobs -> Job \cup {NotStarted}] /\ work[t] \in Job /\ work[t].step = "run"
    BY <1>3, AtWorkIsJob DEF CodingInv, CodingTypes, Memorize, Working
  <2>2. [work[t] EXCEPT !.learnt = @ \cup {f}] = [work[t] EXCEPT !.step = "run", !.learnt = @ \cup {f}]
    BY <2>1 DEF Job
  <2>3. work' = [work EXCEPT ![t] = [work[t] EXCEPT !.learnt = @ \cup {f}]]
    BY <1>3, <2>1 DEF Memorize
  <2>4. [work EXCEPT ![t].step = "run", ![t].learnt = @ \cup {f}]
            = [work EXCEPT ![t] = [work[t] EXCEPT !.step = "run", !.learnt = @ \cup {f}]]
    BY <2>1
  <2>5. work' = [work EXCEPT ![t].step = "run", ![t].learnt = @ \cup {f}]
    BY <2>2, <2>3, <2>4
  <2> QED BY <1>3, <2>1, <2>5, MemorizeCoding DEF Memorize, Working
<1>4. ASSUME NEW t \in CodingJobs, NEW extracted \in SUBSET Findings, PipelineReturns(t, extracted) PROVE CodingInv'
  BY <1>4, MemorizeCoding DEF PipelineReturns
<1> QED BY <1>1, <1>2, <1>3, <1>4, StartCoding, EditCoding, AppendCoding, ArchiveCoding, SaveCoding, ReportCoding,
           PromoteCoding DEF CodingNext

---------------------------------------------------------------------------
(* Memory *)

ToldTurns == [n : Nat \ {0}, ref : Processes \X Nat, text : Texts, explicit : BOOLEAN]
MemoryRows == [text : Texts, evidence : Nat, status : {"candidate", "promoted"}]
MovingSteps == {"truncate", "write", "archive"}
PlainSteps == {"explicit", "describe", "upsert", "ready", "pending", "pending append", "history", "recent"}
DataSteps == {"append", "trigger", "row", "promote"} \cup MovingSteps

MemoryTypes ==
    /\ told \in Nat /\ length \in [Processes -> Nat] /\ queue \in [Processes -> Seq(ToldTurns)]
    /\ memory \in Seq(Texts) /\ logged \subseteq ToldTurns /\ archive \subseteq ToldTurns
    /\ recent = TornRecent \/ recent \in Seq(ToldTurns)
    /\ IsFiniteSet(RowIds) /\ RowIds \subseteq Nat /\ candidates \in [RowIds -> MemoryRows]
    /\ DOMAIN job = Processes

\* What a worker may know of the rows, the rows that a new one replaced and the items:
\* a row that it has read still has its text, unless another new row replaced it.
TextIs(c, text, rows, over) == c \in DOMAIN rows /\ (rows[c].text = text \/ c \in over)
InMemory(c, text, over, items) == text \in items \/ c \in over

\* The promotion of candidates: the ones that are done are among the items.
PromotionOf(d, rows, over, items) ==
    /\ d = [step |-> "promote", done |-> d.done, items |-> d.items]
    /\ d.done \subseteq DOMAIN d.items
    /\ \A c \in DOMAIN d.items : d.items[c] \in Texts /\ TextIs(c, d.items[c], rows, over)
    /\ \A c \in d.done : d.items[c] \in items

DataInv(j, rows, over, items) ==
    /\ j.step = "append" =>
           /\ j.data.item \in Texts /\ j.data.then.step \in {"promote", "history"}
           /\ j.data.then.step = "promote" => PromotionOf(j.data.then, rows, over, items \cup {j.data.item})
    /\ j.step = "promote" => PromotionOf(j.data, rows, over, items)
    /\ j.step = "trigger" =>
           \A c \in DOMAIN j.data : /\ j.data[c] \in MemoryRows /\ j.data[c].status = "candidate"
                                    /\ TextIs(c, j.data[c].text, rows, over)
    /\ j.step = "row" =>
           /\ j.data.id \in Nat /\ j.data.row \in MemoryRows /\ j.data.created \in BOOLEAN
           /\ j.data.created => j.data.row.status = "candidate"
           /\ ~j.data.created => TextIs(j.data.id, j.data.row.text, rows, over)
           /\ j.data.row.status = "promoted" => InMemory(j.data.id, j.data.row.text, over, items)
    /\ j.step \in MovingSteps => j.data \in Seq(ToldTurns)
JobInv(j, rows, over, items) ==
    j = NoJob \/ (j.turn \in ToldTurns /\ j.step \in PlainSteps \cup DataSteps /\ DataInv(j, rows, over, items))
JobsAreInformed == \A p \in Processes : JobInv(job[p], candidates, overwritten, ToSet(memory))

\* An item that is there by now, or that two workers are about to append, is noted.
ItemsAreNoted ==
    /\ \A p \in Processes : StepOf(p) = "append" /\ job[p].data.item \in ToSet(memory) => job[p].data.item \in overlapped
    /\ \A p, q \in Processes : /\ p # q /\ StepOf(p) = "append" /\ StepOf(q) = "append"
                               /\ job[p].data.item = job[q].data.item
                               => job[p].data.item \in overlapped
ItemsOnce == \A i, j \in DOMAIN memory : i # j /\ memory[i] = memory[j] => memory[i] \in overlapped
PromotedAreThere == \A c \in RowIds : candidates[c].status = "promoted" => InMemory(c, candidates[c].text, overwritten, ToSet(memory))

\* The turns that only a worker still has.
MovingOf(j) == IF j.step = "recent" THEN {j.turn} ELSE IF j.step \in MovingSteps THEN ToSet(j.data) ELSE {}
Moving(p) == MovingOf(job[p])
Findable(t) == \/ t \in ToSet(Kept(recent)) \cup archive \cup excused
             \/ \E p \in Processes : t \in Moving(p)
             \/ \E o \in archive : o # t /\ o.ref = t.ref
TurnsArePlaced == \A t \in logged : Findable(t)

MemoryInv == /\ MemoryTypes /\ JobsAreInformed
             /\ ItemsAreNoted /\ ItemsOnce /\ PromotedAreThere /\ TurnsArePlaced

MinOf(T) == CHOOSE c \in T : \A o \in T : c <= o
Less == {p \in Nat \X Nat : p[1] < p[2]}

\* A set of naturals has a least element.
LEMMA MinIs == ASSUME NEW T \in SUBSET Nat, T # {} PROVE MinOf(T) \in T /\ \A o \in T : MinOf(T) <= o
<1>1. IsWellFoundedOn(Less, Nat)
  <2>1. OpToRel(<, Nat) = Less
    BY DEF OpToRel, Less
  <2> QED BY <2>1, NatLessThanWellFounded
<1>2. \E x \in T : \A y \in T : ~(<<y, x>> \in Less)
  BY <1>1, WFMin
<1>3. PICK m \in T : \A n \in T : ~(<<n, m>> \in Less)
  BY <1>2
<1>4. ASSUME NEW o \in T PROVE m <= o
  <2>1. \A a, b \in Nat : a < b => <<a, b>> \in Less
    BY DEF Less
  <2>2. ~(o < m) /\ o \in Nat /\ m \in Nat
    BY <1>3, <2>1
  <2> QED BY <2>2
<1> QED BY <1>3, <1>4 DEF MinOf

\* There is an id that CandidateMemoryStore has not used.
LEMMA NextIdIs == ASSUME MemoryTypes PROVE NextId \in Nat
<1> DEFINE k == Cardinality(RowIds)
           U == k + 1..2 * k + 1
           T == U \ RowIds
<1>1. k \in Nat
  BY FS_CardinalityType DEF MemoryTypes
<1>2. T # {}
  <2>1. Cardinality(U) = k + 1
    <3> HIDE DEF k
    <3>1. k + 1 \in Int /\ 2 * k + 1 \in Int /\ ~(k + 1 > 2 * k + 1) /\ 2 * k + 1 - (k + 1) + 1 = k + 1
      BY <1>1
    <3>2. \A x, y \in Int : Cardinality(x..y) = IF x > y THEN 0 ELSE y - x + 1
      BY FS_Interval, Zenon
    <3> DEFINE lo == k + 1
               hi == 2 * k + 1
    <3>3. lo \in Int /\ hi \in Int /\ ~(lo > hi) /\ hi - lo + 1 = k + 1
      BY <1>1, <3>1 DEF lo, hi
    <3> HIDE DEF lo, hi
    <3>4. Cardinality(lo..hi) = IF lo > hi THEN 0 ELSE hi - lo + 1
      BY <3>2, <3>3, Zenon
    <3> QED BY <3>3, <3>4 DEF lo, hi
  <2>2. U \in SUBSET RowIds => Cardinality(U) <= k
    <3> HIDE DEF U
    <3> QED BY FS_Subset DEF MemoryTypes
  <2> QED BY <1>1, <2>1, <2>2
<1>3. T \subseteq Nat
  BY <1>1
<1>4. MinOf(T) \in T /\ \A o \in T : MinOf(T) <= o
  <2> HIDE DEF T
  <2> QED BY <1>2, <1>3, MinIs
<1>5. \E i \in U : i \notin RowIds /\ \A j \in k + 1..i - 1 : j \in RowIds
  <2> DEFINE i == MinOf(T)
  <2>1. i \in U /\ i \notin RowIds
    BY <1>4
  <2> HIDE DEF i
  <2>2. ASSUME NEW j \in k + 1..i - 1 PROVE j \in RowIds
    <3> HIDE DEF k
    <3>1. j \in U /\ ~(i <= j)
      BY <1>1, <2>1
    <3> QED BY <1>4, <3>1 DEF i
  <2> QED BY <2>1, <2>2
<1>6. NextId \in U
  BY <1>5 DEF NextId
<1> HIDE DEF k
<1> QED BY <1>1, <1>6

\* RECENT_CONTEXT.json and the archive: what is written and what leaves is all there was.
LEMMA SplitTurns ==
  ASSUME NEW S, NEW s \in Seq(S)
  PROVE  Newest(s) \in Seq(S) /\ Evicted(s) \in Seq(S) /\ ToSet(s) = ToSet(Newest(s)) \cup ToSet(Evicted(s))
<1> DEFINE m == From(s)
           a == Newest(s)
           b == Evicted(s)
<1>1. m \in 1..Len(s) + 1 /\ Len(s) \in Nat
  BY MemoryAssumption DEF From
<1>2. a = SubSeq(s, m, Len(s)) /\ b = SubSeq(s, 1, m - 1)
  BY DEF Newest, Evicted
<1> HIDE DEF m, a, b
<1>3. /\ a \in Seq(S) /\ Len(a) = (IF m <= Len(s) THEN Len(s) - m + 1 ELSE 0)
      /\ \A i \in 1..Len(s) - m + 1 : a[i] = s[m + i - 1]
  <2>1. \A i \in m..Len(s) : s[i] \in S
    BY <1>1
  <2> QED BY <1>1, <1>2, <2>1, SubSeqProperties
<1>4. /\ b \in Seq(S) /\ Len(b) = (IF 1 <= m - 1 THEN m - 1 - 1 + 1 ELSE 0)
      /\ \A i \in 1..m - 1 - 1 + 1 : b[i] = s[1 + i - 1]
  <2>1. \A i \in 1..m - 1 : s[i] \in S
    BY <1>1
  <2>2. m - 1 \in Int
    BY <1>1
  <2> QED BY <1>1, <1>2, <2>1, <2>2, SubSeqProperties
<1>5. DOMAIN a = 1..Len(s) - m + 1 /\ DOMAIN b = 1..m - 1 /\ DOMAIN s = 1..Len(s)
  BY <1>1, <1>3, <1>4
<1>6. ASSUME NEW i \in DOMAIN s PROVE s[i] \in ToSet(a) \cup ToSet(b)
  <2>1. CASE i < m
    <3>1. i \in DOMAIN b /\ b[i] = s[i]
      BY <1>1, <1>4, <1>5, <2>1
    <3> QED BY <3>1 DEF ToSet
  <2>2. CASE ~(i < m)
    <3>1. i - m + 1 \in DOMAIN a /\ a[i - m + 1] = s[i]
      BY <1>1, <1>3, <1>5, <2>2
    <3> QED BY <3>1 DEF ToSet
  <2> QED BY <2>1, <2>2
<1>7. ASSUME NEW i \in DOMAIN a PROVE m + i - 1 \in DOMAIN s /\ a[i] = s[m + i - 1]
  <2>1. i \in 1..Len(s) - m + 1
    BY <1>5
  <2>2. m + i - 1 \in 1..Len(s)
    BY <1>1, <2>1
  <2> QED BY <1>3, <1>5, <2>1, <2>2
<1>8. ASSUME NEW i \in DOMAIN b PROVE i \in DOMAIN s /\ b[i] = s[i]
  <2>1. i \in 1..m - 1
    BY <1>5
  <2>2. i \in 1..Len(s) /\ i \in 1..m - 1 - 1 + 1 /\ 1 + i - 1 = i
    BY <1>1, <2>1
  <2> QED BY <1>4, <1>5, <2>2
<1> QED BY <1>3, <1>4, <1>6, <1>7, <1>8 DEF ToSet, a, b

LEMMA HeadTail ==
  ASSUME NEW S, NEW s \in Seq(S), s # <<>>
  PROVE  Head(s) \in S /\ Tail(s) \in Seq(S) /\ ToSet(s) = {Head(s)} \cup ToSet(Tail(s))
<1>1. /\ Head(s) = s[1] /\ 1 \in DOMAIN s /\ Head(s) \in S /\ Tail(s) \in Seq(S)
      /\ \A i \in DOMAIN Tail(s) : i + 1 \in DOMAIN s /\ Tail(s)[i] = s[i + 1]
      /\ \A i \in DOMAIN s : i = 1 \/ (i - 1 \in DOMAIN Tail(s) /\ Tail(s)[i - 1] = s[i])
  OBVIOUS
<1> DEFINE t == Tail(s)
           h == Head(s)
<1>2. /\ h = s[1] /\ 1 \in DOMAIN s /\ \A i \in DOMAIN t : i + 1 \in DOMAIN s /\ t[i] = s[i + 1]
      /\ \A i \in DOMAIN s : i = 1 \/ (i - 1 \in DOMAIN t /\ t[i - 1] = s[i])
  BY <1>1
<1> HIDE DEF t, h
<1>3. ToSet(s) = {h} \cup ToSet(t)
  BY <1>2 DEF ToSet
<1> QED BY <1>1, <1>3 DEF t, h

---------------------------------------------------------------------------
(* What the steps of the workers share *)

LEMMA ContainsIs == ASSUME NEW S, NEW s \in Seq(S), NEW e PROVE Contains(s, e) <=> e \in ToSet(s)
BY DEF Contains, ToSet

\* What workers know of rows and items stays true while items are added and rows
\* are only replaced by new ones where that is noted.
Grows == /\ ToSet(memory) \subseteq ToSet(memory)' /\ overwritten \subseteq overwritten'
         /\ \A c \in RowIds : c \in RowIds' /\ (candidates'[c].text = candidates[c].text \/ c \in overwritten')

LEMMA KnownStays ==
  ASSUME Grows, NEW j, JobInv(j, candidates, overwritten, ToSet(memory))
  PROVE  JobInv(j, candidates', overwritten', ToSet(memory)')
<1> DEFINE Is(d, A) == PromotionOf(d, candidates, overwritten, A)
           Remains(d, A) == PromotionOf(d, candidates', overwritten', A)
<1>1. \A c, text : TextIs(c, text, candidates, overwritten) => TextIs(c, text, candidates', overwritten')
  BY DEF TextIs, Grows, RowIds
<1>2. \A c, text : InMemory(c, text, overwritten, ToSet(memory)) => InMemory(c, text, overwritten', ToSet(memory)')
  BY DEF InMemory, Grows
<1>3. ASSUME NEW d, NEW A, NEW B, A \subseteq B, Is(d, A) PROVE Remains(d, B)
  BY <1>1, <1>3 DEF PromotionOf
<1>4. ToSet(memory) \subseteq ToSet(memory)'
  BY DEF Grows
<1> HIDE DEF Is, Remains
<1>5. j.step = "append" /\ j.data.then.step = "promote" /\ Is(j.data.then, ToSet(memory) \cup {j.data.item})
      => Remains(j.data.then, ToSet(memory)' \cup {j.data.item})
  BY <1>3, <1>4
<1>6. Is(j.data, ToSet(memory)) => Remains(j.data, ToSet(memory)')
  BY <1>3, <1>4
<1>7. DataInv(j, candidates, overwritten, ToSet(memory)) => DataInv(j, candidates', overwritten', ToSet(memory)')
  BY <1>1, <1>2, <1>5, <1>6 DEF DataInv, Is, Remains
<1> QED BY <1>7 DEF JobInv

LEMMA JobsKnow ==
  ASSUME DOMAIN job = Processes, JobsAreInformed, Grows,
         NEW p \in Processes, NEW j, job' = [job EXCEPT ![p] = j],
         JobInv(j, candidates', overwritten', ToSet(memory)')
  PROVE  DOMAIN job' = Processes /\ JobsAreInformed'
<1>1. ASSUME NEW q \in Processes PROVE JobInv(job'[q], candidates', overwritten', ToSet(memory)')
  <2>1. CASE q = p
    BY <2>1
  <2>2. CASE q # p
    <3>1. job'[q] = job[q]
      BY <2>2
    <3>2. JobInv(job[q], candidates, overwritten, ToSet(memory))
      BY DEF JobsAreInformed
    <3> QED BY <3>1, <3>2, KnownStays
  <2> QED BY <2>1, <2>2
<1> QED BY <1>1 DEF JobsAreInformed

\* Where no item is added and the worker is not about to append one.
LEMMA ItemsStay ==
  ASSUME DOMAIN job = Processes, ItemsAreNoted, ItemsOnce, NEW p \in Processes, NEW j, job' = [job EXCEPT ![p] = j],
         j.step # "append", UNCHANGED <<memory, overlapped>>
  PROVE  ItemsAreNoted' /\ ItemsOnce'
<1>1. \A q \in Processes : StepOf(q)' = "append" => q # p /\ job'[q] = job[q] /\ StepOf(q) = "append"
  BY DEF StepOf
<1> QED BY <1>1 DEF ItemsAreNoted, ItemsOnce

LEMMA RowsStay == ASSUME PromotedAreThere, UNCHANGED rowState, ToSet(memory) \subseteq ToSet(memory)' PROVE PromotedAreThere'
BY DEF PromotedAreThere, rowState, RowIds, InMemory

\* Where each turn of the recent context and of the worker is still to be found.
LEMMA TurnsStay ==
  ASSUME DOMAIN job = Processes, TurnsArePlaced, NEW p \in Processes, NEW j, job' = [job EXCEPT ![p] = j],
         logged' \subseteq logged \cup MovingOf(j), archive \subseteq archive', excused \subseteq excused',
         \A t \in ToSet(Kept(recent)) \cup MovingOf(job[p]) :
             \/ t \in ToSet(Kept(recent))' \cup archive' \cup excused' \cup MovingOf(j)
             \/ \E o \in archive' : o # t /\ o.ref = t.ref
  PROVE  TurnsArePlaced'
<1>1. \A q \in Processes : job'[q] = IF q = p THEN j ELSE job[q]
  OBVIOUS
<1>2. ASSUME NEW t \in logged' PROVE Findable(t)'
  <2>1. CASE t \in MovingOf(j)
    <3>1. job'[p] = j
      BY <1>1
    <3> QED BY <2>1, <3>1 DEF Findable, Moving, MovingOf
  <2>2. CASE t \in logged /\ t \notin MovingOf(j)
    <3>1. Findable(t)
      BY <2>2 DEF TurnsArePlaced
    <3>2. CASE t \in ToSet(Kept(recent)) \cup MovingOf(job[p])
      BY <2>2, <3>2 DEF Findable
    <3>3. CASE t \in archive \cup excused \/ \E o \in archive : o # t /\ o.ref = t.ref
      BY <3>3 DEF Findable
    <3>4. CASE \E q \in Processes : q # p /\ t \in Moving(q)
      <4>1. PICK q \in Processes : q # p /\ t \in Moving(q)
        BY <3>4
      <4>2. t \in Moving(q)'
        BY <1>1, <4>1 DEF Moving, MovingOf
      <4> QED BY <4>2 DEF Findable
    <3> QED BY <3>1, <3>2, <3>3, <3>4 DEF Findable, Moving
  <2> QED BY <2>1, <2>2
<1> QED BY <1>2 DEF TurnsArePlaced

\* A worker goes on and moves turns.
LEMMA TurnsMove ==
  ASSUME MemoryInv, NEW p \in Processes, NEW j, job' = [job EXCEPT ![p] = j], j.step # "append",
         JobInv(j, candidates, overwritten, ToSet(memory)), UNCHANGED <<memory, overlapped, rowState>>,
         told' \in Nat, length' \in [Processes -> Nat], queue' \in [Processes -> Seq(ToldTurns)],
         logged' \subseteq ToldTurns, archive' \subseteq ToldTurns, recent' = TornRecent \/ recent' \in Seq(ToldTurns),
         logged' \subseteq logged \cup MovingOf(j), archive \subseteq archive', excused \subseteq excused',
         \A t \in ToSet(Kept(recent)) \cup MovingOf(job[p]) :
             \/ t \in ToSet(Kept(recent))' \cup archive' \cup excused' \cup MovingOf(j)
             \/ \E o \in archive' : o # t /\ o.ref = t.ref
  PROVE  MemoryInv'
<1>1. Grows /\ ToSet(memory) \subseteq ToSet(memory)'
  BY DEF Grows, rowState, RowIds
<1>2. JobInv(j, candidates', overwritten', ToSet(memory)')
  BY <1>1, KnownStays
<1>3. DOMAIN job = Processes
  BY DEF MemoryInv, MemoryTypes
<1>4. DOMAIN job' = Processes /\ JobsAreInformed'
  BY <1>1, <1>2, <1>3, JobsKnow DEF MemoryInv
<1>5. MemoryTypes'
  BY <1>4 DEF MemoryInv, MemoryTypes, rowState, RowIds
<1>6. ItemsAreNoted' /\ ItemsOnce'
  BY <1>3, ItemsStay DEF MemoryInv
<1>7. PromotedAreThere'
  BY <1>1, RowsStay DEF MemoryInv
<1>8. TurnsArePlaced'
  BY <1>3, TurnsStay DEF MemoryInv
<1> QED BY <1>4, <1>5, <1>6, <1>7, <1>8 DEF MemoryInv

\* A worker goes on, and what the workers share stays as it is.
LEMMA GoesOn ==
  ASSUME MemoryInv, NEW p \in Processes, NEW j, job' = [job EXCEPT ![p] = j], j.step # "append",
         JobInv(j, candidates, overwritten, ToSet(memory)),
         MovingOf(job[p]) \subseteq MovingOf(j), UNCHANGED <<memory, overlapped, rowState, turnState>>,
         told' \in Nat, length' \in [Processes -> Nat], queue' \in [Processes -> Seq(ToldTurns)]
  PROVE  MemoryInv'
<1>1. UNCHANGED <<logged, recent, archive, excused>>
  BY DEF turnState
<1>2. logged \subseteq ToldTurns /\ archive \subseteq ToldTurns /\ (recent = TornRecent \/ recent \in Seq(ToldTurns))
  BY DEF MemoryInv, MemoryTypes
<1> QED BY <1>1, <1>2, TurnsMove

\* A worker goes on and changes rows.
LEMMA RowsMove ==
  ASSUME MemoryInv, NEW p \in Processes, NEW j, job' = [job EXCEPT ![p] = j], j.step # "append",
         JobInv(j, candidates', overwritten', ToSet(memory)'), MovingOf(job[p]) \subseteq MovingOf(j), Grows,
         IsFiniteSet(RowIds)', RowIds' \subseteq Nat, candidates' \in [RowIds' -> MemoryRows], PromotedAreThere',
         UNCHANGED <<sessionState, itemState, turnState>>
  PROVE  MemoryInv'
<1>1. DOMAIN job = Processes
  BY DEF MemoryInv, MemoryTypes
<1>2. DOMAIN job' = Processes /\ JobsAreInformed'
  BY <1>1, JobsKnow DEF MemoryInv
<1>3. MemoryTypes'
  BY <1>2 DEF MemoryInv, MemoryTypes, sessionState, itemState, turnState
<1>4. ItemsAreNoted' /\ ItemsOnce'
  BY <1>1, ItemsStay DEF MemoryInv, itemState
<1>5. TurnsArePlaced'
  BY <1>1, TurnsStay DEF MemoryInv, turnState
<1> QED BY <1>2, <1>3, <1>4, <1>5 DEF MemoryInv

LEMMA WorkersKnow ==
  ASSUME MemoryInv, NEW p \in Processes, StepOf(p) # "none"
  PROVE  /\ Turn(p) \in ToldTurns /\ StepOf(p) \in PlainSteps \cup DataSteps
         /\ DataInv(job[p], candidates, overwritten, ToSet(memory))
<1>1. JobInv(job[p], candidates, overwritten, ToSet(memory)) /\ job[p] # NoJob
  BY DEF MemoryInv, JobsAreInformed, StepOf, NoJob
<1> QED BY <1>1 DEF JobInv, StepOf, Turn

\* A worker goes on without data.
LEMMA GoesPlain ==
  ASSUME MemoryInv, NEW p \in Processes, StepOf(p) \notin MovingSteps \cup {"none", "recent"},
         NEW step \in PlainSteps, Goto(p, step), UNCHANGED <<sessionState, memory, overlapped, rowState, turnState>>
  PROVE  MemoryInv'
<1> PICK j : j = [step |-> step, turn |-> Turn(p)]
  OBVIOUS
<1>1. job' = [job EXCEPT ![p] = j]
  BY DEF Goto
<1>2. JobInv(j, candidates, overwritten, ToSet(memory)) /\ j.step # "append"
  BY WorkersKnow DEF JobInv, DataInv, PlainSteps, MovingSteps
<1>3. MovingOf(job[p]) = {}
  BY DEF MovingOf, StepOf
<1>4. told' \in Nat /\ length' \in [Processes -> Nat] /\ queue' \in [Processes -> Seq(ToldTurns)]
  BY DEF MemoryInv, MemoryTypes, sessionState
<1> HIDE DEF Goto
<1> QED BY <1>1, <1>2, <1>3, <1>4, GoesOn

\* A worker goes on with data.
LEMMA GoesWith ==
  ASSUME MemoryInv, NEW p \in Processes, StepOf(p) \notin MovingSteps \cup {"none", "recent"},
         NEW step \in DataSteps \ {"append"}, NEW data, GotoWith(p, step, data),
         DataInv([step |-> step, turn |-> Turn(p), data |-> data], candidates, overwritten, ToSet(memory)),
         UNCHANGED <<sessionState, memory, overlapped, rowState, turnState>>
  PROVE  MemoryInv'
<1> PICK j : j = [step |-> step, turn |-> Turn(p), data |-> data]
  OBVIOUS
<1>1. job' = [job EXCEPT ![p] = j]
  BY DEF GotoWith
<1>2. JobInv(j, candidates, overwritten, ToSet(memory)) /\ j.step # "append"
  BY WorkersKnow DEF JobInv
<1>3. MovingOf(job[p]) = {}
  BY DEF MovingOf, StepOf
<1>4. told' \in Nat /\ length' \in [Processes -> Nat] /\ queue' \in [Processes -> Seq(ToldTurns)]
  BY DEF MemoryInv, MemoryTypes, sessionState
<1> QED BY <1>1, <1>2, <1>3, <1>4, GoesOn

---------------------------------------------------------------------------
(* Turns and the worker's queue *)

LEMMA SessionGoes ==
  ASSUME MemoryInv, UNCHANGED <<job, itemState, rowState, turnState>>, told' \in Nat,
         length' \in [Processes -> Nat], queue' \in [Processes -> Seq(ToldTurns)]
  PROVE  MemoryInv'
<1>1. MemoryTypes'
  BY DEF MemoryInv, MemoryTypes, itemState, rowState, turnState, RowIds
<1>2. JobsAreInformed' /\ ItemsAreNoted' /\ ItemsOnce' /\ PromotedAreThere'
  BY DEF MemoryInv, itemState, rowState, RowIds, JobsAreInformed, ItemsAreNoted, ItemsOnce, PromotedAreThere, StepOf
<1>3. TurnsArePlaced'
  BY DEF MemoryInv, turnState, TurnsArePlaced, Findable, Moving
<1> QED BY <1>1, <1>2, <1>3 DEF MemoryInv

LEMMA EnqueueKeeps ==
  ASSUME MemoryInv, NEW p \in Processes, NEW text \in Texts, NEW explicit \in BOOLEAN, Enqueue(p, text, explicit)
  PROVE  MemoryInv'
<1>1. told \in Nat /\ length \in [Processes -> Nat] /\ queue \in [Processes -> Seq(ToldTurns)]
  BY DEF MemoryInv, MemoryTypes
<1>2. told' = told + 1 /\ length' = [length EXCEPT ![p] = @ + 1]
  BY DEF Enqueue
<1>3. told' \in Nat \ {0} /\ length' \in [Processes -> Nat]
  BY <1>1, <1>2
<1>4. [n |-> told', ref |-> <<p, length'[p]>>, text |-> text, explicit |-> explicit] \in ToldTurns
  BY <1>3 DEF ToldTurns
<1>5. queue' \in [Processes -> Seq(ToldTurns)]
  BY <1>1, <1>4 DEF Enqueue
<1> QED BY <1>3, <1>5, SessionGoes DEF Enqueue

LEMMA CompactKeeps == ASSUME MemoryInv, NEW p \in Processes, Compact(p) PROVE MemoryInv'
<1>1. told' \in Nat /\ length' \in [Processes -> Nat] /\ queue' \in [Processes -> Seq(ToldTurns)]
  BY DEF MemoryInv, MemoryTypes, Compact
<1> QED BY <1>1, SessionGoes DEF Compact

LEMMA TakeKeeps == ASSUME MemoryInv, NEW p \in Processes, Take(p) PROVE MemoryInv'
<1> PICK j : j = [step |-> IF Head(queue[p]).explicit THEN "explicit" ELSE "describe", turn |-> Head(queue[p])]
  OBVIOUS
<1>1. job[p] = NoJob /\ queue[p] # <<>> /\ queue' = [queue EXCEPT ![p] = Tail(@)] /\ job' = [job EXCEPT ![p] = j]
      /\ UNCHANGED <<length, told, deaths, itemState, rowState, turnState>>
  BY DEF Take
<1>2. told \in Nat /\ length \in [Processes -> Nat] /\ queue \in [Processes -> Seq(ToldTurns)]
  BY DEF MemoryInv, MemoryTypes
<1>3. Head(queue[p]) \in ToldTurns /\ Tail(queue[p]) \in Seq(ToldTurns)
  BY <1>1, <1>2, HeadTail
<1>4. JobInv(j, candidates, overwritten, ToSet(memory)) /\ j.step \notin {"append", "none"}
  BY <1>3 DEF JobInv, DataInv, PlainSteps, MovingSteps
<1>5. MovingOf(job[p]) = {}
  BY <1>1 DEF MovingOf, NoJob, MovingSteps
<1>6. told' \in Nat /\ length' \in [Processes -> Nat] /\ queue' \in [Processes -> Seq(ToldTurns)]
  BY <1>1, <1>2, <1>3
<1>7. UNCHANGED <<memory, overlapped>>
  BY <1>1 DEF itemState
<1> QED BY <1>1, <1>4, <1>5, <1>6, <1>7, GoesOn

---------------------------------------------------------------------------
(* MEMORY.md *)

\* What a worker that has made sure of `item` goes on with.
GoesOnWith(then, item) ==
    \/ then.step = "history"
    \/ /\ then.step = "promote"
       /\ PromotionOf(then, candidates, overwritten, ToSet(memory) \cup {item})

LEMMA AfterItem ==
  ASSUME MemoryInv, NEW p \in Processes, StepOf(p) \notin MovingSteps \cup {"none", "recent"}, NEW item, NEW then,
         GoesOnWith(then, item), NEW j,
         j = IF then.step = "promote" THEN [step |-> "promote", turn |-> Turn(p), data |-> then]
             ELSE [step |-> then.step, turn |-> Turn(p)]
  PROVE  /\ JobInv(j, candidates, overwritten, ToSet(memory) \cup {item})
         /\ j.step \notin MovingSteps \cup {"append", "recent"}
<1>1. Turn(p) \in ToldTurns
  BY WorkersKnow
<1> QED BY <1>1 DEF GoesOnWith, JobInv, DataInv, PlainSteps, DataSteps, MovingSteps

LEMMA CheckKeeps ==
  ASSUME MemoryInv, NEW p \in Processes, StepOf(p) \notin MovingSteps \cup {"none", "recent", "append"},
         NEW item \in Texts, NEW then, GoesOnWith(then, item), Check(p, item, then)
  PROVE  MemoryInv'
<1>1. DOMAIN job = Processes /\ memory \in Seq(Texts)
  BY DEF MemoryInv, MemoryTypes
<1>2. told' \in Nat /\ length' \in [Processes -> Nat] /\ queue' \in [Processes -> Seq(ToldTurns)]
  BY DEF Check, MemoryInv, MemoryTypes, sessionState
<1>3. MovingOf(job[p]) = {}
  BY DEF MovingOf, StepOf
<1>4. CASE IsDuplicate(item, memory)
  <2> PICK j : j = IF then.step = "promote" THEN [step |-> "promote", turn |-> Turn(p), data |-> then]
                   ELSE [step |-> then.step, turn |-> Turn(p)]
    OBVIOUS
  <2>1. job' = [job EXCEPT ![p] = j] /\ UNCHANGED overlapped
    BY <1>4 DEF Check, Goto, GotoWith
  <2>2. ToSet(memory) \cup {item} = ToSet(memory)
    BY <1>1, <1>4, ContainsIs DEF IsDuplicate
  <2>3. JobInv(j, candidates, overwritten, ToSet(memory)) /\ j.step # "append"
    BY <2>2, AfterItem
  <2> QED BY <1>2, <1>3, <2>1, <2>3, GoesOn DEF Check
<1>5. CASE ~IsDuplicate(item, memory)
  <2> PICK j : j = [step |-> "append", turn |-> Turn(p), data |-> [item |-> item, then |-> then]]
    OBVIOUS
  <2>1. /\ job' = [job EXCEPT ![p] = j] /\ UNCHANGED <<sessionState, memory, pending, rowState, turnState>>
        /\ overlapped' = IF \E q \in Processes \ {p} : Appending(q, item) THEN overlapped \cup {item} ELSE overlapped
    BY <1>5 DEF Check, GotoWith
  <2>2. item \notin ToSet(memory)
    BY <1>1, <1>5, ContainsIs DEF IsDuplicate
  <2>3. JobInv(j, candidates, overwritten, ToSet(memory))
    <3>1. Turn(p) \in ToldTurns
      BY WorkersKnow
    <3> QED BY <3>1 DEF GoesOnWith, JobInv, DataInv, DataSteps, MovingSteps
  <2>4. Grows /\ ToSet(memory) \subseteq ToSet(memory)'
    BY <2>1 DEF Grows, rowState, RowIds
  <2>5. JobInv(j, candidates', overwritten', ToSet(memory)')
    BY <2>3, <2>4, KnownStays
  <2>6. DOMAIN job' = Processes /\ JobsAreInformed'
    BY <1>1, <2>1, <2>4, <2>5, JobsKnow DEF MemoryInv
  <2>7. MemoryTypes'
    BY <1>2, <2>1, <2>6 DEF MemoryInv, MemoryTypes, rowState, turnState, RowIds
  <2>8. PromotedAreThere'
    BY <2>1, <2>4, RowsStay DEF MemoryInv
  <2>9. TurnsArePlaced'
    BY <1>1, <1>3, <2>1, TurnsStay DEF MemoryInv, turnState
  <2>10. \A q \in Processes : job'[q] = IF q = p THEN j ELSE job[q]
    BY <1>1, <2>1
  <2>11. overlapped \subseteq overlapped' /\ memory' = memory
    BY <2>1
  <2>12. ItemsOnce'
    BY <2>11 DEF MemoryInv, ItemsOnce
  <2>13. ASSUME NEW q \in Processes, (StepOf(q) = "append")', (job[q].data.item \in ToSet(memory))'
         PROVE  (job[q].data.item \in overlapped)'
    BY <2>2, <2>10, <2>11, <2>13 DEF StepOf, MemoryInv, ItemsAreNoted
  <2>14. ASSUME NEW q \in Processes, NEW r \in Processes, q # r, (StepOf(q) = "append")', (StepOf(r) = "append")',
                (job[q].data.item = job[r].data.item)'
         PROVE  (job[q].data.item \in overlapped)'
    <3>1. \A o \in Processes \ {p} : Appending(o, item) => item \in overlapped'
      BY <2>1
    <3>2. CASE q = p
      <4>1. job'[q] = j /\ job'[r] = job[r] /\ r # p
        BY <2>10, <2>14, <3>2
      <4>2. Appending(r, item)
        BY <2>14, <4>1 DEF Appending, StepOf
      <4> QED BY <3>1, <4>1, <4>2
    <3>3. CASE r = p
      <4>1. job'[r] = j /\ job'[q] = job[q] /\ q # p
        BY <2>10, <2>14, <3>3
      <4>2. Appending(q, item) /\ job'[q].data.item = item
        BY <2>14, <4>1 DEF Appending, StepOf
      <4> QED BY <3>1, <4>1, <4>2
    <3>4. CASE q # p /\ r # p
      BY <2>10, <2>11, <2>14, <3>4 DEF StepOf, MemoryInv, ItemsAreNoted
    <3> QED BY <3>2, <3>3, <3>4
  <2>15. ItemsAreNoted'
    BY <2>13, <2>14 DEF ItemsAreNoted
  <2> QED BY <2>6, <2>7, <2>8, <2>9, <2>12, <2>15 DEF MemoryInv
<1> QED BY <1>4, <1>5

LEMMA ExplicitKeeps == ASSUME MemoryInv, NEW p \in Processes, Explicit(p) PROVE MemoryInv'
<1> PICK then : then = [step |-> "history"]
  OBVIOUS
<1>1. StepOf(p) = "explicit" /\ Check(p, Turn(p).text, then)
  BY DEF Explicit
<1>2. Turn(p).text \in Texts
  BY <1>1, WorkersKnow DEF ToldTurns
<1>3. GoesOnWith(then, Turn(p).text)
  BY DEF GoesOnWith
<1> QED BY <1>1, <1>2, <1>3, CheckKeeps DEF MovingSteps

LEMMA PromoteNextKeeps == ASSUME MemoryInv, NEW p \in Processes, PromoteNext(p) PROVE MemoryInv'
<1> PICK d : d = job[p].data
  OBVIOUS
<1> DEFINE left == DOMAIN d.items \ d.done
<1> PICK c : c = MinOf(left)
  OBVIOUS
<1> PICK then : then = [d EXCEPT !.done = @ \cup {c}]
  OBVIOUS
<1>1. StepOf(p) = "promote" /\ left # {} /\ Check(p, d.items[c], then)
  BY DEF PromoteNext, MinOf
<1>2. PromotionOf(d, candidates, overwritten, ToSet(memory))
  BY <1>1, WorkersKnow DEF DataInv, StepOf
<1>3. left \in SUBSET Nat
  BY <1>2 DEF PromotionOf, TextIs, MemoryInv, MemoryTypes, RowIds
<1>4. c \in left
  <2> HIDE DEF left
  <2> QED BY <1>1, <1>3, MinIs
<1>5. d.items[c] \in Texts
  BY <1>2, <1>4 DEF PromotionOf
<1> PICK done : done = d.done
  OBVIOUS
<1> PICK items : items = d.items
  OBVIOUS
<1>6. then = [step |-> "promote", done |-> done \cup {c}, items |-> items]
  <2>1. d = [step |-> "promote", done |-> done, items |-> items]
    BY <1>2 DEF PromotionOf
  <2>2. then = [d EXCEPT !.done = done \cup {c}]
    OBVIOUS
  <2> QED BY <2>1, <2>2
<1>7. PromotionOf(then, candidates, overwritten, ToSet(memory) \cup {d.items[c]})
  <2>1. then.step = "promote" /\ then.done = done \cup {c} /\ then.items = items
    BY <1>6
  <2>2. then = [step |-> "promote", done |-> then.done, items |-> then.items]
    BY <1>6, <2>1
  <2>3. /\ done \subseteq DOMAIN items /\ \A x \in done : items[x] \in ToSet(memory)
        /\ \A x \in DOMAIN items : items[x] \in Texts /\ TextIs(x, items[x], candidates, overwritten)
    BY <1>2 DEF PromotionOf
  <2>4. then.done \subseteq DOMAIN then.items
    BY <1>4, <2>1, <2>3
  <2>5. \A x \in then.done : then.items[x] \in ToSet(memory) \cup {d.items[c]}
    BY <2>1, <2>3
  <2>6. \A x \in DOMAIN then.items : then.items[x] \in Texts /\ TextIs(x, then.items[x], candidates, overwritten)
    BY <2>1, <2>3
  <2> HIDE DEF left
  <2> QED BY <2>2, <2>4, <2>5, <2>6 DEF PromotionOf
<1>8. GoesOnWith(then, d.items[c])
  BY <1>6, <1>7 DEF GoesOnWith
<1> QED BY <1>1, <1>5, <1>8, CheckKeeps DEF MovingSteps

LEMMA AppendMemoryKeeps == ASSUME MemoryInv, NEW p \in Processes, AppendMemory(p) PROVE MemoryInv'
<1> PICK item : item = job[p].data.item
  OBVIOUS
<1> PICK then : then = job[p].data.then
  OBVIOUS
<1> PICK j : j = IF then.step = "promote" THEN [step |-> "promote", turn |-> Turn(p), data |-> then]
                 ELSE [step |-> then.step, turn |-> Turn(p)]
  OBVIOUS
<1>1. StepOf(p) = "append" /\ memory' = Append(memory, item) /\ job' = [job EXCEPT ![p] = j]
      /\ UNCHANGED <<sessionState, pending, overlapped, rowState, turnState>>
  BY DEF AppendMemory, Goto, GotoWith
<1>2. item \in Texts /\ GoesOnWith(then, item)
  BY <1>1, WorkersKnow DEF DataInv, StepOf, GoesOnWith
<1>3. memory \in Seq(Texts) /\ DOMAIN job = Processes
  BY DEF MemoryInv, MemoryTypes
<1>4. /\ memory' \in Seq(Texts) /\ ToSet(memory') = ToSet(memory) \cup {item}
      /\ DOMAIN memory' = DOMAIN memory \cup {Len(memory) + 1} /\ memory'[Len(memory) + 1] = item
      /\ \A i \in DOMAIN memory : memory'[i] = memory[i]
  BY <1>1, <1>2, <1>3, Appended
<1>5. StepOf(p) \notin MovingSteps \cup {"none", "recent"}
  BY <1>1 DEF MovingSteps
<1>6. Grows /\ ToSet(memory) \subseteq ToSet(memory)' /\ candidates' = candidates /\ overwritten' = overwritten
  BY <1>1, <1>4 DEF Grows, rowState, RowIds
<1>7. JobInv(j, candidates', overwritten', ToSet(memory)') /\ j.step # "append"
  <2>1. JobInv(j, candidates, overwritten, ToSet(memory) \cup {item}) /\ j.step # "append"
    BY <1>2, <1>5, AfterItem
  <2>2. ToSet(memory)' = ToSet(memory) \cup {item}
    BY <1>4
  <2> QED BY <1>6, <2>1, <2>2
<1>8. DOMAIN job' = Processes /\ JobsAreInformed'
  BY <1>1, <1>3, <1>6, <1>7, JobsKnow DEF MemoryInv
<1>9. MemoryTypes'
  BY <1>1, <1>4, <1>8 DEF MemoryInv, MemoryTypes, sessionState, rowState, turnState, RowIds
<1>10. PromotedAreThere'
  BY <1>1, <1>6, RowsStay DEF MemoryInv
<1>11. TurnsArePlaced'
  <2>1. MovingOf(job[p]) = {}
    BY <1>5 DEF MovingOf, StepOf
  <2> QED BY <1>1, <1>3, <2>1, TurnsStay DEF MemoryInv, turnState
<1>12. \A q \in Processes : (StepOf(q) = "append")' => q # p /\ job'[q] = job[q] /\ StepOf(q) = "append"
  BY <1>1, <1>3, <1>7 DEF StepOf
<1>13. ItemsAreNoted'
  <2>1. ASSUME NEW q \in Processes, (StepOf(q) = "append")', (job[q].data.item \in ToSet(memory))'
        PROVE  (job[q].data.item \in overlapped)'
    <3>1. q # p /\ job'[q] = job[q] /\ StepOf(q) = "append" /\ overlapped' = overlapped
      BY <1>1, <1>12, <2>1
    <3>2. CASE job[q].data.item = item
      BY <1>1, <3>1, <3>2 DEF MemoryInv, ItemsAreNoted
    <3>3. CASE job[q].data.item \in ToSet(memory)
      BY <3>1, <3>3 DEF MemoryInv, ItemsAreNoted
    <3> QED BY <1>4, <2>1, <3>1, <3>2, <3>3
  <2>2. ASSUME NEW q \in Processes, NEW r \in Processes, q # r, (StepOf(q) = "append")', (StepOf(r) = "append")',
                (job[q].data.item = job[r].data.item)'
         PROVE  (job[q].data.item \in overlapped)'
    BY <1>1, <1>12, <2>2 DEF MemoryInv, ItemsAreNoted
  <2> QED BY <2>1, <2>2 DEF ItemsAreNoted
<1>14. ItemsOnce'
  <2>1. item \in ToSet(memory) => item \in overlapped
    BY <1>1 DEF MemoryInv, ItemsAreNoted
  <2>2. \A i \in DOMAIN memory : memory[i] \in ToSet(memory)
    BY DEF ToSet
  <2>3. ASSUME NEW i \in DOMAIN memory', NEW k \in DOMAIN memory', i # k, memory'[i] = memory'[k]
        PROVE  memory'[i] \in overlapped'
    <3>1. overlapped' = overlapped
      BY <1>1
    <3>2. CASE i \in DOMAIN memory /\ k \in DOMAIN memory
      BY <1>4, <2>3, <3>1, <3>2 DEF MemoryInv, ItemsOnce
    <3>3. CASE i \notin DOMAIN memory
      BY <1>4, <2>1, <2>2, <2>3, <3>1, <3>3
    <3>4. CASE k \notin DOMAIN memory
      BY <1>4, <2>1, <2>2, <2>3, <3>1, <3>4
    <3> QED BY <3>2, <3>3, <3>4
  <2> QED BY <2>3 DEF ItemsOnce
<1> QED BY <1>8, <1>9, <1>10, <1>11, <1>13, <1>14 DEF MemoryInv

---------------------------------------------------------------------------
(* PENDING.db and PENDING.md *)

\* Rows that a worker is to write as it has read them.
LEMMA RowsAre ==
  ASSUME MemoryInv, NEW c \in RowIds
  PROVE  /\ candidates[c] \in MemoryRows /\ More(candidates[c]) \in MemoryRows
         /\ More(candidates[c]).text = candidates[c].text /\ More(candidates[c]).status = candidates[c].status
         /\ candidates[c].text \in Texts
<1>1. candidates[c] \in MemoryRows
  BY DEF MemoryInv, MemoryTypes
<1> QED BY <1>1 DEF More, MemoryRows

LEMMA DissimilarKeeps == ASSUME MemoryInv, NEW p \in Processes, Dissimilar(p) PROVE MemoryInv'
BY GoesPlain DEF Dissimilar, PlainSteps, MovingSteps, itemState

LEMMA TriggerReadKeeps == ASSUME MemoryInv, NEW p \in Processes, TriggerRead(p) PROVE MemoryInv'
<1> PICK data : data = [c \in Open |-> More(candidates[c])]
  OBVIOUS
<1>1. StepOf(p) = "describe" /\ GotoWith(p, "trigger", data) /\ UNCHANGED <<sessionState, itemState, rowState, turnState>>
  BY DEF TriggerRead
<1>2. \A c \in DOMAIN data : /\ data[c] \in MemoryRows /\ data[c].status = "candidate"
                             /\ TextIs(c, data[c].text, candidates, overwritten)
  BY RowsAre DEF Open, TextIs, RowIds
<1>3. DataInv([step |-> "trigger", turn |-> Turn(p), data |-> data], candidates, overwritten, ToSet(memory))
  BY <1>2 DEF DataInv, MovingSteps
<1> QED BY <1>1, <1>3, GoesWith DEF DataSteps, MovingSteps, itemState

LEMMA TriggerWriteKeeps == ASSUME MemoryInv, NEW p \in Processes, TriggerWrite(p) PROVE MemoryInv'
<1> PICK d : d = job[p].data
  OBVIOUS
<1> PICK j : j = [step |-> "upsert", turn |-> Turn(p)]
  OBVIOUS
<1>1. /\ StepOf(p) = "trigger" /\ job' = [job EXCEPT ![p] = j]
      /\ candidates' = [c \in RowIds |-> IF c \in DOMAIN d THEN d[c] ELSE candidates[c]]
      /\ UNCHANGED <<sessionState, itemState, overwritten, turnState>>
  BY DEF TriggerWrite, Goto
<1>2. \A c \in DOMAIN d : d[c] \in MemoryRows /\ d[c].status = "candidate" /\ TextIs(c, d[c].text, candidates, overwritten)
  BY <1>1, WorkersKnow DEF DataInv, StepOf
<1>3. RowIds' = RowIds /\ memory' = memory
  BY <1>1 DEF RowIds, itemState
<1>4. Grows
  BY <1>1, <1>2, <1>3 DEF Grows, TextIs
<1>5. JobInv(j, candidates', overwritten', ToSet(memory)') /\ j.step # "append"
  BY <1>1, WorkersKnow DEF JobInv, DataInv, PlainSteps, MovingSteps
<1>6. candidates' \in [RowIds' -> MemoryRows] /\ IsFiniteSet(RowIds)' /\ RowIds' \subseteq Nat
  BY <1>1, <1>2, <1>3 DEF MemoryInv, MemoryTypes
<1>7. PromotedAreThere'
  <2>1. ASSUME NEW c \in RowIds', candidates'[c].status = "promoted"
        PROVE  InMemory(c, candidates'[c].text, overwritten', ToSet(memory'))
    <3>1. candidates'[c] = candidates[c]
      BY <1>1, <1>2, <1>3, <2>1
    <3> QED BY <1>1, <1>3, <2>1, <3>1 DEF MemoryInv, PromotedAreThere
  <2> QED BY <2>1 DEF PromotedAreThere
<1>8. MovingOf(job[p]) = {}
  BY <1>1 DEF MovingOf, StepOf, MovingSteps
<1> QED BY <1>1, <1>4, <1>5, <1>6, <1>7, <1>8, RowsMove

LEMMA UpsertFindKeeps == ASSUME MemoryInv, NEW p \in Processes, UpsertFind(p) PROVE MemoryInv'
<1> PICK text : text = Turn(p).text
  OBVIOUS
<1> DEFINE match == {c \in RowIds : candidates[c].text = text}
<1>1. StepOf(p) = "upsert" /\ UNCHANGED <<sessionState, itemState, rowState, turnState>>
  BY DEF UpsertFind
<1>2. text \in Texts
  BY <1>1, WorkersKnow DEF ToldTurns
<1>3. CASE IsDuplicate(text, memory)
  <2>1. Goto(p, "ready")
    BY <1>3 DEF UpsertFind
  <2> QED BY <1>1, <2>1, GoesPlain DEF PlainSteps, MovingSteps, itemState
<1>4. CASE ~IsDuplicate(text, memory) /\ match # {}
  <2> PICK c : c = CHOOSE x \in match : TRUE
    OBVIOUS
  <2> PICK new : new = [id |-> c, row |-> More(candidates[c]), created |-> FALSE]
    OBVIOUS
  <2>1. GotoWith(p, "row", new)
    BY <1>4 DEF UpsertFind
  <2>2. c \in RowIds
    BY <1>4
  <2>3. new.row \in MemoryRows /\ new.row.text = candidates[c].text /\ new.row.status = candidates[c].status
    BY <2>2, RowsAre
  <2>4. new.row.status = "promoted" => InMemory(c, new.row.text, overwritten, ToSet(memory))
    BY <2>2, <2>3 DEF MemoryInv, PromotedAreThere
  <2>5. TextIs(c, new.row.text, candidates, overwritten) /\ c \in Nat
    BY <2>2, <2>3 DEF TextIs, RowIds, MemoryInv, MemoryTypes
  <2>6. DataInv([step |-> "row", turn |-> Turn(p), data |-> new], candidates, overwritten, ToSet(memory))
    <3>1. new.id = c /\ new.created = FALSE
      OBVIOUS
    <3>2. /\ new.id \in Nat /\ new.row \in MemoryRows /\ new.created \in BOOLEAN
          /\ TextIs(new.id, new.row.text, candidates, overwritten)
          /\ new.row.status = "promoted" => InMemory(new.id, new.row.text, overwritten, ToSet(memory))
      BY <2>3, <2>4, <2>5, <3>1
    <3> PICK j : j = [step |-> "row", turn |-> Turn(p), data |-> new]
      OBVIOUS
    <3>3. j.step = "row" /\ j.data = new
      OBVIOUS
    <3>4. DataInv(j, candidates, overwritten, ToSet(memory))
      BY <3>1, <3>2, <3>3 DEF DataInv, MovingSteps
    <3> QED BY <3>4
  <2> QED BY <1>1, <2>1, <2>6, GoesWith DEF DataSteps, MovingSteps, itemState
<1>5. CASE ~IsDuplicate(text, memory) /\ match = {}
  <2> PICK new : new = [id |-> NextId, row |-> [text |-> text, evidence |-> 1, status |-> "candidate"], created |-> TRUE]
    OBVIOUS
  <2>1. GotoWith(p, "row", new)
    BY <1>5 DEF UpsertFind
  <2>2. NextId \in Nat
    BY NextIdIs DEF MemoryInv
  <2>3. new.id \in Nat /\ new.row \in MemoryRows /\ new.created = TRUE /\ new.row.status = "candidate"
    BY <1>2, <2>2 DEF MemoryRows
  <2>4. DataInv([step |-> "row", turn |-> Turn(p), data |-> new], candidates, overwritten, ToSet(memory))
    BY <2>3 DEF DataInv, MovingSteps
  <2> QED BY <1>1, <2>1, <2>4, GoesWith DEF DataSteps, MovingSteps, itemState
<1> QED BY <1>3, <1>4, <1>5

LEMMA UpsertRowKeeps == ASSUME MemoryInv, NEW p \in Processes, UpsertRow(p) PROVE MemoryInv'
<1> PICK new : new = job[p].data
  OBVIOUS
<1> PICK step : step = IF new.created THEN "pending" ELSE "ready"
  OBVIOUS
<1> PICK j : j = [step |-> step, turn |-> Turn(p)]
  OBVIOUS
<1>1. /\ StepOf(p) = "row" /\ job' = [job EXCEPT ![p] = j]
      /\ candidates' = [c \in RowIds \cup {new.id} |-> IF c = new.id THEN new.row ELSE candidates[c]]
      /\ overwritten' = IF new.created /\ new.id \in RowIds THEN overwritten \cup {new.id} ELSE overwritten
      /\ UNCHANGED <<sessionState, itemState, turnState>>
  BY DEF UpsertRow, Goto
<1>2. /\ new.id \in Nat /\ new.row \in MemoryRows /\ new.created \in BOOLEAN
      /\ new.created => new.row.status = "candidate"
      /\ ~new.created => TextIs(new.id, new.row.text, candidates, overwritten)
      /\ new.row.status = "promoted" => InMemory(new.id, new.row.text, overwritten, ToSet(memory))
  BY <1>1, WorkersKnow DEF DataInv, StepOf
<1>3. RowIds' = RowIds \cup {new.id} /\ memory' = memory /\ overwritten \subseteq overwritten'
  BY <1>1 DEF RowIds, itemState
<1>4. Grows
  <2>1. ASSUME NEW c \in RowIds PROVE candidates'[c].text = candidates[c].text \/ c \in overwritten'
    <3>1. CASE c # new.id
      BY <1>1, <3>1
    <3>2. CASE c = new.id
      BY <1>1, <1>2, <1>3, <3>2 DEF TextIs
    <3> QED BY <3>1, <3>2
  <2> QED BY <1>3, <2>1 DEF Grows
<1>5. JobInv(j, candidates', overwritten', ToSet(memory)') /\ j.step # "append"
  BY <1>1, WorkersKnow DEF JobInv, DataInv, PlainSteps, MovingSteps
<1>6. candidates' \in [RowIds' -> MemoryRows] /\ IsFiniteSet(RowIds)' /\ RowIds' \subseteq Nat
  <2>1. IsFiniteSet(RowIds \cup {new.id})
    BY FS_AddElement DEF MemoryInv, MemoryTypes
  <2> QED BY <1>1, <1>2, <1>3, <2>1 DEF MemoryInv, MemoryTypes
<1>7. PromotedAreThere'
  <2>1. ASSUME NEW c \in RowIds', candidates'[c].status = "promoted"
        PROVE  InMemory(c, candidates'[c].text, overwritten', ToSet(memory'))
    <3>1. CASE c # new.id
      <4>1. c \in RowIds /\ candidates'[c] = candidates[c]
        BY <1>1, <1>3, <3>1
      <4> QED BY <1>3, <2>1, <4>1 DEF MemoryInv, PromotedAreThere, InMemory
    <3>2. CASE c = new.id
      <4>1. candidates'[c] = new.row
        BY <1>1, <3>2
      <4> QED BY <1>2, <1>3, <2>1, <3>2, <4>1 DEF InMemory
    <3> QED BY <3>1, <3>2
  <2> QED BY <2>1 DEF PromotedAreThere
<1>8. MovingOf(job[p]) = {}
  BY <1>1 DEF MovingOf, StepOf, MovingSteps
<1> QED BY <1>1, <1>4, <1>5, <1>6, <1>7, <1>8, RowsMove

LEMMA PendingCheckKeeps == ASSUME MemoryInv, NEW p \in Processes, PendingCheck(p) PROVE MemoryInv'
<1>1. PICK step \in PlainSteps : Goto(p, step)
  BY DEF PendingCheck, PlainSteps
<1> QED BY <1>1, GoesPlain DEF PendingCheck, MovingSteps, itemState

LEMMA PendingAppendKeeps == ASSUME MemoryInv, NEW p \in Processes, PendingAppend(p) PROVE MemoryInv'
BY GoesPlain DEF PendingAppend, PlainSteps, MovingSteps

LEMMA PromoteReadKeeps == ASSUME MemoryInv, NEW p \in Processes, PromoteRead(p) PROVE MemoryInv'
<1>1. StepOf(p) = "ready" /\ UNCHANGED <<sessionState, itemState, rowState, turnState>>
  BY DEF PromoteRead
<1>2. CASE Ready = {}
  <2>1. Goto(p, "history")
    BY <1>2 DEF PromoteRead
  <2> QED BY <1>1, <2>1, GoesPlain DEF PlainSteps, MovingSteps, itemState
<1>3. CASE Ready # {}
  <2> PICK items : items = [c \in Ready |-> candidates[c].text]
    OBVIOUS
  <2> PICK d : d = [step |-> "promote", done |-> {}, items |-> items]
    OBVIOUS
  <2>1. GotoWith(p, "promote", d)
    BY <1>3 DEF PromoteRead
  <2>2. \A c \in DOMAIN items : items[c] \in Texts /\ TextIs(c, items[c], candidates, overwritten)
    BY RowsAre DEF Ready, Open, TextIs, RowIds
  <2>3. PromotionOf(d, candidates, overwritten, ToSet(memory))
    BY <2>2 DEF PromotionOf
  <2>4. DataInv([step |-> "promote", turn |-> Turn(p), data |-> d], candidates, overwritten, ToSet(memory))
    BY <2>3 DEF DataInv, MovingSteps
  <2> QED BY <1>1, <2>1, <2>4, GoesWith DEF DataSteps, MovingSteps, itemState
<1> QED BY <1>2, <1>3

LEMMA MarkPromotedKeeps == ASSUME MemoryInv, NEW p \in Processes, MarkPromoted(p) PROVE MemoryInv'
<1> PICK d : d = job[p].data
  OBVIOUS
<1> PICK j : j = [step |-> "history", turn |-> Turn(p)]
  OBVIOUS
<1>1. /\ StepOf(p) = "promote" /\ job' = [job EXCEPT ![p] = j] /\ d.done = DOMAIN d.items
      /\ candidates' = [c \in RowIds |-> IF c \in d.done THEN [candidates[c] EXCEPT !.status = "promoted"]
                                         ELSE candidates[c]]
      /\ UNCHANGED <<sessionState, itemState, overwritten, turnState>>
  BY DEF MarkPromoted, Goto
<1>2. PromotionOf(d, candidates, overwritten, ToSet(memory))
  BY <1>1, WorkersKnow DEF DataInv, StepOf
<1>3. RowIds' = RowIds /\ memory' = memory
  BY <1>1 DEF RowIds, itemState
<1>4. \A c \in RowIds : candidates'[c] \in MemoryRows /\ candidates'[c].text = candidates[c].text
  <2>1. ASSUME NEW c \in RowIds PROVE candidates'[c] \in MemoryRows /\ candidates'[c].text = candidates[c].text
    <3>1. candidates[c] \in MemoryRows
      BY RowsAre
    <3> QED BY <1>1, <3>1 DEF MemoryRows
  <2> QED BY <2>1
<1>5. Grows
  BY <1>1, <1>3, <1>4 DEF Grows
<1>6. JobInv(j, candidates', overwritten', ToSet(memory)') /\ j.step # "append"
  BY <1>1, WorkersKnow DEF JobInv, DataInv, PlainSteps, MovingSteps
<1>7. candidates' \in [RowIds' -> MemoryRows] /\ IsFiniteSet(RowIds)' /\ RowIds' \subseteq Nat
  <2>1. candidates' = [c \in RowIds |-> candidates'[c]]
    BY <1>1
  <2> QED BY <1>3, <1>4, <2>1 DEF MemoryInv, MemoryTypes
<1>8. PromotedAreThere'
  <2>1. ASSUME NEW c \in RowIds', candidates'[c].status = "promoted"
        PROVE  InMemory(c, candidates'[c].text, overwritten', ToSet(memory'))
    <3>1. CASE c \in d.done
      <4>1. d.items[c] \in ToSet(memory) /\ (candidates[c].text = d.items[c] \/ c \in overwritten)
        BY <1>1, <1>2, <3>1 DEF PromotionOf, TextIs
      <4> QED BY <1>1, <1>3, <1>4, <2>1, <4>1 DEF InMemory
    <3>2. CASE c \notin d.done
      <4>1. candidates'[c] = candidates[c]
        BY <1>1, <1>3, <2>1, <3>2
      <4> QED BY <1>1, <1>3, <2>1, <4>1 DEF MemoryInv, PromotedAreThere
    <3> QED BY <3>1, <3>2
  <2> QED BY <2>1 DEF PromotedAreThere
<1>9. MovingOf(job[p]) = {}
  BY <1>1 DEF MovingOf, StepOf, MovingSteps
<1> QED BY <1>1, <1>5, <1>6, <1>7, <1>8, <1>9, RowsMove

---------------------------------------------------------------------------
(* HISTORY.md, RECENT_CONTEXT.json and the archive *)

LEMMA RecentTypes ==
  ASSUME MemoryInv
  PROVE  /\ Kept(recent) \in Seq(ToldTurns) /\ DOMAIN job = Processes
         /\ logged \subseteq ToldTurns /\ archive \subseteq ToldTurns /\ (recent = TornRecent \/ recent \in Seq(ToldTurns))
         /\ told \in Nat /\ length \in [Processes -> Nat] /\ queue \in [Processes -> Seq(ToldTurns)]
<1>1. <<>> \in Seq(ToldTurns)
  OBVIOUS
<1> QED BY <1>1 DEF MemoryInv, MemoryTypes, Kept

LEMMA MovingData ==
  ASSUME MemoryInv, NEW p \in Processes, StepOf(p) \in MovingSteps
  PROVE  job[p].data \in Seq(ToldTurns) /\ MovingOf(job[p]) = ToSet(job[p].data) /\ Turn(p) \in ToldTurns
<1>1. StepOf(p) # "none" /\ StepOf(p) # "recent"
  BY DEF MovingSteps
<1> QED BY <1>1, WorkersKnow DEF DataInv, MovingOf, StepOf

LEMMA AppendHistoryKeeps == ASSUME MemoryInv, NEW p \in Processes, AppendHistory(p) PROVE MemoryInv'
<1> PICK j : j = [step |-> "recent", turn |-> Turn(p)]
  OBVIOUS
<1>1. /\ StepOf(p) = "history" /\ job' = [job EXCEPT ![p] = j] /\ logged' = logged \cup {Turn(p)}
      /\ UNCHANGED <<sessionState, itemState, rowState, recent, archive, excused>>
  BY DEF AppendHistory, Goto
<1>2. Turn(p) \in ToldTurns
  BY <1>1, WorkersKnow
<1>3. JobInv(j, candidates, overwritten, ToSet(memory)) /\ j.step # "append"
  BY <1>2 DEF JobInv, DataInv, PlainSteps, MovingSteps
<1>4. MovingOf(j) = {Turn(p)} /\ MovingOf(job[p]) = {}
  BY <1>1 DEF MovingOf, MovingSteps, StepOf
<1>5. UNCHANGED <<memory, overlapped, rowState, told, length, queue, recent, archive, excused>>
  BY <1>1 DEF sessionState, itemState
<1> QED BY <1>1, <1>2, <1>3, <1>4, <1>5, RecentTypes, TurnsMove

LEMMA RecentReadKeeps == ASSUME MemoryInv, NEW p \in Processes, RecentRead(p) PROVE MemoryInv'
<1> PICK data : data = Append(Kept(recent), Turn(p))
  OBVIOUS
<1> PICK j : j = [step |-> "truncate", turn |-> Turn(p), data |-> data]
  OBVIOUS
<1>1. /\ StepOf(p) = "recent" /\ job' = [job EXCEPT ![p] = j]
      /\ UNCHANGED <<sessionState, itemState, rowState, turnState>>
  BY DEF RecentRead, GotoWith
<1>2. Turn(p) \in ToldTurns
  BY <1>1, WorkersKnow
<1>3. data \in Seq(ToldTurns) /\ ToSet(data) = ToSet(Kept(recent)) \cup {Turn(p)}
  BY <1>2, RecentTypes, Appended
<1>4. JobInv(j, candidates, overwritten, ToSet(memory)) /\ j.step # "append"
  BY <1>2, <1>3 DEF JobInv, DataInv, DataSteps, MovingSteps
<1>5. MovingOf(job[p]) = {Turn(p)} /\ MovingOf(j) = ToSet(data)
  BY <1>1 DEF MovingOf, MovingSteps, StepOf, Turn
<1>6. UNCHANGED <<memory, overlapped, rowState, turnState, told, length, queue>>
  BY <1>1 DEF sessionState, itemState
<1>7. MovingOf(job[p]) \subseteq MovingOf(j)
  BY <1>3, <1>5
<1>8. told' \in Nat /\ length' \in [Processes -> Nat] /\ queue' \in [Processes -> Seq(ToldTurns)]
  BY <1>6, RecentTypes
<1> QED BY <1>1, <1>4, <1>6, <1>7, <1>8, GoesOn

LEMMA RecentTruncateKeeps == ASSUME MemoryInv, NEW p \in Processes, RecentTruncate(p) PROVE MemoryInv'
<1> PICK data : data = job[p].data
  OBVIOUS
<1> PICK j : j = [step |-> "write", turn |-> Turn(p), data |-> data]
  OBVIOUS
<1>1. /\ StepOf(p) = "truncate" /\ job' = [job EXCEPT ![p] = j] /\ recent' = TornRecent
      /\ excused' = excused \cup (ToSet(Kept(recent)) \ ToSet(data))
      /\ UNCHANGED <<sessionState, itemState, rowState, logged, archive>>
  BY DEF RecentTruncate, GotoWith, Missed
<1>2. data \in Seq(ToldTurns) /\ MovingOf(job[p]) = ToSet(data) /\ Turn(p) \in ToldTurns
  BY <1>1, MovingData DEF MovingSteps
<1>3. JobInv(j, candidates, overwritten, ToSet(memory)) /\ j.step # "append" /\ MovingOf(j) = ToSet(data)
  BY <1>2 DEF JobInv, DataInv, DataSteps, MovingSteps, MovingOf
<1>4. UNCHANGED <<memory, overlapped, rowState, told, length, queue, logged, archive>>
  BY <1>1 DEF sessionState, itemState
<1>5. \A t \in ToSet(Kept(recent)) \cup MovingOf(job[p]) : t \in excused' \cup MovingOf(j)
  BY <1>1, <1>2, <1>3
<1> QED BY <1>1, <1>3, <1>4, <1>5, RecentTypes, TurnsMove

LEMMA RecentWriteKeeps == ASSUME MemoryInv, NEW p \in Processes, RecentWrite(p) PROVE MemoryInv'
<1> PICK data : data = job[p].data
  OBVIOUS
<1> PICK gone : gone = Evicted(data)
  OBVIOUS
<1> PICK j : j = [step |-> "archive", turn |-> Turn(p), data |-> gone]
  OBVIOUS
<1>1. /\ StepOf(p) = "write" /\ job' = [job EXCEPT ![p] = j] /\ recent' = Newest(data)
      /\ excused' = excused \cup (ToSet(Kept(recent)) \ ToSet(data))
      /\ UNCHANGED <<sessionState, itemState, rowState, logged, archive>>
  BY DEF RecentWrite, GotoWith, Missed
<1>2. data \in Seq(ToldTurns) /\ MovingOf(job[p]) = ToSet(data) /\ Turn(p) \in ToldTurns
  BY <1>1, MovingData DEF MovingSteps
<1>3. Newest(data) \in Seq(ToldTurns) /\ gone \in Seq(ToldTurns) /\ ToSet(data) = ToSet(Newest(data)) \cup ToSet(gone)
  BY <1>2, SplitTurns
<1>4. JobInv(j, candidates, overwritten, ToSet(memory)) /\ j.step # "append" /\ MovingOf(j) = ToSet(gone)
  BY <1>2, <1>3 DEF JobInv, DataInv, DataSteps, MovingSteps, MovingOf
<1>5. UNCHANGED <<memory, overlapped, rowState, told, length, queue, logged, archive>>
  BY <1>1 DEF sessionState, itemState
<1>6. TornRecent \notin Seq(ToldTurns)
  <2>1. ASSUME NEW s \in Seq(ToldTurns), Len(s) = 1 PROVE s[1].n # 0
    <3>1. 1 \in 1..Len(s)
      BY <2>1
    <3>2. s[1] \in ToldTurns
      BY <3>1, ElementOfSeq, Zenon
    <3> QED BY <3>2 DEF ToldTurns
  <2>2. TornRecent[1].n = 0 /\ Len(TornRecent) = 1
    BY DEF TornRecent
  <2> PICK torn : torn = TornRecent
    OBVIOUS
  <2> QED BY <2>1, <2>2
<1>7. ToSet(Kept(recent))' = ToSet(Newest(data))
  BY <1>1, <1>3, <1>6 DEF Kept, TornRecent
<1>8. \A t \in ToSet(Kept(recent)) \cup MovingOf(job[p]) : t \in ToSet(Kept(recent))' \cup excused' \cup MovingOf(j)
  BY <1>1, <1>2, <1>3, <1>4, <1>7
<1> QED BY <1>1, <1>3, <1>4, <1>5, <1>8, RecentTypes, TurnsMove

LEMMA ArchiveKeeps == ASSUME MemoryInv, NEW p \in Processes, Archive(p) PROVE MemoryInv'
<1> PICK data : data = job[p].data
  OBVIOUS
<1> PICK oldest : oldest = Head(data)
  OBVIOUS
<1> PICK rest : rest = Tail(data)
  OBVIOUS
<1> PICK j : j = [step |-> "archive", turn |-> Turn(p), data |-> rest]
  OBVIOUS
<1>1. /\ StepOf(p) = "archive" /\ data # <<>> /\ job' = [job EXCEPT ![p] = j]
      /\ archive' = IF \E t \in archive : t.ref = oldest.ref THEN archive ELSE archive \cup {oldest}
      /\ UNCHANGED <<sessionState, itemState, rowState, logged, recent, excused>>
  BY DEF Archive, GotoWith
<1>2. data \in Seq(ToldTurns) /\ MovingOf(job[p]) = ToSet(data) /\ Turn(p) \in ToldTurns
  BY <1>1, MovingData DEF MovingSteps
<1>3. oldest \in ToldTurns /\ rest \in Seq(ToldTurns) /\ ToSet(data) = {oldest} \cup ToSet(rest)
  BY <1>1, <1>2, HeadTail
<1>4. JobInv(j, candidates, overwritten, ToSet(memory)) /\ j.step # "append" /\ MovingOf(j) = ToSet(rest)
  BY <1>2, <1>3 DEF JobInv, DataInv, DataSteps, MovingSteps, MovingOf
<1>5. UNCHANGED <<memory, overlapped, rowState, told, length, queue, logged, recent, excused>>
  BY <1>1 DEF sessionState, itemState
<1>6. archive \subseteq archive' /\ archive' \subseteq archive \cup {oldest}
  BY <1>1
<1>7. oldest \in archive' \/ \E o \in archive' : o # oldest /\ o.ref = oldest.ref
  BY <1>1
<1>8. ToSet(Kept(recent))' = ToSet(Kept(recent))
  BY <1>5
<1>9. \A t \in ToSet(Kept(recent)) \cup MovingOf(job[p]) :
          \/ t \in ToSet(Kept(recent))' \cup archive' \cup excused' \cup MovingOf(j)
          \/ \E o \in archive' : o # t /\ o.ref = t.ref
  BY <1>2, <1>3, <1>4, <1>7, <1>8
<1>10. archive' \subseteq ToldTurns /\ logged' \subseteq ToldTurns /\ (recent' = TornRecent \/ recent' \in Seq(ToldTurns))
  BY <1>3, <1>5, <1>6, RecentTypes
<1>11. told' \in Nat /\ length' \in [Processes -> Nat] /\ queue' \in [Processes -> Seq(ToldTurns)]
  BY <1>5, RecentTypes
<1>12. logged' \subseteq logged \cup MovingOf(j) /\ excused \subseteq excused'
  BY <1>5
<1>13. job' = [job EXCEPT ![p] = j] /\ UNCHANGED <<memory, overlapped, rowState>>
  BY <1>1, <1>5
<1> QED BY <1>4, <1>6, <1>9, <1>10, <1>11, <1>12, <1>13, TurnsMove

LEMMA NoJobIs == JobInv(NoJob, candidates, overwritten, ToSet(memory)) /\ NoJob.step # "append" /\ MovingOf(NoJob) = {}
BY DEF JobInv, NoJob, MovingOf, MovingSteps

LEMMA JobDoneKeeps == ASSUME MemoryInv, NEW p \in Processes, JobDone(p) PROVE MemoryInv'
<1> PICK j : j = NoJob
  OBVIOUS
<1>1. StepOf(p) = "archive" /\ job[p].data = <<>> /\ job' = [job EXCEPT ![p] = j]
      /\ UNCHANGED <<sessionState, itemState, rowState, turnState>>
  BY DEF JobDone
<1>2. MovingOf(job[p]) = {}
  <2>1. StepOf(p) \in MovingSteps
    BY <1>1 DEF MovingSteps
  <2>2. MovingOf(job[p]) = ToSet(job[p].data)
    BY <2>1, MovingData, Zenon
  <2>3. ToSet(<<>>) = {}
    BY DEF ToSet
  <2> QED BY <1>1, <2>2, <2>3
<1>3. UNCHANGED <<memory, overlapped, rowState, turnState, told, length, queue>>
  BY <1>1 DEF sessionState, itemState
<1>4. JobInv(j, candidates, overwritten, ToSet(memory)) /\ j.step # "append"
  BY NoJobIs
<1> QED BY <1>1, <1>2, <1>3, <1>4, RecentTypes, GoesOn

---------------------------------------------------------------------------
(* Failures *)

LEMMA UndoneIs == ASSUME NEW p \in Processes PROVE MovingOf(job[p]) \subseteq Undone(p)
BY DEF MovingOf, Undone, StepOf, Turn, NoJob, MovingSteps

LEMMA EndsKeep ==
  ASSUME MemoryInv, NEW p \in Processes, excused' = excused \cup Undone(p), job' = [job EXCEPT ![p] = NoJob],
         queue' \in [Processes -> Seq(ToldTurns)], UNCHANGED <<length, told, itemState, rowState, logged, recent, archive>>
  PROVE  MemoryInv'
<1> PICK j : j = NoJob
  OBVIOUS
<1>1. JobInv(j, candidates, overwritten, ToSet(memory)) /\ j.step # "append"
  BY NoJobIs
<1>2. ToSet(Kept(recent))' = ToSet(Kept(recent))
  OBVIOUS
<1>3. \A t \in ToSet(Kept(recent)) \cup MovingOf(job[p]) : t \in ToSet(Kept(recent))' \cup excused'
  BY <1>2, UndoneIs
<1>4. job' = [job EXCEPT ![p] = j] /\ UNCHANGED <<memory, overlapped>>
  BY DEF itemState
<1> QED BY <1>1, <1>3, <1>4, RecentTypes, TurnsMove

LEMMA JobRaisesKeeps == ASSUME MemoryInv, NEW p \in Processes, JobRaises(p) PROVE MemoryInv'
BY RecentTypes, EndsKeep DEF JobRaises

LEMMA ProcessDiesKeeps == ASSUME MemoryInv, NEW p \in Processes, ProcessDies(p) PROVE MemoryInv'
<1>1. queue' \in [Processes -> Seq(ToldTurns)]
  BY RecentTypes DEF ProcessDies
<1> QED BY <1>1, EndsKeep DEF ProcessDies

---------------------------------------------------------------------------
(* All steps *)

LEMMA MemoryStart == MemoryInit => MemoryInv
<1> SUFFICES ASSUME MemoryInit PROVE MemoryInv
  OBVIOUS
<1> USE DEF MemoryInit
<1>1. RowIds = {} /\ ToSet(memory) = {} /\ DOMAIN memory = {}
  BY DEF RowIds, ToSet
<1>2. MemoryTypes
  BY <1>1, FS_EmptySet DEF MemoryTypes
<1>3. JobsAreInformed /\ ItemsAreNoted /\ ItemsOnce /\ PromotedAreThere /\ TurnsArePlaced
  BY <1>1 DEF JobsAreInformed, JobInv, ItemsAreNoted, ItemsOnce, PromotedAreThere, TurnsArePlaced, StepOf, NoJob
<1> QED BY <1>2, <1>3 DEF MemoryInv

LEMMA MemoryStutters == MemoryInv /\ UNCHANGED memoryVars => MemoryInv'
<1> SUFFICES ASSUME MemoryInv, UNCHANGED memoryVars PROVE MemoryInv'
  OBVIOUS
<1>1. UNCHANGED <<job, itemState, rowState, turnState, told, length, queue>>
  BY DEF memoryVars, itemState, rowState, turnState
<1> QED BY <1>1, RecentTypes, SessionGoes

LEMMA MemoryStep == MemoryInv /\ MemoryNext => MemoryInv'
<1> SUFFICES ASSUME MemoryInv, MemoryNext PROVE MemoryInv'
  OBVIOUS
<1>1. PICK p \in Processes :
          \/ \E text \in Texts, explicit \in BOOLEAN : Enqueue(p, text, explicit)
          \/ Compact(p) \/ Take(p) \/ Explicit(p) \/ AppendMemory(p)
          \/ Dissimilar(p) \/ TriggerRead(p) \/ TriggerWrite(p) \/ UpsertFind(p) \/ UpsertRow(p)
          \/ PendingCheck(p) \/ PendingAppend(p) \/ PromoteRead(p) \/ PromoteNext(p) \/ MarkPromoted(p)
          \/ AppendHistory(p) \/ RecentRead(p) \/ RecentTruncate(p) \/ RecentWrite(p) \/ Archive(p) \/ JobDone(p)
          \/ JobRaises(p) \/ ProcessDies(p)
  BY DEF MemoryNext
<1>2. CASE \/ \E text \in Texts, explicit \in BOOLEAN : Enqueue(p, text, explicit)
           \/ Compact(p) \/ Take(p) \/ Explicit(p) \/ AppendMemory(p)
  BY <1>2, EnqueueKeeps, CompactKeeps, TakeKeeps, ExplicitKeeps, AppendMemoryKeeps
<1>3. CASE Dissimilar(p) \/ TriggerRead(p) \/ TriggerWrite(p) \/ UpsertFind(p) \/ UpsertRow(p)
  BY <1>3, DissimilarKeeps, TriggerReadKeeps, TriggerWriteKeeps, UpsertFindKeeps, UpsertRowKeeps
<1>4. CASE PendingCheck(p) \/ PendingAppend(p) \/ PromoteRead(p) \/ PromoteNext(p) \/ MarkPromoted(p)
  BY <1>4, PendingCheckKeeps, PendingAppendKeeps, PromoteReadKeeps, PromoteNextKeeps, MarkPromotedKeeps
<1>5. CASE AppendHistory(p) \/ RecentRead(p) \/ RecentTruncate(p) \/ RecentWrite(p) \/ Archive(p) \/ JobDone(p)
  BY <1>5, AppendHistoryKeeps, RecentReadKeeps, RecentTruncateKeeps, RecentWriteKeeps, ArchiveKeeps, JobDoneKeeps
<1>6. CASE JobRaises(p) \/ ProcessDies(p)
  BY <1>6, JobRaisesKeeps, ProcessDiesKeeps
<1> QED BY <1>1, <1>2, <1>3, <1>4, <1>5, <1>6

LEMMA MemoryInvKeeps == MemoryInv => MemoryIsKept
<1> SUFFICES ASSUME MemoryInv PROVE MemoryIsKept
  OBVIOUS
<1>1. \A p \in Processes : Moving(p) \subseteq HeldBy(p)
  BY DEF Moving, MovingOf, HeldBy, Undone, StepOf, Turn, NoJob, MovingSteps
<1>2. TurnsAreKept
  BY <1>1 DEF MemoryInv, TurnsArePlaced, Findable, TurnsAreKept
<1>3. memory \in Seq(Texts)
  BY DEF MemoryInv, MemoryTypes
<1>4. ItemsAreSound
  BY <1>3, ContainsIs DEF MemoryInv, ItemsOnce, PromotedAreThere, InMemory, ItemsAreSound
<1> QED BY <1>2, <1>4 DEF MemoryIsKept

---------------------------------------------------------------------------
(* Background commands *)

Notices == [task : Commands, status : Ends]
ThreadStates == [step : {"none", "run"}] \cup [step : {"status", "result", "notify", "done"}, end : Ends]
BackgroundTypes ==
    /\ table = [c \in Commands |-> table[c]] /\ thread \in [Commands -> ThreadStates]
    /\ notifications \in Seq(Notices) /\ DOMAIN listing = CodingTurns
    /\ shown \in [notices : Seq(Notices), raised : BOOLEAN, grew : BOOLEAN]

\* The row of a command, from one step of its thread to the next.
RowIs(c) ==
    table[c] = CASE thread[c].step = "none" -> NoTask
                 [] thread[c].step \in {"run", "status"} -> [status |-> "running", result |-> "none"]
                 [] thread[c].step = "result" -> [status |-> thread[c].end, result |-> "none"]
                 [] OTHER -> [status |-> thread[c].end, result |-> thread[c].end]

AllNotices == shown.notices \o notifications
NoticesAreOf(notices, threads) ==
    /\ \A k \in DOMAIN notices : LET c == notices[k].task
                                 IN threads[c].step = "done" /\ notices[k].status = threads[c].end
    /\ \A k, l \in DOMAIN notices : notices[k].task = notices[l].task => k = l
    /\ \A c \in Commands : threads[c].step = "done" => \E k \in DOMAIN notices : notices[k].task = c

\* A listing that is no longer the table began before a command did.
ListingsAreNoted ==
    /\ \A t \in CodingTurns : listing[t] # {} => listing[t] = Started \/ shown.grew
    /\ shown.raised => shown.grew
BackgroundInv == /\ BackgroundTypes /\ (\A c \in Commands : RowIs(c))
                 /\ NoticesAreOf(AllNotices, thread) /\ ListingsAreNoted

LEMMA BackgroundStart == BackgroundInit => BackgroundInv
<1> SUFFICES ASSUME BackgroundInit PROVE BackgroundInv
  OBVIOUS
<1> USE DEF BackgroundInit
<1>1. BackgroundTypes
  BY DEF BackgroundTypes, ThreadStates
<1>2. \A c \in Commands : RowIs(c)
  BY DEF RowIs
<1>3. AllNotices = <<>>
  BY DEF AllNotices
<1>4. NoticesAreOf(AllNotices, thread)
  BY <1>3 DEF NoticesAreOf
<1>5. ListingsAreNoted
  BY DEF ListingsAreNoted
<1> QED BY <1>1, <1>2, <1>4, <1>5 DEF BackgroundInv

LEMMA BackgroundStutters == BackgroundInv /\ UNCHANGED backgroundVars => BackgroundInv'
<1> SUFFICES ASSUME BackgroundInv, UNCHANGED backgroundVars PROVE BackgroundInv'
  OBVIOUS
<1>1. table' = table /\ thread' = thread /\ notifications' = notifications /\ listing' = listing /\ shown' = shown
  BY DEF backgroundVars
<1>2. BackgroundTypes'
  BY <1>1 DEF BackgroundInv, BackgroundTypes
<1>3. \A c \in Commands : RowIs(c)'
  BY <1>1 DEF BackgroundInv, RowIs
<1>4. AllNotices' = AllNotices
  BY <1>1 DEF AllNotices
<1>5. NoticesAreOf(AllNotices, thread)'
  BY <1>1, <1>4 DEF BackgroundInv
<1>6. ListingsAreNoted'
  <2>1. Started' = Started
    BY <1>1 DEF Started
  <2> QED BY <1>1, <2>1 DEF BackgroundInv, ListingsAreNoted
<1> QED BY <1>2, <1>3, <1>5, <1>6 DEF BackgroundInv

\* A thread that goes from one step to the next without a notice.
LEMMA ThreadGoes ==
  ASSUME BackgroundInv, NEW c \in Commands, NEW to \in ThreadStates, NEW row,
         thread[c].step # "done", to.step # "done", thread' = [thread EXCEPT ![c] = to], table' = [table EXCEPT ![c] = row],
         row = CASE to.step = "none" -> NoTask
                 [] to.step \in {"run", "status"} -> [status |-> "running", result |-> "none"]
                 [] to.step = "result" -> [status |-> to.end, result |-> "none"]
                 [] OTHER -> [status |-> to.end, result |-> to.end],
         UNCHANGED <<notifications, listing>>, shown' \in [notices : Seq(Notices), raised : BOOLEAN, grew : BOOLEAN],
         shown'.notices = shown.notices, ListingsAreNoted'
  PROVE  BackgroundInv'
<1>1. table = [d \in Commands |-> table[d]] /\ thread \in [Commands -> ThreadStates]
  BY DEF BackgroundInv, BackgroundTypes
<1>2. BackgroundTypes'
  BY <1>1 DEF BackgroundInv, BackgroundTypes
<1>3. ASSUME NEW d \in Commands PROVE RowIs(d)'
  <2>1. CASE d = c
    BY <1>1, <2>1 DEF RowIs
  <2>2. CASE d # c
    BY <1>1, <2>2 DEF BackgroundInv, RowIs
  <2> QED BY <2>1, <2>2
<1>4. AllNotices' = AllNotices
  BY DEF AllNotices
<1>5. \A d \in Commands : /\ thread'[d].step = "done" <=> thread[d].step = "done"
                          /\ thread[d].step = "done" => thread'[d] = thread[d]
  BY <1>1
<1>6. AllNotices \in Seq(Notices)
  BY ConcatProperties DEF AllNotices, BackgroundInv, BackgroundTypes
<1>7. \A k \in DOMAIN AllNotices : AllNotices[k].task \in Commands
  <2> PICK s \in Seq(Notices) : s = AllNotices
    BY <1>6
  <2>1. \A k \in DOMAIN s : s[k] \in Notices
    OBVIOUS
  <2> QED BY <2>1 DEF Notices
<1>8. NoticesAreOf(AllNotices, thread')
  BY <1>5, <1>7 DEF BackgroundInv, NoticesAreOf
<1> QED BY <1>2, <1>3, <1>4, <1>8 DEF BackgroundInv

LEMMA ThreadIs ==
  ASSUME BackgroundInv, NEW c \in Commands
  PROVE  /\ table = [d \in Commands |-> table[d]] /\ thread = [d \in Commands |-> thread[d]]
         /\ shown \in [notices : Seq(Notices), raised : BOOLEAN, grew : BOOLEAN]
         /\ thread[c].step \in {"none", "run", "status", "result", "notify", "done"}
         /\ thread[c].step \notin {"none", "run"} => /\ thread[c].end \in Ends
                                                     /\ thread[c] = [step |-> thread[c].step, end |-> thread[c].end]
         /\ thread[c].step \in {"none", "run"} => thread[c] = [step |-> thread[c].step]
<1>1. thread[c] \in ThreadStates
  BY DEF BackgroundInv, BackgroundTypes
<1>2. thread = [d \in Commands |-> thread[d]]
  BY DEF BackgroundInv, BackgroundTypes
<1> QED BY <1>1, <1>2 DEF BackgroundInv, BackgroundTypes, ThreadStates

LEMMA RowOf ==
  ASSUME BackgroundInv, NEW c \in Commands
  PROVE  /\ thread[c].step \in {"run", "status"} => table[c] = [status |-> "running", result |-> "none"]
         /\ thread[c].step = "result" => table[c] = [status |-> thread[c].end, result |-> "none"]
         /\ thread[c].step \in {"notify", "done"} => table[c] = [status |-> thread[c].end, result |-> thread[c].end]
         /\ table[c] = NoTask <=> thread[c].step = "none"
<1> PICK step : step = thread[c].step
  OBVIOUS
<1>1. /\ step \in {"none", "run", "status", "result", "notify", "done"}
      /\ step \notin {"none", "run"} => thread[c].end # "none"
  BY ThreadIs DEF Ends
<1>2. RowIs(c)
  BY DEF BackgroundInv
<1>3. CASE step = "none"
  BY <1>2, <1>3 DEF RowIs
<1>4. CASE step \in {"run", "status"}
  BY <1>2, <1>4 DEF RowIs, NoTask
<1>5. CASE step = "result"
  BY <1>1, <1>2, <1>5 DEF RowIs, NoTask
<1>6. CASE step \in {"notify", "done"}
  BY <1>1, <1>2, <1>6 DEF RowIs, NoTask
<1> QED BY <1>1, <1>3, <1>4, <1>5, <1>6

\* What is started stays in the table.
LEMMA ListingsStay ==
  ASSUME BackgroundInv, Started' = Started, UNCHANGED <<listing, shown>>
  PROVE  ListingsAreNoted'
BY DEF BackgroundInv, ListingsAreNoted

LEMMA RunKeeps == ASSUME BackgroundInv, NEW c \in Commands, Run(c) PROVE BackgroundInv'
<1> PICK to : to = [step |-> "run"]
  OBVIOUS
<1> PICK row : row = [status |-> "running", result |-> "none"]
  OBVIOUS
<1>1. thread[c] = [step |-> "none"]
  <2>1. table[c] = NoTask
    BY DEF Run
  <2>2. thread[c].step = "none"
    BY <2>1, RowOf
  <2> QED BY <2>2, ThreadIs
<1>2. table' = [table EXCEPT ![c] = row] /\ thread' = [thread EXCEPT ![c] = to] /\ UNCHANGED <<notifications, listing>>
      /\ shown' = [shown EXCEPT !.grew = @ \/ \E t \in CodingTurns : listing[t] # {}]
  <2>1. [thread[c] EXCEPT !.step = "run"] = to
    BY <1>1
  <2>2. thread' = [thread EXCEPT ![c] = [thread[c] EXCEPT !.step = "run"]]
    BY DEF Run
  <2> QED BY <2>1, <2>2 DEF Run
<1>3. to \in ThreadStates /\ to.step = "run"
  BY DEF ThreadStates
<1>4. shown' \in [notices : Seq(Notices), raised : BOOLEAN, grew : BOOLEAN] /\ shown'.notices = shown.notices
      /\ shown'.grew = (shown.grew \/ \E t \in CodingTurns : listing[t] # {}) /\ shown'.raised = shown.raised
  BY <1>2, ThreadIs
<1>5. ListingsAreNoted'
  BY <1>2, <1>4 DEF BackgroundInv, ListingsAreNoted
<1>6. row = CASE to.step = "none" -> NoTask
              [] to.step \in {"run", "status"} -> [status |-> "running", result |-> "none"]
              [] to.step = "result" -> [status |-> to.end, result |-> "none"]
              [] OTHER -> [status |-> to.end, result |-> to.end]
  BY <1>3
<1>7. thread[c].step # "done"
  BY <1>1
<1> QED BY <1>2, <1>3, <1>4, <1>5, <1>6, <1>7, ThreadGoes

LEMMA CommandEndsKeeps == ASSUME BackgroundInv, NEW c \in Commands, NEW end \in Ends, CommandEnds(c, end) PROVE BackgroundInv'
<1> PICK to : to = [step |-> "status", end |-> end]
  OBVIOUS
<1> PICK row : row = [status |-> "running", result |-> "none"]
  OBVIOUS
<1>1. thread[c].step = "run" /\ thread' = [thread EXCEPT ![c] = to] /\ UNCHANGED <<table, notifications, listing, shown>>
  BY DEF CommandEnds
<1>2. table[c] = row
  BY <1>1, RowOf
<1>3. table' = [table EXCEPT ![c] = row]
  BY <1>1, <1>2, ThreadIs
<1>4. to \in ThreadStates /\ to.step = "status"
  BY DEF ThreadStates
<1>5. ListingsAreNoted'
  BY <1>1, ListingsStay DEF Started
<1>6. shown' \in [notices : Seq(Notices), raised : BOOLEAN, grew : BOOLEAN] /\ shown'.notices = shown.notices
  BY <1>1, ThreadIs
<1>7. thread[c].step # "done"
  BY <1>1
<1>8. row = CASE to.step = "none" -> NoTask
              [] to.step \in {"run", "status"} -> [status |-> "running", result |-> "none"]
              [] to.step = "result" -> [status |-> to.end, result |-> "none"]
              [] OTHER -> [status |-> to.end, result |-> to.end]
  BY <1>4
<1> QED BY <1>1, <1>3, <1>4, <1>5, <1>6, <1>7, <1>8, ThreadGoes

LEMMA SetStatusKeeps == ASSUME BackgroundInv, NEW c \in Commands, SetStatus(c) PROVE BackgroundInv'
<1> PICK end : end = thread[c].end
  OBVIOUS
<1> PICK to : to = [step |-> "result", end |-> end]
  OBVIOUS
<1> PICK row : row = [status |-> end, result |-> "none"]
  OBVIOUS
<1>1. thread[c].step = "status" /\ UNCHANGED <<notifications, listing, shown>>
  BY DEF SetStatus
<1>2. end \in Ends /\ thread[c] = [step |-> "status", end |-> end] /\ table[c] = [status |-> "running", result |-> "none"]
  BY <1>1, ThreadIs, RowOf
<1>3. table' = [table EXCEPT ![c] = row] /\ thread' = [thread EXCEPT ![c] = to]
  <2>1. [thread[c] EXCEPT !.step = "result"] = to /\ [table[c] EXCEPT !.status = end] = row
    BY <1>2
  <2>2. /\ thread' = [thread EXCEPT ![c] = [thread[c] EXCEPT !.step = "result"]]
        /\ table' = [table EXCEPT ![c] = [table[c] EXCEPT !.status = end]]
    BY DEF SetStatus
  <2> QED BY <2>1, <2>2
<1>4. to \in ThreadStates /\ to.step = "result"
  BY <1>2 DEF ThreadStates
<1>5. table[c] # NoTask /\ row # NoTask
  BY <1>1, <1>2, RowOf DEF NoTask, Ends
<1>6. Started' = Started
  BY <1>3, <1>5, ThreadIs DEF Started
<1>7. ListingsAreNoted'
  BY <1>1, <1>6, ListingsStay
<1> QED BY <1>1, <1>3, <1>4, <1>7, ThreadIs, ThreadGoes

LEMMA SetResultKeeps == ASSUME BackgroundInv, NEW c \in Commands, SetResult(c) PROVE BackgroundInv'
<1> PICK end : end = thread[c].end
  OBVIOUS
<1> PICK to : to = [step |-> "notify", end |-> end]
  OBVIOUS
<1> PICK row : row = [status |-> end, result |-> end]
  OBVIOUS
<1>1. thread[c].step = "result" /\ UNCHANGED <<notifications, listing, shown>>
  BY DEF SetResult
<1>2. end \in Ends /\ thread[c] = [step |-> "result", end |-> end] /\ table[c] = [status |-> end, result |-> "none"]
  BY <1>1, ThreadIs, RowOf
<1>3. table' = [table EXCEPT ![c] = row] /\ thread' = [thread EXCEPT ![c] = to]
  <2>1. [thread[c] EXCEPT !.step = "notify"] = to /\ [table[c] EXCEPT !.result = end] = row
    BY <1>2
  <2>2. /\ thread' = [thread EXCEPT ![c] = [thread[c] EXCEPT !.step = "notify"]]
        /\ table' = [table EXCEPT ![c] = [table[c] EXCEPT !.result = end]]
    BY DEF SetResult
  <2> QED BY <2>1, <2>2
<1>4. to \in ThreadStates /\ to.step = "notify"
  BY <1>2 DEF ThreadStates
<1>5. table[c] # NoTask /\ row # NoTask
  BY <1>1, <1>2, RowOf DEF NoTask, Ends
<1>6. Started' = Started
  BY <1>3, <1>5, ThreadIs DEF Started
<1>7. ListingsAreNoted'
  BY <1>1, <1>6, ListingsStay
<1> QED BY <1>1, <1>3, <1>4, <1>7, ThreadIs, ThreadGoes

\* What is appended to the second of two lists is behind all of both.
LEMMA AppendBehind ==
  ASSUME NEW S, NEW s \in Seq(S), NEW t \in Seq(S), NEW e \in S PROVE s \o Append(t, e) = Append(s \o t, e)
OBVIOUS

LEMMA NotifyKeeps == ASSUME BackgroundInv, NEW c \in Commands, Notify(c) PROVE BackgroundInv'
<1> PICK end : end = thread[c].end
  OBVIOUS
<1> PICK note : note = [task |-> c, status |-> end]
  OBVIOUS
<1> PICK all : all = AllNotices
  OBVIOUS
<1>1. thread[c].step = "notify" /\ UNCHANGED <<table, listing, shown>> /\ notifications' = Append(notifications, note)
  BY DEF Notify
<1>2. end \in Ends /\ thread[c] = [step |-> "notify", end |-> end]
  BY <1>1, ThreadIs
<1>3. thread' = [thread EXCEPT ![c] = [step |-> "done", end |-> end]]
  <2>1. thread' = [thread EXCEPT ![c] = [thread[c] EXCEPT !.step = "done"]]
    BY DEF Notify
  <2>2. [thread[c] EXCEPT !.step = "done"] = [step |-> "done", end |-> end]
    BY <1>2
  <2> QED BY <2>1, <2>2
<1>4. note \in Notices /\ [step |-> "done", end |-> end] \in ThreadStates
  BY <1>2 DEF Notices, ThreadStates
<1>5. notifications \in Seq(Notices) /\ shown.notices \in Seq(Notices) /\ thread \in [Commands -> ThreadStates]
  BY DEF BackgroundInv, BackgroundTypes
<1>6. all \in Seq(Notices) /\ AllNotices' = Append(all, note)
  <2>1. shown.notices \o Append(notifications, note) = Append(shown.notices \o notifications, note)
    <3>1. \A e \in Notices : \A s, t \in Seq(Notices) : s \o Append(t, e) = Append(s \o t, e)
      BY AppendBehind
    <3> QED BY <1>4, <1>5, <3>1, Zenon
  <2> QED BY <1>1, <1>5, <2>1, ConcatProperties DEF AllNotices
<1>7. BackgroundTypes'
  BY <1>1, <1>3, <1>4, <1>5 DEF BackgroundInv, BackgroundTypes
<1>8. ASSUME NEW d \in Commands PROVE RowIs(d)'
  <2>1. CASE d = c
    <3>1. thread'[d] = [step |-> "done", end |-> end] /\ table'[d] = table[c]
      BY <1>1, <1>3, <1>5, <2>1
    <3>2. table[c] = [status |-> end, result |-> end]
      BY <1>1, <1>2, RowOf
    <3> QED BY <3>1, <3>2 DEF RowIs
  <2>2. CASE d # c
    BY <1>1, <1>3, <1>5, <2>2 DEF BackgroundInv, RowIs
  <2> QED BY <2>1, <2>2
<1>9. NoticesAreOf(AllNotices', thread')
  <2>1. /\ DOMAIN Append(all, note) = DOMAIN all \cup {Len(all) + 1} /\ Append(all, note)[Len(all) + 1] = note
        /\ \A k \in DOMAIN all : Append(all, note)[k] = all[k] /\ all[k] \in Notices
    BY <1>4, <1>6
  <2> PICK more : more = Append(all, note)
    OBVIOUS
  <2>2. \A k \in DOMAIN all : all[k].task \in Commands /\ all[k].task # c
    BY <1>1, <2>1 DEF BackgroundInv, NoticesAreOf, Notices
  <2>3. \A d \in Commands : thread'[d] = IF d = c THEN [step |-> "done", end |-> end] ELSE thread[d]
    BY <1>3, <1>5
  <2>4. \A k \in DOMAIN more : /\ thread'[more[k].task].step = "done"
                               /\ more[k].status = thread'[more[k].task].end
    BY <2>1, <2>2, <2>3 DEF BackgroundInv, NoticesAreOf
  <2>5. \A k, l \in DOMAIN more : more[k].task = more[l].task => k = l
    BY <2>1, <2>2 DEF BackgroundInv, NoticesAreOf
  <2>6. \A d \in Commands : thread'[d].step = "done" => \E k \in DOMAIN more : more[k].task = d
    BY <2>1, <2>3 DEF BackgroundInv, NoticesAreOf
  <2>7. NoticesAreOf(more, thread')
    BY <2>4, <2>5, <2>6 DEF NoticesAreOf
  <2> QED BY <1>6, <2>7
<1>10. ListingsAreNoted'
  BY <1>1, ListingsStay DEF Started
<1> QED BY <1>7, <1>8, <1>9, <1>10 DEF BackgroundInv

LEMMA DrainKeepsAll == ASSUME BackgroundInv, NEW t \in CodingTurns, DrainNotifications(t) PROVE BackgroundInv'
<1>1. shown' = [shown EXCEPT !.notices = @ \o notifications] /\ notifications' = <<>> /\ UNCHANGED <<table, thread, listing>>
  BY DEF DrainNotifications
<1>2. /\ shown \in [notices : Seq(Notices), raised : BOOLEAN, grew : BOOLEAN] /\ notifications \in Seq(Notices)
      /\ shown.notices \o notifications \in Seq(Notices)
  BY ConcatProperties DEF BackgroundInv, BackgroundTypes
<1>3. /\ shown'.notices = AllNotices /\ shown'.raised = shown.raised /\ shown'.grew = shown.grew
      /\ shown' \in [notices : Seq(Notices), raised : BOOLEAN, grew : BOOLEAN] /\ notifications' \in Seq(Notices)
  <2> PICK all \in Seq(Notices) : all = AllNotices
    BY <1>2 DEF AllNotices
  <2>1. shown' = [shown EXCEPT !.notices = all]
    BY <1>1 DEF AllNotices
  <2> PICK s : s = shown
    OBVIOUS
  <2>2. s = [notices |-> s.notices, raised |-> s.raised, grew |-> s.grew] /\ s.raised \in BOOLEAN /\ s.grew \in BOOLEAN
    BY <1>2
  <2>3. shown' = [notices |-> all, raised |-> s.raised, grew |-> s.grew]
    BY <2>1, <2>2
  <2>4. notifications' \in Seq(Notices)
    BY <1>1
  <2> QED BY <2>2, <2>3, <2>4
<1>4. AllNotices' = AllNotices
  BY <1>1, <1>2, <1>3, ConcatEmptySeq DEF AllNotices
<1>5. ListingsAreNoted'
  BY <1>1, <1>3 DEF BackgroundInv, ListingsAreNoted, Started
<1> QED BY <1>1, <1>3, <1>4, <1>5 DEF BackgroundInv, BackgroundTypes, RowIs

LEMMA CheckAllKeeps == ASSUME BackgroundInv, NEW t \in CodingTurns, CheckAll(t) PROVE BackgroundInv'
<1>1. listing' = [listing EXCEPT ![t] = Started] /\ UNCHANGED <<table, thread, notifications, shown>>
  BY DEF CheckAll
<1>2. BackgroundTypes' /\ ListingsAreNoted'
  BY <1>1 DEF BackgroundInv, BackgroundTypes, ListingsAreNoted, Started
<1> QED BY <1>1, <1>2 DEF BackgroundInv, RowIs, AllNotices

LEMMA CheckAllEndsKeeps == ASSUME BackgroundInv, NEW t \in CodingTurns, CheckAllEnds(t) PROVE BackgroundInv'
<1>1. /\ listing[t] # {} /\ listing' = [listing EXCEPT ![t] = {}] /\ UNCHANGED <<table, thread, notifications>>
      /\ shown' = [shown EXCEPT !.raised = @ \/ listing[t] # Started]
  BY DEF CheckAllEnds
<1>2. shown \in [notices : Seq(Notices), raised : BOOLEAN, grew : BOOLEAN]
  BY DEF BackgroundInv, BackgroundTypes
<1>3. /\ shown'.notices = shown.notices /\ shown'.grew = shown.grew /\ shown'.raised = (shown.raised \/ listing[t] # Started)
      /\ shown' \in [notices : Seq(Notices), raised : BOOLEAN, grew : BOOLEAN]
  BY <1>1, <1>2
<1>4. BackgroundTypes' /\ ListingsAreNoted'
  BY <1>1, <1>3 DEF BackgroundInv, BackgroundTypes, ListingsAreNoted, Started
<1>5. AllNotices' = AllNotices
  BY <1>1, <1>3 DEF AllNotices
<1> QED BY <1>1, <1>4, <1>5 DEF BackgroundInv, RowIs

LEMMA BackgroundStep == BackgroundInv /\ BackgroundNext => BackgroundInv'
BY RunKeeps, CommandEndsKeeps, SetStatusKeeps, SetResultKeeps, NotifyKeeps, DrainKeepsAll, CheckAllKeeps, CheckAllEndsKeeps
   DEF BackgroundNext

LEMMA BackgroundInvReports == BackgroundInv => ResultsAreReported
<1> SUFFICES ASSUME BackgroundInv PROVE ResultsAreReported
  OBVIOUS
<1> DEFINE On(c) == {k \in DOMAIN AllNotices : AllNotices[k].task = c}
<1>1. ASSUME NEW c \in Commands PROVE CheckIsWhole(c)
  <2> PICK step : step = thread[c].step
    OBVIOUS
  <2> PICK row : row = table[c]
    OBVIOUS
  <2>1. /\ step \in {"run", "status"} => row = [status |-> "running", result |-> "none"]
        /\ step \in {"notify", "done"} => row = [status |-> thread[c].end, result |-> thread[c].end]
        /\ step = "none" => row = NoTask
        /\ step \in {"none", "run", "status", "result", "notify", "done"}
    BY RowOf, ThreadIs
  <2>2. row.status \in Ends => row.result = row.status \/ step = "result"
    BY <2>1 DEF NoTask, Ends
  <2> QED BY <2>2 DEF CheckIsWhole
<1>2. ASSUME NEW c \in Commands
      PROVE  /\ On(c) # {} <=> thread[c].step = "done"
             /\ \A k \in On(c) : On(c) = {k} /\ AllNotices[k].status = thread[c].end /\ thread[c].step = "done"
  BY DEF BackgroundInv, NoticesAreOf
<1>3. ASSUME NEW c \in Commands, NEW k \in On(c)
      PROVE  table[c] = [status |-> AllNotices[k].status, result |-> AllNotices[k].status]
  <2>1. AllNotices[k].status = thread[c].end /\ thread[c].step = "done"
    BY <1>2
  <2> QED BY <2>1, RowOf
<1>4. shown.raised => shown.grew
  BY DEF BackgroundInv, ListingsAreNoted
<1> QED BY <1>1, <1>2, <1>3, <1>4 DEF ResultsAreReported, AllNotices

---------------------------------------------------------------------------
(* Requests between the lead and its teammates *)

Boxes == Mates \cup {"lead"}
Statuses == {"pending", "approved", "refused"}
Messages == [kind : {"request"}, id : Ids, from : Boxes, to : Boxes]
            \cup [kind : {"verdict"}, id : Ids, from : Boxes, to : Boxes, approve : BOOLEAN]
Asked == [status : Statuses, asker : Boxes, answerer : Boxes, verdicts : Nat]
Callers == [step : {"send", "return"}, message : Messages] \cup {Free}

ProtocolTypes ==
    /\ tracked \in [Ids -> Asked \cup {Unasked}] /\ inbox \in [Boxes -> Seq(Messages)]
    /\ caller \in [Threads -> Callers] /\ DOMAIN seen = Boxes /\ DOMAIN heard = Ids
    /\ life \in [starts : Nat, of : [Ids -> Nat]]

\* The tracker has the requests of this life of the process; an id is used once.
LivesAreNoted ==
    \A i \in Ids : /\ life.of[i] <= life.starts + 1 /\ (tracked[i] # Unasked <=> OfThisLife(i))
                   /\ life.of[i] = 0 => heard[i] = "pending"

\* A message is about a request that was made, and a verdict goes to the one who asked.
MessagesAreOf ==
    /\ \A b \in Boxes : \A k \in DOMAIN inbox[b] :
           /\ life.of[inbox[b][k].id] # 0
           /\ inbox[b][k].kind = "verdict" /\ OfThisLife(inbox[b][k].id) => b = tracked[inbox[b][k].id].asker
    /\ \A t \in Threads : caller[t] # Free =>
           /\ OfThisLife(caller[t].message.id)
           /\ caller[t].message.kind = "verdict" => caller[t].message.to = tracked[caller[t].message.id].asker
           /\ caller[t].step = "return" => caller[t].message.kind = "verdict"

\* What its asker is told of a request follows its record: at most one thread is deciding
\* on it, and until that has sent its verdict the asker may be told what was so before.
VerdictOf(m) == IF m.approve THEN "approved" ELSE "refused"
ToldFollows(i) ==
    OfThisLife(i) /\ i \notin blurred =>
        /\ \A t, u \in Deciding(i) : t = u
        /\ \A t \in Deciding(i) : caller[t].message.kind = "verdict" => tracked[i].status = VerdictOf(caller[t].message)
        /\ \/ Told(i) = tracked[i].status
           \/ \E t \in Deciding(i) : caller[t].step = "send" /\ caller[t].message.kind = "verdict"
ProtocolInv == ProtocolTypes /\ LivesAreNoted /\ MessagesAreOf /\ (\A i \in Ids : ToldFollows(i))

LEMMA LastHeardNone ==
  ASSUME NEW s, NEW i, NEW before, \A k \in DOMAIN s : s[k].id # i \/ s[k].kind # "verdict"
  PROVE  LastHeard(s, i, before) = before
BY DEF LastHeard

\* The last verdict that is appended is the one that is believed.
LEMMA LastHeardAppend ==
  ASSUME NEW s \in Seq(Messages), NEW m \in Messages, NEW i, NEW before
  PROVE  LastHeard(Append(s, m), i, before) =
             IF m.kind = "verdict" /\ m.id = i THEN VerdictOf(m) ELSE LastHeard(s, i, before)
<1>1. /\ DOMAIN Append(s, m) = DOMAIN s \cup {Len(s) + 1} /\ Append(s, m)[Len(s) + 1] = m
      /\ \A k \in DOMAIN s : Append(s, m)[k] = s[k] /\ k <= Len(s) /\ k \in Nat
      /\ Len(s) \in Nat
  OBVIOUS
<1> PICK more : more = Append(s, m)
  OBVIOUS
<1> PICK n \in Nat : n = Len(s) + 1
  BY <1>1
<1>2. /\ DOMAIN more = DOMAIN s \cup {n} /\ more[n] = m
      /\ \A k \in DOMAIN s : more[k] = s[k] /\ k < n /\ k \in Nat
  BY <1>1
<1>3. CASE m.kind = "verdict" /\ m.id = i
  <2>1. LastHeard(more, i, before) = VerdictOf(m)
    BY <1>2, <1>3 DEF LastHeard, VerdictOf
  <2> QED BY <1>3, <2>1
<1>4. CASE ~(m.kind = "verdict" /\ m.id = i)
  <2> PICK on : on = {k \in DOMAIN s : s[k].kind = "verdict" /\ s[k].id = i}
    OBVIOUS
  <2>1. on = {k \in DOMAIN more : more[k].kind = "verdict" /\ more[k].id = i}
    BY <1>2, <1>4
  <2>2. \A k \in on : more[k] = s[k]
    BY <1>2
  <2>3. LastHeard(more, i, before) = LastHeard(s, i, before)
    BY <2>1, <2>2 DEF LastHeard
  <2> QED BY <1>4, <2>3
<1> QED BY <1>3, <1>4

LEMMA ProtocolsStart == ProtocolsInit => ProtocolInv
<1> SUFFICES ASSUME ProtocolsInit PROVE ProtocolInv
  OBVIOUS
<1> USE DEF ProtocolsInit
<1>1. ProtocolTypes
  BY DEF ProtocolTypes, Boxes, Callers
<1>2. \A i \in Ids : ~OfThisLife(i)
  BY DEF OfThisLife
<1>3. \A b \in Boxes : DOMAIN inbox[b] = {}
  BY DEF Boxes
<1>4. LivesAreNoted
  BY <1>2 DEF LivesAreNoted
<1>5. MessagesAreOf
  BY <1>3 DEF MessagesAreOf
<1> QED BY <1>1, <1>2, <1>4, <1>5 DEF ProtocolInv, ToldFollows

LEMMA ProtocolsStutter == ProtocolInv /\ UNCHANGED protocolVars => ProtocolInv'
BY DEF ProtocolInv, protocolVars, ProtocolTypes, LivesAreNoted, MessagesAreOf, ToldFollows, OfThisLife, Deciding, Told

LEMMA Senders ==
  ASSUME ProtocolInv, NEW t \in Threads
  PROVE  /\ BoxOf(t) \in Boxes /\ Free.step = "free"
         /\ caller[t] = Free \/ (caller[t].step \in {"send", "return"} /\ caller[t].message \in Messages
                                 /\ caller[t] = [step |-> caller[t].step, message |-> caller[t].message])
         /\ caller[t].step \in {"send", "return"} => caller[t] # Free
         /\ caller = [u \in Threads |-> caller[u]]
<1>1. caller[t] \in Callers /\ caller = [u \in Threads |-> caller[u]]
  BY DEF ProtocolInv, ProtocolTypes
<1> QED BY <1>1 DEF Callers, Free, BoxOf, Boxes, Threads

LEMMA MessageIs ==
  ASSUME NEW m \in Messages
  PROVE  m.id \in Ids /\ m.to \in Boxes /\ m.kind \in {"request", "verdict"} /\ (m.kind = "verdict" => m.approve \in BOOLEAN)
BY DEF Messages

---------------------------------------------------------------------------
(* Requests and verdicts *)

LEMMA RecordKeeps ==
  ASSUME ProtocolInv, NEW t \in Threads, NEW i \in Ids, NEW to \in Boxes, Record(t, i, to)
  PROVE  ProtocolInv'
<1> PICK from : from = BoxOf(t)
  OBVIOUS
<1> PICK msg : msg = Request(i, from, to)
  OBVIOUS
<1> PICK c : c = [step |-> "send", message |-> msg]
  OBVIOUS
<1> PICK new : new = [status |-> "pending", asker |-> from, answerer |-> to, verdicts |-> 0]
  OBVIOUS
<1>1. /\ caller[t] = Free /\ tracked[i] = Unasked /\ life.of[i] = 0
      /\ tracked' = [tracked EXCEPT ![i] = new] /\ caller' = [caller EXCEPT ![t] = c]
      /\ life' = [life EXCEPT !.of[i] = life.starts + 1] /\ UNCHANGED <<inbox, seen, heard, blurred>>
  BY DEF Record, Unused
<1>2. from \in Boxes
  BY Senders
<1>3. /\ msg \in Messages /\ msg.id = i /\ msg.kind = "request"
      /\ c \in Callers /\ c.step = "send" /\ c.message = msg /\ c # Free
  BY <1>2 DEF Messages, Callers, Request, Free
<1>4. new \in Asked /\ new # Unasked /\ new.status = "pending" /\ new.asker = from
  BY <1>2 DEF Asked, Unasked, Statuses
<1>5. /\ tracked \in [Ids -> Asked \cup {Unasked}] /\ inbox \in [Boxes -> Seq(Messages)] /\ caller \in [Threads -> Callers]
      /\ life \in [starts : Nat, of : [Ids -> Nat]] /\ LivesAreNoted /\ MessagesAreOf
  BY DEF ProtocolInv, ProtocolTypes
<1>6. life'.starts = life.starts /\ life'.of = [life.of EXCEPT ![i] = life.starts + 1]
      /\ life' \in [starts : Nat, of : [Ids -> Nat]]
  <2> PICK n \in Nat : n = life.starts
    BY <1>5
  <2> PICK of \in [Ids -> Nat] : of = life.of
    BY <1>5
  <2>1. life = [starts |-> n, of |-> of]
    BY <1>5
  <2>2. life' = [starts |-> n, of |-> [of EXCEPT ![i] = n + 1]]
    BY <1>1, <2>1
  <2> QED BY <2>2
<1>7. ~OfThisLife(i) /\ OfThisLife(i)'
  BY <1>1, <1>5, <1>6 DEF OfThisLife
<1>8. \A j \in Ids \ {i} : /\ tracked'[j] = tracked[j] /\ life'.of[j] = life.of[j] /\ OfThisLife(j)' <=> OfThisLife(j)
                           /\ tracked[j] # Unasked <=> OfThisLife(j)
  BY <1>1, <1>5, <1>6 DEF OfThisLife, LivesAreNoted
<1>9. tracked'[i] = new /\ life'.of[i] = life.starts + 1
  BY <1>1, <1>5, <1>6
<1>10. \A u \in Threads : caller'[u] = IF u = t THEN c ELSE caller[u]
  BY <1>1, <1>5
<1>11. ProtocolTypes'
  BY <1>1, <1>3, <1>4, <1>5, <1>6 DEF ProtocolInv, ProtocolTypes
<1>12. LivesAreNoted'
  <2>1. life.starts \in Nat
    BY <1>5
  <2> QED BY <1>1, <1>4, <1>5, <1>6, <1>7, <1>8, <1>9, <2>1 DEF LivesAreNoted
<1>13. \A b \in Boxes : \A k \in DOMAIN inbox[b] : inbox[b][k].id \in Ids /\ inbox[b][k].id # i
  <2>1. ASSUME NEW b \in Boxes, NEW k \in DOMAIN inbox[b] PROVE inbox[b][k] \in Messages
    BY <1>5
  <2> QED BY <1>1, <1>5, <2>1, MessageIs DEF MessagesAreOf
<1>14. \A u \in Threads : caller[u] # Free => caller[u].message.id \in Ids /\ caller[u].message.id # i
  BY <1>5, <1>7, Senders, MessageIs DEF MessagesAreOf
<1>15. MessagesAreOf'
  <2>1. ASSUME NEW b \in Boxes, NEW k \in DOMAIN inbox'[b]
        PROVE  /\ life'.of[inbox'[b][k].id] # 0
               /\ inbox'[b][k].kind = "verdict" /\ OfThisLife(inbox[b][k].id)' => b = tracked'[inbox'[b][k].id].asker
    <3> PICK m : m = inbox[b][k]
      OBVIOUS
    <3>1. inbox'[b][k] = m /\ m.id \in Ids \ {i}
      BY <1>1, <1>13, <2>1
    <3>2. life.of[m.id] # 0 /\ (m.kind = "verdict" /\ OfThisLife(m.id) => b = tracked[m.id].asker)
      BY <1>1, <1>5, <2>1 DEF MessagesAreOf
    <3> QED BY <1>6, <1>8, <3>1, <3>2 DEF OfThisLife
  <2>2. ASSUME NEW u \in Threads, caller'[u] # Free
        PROVE  /\ OfThisLife(caller[u].message.id)'
               /\ caller'[u].message.kind = "verdict" => caller'[u].message.to = tracked'[caller'[u].message.id].asker
               /\ caller'[u].step = "return" => caller'[u].message.kind = "verdict"
    <3>1. CASE u = t
      <4>1. caller'[u] = c
        BY <1>10, <3>1
      <4> QED BY <1>3, <1>7, <4>1 DEF OfThisLife
    <3>2. CASE u # t
      <4> PICK m : m = caller[u].message
        OBVIOUS
      <4>1. caller'[u] = caller[u] /\ m.id \in Ids \ {i}
        BY <1>10, <1>14, <2>2, <3>2
      <4>2. OfThisLife(m.id) /\ (m.kind = "verdict" => m.to = tracked[m.id].asker)
            /\ (caller[u].step = "return" => m.kind = "verdict")
        BY <1>5, <2>2, <4>1 DEF MessagesAreOf
      <4> QED BY <1>6, <1>8, <4>1, <4>2 DEF OfThisLife
    <3> QED BY <3>1, <3>2
  <2> QED BY <2>1, <2>2 DEF MessagesAreOf
<1>16. ASSUME NEW j \in Ids PROVE ToldFollows(j)'
  <2>1. CASE j = i
    <3>1. Deciding(j)' = {t}
      <4>1. ASSUME NEW u \in Threads \ {t}, caller'[u].step \in {"send", "return"} PROVE caller'[u].message.id # i
        <5>1. caller'[u] = caller[u]
          BY <1>10
        <5>2. caller[u] # Free
          BY <4>1, <5>1 DEF Free
        <5> QED BY <1>14, <5>1, <5>2
      <4>2. caller'[t] = c
        BY <1>10
      <4> QED BY <1>3, <2>1, <4>1, <4>2 DEF Deciding
    <3>2. Told(j)' = "pending"
      <4>1. Told(j)' = LastHeard(inbox[from], i, heard[i])
        BY <1>1, <1>4, <1>9, <2>1 DEF Told
      <4>2. LastHeard(inbox[from], i, heard[i]) = heard[i]
        BY <1>2, <1>13, LastHeardNone
      <4> QED BY <1>1, <1>5, <4>1, <4>2 DEF LivesAreNoted
    <3> QED BY <1>3, <1>4, <1>9, <1>10, <2>1, <3>1, <3>2 DEF ToldFollows
  <2>2. CASE j # i
    <3>1. Deciding(j)' = Deciding(j) /\ t \notin Deciding(j)
      BY <1>1, <1>3, <1>10, <2>2, Senders DEF Deciding
    <3>2. \A u \in Deciding(j) : caller'[u] = caller[u]
      BY <1>10, <3>1 DEF Deciding
    <3>3. Told(j)' = Told(j)
      BY <1>1, <1>8, <2>2 DEF Told
    <3>4. ToldFollows(j) /\ tracked'[j] = tracked[j] /\ (OfThisLife(j)' <=> OfThisLife(j)) /\ blurred' = blurred
      BY <1>1, <1>8, <2>2 DEF ProtocolInv
    <3> QED BY <3>1, <3>2, <3>3, <3>4 DEF ToldFollows
  <2> QED BY <2>1, <2>2
<1> QED BY <1>11, <1>12, <1>15, <1>16 DEF ProtocolInv

LEMMA DecideUnknownKeeps == ASSUME ProtocolInv, NEW t \in Threads, NEW i \in Ids, DecideUnknown(t, i) PROVE ProtocolInv'
<1>1. /\ seen' = [seen EXCEPT ![BoxOf(t)] = @ \ {i}] /\ UNCHANGED <<tracked, inbox, caller, heard, life, blurred>>
  BY DEF DecideUnknown
<1>2. ProtocolTypes'
  BY <1>1 DEF ProtocolInv, ProtocolTypes
<1>3. LivesAreNoted' /\ MessagesAreOf'
  BY <1>1 DEF ProtocolInv, LivesAreNoted, MessagesAreOf, OfThisLife
<1>4. \A j \in Ids : ToldFollows(j)'
  BY <1>1 DEF ProtocolInv, ToldFollows, OfThisLife, Deciding, Told
<1> QED BY <1>2, <1>3, <1>4 DEF ProtocolInv

LEMMA DecideKeeps ==
  ASSUME ProtocolInv, NEW t \in Threads, NEW i \in Ids, NEW approve \in BOOLEAN, Decide(t, i, approve)
  PROVE  ProtocolInv'
<1> PICK old : old = tracked[i]
  OBVIOUS
<1> PICK status : status = IF approve THEN "approved" ELSE "refused"
  OBVIOUS
<1> PICK new : new = [old EXCEPT !.status = status, !.verdicts = @ + 1]
  OBVIOUS
<1> PICK msg : msg = Verdict(i, BoxOf(t), old.asker, approve)
  OBVIOUS
<1> PICK c : c = [step |-> "send", message |-> msg]
  OBVIOUS
<1>1. /\ caller[t] = Free /\ old # Unasked
      /\ tracked' = [tracked EXCEPT ![i].status = IF approve THEN "approved" ELSE "refused", ![i].verdicts = @ + 1]
      /\ caller' = [caller EXCEPT ![t] = c] /\ UNCHANGED <<inbox, seen, heard, life>>
      /\ blurred' = IF Deciding(i) = {} THEN blurred ELSE blurred \cup {i}
  BY DEF Decide, MayAnswer
<1>2. /\ tracked \in [Ids -> Asked \cup {Unasked}] /\ inbox \in [Boxes -> Seq(Messages)] /\ caller \in [Threads -> Callers]
      /\ LivesAreNoted /\ MessagesAreOf
  BY DEF ProtocolInv, ProtocolTypes
<1>3. old \in Asked
  BY <1>1, <1>2
<1>4. new \in Asked /\ new.status = status /\ new.asker = old.asker /\ new # Unasked
  <2> PICK n \in Nat : n = old.verdicts
    BY <1>3 DEF Asked
  <2> PICK from \in Boxes : from = old.asker
    BY <1>3 DEF Asked
  <2> PICK to \in Boxes : to = old.answerer
    BY <1>3 DEF Asked
  <2>1. old = [status |-> old.status, asker |-> from, answerer |-> to, verdicts |-> n]
    BY <1>3 DEF Asked
  <2>2. new = [status |-> status, asker |-> from, answerer |-> to, verdicts |-> n + 1]
    BY <2>1
  <2>3. status \in Statuses /\ status # "none"
    BY DEF Statuses
  <2>4. new \in Asked
    <3>1. n + 1 \in Nat
      OBVIOUS
    <3> HIDE DEF Boxes, Statuses
    <3> QED BY <2>2, <2>3, <3>1 DEF Asked
  <2>5. new.status = status /\ new.asker = old.asker
    BY <2>2
  <2>6. new # Unasked
    BY <2>3, <2>5 DEF Unasked
  <2> QED BY <2>4, <2>5, <2>6
<1>5. tracked' = [tracked EXCEPT ![i] = new]
  BY <1>1, <1>2, <1>3 DEF Asked
<1>6. /\ msg \in Messages /\ msg.id = i /\ msg.kind = "verdict" /\ msg.to = old.asker /\ VerdictOf(msg) = status
      /\ c \in Callers /\ c.step = "send" /\ c.message = msg /\ c # Free
  BY <1>3, Senders DEF Messages, Callers, Verdict, Free, VerdictOf, Asked
<1>7. OfThisLife(i) /\ \A j \in Ids : OfThisLife(j)' <=> OfThisLife(j)
  BY <1>1, <1>2 DEF LivesAreNoted, OfThisLife
<1>8. \A j \in Ids : tracked'[j] = IF j = i THEN new ELSE tracked[j]
  BY <1>2, <1>5
<1>9. \A u \in Threads : caller'[u] = IF u = t THEN c ELSE caller[u]
  BY <1>1, <1>2
<1>10. ProtocolTypes'
  BY <1>1, <1>2, <1>4, <1>5, <1>6 DEF ProtocolInv, ProtocolTypes
<1>11. LivesAreNoted'
  BY <1>1, <1>2, <1>4, <1>7, <1>8 DEF LivesAreNoted
<1>12. \A j \in Ids : tracked'[j].asker = tracked[j].asker
  BY <1>4, <1>8
<1>13. MessagesAreOf'
  <2>1. ASSUME NEW b \in Boxes, NEW k \in DOMAIN inbox'[b]
        PROVE  /\ life'.of[inbox'[b][k].id] # 0
               /\ inbox'[b][k].kind = "verdict" /\ OfThisLife(inbox[b][k].id)' => b = tracked'[inbox'[b][k].id].asker
    <3> PICK m : m = inbox[b][k]
      OBVIOUS
    <3>1. inbox'[b][k] = m /\ m.id \in Ids
      <4>1. m \in Messages
        BY <1>1, <1>2, <2>1
      <4> QED BY <1>1, <4>1, MessageIs
    <3>2. life.of[m.id] # 0 /\ (m.kind = "verdict" /\ OfThisLife(m.id) => b = tracked[m.id].asker)
      BY <1>1, <1>2, <2>1 DEF MessagesAreOf
    <3> QED BY <1>1, <1>12, <3>1, <3>2 DEF OfThisLife
  <2>2. ASSUME NEW u \in Threads, caller'[u] # Free
        PROVE  /\ OfThisLife(caller[u].message.id)'
               /\ caller'[u].message.kind = "verdict" => caller'[u].message.to = tracked'[caller'[u].message.id].asker
               /\ caller'[u].step = "return" => caller'[u].message.kind = "verdict"
    <3>1. CASE u = t
      <4>1. caller'[u] = c
        BY <1>9, <3>1
      <4>2. OfThisLife(i)'
        BY <1>7
      <4>3. tracked'[i].asker = old.asker
        BY <1>12
      <4> QED BY <1>6, <4>1, <4>2, <4>3
    <3>2. CASE u # t
      <4> PICK m : m = caller[u].message
        OBVIOUS
      <4>1. caller'[u] = caller[u] /\ caller[u] # Free
        BY <1>9, <2>2, <3>2
      <4>2. m.id \in Ids
        BY <4>1, Senders, MessageIs
      <4>3. OfThisLife(m.id) /\ (m.kind = "verdict" => m.to = tracked[m.id].asker)
            /\ (caller[u].step = "return" => m.kind = "verdict")
        BY <1>2, <4>1 DEF MessagesAreOf
      <4> QED BY <1>1, <1>12, <4>1, <4>2, <4>3 DEF OfThisLife
    <3> QED BY <3>1, <3>2
  <2> QED BY <2>1, <2>2 DEF MessagesAreOf
<1>14. ASSUME NEW j \in Ids PROVE ToldFollows(j)'
  <2>1. CASE j = i
    <3>1. SUFFICES ASSUME j \notin blurred' PROVE ToldFollows(j)'
      BY DEF ToldFollows
    <3>2. Deciding(i) = {}
      BY <1>1, <2>1, <3>1
    <3>3. Deciding(j)' = {t}
      BY <1>6, <1>9, <2>1, <3>2 DEF Deciding
    <3>4. caller'[t] = c /\ tracked'[j].status = status
      BY <1>4, <1>8, <1>9, <2>1
    <3> QED BY <1>6, <3>3, <3>4 DEF ToldFollows
  <2>2. CASE j # i
    <3>1. Deciding(j)' = Deciding(j) /\ t \notin Deciding(j)
      BY <1>1, <1>6, <1>9, <2>2, Senders DEF Deciding
    <3>2. \A u \in Deciding(j) : caller'[u] = caller[u]
      BY <1>9, <3>1 DEF Deciding
    <3>3. Told(j)' = Told(j)
      BY <1>1, <1>8, <2>2 DEF Told
    <3>4. ToldFollows(j) /\ tracked'[j] = tracked[j] /\ (OfThisLife(j)' <=> OfThisLife(j))
          /\ (j \in blurred' <=> j \in blurred)
      BY <1>1, <1>7, <1>8, <2>2 DEF ProtocolInv
    <3> QED BY <3>1, <3>2, <3>3, <3>4 DEF ToldFollows
  <2> QED BY <2>1, <2>2
<1> QED BY <1>10, <1>11, <1>13, <1>14 DEF ProtocolInv

---------------------------------------------------------------------------
(* Messages *)

\* A thread that is done with a message, which nothing else changes for.
LEMMA SendKeeps == ASSUME ProtocolInv, NEW t \in Threads, Send(t) PROVE ProtocolInv'
<1> PICK m : m = caller[t].message
  OBVIOUS
<1> PICK c : c = IF m.kind = "request" THEN Free ELSE [step |-> "return", message |-> m]
  OBVIOUS
<1>1. m \in Messages /\ caller[t] = [step |-> "send", message |-> m] /\ caller[t] # Free
  BY Senders DEF Send
<1>2. /\ inbox' = [inbox EXCEPT ![m.to] = Append(@, m)] /\ UNCHANGED <<tracked, seen, heard, life, blurred>>
      /\ caller' = [caller EXCEPT ![t] = c]
  <2>1. [caller[t] EXCEPT !.step = "return"] = [step |-> "return", message |-> m]
    BY <1>1
  <2> QED BY <2>1 DEF Send
<1>3. /\ tracked \in [Ids -> Asked \cup {Unasked}] /\ inbox \in [Boxes -> Seq(Messages)] /\ caller \in [Threads -> Callers]
      /\ LivesAreNoted /\ MessagesAreOf
  BY DEF ProtocolInv, ProtocolTypes
<1>4. m.id \in Ids /\ m.to \in Boxes /\ m.kind \in {"request", "verdict"}
  BY <1>1, MessageIs
<1>5. /\ OfThisLife(m.id) /\ life.of[m.id] # 0
      /\ m.kind = "verdict" => m.to = tracked[m.id].asker
  <2>1. OfThisLife(m.id) /\ (m.kind = "verdict" => m.to = tracked[m.id].asker)
    BY <1>1, <1>3 DEF MessagesAreOf
  <2>2. life.starts \in Nat
    BY DEF ProtocolInv, ProtocolTypes
  <2> QED BY <2>1, <2>2 DEF OfThisLife
<1>6. c \in Callers /\ c.step # "send" /\ (c # Free => m.kind = "verdict" /\ c.step = "return" /\ c.message = m)
  BY <1>1, <1>4 DEF Callers, Free
<1>7. \A u \in Threads : caller'[u] = IF u = t THEN c ELSE caller[u]
  BY <1>2, <1>3
<1>8. \A b \in Boxes : inbox'[b] = IF b = m.to THEN Append(inbox[b], m) ELSE inbox[b]
  BY <1>2, <1>3
<1>9. ProtocolTypes'
  BY <1>1, <1>2, <1>3, <1>4, <1>6 DEF ProtocolInv, ProtocolTypes
<1>10. LivesAreNoted' /\ \A j : OfThisLife(j)' <=> OfThisLife(j)
  BY <1>2, <1>3 DEF LivesAreNoted, OfThisLife
<1>11. MessagesAreOf'
  <2>1. ASSUME NEW b \in Boxes, NEW k \in DOMAIN inbox'[b]
        PROVE  /\ life'.of[inbox'[b][k].id] # 0
               /\ inbox'[b][k].kind = "verdict" /\ OfThisLife(inbox[b][k].id)' => b = tracked'[inbox'[b][k].id].asker
    <3>1. CASE k \in DOMAIN inbox[b] /\ inbox'[b][k] = inbox[b][k]
      BY <1>2, <1>3, <3>1 DEF MessagesAreOf, OfThisLife
    <3>2. CASE b = m.to /\ inbox'[b][k] = m
      BY <1>2, <1>5, <3>2
    <3>3. (k \in DOMAIN inbox[b] /\ inbox'[b][k] = inbox[b][k]) \/ (b = m.to /\ inbox'[b][k] = m)
      <4> PICK s \in Seq(Messages) : s = inbox[b]
        BY <1>3
      <4>1. /\ DOMAIN Append(s, m) = DOMAIN s \cup {Len(s) + 1} /\ Append(s, m)[Len(s) + 1] = m
            /\ \A l \in DOMAIN s : Append(s, m)[l] = s[l]
        BY <1>1
      <4> QED BY <1>8, <2>1, <4>1
    <3> QED BY <3>1, <3>2, <3>3
  <2>2. ASSUME NEW u \in Threads, caller'[u] # Free
        PROVE  /\ OfThisLife(caller[u].message.id)'
               /\ caller'[u].message.kind = "verdict" => caller'[u].message.to = tracked'[caller'[u].message.id].asker
               /\ caller'[u].step = "return" => caller'[u].message.kind = "verdict"
    <3>1. CASE u = t
      <4>1. caller'[u] = c /\ c # Free
        BY <1>7, <2>2, <3>1
      <4> QED BY <1>2, <1>5, <1>6, <4>1 DEF OfThisLife
    <3>2. CASE u # t
      <4>1. caller'[u] = caller[u] /\ caller[u] # Free
        BY <1>7, <2>2, <3>2
      <4> QED BY <1>2, <1>3, <4>1 DEF MessagesAreOf, OfThisLife
    <3> QED BY <3>1, <3>2
  <2> QED BY <2>1, <2>2 DEF MessagesAreOf
<1>12. ASSUME NEW j \in Ids PROVE ToldFollows(j)'
  <2> SUFFICES ASSUME OfThisLife(j), j \notin blurred PROVE ToldFollows(j)'
    BY <1>2, <1>10 DEF ToldFollows
  <2>1. /\ \A u, v \in Deciding(j) : u = v
        /\ \A u \in Deciding(j) : caller[u].message.kind = "verdict" => tracked[j].status = VerdictOf(caller[u].message)
        /\ \/ Told(j) = tracked[j].status
           \/ \E u \in Deciding(j) : caller[u].step = "send" /\ caller[u].message.kind = "verdict"
    BY DEF ProtocolInv, ToldFollows
  <2>2. Deciding(j)' \subseteq Deciding(j)
    <3>1. ASSUME NEW u \in Deciding(j)' PROVE u \in Deciding(j)
      <4>1. u \in Threads /\ caller'[u].step \in {"send", "return"} /\ caller'[u].message.id = j
        BY <3>1 DEF Deciding
      <4>2. CASE u = t
        <5>1. caller'[u] = c /\ c # Free
          BY <1>7, <4>1, <4>2 DEF Free
        <5>2. c.message = m /\ m.id = j
          BY <1>6, <4>1, <5>1
        <5>3. caller[t].step = "send" /\ caller[t].message = m
          BY <1>1
        <5> QED BY <4>2, <5>2, <5>3 DEF Deciding
      <4>3. CASE u # t
        BY <1>7, <4>1, <4>3 DEF Deciding
      <4> QED BY <4>2, <4>3
    <3> QED BY <3>1
  <2>3. \A u \in Deciding(j)' : caller'[u].message = caller[u].message
    BY <1>1, <1>6, <1>7 DEF Deciding, Free
  <2>4. tracked[j] \in Asked /\ tracked[j].asker \in Boxes
    <3>1. tracked[j] # Unasked
      BY <1>3 DEF LivesAreNoted
    <3> QED BY <1>3, <3>1 DEF Asked
  <2>5. Told(j)' = LastHeard(inbox'[tracked[j].asker], j, heard[j]) /\ Told(j) = LastHeard(inbox[tracked[j].asker], j, heard[j])
    BY <1>2 DEF Told
  <2>6. Told(j)' = tracked[j].status \/ \E u \in Deciding(j)' : caller'[u].step = "send" /\ caller'[u].message.kind = "verdict"
    <3>1. CASE m.kind = "verdict" /\ m.id = j
      <4>1. t \in Deciding(j)
        <5>1. caller[t].step = "send" /\ caller[t].message = m
          BY <1>1
        <5> QED BY <3>1, <5>1 DEF Deciding
      <4>2. inbox'[tracked[j].asker] = Append(inbox[tracked[j].asker], m) /\ inbox[tracked[j].asker] \in Seq(Messages)
        BY <1>3, <1>5, <1>8, <2>4, <3>1
      <4>3. Told(j)' = VerdictOf(m)
        BY <1>1, <2>5, <3>1, <4>2, LastHeardAppend
      <4> QED BY <1>1, <2>1, <3>1, <4>1, <4>3
    <3>2. CASE ~(m.kind = "verdict" /\ m.id = j)
      <4>1. Told(j)' = Told(j)
        <5> PICK s \in Seq(Messages) : s = inbox[tracked[j].asker]
          BY <1>3, <2>4
        <5>1. inbox'[tracked[j].asker] = s \/ inbox'[tracked[j].asker] = Append(s, m)
          BY <1>8, <2>4
        <5>2. LastHeard(Append(s, m), j, heard[j]) = LastHeard(s, j, heard[j])
          BY <1>1, <3>2, LastHeardAppend
        <5> QED BY <2>5, <5>1, <5>2
      <4>2. ASSUME NEW u \in Deciding(j), caller[u].step = "send", caller[u].message.kind = "verdict"
            PROVE  u \in Deciding(j)' /\ caller'[u] = caller[u]
        <5>1. u # t /\ u \in Threads
          BY <1>1, <3>2, <4>2 DEF Deciding
        <5> QED BY <1>7, <4>2, <5>1 DEF Deciding
      <4> QED BY <2>1, <4>1, <4>2
    <3> QED BY <3>1, <3>2
  <2>7. tracked' = tracked
    BY <1>2
  <2> QED BY <2>1, <2>2, <2>3, <2>6, <2>7 DEF ToldFollows
<1> QED BY <1>9, <1>10, <1>11, <1>12 DEF ProtocolInv

\* A thread gives up its message, or is through with it.
LEMMA FreesKeeps ==
  ASSUME ProtocolInv, NEW t \in Threads, caller' = [caller EXCEPT ![t] = Free],
         caller[t].step \in {"send", "return"},
         UNCHANGED <<tracked, inbox, seen, heard, life>>,
         blurred' = (IF caller[t].step = "send" THEN blurred \cup {caller[t].message.id} ELSE blurred)
  PROVE  ProtocolInv'
<1>1. /\ tracked \in [Ids -> Asked \cup {Unasked}] /\ inbox \in [Boxes -> Seq(Messages)] /\ caller \in [Threads -> Callers]
      /\ LivesAreNoted /\ MessagesAreOf
  BY DEF ProtocolInv, ProtocolTypes
<1>2. \A u \in Threads : caller'[u] = IF u = t THEN Free ELSE caller[u]
  BY <1>1
<1>3. ProtocolTypes'
  BY <1>1 DEF ProtocolInv, ProtocolTypes, Callers
<1>4. LivesAreNoted'
  BY <1>1 DEF LivesAreNoted, OfThisLife
<1>5. MessagesAreOf'
  BY <1>1, <1>2 DEF MessagesAreOf, OfThisLife
<1>6. ASSUME NEW j \in Ids PROVE ToldFollows(j)'
  <2>1. Deciding(j)' = Deciding(j) \ {t} /\ \A u \in Deciding(j)' : caller'[u] = caller[u]
    BY <1>2 DEF Deciding, Free
  <2>2. Told(j)' = Told(j) /\ tracked' = tracked /\ blurred \subseteq blurred'
    BY DEF Told
  <2> SUFFICES ASSUME OfThisLife(j), j \notin blurred' PROVE ToldFollows(j)'
    BY DEF ToldFollows, OfThisLife
  <2>3. /\ \A u, v \in Deciding(j) : u = v
        /\ \A u \in Deciding(j) : caller[u].message.kind = "verdict" => tracked[j].status = VerdictOf(caller[u].message)
        /\ \/ Told(j) = tracked[j].status
           \/ \E u \in Deciding(j) : caller[u].step = "send" /\ caller[u].message.kind = "verdict"
    BY <2>2 DEF ProtocolInv, ToldFollows
  <2>4. t \in Deciding(j) => caller[t].step = "return"
    BY DEF Deciding
  <2> QED BY <2>1, <2>2, <2>3, <2>4 DEF ToldFollows
<1> QED BY <1>3, <1>4, <1>5, <1>6 DEF ProtocolInv

LEMMA SendRaisesKeeps == ASSUME ProtocolInv, NEW t \in Threads, SendRaises(t) PROVE ProtocolInv'
BY FreesKeeps DEF SendRaises

LEMMA ReturnVerdictKeeps == ASSUME ProtocolInv, NEW t \in Threads, ReturnVerdict(t) PROVE ProtocolInv'
BY FreesKeeps DEF ReturnVerdict

LEMMA ReadInboxKeeps == ASSUME ProtocolInv, NEW t \in Threads, ReadInbox(t) PROVE ProtocolInv'
<1> PICK b : b = BoxOf(t)
  OBVIOUS
<1>1. /\ heard' = [i \in Ids |-> LastHeard(inbox[b], i, heard[i])] /\ inbox' = [inbox EXCEPT ![b] = <<>>]
      /\ DOMAIN seen' = DOMAIN seen /\ UNCHANGED <<tracked, caller, life, blurred>>
  BY DEF ReadInbox
<1>2. /\ tracked \in [Ids -> Asked \cup {Unasked}] /\ inbox \in [Boxes -> Seq(Messages)] /\ b \in Boxes
      /\ LivesAreNoted /\ MessagesAreOf
  BY Senders DEF ProtocolInv, ProtocolTypes
<1>3. \A d \in Boxes : inbox'[d] = IF d = b THEN <<>> ELSE inbox[d]
  BY <1>1, <1>2
<1>4. ProtocolTypes'
  <2>1. inbox' \in [Boxes -> Seq(Messages)]
    <3>1. <<>> \in Seq(Messages)
      OBVIOUS
    <3> QED BY <1>1, <1>2, <3>1
  <2> QED BY <1>1, <2>1 DEF ProtocolInv, ProtocolTypes
<1>5. \A i \in Ids : (life.of[i] = 0 \/ (OfThisLife(i) /\ tracked[i].asker # b)) => heard'[i] = heard[i]
  <2>1. ASSUME NEW i \in Ids, life.of[i] = 0 \/ (OfThisLife(i) /\ tracked[i].asker # b)
        PROVE  heard'[i] = heard[i]
    <3>1. \A k \in DOMAIN inbox[b] : inbox[b][k].id # i \/ inbox[b][k].kind # "verdict"
      BY <1>2, <2>1 DEF MessagesAreOf
    <3>2. LastHeard(inbox[b], i, heard[i]) = heard[i]
      BY <3>1, LastHeardNone
    <3> QED BY <1>1, <3>2
  <2> QED BY <2>1
<1>6. LivesAreNoted'
  BY <1>1, <1>2, <1>5 DEF LivesAreNoted, OfThisLife
<1>7. MessagesAreOf'
  <2>1. \A d \in Boxes : DOMAIN inbox'[d] = {} \/ inbox'[d] = inbox[d]
    BY <1>3
  <2> QED BY <1>1, <1>2, <2>1 DEF MessagesAreOf, OfThisLife
<1>8. ASSUME NEW j \in Ids PROVE ToldFollows(j)'
  <2> SUFFICES ASSUME OfThisLife(j) PROVE ToldFollows(j)'
    BY <1>1 DEF ToldFollows, OfThisLife
  <2>1. tracked[j].asker \in Boxes
    <3>1. tracked[j] \in Asked
      BY <1>2 DEF LivesAreNoted
    <3> QED BY <3>1 DEF Asked
  <2>2. Told(j)' = Told(j)
    <3>1. CASE tracked[j].asker = b
      <4>1. inbox'[b] = <<>> /\ LastHeard(<<>>, j, heard'[j]) = heard'[j]
        BY <1>2, <1>3, LastHeardNone
      <4>2. Told(j)' = heard'[j] /\ Told(j) = LastHeard(inbox[b], j, heard[j])
        BY <1>1, <3>1, <4>1 DEF Told
      <4> QED BY <1>1, <4>2
    <3>2. CASE tracked[j].asker # b
      <4>1. heard'[j] = heard[j] /\ inbox'[tracked[j].asker] = inbox[tracked[j].asker]
        BY <1>3, <1>5, <2>1, <3>2
      <4> QED BY <1>1, <4>1 DEF Told
    <3> QED BY <3>1, <3>2
  <2>3. Deciding(j)' = Deciding(j) /\ UNCHANGED <<tracked, caller, blurred>> /\ ToldFollows(j)
    BY <1>1 DEF Deciding, ProtocolInv
  <2> QED BY <2>2, <2>3 DEF ToldFollows
<1> QED BY <1>4, <1>6, <1>7, <1>8 DEF ProtocolInv

LEMMA RestartKeeps == ASSUME ProtocolInv, Restart PROVE ProtocolInv'
<1>1. /\ life' = [life EXCEPT !.starts = @ + 1] /\ tracked' = [i \in Ids |-> Unasked]
      /\ caller' = [t \in Threads |-> Free] /\ DOMAIN seen' = DOMAIN seen /\ UNCHANGED <<inbox, heard, blurred>>
  BY DEF Restart
<1>2. /\ life \in [starts : Nat, of : [Ids -> Nat]] /\ LivesAreNoted /\ MessagesAreOf
      /\ inbox \in [Boxes -> Seq(Messages)]
  BY DEF ProtocolInv, ProtocolTypes
<1>3. life' \in [starts : Nat, of : [Ids -> Nat]] /\ life'.of = life.of /\ life'.starts = life.starts + 1
  <2> PICK n \in Nat : n = life.starts
    BY <1>2
  <2> PICK of \in [Ids -> Nat] : of = life.of
    BY <1>2
  <2>1. life = [starts |-> n, of |-> of]
    BY <1>2
  <2>2. life' = [starts |-> n + 1, of |-> of]
    BY <1>1, <2>1
  <2> QED BY <2>2
<1>4. \A i \in Ids : ~OfThisLife(i)'
  BY <1>2, <1>3 DEF OfThisLife, LivesAreNoted
<1>5. ProtocolTypes'
  BY <1>1, <1>3 DEF ProtocolInv, ProtocolTypes, Callers
<1>6. LivesAreNoted'
  BY <1>1, <1>2, <1>3, <1>4 DEF LivesAreNoted
<1>7. MessagesAreOf'
  <2>1. ASSUME NEW b \in Boxes, NEW k \in DOMAIN inbox[b] PROVE inbox[b][k].id \in Ids /\ life.of[inbox[b][k].id] # 0
    <3>1. inbox[b][k] \in Messages
      BY <1>2, <2>1
    <3> QED BY <1>2, <2>1, <3>1, MessageIs DEF MessagesAreOf
  <2>2. \A b \in Boxes : \A k \in DOMAIN inbox[b] : ~OfThisLife(inbox[b][k].id)'
    BY <1>1, <1>4, <2>1 DEF OfThisLife
  <2> QED BY <1>1, <1>3, <2>1, <2>2 DEF MessagesAreOf, OfThisLife
<1> QED BY <1>4, <1>5, <1>6, <1>7 DEF ProtocolInv, ToldFollows

LEMMA ProtocolsStep == ProtocolInv /\ ProtocolsNext => ProtocolInv'
<1> SUFFICES ASSUME ProtocolInv, ProtocolsNext PROVE ProtocolInv'
  OBVIOUS
<1>1. ASSUME NEW i \in Ids, NEW m \in Mates, HandlePlanRequest(m, i) PROVE ProtocolInv'
  BY <1>1, RecordKeeps DEF HandlePlanRequest, Threads, Boxes
<1>2. ASSUME NEW i \in Ids, NEW l \in Leads, NEW m \in Mates, HandleShutdownRequest(l, i, m) PROVE ProtocolInv'
  BY <1>2, RecordKeeps DEF HandleShutdownRequest, Threads, Boxes
<1> QED BY <1>1, <1>2, SendKeeps, SendRaisesKeeps, ReturnVerdictKeeps, ReadInboxKeeps, DecideUnknownKeeps, DecideKeeps,
           RestartKeeps DEF ProtocolsNext

LEMMA ProtocolInvTells == ProtocolInv => VerdictsAreTold
<1> SUFFICES ASSUME ProtocolInv PROVE VerdictsAreTold
  OBVIOUS
<1>1. inbox \in [Boxes -> Seq(Messages)]
  BY DEF ProtocolInv, ProtocolTypes
<1>2. ASSUME NEW b \in DOMAIN inbox, NEW m \in ToSet(inbox[b]), OfThisLife(m.id) PROVE tracked[m.id] # Unasked
  <2>1. PICK k \in DOMAIN inbox[b] : inbox[b][k] = m
    BY DEF ToSet
  <2>2. m \in Messages
    BY <1>1, <2>1
  <2> QED BY <1>2, <2>2, MessageIs DEF ProtocolInv, LivesAreNoted
<1>3. \A i \in Ids : OfThisLife(i) /\ Deciding(i) = {} /\ i \notin blurred => Told(i) = tracked[i].status
  BY DEF ProtocolInv, ToldFollows
<1> QED BY <1>2, <1>3 DEF VerdictsAreTold

---------------------------------------------------------------------------
(* Traces *)

Events == ToolEvents \cup ModelEvents \cup Stops
          \cup {"started", "step", "model failed", "guard", "final", "scheduled", "finished", "failed", "memory", "memory failed"}
\* The events that the files count and classify leave out the worker's.
Silent == {"memory", "memory failed"}
TurnSteps == {"start", "run", "scheduled", "finish", "state", "report", "metrics", "read", "truncate", "write", "index", "save", "done"}
WorkerSteps == {"none", "memory", "read", "truncate", "write"}
Summarising == {"truncate", "write"}

TraceTypes ==
    /\ log \in Seq(Events) /\ runStatus \in {"running", "stopped", "completed", "failed"} /\ met \in BOOLEAN
    /\ runFiles = [state |-> runFiles.state, report |-> runFiles.report, metrics |-> runFiles.metrics]
    /\ writer = [turn |-> writer.turn, worker |-> writer.worker]
    /\ writer.turn.step \in TurnSteps /\ writer.worker.step \in WorkerSteps
    /\ \A w \in {"turn", "worker"} : writer[w].step \in Summarising =>
           writer[w] = [step |-> writer[w].step, payload |-> writer[w].payload]

\* What the turn has written of the run is so from the step that writes it on.
FilesFollow ==
    /\ writer.turn.step \notin {"start", "run", "scheduled", "finish", "state"} => runFiles.state = runStatus
    /\ writer.turn.step \notin {"start", "run", "scheduled", "finish", "state", "report"} => runFiles.report = runStatus
    /\ writer.turn.step \in {"read", "truncate", "write", "index", "save", "done"} => runFiles.metrics = MetricsFor(log)
    /\ writer.turn.step \in {"save", "done"} => index.status = runStatus /\ index.tools = Count(log, ToolEvents)

\* While the two have not met at the summary, whoever writes it holds what the files say.
PayloadsAreCurrent ==
    ~met => /\ writer.turn.step \in Summarising =>
                   writer.turn.payload = SummaryPayload /\ writer.worker.step \notin Summarising
            /\ writer.turn.step \in {"index", "save", "done"} =>
                   IF writer.worker.step \in Summarising THEN writer.worker.payload = SummaryPayload
                   ELSE summary = SummaryPayload
            /\ writer.turn.step \in {"save", "done"} =>
                   index.category = SummaryPayload.category /\ index.path = SummaryPayload.path
TraceInv == TraceTypes /\ FilesFollow /\ PayloadsAreCurrent

\* What is made of a log does not change with the events of the worker.
LEMMA CountGoes ==
  ASSUME NEW s \in Seq(Events), NEW e \in Events, NEW kinds, e \notin kinds
  PROVE  Count(Append(s, e), kinds) = Count(s, kinds)
<1>1. {i \in DOMAIN Append(s, e) : Append(s, e)[i] \in kinds} = {i \in DOMAIN s : s[i] \in kinds}
  OBVIOUS
<1> QED BY <1>1 DEF Count

LEMMA LogGrows ==
  ASSUME NEW s \in Seq(Events), NEW e \in Silent, NEW status
  PROVE  /\ MetricsFor(Append(s, e)) = MetricsFor(s)
         /\ \A kinds \in {ToolEvents, FailedTools, {"tool denied", "tool loop", "tool scope"}} :
                Count(Append(s, e), kinds) = Count(s, kinds)
         /\ ClassifyFailure(status, Append(s, e)) = ClassifyFailure(status, s)
         /\ ExecutionPath(status, Append(s, e)) = ExecutionPath(status, s)
<1> PICK more : more = Append(s, e)
  OBVIOUS
<1>1. e \in Events /\ CategoryOf(e) = "none" /\ PathKind(e) = "none"
  BY DEF Silent, Events, CategoryOf, PathKind, FailedTools, ModelEvents, ToolEvents, DeniedTools, Stops
<1>2. /\ DOMAIN more = DOMAIN s \cup {Len(s) + 1} /\ more[Len(s) + 1] = e
      /\ \A i \in DOMAIN s : more[i] = s[i]
  BY <1>1
<1>3. /\ MetricsFor(more) = MetricsFor(s)
      /\ \A kinds \in {ToolEvents, FailedTools, {"tool denied", "tool loop", "tool scope"}} : Count(more, kinds) = Count(s, kinds)
  <2>1. \A kinds \in {ToolEvents, FailedTools, ModelEvents, {"model failed"}, DeniedTools, {"tool denied", "tool loop", "tool scope"}} :
          e \notin kinds
    BY DEF Silent, ModelEvents, ToolEvents, DeniedTools, FailedTools
  <2>2. \A kinds \in {ToolEvents, FailedTools, ModelEvents, {"model failed"}, DeniedTools, {"tool denied", "tool loop", "tool scope"}} :
          Count(more, kinds) = Count(s, kinds)
    BY <1>1, <2>1, CountGoes
  <2> QED BY <2>2 DEF MetricsFor
<1>4. ClassifyFailure(status, more) = ClassifyFailure(status, s)
  <2> PICK telling : telling = {i \in DOMAIN s : CategoryOf(s[i]) # "none"}
    OBVIOUS
  <2>1. telling = {i \in DOMAIN more : CategoryOf(more[i]) # "none"}
    BY <1>1, <1>2
  <2>2. telling # {} => MinOf(telling) \in telling
    <3>1. telling \subseteq Nat
      OBVIOUS
    <3> QED BY <3>1, MinIs
  <2>3. telling # {} => more[MinOf(telling)] = s[MinOf(telling)]
    BY <1>2, <2>2
  <2>4. ClassifyFailure(status, more) =
          CASE telling # {} -> CategoryOf(more[MinOf(telling)])
            [] telling = {} /\ status = "completed" -> "pass"
            [] telling = {} /\ status = "failed" -> "run_failed"
            [] OTHER -> "unknown"
    BY <2>1 DEF ClassifyFailure, MinOf
  <2>5. ClassifyFailure(status, s) =
          CASE telling # {} -> CategoryOf(s[MinOf(telling)])
            [] telling = {} /\ status = "completed" -> "pass"
            [] telling = {} /\ status = "failed" -> "run_failed"
            [] OTHER -> "unknown"
    BY DEF ClassifyFailure, MinOf
  <2> QED BY <2>3, <2>4, <2>5
<1>5. ExecutionPath(status, more) = ExecutionPath(status, s)
  <2>1. Shown(more) = Shown(s)
    BY <1>1, <1>2 DEF Shown
  <2>2. \A i \in Shown(s) : more[i] = s[i]
    BY <1>2 DEF Shown
  <2>3. ASSUME NEW n PROVE PathEntry(more, n) = PathEntry(s, n)
    <3> PICK nth : nth = {i \in Shown(s) : Cardinality({j \in Shown(s) : j <= i}) = n}
      OBVIOUS
    <3>1. {PathKind(more[i]) : i \in nth} = {PathKind(s[i]) : i \in nth}
      BY <2>2
    <3> QED BY <2>1, <3>1 DEF PathEntry
  <2>4. [n \in 1..Cardinality(Shown(more)) |-> PathEntry(more, n)] = [n \in 1..Cardinality(Shown(s)) |-> PathEntry(s, n)]
    BY <2>1, <2>3
  <2> QED BY <2>4 DEF ExecutionPath
<1> QED BY <1>3, <1>4, <1>5

LEMMA TracesStart == TracesInit => TraceInv
<1> SUFFICES ASSUME TracesInit PROVE TraceInv
  OBVIOUS
<1>1. /\ writer.turn.step = "start" /\ writer.worker.step = "none" /\ writer = [turn |-> writer.turn, worker |-> writer.worker]
      /\ writer["turn"] = writer.turn /\ writer["worker"] = writer.worker
  BY DEF TracesInit
<1>2. /\ log \in Seq(Events) /\ runStatus = "running" /\ met = FALSE
      /\ runFiles = [state |-> runFiles.state, report |-> runFiles.report, metrics |-> runFiles.metrics]
  BY DEF TracesInit
<1>3. TraceTypes
  BY <1>1, <1>2 DEF TraceTypes, TurnSteps, WorkerSteps, Summarising
<1>4. FilesFollow /\ PayloadsAreCurrent
  BY <1>1 DEF FilesFollow, PayloadsAreCurrent, Summarising
<1> QED BY <1>3, <1>4 DEF TraceInv

LEMMA TracesStutter == TraceInv /\ UNCHANGED traceVars => TraceInv'
<1> SUFFICES ASSUME TraceInv, UNCHANGED traceVars PROVE TraceInv'
  OBVIOUS
<1>1. /\ log' = log /\ runStatus' = runStatus /\ runFiles' = runFiles /\ summary' = summary /\ index' = index
      /\ writer' = writer /\ met' = met
  BY DEF traceVars
<1>2. TraceTypes'
  BY <1>1 DEF TraceInv, TraceTypes
<1>3. FilesFollow'
  BY <1>1 DEF TraceInv, FilesFollow
<1>4. PayloadsAreCurrent'
  <2>1. SummaryPayload' = SummaryPayload
    BY <1>1 DEF SummaryPayload
  <2> QED BY <1>1, <2>1 DEF TraceInv, PayloadsAreCurrent
<1> QED BY <1>2, <1>3, <1>4 DEF TraceInv

\* Where the turn and the worker are after one of them has moved.
LEMMA WriterGoes ==
  ASSUME TraceInv
  PROVE  /\ \A new : writer' = [writer EXCEPT !["turn"] = new] =>
                /\ writer'.turn = new /\ writer'.worker = writer.worker
                /\ writer' = [turn |-> writer'.turn, worker |-> writer'.worker]
         /\ \A new : writer' = [writer EXCEPT !["worker"] = new] =>
                /\ writer'.worker = new /\ writer'.turn = writer.turn
                /\ writer' = [turn |-> writer'.turn, worker |-> writer'.worker]
         /\ writer["turn"] = writer.turn /\ writer["worker"] = writer.worker
         /\ \A step : [step |-> step].step = step
<1> PICK a : a = writer.turn
  OBVIOUS
<1> PICK b : b = writer.worker
  OBVIOUS
<1>1. writer = [turn |-> a, worker |-> b]
  BY DEF TraceInv, TraceTypes
<1> QED BY <1>1

LEMMA FilesGo ==
  ASSUME TraceInv
  PROVE  \A x : /\ runFiles' = [runFiles EXCEPT !.state = x] =>
                       /\ runFiles'.state = x /\ runFiles'.report = runFiles.report /\ runFiles'.metrics = runFiles.metrics
                       /\ runFiles' = [state |-> runFiles'.state, report |-> runFiles'.report, metrics |-> runFiles'.metrics]
                /\ runFiles' = [runFiles EXCEPT !.report = x] =>
                       /\ runFiles'.state = runFiles.state /\ runFiles'.report = x /\ runFiles'.metrics = runFiles.metrics
                       /\ runFiles' = [state |-> runFiles'.state, report |-> runFiles'.report, metrics |-> runFiles'.metrics]
                /\ runFiles' = [runFiles EXCEPT !.metrics = x] =>
                       /\ runFiles'.state = runFiles.state /\ runFiles'.report = runFiles.report /\ runFiles'.metrics = x
                       /\ runFiles' = [state |-> runFiles'.state, report |-> runFiles'.report, metrics |-> runFiles'.metrics]
<1> PICK a : a = runFiles.state
  OBVIOUS
<1> PICK b : b = runFiles.report
  OBVIOUS
<1> PICK c : c = runFiles.metrics
  OBVIOUS
<1>1. runFiles = [state |-> a, report |-> b, metrics |-> c]
  BY DEF TraceInv, TraceTypes
<1> QED BY <1>1

\* While the turn runs, and until it has written its files, only their types matter.
LEMMA EarlySteps ==
  ASSUME TraceInv, StartRun \/ (\E e \in Events : Emit(e)) \/ Schedule \/ Scheduled \/ FinishRun \/ FailRun
                   \/ WriteRunState \/ WriteReport
  PROVE  TraceInv'
<1> USE DEF At, Moves
<1>1. /\ writer.turn.step \in {"start", "run", "scheduled", "finish", "state", "report", "save"}
      /\ writer'.turn.step \in {"run", "scheduled", "finish", "state", "report", "metrics"}
      /\ writer' = [turn |-> writer'.turn, worker |-> writer'.worker]
      /\ writer'.worker.step = "memory" \/ writer'.worker = writer.worker
  <2>1. CASE Schedule
    BY <2>1 DEF Schedule
  <2>2. CASE \E e \in Events : Emit(e)
    BY <2>2 DEF Emit, TraceInv, TraceTypes
  <2>3. CASE StartRun \/ Scheduled \/ FinishRun \/ FailRun \/ WriteRunState \/ WriteReport
    BY <2>3, WriterGoes DEF StartRun, Scheduled, FinishRun, FailRun, WriteRunState, WriteReport
  <2> QED BY <2>1, <2>2, <2>3
<1>2. /\ log' \in Seq(Events) /\ runStatus' \in {"running", "stopped", "completed", "failed"} /\ met' \in BOOLEAN
      /\ runFiles' = [state |-> runFiles'.state, report |-> runFiles'.report, metrics |-> runFiles'.metrics]
  <2>1. log \in Seq(Events) /\ runStatus \in {"running", "stopped", "completed", "failed"} /\ met \in BOOLEAN
        /\ runFiles = [state |-> runFiles.state, report |-> runFiles.report, metrics |-> runFiles.metrics]
    BY DEF TraceInv, TraceTypes
  <2>2. {"started", "scheduled", "finished", "failed"} \subseteq Events
    BY DEF Events
  <2>3. log' \in Seq(Events) /\ runStatus' \in {"running", "stopped", "completed", "failed"} /\ met' = met
    <3>1. <<"started">> \in Seq(Events) /\ \A e \in Events : Append(log, e) \in Seq(Events)
      BY <2>1, <2>2
    <3> QED BY <2>1, <2>2, <3>1 DEF StartRun, Emit, Schedule, Scheduled, FinishRun, FailRun, WriteRunState, WriteReport
  <2>4. \/ runFiles' = runFiles \/ runFiles' = [runFiles EXCEPT !.state = runStatus]
        \/ runFiles' = [runFiles EXCEPT !.report = runStatus]
    BY DEF StartRun, Emit, Schedule, Scheduled, FinishRun, FailRun, WriteRunState, WriteReport
  <2> QED BY <2>1, <2>3, <2>4, FilesGo
<1>3. TraceTypes'
  <2>1. writer'.turn.step \in TurnSteps /\ writer'.turn.step \notin Summarising /\ writer'["turn"] = writer'.turn
    BY <1>1 DEF TurnSteps, Summarising
  <2>2. writer'.worker.step \in WorkerSteps /\ writer'["worker"] = writer'.worker
    BY <1>1 DEF WorkerSteps, TraceInv, TraceTypes
  <2>3. writer'.worker.step \in Summarising => writer'["worker"] = [step |-> writer'["worker"].step, payload |-> writer'["worker"].payload]
    BY <1>1, <2>2, WriterGoes DEF TraceInv, TraceTypes, Summarising
  <2> QED BY <1>1, <1>2, <2>1, <2>2, <2>3 DEF TraceTypes
<1>4. FilesFollow'
  <2>1. CASE WriteRunState
    <3>1. /\ writer' = [writer EXCEPT !["turn"] = [step |-> "report"]]
          /\ runFiles' = [runFiles EXCEPT !.state = runStatus] /\ runStatus' = runStatus
      BY <2>1 DEF WriteRunState
    <3>2. writer'.turn.step = "report"
      BY <3>1, WriterGoes
    <3>3. runFiles'.state = runStatus
      BY <3>1, FilesGo
    <3> QED BY <3>1, <3>2, <3>3 DEF FilesFollow
  <2>2. CASE WriteReport
    <3>1. /\ writer["turn"].step = "report" /\ writer' = [writer EXCEPT !["turn"] = [step |-> "metrics"]]
          /\ runFiles' = [runFiles EXCEPT !.report = runStatus] /\ runStatus' = runStatus
      BY <2>2 DEF WriteReport
    <3>2. writer.turn.step = "report" /\ writer'.turn.step = "metrics"
      BY <3>1, WriterGoes
    <3>3. runFiles'.state = runFiles.state /\ runFiles'.report = runStatus
      BY <3>1, FilesGo
    <3>4. runFiles.state = runStatus
      BY <3>2 DEF TraceInv, FilesFollow
    <3> QED BY <3>1, <3>2, <3>3, <3>4 DEF FilesFollow
  <2>3. CASE StartRun \/ (\E e \in Events : Emit(e)) \/ Schedule \/ Scheduled \/ FinishRun \/ FailRun
    <3>1. writer'.turn.step \in {"run", "scheduled", "finish", "state"}
      <4>1. CASE Schedule
        BY <4>1 DEF Schedule
      <4>2. CASE \E e \in Events : Emit(e)
        BY <4>2 DEF Emit
      <4>3. CASE StartRun \/ Scheduled \/ FinishRun \/ FailRun
        BY <4>3, WriterGoes DEF StartRun, Scheduled, FinishRun, FailRun
      <4> QED BY <2>3, <4>1, <4>2, <4>3
    <3> QED BY <3>1 DEF FilesFollow
  <2> QED BY <2>1, <2>2, <2>3
<1>5. PayloadsAreCurrent'
  BY <1>1 DEF PayloadsAreCurrent, Summarising
<1> QED BY <1>3, <1>4, <1>5 DEF TraceInv

\* What the summary would say follows from the files and the log.
LEMMA PayloadStays ==
  ASSUME TraceInv, runFiles' = runFiles, log' = log \/ \E e \in Silent : log' = Append(log, e)
  PROVE  /\ SummaryPayload' = SummaryPayload /\ MetricsFor(log') = MetricsFor(log)
         /\ Count(log', ToolEvents) = Count(log, ToolEvents) /\ log' \in Seq(Events)
<1>1. log \in Seq(Events) /\ Silent \subseteq Events
  BY DEF TraceInv, TraceTypes, Silent, Events
<1>2. CASE log' = log
  BY <1>1, <1>2 DEF SummaryPayload
<1>3. ASSUME NEW e \in Silent, log' = Append(log, e)
      PROVE  /\ SummaryPayload' = SummaryPayload /\ MetricsFor(log') = MetricsFor(log)
             /\ Count(log', ToolEvents) = Count(log, ToolEvents) /\ log' \in Seq(Events)
  <2> PICK more : more = Append(log, e)
    OBVIOUS
  <2>1. log' = more /\ more \in Seq(Events)
    BY <1>1, <1>3
  <2>2. /\ MetricsFor(more) = MetricsFor(log) /\ Count(more, ToolEvents) = Count(log, ToolEvents)
        /\ Count(more, FailedTools) = Count(log, FailedTools)
        /\ Count(more, {"tool denied", "tool loop", "tool scope"}) = Count(log, {"tool denied", "tool loop", "tool scope"})
        /\ ClassifyFailure(runFiles.state, more) = ClassifyFailure(runFiles.state, log)
        /\ ExecutionPath(runFiles.state, more) = ExecutionPath(runFiles.state, log)
    BY <1>1, LogGrows
  <2> QED BY <2>1, <2>2 DEF SummaryPayload
<1> QED BY <1>2, <1>3

LEMMA WriteMetricsKeeps == ASSUME TraceInv, WriteMetrics PROVE TraceInv'
<1>1. /\ writer.turn.step = "metrics" /\ writer' = [writer EXCEPT !["turn"] = [step |-> "read"]]
      /\ runFiles' = [runFiles EXCEPT !.metrics = MetricsFor(log)] /\ UNCHANGED <<log, runStatus, summary, index, met>>
  BY DEF WriteMetrics, At, Moves
<1>2. /\ writer'.turn.step = "read" /\ writer'.worker = writer.worker /\ writer' = [turn |-> writer'.turn, worker |-> writer'.worker]
      /\ writer'["turn"] = writer'.turn /\ writer'["worker"] = writer.worker /\ writer["worker"] = writer.worker
  BY <1>1, WriterGoes
<1>3. /\ runFiles'.state = runFiles.state /\ runFiles'.report = runFiles.report /\ runFiles'.metrics = MetricsFor(log)
      /\ runFiles' = [state |-> runFiles'.state, report |-> runFiles'.report, metrics |-> runFiles'.metrics]
  BY <1>1, FilesGo
<1>4. TraceTypes'
  BY <1>1, <1>2, <1>3 DEF TraceInv, TraceTypes, TurnSteps, Summarising
<1>5. FilesFollow'
  BY <1>1, <1>2, <1>3 DEF TraceInv, FilesFollow
<1>6. PayloadsAreCurrent'
  BY <1>2 DEF PayloadsAreCurrent, Summarising
<1> QED BY <1>4, <1>5, <1>6 DEF TraceInv

LEMMA IndexRunKeeps == ASSUME TraceInv, IndexRun PROVE TraceInv'
<1> PICK next \in {"done", "save"} : next = IF runStatus = "failed" THEN "done" ELSE "save"
  OBVIOUS
<1>1. /\ writer.turn.step = "index" /\ writer' = [writer EXCEPT !["turn"] = [step |-> next]]
      /\ index' = IndexRow /\ met' = (met \/ writer.worker.step \in {"truncate", "write"})
      /\ UNCHANGED <<log, runStatus, runFiles, summary>>
  BY DEF IndexRun, At, Moves
<1>2. /\ writer'.turn.step = next /\ writer'.worker = writer.worker /\ writer' = [turn |-> writer'.turn, worker |-> writer'.worker]
      /\ writer'["turn"] = writer'.turn /\ writer'["worker"] = writer.worker /\ writer["worker"] = writer.worker
  BY <1>1, WriterGoes
<1>3. SummaryPayload' = SummaryPayload
  BY <1>1, PayloadStays
<1>4. TraceTypes'
  BY <1>1, <1>2 DEF TraceInv, TraceTypes, TurnSteps, Summarising
<1>5. FilesFollow'
  <2>1. index'.status = runStatus /\ index'.tools = runFiles.metrics.tools
    BY <1>1 DEF IndexRow
  <2>2. runFiles.metrics.tools = Count(log, ToolEvents)
    <3>1. runFiles.metrics = MetricsFor(log)
      BY <1>1 DEF TraceInv, FilesFollow
    <3>2. MetricsFor(log).tools = Count(log, ToolEvents)
      BY DEF MetricsFor
    <3> QED BY <3>1, <3>2
  <2> QED BY <1>1, <1>2, <2>1, <2>2 DEF TraceInv, FilesFollow
<1>6. PayloadsAreCurrent'
  <2> SUFFICES ASSUME ~met' PROVE PayloadsAreCurrent'
    BY DEF PayloadsAreCurrent
  <2>1. summary = SummaryPayload /\ writer.worker.step \notin Summarising
    BY <1>1 DEF TraceInv, PayloadsAreCurrent, Summarising
  <2>2. summary # Unwritten
    <3>1. SummaryPayload.status = runFiles.state /\ Unwritten.status = "none"
      BY DEF SummaryPayload, Unwritten
    <3>2. runFiles.state = runStatus /\ runStatus # "none"
      BY <1>1 DEF TraceInv, FilesFollow, TraceTypes
    <3> QED BY <2>1, <3>1, <3>2
  <2>3. index'.category = SummaryPayload.category /\ index'.path = SummaryPayload.path
    BY <1>1, <2>1, <2>2 DEF IndexRow
  <2> QED BY <1>1, <1>2, <1>3, <2>1, <2>3 DEF PayloadsAreCurrent, Summarising
<1> QED BY <1>4, <1>5, <1>6 DEF TraceInv

LEMMA SaveSucceedsKeeps == ASSUME TraceInv, SaveSucceeds PROVE TraceInv'
<1>1. /\ writer.turn.step = "save" /\ writer' = [writer EXCEPT !["turn"] = [step |-> "done"]]
      /\ UNCHANGED <<log, runStatus, runFiles, summary, index, met>>
  BY DEF SaveSucceeds, At, Moves
<1>2. /\ writer'.turn.step = "done" /\ writer'.worker = writer.worker /\ writer' = [turn |-> writer'.turn, worker |-> writer'.worker]
      /\ writer'["turn"] = writer'.turn /\ writer'["worker"] = writer.worker /\ writer["worker"] = writer.worker
  BY <1>1, WriterGoes
<1>3. SummaryPayload' = SummaryPayload
  BY <1>1, PayloadStays
<1>4. TraceTypes'
  BY <1>1, <1>2 DEF TraceInv, TraceTypes, TurnSteps, Summarising
<1>5. FilesFollow'
  BY <1>1, <1>2 DEF TraceInv, FilesFollow
<1>6. PayloadsAreCurrent'
  BY <1>1, <1>2, <1>3 DEF TraceInv, PayloadsAreCurrent, Summarising
<1> QED BY <1>4, <1>5, <1>6 DEF TraceInv

\* The worker's events are in no count, and tell of no failure.
LEMMA MemoryStepsKeep == ASSUME TraceInv, MemoryEvents \/ MemoryFails PROVE TraceInv'
<1> PICK next \in {"read", "none"} : writer' = [writer EXCEPT !["worker"] = [step |-> next]]
  BY DEF MemoryEvents, MemoryFails, Moves
<1>1. /\ writer.worker.step = "memory" /\ (\E e \in Silent : log' = Append(log, e))
      /\ UNCHANGED <<runStatus, runFiles, summary, index, met>>
  BY DEF MemoryEvents, MemoryFails, At, Silent
<1>2. /\ writer'.worker.step = next /\ writer'.turn = writer.turn /\ writer' = [turn |-> writer'.turn, worker |-> writer'.worker]
      /\ writer'["worker"] = writer'.worker /\ writer'["turn"] = writer.turn /\ writer["turn"] = writer.turn
  BY <1>1, WriterGoes
<1>3. /\ SummaryPayload' = SummaryPayload /\ MetricsFor(log') = MetricsFor(log)
      /\ Count(log', ToolEvents) = Count(log, ToolEvents) /\ log' \in Seq(Events)
  BY <1>1, PayloadStays
<1>4. TraceTypes'
  BY <1>1, <1>2, <1>3 DEF TraceInv, TraceTypes, WorkerSteps, Summarising
<1>5. FilesFollow'
  BY <1>1, <1>2, <1>3 DEF TraceInv, FilesFollow
<1>6. PayloadsAreCurrent'
  BY <1>1, <1>2, <1>3 DEF TraceInv, PayloadsAreCurrent, Summarising
<1> QED BY <1>4, <1>5, <1>6 DEF TraceInv

LEMMA SummaryReadKeeps == ASSUME TraceInv, NEW w \in {"turn", "worker"}, SummaryRead(w) PROVE TraceInv'
<1> PICK new : new = [step |-> "truncate", payload |-> SummaryPayload]
  OBVIOUS
<1>1. /\ writer[w].step = "read" /\ writer' = [writer EXCEPT ![w] = new]
      /\ met' = (met \/ writer[Other(w)].step \in {"truncate", "write"})
      /\ UNCHANGED <<log, runStatus, runFiles, summary, index>>
  BY DEF SummaryRead, At
<1>2. new.step = "truncate" /\ new.payload = SummaryPayload /\ new = [step |-> new.step, payload |-> new.payload]
  OBVIOUS
<1>3. SummaryPayload' = SummaryPayload
  BY <1>1, PayloadStays
<1>4. CASE w = "turn"
  <2>1. /\ writer.turn.step = "read" /\ writer'.turn = new /\ writer'.worker = writer.worker
        /\ writer' = [turn |-> writer'.turn, worker |-> writer'.worker]
        /\ writer'["turn"] = new /\ writer'["worker"] = writer.worker /\ writer["worker"] = writer.worker
        /\ met' = (met \/ writer.worker.step \in {"truncate", "write"})
    BY <1>1, <1>4, WriterGoes DEF Other
  <2>2. TraceTypes'
    BY <1>1, <1>2, <2>1 DEF TraceInv, TraceTypes, TurnSteps, Summarising
  <2>3. FilesFollow'
    BY <1>1, <1>2, <2>1 DEF TraceInv, FilesFollow
  <2>4. PayloadsAreCurrent'
    BY <1>1, <1>2, <1>3, <2>1 DEF TraceInv, PayloadsAreCurrent, Summarising
  <2> QED BY <2>2, <2>3, <2>4 DEF TraceInv
<1>5. CASE w = "worker"
  <2>1. /\ writer.worker.step = "read" /\ writer'.worker = new /\ writer'.turn = writer.turn
        /\ writer' = [turn |-> writer'.turn, worker |-> writer'.worker]
        /\ writer'["worker"] = new /\ writer'["turn"] = writer.turn /\ writer["turn"] = writer.turn
        /\ met' = (met \/ writer.turn.step \in {"truncate", "write"})
    BY <1>1, <1>5, WriterGoes DEF Other
  <2>2. TraceTypes'
    BY <1>1, <1>2, <2>1 DEF TraceInv, TraceTypes, WorkerSteps, Summarising
  <2>3. FilesFollow'
    BY <1>1, <2>1 DEF TraceInv, FilesFollow
  <2>4. PayloadsAreCurrent'
    BY <1>1, <1>2, <1>3, <2>1 DEF TraceInv, PayloadsAreCurrent, Summarising
  <2> QED BY <2>2, <2>3, <2>4 DEF TraceInv
<1> QED BY <1>4, <1>5

LEMMA SummaryTruncateKeeps == ASSUME TraceInv, NEW w \in {"turn", "worker"}, SummaryTruncate(w) PROVE TraceInv'
<1> PICK payload : payload = writer[w].payload
  OBVIOUS
<1> PICK new : new = [step |-> "write", payload |-> payload]
  OBVIOUS
<1>1. /\ writer[w].step = "truncate" /\ summary' = Unwritten /\ writer' = [writer EXCEPT ![w] = new]
      /\ UNCHANGED <<log, runStatus, runFiles, index, met>>
  <2>1. writer[w] = [step |-> writer[w].step, payload |-> payload] /\ writer[w].step = "truncate"
    BY DEF SummaryTruncate, At, TraceInv, TraceTypes, Summarising
  <2>2. [writer[w] EXCEPT !.step = "write"] = new
    BY <2>1
  <2> QED BY <2>1, <2>2 DEF SummaryTruncate
<1>2. new.step = "write" /\ new.payload = payload /\ new = [step |-> new.step, payload |-> new.payload]
  OBVIOUS
<1>3. SummaryPayload' = SummaryPayload
  BY <1>1, PayloadStays
<1>4. CASE w = "turn"
  <2>1. /\ writer.turn.step = "truncate" /\ writer'.turn = new /\ writer'.worker = writer.worker
        /\ writer' = [turn |-> writer'.turn, worker |-> writer'.worker] /\ payload = writer.turn.payload
        /\ writer'["turn"] = new /\ writer'["worker"] = writer.worker /\ writer["worker"] = writer.worker
    BY <1>1, <1>4, WriterGoes
  <2>2. TraceTypes'
    BY <1>1, <1>2, <2>1 DEF TraceInv, TraceTypes, TurnSteps, Summarising
  <2>3. FilesFollow'
    BY <1>1, <1>2, <2>1 DEF TraceInv, FilesFollow
  <2>4. PayloadsAreCurrent'
    BY <1>1, <1>2, <1>3, <2>1 DEF TraceInv, PayloadsAreCurrent, Summarising
  <2> QED BY <2>2, <2>3, <2>4 DEF TraceInv
<1>5. CASE w = "worker"
  <2>1. /\ writer.worker.step = "truncate" /\ writer'.worker = new /\ writer'.turn = writer.turn
        /\ writer' = [turn |-> writer'.turn, worker |-> writer'.worker] /\ payload = writer.worker.payload
        /\ writer'["worker"] = new /\ writer'["turn"] = writer.turn /\ writer["turn"] = writer.turn
    BY <1>1, <1>5, WriterGoes
  <2>2. TraceTypes'
    BY <1>1, <1>2, <2>1 DEF TraceInv, TraceTypes, WorkerSteps, Summarising
  <2>3. FilesFollow'
    BY <1>1, <2>1 DEF TraceInv, FilesFollow
  <2>4. PayloadsAreCurrent'
    BY <1>1, <1>2, <1>3, <2>1 DEF TraceInv, PayloadsAreCurrent, Summarising
  <2> QED BY <2>2, <2>3, <2>4 DEF TraceInv
<1> QED BY <1>4, <1>5

LEMMA SummaryWriteKeeps == ASSUME TraceInv, NEW w \in {"turn", "worker"}, SummaryWrite(w) PROVE TraceInv'
<1>1. /\ writer[w].step = "write" /\ summary' = writer[w].payload
      /\ writer' = [writer EXCEPT ![w] = [step |-> IF w = "turn" THEN "index" ELSE "none"]]
      /\ UNCHANGED <<log, runStatus, runFiles, index, met>>
  BY DEF SummaryWrite, At, Moves
<1>2. SummaryPayload' = SummaryPayload
  BY <1>1, PayloadStays
<1>3. CASE w = "turn"
  <2>1. /\ writer.turn.step = "write" /\ writer'.turn.step = "index" /\ writer'.worker = writer.worker
        /\ writer' = [turn |-> writer'.turn, worker |-> writer'.worker] /\ summary' = writer.turn.payload
        /\ writer'["turn"] = writer'.turn /\ writer'["worker"] = writer.worker /\ writer["worker"] = writer.worker
    BY <1>1, <1>3, WriterGoes
  <2>2. TraceTypes'
    BY <1>1, <2>1 DEF TraceInv, TraceTypes, TurnSteps, Summarising
  <2>3. FilesFollow'
    BY <1>1, <2>1 DEF TraceInv, FilesFollow
  <2>4. PayloadsAreCurrent'
    BY <1>1, <1>2, <2>1 DEF TraceInv, PayloadsAreCurrent, Summarising
  <2> QED BY <2>2, <2>3, <2>4 DEF TraceInv
<1>4. CASE w = "worker"
  <2>1. /\ writer.worker.step = "write" /\ writer'.worker.step = "none" /\ writer'.turn = writer.turn
        /\ writer' = [turn |-> writer'.turn, worker |-> writer'.worker] /\ summary' = writer.worker.payload
        /\ writer'["worker"] = writer'.worker /\ writer'["turn"] = writer.turn /\ writer["turn"] = writer.turn
    BY <1>1, <1>4, WriterGoes
  <2>2. TraceTypes'
    BY <1>1, <2>1 DEF TraceInv, TraceTypes, WorkerSteps, Summarising
  <2>3. FilesFollow'
    BY <1>1, <2>1 DEF TraceInv, FilesFollow
  <2>4. PayloadsAreCurrent'
    BY <1>1, <1>2, <2>1 DEF TraceInv, PayloadsAreCurrent, Summarising
  <2> QED BY <2>2, <2>3, <2>4 DEF TraceInv
<1> QED BY <1>3, <1>4

LEMMA TracesStep == TraceInv /\ TracesNext => TraceInv'
<1>1. ToolEvents \cup ModelEvents \cup Stops \cup {"step", "model failed", "guard", "final"} \subseteq Events
  BY DEF Events
<1> QED BY <1>1, EarlySteps, WriteMetricsKeeps, IndexRunKeeps, SaveSucceedsKeeps, MemoryStepsKeep,
           SummaryReadKeeps, SummaryTruncateKeeps, SummaryWriteKeeps DEF TracesNext

LEMMA CutPath ==
  ASSUME NEW Kinds, NEW whole \in Seq(Kinds), NEW n \in Nat,
         NEW path, path = SubSeq(whole, 1, IF Len(whole) < n THEN Len(whole) ELSE n)
  PROVE  path = whole \/ Len(path) = n
<1>1. CASE Len(whole) < n
  <2>1. path = SubSeq(whole, 1, Len(whole))
    BY <1>1
  <2> QED BY <2>1
<1>2. CASE ~(Len(whole) < n)
  <2>1. path = SubSeq(whole, 1, n) /\ n <= Len(whole)
    BY <1>2
  <2> QED BY <2>1
<1> QED BY <1>1, <1>2

LEMMA PathCloses ==
  ASSUME NEW Kinds, NEW kinds \in Seq(Kinds), NEW ends, NEW end \in Kinds \cap ends
  PROVE  /\ Append(kinds, end) \in Seq(Kinds)
         /\ ends \cap ToSet(Append(kinds, end)) # {}
<1>1. /\ Append(kinds, end) \in Seq(Kinds) /\ Len(kinds) + 1 \in DOMAIN Append(kinds, end)
      /\ Append(kinds, end)[Len(kinds) + 1] = end
  OBVIOUS
<1> QED BY <1>1 DEF ToSet

LEMMA PathIsWhole ==
  ASSUME NEW Kinds, NEW kinds \in Seq(Kinds), NEW ends, NEW end \in Kinds \cap ends,
         NEW whole, whole = IF ends \cap ToSet(kinds) = {} THEN Append(kinds, end) ELSE kinds
  PROVE  whole \in Seq(Kinds) /\ ends \cap ToSet(whole) # {}
<1>1. CASE ends \cap ToSet(kinds) = {}
  <2>1. whole = Append(kinds, end)
    BY <1>1
  <2>2. Append(kinds, end) \in Seq(Kinds) /\ ends \cap ToSet(Append(kinds, end)) # {}
    BY PathCloses
  <2> QED BY <2>1, <2>2, Zenon
<1>2. CASE ends \cap ToSet(kinds) # {}
  BY <1>2
<1> QED BY <1>1, <1>2

LEMMA EntriesAreFinite == ASSUME NEW events \in Seq(Events) PROVE Cardinality(Shown(events)) \in Nat
<1> PICK n \in Nat : DOMAIN events = 1..n
  OBVIOUS
<1>1. IsFiniteSet(1..n)
  BY FS_Interval
<1>2. IsFiniteSet(Shown(events))
  BY <1>1, FS_Subset DEF Shown
<1> QED BY <1>2, FS_CardinalityType

\* A path has its end, or was cut.
LEMMA PathEnds ==
  ASSUME NEW status, NEW events \in Seq(Events), NEW path, path = ExecutionPath(status, events)
  PROVE  {"complete", "stop"} \cap ToSet(path) # {} \/ Len(path) = PathLimit
<1>1. PICK n \in Nat : n = Cardinality(Shown(events))
  BY EntriesAreFinite
<1>2. PICK kinds : kinds = [k \in 1..n |-> PathEntry(events, k)]
  OBVIOUS
<1>3. PICK end : end \in {"complete", "stop"} /\ end = IF status = "completed" THEN "complete" ELSE "stop"
  OBVIOUS
<1>4. PICK whole : whole = IF {"complete", "stop"} \cap ToSet(kinds) = {} THEN Append(kinds, end) ELSE kinds
  OBVIOUS
<1>5. PICK Kinds : Kinds = {PathEntry(events, k) : k \in 1..n} \cup {"complete", "stop"}
  OBVIOUS
<1>6. path = SubSeq(whole, 1, IF Len(whole) < PathLimit THEN Len(whole) ELSE PathLimit)
  BY <1>1, <1>2, <1>3, <1>4 DEF ExecutionPath
<1>7. kinds \in Seq(Kinds)
  BY <1>1, <1>2, <1>5
<1>8. end \in Kinds \cap {"complete", "stop"}
  BY <1>3, <1>5
<1>9. whole \in Seq(Kinds) /\ {"complete", "stop"} \cap ToSet(whole) # {}
  BY <1>4, <1>7, <1>8, PathIsWhole
<1>10. path = whole \/ Len(path) = PathLimit
  <2>1. PathLimit \in Nat /\ whole \in Seq(Kinds)
    BY <1>9, TraceAssumption
  <2>2. PICK cut : cut = SubSeq(whole, 1, IF Len(whole) < PathLimit THEN Len(whole) ELSE PathLimit)
    OBVIOUS
  <2>3. cut = whole \/ Len(cut) = PathLimit
    BY <2>1, <2>2, CutPath
  <2> QED BY <1>6, <2>2, <2>3
<1> QED BY <1>9, <1>10

\* A run passes when no event tells of a failure and its state says that it completed.
LEMMA PassTells ==
  ASSUME NEW status, NEW events \in Seq(Events), ClassifyFailure(status, events) = "pass"
  PROVE  status = "completed" /\ Count(events, FailedTools) = 0 /\ Count(events, {"tool denied", "tool loop", "tool scope"}) = 0
<1> PICK telling : telling = {i \in DOMAIN events : CategoryOf(events[i]) # "none"}
  OBVIOUS
<1>1. \A e : CategoryOf(e) # "pass"
  BY DEF CategoryOf
<1>2. telling = {} /\ status = "completed"
  <2>1. telling # {} => ClassifyFailure(status, events) = CategoryOf(events[CHOOSE i \in telling : \A j \in telling : i <= j])
    BY DEF ClassifyFailure
  <2>2. telling = {} => ClassifyFailure(status, events) = IF status = "completed" THEN "pass"
                                                          ELSE IF status = "failed" THEN "run_failed" ELSE "unknown"
    BY DEF ClassifyFailure
  <2> QED BY <1>1, <2>1, <2>2
<1>3. \A e \in FailedTools \cup {"tool denied", "tool loop", "tool scope"} : CategoryOf(e) # "none"
  BY DEF CategoryOf, FailedTools
<1>4. \A kinds \in {FailedTools, {"tool denied", "tool loop", "tool scope"}} : {i \in DOMAIN events : events[i] \in kinds} = {}
  BY <1>2, <1>3
<1> QED BY <1>2, <1>4, FS_EmptySet DEF Count

LEMMA TraceInvAgrees == TraceInv => TracesAgree
<1> SUFFICES ASSUME TraceInv, Quiet PROVE TracesAgree
  BY DEF TracesAgree
<1>1. writer.turn.step = "done" /\ writer.worker.step = "none"
  BY WriterGoes DEF Quiet, At
<1>2. /\ runFiles.state = runStatus /\ runFiles.report = runStatus /\ index.status = runStatus
      /\ runFiles.metrics = MetricsFor(log) /\ index.tools = Count(log, ToolEvents)
  BY <1>1 DEF TraceInv, FilesFollow
<1>3. ASSUME ~met
      PROVE  /\ summary = SummaryPayload /\ index.category = summary.category /\ index.path = summary.path
             /\ {"complete", "stop"} \cap ToSet(summary.path) # {} \/ Len(summary.path) = PathLimit
             /\ summary.category = "pass" => runStatus = "completed" /\ summary.failed + summary.denied = 0
  <2>1. summary = SummaryPayload /\ index.category = summary.category /\ index.path = summary.path
    BY <1>1, <1>3 DEF TraceInv, PayloadsAreCurrent, Summarising
  <2>2. /\ summary.path = ExecutionPath(runFiles.state, log) /\ summary.category = ClassifyFailure(runFiles.state, log)
        /\ summary.failed = Count(log, FailedTools) /\ summary.denied = Count(log, {"tool denied", "tool loop", "tool scope"})
    BY <2>1 DEF SummaryPayload
  <2>3. log \in Seq(Events)
    BY DEF TraceInv, TraceTypes
  <2>4. {"complete", "stop"} \cap ToSet(summary.path) # {} \/ Len(summary.path) = PathLimit
    BY <2>2, <2>3, PathEnds
  <2>5. summary.category = "pass" => runStatus = "completed" /\ summary.failed + summary.denied = 0
    <3> SUFFICES ASSUME summary.category = "pass" PROVE runStatus = "completed" /\ summary.failed + summary.denied = 0
      OBVIOUS
    <3>1. ClassifyFailure(runStatus, log) = "pass"
      BY <1>2, <2>2
    <3>2. /\ runStatus = "completed" /\ Count(log, FailedTools) = 0
          /\ Count(log, {"tool denied", "tool loop", "tool scope"}) = 0
      BY <2>3, <3>1, PassTells
    <3>3. summary.failed = 0 /\ summary.denied = 0
      BY <2>2, <3>2
    <3>4. \A m, k : m = 0 /\ k = 0 => m + k = 0
      OBVIOUS
    <3> QED BY <3>2, <3>3, <3>4, Zenon
  <2> QED BY <2>1, <2>4, <2>5
<1> QED BY <1>2, <1>3 DEF TracesAgree
==============================================================================
