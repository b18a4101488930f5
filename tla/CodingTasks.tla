---------------------------- MODULE CodingTasks -----------------------------
(* agents/coding: coding tasks of one user that run at the same time, each in *)
(* a session of its own, in one workspace.  When its pipeline returns, what a *)
(* task has learnt goes to the user's PENDING.md, then its artifacts, its     *)
(* session, the workspace's diff and the run's report are written.            *)
EXTENDS Naturals, Sequences, SequencesExt, FiniteSets

CONSTANTS CodingJobs,  \* coding tasks
          Findings,    \* what a task may learn
          Noisy,       \* findings that the promoter rejects
          Sources,     \* files of the workspace
          Present,     \* those that are there from the beginning
          MaxEdits     \* bound on the changes to the workspace

VARIABLES work,        \* task -> where run_coding_task is, and its locals
          review,      \* the items of the user's PENDING.md
          tree,        \* path -> the change that made its content, 0 when there is no file
          edits,
          archived,    \* task -> CONCLUSIONS.json
          session,     \* task -> its session in the database
          report,      \* task -> task_session of the run's metadata
          appending         \* history: findings two tasks were about to append

codingVars == <<work, review, tree, edits, archived, session, report, appending>>
outputs == <<archived, session, report>>

NotStarted == [step |-> "none"]
Working(t) == work[t].step
NoConclusions == [promoted |-> {}, skipped |-> {}, rejected |-> {}]
Unfiled == [status |-> "none"]

CodingInit ==
    /\ work = [t \in CodingJobs |-> NotStarted] /\ review = <<>>
    /\ tree = [p \in Sources |-> IF p \in Present THEN 1 ELSE 0] /\ edits = 0
    /\ archived = [t \in CodingJobs |-> Unfiled]
    /\ session = [t \in CodingJobs |-> Unfiled]
    /\ report = [t \in CodingJobs |-> Unfiled]
    /\ appending = {}

---------------------------------------------------------------------------
(* The task and its pipeline *)

\* Snapshots are hashes of every file, but of excluded directories and suffixes.
Snapshot == [p \in {q \in Sources : tree[q] # 0} |-> tree[p]]

Diff(before, after) == [created |-> DOMAIN after \ DOMAIN before,
                        deleted |-> DOMAIN before \ DOMAIN after,
                        modified |-> {p \in DOMAIN before \cap DOMAIN after : before[p] # after[p]}]

StartTask(t) ==
    /\ work[t] = NotStarted
    /\ work' = [work EXCEPT ![t] = [step |-> "run", before |-> Snapshot, learnt |-> {}, lists |-> NoConclusions,
                                    next |-> "none", touched |-> {}, others |-> {}]]
    /\ report' = [report EXCEPT ![t] = [status |-> "running"]]
    /\ UNCHANGED <<review, tree, edits, archived, session, appending>>

\* A tool of the task changes, makes or deletes a file.
EditSource(t, p) ==
    /\ Working(t) = "run" /\ edits < MaxEdits /\ edits' = edits + 1
    /\ \E c \in {edits' + 1, 0} : tree' = [tree EXCEPT ![p] = c]
    /\ work' = [o \in CodingJobs |-> CASE o = t -> [work[o] EXCEPT !.touched = @ \cup {p}]
                                       [] o # t /\ work[o] = NotStarted -> NotStarted
                                       [] OTHER -> [work[o] EXCEPT !.others = @ \cup {p}]]
    /\ UNCHANGED <<review, outputs, appending>>

\* memorize, in the task's own memory.
Memorize(t, f) ==
    /\ Working(t) = "run"
    /\ work' = [work EXCEPT ![t].learnt = @ \cup {f}]
    /\ UNCHANGED <<review, tree, edits, outputs, appending>>

\* The status of the task is set in its session; the model is asked for its
\* conclusions: what it answers is added, an error adds nothing.
PipelineReturns(t, extracted) ==
    /\ Working(t) = "run"
    /\ work' = [work EXCEPT ![t].step = "promote", ![t].learnt = @ \cup extracted]
    /\ UNCHANGED <<review, tree, edits, outputs, appending>>

\* The models failed, the promoter or the session store raised: the run fails,
\* and what was done stays.
TaskRaises(t) ==
    /\ Working(t) \in {"run", "promote", "append", "save"}
    /\ work' = [work EXCEPT ![t].step = "raised"]
    /\ UNCHANGED <<review, tree, edits, outputs, appending>>

---------------------------------------------------------------------------
(* TaskMemoryPromoter.promote: one finding after the other                    *)

Lists(t) == work[t].lists
Left(t) == work[t].learnt \ UNION {Lists(t).promoted, Lists(t).skipped, Lists(t).rejected}
Listed(t, list, f) == [work EXCEPT ![t].lists[list] = @ \cup {f}]
AboutToAppend(t, f) == Working(t) = "append" /\ work[t].next = f

\* Mutant of Promote: what is there already is not looked at.
PromoteBlindly(t, f) ==
    /\ Working(t) = "promote" /\ f \in Left(t)
    /\ work' = IF f \in Noisy THEN Listed(t, "rejected", f) ELSE [work EXCEPT ![t].step = "append", ![t].next = f]
    /\ appending' = IF \E o \in CodingJobs \ {t} : AboutToAppend(o, f) THEN appending \cup {f} ELSE appending
    /\ UNCHANGED <<review, tree, edits, outputs>>

Promote(t, f) ==
    /\ Working(t) = "promote" /\ f \in Left(t)
    /\ work' = CASE f \in Noisy -> Listed(t, "rejected", f)
                 [] f \notin Noisy /\ Contains(review, f) -> Listed(t, "skipped", f)
                 [] OTHER -> [work EXCEPT ![t].step = "append", ![t].next = f]
    /\ appending' = IF \E o \in CodingJobs \ {t} : AboutToAppend(o, f) THEN appending \cup {f} ELSE appending
    /\ UNCHANGED <<review, tree, edits, outputs>>

PromoteAppend(t) ==
    /\ Working(t) = "append"
    /\ review' = Append(review, work[t].next)
    /\ work' = [Listed(t, "promoted", work[t].next) EXCEPT ![t].step = "promote"]
    /\ UNCHANGED <<tree, edits, outputs, appending>>

---------------------------------------------------------------------------
(* Artifacts, session, diff and report *)

\* An error of the artifacts is noted in the session and no more.
WriteTaskArtifacts(t) ==
    /\ Working(t) = "promote" /\ Left(t) = {}
    /\ work' = [work EXCEPT ![t].step = "save"]
    /\ archived' \in {archived, [archived EXCEPT ![t] = [status |-> "written", lists |-> Lists(t)]]}
    /\ UNCHANGED <<review, tree, edits, session, report, appending>>

SaveTask(t) ==
    /\ Working(t) = "save"
    /\ session' = [session EXCEPT ![t] = [status |-> "completed", artifacts |-> archived[t].status]]
    /\ work' = [work EXCEPT ![t].step = "diff"]
    /\ UNCHANGED <<review, tree, edits, archived, report, appending>>

Report(t) ==
    /\ Working(t) = "diff"
    /\ report' = [report EXCEPT ![t] = [status |-> "completed", lists |-> Lists(t),
                                        diff |-> Diff(work[t].before, Snapshot)]]
    /\ work' = [work EXCEPT ![t].step = "done"]
    /\ UNCHANGED <<review, tree, edits, archived, session, appending>>

\* The process dies: the files stay, a task that was running is not taken up again.
CodingCrash ==
    /\ \E t \in CodingJobs : Working(t) \in {"run", "promote", "append", "save", "diff"}
    /\ work' = [t \in CodingJobs |-> IF Working(t) \in {"none", "done"} THEN work[t]
                                     ELSE [work[t] EXCEPT !.step = "raised"]]
    /\ UNCHANGED <<review, tree, edits, outputs, appending>>

CodingNext ==
    \/ CodingCrash
    \/ \E t \in CodingJobs :
           \/ StartTask(t) \/ TaskRaises(t) \/ PromoteAppend(t) \/ WriteTaskArtifacts(t) \/ SaveTask(t) \/ Report(t)
           \/ \E p \in Sources : EditSource(t, p)
           \/ \E f \in Findings : Memorize(t, f) \/ Promote(t, f)
           \/ \E extracted \in SUBSET Findings : PipelineReturns(t, extracted)

---------------------------------------------------------------------------
DiffTells(t) == LET d == report[t].diff
                IN UNION {d.created, d.deleted, d.modified} \subseteq work[t].touched \cup work[t].others

\* A run that says its coding task has completed tells what is so: what it reports
\* as promoted or skipped is in PENDING.md, what it learnt is on one of its lists,
\* the artifacts have the same lists unless they could not be written, the session
\* was saved as completed, and the diff names only what the task, or another one
\* that ran at the same time, has changed.  Nothing is in PENDING.md twice,
\* unless two tasks were about to append it.
TaskReportIsTrue ==
    /\ \A t \in CodingJobs : report[t].status = "completed" =>
           /\ report[t].lists.promoted \cup report[t].lists.skipped \subseteq ToSet(review)
           /\ work[t].learnt = UNION {report[t].lists.promoted, report[t].lists.skipped, report[t].lists.rejected}
           /\ archived[t] = Unfiled \/ archived[t].lists = report[t].lists
           /\ session[t] = [status |-> "completed", artifacts |-> archived[t].status]
           /\ DiffTells(t)
    /\ \A i, j \in DOMAIN review : i # j /\ review[i] = review[j] => review[i] \in appending
=============================================================================
