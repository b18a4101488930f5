----------------------------- MODULE Subagents -----------------------------
(* agents/subagent: the fan-outs of one session.  The guards refuse a clue    *)
(* that was answered or failed too often; the pool runs a subagent per task,  *)
(* gives up on those that take too long, whose threads go on, and starts some *)
(* tasks a second time.  A task is its clue.                                  *)
EXTENDS Naturals, Sequences, SequencesExt, FiniteSets

CONSTANTS Clues,
          MaxFanouts,  \* SUBAGENT_MAX_FANOUTS_PER_RUN
          MaxFailures, \* SUBAGENT_MAX_FAILURES_PER_CLUE
          MaxTasks,    \* MAX_PARALLEL_SUBTASKS
          ParentRuns         \* bound on the runs of the session

ASSUME SubagentAssumption == MaxTasks \in Nat /\ MaxFailures \in Nat

VARIABLES parentRun,
          orchestration, \* what the session's metadata has of its fan-outs
          savedState,    \* the same in the database
          phase,         \* where the parent's tool call is
          tasks,         \* the tasks it has given to subagents
          pool,          \* its first max_workers; 0 for the tool "task", which has no timeout
          attempt,       \* task -> its first thread
          again,         \* the thread of the task that is run a second time
          outcomes,       \* task -> what the parent has of it
          answered,      \* history: clues that a subagent has answered
          doubled        \* history: clues that were in a fan-out twice

subagentVars == <<parentRun, orchestration, savedState, phase, tasks, pool, attempt, again, outcomes,
                  answered, doubled>>
callVars == <<tasks, pool, attempt, again, outcomes>>
historyVars == <<answered, doubled>>

\* How a subagent's run is graded comes last; one that reports an
\* unknown reason, or a timeout of its own, is tried again like one that raised.
Outcomes == {"success", "failed", "internal"}
Retryable == {"internal", "timeout"}   \* SUBAGENT_AUTO_RETRY_REASONS
Ended(thread) == thread \in Outcomes

SubagentsInit ==
    /\ parentRun = 1 /\ phase = "parent" /\ tasks = <<>> /\ pool = 0
    /\ orchestration = [fanouts |-> 0, failures |-> [c \in Clues |-> 0], stage |-> [c \in Clues |-> "subagent"]]
    /\ savedState = orchestration
    /\ attempt = <<>> /\ again = "none" /\ outcomes = <<>>
    /\ answered = {} /\ doubled = {}

---------------------------------------------------------------------------
(* Guards *)

\* validate_subagent_task_scopes: 1 to 5 existing regular files of the workspace.
ScopeFailure(files) == CASE files = {} -> "missing_scope_files"
                         [] Cardinality(files) > 5 -> "scope_file_limit_exceeded"
                         [] "directory" \in files -> "directory_scope"
                         [] {"missing", "invalid"} \cap files # {} -> "missing_or_invalid_scope_files"
                         [] OTHER -> "none"

\* Mutant of Refusal: a clue is refused for its failures only.
RefusalFailures(call) ==
    CASE orchestration.fanouts >= MaxFanouts -> "budget"
      [] \E c \in ToSet(call) : orchestration.failures[c] >= MaxFailures -> "ladder"
      [] OTHER -> "none"

\* guard_subagent_dispatch
Refusal(call) ==
    CASE orchestration.fanouts >= MaxFanouts -> "budget"
      [] \E c \in ToSet(call) : \/ orchestration.failures[c] >= MaxFailures
                                \/ orchestration.stage[c] \in {"teammate", "self", "terminal"} -> "ladder"
      [] OTHER -> "none"

\* Every scope of a call is valid, or one of them is not.
TaskScopes == {{"file"}, {"directory"}, {}}
Calls == SeqOf(Clues, MaxTasks + 1) \ {<<>>}

\* A call that is refused is not dispatched.  A fan-out is counted; of its tasks only the first MaxTasks are run.
Dispatch(call, files, workers) ==
    /\ phase = "parent" /\ ScopeFailure(files) = "none" /\ Refusal(call) = "none"
    /\ workers = 0 => Len(call) = 1
    /\ phase' = "collect" /\ pool' = workers
    /\ orchestration' = [orchestration EXCEPT !.fanouts = @ + 1]
    /\ tasks' = IF Len(call) > MaxTasks THEN SubSeq(call, 1, MaxTasks) ELSE call
    /\ attempt' = [i \in DOMAIN tasks' |-> "queued"]
    /\ outcomes' = [i \in DOMAIN tasks' |-> "none"] /\ again' = "none"
    /\ doubled' = doubled \cup {c \in Clues : \E i, j \in DOMAIN tasks' : i # j /\ tasks'[i] = c /\ tasks'[j] = c}
    /\ UNCHANGED <<parentRun, savedState, answered>>

---------------------------------------------------------------------------
(* The threads *)

Running == {i \in DOMAIN attempt : attempt[i] = "running"}

SubagentStarts(i) ==
    /\ phase = "collect" /\ attempt[i] = "queued"
    /\ pool > 0 => Cardinality(Running) < pool
    /\ attempt' = [attempt EXCEPT ![i] = "running"]
    /\ UNCHANGED <<parentRun, orchestration, savedState, phase, tasks, pool, again, outcomes, historyVars>>

\* The pipeline's answer, a failure that is classified, or an exception.
SubagentEnds(i, outcome) ==
    /\ phase = "collect" /\ attempt[i] = "running"
    /\ attempt' = [attempt EXCEPT ![i] = outcome]
    /\ UNCHANGED <<parentRun, orchestration, savedState, phase, tasks, pool, again, outcomes, historyVars>>

---------------------------------------------------------------------------
(* run_parallel_tasks *)

AllEnded == \A i \in DOMAIN attempt : Ended(attempt[i])

\* The tool "task" does not try again.
CollectAll ==
    /\ phase = "collect" /\ AllEnded
    /\ outcomes' = attempt /\ phase' = IF pool = 0 THEN "record" ELSE "retry"
    /\ UNCHANGED <<parentRun, orchestration, savedState, tasks, pool, attempt, again, historyVars>>

\* Mutant of Timeout: leaving the pool waits for its threads.
TimeoutWaits ==
    /\ phase = "collect" /\ pool > 0 /\ ~AllEnded /\ Running = {}
    /\ outcomes' = [i \in DOMAIN attempt |-> IF Ended(attempt[i]) THEN attempt[i] ELSE "timeout"]
    /\ phase' = "retry"
    /\ UNCHANGED <<parentRun, orchestration, savedState, tasks, pool, attempt, again, historyVars>>

\* Those that have ended by now count, the queued ones are cancelled.  The threads
\* of the others go on; whatever they answer, nobody waits for it.
Timeout ==
    /\ phase = "collect" /\ pool > 0 /\ ~AllEnded
    /\ outcomes' = [i \in DOMAIN attempt |-> IF Ended(attempt[i]) THEN attempt[i] ELSE "timeout"]
    /\ phase' = "retry"
    /\ UNCHANGED <<parentRun, orchestration, savedState, tasks, pool, attempt, again, historyVars>>

\* One task after the other, a task at most once: attempt tells which had theirs.
ToRetry == {i \in DOMAIN outcomes : outcomes[i] \in Retryable /\ attempt[i] # "retried"}
First(S) == CHOOSE i \in S : \A j \in S : i <= j

Retry == /\ phase = "retry" /\ ToRetry # {} /\ again = "none"
         /\ again' = "running"
         /\ UNCHANGED <<parentRun, orchestration, savedState, phase, tasks, pool, attempt, outcomes, historyVars>>

RetryReturns(outcome) ==
    /\ phase = "retry" /\ again = "running" /\ again' = "none"
    /\ LET i == First(ToRetry)
       IN /\ outcomes' = [outcomes EXCEPT ![i] = outcome]
          /\ attempt' = [attempt EXCEPT ![i] = "retried"]
    /\ UNCHANGED <<parentRun, orchestration, savedState, phase, tasks, pool, historyVars>>

RetriesDone == /\ phase = "retry" /\ ToRetry = {} /\ again = "none" /\ phase' = "record"
               /\ UNCHANGED <<parentRun, orchestration, savedState, callVars, historyVars>>

---------------------------------------------------------------------------
(* record_subagent_results *)

StageAfter(failures) == IF failures = 1 THEN "narrowed_subagent" ELSE "teammate"

\* The results are taken in order: the last one of a clue decides on its stage.
Recorded[n \in Nat] ==
    IF n = 0 THEN orchestration
    ELSE LET c == tasks[n]
             o == Recorded[n - 1]
         IN IF outcomes[n] = "success" THEN [o EXCEPT !.stage[c] = "terminal"]
            ELSE [o EXCEPT !.failures[c] = @ + 1, !.stage[c] = StageAfter(o.failures[c] + 1)]

RecordResults ==
    /\ phase = "record" /\ phase' = "parent"
    /\ orchestration' = Recorded[Len(tasks)]
    /\ answered' = answered \cup {tasks[i] : i \in {j \in DOMAIN tasks : outcomes[j] = "success"}}
    /\ tasks' = <<>> /\ attempt' = <<>> /\ outcomes' = <<>> /\ pool' = 0
    /\ UNCHANGED <<parentRun, savedState, again, doubled>>

\* The turn ends, its session is saved, the user sends another message.  What the
\* session has of its fan-outs stays, the count of them too.
NextRun == /\ phase = "parent" /\ parentRun < ParentRuns /\ parentRun' = parentRun + 1
           /\ savedState' = orchestration
           /\ UNCHANGED <<orchestration, phase, callVars, answered, doubled>>

\* The process dies: the session is what the last turn has saved.
SubagentsCrash ==
    /\ parentRun < ParentRuns /\ parentRun' = parentRun + 1
    /\ orchestration' = savedState /\ phase' = "parent"
    /\ tasks' = <<>> /\ attempt' = <<>> /\ outcomes' = <<>> /\ pool' = 0 /\ again' = "none"
    /\ answered' = {c \in answered : savedState.stage[c] = "terminal"}
    /\ UNCHANGED <<savedState, doubled>>

SubagentsNext ==
    \/ \E call \in Calls, files \in TaskScopes, workers \in 0..MaxTasks : Dispatch(call, files, workers)
    \/ \E i \in DOMAIN attempt : SubagentStarts(i) \/ \E o \in Outcomes : SubagentEnds(i, o)
    \/ CollectAll \/ Timeout \/ Retry \/ RetriesDone \/ RecordResults \/ NextRun \/ SubagentsCrash
    \/ \E o \in Outcomes \cup {"timeout"} : RetryReturns(o)

\* The parent's thread runs, and time passes: it waits for its subagents only so
\* long, and they may never end.
ParentStep == CollectAll \/ Timeout \/ Retry \/ RetryReturns("timeout") \/ RetriesDone \/ RecordResults

---------------------------------------------------------------------------
\* The ladder only goes down: a clue that a subagent has answered, or that has
\* failed as often as it may, is not given to a subagent again, as long as no
\* fan-out had it twice.
LadderHolds ==
    phase # "parent" => \A i \in DOMAIN tasks : \/ tasks[i] \in doubled
                                                \/ /\ tasks[i] \notin answered
                                                   /\ orchestration.failures[tasks[i]] < MaxFailures

\* A fan-out returns to its parent, whatever its subagents do.
FanoutReturns == (phase = "collect" /\ pool > 0) ~> (phase = "parent")

---------------------------------------------------------------------------
(* What a subagent's run is graded as: from the report that its last message holds,  *)
(* the reason its turn stopped for and the outcomes of its tool calls, to the result *)
(* that its parent gets.                                                             *)

\* SubagentFailureReason without its prefix; a report may leave the prefix out.
Reasons == {"step_limit", "timeout", "tool_error", "tool_denied", "empty_findings", "scope_too_broad",
            "missing_required_files", "model_error", "unknown_agent_type", "internal_error", "infeasible"}
Normalized(word) == IF word \in Reasons THEN word ELSE "internal_error"

\* Any failure is worth another try by default, but these.
Recoverable(reason) == reason \notin {"infeasible", "internal_error"}

\* extract_structured_result; without a JSON object all is as in EmptyReport.
Reports == [reason : {"none", "timeout", "infeasible", "step_limit", "no such word"}, incomplete : BOOLEAN, findings : BOOLEAN,
            broad : BOOLEAN, recoverable : {"none", "yes", "no"}]
EmptyReport == [reason |-> "none", incomplete |-> FALSE, findings |-> FALSE, broad |-> FALSE, recoverable |-> "none"]

Failure(reason) == [reason |-> reason, recoverable |-> Recoverable(reason)]
NoFailure == [reason |-> "none", recoverable |-> FALSE]

\* _structured_failure: the report's own word, and its own view of another try.
ReportedReason(report) == CASE report.reason # "none" -> Normalized(report.reason)
                            [] report.incomplete /\ report.broad -> "scope_too_broad"
                            [] OTHER -> "none"
ReportedFailure(report) ==
    LET reason == ReportedReason(report)
    IN [reason |-> reason,
        recoverable |-> IF report.recoverable = "none" THEN Recoverable(reason) ELSE report.recoverable = "yes"]

\* _classify_tool_failure: the last tool message that tells of a failure, whatever
\* the subagent did after it.  A call that could not find its file says so in its text.
ToolOutcomes == {"success", "denied", "missing", "error"}
ToolReason(outcome) == CASE outcome = "denied" -> "tool_denied"
                         [] outcome = "missing" -> "missing_required_files"
                         [] outcome = "error" -> "tool_error"
ToolFailure(calls) ==
    LET bad == SelectSeq(calls, LAMBDA c : c # "success")
    IN IF bad = <<>> THEN NoFailure ELSE Failure(ToolReason(Last(bad)))

StopReasons == {"none", "final_answer", "reasoning_step_limit", "empty_model_response", "repeated_tool_call"}

\* classify_subagent_failure
SubagentFailure(report, stop, calls) ==
    CASE ReportedReason(report) # "none" -> ReportedFailure(report)
      [] stop = "reasoning_step_limit" -> Failure("step_limit")
      [] stop = "empty_model_response" -> Failure("model_error")
      [] stop \in {"repeated_tool_call", "unavailable_tool_loop"} -> Failure("tool_error")
      [] ToolFailure(calls) # NoFailure -> ToolFailure(calls)
      [] report.incomplete /\ ~report.findings -> Failure("empty_findings")
      [] OTHER -> NoFailure

---------------------------------------------------------------------------
(* Results *)

Status(success, incomplete, findings, failure) ==
    CASE success -> "completed"
      [] failure # NoFailure -> IF findings THEN "partial" ELSE "failed"
      [] incomplete /\ findings -> "partial"
      [] OTHER -> "failed"

\* Mutant of ResultOf: only what the report says makes a result incomplete.
ResultOfReport(report, stop, calls) ==
    LET failure == SubagentFailure(report, stop, calls)
        incomplete == stop = "reasoning_step_limit" \/ report.incomplete
    IN [success |-> ~incomplete, incomplete |-> incomplete, findings |-> report.findings, retries |-> 0, recovered |-> FALSE,
        reason |-> failure.reason, recoverable |-> failure.recoverable,
        status |-> Status(~incomplete, incomplete, report.findings, failure)]

\* TaskSubagentRunner.run
ResultOf(report, stop, calls) ==
    LET failure == SubagentFailure(report, stop, calls)
        incomplete == stop = "reasoning_step_limit" \/ report.incomplete \/ failure # NoFailure
    IN [success |-> ~incomplete, incomplete |-> incomplete, findings |-> report.findings, retries |-> 0, recovered |-> FALSE,
        reason |-> failure.reason, recoverable |-> failure.recoverable,
        status |-> Status(~incomplete, incomplete, report.findings, failure)]

\* _error_result: an exception or a timeout has no report.
ErrorResult(reason) == [success |-> FALSE, incomplete |-> TRUE, findings |-> FALSE, retries |-> 0, recovered |-> FALSE,
                        reason |-> reason, recoverable |-> Recoverable(reason), status |-> "failed"]

\* should_auto_retry and annotate_retry_result
AutoRetry(result) == result.retries = 0 /\ ~result.success /\ result.reason \in {"internal_error", "timeout"}
Retried(result) == [result EXCEPT !.retries = 1, !.recovered = result.success]

\* What the fan-out's parent makes of it.
OutcomeOf(result) == IF result.success THEN "success"
                     ELSE IF result.reason = "timeout" THEN "timeout"
                     ELSE IF result.reason = "internal_error" THEN "internal" ELSE "failed"

CallLists == SeqOf(ToolOutcomes, 2)
Results == {ResultOf(r, s, c) : r \in Reports, s \in StopReasons, c \in CallLists} \cup {ErrorResult("timeout"), ErrorResult("internal_error")}

---------------------------------------------------------------------------
\* A result is a success exactly when nothing tells against it, and then there is no
\* more to say; what a subagent has found is never called failed; its own word goes
\* before every other sign; and a second run is for the accidents only, once.
ResultsAreGraded ==
    /\ \A r \in Reports, s \in StopReasons, c \in CallLists :
          LET result == ResultOf(r, s, c)
          IN /\ r.reason \in Reasons => result.reason = r.reason
             /\ result.success <=> /\ ReportedReason(r) = "none" /\ ~r.incomplete
                                   /\ s \in {"none", "final_answer"} /\ ToSet(c) \subseteq {"success"}
             /\ r = EmptyReport /\ s = "final_answer" /\ c = <<>> => result.success
    /\ \A result \in Results :
          /\ result.success <=> result.status = "completed"
          /\ result.success => result.reason = "none" /\ ~result.incomplete
          /\ result.status = "failed" <=> ~result.success /\ ~result.findings
          /\ AutoRetry(result) <=> OutcomeOf(result) \in Retryable
          /\ ~AutoRetry(Retried(result))
=============================================================================
