------------------------------- MODULE Traces -------------------------------
(* What one run leaves behind: its events, its state, report and metrics, the *)
(* summary that is made of them, and its rows in the index.  The turn writes  *)
(* them all; the memory worker adds events and makes the summary again.       *)
EXTENDS Naturals, Sequences, SequencesExt, FiniteSets

CONSTANTS RunSteps,   \* bound on the reasoning steps of the run
          PathLimit   \* entries of the summary's execution path

ASSUME TraceAssumption == PathLimit \in Nat

VARIABLES log,        \* trace.jsonl
          runStatus,        \* the run's state in memory
          runFiles,      \* run_state.json, report.json and metrics.json
          summary,    \* trace_summary.json
          index,      \* the run's row and steps in the index
          writer,     \* where the turn and the memory worker are, and what they hold
          met         \* history: both were at the summary at the same time

traceVars == <<log, runStatus, runFiles, summary, index, writer, met>>

---------------------------------------------------------------------------
(* Events.  A tool's call completes, is denied by a hook, or fails: an error  *)
(* that it returns and one that it raises count the same.                     *)

DeniedTools == {"tool loop", "tool scope", "tool denied"}
FailedTools == {"tool failed"}
ToolEvents == {"tool ok"} \cup DeniedTools \cup FailedTools
ModelEvents == {"calls", "answer", "empty"}
Stops == {"stopped budget", "stopped empty", "stopped guard", "stopped other"}

\* What the reasoning loop may report next.
Follows(e) == CASE e = "started" -> {"step"}
                [] e = "step" -> ModelEvents \cup {"model failed"}
                [] e = "calls" -> ToolEvents
                [] e = "tool loop" -> {"guard", "step"}
                [] e = "guard" -> {"stopped guard"}
                [] e \in ToolEvents \ {"tool loop"} -> {"step", "stopped budget", "stopped other"}
                [] e = "empty" -> {"step", "stopped empty", "stopped budget"}
                [] e = "answer" -> {"final"}
                [] OTHER -> {}

Count(events, kinds) == Cardinality({i \in DOMAIN events : events[i] \in kinds})

---------------------------------------------------------------------------
(* metrics.json, and the classification and path of the summary               *)

MetricsFor(events) == [models |-> Count(events, ModelEvents), modelFailures |-> Count(events, {"model failed"}),
                       tools |-> Count(events, ToolEvents), failed |-> Count(events, FailedTools),
                       denied |-> Count(events, DeniedTools)]

CategoryOf(e) == CASE e \in {"empty", "stopped empty"} -> "empty_model_response"
                   [] e = "stopped budget" -> "budget_exceeded"
                   [] e \in {"tool loop", "stopped guard"} -> "loop_guard"
                   [] e = "tool scope" -> "workspace_violation"
                   [] e = "tool denied" -> "tool_denied"
                   [] e \in FailedTools -> "tool_error"
                   [] OTHER -> "none"

\* The first event that tells of a failure decides, however the run went on.
ClassifyFailure(status, events) ==
    LET telling == {i \in DOMAIN events : CategoryOf(events[i]) # "none"}
    IN CASE telling # {} -> CategoryOf(events[CHOOSE i \in telling : \A j \in telling : i <= j])
         [] telling = {} /\ status = "completed" -> "pass"
         [] telling = {} /\ status = "failed" -> "run_failed"
         [] OTHER -> "unknown"

PathKind(e) == CASE e = "step" -> "plan" [] e \in ModelEvents -> "model" [] e \in ToolEvents -> "tool"
                 [] e = "final" -> "complete" [] e = "guard" \/ e \in Stops -> "stop" [] OTHER -> "none"

Shown(events) == {i \in DOMAIN events : PathKind(events[i]) # "none"}
PathEntry(events, n) ==
    LET nth == {i \in Shown(events) : Cardinality({j \in Shown(events) : j <= i}) = n}
    IN CHOOSE kind \in {PathKind(events[i]) : i \in nth} : TRUE

\* The path is closed by the run's state when no event of it does.
ExecutionPath(status, events) ==
    LET path == [n \in 1..Cardinality(Shown(events)) |-> PathEntry(events, n)]
        end == IF status = "completed" THEN "complete" ELSE "stop"
        whole == IF {"complete", "stop"} \cap ToSet(path) = {} THEN Append(path, end) ELSE path
    IN SubSeq(whole, 1, IF Len(whole) < PathLimit THEN Len(whole) ELSE PathLimit)

SummaryPayload == [status |-> runFiles.state, category |-> ClassifyFailure(runFiles.state, log), metrics |-> runFiles.metrics,
                   tools |-> Count(log, ToolEvents), failed |-> Count(log, FailedTools),
                   denied |-> Count(log, {"tool denied", "tool loop", "tool scope"}),
                   path |-> ExecutionPath(runFiles.state, log)]

Unwritten == [status |-> "none", category |-> "none", path |-> <<>>]

---------------------------------------------------------------------------
(* The turn *)

At(w, step) == writer[w].step = step
Moves(w, step) == writer' = [writer EXCEPT ![w] = [step |-> step]]

TracesInit ==
    /\ log = <<>> /\ runStatus = "running" /\ summary = Unwritten /\ met = FALSE
    /\ runFiles = [state |-> "none", report |-> "none", metrics |-> MetricsFor(<<>>)]
    /\ index = [status |-> "none", category |-> "none", tools |-> 0, path |-> <<>>]
    /\ writer = [turn |-> [step |-> "start"], worker |-> [step |-> "none"]]

StartRun == /\ At("turn", "start") /\ Moves("turn", "run")
            /\ runFiles' = [runFiles EXCEPT !.state = runStatus] /\ log' = <<"started">>
            /\ index' = [index EXCEPT !.status = runStatus]
            /\ UNCHANGED <<runStatus, summary, met>>

TurnEvents == SelectSeq(log, LAMBDA e : e \notin {"memory", "memory failed", "scheduled"})

\* A stop sets the run's state with its event.
Emit(e) == /\ At("turn", "run") /\ e \in Follows(Last(TurnEvents))
           /\ e = "step" => Count(log, {"step"}) < RunSteps
           /\ log' = Append(log, e)
           /\ runStatus' = IF e \in Stops THEN "stopped" ELSE runStatus
           /\ UNCHANGED <<runFiles, summary, index, writer, met>>

\* Pipeline._after_turn: the worker gets the session, and the trace an event.
Schedule == /\ At("turn", "run") /\ Last(TurnEvents) \in {"final"} \cup Stops
            /\ writer' = [turn |-> [step |-> "scheduled"], worker |-> [step |-> "memory"]]
            /\ UNCHANGED <<log, runStatus, runFiles, summary, index, met>>

Scheduled == /\ At("turn", "scheduled") /\ Moves("turn", "finish")
             /\ log' = Append(log, "scheduled")
             /\ UNCHANGED <<runStatus, runFiles, summary, index, met>>

\* AgentLoop._finish_run: a stopped run stays stopped.
FinishRun == /\ At("turn", "finish") /\ Moves("turn", "state")
             /\ runStatus' = IF runStatus = "running" THEN "completed" ELSE runStatus
             /\ log' = Append(log, "finished")
             /\ UNCHANGED <<runFiles, summary, index, met>>

\* AgentLoop._fail_run: the turn has raised, in its loop or when its session was saved.
FailRun == /\ (At("turn", "run") /\ Last(TurnEvents) = "model failed") \/ At("turn", "save")
           /\ Moves("turn", "state")
           /\ runStatus' = "failed" /\ log' = Append(log, "failed")
           /\ UNCHANGED <<runFiles, summary, index, met>>

WriteRunState == /\ At("turn", "state") /\ Moves("turn", "report")
                 /\ runFiles' = [runFiles EXCEPT !.state = runStatus]
                 /\ UNCHANGED <<log, runStatus, summary, index, met>>

\* TraceStore.write_report: the report, the metrics, the summary and the index.
WriteReport == /\ At("turn", "report") /\ Moves("turn", "metrics")
               /\ runFiles' = [runFiles EXCEPT !.report = runStatus]
               /\ UNCHANGED <<log, runStatus, summary, index, met>>

\* Mutant of WriteMetrics: they were written when the run first finished.
WriteMetricsOnce == /\ At("turn", "metrics") /\ Moves("turn", "read")
                    /\ runFiles' = IF runStatus = "failed" THEN runFiles ELSE [runFiles EXCEPT !.metrics = MetricsFor(log)]
                    /\ UNCHANGED <<log, runStatus, summary, index, met>>

WriteMetrics == /\ At("turn", "metrics") /\ Moves("turn", "read")
                /\ runFiles' = [runFiles EXCEPT !.metrics = MetricsFor(log)]
                /\ UNCHANGED <<log, runStatus, summary, index, met>>

IndexRow == [status |-> runStatus, category |-> summary.category, tools |-> runFiles.metrics.tools,
             path |-> IF summary = Unwritten THEN index.path ELSE summary.path]

\* The index is told what the files say, not what the turn has just made.
IndexRun == /\ At("turn", "index") /\ Moves("turn", IF runStatus = "failed" THEN "done" ELSE "save")
            /\ index' = IndexRow
            /\ met' = (met \/ writer.worker.step \in {"truncate", "write"})
            /\ UNCHANGED <<log, runStatus, runFiles, summary>>

SaveSucceeds == /\ At("turn", "save") /\ Moves("turn", "done")
                /\ UNCHANGED <<log, runStatus, runFiles, summary, index, met>>

---------------------------------------------------------------------------
(* The memory worker *)

MemoryEvents == /\ At("worker", "memory") /\ Moves("worker", "read")
                /\ log' = Append(log, "memory")
                /\ UNCHANGED <<runStatus, runFiles, summary, index, met>>

\* Its failure is an event; the summary is not made again.
MemoryFails == /\ At("worker", "memory") /\ Moves("worker", "none")
               /\ log' = Append(log, "memory failed")
               /\ UNCHANGED <<runStatus, runFiles, summary, index, met>>

---------------------------------------------------------------------------
(* write_trace_summary, by either of them; the file is written in place.      *)

Other(w) == IF w = "turn" THEN "worker" ELSE "turn"

SummaryRead(w) == /\ At(w, "read")
                  /\ writer' = [writer EXCEPT ![w] = [step |-> "truncate", payload |-> SummaryPayload]]
                  /\ met' = (met \/ writer[Other(w)].step \in {"truncate", "write"})
                  /\ UNCHANGED <<log, runStatus, runFiles, summary, index>>

SummaryTruncate(w) == /\ At(w, "truncate")
                      /\ summary' = Unwritten /\ writer' = [writer EXCEPT ![w].step = "write"]
                      /\ UNCHANGED <<log, runStatus, runFiles, index, met>>

SummaryWrite(w) == /\ At(w, "write")
                   /\ summary' = writer[w].payload
                   /\ Moves(w, IF w = "turn" THEN "index" ELSE "none")
                   /\ UNCHANGED <<log, runStatus, runFiles, index, met>>

TracesNext ==
    \/ StartRun \/ \E e \in ToolEvents \cup ModelEvents \cup Stops \cup {"step", "model failed", "guard", "final"} : Emit(e)
    \/ Schedule \/ Scheduled \/ FinishRun \/ FailRun \/ WriteRunState \/ WriteReport \/ WriteMetrics
    \/ IndexRun \/ SaveSucceeds \/ MemoryEvents \/ MemoryFails
    \/ \E w \in {"turn", "worker"} : SummaryRead(w) \/ SummaryTruncate(w) \/ SummaryWrite(w)

---------------------------------------------------------------------------
Quiet == At("turn", "done") /\ At("worker", "none")

\* When the turn and its worker are done, the state, the report, the metrics, the
\* summary and the index tell the same of the run, also of one that failed after
\* it was reported as finished, and the path has its end unless it was cut; as
\* long as the two did not meet at the summary.
TracesAgree ==
    Quiet => /\ runFiles.state = runStatus /\ runFiles.report = runStatus /\ index.status = runStatus
             /\ runFiles.metrics = MetricsFor(log) /\ index.tools = Count(log, ToolEvents)
             /\ ~met => /\ summary = SummaryPayload
                        /\ index.category = summary.category /\ index.path = summary.path
                        /\ {"complete", "stop"} \cap ToSet(summary.path) # {} \/ Len(summary.path) = PathLimit
                        /\ summary.category = "pass" => runStatus = "completed" /\ summary.failed + summary.denied = 0
=============================================================================
