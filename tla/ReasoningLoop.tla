--------------------------- MODULE ReasoningLoop ---------------------------
(***************************************************************************)
(* One chat session served by the main agent, from the inbound message to   *)
(* the published reply: AgentLoop.run_inbound (runtime/agent_loop.py),      *)
(* Pipeline's turn (runtime/pipeline.py), ReasoningLoop.run                 *)
(* (runtime/reasoning_loop.py), the tool executor with the loop guard       *)
(* (tools/executor.py, tools/hooks.py), the visibility of tools             *)
(* (tools/policy.py) and reflection (runtime/reflection.py).                *)
(*                                                                          *)
(* The model, the tools' outputs, the reflection agent's verdict and every  *)
(* exception are nondeterministic.  Texts are abstracted to the turn that   *)
(* produced them.  Pipeline passes no after_tool_calls callback; the one    *)
(* that the teammates pass is in Teammates.  The coding path                *)
(* (task_session_runner) is not modelled.                                   *)
(***************************************************************************)
EXTENDS Naturals, Sequences, FiniteSets

CONSTANTS
  Calls,            \* the calls a model may ask for: records [tool, arg]
  Direct,           \* tools visible at once (policy.visible_tools without unlocks)
  Deferred,         \* tools of the mode that tool_search must unlock first
  Outputs,          \* what a read-like tool may return (hashes of its output)
  ReadTools,        \* _RESULT_HASH_TOOLS
  Refusable,        \* tools that another hook may refuse (the write scope's, the plugins')
  MaxSteps,         \* max_reasoning_steps
  RatioNum, RatioDen,   \* REASONING_FINISHING_REMINDER_RATIO as a fraction
  SearchLimit,      \* DEFAULT_WEB_SEARCH_BUDGET
  Guarded,          \* is ToolLoopGuardHook among the executor's hooks?
  RepeatLimit, ToolRepeatLimit, WindowSize, ResultLimit,   \* its parameters
  Reflecting,       \* is there a reflection agent?
  ReflectMin, ReflectEvery,   \* min_reasoning_steps, reflection_interval
  MaxCalls,         \* bound: calls in one response
  MaxTurns,         \* bound: inbound messages
  NoReason          \* "no stop reason"

StopReasons == {"reasoning_step_limit", "empty_model_response", "repeated_tool_call",
                "unavailable_tool_loop", "reflection_stop", "reflection_ask_user"}

ASSUME LoopAssumption ==
  /\ MaxSteps \in Nat \ {0} /\ SearchLimit \in Nat /\ MaxTurns \in Nat
  /\ RatioNum \in Nat /\ RatioDen \in Nat \ {0} /\ RatioNum <= RatioDen
  /\ RepeatLimit \in Nat \ {0, 1} /\ ToolRepeatLimit \in Nat \ {0, 1}
  /\ ResultLimit \in Nat \ {0, 1} /\ WindowSize \in Nat /\ WindowSize >= ToolRepeatLimit
  /\ ReflectMin \in Nat \ {0} /\ ReflectEvery \in Nat \ {0}
  /\ Guarded \in BOOLEAN /\ Reflecting \in BOOLEAN
  /\ NoReason \notin StopReasons
  /\ Direct \cap Deferred = {} /\ "tool_search" \notin Deferred   \* it is always on

VARIABLES
  pc,        \* where run_inbound is
  turn,      \* inbound messages received so far
  run,       \* RunState: [status, reason]
  session,   \* the session in memory: messages and metadata
  stored,    \* the session as SessionStore last saved it
  loop,      \* the locals of ReasoningLoop.run and of _execute_tool_calls
  log,       \* calls the executor was given in this turn (the guard's deques)
  seen,      \* the guard's _result_hash_counts
  reply,     \* the turn whose text is about to be delivered
  delivered, \* history: the last text in the session when a reply was published
  reminded   \* history: was a finishing reminder injected in this turn?

vars == <<pc, turn, run, session, stored, loop, log, seen, reply, delivered, reminded>>
turnVars == <<log, seen, reminded>>

Tools == {c.tool : c \in Calls}

\* The session: the turn of its last assistant message, the stop reason, the
\* web_search count, the unlocked tools, and the finishing reminder's flag.
NewSession == [last |-> 0, reason |-> NoReason, used |-> 0, unlocked |-> {}, sent |-> FALSE]

\* ToolExecutionSummary; failed abstracts "some tool result is not a success".
NewSummary == [unavailable |-> <<>>, denied |-> FALSE, failed |-> FALSE]

NewLoop == [step |-> 0, empty |-> 0, attempts |-> [t \in Tools |-> 0],
            calls |-> <<>>, sum |-> NewSummary]

Init ==
  /\ pc = "idle" /\ turn = 0 /\ reply = 0 /\ delivered = 0 /\ reminded = FALSE
  /\ run = [status |-> "none", reason |-> NoReason]
  /\ session = NewSession /\ stored = NewSession
  /\ loop = NewLoop /\ log = <<>> /\ seen = [o \in Outputs |-> 0]

----------------------------------------------------------------------------
(* AgentLoop: receive, preprocess, route, record                            *)

\* Mutant of BeforeTurn: a reset is missing.
KeepUnlocks(s) == [s EXCEPT !.reason = NoReason, !.used = 0]
\* What Pipeline._before_turn leaves in the session's metadata.
BeforeTurn(s) == [s EXCEPT !.reason = NoReason, !.used = 0, !.unlocked = {}]

\* An ordinary message: _record, then Pipeline.run up to the loop's head.
Chat ==
  /\ session' = BeforeTurn(session)
  /\ pc' = "head" /\ loop' = NewLoop
  /\ log' = <<>> /\ seen' = [o \in Outputs |-> 0] /\ reminded' = FALSE
  /\ UNCHANGED reply

\* A message the router answers by itself (_handle_switch).
Switch ==
  /\ session' = [session EXCEPT !.last = turn']
  /\ reply' = turn' /\ pc' = "finish" /\ loop' = NewLoop
  /\ UNCHANGED turnVars

\* A message that a plugin answers (_preprocess): the session's messages stay.
Abort ==
  /\ reply' = turn' /\ pc' = "finish" /\ loop' = NewLoop
  /\ UNCHANGED <<session, turnVars>>

Receive ==
  /\ pc = "idle" /\ turn < MaxTurns
  /\ turn' = turn + 1
  /\ run' = [status |-> "running", reason |-> NoReason]
  /\ Chat \/ Switch \/ Abort
  /\ UNCHANGED <<stored, delivered>>

----------------------------------------------------------------------------
(* ReasoningLoop                                                            *)

\* The loop returns to the pipeline with the session s.
ReturnWith(s) == session' = s /\ reply' = s.last /\ pc' = "finish"

\* _stop_turn: message, metadata and run state.
StopTurn(why) ==
  /\ ReturnWith([session EXCEPT !.last = turn, !.reason = why])
  /\ run' = [status |-> "stopped", reason |-> why]

\* _finishing_reminder_step
ReminderStep ==
  LET ceil == (MaxSteps * RatioNum + RatioDen - 1) \div RatioDen
  IN  IF RatioNum = 0 THEN MaxSteps + 1 ELSE IF ceil < 1 THEN 1 ELSE ceil

\* Mutant of StartStep: the step is compared before it is counted.
StartStepOnce ==
  /\ pc = "head"
  /\ loop' = [loop EXCEPT !.step = @ + 1]
  /\ \/ /\ loop.step + 1 > MaxSteps
        /\ StopTurn("reasoning_step_limit")
        /\ UNCHANGED reminded
     \/ /\ loop.step + 1 <= MaxSteps
        /\ LET remind == ~session.sent /\ loop.step = ReminderStep
           IN  /\ session' = [session EXCEPT !.sent = @ \/ remind]
               /\ reminded' = (reminded \/ remind)
        /\ pc' = "model"
        /\ UNCHANGED <<run, reply>>
  /\ UNCHANGED <<turn, stored, log, seen, delivered>>

\* The head of the loop: count the step, stop at the limit, or remind.
StartStep ==
  /\ pc = "head"
  /\ loop' = [loop EXCEPT !.step = @ + 1]
  /\ \/ /\ loop.step + 1 > MaxSteps
        /\ StopTurn("reasoning_step_limit")
        /\ UNCHANGED reminded
     \/ /\ loop.step + 1 <= MaxSteps
        /\ LET remind == ~session.sent /\ loop.step + 1 >= ReminderStep
           IN  /\ session' = [session EXCEPT !.sent = @ \/ remind]
               /\ reminded' = (reminded \/ remind)
        /\ pc' = "model"
        /\ UNCHANGED <<run, reply>>
  /\ UNCHANGED <<turn, stored, log, seen, delivered>>

\* The model returns neither text nor tool calls: retry once, then stop.
ModelEmpty ==
  /\ pc = "model"
  /\ loop' = [loop EXCEPT !.empty = @ + 1]
  /\ \/ loop.empty + 1 >= 2 /\ StopTurn("empty_model_response")
     \/ loop.empty + 1 < 2 /\ pc' = "head" /\ UNCHANGED <<session, run, reply>>
  /\ UNCHANGED <<turn, stored, turnVars, delivered>>

\* The model answers in words: the turn is over.
ModelAnswers ==
  /\ pc = "model"
  /\ loop' = [loop EXCEPT !.empty = 0]
  /\ ReturnWith([session EXCEPT !.last = turn])
  /\ UNCHANGED <<turn, run, stored, turnVars, delivered>>

\* The model asks for tools.
ModelCalls ==
  /\ pc = "model"
  /\ \E n \in 1..MaxCalls : \E cs \in [1..n -> Calls] :
        loop' = [loop EXCEPT !.empty = 0, !.calls = cs, !.sum = NewSummary]
  /\ session' = [session EXCEPT !.last = turn]
  /\ pc' = "tools"
  /\ UNCHANGED <<turn, run, stored, turnVars, reply, delivered>>

----------------------------------------------------------------------------
(* Tool execution                                                           *)

\* policy.can_execute: allowed in the mode, and visible in this turn.
CanExecute(t) == t = "tool_search" \/ t \in Direct \/ (t \in Deferred /\ t \in session.unlocked)

\* The calls in the guard's deques.
Recent == SubSeq(log, IF Len(log) > WindowSize THEN Len(log) - WindowSize + 1 ELSE 1, Len(log))
Count(s, P(_)) == Cardinality({i \in DOMAIN s : P(s[i])})

\* Mutant of GuardDenies: one repeat too many.
GuardDeniesLate(c) ==
  /\ Guarded
  /\ LET same(e) == e.call = c
         sameTool(e) == e.call.tool = c.tool
     IN  \/ Count(Recent, same) + 1 > RepeatLimit
         \/ Count(Recent, sameTool) + 1 >= ToolRepeatLimit

\* ToolLoopGuardHook.before
GuardDenies(c) ==
  /\ Guarded
  /\ LET same(e) == e.call = c
         sameTool(e) == e.call.tool = c.tool
     IN  \/ Count(Recent, same) + 1 >= RepeatLimit
         \/ Count(Recent, sameTool) + 1 >= ToolRepeatLimit

\* What the tools' handlers do to the session: tool_search unlocks.
Unlock(c) ==
  IF c.tool = "tool_search" /\ c.arg \in Direct \cup Deferred
  THEN session.unlocked \cup {c.arg} ELSE session.unlocked

\* The call at hand is answered: it leaves the list with its summary.
Answered(sum) == loop' = [loop EXCEPT !.calls = Tail(@), !.sum = sum]

\* "compact" is answered by the loop itself.
CallCompact ==
  /\ Head(loop.calls).tool = "compact"
  /\ Answered(loop.sum)
  /\ UNCHANGED <<session, log, seen>>

\* The answer's part in the summary: execution_error was asked for before.
Noted(c) ==
  [loop.sum EXCEPT !.unavailable = IF CanExecute(c.tool) THEN @ ELSE Append(@, c.tool)]

\* _web_search_budget_denial
BudgetDenies(c) == c.tool = "web_search" /\ SearchLimit > 0 /\ session.used >= SearchLimit
UsedAfter(c) ==
  IF c.tool = "web_search" /\ SearchLimit > 0 THEN session.used + 1 ELSE session.used

\* Mutant of CallOverBudget: the refused call stays at the head of the list.
CallOverBudgetAgain ==
  /\ BudgetDenies(Head(loop.calls))
  /\ UNCHANGED <<session, loop, log, seen>>

CallOverBudget ==
  LET c == Head(loop.calls) IN
  /\ BudgetDenies(c)
  /\ Answered([Noted(c) EXCEPT !.failed = TRUE])
  /\ UNCHANGED <<session, log, seen>>

\* ToolExecutor.execute, its guard hook before and after, ToolRegistry.execute.
CallExecutor ==
  LET c == Head(loop.calls)
      ran == CanExecute(c.tool) /\ ~GuardDenies(c)
  IN
  /\ c.tool # "compact" /\ ~BudgetDenies(c)
  /\ log' = Append(log, [call |-> c, ran |-> ran])
  /\ session' = [session EXCEPT !.used = UsedAfter(c),
                                !.unlocked = IF ran THEN Unlock(c) ELSE @]
  /\ IF GuardDenies(c)
     THEN /\ Answered([Noted(c) EXCEPT !.denied = TRUE, !.failed = TRUE])
          /\ UNCHANGED seen
     ELSE \/ /\ c.tool \in ReadTools /\ Guarded
             /\ \E o \in Outputs :
                  /\ seen' = [seen EXCEPT ![o] = @ + 1]
                  /\ LET over == seen[o] + 1 >= ResultLimit
                     IN  Answered([Noted(c) EXCEPT !.denied = @ \/ over, !.failed = @ \/ over])
          \/ Answered(Noted(c)) /\ UNCHANGED seen   \* no text to count

\* Another hook refuses the call, before the guard has seen it or after.
CallRefused ==
  LET c == Head(loop.calls) IN
  /\ c.tool \in Refusable /\ ~BudgetDenies(c)
  /\ \/ UNCHANGED log
     \/ ~GuardDenies(c) /\ log' = Append(log, [call |-> c, ran |-> FALSE])
  /\ session' = [session EXCEPT !.used = UsedAfter(c)]
  /\ Answered([Noted(c) EXCEPT !.failed = TRUE])
  /\ UNCHANGED seen

ExecuteTool ==
  /\ pc = "tools" /\ loop.calls # <<>>
  /\ CallCompact \/ CallOverBudget \/ CallExecutor \/ CallRefused
  /\ UNCHANGED <<pc, turn, run, stored, reply, delivered, reminded>>

----------------------------------------------------------------------------
(* After the tools: guard, unavailable tools, reflection                    *)

Missed(t) == Cardinality({i \in DOMAIN loop.sum.unavailable : loop.sum.unavailable[i] = t})
Attempts == [t \in Tools |-> loop.attempts[t] + Missed(t)]
Unavailable == \E i \in DOMAIN loop.sum.unavailable : Attempts[loop.sum.unavailable[i]] >= 2

\* ReflectionAgent.should_reflect (a denied call has failed, too)
ShouldReflect ==
  /\ Reflecting
  /\ \/ loop.sum.failed \/ loop.sum.unavailable # <<>>
     \/ loop.step >= ReflectMin /\ (loop.step - ReflectMin) % ReflectEvery = 0

\* ReflectionAgent.reflect: a call that raises, and an answer that is not JSON or has
\* no known action, are no objection.
Reflections == {"raises", "unreadable", "unknown", "continue", "revise", "ask_user", "stop"}
Decision(answer) == IF answer \in {"revise", "ask_user", "stop"} THEN answer ELSE "continue"

Reflect ==
  \E answer \in Reflections :
    \/ /\ ~ShouldReflect \/ Decision(answer) \in {"continue", "revise"}
       /\ pc' = "head" /\ UNCHANGED <<session, run, reply>>
    \/ ShouldReflect /\ Decision(answer) = "stop" /\ StopTurn("reflection_stop")
    \/ ShouldReflect /\ Decision(answer) = "ask_user" /\ StopTurn("reflection_ask_user")

AfterTools ==
  /\ pc = "tools" /\ loop.calls = <<>>
  /\ \/ /\ loop.sum.denied
        /\ StopTurn("repeated_tool_call") /\ UNCHANGED loop
     \/ /\ ~loop.sum.denied
        /\ loop' = [loop EXCEPT !.attempts = Attempts]
        /\ \/ Unavailable /\ StopTurn("unavailable_tool_loop")
           \/ ~Unavailable /\ Reflect
  /\ UNCHANGED <<turn, stored, turnVars, delivered>>

----------------------------------------------------------------------------
(* AgentLoop: finish, save, publish, fail                                   *)

\* Mutant of Finish: the session is not saved before the reply is published.
FinishUnsaved ==
  /\ pc = "finish" /\ pc' = "publish"
  /\ run' = IF run.status = "running" THEN [run EXCEPT !.status = "completed"] ELSE run
  /\ UNCHANGED <<turn, session, stored, loop, turnVars, reply, delivered>>

\* _finish_run: a stopped run keeps its status.
Finish ==
  /\ pc = "finish" /\ pc' = "save"
  /\ run' = IF run.status = "running" THEN [run EXCEPT !.status = "completed"] ELSE run
  /\ UNCHANGED <<turn, session, stored, loop, turnVars, reply, delivered>>

\* sessions.save
Save ==
  /\ pc = "save" /\ pc' = "publish"
  /\ stored' = session
  /\ UNCHANGED <<turn, run, session, loop, turnVars, reply, delivered>>

\* bus.publish_outbound
Publish ==
  /\ pc = "publish" /\ pc' = "idle"
  /\ delivered' = session.last
  /\ UNCHANGED <<turn, run, session, stored, loop, turnVars, reply>>

\* The context builder, the provider, a hook, a plugin or the database raises:
\* run_inbound fails the run and reraises; the session is not saved.
Fail ==
  /\ pc \in {"head", "model", "tools", "finish", "save"}
  /\ pc' = "idle"
  /\ run' = [run EXCEPT !.status = "failed"]
  /\ UNCHANGED <<turn, session, stored, loop, turnVars, reply, delivered>>

\* The process stops and starts again: what was not saved is gone.
Crash ==
  /\ pc' = "idle" /\ session' = stored
  /\ run' = [status |-> "none", reason |-> NoReason]
  /\ loop' = NewLoop /\ log' = <<>> /\ seen' = [o \in Outputs |-> 0] /\ reminded' = FALSE
  /\ UNCHANGED <<turn, stored, reply, delivered>>

Advance == StartStep \/ ModelEmpty \/ ModelAnswers \/ ModelCalls \/ ExecuteTool
           \/ AfterTools \/ Finish \/ Save \/ Publish

Next == Receive \/ Advance \/ Fail \/ Crash

Spec == Init /\ [][Next]_vars

\* run_inbound is one coroutine: once started, it goes on.
FairSpec == Spec /\ WF_vars(Advance)

----------------------------------------------------------------------------
(* Properties                                                               *)

Sessions == [last : 0..MaxTurns, reason : StopReasons \cup {NoReason}, used : 0..SearchLimit,
             unlocked : SUBSET (Direct \cup Deferred), sent : BOOLEAN]
Summaries == [unavailable : Seq(Tools), denied : BOOLEAN, failed : BOOLEAN]
Loops == [step : 0..MaxSteps + 1, empty : 0..2, attempts : [Tools -> Nat], calls : Seq(Calls), sum : Summaries]

\* Every variable has its type: the web_search count in the session's metadata
\* stays within its limit, and only tools of the mode are ever unlocked.
TypeOK ==
  /\ pc \in {"idle", "head", "model", "tools", "finish", "save", "publish"}
  /\ turn \in 0..MaxTurns /\ reply \in 0..MaxTurns /\ delivered \in 0..MaxTurns
  /\ run \in [status : {"none", "running", "completed", "stopped", "failed"}, reason : StopReasons \cup {NoReason}]
  /\ session \in Sessions /\ stored \in Sessions
  /\ loop \in Loops
  /\ log \in Seq([call : Calls, ran : BOOLEAN]) /\ seen \in [Outputs -> Nat]
  /\ reminded \in BOOLEAN

Ran(c) == \E i \in DOMAIN log : log[i].call = c /\ log[i].ran

\* The searches of one turn stay within the budget that Pipeline gives each
\* turn (DEFAULT_WEB_SEARCH_BUDGET), whatever the model asks for and however
\* often the session was reloaded.
SearchesWithinBudget ==
  SearchLimit > 0 =>
    Cardinality({i \in DOMAIN log : log[i].ran /\ log[i].call.tool = "web_search"}) <= SearchLimit

\* A deferred tool runs only in a turn in which tool_search unlocked it
\* (reset_turn_unlocks): an unlock does not outlive its turn, not even through
\* the stored metadata.
UnlocksLastOneTurn ==
  \A c \in Calls :
    c.tool \in Deferred /\ Ran(c) =>
      \E s \in Calls : s.tool = "tool_search" /\ s.arg = c.tool /\ Ran(s)

\* docs/overview/CODEBASE_SUMMARY.md: "ToolLoopGuardHook" blocks calling the
\* same tool again and again: among any WindowSize consecutive calls of a turn,
\* the same call runs fewer than RepeatLimit times.
RepeatsAreBlocked ==
  \A c \in Calls : \A i, j \in DOMAIN log :
    i <= j /\ j - i < WindowSize =>
      Cardinality({k \in i..j : log[k].call = c /\ log[k].ran}) < RepeatLimit

\* Once the guard has denied a call, for the call itself or for its result, the
\* model is not asked again in that turn.
GuardEndsTurn ==
  pc = "model" => /\ ~loop.sum.denied
                  /\ \A o \in Outputs : seen[o] < ResultLimit

\* The loop guard bounds what the model may repeat: within its window, and
\* within the turn.
GuardStopsRepeats == RepeatsAreBlocked /\ GuardEndsTurn

\* A turn in which the loop ran ends with a stop reason in the session exactly
\* when its run is stopped, and then with the same one: no reason is left over
\* from an earlier turn (Pipeline._before_turn), which is what the subagent
\* runner relies on when it reads the reason from the session.
ReasonIsThisTurns ==
  pc = "save" /\ loop.step > 0 =>
    /\ run.status = "stopped" <=> session.reason # NoReason
    /\ run.reason = session.reason

\* What is published is text of the turn that it answers, never the last text
\* of an earlier turn (Pipeline.run takes the last assistant message it finds).
ReplyIsThisTurns == pc \in {"finish", "save", "publish"} => reply = turn

\* What a turn leaves in the session's metadata and messages (unlocks, the
\* search count, the stop reason, the last text) is never taken for that of a
\* later turn, though the session is stored, loaded again and may have failed.
NothingIsStale == SearchesWithinBudget /\ UnlocksLastOneTurn /\ ReasonIsThisTurns /\ ReplyIsThisTurns

\* When a reply is published, the session's text up to it is in the database, so
\* a restart does not forget what the user was told.  (The reply of a plugin is
\* in no session.)
PublishedIsSaved == delivered <= stored.last

\* Every turn ends, whatever the model asks for.
TurnEnds == pc # "idle" ~> pc = "idle"

\* A long run is given the finishing reminder when it reaches its share of the
\* budget, unless an earlier run of the session was: the flag stays in the session
\* (reasoning_loop.py:739).
ReminderNotSkipped ==
  pc = "model" /\ loop.step >= ReminderStep => session.sent
=============================================================================
