# A TLA+ model of the agent platform

The repository is a personal agent platform in Python: chat gateways and a web server put messages on a bus, an
agent loop answers them with a model and tools, and a coding mode lets a lead agent work with a team of persistent
teammates. This directory models the parts in which threads, files, messages and long-lived session state
meet, checks them with TLC, and proves the most important properties of the team's infrastructure with TLAPS.

Run everything from this directory: `tlc -workers 2 -config TaskBoard.cfg MCTaskBoard`, `tlapm TaskBoardProofs.tla`.
`PROJECT.json` lists components, runs, mutants, the source lines of every definition, findings, hazards and theorems.

## 1. Inventory

State, operations and partners of every part. "Hard" is what tests hardly reach.

| Part (source) | State | Operations | Talks to | Hard | What makes it correct |
|---|---|---|---|---|---|
| Task board (`coding_runtime/task.py`) | one JSON file per task, `_next_id`, `_claim_locker` | `create`, `update`, `_clear_dependency`, `claim_task`, `scan_unclaimed_tasks` | lead's and teammates' tools, teammate polls | all agents are threads, only `claim_task` takes a lock, a write truncates first | claims stick, ids are fresh, completing releases dependents |
| Team inbox (`bus/team_bus.py`) | one JSONL file per agent | `send`, `broadcast`, `read_inbox` | protocols, teammates, coding turns | read and truncation are two calls; two readers of the lead's inbox | no loss, no repetition, no stray message |
| Reliable bus (`bus/reliable.py`) | `_pending`, `_responses`, events, one lock | `request`, `respond`, `send`, `notify_arrival` | team inbox, protocols | time-out against arrival, duplicate and late responses | one result per request, no lost wake-up, no leftovers |
| Teammates (`coding_runtime/teammate.py`) | `config.json` statuses, threads, sessions | `spawn`, reasoning cycles, idle polls, `_clear_stale_working_members` | board, inbox, reasoning loop | two threads of one member, exceptions outside the `try`, restarts | statuses tell the truth, idle phases end, claims are worked on |
| Team protocols (`coding_runtime/protocols.py`) | shutdown and plan requests in memory, `lock` | request, review, answer, drain | team inbox, teammates, lead's tools | status set under the lock, message sent after it; the tracker is gone after a restart, inbox files are not | the asker hears the recorded verdict |
| Background tasks (`coding_runtime/background_task.py`) | task dict, notification queue | `run`, the command's thread, `check`, `drain_notifications` | coding turns | three writes of which one is locked; several turns drain one queue | each end is reported once, and truly |
| Agent loop, pipeline (`runtime/agent_loop.py`, `pipeline.py`) | run state, session | receive, preprocess, route, record, finish, save, publish, fail | user bus, session store, reasoning loop, plugins | an exception between any two of these; metadata that is stored | a reply belongs to its turn and is saved before it is published |
| Reasoning loop (`runtime/reasoning_loop.py`, `reflection.py`) | loop counters, session metadata | model call, tool calls, stop conditions, reminders, reflection | tool executor, context builder, provider | budgets over steps and turns, stale metadata | budgets hold, turns end, stop reasons are right |
| Tools (`tools/executor.py`, `hooks.py`, `policy.py`, `tool_registry.py`) | unlocked tools, the guard's deques | `execute`, hooks before and after, `tool_search` | reasoning loop, session | bounded windows, per-turn unlocks | only unlocked tools run, repeats are blocked |
| Context (`runtime/context.py`, `context_history.py`, `token_estimator.py`) | none: a function of the session | budgets per section, sanitizing, emergency trim | reasoning loop, session | incomplete tool groups, budgets exceeded at several levels | calls and results stay paired, the context fits, the latest results are in it |
| User bus, application (`bus/user_bus.py`, `runtime/app_runtime.py`) | outbound queue, `_running` | publish, dispatch with one retry, start, stop | gateways, agent loop | stop before the dispatcher has run, retry of what was delivered | stop returns, replies are shown or given up |
| Telegram, Feishu (`gateway/`) | offset, seen events, message tasks, outbox table | poll, callbacks, turns, `flush_outbox`, cancellation | user bus, agent loop | duplicates, kills between a turn and its record, sends that raise after delivery | one turn per message, the outbox tells the truth and empties |
| Web chat (`web/server.py: AgentService`) | runtime, locks per session, pending futures | ask, delete, start on first use | agent loop, sessions | requests that give up while their turn runs, deletion against start | own replies, deleted stays deleted, locks come free |
| Web storage and accounts (`web/server.py`, `web/auth_store.py`) | the user's directory; accounts and tokens | upload, mkdir, rename, delete; register, login, logout | HTTP threads | check-then-act on files and names | nothing is lost, one registration per name |
| Sessions (`sessions/`) | LRU cache and SQLite rows | `get_or_create`, `save`, eviction, delete | agent loop, web, gateways | eviction of a session in use, two copies | no update is lost |
| Coding task sessions (`agents/coding/`) | child session, conclusions, workspace diff | `run_coding_task`, promotion | agent loop, memory | tasks at the same time, a failure between two of its outputs | the report tells what is stored |
| Subagents (`agents/subagent/`) | fan-out count and ladder of each clue in the session, thread pool | guards, pool with time-out, retry, grading | reasoning loop of the children | threads that outlive their parent's patience | the ladder goes down, the parent gets back |
| File tools (`tools/handlers.py`, `tools/artifacts`) | files, read cache, sandboxes, artifacts and their log | read, edit, write, list, store, clean up | reasoning loop, session | cached answers, long outputs in pages, shared directories | what is shown is whole and current, artifacts are accounted for |
| Modes and roles (`runtime/routing/`, `tools/policy.py`) | session mode, role, unlocked tools | plan, classify, catalogs, delegated registries | web accounts, agent loop | roles that change while sessions are stored | a turn has the tools of its mode and role |
| Model pool (`models/model_pool.py`, `provider.py`) | failures and cool-down of every profile (endpoint and model) | routes from the environment, `model_for`, `chat`, `stream_chat`, health checks | reasoning loop, reflection, teammates, memory | health is shared by threads without a lock; a stream that fails half way; model names that callers keep | every usable profile is tried, streams are not mixed, profiles are disabled for a cause |
| Memory (`memory/`, `runtime/background_memory.py`) | recent turns (JSON), archive, candidates, `MEMORY.md` | queue, rewrite of recent turns, evidence, promotion | pipeline after a turn | several processes without locks, deaths between two files | no turn and no promoted text is lost |
| Traces (`runtime/trace/`) | state, event log, metrics, report, summary, index of a run | append, finish, summarise, refresh | agent loop, memory worker | two writers of one run, failures after it was reported | all of them tell the same |
| Knowledge (`knowledge/`, `retrieval/`, `scripts/ingest_security_kb.py`) | index, state file, cache | ingest (full, incremental), search, route | context of a turn | ingestions that break off, files that change meanwhile, unlocked cache | what is recorded is indexed; snippets are fresh |
| Evaluation (`evaluation/`) | reports | run cases one after the other | everything, from outside | little | not modelled |

## 2. Plan

Order of work: the team's infrastructure first (threads that share files, the least tested code), then the main
loop, then what surrounds it.

1. The team: `TaskBoard`, `TeamInbox`, `ReliableBus` with the abstract `RequestReply`, `Teammates`.
2. The main loop: `ReasoningLoop`, `ModelContext`, `ModelPool` with `ModelRoutes`.
3. The ways in, composed by `FrontDoors`: `UserBus`, `Outbox`, `Gateways`, `Sessions`, `WebService`, `WebFiles`, `WebLogin`.
4. What a turn works with, composed by `Workbench`: `Workspace`, `Artifacts`, `Subagents`, `CodingTasks`, `BackgroundTasks`, `Protocols`, `Memory`, `Traces`, `Knowledge`, `KnowledgeSearch`,
   `Chunking`, `Access`, `ContextFrame`, `WireFormats`.
5. Proofs: of the team (`TaskBoardProofs`; `TeamProofs`: `TeamInbox`, `ReliableBus`, `Teammates`); of the main loop
   (`ReasoningLoopProofs`; `ModelProofs`: `ModelPool`, `ModelContext`); of everything that `FrontDoors` composes; and of
   everything in `Workbench` that has a state (`WorkRecordsProofs` has the invariants of coding tasks, memory, background
   commands, requests and traces, `WorkbenchProofs` the others and the theorems). `Recursion` has induction and recursion
   over the naturals for the proofs that need them.

All of this exists. What is left of the plan: `config.json` of the teammates with its torn writes.

## 3. Modules

`MC*` modules only give constants their values. In every module a `\* Mutant of X` is a plausible bug of the code
behind `X`; replacing `X` by it violates the property that `PROJECT.json` names, which shows that the property is
about the code.

**TaskBoard.** `file` and `board` are the task files: truncating (`Path.write_text` opens with mode `w`) and
writing are two steps, and a write that lands on top of another thread's may leave a file that `json.loads`
refuses. `pc`, `arg`, `copy`, `todo`, `dep`, `depCopy` are the locals of the three methods, one value per agent.
`Create*`/`Bump*` is `create` (`_next_id` is loaded and stored without a lock), `UpdateLoad` ... `UpdWrite` is
`update` with `_clear_dependency` (`ClearGlob` ... `ClearDone`), `Claim*` is `claim_task`. Acquiring the lock is
one step with the read that follows, because it only delays other claims. `claims`, `overlap` and `others` are
histories. Subject and description are left out: no method reads them back.

**TeamInbox.** `inbox[n]` is a set of message numbers, since lines are appended in the order of sending.
`ReadText` and `TruncateReturn` are the two calls of `read_inbox`; `Restart` is the death of the process with its
daemon threads. Lines longer than Python's write buffer are not modelled.

**ReliableBus, RequestReply.** One step per critical section of `_lock`; the wait, its time-out and `event.set()`
happen outside. `wire` is the inbox below, which may lose a response or hand it to two readers. `RequestReply` is
what callers are promised: a request is opened and closed once, with a reply sent to it or with none;
`ImplementsRequestReply` is the refinement. (Nobody reads a message's `ttl`.)

**Teammates.** `status` is `config.json`, `pc[k]` where thread `k` is in `_run_member`. A reasoning cycle is
`Build` (the context reads the inbox), any `CycleClaim`s, and one of the four ways to end. A poll is
`PollMail`, or `PollEmpty` and then the board: `ScanNothing`, `ScanFound`, `BoardRaise` (the file is being
written: `TaskBoard` shows it), `ClaimRefused`, `ClaimGranted`, or `ClaimRaise` (a short session is first given an
identity block, and that call raises). `Restart` is a new process with `_clear_stale_working_members`.
Torn writes of `config.json` itself are not modelled.

**ReasoningLoop.** One session, message after message: `Receive` is everything up to the loop's head (plugins may
abort, the router may switch modes), `StartStep`, `ModelEmpty`, `ModelAnswers`, `ModelCalls`, `ExecuteTool` and
`AfterTools` are `ReasoningLoop.run`, `Finish`, `Save`, `Publish` are the end of `AgentLoop._deliver`. `Fail` is an
exception at any of these places, `Crash` a restart that reloads the session from the store. A text is
represented by the turn that produced it. `ExecuteTool` covers the answer by the loop itself, the search
budget, the executor with the guard before and after, and a refusal by any other hook. The coding path, memory
after the turn, and tracing are left out; the `after_tool_calls` callback is in `Teammates`.

**ModelContext.** The session's messages as they grow, and the functions that turn them into a prompt: `Built`
(history and active turn budgets), `Sanitized`, `Trimmed`. A message is its role, text length, tool-call ids and
place in the session. What a function keeps of a list is a set of places (`Chosen`, `InGroups`), and how far a
loop gets is the largest number that fits (`Extent`, `Fitting`); only `TrimText` is a recursion, as the code
measures again after each message. Texts that the code puts in place of others have one length, `Note`. The other sections of
the prompt are constant text here; `LATEST_RESULT_PROTECTED_TOOLS`, which protects further results of some
tools, and the strategies that no configuration selects are left out.

**ModelPool, ModelRoutes.** `ModelRoutes` computes the list of profiles that a purpose may use from the
environment (`LLM_ROUTES_JSON`, `LLM_ROUTE_*`, each profile's fallbacks). `ModelPool` takes any such routes. A
caller asks for a model name (`Resolve`), which the reasoning loop does before every call and the reflection
agent and the conclusion extractor once at start-up, and then calls (`Call`). A model name is represented by the
profile whose model it is. `at`, `todo` and `tried` are places in the route: the state of the `for` loop of
`_call_with_fallbacks`. A provider answers (`Succeed`) or raises (`Break`), a stream perhaps after some text.
`mark_profile_failure` reads the record in `Break` and stores it in the next step (`Raise`, `TryNext` or `GiveUp`),
as nothing is locked; `mark_profile_success` is one assignment. Reading the availability of a whole route is one step.
`Check` is `health_check_purposes`. Parsing of profiles is left
out (the wire formats are in `WireFormats`), and so are routes that are empty or name unknown profiles, which raise on every use.

**FrontDoors.** One process is one door: a gateway, or the web server with its chat, its storage or its accounts,
which share no state; `channel` says which. The rest of the door's modules stands still.

- `UserBus` is the dispatcher task of `bus/user_bus.py` with `AppRuntime.start` and `stop`: `DispatchBegin`,
  `DispatchTake`, `DispatchNotices` (it sees that it should stop), `HandlerRaises` and `RetryNow`. A step is what
  happens between two awaits.
- `Outbox` is the table of messages that tools leave for a chat, and `flush_outbox`; `Gateways` are the Telegram
  poller (offset, batches, commands) and the Feishu callbacks (seen events, message tasks), with stops, kills and
  cancelled tasks. A turn has no await, so it is one step of the event loop.
- `Sessions` is `SessionManager`, an LRU cache, over `SessionStore`, which keeps the rows before the first message
  that changed. A message is the set of asks whose turns it tells of. `WebService` is `AgentService`: HTTP threads
  start the runtime, take the lock of a session, put asks and deletions on the loop and give up after a time.
- `WebFiles` are the storage handlers, one step per call of the file system. `WebLogin` is the account store with the
  handlers that use it, one step per call of the store.

**Workbench.** Twelve parts that share no state; `part` says which one moves.

- `Workspace`: sessions that read, edit and write the same files. A file's content is the sequence of the changes in
  it; `kept` is a session's read cache with what the session remembers. Its last part are the functions that cut
  long outputs into pages; a line is its length. `Artifacts`: sandbox directories, their cleanup, and the artifacts
  with their log.
- `Subagents`: `Dispatch` with its guards, the pool (`SubagentStarts`, `SubagentEnds`, `Timeout`, `Retry`) and
  `RecordResults`, which moves a clue down the ladder. Its last part: how a run is graded.
- `CodingTasks`: `run_coding_task` step by step, several tasks in one workspace. `BackgroundTasks`: the three writes
  of a command's thread against `check` and `drain_notifications`. `Protocols`: requests in the tracker, under its
  lock, and their messages, which are sent after it.
- `Memory`: processes with a worker each; one step per file or table written. `Traces`: one run, written by its turn
  and by the memory worker.
- `Knowledge`: full and incremental ingestion, one step per batch or file, each of which may be the last.
  `KnowledgeSearch`: the router's decision and its budget, the cache in the steps that threads can separate, and
  the choice of the best hits. `Chunking`: how texts, Markdown, advisories and rules become chunks; a text is a
  sequence of tokens.
- `Access`: routing by command, pinned mode, classifier and role; the catalog of tools of each kind of session; what
  task sessions, subagents and teammates inherit. `ContextFrame`: the budgets of the sections and the cache of
  instruction files.
- `WireFormats`: what `models/provider.py` makes of an answer that comes whole, as a stream or as items, and what it
  sends of a session. Pure functions, over two calls cut and interleaved in every way and over all short sessions.

How they fit: `Teammates` uses an atomic claim and a set of unread mail where `TaskBoard` and `TeamInbox` look
inside; `ReliableBus` assumes of its wire what `TeamInbox` shows an inbox may do: lose a message and hand it out to
two readers, but not to readers of other inboxes (`InboxDeliversNoStray`). `ReasoningLoop` abstracts the messages
that `ModelContext` looks at and the calls that `ModelPool` looks at (one of its steps is one `chat` or `stream_chat`), and `Teammates` the
cycles that `ReasoningLoop` looks at. A turn is one step for `FrontDoors`; what it does to files, memory and traces
is in `Workbench`, and so are the children that a turn starts, whose own turns are `ReasoningLoop`'s again.

## 4. Runs

| Run | Size | What it shows |
|---|---|---|
| `task_board` | 2 agents, ids 1..2, one creator, updates that complete a task and may block it | `ClaimLostOnlyToOverlap`: a claim is lost only to a thread whose unlocked load and save of the file enclose it, so two claims never race. `CreatesFreshFile`: with one creator, ids are fresh. `DependentsReleased`: a task that still waits for a completed one was written by another thread while `_clear_dependency` ran |
| `task_board_claim` | 2 agents, 1 task | finding: the granted claim disappears |
| `team_inbox` | 2 inboxes, 3 reader threads, 4 messages | `LossOnlyInWindow`, `ForwardOnly`, with restarts anywhere |
| `reliable_bus` | 2 requests, 3 responses (two to one request), 2 notifying threads | `NothingLeftBehind`, `RequestReturns`, and the refinement of `RequestReply` (`ImplementsRequestReply`) |
| `teammates` | 2 members, 2 threads, 1 task, 2 polls | `StatusIsTrue`: `ErrorIsHeard`; `WorkingIsAlive` also across restarts and with two threads of one member; `OneThread` and `ShutdownMeansDead` fail only for members that were spawned while idle. `IdleEnds` |
| `teammates_claim` | 1 member, 1 thread | finding: an automatic claim may kill its claimer |
| `reasoning_loop` | 2 messages, 2 steps, 2 calls per response, one tool of each kind | `NothingIsStale`: budgets, unlocks, stop reasons and replies belong to their turn, whatever fails or restarts in between. `PublishedIsSaved`, `TurnEnds`, and `ReminderNotSkipped`: no step beyond the reminder's share of the budget in a session that was never reminded |
| `reasoning_loop_guard` | 1 message, 4 steps, 2 calls per response, the guard installed | `GuardStopsRepeats`: repeats are blocked, and the guard ends the turn |
| `model_context` | up to 6 messages, two lengths, budgets that each get exceeded | `SentIsUsable`: calls and results stay paired, also when groups are trimmed, and under the token limit the latest results are sent (`LatestResultsAreSeen`). `SentFitsInOrder`: what is sent is in order and fits |
| `model_pool` | 2 callers whose primaries are each other's fallbacks, 3 profiles, 3 calls, threshold 2, clock 0..2 | `OneVoice`: streams are not mixed. `WrongModelOnlyAfterSwitch`: when a profile is asked for another's model. `FailedMeansTried`. `DisabledForCause`: what unlocked records may do. `RoutesExpandInOrder`: routes of 24 environments, looked at in the initial state as they never change |
| `front_doors` | each door for itself; 2 messages or asks, 1 deletion, 2 HTTP threads, cache of 1 session, 1 death or restart (198 thousand states) | `EachMessageOneTurn`, `DeliveriesAreTrue` (replies and outbox), `AnswersHold` (own replies, and the session remembers them), `DeletedStaysDeleted`, `NothingLost` (storage), `LoginsAreSound`; `LocksAreFreed`, `OutboxSettles`, `StopReturns` |
| `workbench` | each part for itself; 2 of whatever competes in it, 1 or 2 failures or restarts (850 thousand states) | `FilesAreFaithful` (read cache, artifacts), `FanoutReturns`, `TaskReportIsTrue`, `CoordinationIsTold` (background results, verdicts, the ladder of clues), `MemoryIsKept`, `TracesAgree`, `KnowledgeIsHonest` (records, index, snippets), `TurnsArePrepared` (modes and tools, instructions); and of the pure functions, `ComputedAsRead` (pages, grading, chunks, best hits, sections, wire formats) |

Why the bounds are enough: in `TaskBoard` every hazard needs one task and two threads, and dependencies need a
second task; a third id adds nothing but a longer scan. `TeamInbox` needs two readers of one inbox, one message
before, one in and one after the window, and a fourth for the other inbox. `ReliableBus` needs two
notifying threads for one request, and a second request to tell responses apart. `Teammates` needs two threads
for one name and another member that competes for the task. In `ReasoningLoop` what survives a turn shows in the
next one, the limits are all reached within two steps, and the guard's window (4) is exceeded in its own run.
`ModelPool` needs
the threshold's failures and one call more, two threads that fail and succeed on one profile, and a clock
that passes the cool-down. In `ModelContext` six messages hold a finished
turn, a failed one and one in progress with a group of two calls; `Limit` is below and above what the groups need, since lengths of 10 and 400 are mixed.

In `FrontDoors` two messages of a chat give a reply that can be taken for the other's, a cache of one session is
evicted by the second one, three changes of two names nest a rename in an upload, and one death at any step is
followed by the start that has to cope with it. In `Workbench` two sessions, threads or processes compete in every part;
a second fan-out, turn or ingestion meets what the first has left, and one failure or restart may fall anywhere. The
pure functions (pages, grading, chunks, best hits, sections) are evaluated in the initial state of their part, over all
small inputs around their limits: up to 7 tokens for chunks of 4, lines of four lengths around a budget of 8.

Deadlock is not checked: all these systems may stop for good (the bounds are used up, nobody calls).

Fairness. `ReliableBus`: a thread inside `request` goes on, because `event.wait` has a time-out; nothing is assumed
of those who answer or read. `Teammates`: a polling thread only sleeps and goes on; nothing is assumed of a
reasoning cycle, which may take for ever. `ReasoningLoop`: `run_inbound` is one coroutine, and each await in it
(provider, tool, database) has a time-out or is local; a new message is never assumed. `ModelPool`: a provider's client has a time-out, and the
thread that called it goes on; no call and no tick of the clock is assumed. `FrontDoors`: an event loop runs
what is ready, and its awaits return; HTTP threads, users and operators need not act. `Workbench`: the thread that
started a fan-out runs, and time passes, so that `concurrent.futures.wait` ends; the subagents may never end.

## 5. Proofs

For all values of the constants that satisfy the modules' assumptions:

| Theorem | Argument |
|---|---|
| `TaskBoardProofs!TypeCorrect` | `TypeInv` adds to `TypeOK` that a method's locals are set while it needs them |
| `ClaimsAreSafe`, `CreatesAreFresh` (if only one agent creates) | `BoardInv`. `ClaimLostOnlyToOverlap` is not inductive, as it says nothing of the copies threads are about to save: `ClaimHeld` says that outside `overlap` they all name the claimer. `LockInv` admits one claim at a time. `CreateInv` (ids move forward, no other method touches the id being created) keeps a `create` away from claimed tasks; without a single creator this is false |
| `ReleasesDependents` (no further assumption) | `ReleaseInv`: during `_clear_dependency`, a task that still waits is yet to be visited, is being rewritten, or was written by another thread. `AbsentInv` is needed for files created meanwhile, `ReleasedInv` for the pending rewrite |
| `TeamProofs!InboxLosesOnlyInWindow`, `InboxForwardOnly`, `InboxDeliversNoStray` | `WindowInv` (what a pending read has not parsed was appended in its window), `YoungerInv` (a file only holds messages younger than those its readers were given), `OriginInv` |
| `ResponseIsThere`, `WakeupIsNotLost`, `NothingIsLeftBehind` | `EventInv` (where an event may be), `ResponseInv` (who takes an event has stored a response), `CorrInv` (a response is stored for the request it answers) |
| `Refinement` | each step of the bus is a step of `RequestReply` or a stutter, under the same invariant |
| `ModelProofs!TypeCorrect` | also says that a call only tries places of its route |
| `StreamsHaveOneVoice` | `SilentInv`: while a profile is asked, the call has shown nothing |
| `ModelFitsProfile` | `GivenInv`: a name that is not the primary's was given out while the primary was disabled |
| `FailureIsExhaustive` | `TriesInv`: what was tried and what is left to try is all that was available, or the whole route |
| `DisablingIsFounded` | `RecordsInv`: stored records, and those about to be stored, count no more failures than there were; only a success that overlaps with a failure breaks this |
| `ModelProofs!SentUsable` | That calls and results are paired needs of the session only that it is made of messages (`SessionInv`). A group of a call and its results is a run of places; the lemmas about `Chosen` say that a set of places keeps a run together if it holds all of it (`RunChosen`, `ChosenPairs`). `GroupKept` says that the sanitizer keeps a complete group whole and drops or replaces every other one, `GroupOfRun` that no user message, and so no border of a group of turns, is inside |
| `LatestResultsReachModel` (the rest of `SentUsable`), `ContextTypesCorrect` | `AnsweredInv`: in the active turn the calls of every response but the last one have all their results right behind them in order, and the last one's have as far as `open` says; when the model is asked again, all have. The property looks only at what is sent, and says nothing of results that are missing in the session. `Carried` follows the latest response with its results through `Compress`, `ReduceActive`, `CompactActive`, the parts around the active turn, and the sanitizer |
| `TeamProofs!TeamTypesCorrect`, `StatusTellsTruth` | `NamesInv` (a thread that runs a member left a status for it) keeps `status`, which any thread may write, tied to the threads that write it; `PollsInv` keeps the count of polls a natural number |
| `ReasoningLoopProofs!TypeCorrect` | `FlowInv`: while the loop works, run and session have no stop reason and the steps are within the limit |
| `TurnsAreSeparate` | `StaleInv`: the searches of the turn's log are no more than the session's counter (`SearchInv`), and the session unlocks only what this turn unlocked (`UnlockInv`). Both are about the session as it is *now*: `SearchesWithinBudget` and `UnlocksLastOneTurn` alone allow a counter or a set left over from an earlier turn, as after a failed save or a crash |
| `RepliesAreSaved` | `SavedInv` orders what was delivered, stored, and is in the session; between `save` and `publish` the last two are equal |
| `RemindedInTime` | inductive together with `TypeInv` |
| `RepeatsEnd` (if `Guarded`; false otherwise) | `DenialInv`: a result seen as often as the limit has left a denial, and a turn with a denial is not back at the model |
| `FrontDoorsProofs!LoginsSound` | `AccountsInv`: an account exists while a handler works for it or a token names it, and a name the environment configures was overwritten before anyone logs in. The lookup and the session that is issued are two steps |
| `UploadsAreKept` | `FilesInv`: every path leads to an inode and through a directory (`TreeIs`), an inode opened for writing is a file's and stays one, and a rename whose target exists knows that it came late (`WorkIs`). The lemmas about `Moved` say that a rename takes what is below a path to different places, so that only its target is replaced |
| `MessagesHandledOnce` | `PlaceInv`, `MessagesInv`: the batch is what was sent from the offset on, and each message before it had a turn, failed for a named reason, or is at hand. For Feishu: each event marked as seen has a turn, failed, or has a task |
| `DeliveriesTold` | `RepliesInv`: replies keep the order of their turns through queue, dispatcher and chat. `FlushInv`: a flush holds pending rows in order; `ArrivalsInv`: a pending row has not reached the chat unless in doubt, or its success is about to be recorded |
| `AnswersAreKept`, `DeletionsLast` | `ChatInv`. `LocksInv` and `StagesInv`: who holds a session's lock, and that only that one has a future; `QueueInv`: a reply that may still be handed out is of the ask its chat's future belongs to; `FreshInv`: an ask whose turn has not ended has left no trace; `StoredInv` relates the cached object, the one a turn works on and the two tables; `DeletedInv` says the same of what was removed, for every copy |
| `WorkbenchProofs!TaskReportsHold` | `CodingInv`: the lists of a task are filed as they grow (`ListsAreFiled`), what changed between its snapshots is its own or another's touch (`TouchesAreKnown`), session and artifacts follow from step to step (`FiledFor`), and a duplicate that is about to be written is noted before it is (`AppendsAreNoted`) |
| `MemoryKept` | `MemoryInv`: what a worker has read of rows and items is still so, unless another row replaced it (`JobsAreInformed`); every turn is in a file or with a worker that has not died (`TurnsArePlaced`) |
| `CoordinationTold` | `BackgroundInv`: the row of a command and the notices about it agree (`RowIs`, `NoticesAreOf`). `ProtocolInv`: `LivesAreNoted`, `MessagesAreOf`, and `ToldFollows`: at most one thread decides on a request, and until it has sent the verdict the asker may be told what was so before. `SubagentInv`: an answered clue is on the last rung, and no running task is, nor has its failures used up. That `RecordResults` moves every clue of a fan-out is the recursion `Recorded` over its results (`RecordedIs`, `StageTerminal`, `StageStays`) |
| `TracesTell` | `TraceInv`: each file follows the run from the step that writes it on (`FilesFollow`), and until the turn and the worker meet at the summary, whoever writes it holds what the other files say (`PayloadsAreCurrent`) |
| `FilesFaithful` | `FilesInv`: a session and its saved copy are `Informed`: no output they keep is older than the latest change they were told of, at any count of changes, so that an old copy that is loaded again is still informed. `ArtifactInv`: a call that stores has a content nobody else has (`StoringIs`, `ContentsDiffer`), so that a file at its path is logged, `dropped`, or the one a call is about to log; `ScopesMatch`: the time of a directory is that of its last use |
| `KnowledgeHonest` | `KnowledgeInv` says of each file what is so between the steps of an ingestion (`FileIs`): what the records and the running ingestion claim of it (`Claim`), what was listed, and the batches that are in (`AtFile`). `SearchInv`: each entry over the cache's size is owed by an asker of its own (`Owed`), which has added it and has yet to evict. That this is a set of debtors and no count makes it inductive: an entry that is replaced, moved or evicted by another thread ends at most one debt |
| `TurnsPrepared` | `AccessInv`: a chat is in the mode its user was told or in one set since (`KnownMode`), the turn's profile goes with it (`TurnIsOf`), and tasks, subagents and teammates were started by someone who may (`ForAnAdmin`). `CatalogTells` proves of every session and tool that the catalog and the executor agree. `FrameInv`: whoever is about to store a text, the cache and the file agree on the text of each mtime that is not shared (`Allows`) |

`TypeCorrect`, `ContextTypesCorrect`, `TeamTypesCorrect`, `ResponseIsThere`, `WakeupIsNotLost` and `InboxDeliversNoStray` are not among the runs' properties: the
others rest on them. In `FrontDoors` and `Workbench` each theorem is about one part: a step of the others leaves the part's
variables alone, which is the second case of its step, and so the proof is of the whole specification.

The assumptions, all of which TLC evaluates: limits and periods that the code divides by, counts down or compares to
a length are positive, as in its defaults and checks (`BoardAssumption`, `TeamAssumption`, `PoolAssumption`, `LoopAssumption`,
`ContextAssumption`, `OutboxAssumption`, `SessionsAssumption`); `LoopAssumption` also says that a tool is either direct or deferred, and that
the guard's window is no shorter than its limit, and `Guarded` stands for the hook being registered. `RecentLimit` is
positive as `memory/lifecycle.py` takes `max(1, recent_limit)`; `PathLimit` is the 80 of `trace/summary.py:591`;
`WebAssumption` keeps the identifiers of asks and deletions apart; `GatewayAssumption` names the kinds of messages;
`FilesAssumption` says that paths have one or two names; `SubagentAssumption` and `SearchAssumption` give limits, size and
lifetime of their types and say that there are finitely many askers, as threads are. No other bound of the runs (messages, restarts, workers,
requests, users) restricts the theorems.

Where a proof needs the least element of a set (the next id, the oldest entry), it comes from the well-foundedness of
the order on the naturals. Induction over them is had in the same way, with a set in the place of the predicate
(`Recursion!SetInduction`): the places of a sequence are counted so (`RankGrows`, `NthIs`), and from it follows that a
function defined by recursion over the naturals exists and is unique (`RecursionExists`, `RecursionIsUnique`), which
`Recorded` needs.

Only model-checked: liveness (`RequestReturns`, `IdleEnds`, `TurnEnds`, `LocksAreFreed`, `OutboxSettles`, `StopReturns`,
`FanoutReturns`), which is out of the prover's reach together with `ENABLED`; `SentFitsInOrder`, which depends on
how often `TrimText` shortens or drops a message, a recursion over the session's data that does not even end for every
`Limit` and `Note`; `RoutesExpandInOrder`, which compares folds over lists, and `ComputedAsRead`, the values of pure algorithms over bounded inputs (`PagesCover`,
`ResultsAreGraded`, `ChunksCover`, `BestHitsAnswer`, `SectionsFit`, `WiresAgree`): the library's theorems about folds
and its induction rules take operators as parameters, which the provers cannot instantiate.

## 6. Findings and observations

Findings with a run, each against a text of the repository (see `PROJECT.json`): a granted claim is overwritten by
an update (`ClaimSticks`); an automatic claim with a short session raises `TypeError` (`AutoClaimResumes`).

Seen while modelling, without a run of their own:

- Two agents that create tasks at once are given the same id (`task.py:36`); `CreatesFreshFile` fails in
  `TaskBoard.cfg` with `Creators = {lead, alice}`.
- A member whose thread ended with an error keeps the status `error`; `spawn` refuses it as "already active" for
  ever (`teammate.py:142`).
- `ToolLoopGuardHook` is commented out in `runtime/bootstrap.py:210`; `RepeatsAreBlocked` fails with `Guarded = FALSE`.
- The flag of the finishing reminder stays in the session's metadata, so that only the first long run of a session
  is reminded (`reasoning_loop.py:739`), where `docs/workplan/2026-06-19_PERFECTIONISM_LOOP_FINISHING_FIX_PLAN.md:68`
  wants every long run to be; `ReminderNotSkipped` states what does hold.
- When the primary of a route was disabled as a caller asked for a model name and is available again at the call,
  the primary is asked for the model of the fallback (`model_pool.py:354`). A caller that keeps the name from
  start-up asks so on every call.
- Nothing in the repository calls `get_model_healthcheck_results`, so the health checks of the pool never run.
- A request over the active turn's budget that has no tool call yet is itself summarised (`context_history.py:552`).
- When the first two groups exceed the limit, single messages are dropped and calls may lose their results
  (`token_estimator.py:137`), which is why `GroupTrimKeepsPairs` is about the other case.
- A crash of a teammate in its idle phase sends no error, which
  `docs/superpowers/specs/2026-06-15-agent-collaboration-plan.md:159` wants; the member keeps the status `idle`, and `ErrorIsHeard` is about the status `error`.
- Emergency trimming may drop the last group, the turn being answered (`token_estimator.py:59-60` says it is kept,
  lines 86-91 may drop it).

The ways in:

- `AppRuntime.stop` called before the dispatcher has run waits for ever: the dispatcher sets `_running` again
  (`user_bus.py:38-40`). It is so called when Feishu's port is taken (`feishu/adapter.py:90-95`, `156-165`).
- The web runtime remembers that its start failed and never tries again (`_start_error`).
- The turn of an HTTP request that gave up runs on, and is stored.
- Feishu marks an event as seen before it is handled: a stop in between loses the message. A Telegram handler that
  raises, or is interrupted, drops its message.
- An error of the database in Feishu's flush ends its worker.
- Uploads are not atomic, and a rename may replace what appeared after its check (`web/server.py:1703`).
- `cleanup_expired_sessions` has no caller.

What a turn works with:

- The read cache answers "unchanged" although a shell command, another session or a write that failed half way has
  changed the file (`handlers.py:1059`); `OwnChangesAreSeen` is about the session's own successful changes.
- An artifact may be replaced by an overlapping call, and may be in place though its tool answered with an error. A
  maximal age of 0 or less turns the cleanup of sandboxes off.
- The fan-out budget is said to be "for this run", but is never reset (`orchestration_state.py:68`). A fan-out
  that has one clue twice may move its ladder back up. Tasks beyond eight are dropped without a word. Subagents that
  timed out go on while their retry runs. A subagent that says its clue is infeasible, which its hint says not to
  retry, is one rung down like any other failure. A tool error that the subagent got over still makes its result a failure.
- A pipeline that raises leaves its coding task "running", with its session unsaved; what was learnt is promoted before
  any session is saved.
- A verdict whose message fails is recorded but not told; two that overlap may be delivered in the other order.
  After a restart the tracker is empty while inbox files remain: the answer is "No such request". Any sender may
  answer a request id.
- A background result goes to whichever coding turn drains first, and only to one of its steps; `check` of the whole
  table raises if a command is started meanwhile. Drained events beyond the section's budget are never shown.
- `source_ref` (`session.id` and the number of messages) repeats after a compaction, so that the archive ignores the
  later turn. Recent turns are cut before they are archived. Two processes that rewrite the recent turns lose each
  other's; two that append one item to `MEMORY.md` append it twice. A candidate that was promoted can be opened again
  by a row that was read before. Ids of candidates can collide across processes.
- "memory.lifecycle.scheduled" may follow "completed" in a log; a completed run with one failed tool is classified as
  a tool error; a run that failed as it was saved keeps "complete" in its path; the turn and the worker may both be
  writing `trace_summary.json`.
- `--recreate` with `--incremental`, or another `--collection` with the same state file, leaves an empty collection
  that the state file calls indexed. `--limit-files` deletes the listed files beyond the limit. A state file cut inside
  a character raises on every later run. What a run that broke off has indexed stays after its file is removed.
- A cache of hits in another process is stale up to its time. When another thread evicts the entry that is moved to
  the end, the search is reported as failed and counts as the turn's one automatic search. Reranked hits may score
  below `min_score`. Headings inside code fences count as headings. A rule whose text before the patterns is as long as its
  first chunk of patterns has two chunks with one id.
- A message that was sent before a revocation runs with its old role, and teammates work on after it. An instruction file
  that changes several times within one tick of its mtime may stay cached in its old form.
- The result of a tool call without a name is sent to the responses API without its call (`provider.py:209-247`). On the
  chat wire the session keeps malformed argument text where `{}` was executed. A service that repeats a call's id in
  every delta has it doubled. Arguments that are valid JSON but no object are passed on as they are.

## 7. Not modelled

- `evaluation/`: scripts that drive the program from outside, one case after the other.
- The model services themselves, embeddings, the vector database, decryption and tokens of the chat APIs: calls
  of services, whose outcomes (an answer, an exception, a time-out) are the models' inputs.
- The wording of prompts, catalogs, reports and pages, and the patterns by which texts are recognised: the models take
  what is recognised as input.
- The pages of the web server that only read, and `analyze`.
- `legacy/`, examples, skills and data.
