------------------------------- MODULE Access -------------------------------
(* Which mode a message runs in and which tools its session may use:         *)
(* runtime/routing (intent, plan, router), the registries and the policy of  *)
(* tools/, and the sessions a turn starts: the task session of a coding      *)
(* turn, its subagents, and teammates.  One user with one chat; the account  *)
(* may be promoted or revoked at any time, a message carries the role the    *)
(* account had when it was sent, and the process may be restarted.           *)
EXTENDS Naturals, FiniteSets

CONSTANT ChatMessages   \* bound on the messages sent

VARIABLES
    sent,     \* the number of messages sent
    account,  \* the account's role, "none" for the console, whose messages carry none
    post,     \* the message that waits, with its role
    live,     \* the chat's session in memory
    storedChat, \* and in the store
    turn,     \* the running turn
    task, sub, mate,  \* the sessions that coding turns started
    announced, \* history: the mode the user was last told
    loose     \* history: modes that were set since without the user being told

accessVars == <<sent, account, post, live, storedChat, turn, task, sub, mate, announced, loose>>

---------------------------------------------------------------------------
\* Tools of every kind: the modes they are enabled in, which are shown without being
\* unlocked, and where they are registered.  server_admin stands for a plugin's tool
\* for admins only.
EnabledModes == [
    bash |-> {"coding", "teammate"}, git_add |-> {"coding", "teammate"},
    task |-> {"coding"}, spawn_teammate |-> {"coding"}, idle |-> {"teammate"},
    load_skill |-> {"bot", "coding", "teammate"}, publish_artifact |-> {"bot", "coding"},
    recall_memory |-> {"bot", "coding", "teammate"}, tool_search |-> {"bot", "coding", "teammate"},
    web_search |-> {"bot", "coding"}, security_rag_search |-> {"bot", "coding"}, server_admin |-> {"bot"}]

ToolNames == DOMAIN EnabledModes
LeadRegistry == ToolNames
TeammateRegistry == {"bash", "git_add", "load_skill", "idle", "tool_search"}
Whitelist == [explore |-> {"bash", "security_rag_search", "tool_search"},
              code |-> {"bash", "git_add", "load_skill", "recall_memory", "security_rag_search", "tool_search"}]

AlwaysOn == {"recall_memory", "tool_search", "web_search", "server_admin"}
Preloaded == [bot |-> {"load_skill", "publish_artifact"},
              coding |-> {"bash", "load_skill", "task"},
              teammate |-> {"load_skill", "idle"}]

IsAdmin(session) == session.role \in {"admin", "none"}

\* ToolSpec.enabled_for
EnabledFor(tool, session) ==
    /\ session.mode \in EnabledModes[tool]
    /\ tool = "server_admin" => IsAdmin(session)

Allowed(session) == {tool \in session.tools : EnabledFor(tool, session)}

\* ToolPolicy.visible_tools
Visible(session) == (AlwaysOn \union Preloaded[session.mode] \union session.unlocked) \intersect Allowed(session)

\* ToolPolicy.can_execute, and tool_search, which no policy stops.
Executes(session, tool) == tool = "tool_search" \/ tool \in Visible(session)

\* tool_search select:<tool>
Selected(session, tool) ==
    IF tool \in Allowed(session) THEN [session EXCEPT !.unlocked = @ \union {tool}] ELSE session

\* tool_search's answers: the catalog has what is visible and what can be unlocked,
\* a search finds the latter, and help is given on both.
Catalog(session) == [direct |-> Visible(session), deferred |-> Allowed(session) \ Visible(session)]
Helps(session, tool) == tool \in Allowed(session)

---------------------------------------------------------------------------
\* A message is a command, or text that looks like some things and not like others.
Looks == {"strong", "storage", "memory", "weak"}
Switches == {"coding", "bot", "hybrid"}

\* IntentClassifier.classify
Intent(command, looks) ==
    CASE command \in Switches -> "mode_switch"
      [] "strong" \in looks -> "coding"
      [] "storage" \in looks -> "storage_file"
      [] "memory" \in looks -> "memory_query"
      [] "weak" \in looks -> "coding"
      [] OTHER -> "none"

\* What a message can come to.
Requests == [command : Switches, intent : {"mode_switch"}]
            \union [command : {"none"}, intent : {Intent("none", looks) : looks \in SUBSET Looks}]

Route(mode, profile, execution) == [mode |-> mode, profile |-> profile, execution |-> execution]

\* Mutant of PlanFor: a pinned session is trusted.
PlanForPinned(command, intent, mode, admin) ==
    IF command = "coding" THEN LET to == IF admin THEN "coding" ELSE "bot" IN Route(to, to, "direct_reply")
    ELSE IF command \in Switches THEN Route(command, "bot", "direct_reply")
    ELSE IF mode = "coding" THEN Route("coding", "coding", "task_session")
    ELSE IF mode = "bot" \/ intent # "coding" \/ ~admin THEN Route(mode, "bot", "pipeline_bot")
    ELSE Route(mode, "bot", "unmatched")

\* ExecutionPlanner.plan: commands set the mode, a pinned session keeps it unless it
\* is no admin's any more; in a hybrid one an admin's coding request is left open.
PlanFor(command, intent, mode, admin) ==
    IF command = "coding" THEN LET to == IF admin THEN "coding" ELSE "bot" IN Route(to, to, "direct_reply")
    ELSE IF command \in Switches THEN Route(command, "bot", "direct_reply")
    ELSE IF mode = "coding" /\ admin THEN Route("coding", "coding", "task_session")
    ELSE IF mode = "coding" THEN Route("bot", "bot", "pipeline_bot")
    ELSE IF mode = "bot" \/ intent # "coding" \/ ~admin THEN Route(mode, "bot", "pipeline_bot")
    ELSE Route(mode, "bot", "unmatched")

\* ModeRouter.route asks the classifier about what was left open.
RouteFor(request, session, verdict) ==
    LET plan == PlanFor(request.command, request.intent, session.mode, IsAdmin(session))
    IN IF plan.execution # "unmatched" THEN plan
       ELSE IF verdict = "coding" THEN Route(plan.mode, "coding", "task_session")
       ELSE Route(plan.mode, "bot", "pipeline_bot")

\* HybridModeClassifier: what raises, or is not JSON with a mode, is no "coding".
Verdicts == {"coding", "bot", "raised", "unreadable"}

\* Where the next message of a session may go.
Routes(session) == {RouteFor(request, session, verdict) : request \in Requests, verdict \in Verdicts}

---------------------------------------------------------------------------
\* A session, or none (no tools): its mode (of a chat the one it is pinned to), the
\* role it holds, what it may use and has unlocked, and (history) the role that the
\* turn which started it ran for.
Absent == [mode |-> "bot", role |-> "none", tools |-> {}, unlocked |-> {}, by |-> "none"]
NewChat == [Absent EXCEPT !.mode = "hybrid", !.tools = LeadRegistry]
Exists(session) == session.tools # {}

AccessInit ==
    /\ sent = 0 /\ account \in {"none", "admin", "user"}
    /\ post = {} /\ live = Absent /\ storedChat = NewChat
    /\ turn = [pc |-> "idle", profile |-> "bot", tells |-> "nothing"]
    /\ task = Absent /\ sub = Absent /\ mate = Absent
    /\ announced = "hybrid" /\ loose = {}

TurnAt(pc) == turn.pc = pc

ChangeRole ==
    /\ account # "none"
    /\ account' \in {"admin", "user"} \ {account}
    /\ UNCHANGED <<sent, post, live, storedChat, turn, task, sub, mate, announced, loose>>

SendMessage ==
    /\ post = {} /\ sent < ChatMessages
    /\ post' = {account} /\ sent' = sent + 1
    /\ UNCHANGED <<account, live, storedChat, turn, task, sub, mate, announced, loose>>

\* get_or_create, and _apply_inbound_identity: the role a message carries is taken.
Receive(role) ==
    /\ TurnAt("idle") /\ role \in post
    /\ post' = {}
    /\ LET session == IF Exists(live) THEN live ELSE storedChat
           held == IF role = "none" THEN session.role ELSE role
       IN live' = [session EXCEPT !.role = held, !.by = held]
    /\ turn' = [turn EXCEPT !.pc = "route", !.profile = "bot", !.tells = "nothing"]
    /\ UNCHANGED <<sent, account, storedChat, task, sub, mate, announced, loose>>

\* before_turn of a plugin may answer by itself.
PluginAnswers ==
    /\ TurnAt("route")
    /\ turn' = [turn EXCEPT !.pc = "save"]
    /\ UNCHANGED <<sent, account, post, live, storedChat, task, sub, mate, announced, loose>>

\* TaskSessionFactory.create, with the role of the parent session.
TaskSession(parent) ==
    [NewChat EXCEPT !.mode = "coding", !.by = parent.by,
                    !.role = IF parent.role = "none" THEN "admin" ELSE parent.role]

\* _route, _handle_switch and the start of _execute: a switch is only answered; a
\* chat turn begins with nothing unlocked (_before_turn), a coding turn in a task
\* session of its own.
RouteTurn(route) ==
    LET switched == route.execution = "direct_reply"
        coding == ~switched /\ route.profile = "coding"
    IN /\ TurnAt("route")
       /\ live' = [live EXCEPT !.mode = IF switched \/ ~coding THEN route.mode ELSE @,
                               !.unlocked = IF switched \/ coding THEN @ ELSE {}]
       /\ task' = IF coding THEN TaskSession(live) ELSE Absent
       /\ turn' = [pc |-> IF switched THEN "save" ELSE "work", profile |-> route.profile,
                   tells |-> IF switched THEN route.mode ELSE "nothing"]
       /\ loose' = IF route.mode # live.mode THEN loose \union {route.mode} ELSE loose
       /\ UNCHANGED <<sent, account, post, storedChat, sub, mate, announced>>

\* The sessions whose model may call tools now.  The chat itself works with the
\* tool mode of the turn's profile.
ChatWorks == TurnAt("work") /\ ~Exists(task)
TaskWorks == TurnAt("work") /\ Exists(task) /\ ~Exists(sub)
Chat == [live EXCEPT !.mode = turn.profile]
AtWork == (IF ChatWorks THEN {Chat} ELSE {}) \union (IF TaskWorks THEN {task} ELSE {})
          \union {session \in {sub, mate} : Exists(session)}

\* tool_search select; selecting what is visible or not allowed changes nothing.
Unlock ==
    /\ \/ \E tool \in Catalog(Chat).deferred :
             ChatWorks /\ live' = [live EXCEPT !.unlocked = Selected(Chat, tool).unlocked] /\ UNCHANGED <<task, sub, mate>>
       \/ \E tool \in Catalog(task).deferred : TaskWorks /\ task' = Selected(task, tool) /\ UNCHANGED <<live, sub, mate>>
       \/ \E tool \in Catalog(sub).deferred : sub' = Selected(sub, tool) /\ UNCHANGED <<live, task, mate>>
       \/ \E tool \in Catalog(mate).deferred : mate' = Selected(mate, tool) /\ UNCHANGED <<live, task, sub>>
    /\ UNCHANGED <<sent, account, post, storedChat, turn, announced, loose>>

\* Mutant of StartSubagent: it is given the registry of its parent.
StartSubagentAll(type) ==
    /\ TaskWorks /\ Executes(task, "task")
    /\ sub' = [NewChat EXCEPT !.mode = "coding", !.role = task.role, !.by = task.by]
    /\ UNCHANGED <<sent, account, post, live, storedChat, turn, task, mate, announced, loose>>

\* A call of task: _filtered_tools and _new_session.
StartSubagent(type) ==
    /\ TaskWorks /\ Executes(task, "task")
    /\ sub' = [mode |-> "coding", role |-> task.role, tools |-> LeadRegistry \intersect Whitelist[type],
               unlocked |-> {}, by |-> task.by]
    /\ UNCHANGED <<sent, account, post, live, storedChat, turn, task, mate, announced, loose>>

EndSubagent ==
    /\ Exists(sub) /\ sub' = Absent
    /\ UNCHANGED <<sent, account, post, live, storedChat, turn, task, mate, announced, loose>>

\* A call of spawn_teammate: the teammate works on after the turn, for nobody.
SpawnMate ==
    /\ TaskWorks /\ Executes(task, "spawn_teammate") /\ ~Exists(mate)
    /\ mate' = [mode |-> "teammate", role |-> "admin", tools |-> TeammateRegistry, unlocked |-> {}, by |-> task.by]
    /\ UNCHANGED <<sent, account, post, live, storedChat, turn, task, sub, announced, loose>>

\* Each cycle of a teammate begins with nothing unlocked; at last it is done.
CycleMate ==
    /\ Exists(mate)
    /\ mate' \in {[mate EXCEPT !.unlocked = {}], Absent}
    /\ UNCHANGED <<sent, account, post, live, storedChat, turn, task, sub, announced, loose>>

EndWork ==
    /\ TurnAt("work") /\ ~Exists(sub)
    /\ task' = Absent /\ turn' = [turn EXCEPT !.pc = "save"]
    /\ UNCHANGED <<sent, account, post, live, storedChat, sub, mate, announced, loose>>

\* An exception on the way, or in the save, ends the turn: the session stays in
\* memory as it is and is not stored.
TurnRaises ==
    /\ ~TurnAt("idle")
    /\ task' = Absent /\ sub' = Absent /\ turn' = [turn EXCEPT !.pc = "idle"]
    /\ UNCHANGED <<sent, account, post, live, storedChat, mate, announced, loose>>

\* The session is saved before the reply is published.
SaveAndReply ==
    /\ TurnAt("save")
    /\ storedChat' = [live EXCEPT !.by = "none"] /\ turn' = [turn EXCEPT !.pc = "idle"]
    /\ IF turn.tells = "nothing" THEN UNCHANGED <<announced, loose>>
       ELSE announced' = turn.tells /\ loose' = {}
    /\ UNCHANGED <<sent, account, post, live, task, sub, mate>>

\* Between turns the cache may drop the session; a restart takes all but the store.
DropSession ==
    /\ TurnAt("idle") /\ Exists(live) /\ live' = Absent
    /\ UNCHANGED <<sent, account, post, storedChat, turn, task, sub, mate, announced, loose>>

RestartProcess ==
    /\ post' = {} /\ live' = Absent /\ turn' = [turn EXCEPT !.pc = "idle"]
    /\ task' = Absent /\ sub' = Absent /\ mate' = Absent
    /\ UNCHANGED <<sent, account, storedChat, announced, loose>>

AccessNext ==
    \/ ChangeRole \/ SendMessage \/ PluginAnswers \/ Unlock \/ EndSubagent \/ SpawnMate \/ CycleMate
    \/ EndWork \/ TurnRaises \/ SaveAndReply \/ DropSession \/ RestartProcess
    \/ \E role \in post : Receive(role)
    \/ \E route \in Routes(live) : RouteTurn(route)
    \/ \E type \in DOMAIN Whitelist : StartSubagent(type)

---------------------------------------------------------------------------
\* The catalog tells the truth in every session that works, whatever was unlocked
\* under an earlier role: what it shows runs, what it defers runs once selected and
\* not before, and selecting anything else is of no use.  A subagent cannot get at
\* more than its whitelist (tools/tool_registry.py:134).
CatalogIsTrue ==
    /\ \A session \in AtWork :
          LET catalog == Catalog(session)
          IN \A tool \in ToolNames :
                LET selected == Selected(session, tool)
                IN CASE tool \in catalog.direct -> Executes(session, tool) /\ Helps(session, tool)
                     [] tool \in catalog.deferred -> ~Executes(session, tool) /\ Executes(selected, tool)
                     [] OTHER -> tool = "tool_search" \/ ~Executes(selected, tool)
    /\ Exists(sub) => {tool \in ToolNames : Executes(Selected(sub, tool), tool)}
                          \in {Whitelist[type] : type \in DOMAIN Whitelist}

\* Every session that works in coding or teammate mode goes back to a turn that ran
\* for an admin, although sessions stay pinned and stored in coding mode while the
\* account is revoked (runtime/routing/execution_plan.py:70).
CodingIsForAdmins == \A session \in AtWork : session.mode \in {"coding", "teammate"} => session.by # "user"

\* A turn runs in the mode the user was last told, whatever was stored, dropped,
\* restarted or failed meanwhile, unless a mode was set since and they were not told:
\* by a command whose answer did not come, or by a revocation (runtime/agent_loop.py:189).
TurnsRunAsTold ==
    TurnAt("work") =>
        /\ live.mode \in {announced} \union loose
        /\ announced = "bot" /\ loose = {} => turn.profile = "bot"
        /\ announced = "coding" /\ loose = {} /\ IsAdmin(live) => turn.profile = "coding"

\* The three together: who runs what.
AccessHolds == CatalogIsTrue /\ CodingIsForAdmins /\ TurnsRunAsTold
=============================================================================
