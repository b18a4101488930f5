----------------------------- MODULE Workbench ------------------------------
(* What a turn of the agent works with: files and artifacts, subagents,       *)
(* coding tasks, background commands, requests to teammates, memory, traces,  *)
(* the knowledge base, modes and tools, and the sections of a context.  The   *)
(* parts share no state but what each module has of its own, and are looked   *)
(* at one at a time.                                                          *)
EXTENDS Workspace, Artifacts, Subagents, CodingTasks, BackgroundTasks, Protocols, Memory, Traces,
        Knowledge, KnowledgeSearch, Chunking, Access, ContextFrame, WireFormats

VARIABLE part

toolVars == <<filesVars, artifactVars, subagentVars>>
turnVars == <<codingVars, backgroundVars, protocolVars>>
recordVars == <<memoryVars, traceVars>>
contextVars == <<knowledgeVars, searchVars, accessVars, frameVars>>
workVars == <<toolVars, turnVars, recordVars, contextVars>>

Init == /\ part \in {"files", "artifacts", "subagents", "tasks", "commands", "protocols", "memory", "traces",
                     "knowledge", "search", "access", "frame"}
        /\ WorkspaceInit /\ ArtifactsInit /\ SubagentsInit /\ CodingInit
        /\ BackgroundInit /\ ProtocolsInit /\ MemoryInit /\ TracesInit
        /\ KnowledgeInit /\ SearchInit /\ AccessInit /\ FrameInit
        /\ part # "access" => account = "none"

ToolsNext ==
    /\ part \in {"files", "artifacts", "subagents"}
    /\ UNCHANGED <<turnVars, recordVars, contextVars>>
    /\ \/ part = "files" /\ WorkspaceNext /\ UNCHANGED <<artifactVars, subagentVars>>
       \/ part = "artifacts" /\ ArtifactsNext /\ UNCHANGED <<filesVars, subagentVars>>
       \/ part = "subagents" /\ SubagentsNext /\ UNCHANGED <<filesVars, artifactVars>>

TurnsNext ==
    /\ part \in {"tasks", "commands", "protocols"}
    /\ UNCHANGED <<toolVars, recordVars, contextVars>>
    /\ \/ part = "tasks" /\ CodingNext /\ UNCHANGED <<backgroundVars, protocolVars>>
       \/ part = "commands" /\ BackgroundNext /\ UNCHANGED <<codingVars, protocolVars>>
       \/ part = "protocols" /\ ProtocolsNext /\ UNCHANGED <<codingVars, backgroundVars>>

RecordsNext ==
    /\ part \in {"memory", "traces"}
    /\ UNCHANGED <<toolVars, turnVars, contextVars>>
    /\ \/ part = "memory" /\ MemoryNext /\ UNCHANGED traceVars
       \/ part = "traces" /\ TracesNext /\ UNCHANGED memoryVars

ContextNext ==
    /\ part \in {"knowledge", "search", "access", "frame"}
    /\ UNCHANGED <<toolVars, turnVars, recordVars>>
    /\ \/ part = "knowledge" /\ KnowledgeNext /\ UNCHANGED <<searchVars, accessVars, frameVars>>
       \/ part = "search" /\ SearchNext /\ UNCHANGED <<knowledgeVars, accessVars, frameVars>>
       \/ part = "access" /\ AccessNext /\ UNCHANGED <<knowledgeVars, searchVars, frameVars>>
       \/ part = "frame" /\ FrameNext /\ UNCHANGED <<knowledgeVars, searchVars, accessVars>>

Next == UNCHANGED part /\ (ToolsNext \/ TurnsNext \/ RecordsNext \/ ContextNext)

\* The parent of a fan-out is a running thread; nothing else has to act.
Fairness == WF_subagentVars(part = "subagents" /\ ParentStep)

Spec == Init /\ [][Next]_<<workVars, part>> /\ Fairness

---------------------------------------------------------------------------
\* No session is shown a file as it was before its own latest change to it
\* (tools/handlers.py); and every file a turn leaves for its user is accounted for,
\* and none is lost without a reason (tools/artifacts).
FilesAreFaithful == OwnChangesAreSeen /\ ArtifactsAreAccounted

\* What was started is told truly: the results of background commands to a coding
\* turn (coding_runtime/background_task.py), the verdicts on requests to the one who
\* asked (coding_runtime/protocols.py), and which clues are answered or given up to
\* the parent of a fan-out, which does not get them run again (agents/subagent).
CoordinationIsTold == ResultsAreReported /\ VerdictsAreTold /\ LadderHolds

\* What the knowledge base is said to hold it holds, from the file to its chunks, the
\* index and the snippets of a turn (knowledge/).
KnowledgeIsHonest == RecordsAreHonest /\ IndexFollowsFiles /\ SnippetsAreFresh

\* A turn runs in its mode, with the tools its catalog names and for whom it may
\* (runtime/routing, tools/policy.py), and on instructions that are current
\* (runtime/context.py).
TurnsArePrepared == AccessHolds /\ InstructionsAreCurrent

\* What is computed from what was read is right for every small input: the pages of
\* a long output lead through all its lines (tools/handlers.py), a subagent's result
\* is graded for what it is (agents/subagent), chunks and hits of the knowledge base
\* leave nothing out (knowledge/), sections fit their budgets and say what they cut
\* (runtime/context_budget.py), and a conversation reads the same on every wire
\* (models/provider.py).
ComputedAsRead ==
    /\ part = "files" /\ WorkspaceInit => \A n \in 0..4 : \A lines \in [1..n -> {0, 2, 5, 9}] : PagesCover(lines)
    /\ part = "subagents" /\ SubagentsInit => ResultsAreGraded
    /\ part = "search" /\ SearchInit => ChunksCover /\ BestHitsAnswer
    /\ part = "frame" /\ FrameInit => SectionsFit /\ WiresAgree
=============================================================================
