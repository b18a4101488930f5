----------------------------- MODULE Teammates -----------------------------
(***************************************************************************)
(* The life of persistent teammates: TeammateManager of                    *)
(* coding_runtime/teammate.py, with the claims of coding_runtime/task.py.  *)
(*                                                                         *)
(* spawn starts a thread that alternates between a reasoning cycle and an  *)
(* idle phase of Polls polls; each poll reads the member's inbox, then the *)
(* task board.  Only the reasoning cycle runs inside a try block.          *)
(*                                                                         *)
(* Here a cycle is one step that may end in every way run_turn can end     *)
(* (module ReasoningLoop looks inside), a claim is atomic (TaskBoard looks *)
(* inside), and an inbox is empty or not (TeamInbox looks inside).         *)
(***************************************************************************)
EXTENDS Integers

CONSTANTS
    Members,   \* names the lead may spawn
    Threads,   \* thread objects; each is started at most once
    Tasks,     \* tasks of the board
    Polls,     \* idle_timeout // poll_interval
    NoOne      \* owner of an unclaimed task, name of a thread not started

ASSUME TeamAssumption ==
    /\ Polls \in Nat \ {0}
    /\ NoOne \notin Members

VARIABLES
    status,   \* status[m]: the member's status in config.json, "none" before
    name,     \* name[k]: the member that thread k runs, or NoOne
    place,    \* place[k]: where thread k is in _run_member
    polls,    \* polls[k]: polls left in this idle phase
    short,    \* short[k]: k's session still has at most 3 messages
    found,    \* found[k]: the task scan_unclaimed_tasks gave k
    mail,     \* members with unread messages
    onBoard,  \* tasks whose file exists
    owner,    \* owner[t]: who claimed task t
    lead,     \* members whose ERROR message was sent to the lead
    over      \* history: members that were spawned while their status was idle

teamVars == <<status, name, place, polls, short, found, mail, onBoard, owner, lead, over>>

-----------------------------------------------------------------------------
Statuses == {"none", "working", "idle", "shutdown", "error"}

PCs == {"new", "start", "cycle", "poll", "scan", "claim", "dead"}

Live(k) == place[k] \notin {"new", "dead"}

Unclaimed == {t \in onBoard : owner[t] = NoOne}

TeamInit ==
    /\ status \in [Members -> {"none", "idle", "shutdown"}]
    /\ name = [k \in Threads |-> NoOne]
    /\ place = [k \in Threads |-> "new"]
    /\ polls = [k \in Threads |-> 0]
    /\ short = [k \in Threads |-> TRUE]
    /\ found \in [Threads -> Tasks]
    /\ \A j, k \in Threads : found[j] = found[k]
    /\ mail = {}
    /\ onBoard = {}
    /\ owner = [t \in Tasks |-> NoOne]
    /\ lead = {}
    /\ over = {}

InCycle(k) == place[k] \in {"start", "cycle"}

GoesTo(k, l) == place' = [place EXCEPT ![k] = l]

SetStatus(m, s) == status' = [status EXCEPT ![m] = s]

-----------------------------------------------------------------------------
\* Mutant of Spawn: the member's status is not looked at.
SpawnAlways(k, m) ==
    /\ place[k] = "new"
    /\ SetStatus(m, "working")
    /\ name' = [name EXCEPT ![k] = m]
    /\ GoesTo(k, "start")
    /\ UNCHANGED <<polls, short, found, mail, onBoard, owner, lead, over>>

\* spawn: refused with "already active" unless the member is new, idle or
\* shut down.
Spawn(k, m) ==
    /\ place[k] = "new"
    /\ status[m] \in {"none", "idle", "shutdown"}
    /\ SetStatus(m, "working")
    /\ name' = [name EXCEPT ![k] = m]
    /\ GoesTo(k, "start")
    /\ over' = IF status[m] = "idle" THEN over \cup {m} ELSE over
    /\ UNCHANGED <<polls, short, found, mail, onBoard, owner, lead>>

\* The lead writes to a member, or puts a task on the board.
Mail(m) ==
    /\ mail' = mail \cup {m}
    /\ UNCHANGED <<status, name, place, polls, short, found, onBoard, owner, lead, over>>

CreateTask(t) ==
    /\ t \notin onBoard
    /\ onBoard' = onBoard \cup {t}
    /\ UNCHANGED <<status, name, place, polls, short, found, mail, owner, lead, over>>

-----------------------------------------------------------------------------
\* Every model call of a cycle first builds the context, which reads the inbox
\* into the session.
Build(k) ==
    /\ InCycle(k)
    /\ mail' = mail \ {name[k]}
    /\ short' = [short EXCEPT ![k] = @ /\ place[k] = "start" /\ name[k] \notin mail]
    /\ GoesTo(k, "cycle")
    /\ UNCHANGED <<status, name, polls, found, onBoard, owner, lead, over>>

\* The model may call claim_task ...
CycleClaim(k, t) ==
    /\ place[k] = "cycle"
    /\ t \in Unclaimed
    /\ owner' = [owner EXCEPT ![t] = name[k]]
    /\ UNCHANGED <<status, name, place, polls, short, found, mail, onBoard, lead, over>>

\* ... and the cycle ends: the idle tool, a plain answer or a spent budget.
\* After one model call with one tool call, or none, the session holds at most
\* the prompt, the answer and a tool result.
CycleIdle(k) ==
    /\ place[k] = "cycle"
    /\ SetStatus(name[k], "idle")
    /\ polls' = [polls EXCEPT ![k] = Polls]
    /\ \E s \in {short[k], FALSE} : short' = [short EXCEPT ![k] = s]
    /\ GoesTo(k, "poll")
    /\ UNCHANGED <<name, found, mail, onBoard, owner, lead, over>>

\* An approved shutdown_response ends the thread.
CycleShutdown(k) ==
    /\ place[k] = "cycle"
    /\ SetStatus(name[k], "shutdown")
    /\ GoesTo(k, "dead")
    /\ UNCHANGED <<name, polls, short, found, mail, onBoard, owner, lead, over>>

\* An exception in the cycle is caught: the lead gets an ERROR message.
CycleError(k) ==
    /\ InCycle(k)
    /\ SetStatus(name[k], "error")
    /\ lead' = lead \cup {name[k]}
    /\ GoesTo(k, "dead")
    /\ UNCHANGED <<name, polls, short, found, mail, onBoard, owner, over>>

-----------------------------------------------------------------------------
\* One poll: messages start the next cycle ...
PollMail(k) ==
    /\ place[k] = "poll"
    /\ polls[k] > 0
    /\ name[k] \in mail
    /\ mail' = mail \ {name[k]}
    /\ short' = [short EXCEPT ![k] = FALSE]
    /\ SetStatus(name[k], "working")
    /\ GoesTo(k, "start")
    /\ UNCHANGED <<name, polls, found, onBoard, owner, lead, over>>

\* ... an empty inbox leads on to the board ...
PollEmpty(k) ==
    /\ place[k] = "poll"
    /\ polls[k] > 0
    /\ name[k] \notin mail
    /\ GoesTo(k, "scan")
    /\ UNCHANGED <<status, name, polls, short, found, mail, onBoard, owner, lead, over>>

\* Mutant of ScanNothing: the polls are not counted.
ScanUncounted(k) ==
    /\ place[k] = "scan"
    /\ Unclaimed = {}
    /\ GoesTo(k, "poll")
    /\ UNCHANGED <<status, name, polls, short, found, mail, onBoard, owner, lead, over>>

\* ... where scan_unclaimed_tasks finds nothing, or some first task ...
ScanNothing(k) ==
    /\ place[k] = "scan"
    /\ Unclaimed = {}
    /\ polls' = [polls EXCEPT ![k] = @ - 1]
    /\ GoesTo(k, "poll")
    /\ UNCHANGED <<status, name, short, found, mail, onBoard, owner, lead, over>>

ScanFound(k, t) ==
    /\ place[k] = "scan"
    /\ t \in Unclaimed
    /\ found' = [found EXCEPT ![k] = t]
    /\ GoesTo(k, "claim")
    /\ UNCHANGED <<status, name, polls, short, mail, onBoard, owner, lead, over>>

\* ... or raises on a file that another thread is just writing (the lead's
\* task tools are always there to do so).  No try block is around the poll:
\* the thread ends without a word, its status stays "idle".
BoardRaise(k) ==
    /\ place[k] \in {"scan", "claim"}
    /\ onBoard # {}
    /\ GoesTo(k, "dead")
    /\ UNCHANGED <<status, name, polls, short, found, mail, onBoard, owner, lead, over>>

\* claim_task: someone else was faster; the next poll goes on ...
ClaimRefused(k) ==
    /\ place[k] = "claim"
    /\ found[k] \notin Unclaimed
    /\ polls' = [polls EXCEPT ![k] = @ - 1]
    /\ GoesTo(k, "poll")
    /\ UNCHANGED <<status, name, short, found, mail, onBoard, owner, lead, over>>

\* ... or the task is k's and the next cycle starts ...
ClaimGranted(k) ==
    /\ place[k] = "claim"
    /\ found[k] \in Unclaimed
    /\ ~short[k]
    /\ owner' = [owner EXCEPT ![found[k]] = name[k]]
    /\ SetStatus(name[k], "working")
    /\ GoesTo(k, "start")
    /\ UNCHANGED <<name, polls, short, found, mail, onBoard, lead, over>>

\* ... except that a short session is first given an identity block, and that
\* call raises: make_identity_block has no self parameter.
ClaimRaise(k) ==
    /\ place[k] = "claim"
    /\ found[k] \in Unclaimed
    /\ short[k]
    /\ owner' = [owner EXCEPT ![found[k]] = name[k]]
    /\ GoesTo(k, "dead")
    /\ UNCHANGED <<status, name, polls, short, found, mail, onBoard, lead, over>>

\* All polls were in vain.
PollsOver(k) ==
    /\ place[k] = "poll"
    /\ polls[k] = 0
    /\ SetStatus(name[k], "shutdown")
    /\ GoesTo(k, "dead")
    /\ UNCHANGED <<name, polls, short, found, mail, onBoard, owner, lead, over>>

-----------------------------------------------------------------------------
\* The process stops and starts again: daemon threads are gone, the files stay,
\* and __init__ turns "working" into "idle".
TeamRestart ==
    /\ \E k \in Threads : Live(k)
    /\ place' = [k \in Threads |-> IF Live(k) THEN "dead" ELSE place[k]]
    /\ status' = [m \in Members |-> IF status[m] = "working" THEN "idle" ELSE status[m]]
    /\ UNCHANGED <<name, polls, short, found, mail, onBoard, owner, lead, over>>

\* The steps of a thread outside its cycles.
Idling(k) ==
    \/ PollMail(k) \/ PollEmpty(k) \/ ScanNothing(k) \/ (\E t \in Tasks : ScanFound(k, t))
    \/ BoardRaise(k) \/ ClaimRefused(k) \/ ClaimGranted(k) \/ ClaimRaise(k) \/ PollsOver(k)

Cycle(k) ==
    \/ Build(k) \/ CycleIdle(k) \/ CycleShutdown(k) \/ CycleError(k)
    \/ \E t \in Tasks : CycleClaim(k, t)

TeamNext ==
    \/ \E k \in Threads, m \in Members : Spawn(k, m)
    \/ \E m \in Members : Mail(m)
    \/ \E t \in Tasks : CreateTask(t)
    \/ \E k \in Threads : Cycle(k) \/ Idling(k)
    \/ TeamRestart

TeamSpec == TeamInit /\ [][TeamNext]_teamVars

\* A polling thread keeps polling: it only sleeps for poll_interval.
TeamFairSpec == TeamSpec /\ \A k \in Threads : WF_teamVars(Idling(k))

-----------------------------------------------------------------------------
TeamTypeOK ==
    /\ status \in [Members -> Statuses]
    /\ name \in [Threads -> Members \cup {NoOne}]
    /\ place \in [Threads -> PCs]
    /\ polls \in [Threads -> 0..Polls]
    /\ short \in [Threads -> BOOLEAN]
    /\ found \in [Threads -> Tasks]
    /\ mail \in SUBSET Members
    /\ onBoard \in SUBSET Tasks
    /\ owner \in [Tasks -> Members \cup {NoOne}]
    /\ lead \in SUBSET Members
    /\ over \in SUBSET Members

\* "working" is never left over: some thread of that member is in a cycle, also
\* when two threads of one member take turns in writing its status.
WorkingIsAlive ==
    \A m \in Members : status[m] = "working" =>
        \E k \in Threads : name[k] = m /\ InCycle(k)

\* A member that the lead never spawned while it was idle has one thread, so
\* nobody else reads its inbox or writes its status ...
OneThread ==
    \A j, k \in Threads :
        j # k /\ Live(j) /\ Live(k) /\ name[j] = name[k] => name[j] \in over

\* ... and when it is reported as shut down, no thread of it is left.
ShutdownMeansDead ==
    \A m \in Members : status[m] = "shutdown" /\ m \notin over =>
        \A k \in Threads : name[k] = m => ~Live(k)

\* A member in status "error" has told the lead so.
ErrorIsHeard == \A m \in Members : status[m] = "error" => m \in lead

\* What the lead can see of a member is true of its threads.
StatusIsTrue == ErrorIsHeard /\ WorkingIsAlive /\ OneThread /\ ShutdownMeansDead

\* An idle phase ends: with work, with a shutdown or with the thread's death.
IdleEnds == \A k \in Threads : place[k] = "poll" ~> place[k] \in {"start", "dead"}

\* A task that a poll claims starts the next work cycle of the claimer.
AutoClaimResumes ==
    [][\A t \in Tasks, k \in Threads :
          place[k] = "claim" /\ owner[t] = NoOne /\ owner'[t] = name[k] /\ place'[k] # place[k]
             => place'[k] = "start"]_teamVars
=============================================================================
