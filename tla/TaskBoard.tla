----------------------------- MODULE TaskBoard -----------------------------
(***************************************************************************)
(* The file-based task board of coding_runtime/task.py.                    *)
(*                                                                         *)
(* Every task is one JSON file.  The lead and the teammates run on threads *)
(* of one process and call TaskManager's methods concurrently.  Only       *)
(* claim_task takes the lock _claim_locker; create, update and             *)
(* _clear_dependency read and write the same files without it.  A method   *)
(* is therefore a sequence of file accesses and each access is one step.   *)
(* Path.write_text truncates the file and then writes it: in between the   *)
(* file is "torn", and json.loads raises on it.  A write that lands on top *)
(* of another thread's write leaves the tail of the longer text behind:    *)
(* the file may then stay "corrupt", which json.loads raises on as well.   *)
(*                                                                         *)
(* Not modelled: subject and description (no method reads them back), and  *)
(* list_all / get / scan_unclaimed_tasks, which only read (the scan is     *)
(* part of Teammates).                                                     *)
(***************************************************************************)
EXTENDS Integers, FiniteSets

CONSTANTS
    Agents,      \* the threads that hold the task tools: lead and teammates
    Creators,    \* the agents that call task_create
    InitTasks,   \* number of task files found when TaskManager starts
    MaxTasks,    \* bound on task ids
    Updates,     \* the arguments of task_update: [status, add, remove], where
                 \* status "keep" means that it is left out
    NoOne        \* the empty owner string of an unclaimed task

ASSUME BoardAssumption ==
    /\ Creators \subseteq Agents
    /\ InitTasks \in Nat
    /\ MaxTasks \in Nat
    /\ InitTasks <= MaxTasks
    /\ Updates \subseteq [status : {"keep", "pending", "in_progress", "completed"},
                           add : SUBSET (1..MaxTasks), remove : SUBSET (1..MaxTasks)]
    /\ NoOne \notin Agents

VARIABLES
    file,     \* file[t]: "absent", "torn" (truncated), "ok" or "corrupt"
    board,    \* board[t]: the record last written to the file of task t
    nextId,   \* TaskManager._next_id
    lock,     \* holder of _claim_locker, or NoOne
    pc,       \* pc[a]: where agent a is inside a TaskManager method
    arg,      \* arg[a]: the task id the method works on (or the id it loaded)
    copy,     \* copy[a]: the task dict the method holds in memory
    todo,     \* todo[a]: files _clear_dependency has not visited yet
    dep,      \* dep[a]: the dependent file _clear_dependency is rewriting
    depCopy,  \* depCopy[a]: the dict of that dependent
    others,   \* others[a]: history of the files that other threads have written
              \* since a's _clear_dependency listed the files
    claims,   \* history: <<t, a>> for every claim_task call that was granted
    overlap   \* history: tasks claimed while another thread had a save of the
              \* same file pending, from a copy loaded before the claim

vars == <<file, board, nextId, lock, pc, arg, copy, todo, dep, depCopy, others, claims, overlap>>

-----------------------------------------------------------------------------
TaskIds == 1..MaxTasks

Statuses == {"pending", "in_progress", "completed"}

Task == [status : Statuses, blockedBy : SUBSET TaskIds, owner : Agents \cup {NoOne}]

NewTask == [status |-> "pending", blockedBy |-> {}, owner |-> NoOne]

PCs == {"idle",
        "createTrunc", "createWrite", "bumpLoad", "bumpStore",
        "glob", "clear", "depTrunc", "depWrite", "updTrunc", "updWrite",
        "claimTrunc", "claimWrite"}

\* claim_task and scan_unclaimed_tasks: a task nobody owns, pending, unblocked.
Unclaimed(task) ==
    /\ task.owner = NoOne
    /\ task.status = "pending"
    /\ task.blockedBy = {}

\* update: the dict it saves, computed from the dict it loaded.
Updated(task, u) ==
    [task EXCEPT !.status = IF u.status = "keep" THEN @ ELSE u.status,
                 !.blockedBy = (@ \cup u.add) \ u.remove]

\* _save and claim_task open the file for writing, which truncates it ...
Truncate(t) ==
    /\ file' = [file EXCEPT ![t] = "torn"]
    /\ UNCHANGED board

\* ... and write the JSON from offset 0.  Text that another thread wrote after
\* the truncation is overwritten, and whatever of it is longer stays.
Write(t, task) ==
    /\ board' = [board EXCEPT ![t] = task]
    /\ \/ /\ file[t] = "torn"
          /\ file' = [file EXCEPT ![t] = "ok"]
       \/ /\ file[t] # "torn"
          /\ \E f \in {"ok", "corrupt"} : file' = [file EXCEPT ![t] = f]

\* Agent a has written the file of t, which another agent may be clearing.
Rewrites(a, t) ==
    others' = [x \in Agents |->
        IF x # a /\ pc[x] \in {"clear", "depTrunc", "depWrite"}
        THEN others[x] \cup {t} ELSE others[x]]

\* Thread x will save task t from a copy it already holds.
Holds(x, t) ==
    \/ arg[x] = t /\ pc[x] \in {"createTrunc", "createWrite", "glob", "clear",
                                "depTrunc", "depWrite", "updTrunc", "updWrite"}
    \/ dep[x] = t

Goto(a, l) == pc' = [pc EXCEPT ![a] = l]

\* A method returns: its locals are gone.
Return(a) ==
    /\ Goto(a, "idle")
    /\ arg' = [arg EXCEPT ![a] = 0]
    /\ copy' = [copy EXCEPT ![a] = NewTask]

-----------------------------------------------------------------------------
\* TaskManager.__init__: the files of an earlier session, not yet claimed.
Init ==
    /\ file = [t \in TaskIds |-> IF t <= InitTasks THEN "ok" ELSE "absent"]
    /\ board \in [TaskIds -> [status : {"pending"}, blockedBy : SUBSET (1..InitTasks),
                              owner : {NoOne}]]
    /\ \A t \in TaskIds : t > InitTasks => board[t] = NewTask
    /\ nextId = InitTasks + 1
    /\ lock = NoOne
    /\ pc = [a \in Agents |-> "idle"]
    /\ arg = [a \in Agents |-> 0]
    /\ copy = [a \in Agents |-> NewTask]
    /\ todo = [a \in Agents |-> {}]
    /\ dep = [a \in Agents |-> 0]
    /\ depCopy = [a \in Agents |-> NewTask]
    /\ others = [a \in Agents |-> {}]
    /\ claims = {}
    /\ overlap = {}

-----------------------------------------------------------------------------
\* create: build the dict with the current _next_id ...
CreateRead(a) ==
    /\ a \in Creators
    /\ pc[a] = "idle"
    /\ nextId <= MaxTasks
    /\ arg' = [arg EXCEPT ![a] = nextId]
    /\ copy' = [copy EXCEPT ![a] = NewTask]
    /\ Goto(a, "createTrunc")
    /\ UNCHANGED <<file, board, nextId, lock, todo, dep, depCopy, others, claims, overlap>>

\* ... _save it: open the file for writing, which truncates it ...
CreateTrunc(a) ==
    /\ pc[a] = "createTrunc"
    /\ Truncate(arg[a])
    /\ Goto(a, "createWrite")
    /\ UNCHANGED <<nextId, lock, arg, copy, todo, dep, depCopy, others, claims, overlap>>

\* ... and write the JSON ...
CreateWrite(a) ==
    /\ pc[a] = "createWrite"
    /\ Write(arg[a], copy[a])
    /\ Rewrites(a, arg[a])
    /\ Goto(a, "bumpLoad")
    /\ UNCHANGED <<nextId, lock, arg, copy, todo, dep, depCopy, claims, overlap>>

\* ... and self._next_id += 1, which loads and stores without a lock.
BumpLoad(a) ==
    /\ pc[a] = "bumpLoad"
    /\ arg' = [arg EXCEPT ![a] = nextId]
    /\ Goto(a, "bumpStore")
    /\ UNCHANGED <<file, board, nextId, lock, copy, todo, dep, depCopy, others, claims, overlap>>

\* Mutant of BumpStore: the counter is stored as it was loaded.
BumpStoreSame(a) ==
    /\ pc[a] = "bumpStore"
    /\ nextId' = arg[a]
    /\ Return(a)
    /\ UNCHANGED <<file, board, lock, todo, dep, depCopy, others, claims, overlap>>

BumpStore(a) ==
    /\ pc[a] = "bumpStore"
    /\ nextId' = arg[a] + 1
    /\ Return(a)
    /\ UNCHANGED <<file, board, lock, todo, dep, depCopy, others, claims, overlap>>

-----------------------------------------------------------------------------
\* update: load the task.  A missing or torn file raises and the tool call
\* returns an error, which changes nothing.
UpdateLoad(a, t, u) ==
    /\ pc[a] = "idle"
    /\ file[t] = "ok"
    /\ arg' = [arg EXCEPT ![a] = t]
    /\ copy' = [copy EXCEPT ![a] = Updated(board[t], u)]
    /\ Goto(a, IF u.status = "completed" THEN "glob" ELSE "updTrunc")
    /\ UNCHANGED <<file, board, nextId, lock, todo, dep, depCopy, others, claims, overlap>>

\* Mutant of ClearGlob: only tasks younger than the completed one are visited.
ClearGlobYounger(a) ==
    /\ pc[a] = "glob"
    /\ todo' = [todo EXCEPT ![a] = {t \in TaskIds : file[t] # "absent" /\ t > arg[a]}]
    /\ Goto(a, "clear")
    /\ UNCHANGED <<file, board, nextId, lock, arg, copy, dep, depCopy, others, claims, overlap>>

\* _clear_dependency: list the task files ...
ClearGlob(a) ==
    /\ pc[a] = "glob"
    /\ todo' = [todo EXCEPT ![a] = {t \in TaskIds : file[t] # "absent"}]
    /\ Goto(a, "clear")
    /\ UNCHANGED <<file, board, nextId, lock, arg, copy, dep, depCopy, others, claims, overlap>>

\* ... read one of them; rewrite it if it is blocked by the completed task ...
ClearRead(a, t) ==
    /\ pc[a] = "clear"
    /\ t \in todo[a]
    /\ file[t] = "ok"
    /\ todo' = [todo EXCEPT ![a] = @ \ {t}]
    /\ \/ /\ arg[a] \in board[t].blockedBy
          /\ dep' = [dep EXCEPT ![a] = t]
          /\ depCopy' = [depCopy EXCEPT
                ![a] = [board[t] EXCEPT !.blockedBy = @ \ {arg[a]}]]
          /\ Goto(a, "depTrunc")
       \/ /\ arg[a] \notin board[t].blockedBy
          /\ UNCHANGED <<pc, dep, depCopy>>
    /\ UNCHANGED <<file, board, nextId, lock, arg, copy, others, claims, overlap>>

\* ... which raises on a file it cannot parse: the update is abandoned before its own
\* save, and the tool call returns an error.
ClearRaise(a, t) ==
    /\ pc[a] = "clear"
    /\ t \in todo[a]
    /\ file[t] # "ok"
    /\ todo' = [todo EXCEPT ![a] = {}]
    /\ others' = [others EXCEPT ![a] = {}]
    /\ Return(a)
    /\ UNCHANGED <<file, board, nextId, lock, dep, depCopy, claims, overlap>>

DepTrunc(a) ==
    /\ pc[a] = "depTrunc"
    /\ Truncate(dep[a])
    /\ Goto(a, "depWrite")
    /\ UNCHANGED <<nextId, lock, arg, copy, todo, dep, depCopy, others, claims, overlap>>

DepWrite(a) ==
    /\ pc[a] = "depWrite"
    /\ Write(dep[a], depCopy[a])
    /\ Rewrites(a, dep[a])
    /\ Goto(a, "clear")
    /\ dep' = [dep EXCEPT ![a] = 0]
    /\ depCopy' = [depCopy EXCEPT ![a] = NewTask]
    /\ UNCHANGED <<nextId, lock, arg, copy, todo, claims, overlap>>

ClearDone(a) ==
    /\ pc[a] = "clear"
    /\ todo[a] = {}
    /\ others' = [others EXCEPT ![a] = {}]
    /\ Goto(a, "updTrunc")
    /\ UNCHANGED <<file, board, nextId, lock, arg, copy, todo, dep, depCopy, claims, overlap>>

\* update ends with _save of the dict it loaded at its start.
UpdTrunc(a) ==
    /\ pc[a] = "updTrunc"
    /\ Truncate(arg[a])
    /\ Goto(a, "updWrite")
    /\ UNCHANGED <<nextId, lock, arg, copy, todo, dep, depCopy, others, claims, overlap>>

UpdWrite(a) ==
    /\ pc[a] = "updWrite"
    /\ Write(arg[a], copy[a])
    /\ Rewrites(a, arg[a])
    /\ Return(a)
    /\ UNCHANGED <<nextId, lock, todo, dep, depCopy, claims, overlap>>

-----------------------------------------------------------------------------
\* Mutant of ClaimRead: no lock.
ClaimReadUnlocked(a, t) ==
    /\ pc[a] = "idle"
    /\ file[t] = "ok"
    /\ Unclaimed(board[t])
    /\ lock' = a
    /\ arg' = [arg EXCEPT ![a] = t]
    /\ copy' = [copy EXCEPT
          ![a] = [board[t] EXCEPT !.owner = a, !.status = "in_progress"]]
    /\ Goto(a, "claimTrunc")
    /\ UNCHANGED <<file, board, nextId, todo, dep, depCopy, others, claims, overlap>>

\* claim_task: take the lock and read the task.  Acquiring only delays other
\* claims, so it is one step with the read; the calls that return an error or
\* raise release the lock again and change nothing.
ClaimRead(a, t) ==
    /\ pc[a] = "idle"
    /\ lock = NoOne
    /\ file[t] = "ok"
    /\ Unclaimed(board[t])
    /\ lock' = a
    /\ arg' = [arg EXCEPT ![a] = t]
    /\ copy' = [copy EXCEPT
          ![a] = [board[t] EXCEPT !.owner = a, !.status = "in_progress"]]
    /\ Goto(a, "claimTrunc")
    /\ UNCHANGED <<file, board, nextId, todo, dep, depCopy, others, claims, overlap>>

ClaimTrunc(a) ==
    /\ pc[a] = "claimTrunc"
    /\ Truncate(arg[a])
    /\ Goto(a, "claimWrite")
    /\ UNCHANGED <<nextId, lock, arg, copy, todo, dep, depCopy, others, claims, overlap>>

\* The write, the end of the with block and the answer "Claimed task".
ClaimWrite(a) ==
    /\ pc[a] = "claimWrite"
    /\ Write(arg[a], copy[a])
    /\ Rewrites(a, arg[a])
    /\ lock' = NoOne
    /\ claims' = claims \cup {<<arg[a], a>>}
    /\ overlap' = overlap \cup
          {t \in {arg[a]} : \E x \in Agents \ {a} : Holds(x, t)}
    /\ Return(a)
    /\ UNCHANGED <<nextId, todo, dep, depCopy>>

-----------------------------------------------------------------------------
Create(a) == CreateRead(a) \/ CreateTrunc(a) \/ CreateWrite(a) \/ BumpLoad(a) \/ BumpStore(a)

Update(a) ==
    \/ \E t \in TaskIds, u \in Updates : UpdateLoad(a, t, u)
    \/ ClearGlob(a)
    \/ \E t \in TaskIds : ClearRead(a, t) \/ ClearRaise(a, t)
    \/ DepTrunc(a) \/ DepWrite(a) \/ ClearDone(a)
    \/ UpdTrunc(a) \/ UpdWrite(a)

Claim(a) == (\E t \in TaskIds : ClaimRead(a, t)) \/ ClaimTrunc(a) \/ ClaimWrite(a)

Next == \E a \in Agents : Create(a) \/ Update(a) \/ Claim(a)

Spec == Init /\ [][Next]_vars

-----------------------------------------------------------------------------
TypeOK ==
    /\ file \in [TaskIds -> {"absent", "torn", "ok", "corrupt"}]
    /\ board \in [TaskIds -> Task]
    /\ nextId \in Nat \ {0}
    /\ lock \in Agents \cup {NoOne}
    /\ pc \in [Agents -> PCs]
    /\ arg \in [Agents -> Nat]
    /\ copy \in [Agents -> Task]
    /\ todo \in [Agents -> SUBSET TaskIds]
    /\ dep \in [Agents -> TaskIds \cup {0}]
    /\ depCopy \in [Agents -> Task]
    /\ others \in [Agents -> SUBSET TaskIds]
    /\ claims \in SUBSET (TaskIds \X Agents)
    /\ overlap \in SUBSET TaskIds

\* A granted claim stays on the board: claim_task answered "Claimed task" to
\* agent a for task t, so the task is a's from then on (no method gives a task
\* back), whatever the other threads save to the same files.
ClaimSticks == \A c \in claims : board[c[1]].owner = c[2]

\* What the lock of claim_task does achieve: a granted claim is only ever lost
\* to a thread whose unlocked load and save of the same file enclose the claim.
\* In particular two claims never race each other.
ClaimLostOnlyToOverlap ==
    \A c \in claims : c[1] \notin overlap => board[c[1]].owner = c[2]

\* task_create makes a persistent task: no create writes over the file of an
\* earlier task.
CreatesFreshFile ==
    \A a \in Agents : pc[a] = "createTrunc" => file[arg[a]] = "absent"

\* When update(id, "completed") reaches its own save, the only tasks that still
\* wait for id are those whose file another thread has written while
\* _clear_dependency went over the files.  Alone, a thread releases them all.
DependentsReleased ==
    [][\A a \in Agents : ClearDone(a) =>
          \A t \in TaskIds : file[t] # "absent" /\ arg[a] \in board[t].blockedBy
                                => t \in others[a]]_vars
=============================================================================
