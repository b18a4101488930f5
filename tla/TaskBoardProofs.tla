-------------------------- MODULE TaskBoardProofs --------------------------
(***************************************************************************)
(* Proofs about TaskBoard, for any set of agents, any number of tasks and  *)
(* any arguments of the calls.                                             *)
(***************************************************************************)
EXTENDS TaskBoard, TLAPS

Claiming(a) == pc[a] \in {"claimTrunc", "claimWrite"}
Updating(a) == pc[a] \in {"glob", "clear", "depTrunc", "depWrite", "updTrunc", "updWrite"}
Creating(a) == pc[a] \in {"createTrunc", "createWrite"}
Bumping(a) == pc[a] \in {"bumpLoad", "bumpStore"}

\* The locals of a method are set while it needs them.
LocalsOK ==
    \A a \in Agents :
        /\ Claiming(a) \/ Updating(a) \/ Creating(a) => arg[a] \in TaskIds
        /\ pc[a] \in {"depTrunc", "depWrite"} <=> dep[a] # 0

TypeInv == TypeOK /\ LocalsOK

-----------------------------------------------------------------------------
\* What the JSON of a task may hold is closed under update.
LEMMA UpdatedType ==
    ASSUME NEW task \in Task, NEW u \in Updates
    PROVE  Updated(task, u) \in Task
<1>1. (task.blockedBy \cup u.add) \ u.remove \in SUBSET TaskIds
  BY BoardAssumption DEF Task, TaskIds
<1>2. (IF u.status = "keep" THEN task.status ELSE u.status) \in Statuses
  BY BoardAssumption DEF Task, Statuses
<1> QED BY <1>1, <1>2 DEF Updated, Task

\* A save leaves the files and the board well typed.
LEMMA WriteType ==
    ASSUME TypeOK, NEW t \in TaskIds, NEW task \in Task, Write(t, task)
    PROVE  /\ board' \in [TaskIds -> Task]
           /\ file' \in [TaskIds -> {"absent", "torn", "ok", "corrupt"}]
  BY DEF TypeOK, Write

\* The history of the files that others have written stays well typed.
LEMMA RewritesType ==
    ASSUME TypeOK, NEW a \in Agents, NEW t \in TaskIds, Rewrites(a, t)
    PROVE  others' \in [Agents -> SUBSET TaskIds]
  BY DEF TypeOK, Rewrites

LEMMA InitTypeInv == Init => TypeInv
  BY BoardAssumption
  DEF Init, TypeInv, TypeOK, LocalsOK, Task, NewTask, Statuses, TaskIds, PCs,
      Claiming, Updating, Creating

LEMMA NextTypeInv == TypeInv /\ [Next]_vars => TypeInv'
<1> SUFFICES ASSUME TypeInv, [Next]_vars PROVE TypeInv'
  OBVIOUS
<1> USE DEF TypeInv, LocalsOK, Claiming, Updating, Creating
<1>n. NewTask \in Task
  BY DEF NewTask, Task, Statuses
<1>1. ASSUME NEW a \in Agents, Create(a) PROVE TypeInv'
  <2>1. CASE CreateRead(a)
    BY <2>1, <1>n, BoardAssumption DEF CreateRead, TypeOK, PCs, Goto, TaskIds
  <2>2. CASE CreateTrunc(a)
    BY <2>2 DEF CreateTrunc, Truncate, TypeOK, PCs, Goto
  <2>3. CASE CreateWrite(a)
    <3>1. arg[a] \in TaskIds /\ copy[a] \in Task
      BY <2>3 DEF CreateWrite, TypeOK
    <3>2. board' \in [TaskIds -> Task] /\ file' \in [TaskIds -> {"absent", "torn", "ok", "corrupt"}]
      BY <2>3, <3>1, WriteType DEF CreateWrite
    <3>h. others' \in [Agents -> SUBSET TaskIds]
      BY <2>3, <3>1, RewritesType DEF CreateWrite, TypeInv
    <3> QED BY <2>3, <3>2, <3>h DEF CreateWrite, TypeOK, PCs, Goto
  <2>4. CASE BumpLoad(a)
    BY <2>4 DEF BumpLoad, TypeOK, PCs, Goto
  <2>5. CASE BumpStore(a)
    BY <2>5, <1>n DEF BumpStore, TypeOK, PCs, Goto, Return
  <2> QED BY <1>1, <2>1, <2>2, <2>3, <2>4, <2>5 DEF Create
<1>2. ASSUME NEW a \in Agents, Update(a) PROVE TypeInv'
  <2>1. ASSUME NEW t \in TaskIds, NEW u \in Updates, UpdateLoad(a, t, u)
        PROVE  TypeInv'
    <3>1. Updated(board[t], u) \in Task
      BY UpdatedType DEF TypeOK
    <3> QED BY <2>1, <3>1 DEF UpdateLoad, TypeOK, PCs, Goto, TaskIds
  <2>2. CASE ClearGlob(a)
    BY <2>2 DEF ClearGlob, TypeOK, PCs, Goto
  <2>3. ASSUME NEW t \in TaskIds, ClearRead(a, t) PROVE TypeInv'
    <3> DEFINE released == [board[t] EXCEPT !.blockedBy = @ \ {arg[a]}]
    <3>1. released \in Task
      BY DEF TypeOK, Task
    <3>2. CASE arg[a] \in board[t].blockedBy
      <4>1. dep' = [dep EXCEPT ![a] = t] /\ depCopy' = [depCopy EXCEPT ![a] = released]
        BY <2>3, <3>2 DEF ClearRead
      <4>2. t # 0
        BY BoardAssumption DEF TaskIds
      <4> HIDE DEF released
      <4> QED BY <2>3, <3>1, <3>2, <4>1, <4>2 DEF ClearRead, TypeOK, PCs, Goto
    <3>3. CASE arg[a] \notin board[t].blockedBy
      BY <2>3, <3>3 DEF ClearRead, TypeOK
    <3> QED BY <3>2, <3>3
  <2>4. ASSUME NEW t \in TaskIds, ClearRaise(a, t) PROVE TypeInv'
    BY <2>4, <1>n DEF ClearRaise, TypeOK, PCs, Goto, Return
  <2>5. CASE DepTrunc(a)
    BY <2>5 DEF DepTrunc, Truncate, TypeOK, PCs, Goto
  <2>6. CASE DepWrite(a)
    <3>1. dep[a] \in TaskIds /\ depCopy[a] \in Task
      BY <2>6 DEF DepWrite, TypeOK
    <3>2. board' \in [TaskIds -> Task] /\ file' \in [TaskIds -> {"absent", "torn", "ok", "corrupt"}]
      BY <2>6, <3>1, WriteType DEF DepWrite
    <3>h. others' \in [Agents -> SUBSET TaskIds]
      BY <2>6, <3>1, RewritesType DEF DepWrite, TypeInv
    <3> QED BY <2>6, <3>2, <3>h, <1>n DEF DepWrite, TypeOK, PCs, Goto
  <2>7. CASE ClearDone(a)
    BY <2>7 DEF ClearDone, TypeOK, PCs, Goto
  <2>8. CASE UpdTrunc(a)
    BY <2>8 DEF UpdTrunc, Truncate, TypeOK, PCs, Goto
  <2>9. CASE UpdWrite(a)
    <3>1. arg[a] \in TaskIds /\ copy[a] \in Task
      BY <2>9 DEF UpdWrite, TypeOK
    <3>2. board' \in [TaskIds -> Task] /\ file' \in [TaskIds -> {"absent", "torn", "ok", "corrupt"}]
      BY <2>9, <3>1, WriteType DEF UpdWrite
    <3>h. others' \in [Agents -> SUBSET TaskIds]
      BY <2>9, <3>1, RewritesType DEF UpdWrite, TypeInv
    <3> QED BY <2>9, <3>2, <3>h, <1>n DEF UpdWrite, TypeOK, PCs, Goto, Return
  <2> QED
    BY <1>2, <2>1, <2>2, <2>3, <2>4, <2>5, <2>6, <2>7, <2>8, <2>9 DEF Update
<1>3. ASSUME NEW a \in Agents, Claim(a) PROVE TypeInv'
  <2>1. ASSUME NEW t \in TaskIds, ClaimRead(a, t) PROVE TypeInv'
    <3> DEFINE claimed == [board[t] EXCEPT !.owner = a, !.status = "in_progress"]
    <3>1. board[t] \in Task
      BY DEF TypeOK
    <3>2. claimed \in Task
      BY <3>1 DEF Task, Statuses
    <3>3. copy' = [copy EXCEPT ![a] = claimed]
      BY <2>1 DEF ClaimRead
    <3> HIDE DEF claimed
    <3> QED BY <2>1, <3>2, <3>3 DEF ClaimRead, TypeOK, PCs, Goto, TaskIds
  <2>2. CASE ClaimTrunc(a)
    BY <2>2 DEF ClaimTrunc, Truncate, TypeOK, PCs, Goto
  <2>3. CASE ClaimWrite(a)
    <3>1. arg[a] \in TaskIds /\ copy[a] \in Task
      BY <2>3 DEF ClaimWrite, TypeOK
    <3>2. board' \in [TaskIds -> Task] /\ file' \in [TaskIds -> {"absent", "torn", "ok", "corrupt"}]
      BY <2>3, <3>1, WriteType DEF ClaimWrite
    <3>h. others' \in [Agents -> SUBSET TaskIds]
      BY <2>3, <3>1, RewritesType DEF ClaimWrite, TypeInv
    <3>3. claims' \in SUBSET (TaskIds \X Agents) /\ overlap' \in SUBSET TaskIds
      BY <2>3, <3>1 DEF ClaimWrite, TypeOK
    <3> QED BY <2>3, <3>2, <3>h, <3>3, <1>n DEF ClaimWrite, TypeOK, PCs, Goto, Return
  <2> QED BY <1>3, <2>1, <2>2, <2>3 DEF Claim
<1>4. CASE UNCHANGED vars
  BY <1>4 DEF vars, TypeOK
<1> QED BY <1>1, <1>2, <1>3, <1>4 DEF Next

\* Every variable keeps its type: no method of TaskManager computes a task
\* record, an id or a program point outside the ones the code has.
THEOREM TypeCorrect == Spec => []TypeOK
<1>1. TypeInv => TypeOK
  BY DEF TypeInv
<1> QED BY <1>1, InitTypeInv, NextTypeInv, PTL DEF Spec

-----------------------------------------------------------------------------
(***************************************************************************)
(* The claim lock and the single creator.                                  *)
(*                                                                         *)
(* ClaimLostOnlyToOverlap is not inductive: it says nothing of the copies  *)
(* that threads are about to save.  ClaimHeld says that for a claimed task *)
(* outside overlap they all name the claimer as owner, and the rest of     *)
(* BoardInv is what keeps a later create or claim away from such a task.   *)
(***************************************************************************)

\* Only the lead calls task_create.
SingleCreator == \A a, b \in Creators : a = b

\* The file of task t has been written completely at least once.
Created(t) == t < nextId \/ (t = nextId /\ \E a \in Agents : Bumping(a))

\* The lock admits one claim at a time, and its copy names the claimer.
LockInv ==
    \A a \in Agents : Claiming(a) =>
        /\ lock = a
        /\ copy[a].owner = a
        /\ \A c \in claims : c[1] = arg[a] => c[1] \in overlap

\* A create works on the next id; the other methods work on known tasks.
Placed(a) ==
    /\ Creating(a) \/ Bumping(a) => a \in Creators
    /\ pc[a] = "createTrunc" => arg[a] = nextId /\ file[nextId] = "absent"
    /\ pc[a] = "createWrite" => arg[a] = nextId
    /\ pc[a] = "bumpStore" => arg[a] = nextId
    /\ Claiming(a) \/ Updating(a) => Created(arg[a])
    /\ dep[a] # 0 => Created(dep[a])

LocalsInv == \A a \in Agents : Placed(a)

\* A file that exists is a known task's, or the one a create is writing.
FilesInv ==
    \A t \in TaskIds :
        /\ file[t] \in {"ok", "corrupt"} => Created(t)
        /\ file[t] = "torn" =>
              Created(t) \/ \E a \in Agents : pc[a] = "createWrite" /\ arg[a] = t

ClaimsKnown == \A c \in claims : Created(c[1])

CreateInv == LocalsInv /\ FilesInv /\ ClaimsKnown

ClaimHeld ==
    \A c \in claims : c[1] \notin overlap =>
        /\ board[c[1]].owner = c[2]
        /\ \A x \in Agents :
              /\ Updating(x) /\ arg[x] = c[1] => copy[x].owner = c[2]
              /\ dep[x] = c[1] => depCopy[x].owner = c[2]

BoardInv == TypeInv /\ LockInv /\ CreateInv /\ ClaimHeld

-----------------------------------------------------------------------------
LEMMA InitBoardInv == Init => BoardInv
<1> SUFFICES ASSUME Init PROVE BoardInv
  OBVIOUS
<1>1. TypeInv
  BY InitTypeInv
<1>2. \A a \in Agents : ~Claiming(a) /\ ~Updating(a) /\ ~Creating(a) /\ ~Bumping(a) /\ dep[a] = 0
  BY DEF Init, Claiming, Updating, Creating, Bumping
<1>3. \A t \in TaskIds : file[t] # "absent" => file[t] = "ok" /\ t < nextId
  BY BoardAssumption DEF Init, TaskIds
<1> QED
  BY <1>1, <1>2, <1>3 DEF Init, BoardInv, LockInv, CreateInv, LocalsInv, Placed, FilesInv, ClaimsKnown,
      ClaimHeld, Created

\* A task once written stays known: ids only move forward.
LEMMA CreatedStays ==
    ASSUME SingleCreator, BoardInv, [Next]_vars, NEW t \in Nat, Created(t)
    PROVE  Created(t)'
<1> USE DEF BoardInv, TypeInv
<1> USE DEF Created, Bumping
<1>1. ASSUME NEW a \in Agents, Create(a) PROVE Created(t)'
  <2>1. CASE CreateRead(a)
    BY <2>1 DEF CreateRead, Goto, TypeOK
  <2>2. CASE CreateTrunc(a)
    BY <2>2 DEF CreateTrunc, Goto, TypeOK
  <2>3. CASE CreateWrite(a)
    BY <2>3 DEF CreateWrite, Goto, TypeOK
  <2>4. CASE BumpLoad(a)
    BY <2>4 DEF BumpLoad, Goto, TypeOK
  <2>5. CASE BumpStore(a)
    BY <2>5 DEF BumpStore, Return, Goto, TypeOK, CreateInv, LocalsInv, Placed
  <2> QED BY <1>1, <2>1, <2>2, <2>3, <2>4, <2>5 DEF Create
<1>2. ASSUME NEW a \in Agents, Update(a) \/ Claim(a) PROVE Created(t)'
  <2>1. nextId' = nextId
    BY <1>2 DEF Update, UpdateLoad, ClearGlob, ClearRead, ClearRaise, DepTrunc,
                DepWrite, ClearDone, UpdTrunc, UpdWrite,
                Claim, ClaimRead, ClaimTrunc, ClaimWrite
  <2>2. \A x \in Agents : Bumping(x) => pc'[x] = pc[x]
    BY <1>2 DEF Update, UpdateLoad, ClearGlob, ClearRead, ClearRaise, DepTrunc,
                DepWrite, ClearDone, UpdTrunc, UpdWrite, Goto, Return, TypeOK,
                Claim, ClaimRead, ClaimTrunc, ClaimWrite
  <2> QED BY <2>1, <2>2
<1>3. CASE UNCHANGED vars
  BY <1>3 DEF vars
<1> QED BY <1>1, <1>2, <1>3 DEF Next

\* The claim lock: no method but claim_task takes it or writes claims.
LEMMA LockStep == BoardInv /\ [Next]_vars => LockInv'
<1> SUFFICES ASSUME BoardInv, [Next]_vars, NEW x \in Agents, Claiming(x)'
             PROVE  /\ lock' = x
                    /\ copy'[x].owner = x
                    /\ \A c \in claims' : c[1] = arg'[x] => c[1] \in overlap'
  BY DEF LockInv, Claiming
<1> USE DEF BoardInv, TypeInv, TypeOK, LockInv, Claiming
<1>1. ASSUME NEW a \in Agents, Create(a) \/ Update(a) PROVE Claiming(x) /\ x # a
  <2>1. pc'[a] \notin {"claimTrunc", "claimWrite"}
    BY <1>1 DEF Create, CreateRead, CreateTrunc, CreateWrite, BumpLoad, BumpStore,
                Update, UpdateLoad, ClearGlob, ClearRead, ClearRaise, DepTrunc,
                DepWrite, ClearDone, UpdTrunc, UpdWrite, Goto, Return
  <2>2. \A y \in Agents \ {a} : pc'[y] = pc[y]
    BY <1>1 DEF Create, CreateRead, CreateTrunc, CreateWrite, BumpLoad, BumpStore,
                Update, UpdateLoad, ClearGlob, ClearRead, ClearRaise, DepTrunc,
                DepWrite, ClearDone, UpdTrunc, UpdWrite, Goto, Return
  <2> QED BY <2>1, <2>2
<1>2. ASSUME NEW a \in Agents, Create(a) \/ Update(a)
      PROVE  /\ lock' = lock /\ claims' = claims /\ overlap' = overlap
             /\ \A y \in Agents \ {a} : copy'[y] = copy[y] /\ arg'[y] = arg[y]
  BY <1>2 DEF Create, CreateRead, CreateTrunc, CreateWrite, BumpLoad, BumpStore,
              Update, UpdateLoad, ClearGlob, ClearRead, ClearRaise, DepTrunc,
              DepWrite, ClearDone, UpdTrunc, UpdWrite, Goto, Return
<1>3. ASSUME NEW a \in Agents, Claim(a)
      PROVE  /\ lock' = x
             /\ copy'[x].owner = x
             /\ \A c \in claims' : c[1] = arg'[x] => c[1] \in overlap'
  <2>1. ASSUME NEW t \in TaskIds, ClaimRead(a, t), x = a
        PROVE  /\ lock' = x
               /\ copy'[x].owner = x
               /\ \A c \in claims' : c[1] = arg'[x] => c[1] \in overlap'
    <3>1. lock' = a /\ arg'[a] = t /\ claims' = claims /\ overlap' = overlap
      BY <2>1 DEF ClaimRead
    <3>2. copy'[a] = [board[t] EXCEPT !.owner = a, !.status = "in_progress"]
      BY <2>1 DEF ClaimRead
    <3>3. board[t] \in Task
      OBVIOUS
    <3>4. copy'[a].owner = a
      BY <3>2, <3>3 DEF Task
    <3>5. \A c \in claims : c[1] = t => c[1] \in overlap
      <4>1. board[t].owner = NoOne
        BY <2>1 DEF ClaimRead, Unclaimed
      <4>2. \A c \in claims : c[2] # NoOne
        BY BoardAssumption
      <4> QED BY <4>1, <4>2 DEF ClaimHeld
    <3> QED BY <2>1, <3>1, <3>4, <3>5
  <2>2. ASSUME NEW t \in TaskIds, ClaimRead(a, t), x # a PROVE FALSE
    BY <2>2, BoardAssumption DEF ClaimRead, Goto
  <2>3. CASE ClaimTrunc(a)
    BY <2>3 DEF ClaimTrunc, Goto
  <2>4. CASE ClaimWrite(a)
    BY <2>4 DEF ClaimWrite, Goto, Return
  <2> QED BY <1>3, <2>1, <2>2, <2>3, <2>4 DEF Claim
<1>4. CASE UNCHANGED vars
  BY <1>4 DEF vars
<1> QED BY <1>1, <1>2, <1>3, <1>4 DEF Next

\* A thread keeps its place while another one acts.
LEMMA PlacedStays ==
    ASSUME NEW x \in Agents, Placed(x), TypeInv,
           pc'[x] = pc[x], arg'[x] = arg[x], dep'[x] = dep[x],
           Creating(x) \/ Bumping(x) => nextId' = nextId,
           pc[x] = "createTrunc" => file'[nextId] = "absent",
           \A t \in Nat : Created(t) => Created(t)'
    PROVE  Placed(x)'
<1>1. arg[x] \in Nat /\ dep[x] \in Nat
  BY BoardAssumption DEF TypeInv, TypeOK, TaskIds
<1>2. Claiming(x) \/ Updating(x) => Created(arg[x])'
  BY <1>1 DEF Placed
<1>3. dep[x] # 0 => Created(dep[x])'
  BY <1>1 DEF Placed
<1> QED BY <1>2, <1>3 DEF Placed, Creating, Bumping, Claiming, Updating

\* Only one thread creates, on an id that no other thread can have loaded.
LEMMA CreateStep == SingleCreator /\ BoardInv /\ [Next]_vars => CreateInv'
<1> SUFFICES ASSUME SingleCreator, BoardInv, [Next]_vars PROVE CreateInv'
  OBVIOUS
<1> USE DEF BoardInv, TypeInv, TypeOK, CreateInv, LocalsInv, Placed, FilesInv, ClaimsKnown,
        Creating, Bumping, Claiming, Updating
<1>c. \A t \in Nat : Created(t) => Created(t)'
  BY CreatedStays
<1>t. TaskIds \subseteq Nat /\ 0 \notin TaskIds
  BY BoardAssumption DEF TaskIds
<1>f. ASSUME NEW a \in Agents, Creating(a) PROVE ~Created(nextId)
  BY <1>f DEF SingleCreator, Created
<1>1. ASSUME NEW a \in Agents, Create(a) PROVE CreateInv'
  <2>1. CASE CreateRead(a)
    <3>1. nextId \in TaskIds /\ ~Created(nextId)
      BY <2>1, BoardAssumption DEF CreateRead, CreateInv, SingleCreator, TaskIds, Created
    <3>2. file[nextId] = "absent"
      BY <2>1, <3>1, BoardAssumption DEF CreateRead, CreateInv, SingleCreator
    <3> QED BY <2>1, <3>1, <3>2, <1>c, <1>t DEF CreateRead, CreateInv, Goto, Created, LocalsOK
  <2>2. CASE CreateTrunc(a)
    <3>1. LocalsInv'
      <4> SUFFICES ASSUME NEW x \in Agents
                   PROVE  Placed(x)'
        BY DEF LocalsInv, Placed
      <4>1. x # a => pc'[x] = pc[x] /\ arg'[x] = arg[x] /\ dep'[x] = dep[x]
        BY <2>2 DEF CreateTrunc, Goto, Truncate, SingleCreator, LocalsOK
      <4>2. CASE x = a
        BY <2>2, <1>c, <1>t, <1>f, <4>2 DEF CreateTrunc, Goto, Truncate, SingleCreator, LocalsOK
      <4>3. CASE x # a
        <5>1. Creating(x) \/ Bumping(x) => nextId' = nextId
          BY <2>2, <4>3 DEF CreateTrunc, Goto, Truncate, SingleCreator, LocalsOK
        <5>2. pc[x] = "createTrunc" => file'[nextId] = "absent"
          BY <2>2, <1>f, <1>t, <4>3 DEF CreateTrunc, Goto, Truncate, SingleCreator, LocalsOK
        <5> QED BY <4>1, <4>3, <5>1, <5>2, <1>c, PlacedStays
      <4> QED BY <4>2, <4>3
    <3>2. FilesInv'
      BY <2>2, <1>c, <1>t, <1>f DEF CreateTrunc, Goto, Truncate, SingleCreator, LocalsOK
    <3>3. ClaimsKnown'
      BY <2>2, <1>c, <1>t DEF CreateTrunc, Goto, Truncate, SingleCreator, LocalsOK
    <3> QED BY <3>1, <3>2, <3>3
  <2>3. CASE CreateWrite(a)
    BY <2>3, <1>c, <1>t DEF CreateWrite, Write, CreateInv, Goto, Created, SingleCreator, LocalsOK
  <2>4. CASE BumpLoad(a)
    BY <2>4, <1>c, <1>t DEF BumpLoad, CreateInv, Goto, SingleCreator, LocalsOK
  <2>5. CASE BumpStore(a)
    <3>1. LocalsInv'
      <4> SUFFICES ASSUME NEW x \in Agents
                   PROVE  Placed(x)'
        BY DEF LocalsInv, Placed
      <4>1. x # a => pc'[x] = pc[x] /\ arg'[x] = arg[x] /\ dep'[x] = dep[x]
        BY <2>5 DEF BumpStore, Goto, Return, SingleCreator, LocalsOK
      <4>2. CASE x = a
        BY <2>5, <1>c, <1>t, <1>f, <4>2 DEF BumpStore, Goto, Return, SingleCreator, LocalsOK
      <4>3. CASE x # a
        <5>1. Creating(x) \/ Bumping(x) => nextId' = nextId
          BY <2>5, <4>3 DEF BumpStore, Goto, Return, SingleCreator, LocalsOK
        <5>2. pc[x] = "createTrunc" => file'[nextId] = "absent"
          BY <2>5, <1>f, <1>t, <4>3 DEF BumpStore, Goto, Return, SingleCreator, LocalsOK
        <5> QED BY <4>1, <4>3, <5>1, <5>2, <1>c, PlacedStays
      <4> QED BY <4>2, <4>3
    <3>2. FilesInv'
      BY <2>5, <1>c, <1>t, <1>f DEF BumpStore, Goto, Return, SingleCreator, LocalsOK
    <3>3. ClaimsKnown'
      BY <2>5, <1>c, <1>t DEF BumpStore, Goto, Return, SingleCreator, LocalsOK
    <3> QED BY <3>1, <3>2, <3>3
  <2> QED BY <1>1, <2>1, <2>2, <2>3, <2>4, <2>5 DEF Create
<1>2. ASSUME NEW a \in Agents, Update(a) PROVE CreateInv'
  <2>1. ASSUME NEW t \in TaskIds, NEW u \in Updates, UpdateLoad(a, t, u)
        PROVE  CreateInv'
    BY <2>1, <1>c, <1>t DEF UpdateLoad, CreateInv, Goto, LocalsOK
  <2>2. CASE ClearGlob(a)
    BY <2>2, <1>c, <1>t DEF ClearGlob, CreateInv, Goto, LocalsOK
  <2>3. ASSUME NEW t \in TaskIds, ClearRead(a, t) PROVE CreateInv'
    BY <2>3, <1>c, <1>t DEF ClearRead, CreateInv, Goto, LocalsOK
  <2>4. ASSUME NEW t \in TaskIds, ClearRaise(a, t) PROVE CreateInv'
    BY <2>4, <1>c, <1>t DEF ClearRaise, CreateInv, Goto, LocalsOK, Return
  <2>5. CASE DepTrunc(a)
    <3>1. LocalsInv'
      <4> SUFFICES ASSUME NEW x \in Agents
                   PROVE  Placed(x)'
        BY DEF LocalsInv, Placed
      <4>1. x # a => pc'[x] = pc[x] /\ arg'[x] = arg[x] /\ dep'[x] = dep[x]
        BY <2>5 DEF DepTrunc, Goto, Truncate, LocalsOK
      <4>2. CASE x = a
        BY <2>5, <1>c, <1>t, <1>f, <4>2 DEF DepTrunc, Goto, Truncate, LocalsOK
      <4>3. CASE x # a
        <5>1. Creating(x) \/ Bumping(x) => nextId' = nextId
          BY <2>5, <4>3 DEF DepTrunc, Goto, Truncate, LocalsOK
        <5>2. pc[x] = "createTrunc" => file'[nextId] = "absent"
          BY <2>5, <1>f, <1>t, <4>3 DEF DepTrunc, Goto, Truncate, LocalsOK
        <5> QED BY <4>1, <4>3, <5>1, <5>2, <1>c, PlacedStays
      <4> QED BY <4>2, <4>3
    <3>2. FilesInv'
      BY <2>5, <1>c, <1>t, <1>f DEF DepTrunc, Goto, Truncate, LocalsOK
    <3>3. ClaimsKnown'
      BY <2>5, <1>c, <1>t DEF DepTrunc, Goto, Truncate, LocalsOK
    <3> QED BY <3>1, <3>2, <3>3
  <2>6. CASE DepWrite(a)
    <3>1. LocalsInv'
      <4> SUFFICES ASSUME NEW x \in Agents
                   PROVE  Placed(x)'
        BY DEF LocalsInv, Placed
      <4>1. x # a => pc'[x] = pc[x] /\ arg'[x] = arg[x] /\ dep'[x] = dep[x]
        BY <2>6 DEF DepWrite, Goto, Write, LocalsOK
      <4>2. CASE x = a
        BY <2>6, <1>c, <1>t, <1>f, <4>2 DEF DepWrite, Goto, Write, LocalsOK
      <4>3. CASE x # a
        <5>1. Creating(x) \/ Bumping(x) => nextId' = nextId
          BY <2>6, <4>3 DEF DepWrite, Goto, Write, LocalsOK
        <5>2. pc[x] = "createTrunc" => file'[nextId] = "absent"
          BY <2>6, <1>f, <1>t, <4>3 DEF DepWrite, Goto, Write, LocalsOK
        <5> QED BY <4>1, <4>3, <5>1, <5>2, <1>c, PlacedStays
      <4> QED BY <4>2, <4>3
    <3>2. FilesInv'
      BY <2>6, <1>c, <1>t, <1>f DEF DepWrite, Goto, Write, LocalsOK
    <3>3. ClaimsKnown'
      BY <2>6, <1>c, <1>t DEF DepWrite, Goto, Write, LocalsOK
    <3> QED BY <3>1, <3>2, <3>3
  <2>7. CASE ClearDone(a)
    BY <2>7, <1>c, <1>t DEF ClearDone, CreateInv, Goto, LocalsOK
  <2>8. CASE UpdTrunc(a)
    <3>1. LocalsInv'
      <4> SUFFICES ASSUME NEW x \in Agents
                   PROVE  Placed(x)'
        BY DEF LocalsInv, Placed
      <4>1. x # a => pc'[x] = pc[x] /\ arg'[x] = arg[x] /\ dep'[x] = dep[x]
        BY <2>8 DEF UpdTrunc, Goto, Truncate, LocalsOK
      <4>2. CASE x = a
        BY <2>8, <1>c, <1>t, <1>f, <4>2 DEF UpdTrunc, Goto, Truncate, LocalsOK
      <4>3. CASE x # a
        <5>1. Creating(x) \/ Bumping(x) => nextId' = nextId
          BY <2>8, <4>3 DEF UpdTrunc, Goto, Truncate, LocalsOK
        <5>2. pc[x] = "createTrunc" => file'[nextId] = "absent"
          BY <2>8, <1>f, <1>t, <4>3 DEF UpdTrunc, Goto, Truncate, LocalsOK
        <5> QED BY <4>1, <4>3, <5>1, <5>2, <1>c, PlacedStays
      <4> QED BY <4>2, <4>3
    <3>2. FilesInv'
      BY <2>8, <1>c, <1>t, <1>f DEF UpdTrunc, Goto, Truncate, LocalsOK
    <3>3. ClaimsKnown'
      BY <2>8, <1>c, <1>t DEF UpdTrunc, Goto, Truncate, LocalsOK
    <3> QED BY <3>1, <3>2, <3>3
  <2>9. CASE UpdWrite(a)
    <3>1. LocalsInv'
      <4> SUFFICES ASSUME NEW x \in Agents
                   PROVE  Placed(x)'
        BY DEF LocalsInv, Placed
      <4>1. x # a => pc'[x] = pc[x] /\ arg'[x] = arg[x] /\ dep'[x] = dep[x]
        BY <2>9 DEF UpdWrite, Goto, Write, Return, LocalsOK
      <4>2. CASE x = a
        BY <2>9, <1>c, <1>t, <1>f, <4>2 DEF UpdWrite, Goto, Write, Return, LocalsOK
      <4>3. CASE x # a
        <5>1. Creating(x) \/ Bumping(x) => nextId' = nextId
          BY <2>9, <4>3 DEF UpdWrite, Goto, Write, Return, LocalsOK
        <5>2. pc[x] = "createTrunc" => file'[nextId] = "absent"
          BY <2>9, <1>f, <1>t, <4>3 DEF UpdWrite, Goto, Write, Return, LocalsOK
        <5> QED BY <4>1, <4>3, <5>1, <5>2, <1>c, PlacedStays
      <4> QED BY <4>2, <4>3
    <3>2. FilesInv'
      BY <2>9, <1>c, <1>t, <1>f DEF UpdWrite, Goto, Write, Return, LocalsOK
    <3>3. ClaimsKnown'
      BY <2>9, <1>c, <1>t DEF UpdWrite, Goto, Write, Return, LocalsOK
    <3> QED BY <3>1, <3>2, <3>3
  <2> QED
    BY <1>2, <2>1, <2>2, <2>3, <2>4, <2>5, <2>6, <2>7, <2>8, <2>9 DEF Update
<1>3. ASSUME NEW a \in Agents, Claim(a) PROVE CreateInv'
  <2>1. ASSUME NEW t \in TaskIds, ClaimRead(a, t) PROVE CreateInv'
    BY <2>1, <1>c, <1>t DEF ClaimRead, CreateInv, Goto, LocalsOK
  <2>2. CASE ClaimTrunc(a)
    <3>1. LocalsInv'
      <4> SUFFICES ASSUME NEW x \in Agents
                   PROVE  Placed(x)'
        BY DEF LocalsInv, Placed
      <4>1. x # a => pc'[x] = pc[x] /\ arg'[x] = arg[x] /\ dep'[x] = dep[x]
        BY <2>2 DEF ClaimTrunc, Goto, Truncate, LocalsOK
      <4>2. CASE x = a
        BY <2>2, <1>c, <1>t, <1>f, <4>2 DEF ClaimTrunc, Goto, Truncate, LocalsOK
      <4>3. CASE x # a
        <5>1. Creating(x) \/ Bumping(x) => nextId' = nextId
          BY <2>2, <4>3 DEF ClaimTrunc, Goto, Truncate, LocalsOK
        <5>2. pc[x] = "createTrunc" => file'[nextId] = "absent"
          BY <2>2, <1>f, <1>t, <4>3 DEF ClaimTrunc, Goto, Truncate, LocalsOK
        <5> QED BY <4>1, <4>3, <5>1, <5>2, <1>c, PlacedStays
      <4> QED BY <4>2, <4>3
    <3>2. FilesInv'
      BY <2>2, <1>c, <1>t, <1>f DEF ClaimTrunc, Goto, Truncate, LocalsOK
    <3>3. ClaimsKnown'
      BY <2>2, <1>c, <1>t DEF ClaimTrunc, Goto, Truncate, LocalsOK
    <3> QED BY <3>1, <3>2, <3>3
  <2>3. CASE ClaimWrite(a)
    <3>1. LocalsInv'
      <4> SUFFICES ASSUME NEW x \in Agents
                   PROVE  Placed(x)'
        BY DEF LocalsInv, Placed
      <4>1. x # a => pc'[x] = pc[x] /\ arg'[x] = arg[x] /\ dep'[x] = dep[x]
        BY <2>3 DEF ClaimWrite, Goto, Write, Return, LocalsOK
      <4>2. CASE x = a
        BY <2>3, <1>c, <1>t, <1>f, <4>2 DEF ClaimWrite, Goto, Write, Return, LocalsOK
      <4>3. CASE x # a
        <5>1. Creating(x) \/ Bumping(x) => nextId' = nextId
          BY <2>3, <4>3 DEF ClaimWrite, Goto, Write, Return, LocalsOK
        <5>2. pc[x] = "createTrunc" => file'[nextId] = "absent"
          BY <2>3, <1>f, <1>t, <4>3 DEF ClaimWrite, Goto, Write, Return, LocalsOK
        <5> QED BY <4>1, <4>3, <5>1, <5>2, <1>c, PlacedStays
      <4> QED BY <4>2, <4>3
    <3>2. FilesInv'
      BY <2>3, <1>c, <1>t, <1>f DEF ClaimWrite, Goto, Write, Return, LocalsOK
    <3>3. ClaimsKnown'
      <4>1. claims' = claims \cup {<<arg[a], a>>}
        BY <2>3 DEF ClaimWrite
      <4>2. arg[a] \in Nat /\ \A c \in claims : c[1] \in Nat
        BY <1>t
      <4>3. Created(arg[a]) /\ \A c \in claims : Created(c[1])
        BY <2>3 DEF ClaimWrite
      <4>4. \A c \in claims' : c[1] \in Nat /\ Created(c[1])
        BY <4>1, <4>2, <4>3
      <4> QED BY <4>4, <1>c
    <3> QED BY <3>1, <3>2, <3>3
  <2> QED BY <1>3, <2>1, <2>2, <2>3 DEF Claim
<1>4. CASE UNCHANGED vars
  BY <1>4, <1>c, <1>t DEF vars, CreateInv, LocalsOK
<1> QED BY <1>1, <1>2, <1>3, <1>4 DEF Next

\* While a task is claimed outside overlap, every save names the claimer.
LEMMA HeldStep == SingleCreator /\ BoardInv /\ [Next]_vars => ClaimHeld'
<1> SUFFICES ASSUME SingleCreator, BoardInv, [Next]_vars,
                    NEW c \in claims', c[1] \notin overlap'
             PROVE  /\ board'[c[1]].owner = c[2]
                    /\ \A x \in Agents :
                          /\ Updating(x)' /\ arg'[x] = c[1] => copy'[x].owner = c[2]
                          /\ dep'[x] = c[1] => depCopy'[x].owner = c[2]
  BY DEF ClaimHeld
<1> DEFINE Held == /\ board'[c[1]].owner = c[2]
                   /\ \A x \in Agents :
                         /\ Updating(x)' /\ arg'[x] = c[1] => copy'[x].owner = c[2]
                         /\ dep'[x] = c[1] => depCopy'[x].owner = c[2]
<1> USE DEF BoardInv, TypeInv, TypeOK, Updating
<1>t. TaskIds \subseteq Nat /\ 0 \notin TaskIds
  BY BoardAssumption DEF TaskIds
<1>o. ASSUME c \in claims, c[1] \notin overlap
      PROVE  /\ c[1] \in TaskIds
             /\ board[c[1]].owner = c[2]
             /\ \A x \in Agents :
                   /\ Updating(x) /\ arg[x] = c[1] => copy[x].owner = c[2]
                   /\ dep[x] = c[1] => depCopy[x].owner = c[2]
             /\ \A x \in Agents : Creating(x) => arg[x] # c[1]
  <2>1. \A x \in Agents : Creating(x) => arg[x] = nextId /\ ~Created(nextId)
    BY DEF CreateInv, LocalsInv, Placed, SingleCreator, Created, Creating, Bumping
  <2>2. Created(c[1])
    BY <1>o DEF CreateInv, ClaimsKnown
  <2> QED BY <1>o, <2>1, <2>2 DEF ClaimHeld
<1>1. ASSUME NEW a \in Agents, Create(a) PROVE Held
  <2>0. claims' = claims /\ overlap' = overlap
    BY <1>1 DEF Create, CreateRead, CreateTrunc, CreateWrite, BumpLoad, BumpStore
  <2>1. CASE CreateRead(a)
    BY <2>0, <2>1, <1>o DEF CreateRead, Goto
  <2>2. CASE CreateTrunc(a)
    BY <2>0, <2>2, <1>o DEF CreateTrunc, Truncate, Goto
  <2>3. CASE CreateWrite(a)
    BY <2>0, <2>3, <1>o DEF CreateWrite, Write, Goto, Creating
  <2>4. CASE BumpLoad(a)
    BY <2>0, <2>4, <1>o DEF BumpLoad, Goto
  <2>5. CASE BumpStore(a)
    BY <2>0, <2>5, <1>o DEF BumpStore, Goto, Return
  <2> QED BY <1>1, <2>1, <2>2, <2>3, <2>4, <2>5 DEF Create
<1>2. ASSUME NEW a \in Agents, Update(a) PROVE Held
  <2>0. claims' = claims /\ overlap' = overlap
    BY <1>2 DEF Update, UpdateLoad, ClearGlob, ClearRead, ClearRaise, DepTrunc,
                DepWrite, ClearDone, UpdTrunc, UpdWrite
  <2>1. ASSUME NEW t \in TaskIds, NEW u \in Updates, UpdateLoad(a, t, u)
        PROVE  Held
    <3>1. board[t] \in Task
      OBVIOUS
    <3>2. Updated(board[t], u).owner = board[t].owner
      BY <3>1 DEF Updated, Task
    <3> QED BY <2>0, <2>1, <3>2, <1>o DEF UpdateLoad, Goto
  <2>2. CASE ClearGlob(a)
    BY <2>0, <2>2, <1>o DEF ClearGlob, Goto
  <2>3. ASSUME NEW t \in TaskIds, ClearRead(a, t) PROVE Held
    <3> DEFINE released == [board[t] EXCEPT !.blockedBy = @ \ {arg[a]}]
    <3>1. board[t] \in Task
      OBVIOUS
    <3>2. released.owner = board[t].owner
      BY <3>1 DEF Task
    <3>3. CASE arg[a] \in board[t].blockedBy
      <4>1. depCopy' = [depCopy EXCEPT ![a] = released]
        BY <2>3, <3>3 DEF ClearRead
      <4> HIDE DEF released
      <4> QED BY <2>0, <2>3, <3>2, <3>3, <4>1, <1>o DEF ClearRead, Goto
    <3>4. CASE arg[a] \notin board[t].blockedBy
      BY <2>0, <2>3, <3>4, <1>o DEF ClearRead
    <3> QED BY <3>3, <3>4
  <2>4. ASSUME NEW t \in TaskIds, ClearRaise(a, t) PROVE Held
    BY <2>0, <2>4, <1>o DEF ClearRaise, Goto, Return
  <2>5. CASE DepTrunc(a)
    BY <2>0, <2>5, <1>o DEF DepTrunc, Truncate, Goto
  <2>6. CASE DepWrite(a)
    BY <2>0, <2>6, <1>o, <1>t DEF DepWrite, Write, Goto
  <2>7. CASE ClearDone(a)
    BY <2>0, <2>7, <1>o DEF ClearDone, Goto
  <2>8. CASE UpdTrunc(a)
    BY <2>0, <2>8, <1>o DEF UpdTrunc, Truncate, Goto
  <2>9. CASE UpdWrite(a)
    BY <2>0, <2>9, <1>o DEF UpdWrite, Write, Goto, Return
  <2> QED
    BY <1>2, <2>1, <2>2, <2>3, <2>4, <2>5, <2>6, <2>7, <2>8, <2>9 DEF Update
<1>3. ASSUME NEW a \in Agents, Claim(a) PROVE Held
  <2>1. ASSUME NEW t \in TaskIds, ClaimRead(a, t) PROVE Held
    BY <2>1, <1>o DEF ClaimRead, Goto
  <2>2. CASE ClaimTrunc(a)
    BY <2>2, <1>o DEF ClaimTrunc, Truncate, Goto
  <2>3. CASE ClaimWrite(a)
    <3>1. arg[a] \in TaskIds /\ copy[a].owner = a /\ Claiming(a) /\ dep[a] = 0
      BY <2>3 DEF ClaimWrite, LockInv, Claiming, LocalsOK
    <3>2. board' = [board EXCEPT ![arg[a]] = copy[a]] /\ dep' = dep /\ depCopy' = depCopy
      BY <2>3 DEF ClaimWrite, Write
    <3>3. /\ pc'[a] = "idle"
          /\ \A x \in Agents \ {a} : pc'[x] = pc[x] /\ arg'[x] = arg[x] /\ copy'[x] = copy[x]
      BY <2>3 DEF ClaimWrite, Goto, Return
    <3>4. CASE c = <<arg[a], a>>
      <4>1. \A x \in Agents \ {a} : ~Holds(x, arg[a])
        BY <2>3, <3>1, <3>4 DEF ClaimWrite
      <4>2. \A x \in Agents : ~(Updating(x)' /\ arg'[x] = arg[a]) /\ dep'[x] # arg[a]
        BY <4>1, <3>1, <3>2, <3>3, <1>t DEF Holds
      <4> QED BY <3>1, <3>2, <3>4, <4>2
    <3>5. CASE c \in claims
      <4>1. c[1] \notin overlap
        BY <2>3 DEF ClaimWrite
      <4>2. c[1] # arg[a]
        BY <3>1, <3>5, <4>1 DEF LockInv
      <4> QED BY <1>o, <3>1, <3>2, <3>3, <3>5, <4>1, <4>2
    <3>6. claims' = claims \cup {<<arg[a], a>>}
      BY <2>3 DEF ClaimWrite
    <3> QED BY <3>4, <3>5, <3>6
  <2> QED BY <1>3, <2>1, <2>2, <2>3 DEF Claim
<1>4. CASE UNCHANGED vars
  BY <1>4, <1>o DEF vars
<1> QED BY <1>1, <1>2, <1>3, <1>4 DEF Next

-----------------------------------------------------------------------------
LEMMA BoardInvariant == SingleCreator => (Spec => []BoardInv)
<1> SUFFICES ASSUME SingleCreator PROVE Spec => []BoardInv
  OBVIOUS
<1>1. BoardInv /\ [Next]_vars => BoardInv'
  BY NextTypeInv, LockStep, CreateStep, HeldStep DEF BoardInv
<1> QED BY <1>1, InitBoardInv, PTL DEF Spec

\* With one creator, a granted claim is only lost to a thread that loaded the
\* task before the claim and saves it afterwards: claim_task's lock is enough
\* against any number of concurrent claims.
THEOREM ClaimsAreSafe == SingleCreator => (Spec => []ClaimLostOnlyToOverlap)
<1>1. BoardInv => ClaimLostOnlyToOverlap
  BY DEF BoardInv, ClaimHeld, ClaimLostOnlyToOverlap
<1> QED BY <1>1, BoardInvariant, PTL

\* With one creator, task_create never writes over an existing task.
THEOREM CreatesAreFresh == SingleCreator => (Spec => []CreatesFreshFile)
<1>1. BoardInv => CreatesFreshFile
  BY DEF BoardInv, CreateInv, LocalsInv, Placed, CreatesFreshFile
<1> QED BY <1>1, BoardInvariant, PTL

-----------------------------------------------------------------------------
(***************************************************************************)
(* Completing a task releases its dependents.                              *)
(*                                                                         *)
(* At any time during _clear_dependency, a task that still waits for the   *)
(* completed one has yet to be visited, is being rewritten, or was written *)
(* by another thread since.  No lock and no single creator is needed.      *)
(***************************************************************************)
Clearing(a) == pc[a] \in {"clear", "depTrunc", "depWrite"}

\* A file that was never written waits for nothing.
AbsentInv == \A t \in TaskIds : file[t] = "absent" => board[t].blockedBy = {}

\* The dependent's new text does not wait for the completed task.
ReleasedInv ==
    \A a \in Agents : pc[a] \in {"depTrunc", "depWrite"} =>
        arg[a] \notin depCopy[a].blockedBy

Waits(a, t) == file[t] # "absent" /\ arg[a] \in board[t].blockedBy

VisitedInv ==
    \A a \in Agents : Clearing(a) =>
        \A t \in TaskIds : Waits(a, t) => t \in todo[a] \/ t \in others[a] \/ t = dep[a]

ReleaseInv == TypeInv /\ AbsentInv /\ ReleasedInv /\ VisitedInv

LEMMA InitReleaseInv == Init => ReleaseInv
<1> SUFFICES ASSUME Init PROVE ReleaseInv
  OBVIOUS
<1>1. AbsentInv
  BY BoardAssumption DEF Init, AbsentInv, NewTask, TaskIds
<1> QED
  BY <1>1, InitTypeInv DEF Init, ReleaseInv, ReleasedInv, VisitedInv, Clearing

\* A step of agent a that writes task t, and ends a's work on the files or goes
\* on to the next dependent, keeps the invariant.
LEMMA WriteReleases ==
    ASSUME ReleaseInv, NEW a \in Agents, NEW t \in TaskIds, NEW task \in Task,
           Write(t, task), Rewrites(a, t),
           todo' = todo, \A x \in Agents \ {a} : /\ pc'[x] = pc[x] /\ arg'[x] = arg[x]
                                                /\ dep'[x] = dep[x] /\ depCopy'[x] = depCopy[x],
           pc'[a] \notin {"depTrunc", "depWrite"},
           pc'[a] = "clear" => /\ Clearing(a) /\ dep[a] = t /\ arg'[a] = arg[a]
                               /\ arg[a] \notin task.blockedBy
    PROVE  AbsentInv' /\ ReleasedInv' /\ VisitedInv'
<1> USE DEF ReleaseInv, TypeInv
<1>1. board' = [board EXCEPT ![t] = task]
  BY DEF Write
<1>2. \A u \in TaskIds : file'[u] = "absent" => file[u] = "absent" /\ u # t
  BY DEF Write, TypeOK
<1>3. \A u \in TaskIds \ {t} : file'[u] = file[u] /\ board'[u] = board[u]
  BY <1>1 DEF Write, TypeOK
<1>4. AbsentInv'
  BY <1>2, <1>3 DEF AbsentInv
<1>5. ReleasedInv'
  BY DEF ReleasedInv
<1>6. ASSUME NEW x \in Agents, Clearing(x)', NEW u \in TaskIds, Waits(x, u)'
      PROVE  u \in todo'[x] \/ u \in others'[x] \/ u = dep'[x]
  <2>1. CASE x = a
    <3>1. pc'[a] = "clear"
      BY <1>6, <2>1 DEF Clearing
    <3>2. board'[t] = task
      BY <1>1 DEF TypeOK
    <3>3. u # t /\ Waits(a, u)
      BY <1>3, <1>6, <2>1, <3>1, <3>2 DEF Waits
    <3>4. others'[a] = others[a]
      BY DEF Rewrites
    <3> QED BY <2>1, <3>1, <3>3, <3>4 DEF VisitedInv
  <2>2. CASE x # a
    <3>1. Clearing(x) /\ others'[x] = others[x] \cup {t}
      BY <1>6, <2>2 DEF Clearing, Rewrites
    <3>2. u # t => Waits(x, u)
      BY <1>3, <1>6, <2>2 DEF Waits
    <3> QED BY <2>2, <3>1, <3>2 DEF VisitedInv
  <2> QED BY <2>1, <2>2
<1>7. VisitedInv'
  BY <1>6 DEF VisitedInv
<1> QED BY <1>4, <1>5, <1>7

\* Opening a file for writing, or a step that touches neither the files nor the
\* work of those that clear, keeps it as well.
LEMMA QuietReleases ==
    ASSUME ReleaseInv, NEW a \in Agents, board' = board,
           \/ file' = file
           \/ \E t \in TaskIds : file' = [file EXCEPT ![t] = "torn"],
           \A x \in Agents :
              /\ Clearing(x)' => /\ Clearing(x) /\ arg'[x] = arg[x] /\ todo'[x] = todo[x]
                                 /\ others'[x] = others[x] /\ dep'[x] = dep[x]
              /\ pc'[x] \in {"depTrunc", "depWrite"} =>
                    /\ pc[x] \in {"depTrunc", "depWrite"} /\ arg'[x] = arg[x]
                    /\ depCopy'[x] = depCopy[x]
    PROVE  AbsentInv' /\ ReleasedInv' /\ VisitedInv'
<1> USE DEF ReleaseInv, TypeInv
<1>1. \A u \in TaskIds : file'[u] = "absent" => file[u] = "absent"
  BY DEF TypeOK
<1>2. AbsentInv'
  BY <1>1 DEF AbsentInv
<1>3. ReleasedInv'
  BY DEF ReleasedInv
<1>4. ASSUME NEW x \in Agents, Clearing(x)', NEW u \in TaskIds, Waits(x, u)'
      PROVE  u \in todo'[x] \/ u \in others'[x] \/ u = dep'[x]
  <2>1. Clearing(x) /\ arg[x] \in board[u].blockedBy
    BY <1>4 DEF Waits
  <2>2. Waits(x, u)
    BY <2>1 DEF AbsentInv, Waits
  <2> QED BY <1>4, <2>1, <2>2 DEF VisitedInv
<1>5. VisitedInv'
  BY <1>4 DEF VisitedInv
<1> QED BY <1>2, <1>3, <1>5

LEMMA NextReleaseInv == ReleaseInv /\ [Next]_vars => ReleaseInv'
<1> SUFFICES ASSUME ReleaseInv, [Next]_vars PROVE AbsentInv' /\ ReleasedInv' /\ VisitedInv'
  BY NextTypeInv DEF ReleaseInv
<1> USE DEF ReleaseInv, TypeInv, LocalsOK, Claiming, Updating, Creating
<1>1. ASSUME NEW a \in Agents, Create(a) PROVE AbsentInv' /\ ReleasedInv' /\ VisitedInv'
  <2>1. CASE CreateRead(a)
    BY <2>1, QuietReleases DEF CreateRead, Goto, Clearing, TypeOK
  <2>2. CASE CreateTrunc(a)
    BY <2>2, QuietReleases DEF CreateTrunc, Truncate, Goto, Clearing, TypeOK
  <2>3. CASE CreateWrite(a)
    <3>1. arg[a] \in TaskIds /\ copy[a] \in Task
      BY <2>3 DEF CreateWrite, TypeOK
    <3>2. pc' = [pc EXCEPT ![a] = "bumpLoad"]
      BY <2>3 DEF CreateWrite, Goto
    <3> QED BY <2>3, <3>1, <3>2, WriteReleases DEF CreateWrite, TypeOK
  <2>4. CASE BumpLoad(a)
    BY <2>4, QuietReleases DEF BumpLoad, Goto, Clearing, TypeOK
  <2>5. CASE BumpStore(a)
    BY <2>5, QuietReleases DEF BumpStore, Return, Goto, Clearing, TypeOK
  <2> QED BY <1>1, <2>1, <2>2, <2>3, <2>4, <2>5 DEF Create
<1>2. ASSUME NEW a \in Agents, Update(a) PROVE AbsentInv' /\ ReleasedInv' /\ VisitedInv'
  <2>1. ASSUME NEW t \in TaskIds, NEW u \in Updates, UpdateLoad(a, t, u)
        PROVE  AbsentInv' /\ ReleasedInv' /\ VisitedInv'
    BY <2>1, QuietReleases DEF UpdateLoad, Goto, Clearing, TypeOK
  <2>2. CASE ClearGlob(a)
    <3>1. AbsentInv' /\ ReleasedInv'
      BY <2>2 DEF ClearGlob, Goto, AbsentInv, ReleasedInv, TypeOK
    <3>2. ASSUME NEW x \in Agents, Clearing(x)', NEW t \in TaskIds, Waits(x, t)'
          PROVE  t \in todo'[x] \/ t \in others'[x] \/ t = dep'[x]
      <4>1. Waits(x, t)
        BY <2>2, <3>2 DEF ClearGlob, Waits
      <4>2. CASE x = a
        BY <2>2, <4>1, <4>2 DEF ClearGlob, Waits, TypeOK
      <4>3. CASE x # a
        BY <2>2, <3>2, <4>1, <4>3 DEF ClearGlob, Goto, Clearing, VisitedInv, TypeOK
      <4> QED BY <4>2, <4>3
    <3> QED BY <3>1, <3>2 DEF VisitedInv
  <2>3. ASSUME NEW t \in TaskIds, ClearRead(a, t)
        PROVE  AbsentInv' /\ ReleasedInv' /\ VisitedInv'
    <3> DEFINE released == [board[t] EXCEPT !.blockedBy = @ \ {arg[a]}]
    <3>1. board[t] \in Task
      BY DEF TypeOK
    <3>2. arg[a] \notin released.blockedBy
      BY <3>1 DEF Task
    <3>3. CASE arg[a] \in board[t].blockedBy
      <4>1. /\ dep' = [dep EXCEPT ![a] = t] /\ depCopy' = [depCopy EXCEPT ![a] = released]
            /\ pc' = [pc EXCEPT ![a] = "depTrunc"] /\ todo' = [todo EXCEPT ![a] = @ \ {t}]
            /\ UNCHANGED <<file, board, arg, others>> /\ pc[a] = "clear"
        BY <2>3, <3>3 DEF ClearRead, Goto
      <4> HIDE DEF released
      <4>2. AbsentInv' /\ ReleasedInv'
        BY <3>2, <4>1 DEF AbsentInv, ReleasedInv, TypeOK
      <4>3. ASSUME NEW x \in Agents, Clearing(x)', NEW u \in TaskIds, Waits(x, u)'
            PROVE  u \in todo'[x] \/ u \in others'[x] \/ u = dep'[x]
        <5>1. Clearing(x) /\ Waits(x, u)
          BY <4>1, <4>3 DEF Clearing, Waits, TypeOK
        <5>2. CASE x = a
          <6>1. dep[a] = 0 /\ u # 0
            BY <4>1, BoardAssumption DEF TaskIds
          <6> QED BY <4>1, <5>1, <5>2, <6>1 DEF VisitedInv, TypeOK
        <5>3. CASE x # a
          BY <4>1, <5>1, <5>3 DEF VisitedInv, TypeOK
        <5> QED BY <5>2, <5>3
      <4> QED BY <4>2, <4>3 DEF VisitedInv
    <3>4. CASE arg[a] \notin board[t].blockedBy
      <4>1. /\ todo' = [todo EXCEPT ![a] = @ \ {t}]
            /\ UNCHANGED <<file, board, pc, arg, dep, depCopy, others>>
        BY <2>3, <3>4 DEF ClearRead
      <4>2. AbsentInv' /\ ReleasedInv'
        BY <4>1 DEF AbsentInv, ReleasedInv
      <4>3. VisitedInv'
        BY <3>4, <4>1 DEF VisitedInv, Waits, Clearing, TypeOK
      <4> QED BY <4>2, <4>3
    <3> QED BY <3>3, <3>4
  <2>4. ASSUME NEW t \in TaskIds, ClearRaise(a, t)
        PROVE  AbsentInv' /\ ReleasedInv' /\ VisitedInv'
    BY <2>4, QuietReleases DEF ClearRaise, Return, Goto, Clearing, TypeOK
  <2>5. CASE DepTrunc(a)
    BY <2>5, QuietReleases DEF DepTrunc, Truncate, Goto, Clearing, TypeOK
  <2>6. CASE DepWrite(a)
    <3>1. dep[a] \in TaskIds /\ depCopy[a] \in Task
      BY <2>6 DEF DepWrite, TypeOK
    <3>2. pc' = [pc EXCEPT ![a] = "clear"]
      BY <2>6 DEF DepWrite, Goto
    <3>3. arg[a] \notin depCopy[a].blockedBy /\ Clearing(a)
      BY <2>6 DEF DepWrite, ReleasedInv, Clearing
    <3> QED BY <2>6, <3>1, <3>2, <3>3, WriteReleases DEF DepWrite, TypeOK
  <2>7. CASE ClearDone(a)
    BY <2>7, QuietReleases DEF ClearDone, Goto, Clearing, TypeOK
  <2>8. CASE UpdTrunc(a)
    BY <2>8, QuietReleases DEF UpdTrunc, Truncate, Goto, Clearing, TypeOK
  <2>9. CASE UpdWrite(a)
    <3>1. arg[a] \in TaskIds /\ copy[a] \in Task
      BY <2>9 DEF UpdWrite, TypeOK
    <3>2. pc' = [pc EXCEPT ![a] = "idle"] /\ arg' = [arg EXCEPT ![a] = 0]
      BY <2>9 DEF UpdWrite, Return, Goto
    <3> QED BY <2>9, <3>1, <3>2, WriteReleases DEF UpdWrite, TypeOK
  <2> QED
    BY <1>2, <2>1, <2>2, <2>3, <2>4, <2>5, <2>6, <2>7, <2>8, <2>9 DEF Update
<1>3. ASSUME NEW a \in Agents, Claim(a) PROVE AbsentInv' /\ ReleasedInv' /\ VisitedInv'
  <2>1. ASSUME NEW t \in TaskIds, ClaimRead(a, t)
        PROVE  AbsentInv' /\ ReleasedInv' /\ VisitedInv'
    BY <2>1, QuietReleases DEF ClaimRead, Goto, Clearing, TypeOK
  <2>2. CASE ClaimTrunc(a)
    BY <2>2, QuietReleases DEF ClaimTrunc, Truncate, Goto, Clearing, TypeOK
  <2>3. CASE ClaimWrite(a)
    <3>1. arg[a] \in TaskIds /\ copy[a] \in Task
      BY <2>3 DEF ClaimWrite, TypeOK
    <3>2. pc' = [pc EXCEPT ![a] = "idle"] /\ arg' = [arg EXCEPT ![a] = 0]
      BY <2>3 DEF ClaimWrite, Return, Goto
    <3> QED BY <2>3, <3>1, <3>2, WriteReleases DEF ClaimWrite, TypeOK
  <2> QED BY <1>3, <2>1, <2>2, <2>3 DEF Claim
<1>4. CASE UNCHANGED vars
  BY <1>4 DEF vars, AbsentInv, ReleasedInv, VisitedInv, Waits, Clearing
<1> QED BY <1>1, <1>2, <1>3, <1>4 DEF Next

\* _clear_dependency leaves a task waiting for the completed one only when
\* another thread has written that task's file in the meantime, for any number
\* of agents that create, update and claim.
THEOREM ReleasesDependents == Spec => DependentsReleased
<1>1. ReleaseInv => (\A a \in Agents : ClearDone(a) =>
          \A t \in TaskIds : file[t] # "absent" /\ arg[a] \in board[t].blockedBy
                                => t \in others[a])
  <2> SUFFICES ASSUME ReleaseInv, NEW a \in Agents, ClearDone(a),
                      NEW t \in TaskIds, Waits(a, t)
               PROVE  t \in others[a]
    BY DEF Waits
  <2>1. t # 0 /\ dep[a] = 0
    BY BoardAssumption DEF ClearDone, ReleaseInv, TypeInv, LocalsOK, TaskIds
  <2> QED BY <2>1 DEF ClearDone, ReleaseInv, VisitedInv, Clearing
<1> QED BY <1>1, InitReleaseInv, NextReleaseInv, PTL DEF Spec, DependentsReleased
=============================================================================
