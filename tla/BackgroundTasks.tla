-------------------------- MODULE BackgroundTasks ---------------------------
(* Commands that run in a thread of their own, with one table and one queue   *)
(* of results for the whole process.  Only the queue is guarded by a lock.    *)
EXTENDS Naturals, Sequences, SequencesExt

CONSTANTS Commands,  \* background tasks
          CodingTurns      \* coding turns that run at the same time

VARIABLES table,     \* tasks: status and result of each, as they are shown
          thread,    \* where each command's thread is, and what it found
          notifications,   \* the notification queue
          listing,   \* what each turn's check is doing
          shown      \* history: results put before a model, and what checks answered

backgroundVars == <<table, thread, notifications, listing, shown>>

Ends == {"completed", "timeout", "error"}
NoTask == [status |-> "none", result |-> "none"]

BackgroundInit ==
    /\ table = [c \in Commands |-> NoTask]
    /\ thread = [c \in Commands |-> [step |-> "none"]]
    /\ notifications = <<>>
    /\ listing = [t \in CodingTurns |-> {}]
    /\ shown = [notices |-> <<>>, raised |-> FALSE, grew |-> FALSE]

\* A turn that is listing the table is surprised by a new row.
Run(c) == /\ table[c] = NoTask
          /\ table' = [table EXCEPT ![c] = [status |-> "running", result |-> "none"]]
          /\ thread' = [thread EXCEPT ![c].step = "run"]
          /\ shown' = [shown EXCEPT !.grew = @ \/ \E t \in CodingTurns : listing[t] # {}]
          /\ UNCHANGED <<notifications, listing>>

\* The command ends, takes too long or cannot be run; status, result and notice
\* are written one after the other.
CommandEnds(c, end) ==
    /\ thread[c].step = "run"
    /\ thread' = [thread EXCEPT ![c] = [step |-> "status", end |-> end]]
    /\ UNCHANGED <<table, notifications, listing, shown>>

SetStatus(c) == /\ thread[c].step = "status"
                /\ table' = [table EXCEPT ![c].status = thread[c].end]
                /\ thread' = [thread EXCEPT ![c].step = "result"]
                /\ UNCHANGED <<notifications, listing, shown>>

SetResult(c) == /\ thread[c].step = "result"
                /\ table' = [table EXCEPT ![c].result = thread[c].end]
                /\ thread' = [thread EXCEPT ![c].step = "notify"]
                /\ UNCHANGED <<notifications, listing, shown>>

Notify(c) == /\ thread[c].step = "notify"
             /\ notifications' = Append(notifications, [task |-> c, status |-> thread[c].end])
             /\ thread' = [thread EXCEPT ![c].step = "done"]
             /\ UNCHANGED <<table, listing, shown>>

\* Mutant of DrainNotifications: the queue is copied and not cleared.
DrainKeeps(t) ==
    /\ notifications # <<>>
    /\ shown' = [shown EXCEPT !.notices = @ \o notifications]
    /\ UNCHANGED <<table, thread, notifications, listing>>

\* Before each reasoning step a coding turn takes every result there is, whoever
\* started the command; they are in that step's context only.
DrainNotifications(t) ==
    /\ notifications # <<>>
    /\ shown' = [shown EXCEPT !.notices = @ \o notifications] /\ notifications' = <<>>
    /\ UNCHANGED <<table, thread, listing>>

---------------------------------------------------------------------------
(* check of the whole table iterates it row by row, without the lock          *)

Started == {c \in Commands : table[c] # NoTask}

CheckAll(t) == /\ listing[t] = {} /\ Started # {}
               /\ listing' = [listing EXCEPT ![t] = Started]
               /\ UNCHANGED <<table, thread, notifications, shown>>

CheckAllEnds(t) == /\ listing[t] # {}
                   /\ shown' = [shown EXCEPT !.raised = @ \/ listing[t] # Started]
                   /\ listing' = [listing EXCEPT ![t] = {}]
                   /\ UNCHANGED <<table, thread, notifications>>

BackgroundNext ==
    \/ \E c \in Commands : \/ Run(c) \/ SetStatus(c) \/ SetResult(c) \/ Notify(c)
                           \/ \E end \in Ends : CommandEnds(c, end)
    \/ \E t \in CodingTurns : DrainNotifications(t) \/ CheckAll(t) \/ CheckAllEnds(t)

---------------------------------------------------------------------------
\* check of one task: a status that has ended is shown with its result, but
\* between the two assignments, when it reads "(running)".
CheckIsWhole(c) == table[c].status \in Ends => table[c].result = table[c].status \/ thread[c].step = "result"

\* A command's end is put before a model once: a result that was taken, or waits
\* to be, is the one the table shows whole, no command has two, and an ended
\* command whose thread is done has one; a check of the table raises only when a
\* command was started while it ran.
ResultsAreReported ==
    LET notices == shown.notices \o notifications
        On(c) == {k \in DOMAIN notices : notices[k].task = c}
    IN /\ \A c \in Commands :
              /\ CheckIsWhole(c) /\ (On(c) # {} <=> thread[c].step = "done")
              /\ \A k \in On(c) : On(c) = {k} /\ table[c] = [status |-> notices[k].status, result |-> notices[k].status]
       /\ shown.raised => shown.grew
=============================================================================
