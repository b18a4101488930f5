------------------------------- MODULE Memory -------------------------------
(* The derived memory of one user.  Every process that serves the user has a  *)
(* worker that takes its turns one after the other; the files and databases   *)
(* are shared and nothing locks them from one step to the next.               *)
EXTENDS Naturals, Sequences, SequencesExt, FiniteSets

CONSTANTS Processes,
          Texts,        \* what users say; texts are related to one another
          RecentLimit,  \* turns in the rolling recent context
          Evidence,     \* promotion_evidence_count
          MemoryTurns,        \* bound on the turns of a process
          Deaths        \* bound on the deaths of processes

\* recent_limit is max(1, ...).
ASSUME MemoryAssumption == RecentLimit \in Nat \ {0}

VARIABLES length,       \* process -> messages of its session, in turns
          told,         \* turns so far
          queue,        \* process -> snapshots its worker has yet to take
          job,          \* process -> what its worker does
          memory, pending, \* the items of MEMORY.md and PENDING.md
          logged,       \* the turns in HISTORY.md
          candidates,   \* id -> row of PENDING.db
          recent,       \* RECENT_CONTEXT.json, or Torn
          archive,      \* the rows of memory_archive
          deaths,
          excused,      \* history: turns that a failure or an overlap has cost
          overlapped,   \* history: items that two workers were about to append
          overwritten   \* history: rows that another new row has replaced

memoryVars == <<length, told, queue, job, memory, pending, logged, candidates, recent, archive, deaths,
                excused, overlapped, overwritten>>
sessionState == <<length, told, queue, deaths>>
itemState == <<memory, pending, overlapped>>
rowState == <<candidates, overwritten>>
turnState == <<logged, recent, archive, excused>>

TornRecent == <<[n |-> 0]>>
NoJob == [step |-> "none"]
Kept(turns) == IF turns = TornRecent THEN <<>> ELSE turns

MemoryInit ==
    /\ length = [p \in Processes |-> 0] /\ told = 0
    /\ queue = [p \in Processes |-> <<>>] /\ job = [p \in Processes |-> NoJob]
    /\ memory = <<>> /\ pending = <<>> /\ logged = {} /\ candidates = <<>> /\ recent = <<>> /\ archive = {}
    /\ deaths = 0 /\ excused = {} /\ overlapped = {} /\ overwritten = {}

---------------------------------------------------------------------------
(* Turns and the worker's queue *)

\* The turn's end gives the worker a copy of the session; the number of messages
\* names the turn.
Enqueue(p, text, explicit) ==
    /\ told < MemoryTurns /\ told' = told + 1
    /\ length' = [length EXCEPT ![p] = @ + 1]
    /\ queue' = [queue EXCEPT ![p] = Append(@, [n |-> told', ref |-> <<p, length'[p]>>,
                                                text |-> text, explicit |-> explicit])]
    /\ UNCHANGED <<job, deaths, itemState, rowState, turnState>>

\* A compaction of the history leaves fewer messages in the session.
Compact(p) == /\ length[p] > 0 /\ told < MemoryTurns
              /\ length' = [length EXCEPT ![p] = 0]
              /\ UNCHANGED <<told, queue, job, deaths, itemState, rowState, turnState>>

StepOf(p) == job[p].step
Turn(p) == job[p].turn
Goto(p, step) == job' = [job EXCEPT ![p] = [step |-> step, turn |-> Turn(p)]]
GotoWith(p, step, data) == job' = [job EXCEPT ![p] = [step |-> step, turn |-> Turn(p), data |-> data]]

Take(p) == /\ job[p] = NoJob /\ queue[p] # <<>>
           /\ queue' = [queue EXCEPT ![p] = Tail(@)]
           /\ job' = [job EXCEPT ![p] = [step |-> IF Head(queue[p]).explicit THEN "explicit" ELSE "describe",
                                         turn |-> Head(queue[p])]]
           /\ UNCHANGED <<length, told, deaths, itemState, rowState, turnState>>

---------------------------------------------------------------------------
(* MemoryStore.append: is it a duplicate, and then append it.                 *)

\* The same words in another order or form are a duplicate as well.
IsDuplicate(item, items) == Contains(items, item)

Appending(p, item) == StepOf(p) = "append" /\ job[p].data.item = item

Check(p, item, then) ==
    /\ IF IsDuplicate(item, memory)
       THEN /\ IF then.step = "promote" THEN GotoWith(p, "promote", then) ELSE Goto(p, then.step)
            /\ UNCHANGED overlapped
       ELSE /\ GotoWith(p, "append", [item |-> item, then |-> then])
            /\ overlapped' = IF \E q \in Processes \ {p} : Appending(q, item) THEN overlapped \cup {item} ELSE overlapped
    /\ UNCHANGED <<sessionState, memory, pending, rowState, turnState>>

AppendMemory(p) ==
    /\ StepOf(p) = "append"
    /\ memory' = Append(memory, job[p].data.item)
    /\ LET then == job[p].data.then
       IN IF then.step = "promote" THEN GotoWith(p, "promote", then) ELSE Goto(p, then.step)
    /\ UNCHANGED <<sessionState, pending, overlapped, rowState, turnState>>

\* "Remember that ...": the item is saved at once.
Explicit(p) == StepOf(p) = "explicit" /\ Check(p, Turn(p).text, [step |-> "history"])

---------------------------------------------------------------------------
(* MemoryProcessingDevice and CandidateMemoryStore *)

RowIds == DOMAIN candidates
Open == {c \in RowIds : candidates[c].status = "candidate"}

\* The history has enough similar turns, or has not: the search is not modelled.
Dissimilar(p) == /\ StepOf(p) = "describe" /\ Goto(p, "ready")
                 /\ UNCHANGED <<sessionState, itemState, rowState, turnState>>

More(row) == [row EXCEPT !.evidence = IF @ < Evidence THEN @ + 1 ELSE @]

TriggerRead(p) ==
    /\ StepOf(p) = "describe"
    /\ GotoWith(p, "trigger", [c \in Open |-> More(candidates[c])])
    /\ UNCHANGED <<sessionState, itemState, rowState, turnState>>

\* Whole rows are written as they were read, their status included.
TriggerWrite(p) ==
    /\ StepOf(p) = "trigger"
    /\ candidates' = [c \in RowIds |-> IF c \in DOMAIN job[p].data THEN job[p].data[c] ELSE candidates[c]]
    /\ Goto(p, "upsert")
    /\ UNCHANGED <<sessionState, itemState, overwritten, turnState>>

NextId == CHOOSE i \in Cardinality(RowIds) + 1..2 * Cardinality(RowIds) + 1 :
              i \notin RowIds /\ \A j \in Cardinality(RowIds) + 1..i - 1 : j \in RowIds

UpsertFind(p) ==
    /\ StepOf(p) = "upsert"
    /\ LET text == Turn(p).text
           match == {c \in RowIds : candidates[c].text = text}
       IN IF IsDuplicate(text, memory) THEN Goto(p, "ready")
          ELSE IF match # {}
          THEN LET c == CHOOSE c \in match : TRUE
               IN GotoWith(p, "row", [id |-> c, row |-> More(candidates[c]), created |-> FALSE])
          ELSE GotoWith(p, "row", [id |-> NextId, row |-> [text |-> text, evidence |-> 1, status |-> "candidate"],
                                   created |-> TRUE])
    /\ UNCHANGED <<sessionState, itemState, rowState, turnState>>

UpsertRow(p) ==
    /\ StepOf(p) = "row"
    /\ LET new == job[p].data
       IN /\ candidates' = [c \in RowIds \cup {new.id} |-> IF c = new.id THEN new.row ELSE candidates[c]]
          /\ overwritten' = IF new.created /\ new.id \in RowIds THEN overwritten \cup {new.id} ELSE overwritten
          /\ Goto(p, IF new.created THEN "pending" ELSE "ready")
    /\ UNCHANGED <<sessionState, itemState, turnState>>

\* MemoryStore.append_pending
IsKnown(item) == IsDuplicate(item, memory) \/ IsDuplicate(item, pending)

PendingCheck(p) == /\ StepOf(p) = "pending"
                   /\ Goto(p, IF IsKnown(Turn(p).text) THEN "ready" ELSE "pending append")
                   /\ UNCHANGED <<sessionState, itemState, rowState, turnState>>

PendingAppend(p) == /\ StepOf(p) = "pending append"
                    /\ pending' = Append(pending, Turn(p).text)
                    /\ Goto(p, "ready")
                    /\ UNCHANGED <<sessionState, memory, overlapped, rowState, turnState>>

---------------------------------------------------------------------------
(* _promote_ready_candidates *)

Ready == {c \in Open : candidates[c].evidence >= Evidence}

\* What is promoted is read once; the extractor takes the content as it is.
PromoteRead(p) ==
    /\ StepOf(p) = "ready"
    /\ IF Ready = {} THEN Goto(p, "history")
       ELSE GotoWith(p, "promote", [step |-> "promote", done |-> {},
                                    items |-> [c \in Ready |-> candidates[c].text]])
    /\ UNCHANGED <<sessionState, itemState, rowState, turnState>>

PromoteNext(p) ==
    /\ StepOf(p) = "promote"
    /\ LET d == job[p].data
           left == DOMAIN d.items \ d.done
           c == CHOOSE c \in left : \A o \in left : c <= o
       IN left # {} /\ Check(p, d.items[c], [d EXCEPT !.done = @ \cup {c}])

\* Mutant of MarkPromoted: the rows are marked before their items are saved.
MarkPromotedFirst(p) ==
    /\ StepOf(p) = "promote"
    /\ LET d == job[p].data
       IN candidates' = [c \in RowIds |-> IF c \in DOMAIN d.items THEN [candidates[c] EXCEPT !.status = "promoted"]
                                        ELSE candidates[c]]
    /\ Goto(p, "history")
    /\ UNCHANGED <<sessionState, itemState, overwritten, turnState>>

MarkPromoted(p) ==
    /\ StepOf(p) = "promote"
    /\ LET d == job[p].data
       IN /\ d.done = DOMAIN d.items
          /\ candidates' = [c \in RowIds |-> IF c \in d.done THEN [candidates[c] EXCEPT !.status = "promoted"]
                                           ELSE candidates[c]]
    /\ Goto(p, "history")
    /\ UNCHANGED <<sessionState, itemState, overwritten, turnState>>

---------------------------------------------------------------------------
(* The transcript's history, the recent turns and the archive *)

AppendHistory(p) == /\ StepOf(p) = "history"
                    /\ logged' = logged \cup {Turn(p)}
                    /\ Goto(p, "recent")
                    /\ UNCHANGED <<sessionState, itemState, rowState, recent, archive, excused>>

\* The vector index is external: an error of it is counted and no more.
RecentRead(p) == /\ StepOf(p) = "recent"
                 /\ GotoWith(p, "truncate", Append(Kept(recent), Turn(p)))
                 /\ UNCHANGED <<sessionState, itemState, rowState, turnState>>

Missed(p) == ToSet(Kept(recent)) \ ToSet(job[p].data)

RecentTruncate(p) == /\ StepOf(p) = "truncate"
                     /\ recent' = TornRecent /\ excused' = excused \cup Missed(p)
                     /\ GotoWith(p, "write", job[p].data)
                     /\ UNCHANGED <<sessionState, itemState, rowState, logged, archive>>

From(turns) == IF Len(turns) > RecentLimit THEN Len(turns) - RecentLimit + 1 ELSE 1
Newest(turns) == SubSeq(turns, From(turns), Len(turns))

\* Mutant of Evicted: the oldest turn that leaves is forgotten.
EvictedLater(turns) == SubSeq(turns, 2, From(turns) - 1)

Evicted(turns) == SubSeq(turns, 1, From(turns) - 1)

RecentWrite(p) == /\ StepOf(p) = "write"
                  /\ recent' = Newest(job[p].data) /\ excused' = excused \cup Missed(p)
                  /\ GotoWith(p, "archive", Evicted(job[p].data))
                  /\ UNCHANGED <<sessionState, itemState, rowState, logged, archive>>

\* INSERT OR IGNORE: a turn whose source_ref is there already is left out.
Archive(p) == /\ StepOf(p) = "archive" /\ job[p].data # <<>>
              /\ LET turn == Head(job[p].data)
                 IN archive' = IF \E t \in archive : t.ref = turn.ref THEN archive ELSE archive \cup {turn}
              /\ GotoWith(p, "archive", Tail(job[p].data))
              /\ UNCHANGED <<sessionState, itemState, rowState, logged, recent, excused>>

JobDone(p) == /\ StepOf(p) = "archive" /\ job[p].data = <<>>
              /\ job' = [job EXCEPT ![p] = NoJob]
              /\ UNCHANGED <<sessionState, itemState, rowState, turnState>>

---------------------------------------------------------------------------
(* Failures *)

\* What a job that ends here leaves undone: its turn, what it wanted to write.
Undone(p) == IF job[p] = NoJob THEN {}
             ELSE {Turn(p)} \cup (IF StepOf(p) \in {"truncate", "write", "archive"} THEN ToSet(job[p].data) ELSE {})

\* A step of it raises; the worker takes the next turn.
JobRaises(p) == /\ job[p] # NoJob /\ deaths < Deaths /\ deaths' = deaths + 1
                /\ excused' = excused \cup Undone(p)
                /\ job' = [job EXCEPT ![p] = NoJob]
                /\ UNCHANGED <<length, told, queue, itemState, rowState, logged, recent, archive>>

\* The process dies: its queue is lost with it.
ProcessDies(p) == /\ job[p] # NoJob \/ queue[p] # <<>>
                  /\ deaths < Deaths /\ deaths' = deaths + 1
                  /\ excused' = excused \cup Undone(p)
                  /\ job' = [job EXCEPT ![p] = NoJob] /\ queue' = [queue EXCEPT ![p] = <<>>]
                  /\ UNCHANGED <<length, told, itemState, rowState, logged, recent, archive>>

MemoryNext ==
    \E p \in Processes :
        \/ \E text \in Texts, explicit \in BOOLEAN : Enqueue(p, text, explicit)
        \/ Compact(p) \/ Take(p) \/ Explicit(p) \/ AppendMemory(p)
        \/ Dissimilar(p) \/ TriggerRead(p) \/ TriggerWrite(p) \/ UpsertFind(p) \/ UpsertRow(p)
        \/ PendingCheck(p) \/ PendingAppend(p) \/ PromoteRead(p) \/ PromoteNext(p) \/ MarkPromoted(p)
        \/ AppendHistory(p) \/ RecentRead(p) \/ RecentTruncate(p) \/ RecentWrite(p) \/ Archive(p) \/ JobDone(p)
        \/ JobRaises(p) \/ ProcessDies(p)

---------------------------------------------------------------------------
HeldBy(p) == IF StepOf(p) \in {"recent", "truncate", "write", "archive"} THEN Undone(p) ELSE {}

\* A turn of the history is in the recent context or in the archive, unless its
\* source_ref was used before, its job or process died, or another process
\* rewrote the recent context at the same time.
TurnsAreKept ==
    \A t \in logged : \/ t \in ToSet(Kept(recent)) \cup archive \cup excused
                      \/ \E p \in Processes : t \in HeldBy(p)
                      \/ \E o \in archive : o # t /\ o.ref = t.ref

\* An item is in MEMORY.md once, unless two workers were about to append it, and
\* the text of a promoted candidate is there, unless its row was overwritten.
ItemsAreSound ==
    /\ \A i, j \in DOMAIN memory : i # j /\ memory[i] = memory[j] => memory[i] \in overlapped
    /\ \A c \in RowIds : candidates[c].status = "promoted" => Contains(memory, candidates[c].text) \/ c \in overwritten

MemoryIsKept == TurnsAreKept /\ ItemsAreSound
=============================================================================
