----------------------------- MODULE Workspace -----------------------------
(* The file tools of tools/handlers.py.  Sessions (a task, its parallel code  *)
(* subagents, teammates, other processes) share one workspace; each keeps the *)
(* outputs of its reading tools in its metadata until it writes itself.  The  *)
(* content of a file is the sequence of the changes that are in it.           *)
EXTENDS Naturals, Sequences, SequencesExt

CONSTANTS Files, Sessions,
          Tools,    \* the reading tools that sessions use
          Changes,  \* bound on the changes
          Reloads   \* how often a session is loaded again from the database

CONSTANTS Budget,     \* characters of a page, without the room for its notice
          Preview,    \* lines a subagent is shown of a large file
          LargeFile,  \* lines from which on a file is large
          ListPage    \* entries of a page of list_files

VARIABLES disk,      \* file -> its changes, Absent, or Torn
          kept,      \* session -> its cache, and the change to each file it was told of
          saved,     \* the same in the database
          editing,   \* what a session's edit_file has read
          changes, reloads

filesVars == <<disk, kept, saved, editing, changes, reloads>>

NoFile == <<>>
TornFile == <<0>>
NotEditing == [file |-> "none"]
Nothing == [cache |-> <<>>, told |-> [f \in Files |-> 0]]

WorkspaceInit ==
    /\ disk = [f \in Files |-> NoFile]
    /\ kept = [s \in Sessions |-> Nothing] /\ saved = kept
    /\ editing = [s \in Sessions |-> NotEditing]
    /\ changes = 0 /\ reloads = 0

---------------------------------------------------------------------------
(* What the tools show of the workspace *)

Existing == {f \in Files : disk[f] # NoFile}
ListFiles == Existing
RunGrep == [f \in Existing |-> disk[f]]
RunRg == RunGrep
\* The map has sizes and line counts, from which different texts may differ.
RepoMap == [f \in Existing |-> Len(disk[f])]
RunRead(f) == disk[f]
RunNl(f) == disk[f]
CodeOutline(f) == disk[f]

Queries == [tool : Tools \cap {"list_files", "grep", "rg", "repo_map"}, file : {"all"}]
           \cup [tool : Tools \cap {"read_file", "nl", "code_outline"}, file : Files]

View(q) == CASE q.tool = "list_files" -> ListFiles
             [] q.tool = "grep" -> RunGrep
             [] q.tool = "rg" -> RunRg
             [] q.tool = "repo_map" -> RepoMap
             [] q.tool = "read_file" -> RunRead(q.file)
             [] q.tool = "nl" -> RunNl(q.file)
             [] q.tool = "code_outline" -> CodeOutline(q.file)

\* Only rg asks the disk each time; an error is not kept.
Keeps(q) == q.tool # "rg" /\ (q.file = "all" \/ disk[q.file] # NoFile)

Cache(s) == kept[s].cache
WithEntry(cache, q) == [p \in DOMAIN cache \cup {q} |-> IF p = q THEN [view |-> View(q), at |-> changes] ELSE cache[p]]

\* An output that is kept is what the next call is answered with, as long as it is
\* kept and whatever the disk has by then.
CacheGet(s, q) == q \in DOMAIN Cache(s)

CacheSet(s, q) == kept' = IF Keeps(q) THEN [kept EXCEPT ![s].cache = WithEntry(@, q)] ELSE kept

Read(s, q) == /\ editing[s] = NotEditing
              /\ ~CacheGet(s, q) /\ CacheSet(s, q)
              /\ UNCHANGED <<disk, saved, editing, changes, reloads>>

---------------------------------------------------------------------------
(* Changes *)

Change == changes < Changes /\ changes' = changes + 1

Cleared(s, f) == [kept EXCEPT ![s] = [cache |-> <<>>, told |-> [@.told EXCEPT ![f] = changes']]]

RunWrite(s, f) == /\ editing[s] = NotEditing /\ Change
                  /\ disk' = [disk EXCEPT ![f] = <<changes'>>]
                  /\ kept' = Cleared(s, f)
                  /\ UNCHANGED <<saved, editing, reloads>>

\* The file is truncated and the write raises: the cache stays as it is.
WriteRaises(s, f) == /\ editing[s] = NotEditing /\ Change
                     /\ disk' = [disk EXCEPT ![f] = TornFile]
                     /\ UNCHANGED <<kept, saved, editing, reloads>>

EditRead(s, f) == /\ editing[s] = NotEditing /\ disk[f] \notin {NoFile, TornFile}
                  /\ editing' = [editing EXCEPT ![s] = [file |-> f, content |-> disk[f]]]
                  /\ UNCHANGED <<disk, kept, saved, changes, reloads>>

\* Mutant of EditWrite: the cache is not cleared.
EditWriteCached(s) ==
    /\ editing[s] # NotEditing /\ Change
    /\ LET f == editing[s].file
       IN /\ disk' = [disk EXCEPT ![f] = Append(editing[s].content, changes')]
          /\ kept' = [kept EXCEPT ![s].told[f] = changes']
    /\ editing' = [editing EXCEPT ![s] = NotEditing]
    /\ UNCHANGED <<saved, reloads>>

\* What was read is written back with the change, whatever the file holds now.
EditWrite(s) ==
    /\ editing[s] # NotEditing /\ Change
    /\ LET f == editing[s].file
       IN /\ disk' = [disk EXCEPT ![f] = Append(editing[s].content, changes')]
          /\ kept' = Cleared(s, f)
    /\ editing' = [editing EXCEPT ![s] = NotEditing]
    /\ UNCHANGED <<saved, reloads>>

EditRaises(s) == /\ editing[s] # NotEditing /\ Change
                 /\ disk' = [disk EXCEPT ![editing[s].file] = TornFile]
                 /\ editing' = [editing EXCEPT ![s] = NotEditing]
                 /\ UNCHANGED <<kept, saved, reloads>>

\* A shell command writes, appends to or deletes a file; git commands do as well.
RunBash(s, f) == /\ editing[s] = NotEditing /\ Change
                 /\ \E c \in {<<changes'>>, Append(disk[f], changes'), NoFile} : disk' = [disk EXCEPT ![f] = c]
                 /\ UNCHANGED <<kept, saved, editing, reloads>>

SaveSession(s) == /\ saved[s] # kept[s] /\ editing[s] = NotEditing
                  /\ saved' = [saved EXCEPT ![s] = kept[s]]
                  /\ UNCHANGED <<disk, kept, editing, changes, reloads>>

\* A new process: what happened since the last save is forgotten.
LoadSession(s) == /\ reloads < Reloads /\ reloads' = reloads + 1
                  /\ kept' = [kept EXCEPT ![s] = saved[s]]
                  /\ editing' = [editing EXCEPT ![s] = NotEditing]
                  /\ UNCHANGED <<disk, saved, changes>>

WorkspaceNext ==
    \E s \in Sessions :
        \/ \E q \in Queries : Read(s, q)
        \/ \E f \in Files : RunWrite(s, f) \/ WriteRaises(s, f) \/ EditRead(s, f) \/ RunBash(s, f)
        \/ EditWrite(s) \/ EditRaises(s) \/ SaveSession(s) \/ LoadSession(s)

---------------------------------------------------------------------------
\* As far as it remembers, a session is never shown a file as it was before its
\* own latest successful change to it.
OwnChangesAreSeen ==
    \A s \in Sessions : \A q \in DOMAIN Cache(s) :
        \A f \in Files : q.file \in {f, "all"} => Cache(s)[q].at >= kept[s].told[f]

---------------------------------------------------------------------------
(* How the reading tools cut long outputs into pages: a line is its length, a page  *)
(* the lines it shows and where it tells the model to continue.                      *)

None == 0

\* _fit_lines_to_chars: how many of the lines fit, with the newlines between
\* them; the first one is cut when it does not fit by itself.
Used[lines \in Seq(Nat)] == IF lines = <<>> THEN 0
                            ELSE Used[SubSeq(lines, 1, Len(lines) - 1)] + lines[Len(lines)]
                                 + (IF Len(lines) > 1 THEN 1 ELSE 0)

\* Mutant of FitLines: a page whose first line does not fit is empty.
FitLinesWhole(lines) ==
    [count |-> CHOOSE n \in 0..Len(lines) :
                   /\ Used[SubSeq(lines, 1, n)] <= Budget
                   /\ n = Len(lines) \/ Used[SubSeq(lines, 1, n + 1)] > Budget,
     limited |-> Used[lines] > Budget]

FitLines(lines) ==
    LET fit == CHOOSE n \in 0..Len(lines) :
                   /\ Used[SubSeq(lines, 1, n)] <= Budget
                   /\ n = Len(lines) \/ Used[SubSeq(lines, 1, n + 1)] > Budget
    IN [count |-> IF fit = 0 /\ lines # <<>> THEN 1 ELSE fit, limited |-> fit < Len(lines)]

\* _format_line_window.  A page ends at next; there is more when next < total,
\* and the notice repeats the limit, or gives the length of this page.
LineWindow(lines, offset, limit) ==
    LET total == Len(lines)
        from == IF offset < total THEN offset ELSE total
        end == IF limit = None \/ from + limit > total THEN total ELSE from + limit
        fit == FitLines(SubSeq(lines, from + 1, end))
        next == IF fit.limited THEN from + fit.count ELSE end
    IN [from |-> from, next |-> next, more |-> next < total,
        limit |-> IF limit # None THEN limit ELSE IF next > from THEN next - from ELSE 1]

\* _format_repo_map_window: the same without a limit, also when it continues.
RepoMapWindow(lines, offset) == [LineWindow(lines, offset, None) EXCEPT !.limit = None]

\* run_list_files: entries, not characters, are counted.
ListWindow(entries, offset) ==
    LET rest == IF offset < Len(entries) THEN Len(entries) - offset ELSE 0
        next == offset + (IF rest < ListPage THEN rest ELSE ListPage)
    IN [from |-> offset, next |-> next, more |-> next < Len(entries), limit |-> None]

\* run_read by a subagent: a large file is first shown by its beginning.
ReadWindow(lines, offset, limit, subagent) ==
    IF subagent /\ limit = None /\ offset = 0 /\ Len(lines) > LargeFile
    THEN LineWindow(lines, 0, Preview)
    ELSE LineWindow(lines, offset, limit)

---------------------------------------------------------------------------
\* Following the notices from one page to the next shows every line once, in
\* order, and comes to an end.
Covers(lines, Window(_, _)) ==
    LET Pages[at \in [offset : 0..Len(lines), limit : Nat, left : Nat]] ==
            LET page == Window(at.offset, at.limit)
            IN /\ page.from = at.offset /\ page.next <= Len(lines)
               /\ page.more => /\ at.left > 0 /\ page.next > page.from
                               /\ Pages[[offset |-> page.next, limit |-> page.limit, left |-> at.left - 1]]
               /\ ~page.more => page.next = Len(lines)
    IN \A limit \in 0..Len(lines) : Pages[[offset |-> 0, limit |-> limit, left |-> Len(lines)]]

\* A page is over the budget only when it is one line, which is cut.
FitsBudget(lines, page) == \/ Used[SubSeq(lines, page.from + 1, page.next)] <= Budget
                           \/ page.next = page.from + 1

PagesCover(lines) ==
    /\ Covers(lines, LAMBDA offset, limit : LineWindow(lines, offset, limit))
    /\ Covers(lines, LAMBDA offset, limit : RepoMapWindow(lines, offset))
    /\ Covers(lines, LAMBDA offset, limit : ReadWindow(lines, offset, limit, TRUE))
    /\ Covers(lines, LAMBDA offset, limit : ListWindow(lines, offset))
    /\ \A offset, limit \in 0..Len(lines) : FitsBudget(lines, LineWindow(lines, offset, limit))
=============================================================================
