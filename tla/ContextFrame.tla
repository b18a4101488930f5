---------------------------- MODULE ContextFrame -----------------------------
(* The sections of a context beside its messages (runtime/context.py,        *)
(* context_budget.py): instruction files, read through a cache that all      *)
(* builders share, and blocks of text that are clipped to their budgets.     *)
(* Texts are their lengths, or versions; the thread that edits a file        *)
(* truncates it first and writes it then, and time has ticks in which        *)
(* several edits may fall.                                                   *)
EXTENDS Integers, Sequences, SequencesExt, FiniteSets

CONSTANTS Builders,   \* threads that build contexts
          FileEdits,  \* bound: edits of the instruction file
          LastMtime   \* bound of the clock

Least(a, b) == IF a < b THEN a ELSE b
Most(a, b) == IF a > b THEN a ELSE b

---------------------------------------------------------------------------
\* _clip.  What is kept of a text: so much of its beginning and of its end, and
\* a marker between, after or before them.
Marker == 15
WideMarker == 19
Parts(head, tail, marker) == [head |-> head, tail |-> tail, marker |-> marker]

\* text[-keep:], which is the whole text for 0.
LastOf(length, keep) == IF keep = 0 THEN length ELSE Least(keep, length)

\* Mutant of Clip: no limit is too small for a marker.
ClipTiny(length, limit, strategy) ==
    LET keep == limit - Marker
        wide == limit - WideMarker
    IN IF length <= limit THEN Parts(length, 0, 0)
       ELSE CASE strategy = "tail" -> Parts(0, LastOf(length, keep), Marker)
              [] strategy = "head_tail" -> Parts(wide \div 2, LastOf(length, wide - wide \div 2), WideMarker)
              [] OTHER -> Parts(keep, 0, Marker)

Clip(length, limit, strategy) ==
    LET keep == limit - Marker
        wide == limit - WideMarker
    IN IF length <= limit THEN Parts(length, 0, 0)
       ELSE IF limit <= Marker + 8 THEN Parts(limit, 0, 0)
       ELSE CASE strategy = "tail" -> Parts(0, LastOf(length, keep), Marker)
              [] strategy = "head_tail" -> Parts(wide \div 2, LastOf(length, wide - wide \div 2), WideMarker)
              [] OTHER -> Parts(keep, 0, Marker)

Size(kept) == kept.head + kept.tail + kept.marker

\* ContextBudgeter.apply: a floor above the budget is the limit.
ApplyBudget(length, rule) ==
    LET target == Most(1, rule.budget)
        limit == Most(target, Least(rule.floor, length))
    IN IF length <= target THEN Parts(length, 0, 0) ELSE Clip(length, limit, rule.strategy)

Cut(length, rule) == length > Most(1, rule.budget)

\* _build_task_runtime_events_block and its budget: the drained inbox, then the
\* results of background commands, a line each; the positions of the lines that
\* are still whole.
WholeLines(inbox, results, rule) ==
    LET lines == inbox \o results
        Upto[i \in 0..Len(lines)] == IF i = 0 THEN 0 ELSE Upto[i - 1] + lines[i]
        length == Upto[Len(lines)]
        kept == ApplyBudget(length, rule)
    IN {i \in DOMAIN lines : Upto[i] <= kept.head \/ Upto[i - 1] >= length - kept.tail}

\* _build_instruction_block: the files of the mode, each cut at the limit for files,
\* in sections with a budget and a note whether anything was cut.
InstructionFiles(mode) ==
    IF mode = "coding" THEN <<"mode_instructions", "project_instructions">> ELSE <<"mode_instructions">>

InstructionSections(mode, lengths, limit, rule) ==
    LET names == SelectSeq(InstructionFiles(mode), LAMBDA name : lengths[name] > 0)
        read(name) == IF lengths[name] <= limit THEN lengths[name] ELSE limit + Marker + 1
    IN [i \in DOMAIN names |->
           [name |-> names[i], kept |-> ApplyBudget(read(names[i]), rule),
            truncated |-> lengths[names[i]] > limit \/ Cut(read(names[i]), rule)]]

---------------------------------------------------------------------------
VARIABLES
    clock,     \* the time that an edit leaves on the file
    file,      \* the instruction file: its text (0 when truncated) and its mtime
    rewrites,     \* edits begun
    rewriting,   \* one is between truncating and writing
    sharedTimes,   \* history: times that several changes of the file left on it
    entry,     \* _instruction_cache: [mtime, text], mtime 0 for none
    builder    \* per builder: its read of the file

frameVars == <<clock, file, rewrites, rewriting, sharedTimes, entry, builder>>

NoRead == [pc |-> "idle", mtime |-> 0, text |-> 0, cached |-> [mtime |-> 0, text |-> 0], since |-> {}]

FrameInit ==
    /\ clock = 1 /\ file = [text |-> 1, mtime |-> 1] /\ rewrites = 1 /\ rewriting = FALSE /\ sharedTimes = {}
    /\ entry = [mtime |-> 0, text |-> 0] /\ builder = [b \in Builders |-> NoRead]

PassMtime == clock < LastMtime /\ clock' = clock + 1 /\ UNCHANGED <<file, rewrites, rewriting, sharedTimes, entry, builder>>

\* The file gets a text at this time; builders that read it may find it.
FileGets(text) ==
    /\ file' = [text |-> text, mtime |-> clock]
    /\ sharedTimes' = IF file.mtime = clock THEN sharedTimes \union {clock} ELSE sharedTimes
    /\ builder' = [b \in Builders |-> [builder[b] EXCEPT !.since = @ \union {text}]]
    /\ UNCHANGED <<clock, entry>>

TruncateFile == ~rewriting /\ rewrites < FileEdits /\ rewriting' = TRUE /\ rewrites' = rewrites + 1 /\ FileGets(0)
WriteFile == rewriting /\ rewriting' = FALSE /\ FileGets(rewrites) /\ UNCHANGED rewrites

Reads(b, from, read) ==
    /\ builder[b].pc = from
    /\ builder' = [builder EXCEPT ![b] = read]
    /\ UNCHANGED <<clock, file, rewrites, rewriting, sharedTimes>>

\* The mtime is asked first; a file that is not there, or cannot be read, is empty
\* and is not cached.
StatFile(b) ==
    /\ Reads(b, "idle", [NoRead EXCEPT !.pc = "cache", !.mtime = file.mtime, !.since = {file.text}])
    /\ UNCHANGED entry

LookUpFile(b) ==
    LET fresh == entry.mtime = builder[b].mtime
    IN /\ Reads(b, "cache", [builder[b] EXCEPT !.cached = entry, !.text = IF fresh THEN entry.text ELSE @,
                                               !.pc = IF fresh THEN "use" ELSE "read"])
       /\ UNCHANGED entry

ReadFile(b) ==
    /\ Reads(b, "read", [builder[b] EXCEPT !.text = file.text, !.pc = "store"])
    /\ UNCHANGED entry

ReadFails(b) ==
    /\ Reads(b, "read", NoRead)
    /\ UNCHANGED entry

\* Mutant of StoreFile: the text is stored under the file's present time.
StoreFileLate(b) ==
    /\ Reads(b, "store", [builder[b] EXCEPT !.pc = "use"])
    /\ entry' = [mtime |-> file.mtime, text |-> builder[b].text]

StoreFile(b) ==
    /\ Reads(b, "store", [builder[b] EXCEPT !.pc = "use"])
    /\ entry' = [mtime |-> builder[b].mtime, text |-> builder[b].text]

UseFile(b) == Reads(b, "use", NoRead) /\ UNCHANGED entry

FrameNext ==
    \/ PassMtime \/ TruncateFile \/ WriteFile
    \/ \E b \in Builders : StatFile(b) \/ LookUpFile(b) \/ ReadFile(b) \/ ReadFails(b) \/ StoreFile(b) \/ UseFile(b)

---------------------------------------------------------------------------
\* The instructions a context gets are a text the file had since the builder looked,
\* whatever other builders stored meanwhile, unless the file was changed several
\* times at that mtime (runtime/context.py:355).
InstructionsAreCurrent ==
    \A b \in Builders : builder[b].pc = "use" => builder[b].text \in builder[b].since \/ builder[b].mtime \in sharedTimes

Rules == [budget : {1, 20, 24, 40}, floor : {0, 23, 30}, strategy : {"head", "tail", "head_tail"}]

\* A section is never longer than its budget or its floor, is whole if it fits and
\* says so if it is not; and of the events that a step drained, and no later step
\* will show, the last are kept, in whole lines (runtime/context_budget.py:210).
SectionsFit ==
    /\ \A rule \in Rules, length \in 0..60 :
          LET kept == ApplyBudget(length, rule)
          IN /\ Size(kept) <= Most(Most(1, rule.budget), rule.floor)
             /\ ~Cut(length, rule) => kept.head = length
             /\ kept.head >= 0 /\ kept.tail >= 0
    /\ \A rule \in Rules, limit \in {16, 30}, mode \in {"bot", "coding"} :
          \A lengths \in [{"mode_instructions", "project_instructions"} -> {0, 10, 30, 50}] :
              \A section \in ToSet(InstructionSections(mode, lengths, limit, rule)) :
                  section.truncated \/ section.kept.head = lengths[section.name]
    /\ \A rule \in {rule \in Rules : rule.strategy = "tail" /\ rule.budget > Marker + 8} :
          \A n, m \in 0..3 : \A inbox \in [1..n -> {5, 12}], results \in [1..m -> {7, 17}] :
              LET whole == WholeLines(inbox, results, rule)
              IN \A i \in whole : (i + 1)..(n + m) \subseteq whole
=============================================================================
