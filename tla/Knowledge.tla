----------------------------- MODULE Knowledge ------------------------------
(* The index of the knowledge base and the script that fills it              *)
(* (scripts/ingest_security_kb.py, knowledge/incremental.py).  A file is     *)
(* known by its fingerprint, here a version that no later content repeats;   *)
(* the index holds the chunks of each file, written in batches; the state    *)
(* file says which version of each file was indexed.  The operator runs one  *)
(* ingestion at a time; files change whenever their owners like, and any     *)
(* step of an ingestion may be its last.                                     *)
EXTENDS Naturals, FiniteSets

CONSTANTS SourceFiles, FileChanges, Ingestions

VARIABLES
    version,     \* per file: its content, 0 before the first
    there,       \* the files that exist
    chunks,      \* per file: what the index holds of it, <<version, batch>>
    recorded,    \* the state file: per file the version it names, 0 for none
    readable,    \* "whole", or "torn" by a save that did not end
    sync,        \* the running ingestion
    ingestions,  \* how many were started
    emptied      \* history: files whose record outlived their chunks

knowledgeVars == <<version, there, chunks, recorded, readable, sync, ingestions, emptied>>

Batches == {1, 2}
Whole(v) == {v} \X Batches
NoRecords == [f \in SourceFiles |-> 0]

Resting == [pc |-> "idle", known |-> NoRecords, loaded |-> NoRecords, current |-> {}, todo |-> {},
            file |-> CHOOSE f \in SourceFiles : TRUE, stamp |-> 0, batch |-> 0, content |-> 0, changed |-> {}]

KnowledgeInit ==
    /\ version = NoRecords /\ there = {} /\ chunks = [f \in SourceFiles |-> {}]
    /\ recorded = NoRecords /\ readable = "whole"
    /\ sync = Resting /\ ingestions = 0 /\ emptied = {}

---------------------------------------------------------------------------
\* The owners of the files.
ChangeFile(f) ==
    /\ version[f] < FileChanges
    /\ version' = [version EXCEPT ![f] = @ + 1]
    /\ there' = there \union {f}
    /\ sync' = [sync EXCEPT !.changed = @ \union {f}]
    /\ UNCHANGED <<chunks, recorded, readable, ingestions, emptied>>

RemoveFile(f) ==
    /\ f \in there
    /\ there' = there \ {f}
    /\ sync' = [sync EXCEPT !.changed = @ \union {f}]
    /\ UNCHANGED <<version, chunks, recorded, readable, ingestions, emptied>>

---------------------------------------------------------------------------
NoneRuns == sync.pc \in {"idle", "done"} /\ ingestions < Ingestions

\* --recreate: the collection is dropped, the state file is not.
RecreateCollection ==
    /\ NoneRuns
    /\ ingestions' = ingestions + 1
    /\ chunks' = [f \in SourceFiles |-> {}]
    /\ emptied' = emptied \union {f \in SourceFiles : recorded[f] # 0}
    /\ sync' = Resting
    /\ UNCHANGED <<version, there, recorded, readable>>

\* Without --incremental: every file is added, nothing is removed, and the
\* state file is left alone.  A chunk of an older version is replaced when it
\* has the position and the beginning of a new one.
FullIngest(f) ==
    /\ NoneRuns /\ f \in there
    /\ ingestions' = ingestions + 1
    /\ \E kept \in {{}, chunks[f]} : chunks' = [chunks EXCEPT ![f] = kept \union Whole(version[f])]
    /\ emptied' = emptied \ {f}
    /\ sync' = Resting
    /\ UNCHANGED <<version, there, recorded, readable>>

\* _load_state: a state file that is not JSON counts as empty.
LoadedState == IF readable = "whole" THEN recorded ELSE NoRecords

\* iter_source_files: all files, or as many as --limit-files says (here one).
Listings == {there} \union {s \in SUBSET there : Cardinality(s) = 1}

SyncStart ==
    /\ NoneRuns
    /\ ingestions' = ingestions + 1
    /\ \E current \in Listings :
         sync' = [Resting EXCEPT !.pc = "forget", !.known = LoadedState, !.loaded = LoadedState,
                                 !.current = current, !.todo = current]
    /\ UNCHANGED <<version, there, chunks, recorded, readable, emptied>>

Gone == {f \in SourceFiles : sync.known[f] # 0} \ sync.current

\* Files of the state that were not listed lose their chunks and their record,
\* the record in memory only.
SyncForget(f) ==
    /\ sync.pc = "forget" /\ f \in Gone
    /\ chunks' = [chunks EXCEPT ![f] = {}]
    /\ sync' = [sync EXCEPT !.known[f] = 0]
    /\ emptied' = emptied \union {f}
    /\ UNCHANGED <<version, there, recorded, readable, ingestions>>

SyncForgotten ==
    /\ sync.pc = "forget" /\ Gone = {}
    /\ sync' = [sync EXCEPT !.pc = "walk"]
    /\ UNCHANGED <<version, there, chunks, recorded, readable, ingestions, emptied>>

\* An exception ends the script before the state is saved: the index cannot be
\* reached, or a listed file is gone when it is asked for.
SyncRaises ==
    /\ sync.pc \notin {"idle", "done"}
    /\ sync' = Resting
    /\ UNCHANGED <<version, there, chunks, recorded, readable, ingestions, emptied>>

\* The fingerprint is the known one: nothing to do.
SyncSkip(f) ==
    /\ sync.pc = "walk" /\ f \in sync.todo \intersect there
    /\ sync.known[f] = version[f]
    /\ sync' = [sync EXCEPT !.todo = @ \ {f}]
    /\ UNCHANGED <<version, there, chunks, recorded, readable, ingestions, emptied>>

\* It is not: the old chunks go first.
SyncStat(f) ==
    /\ sync.pc = "walk" /\ f \in sync.todo \intersect there
    /\ sync.known[f] # version[f]
    /\ chunks' = [chunks EXCEPT ![f] = {}]
    /\ sync' = [sync EXCEPT !.pc = "chunk", !.file = f, !.stamp = version[f]]
    /\ UNCHANGED <<version, there, recorded, readable, ingestions, emptied>>

\* The file is read and cut into chunks.
SyncChunk ==
    /\ sync.pc = "chunk" /\ sync.file \in there
    /\ sync' = [sync EXCEPT !.pc = "upsert", !.content = version[sync.file], !.batch = 1]
    /\ UNCHANGED <<version, there, chunks, recorded, readable, ingestions, emptied>>

\* Mutant of SyncUpsert: the fingerprint is taken when the record is made.
SyncUpsertLate ==
    LET f == sync.file
        last == sync.batch = Cardinality(Batches)
    IN /\ sync.pc = "upsert"
       /\ chunks' = [chunks EXCEPT ![f] = @ \union {<<sync.content, sync.batch>>}]
       /\ emptied' = IF last THEN emptied \ {f} ELSE emptied
       /\ sync' = IF last
                  THEN [sync EXCEPT !.pc = "walk", !.todo = @ \ {f}, !.known[f] = version[f]]
                  ELSE [sync EXCEPT !.batch = @ + 1]
       /\ UNCHANGED <<version, there, recorded, readable, ingestions>>

\* upsert_chunks sends one batch; after the last one the record is made.
SyncUpsert ==
    LET f == sync.file
        last == sync.batch = Cardinality(Batches)
    IN /\ sync.pc = "upsert"
       /\ chunks' = [chunks EXCEPT ![f] = @ \union {<<sync.content, sync.batch>>}]
       /\ emptied' = IF last THEN emptied \ {f} ELSE emptied
       /\ sync' = IF last
                  THEN [sync EXCEPT !.pc = "walk", !.todo = @ \ {f}, !.known[f] = sync.stamp]
                  ELSE [sync EXCEPT !.batch = @ + 1]
       /\ UNCHANGED <<version, there, recorded, readable, ingestions>>

\* _save_state writes the file in place: it is torn until the write ends.
SyncSave ==
    /\ sync.pc = "walk" /\ sync.todo = {}
    /\ readable' = "torn"
    /\ sync' = [sync EXCEPT !.pc = "save"]
    /\ UNCHANGED <<version, there, chunks, recorded, ingestions, emptied>>

SyncSaved ==
    /\ sync.pc = "save"
    /\ readable' = "whole" /\ recorded' = sync.known
    /\ sync' = [sync EXCEPT !.pc = "done"]
    /\ UNCHANGED <<version, there, chunks, ingestions, emptied>>

SyncStep ==
    \/ SyncStart \/ SyncForgotten \/ SyncRaises \/ SyncChunk \/ SyncUpsert \/ SyncSave \/ SyncSaved
    \/ \E f \in SourceFiles : SyncForget(f) \/ SyncSkip(f) \/ SyncStat(f)

KnowledgeNext ==
    \/ SyncStep \/ RecreateCollection
    \/ \E f \in SourceFiles : ChangeFile(f) \/ RemoveFile(f) \/ FullIngest(f)

---------------------------------------------------------------------------
\* What the next ingestion will skip is in the index: a file that has the version
\* its record names has all its chunks of that version and no others, whatever
\* ingestions broke off before (knowledge/incremental.py:76).  Excepted are files
\* whose collection was recreated under the state file, or that a limited run
\* took out of the index and then could not save.
RecordsAreHonest ==
    readable = "whole" =>
        \A f \in there \ emptied : recorded[f] = version[f] => chunks[f] = Whole(version[f])

\* After an ingestion the index is what was listed: each file it listed and nobody
\* changed meanwhile is there in full, in its present version only, and a file it
\* did not list is gone, unless no record named it (knowledge/incremental.py:53).
IndexFollowsFiles ==
    sync.pc = "done" =>
        \A f \in SourceFiles \ sync.changed :
            IF f \in sync.current THEN chunks[f] = Whole(version[f]) \/ f \in emptied
            ELSE chunks[f] = {} \/ sync.loaded[f] = 0
=============================================================================
