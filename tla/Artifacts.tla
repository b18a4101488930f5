----------------------------- MODULE Artifacts -----------------------------
(* Sandbox files and stored artifacts of tools/handlers.py.  Every session    *)
(* has a sandbox directory, which any session removes when it was not touched *)
(* for a while; the sessions of a user share the artifacts and their log.     *)
EXTENDS Naturals, FiniteSets

CONSTANTS Owners,   \* sessions of one user
          Paths,    \* destinations in generated/
          LastHour, \* bound on the time; an hour here is longer than max_age_seconds
          Writes    \* bound on the artifacts that are written

VARIABLES now,
          scope,    \* session -> its sandbox directory, and whether there is a file in it
          stored,   \* path -> the artifact that is there, 0 when none is
          records,  \* storage_writes.jsonl
          call,     \* session -> the tool call it is in
          writes,
          dropped,  \* history: artifacts whose call failed, or died, after they were stored
          used,     \* history: session -> when a tool last used its directory
          wrong     \* history: what was lost without a reason

artifactVars == <<now, scope, stored, records, call, writes, dropped, used, wrong>>

NoScope == [mtime |-> 0, file |-> FALSE, is |-> FALSE]
Idle == [step |-> "idle"]
SandboxDirs == {e \in Owners : scope[e].is}

ArtifactsInit ==
    /\ now = 0 /\ writes = 0
    /\ scope = [s \in Owners |-> NoScope]
    /\ stored = [p \in Paths |-> 0] /\ records = {}
    /\ call = [s \in Owners |-> Idle]
    /\ dropped = {} /\ wrong = {}
    /\ used = [s \in Owners |-> 0]

To(s, c) == call' = [call EXCEPT ![s] = c]
Touched(s) == [scope EXCEPT ![s].mtime = now]
Use(s) == used' = [used EXCEPT ![s] = now]

Tick == /\ now < LastHour /\ now' = now + 1
        /\ UNCHANGED <<scope, stored, records, call, writes, dropped, used, wrong>>

---------------------------------------------------------------------------
(* _sandbox_scope_root: expired directories first, then one's own *)

SandboxCall(s, tool) ==
    /\ call[s] = Idle
    /\ To(s, [step |-> "cleanup", tool |-> tool, todo |-> SandboxDirs])
    /\ UNCHANGED <<now, scope, stored, records, writes, dropped, used, wrong>>

Expired(e) == now > scope[e].mtime

\* One directory after the other, in one order.  One that another session's
\* cleanup has removed makes the call fail.
CleanupLook(s) ==
    /\ call[s].step = "cleanup" /\ call[s].todo # {}
    /\ LET e == CHOOSE x \in call[s].todo : TRUE
           rest == [call[s] EXCEPT !.todo = @ \ {e}]
       IN To(s, CASE ~scope[e].is -> Idle
                  [] scope[e].is /\ Expired(e) ->
                         [step |-> "remove", victim |-> e, idle |-> now - used[e], then |-> rest]
                  [] OTHER -> rest)
    /\ UNCHANGED <<now, scope, stored, records, writes, dropped, used, wrong>>

CleanupRemove(s) ==
    /\ call[s].step = "remove"
    /\ LET e == call[s].victim
       IN IF scope[e].is
          THEN /\ scope' = [scope EXCEPT ![e] = NoScope]
               /\ wrong' = IF scope[e].file /\ call[s].idle = 0 THEN wrong \cup {e} ELSE wrong
               /\ used' = [used EXCEPT ![e] = 0]
               /\ To(s, call[s].then)
          ELSE To(s, Idle) /\ UNCHANGED <<scope, used, wrong>>
    /\ UNCHANGED <<now, stored, records, writes, dropped>>

SandboxEnter(s) ==
    /\ call[s].step = "cleanup" /\ call[s].todo = {}
    /\ scope' = [scope EXCEPT ![s] = [@ EXCEPT !.mtime = now, !.is = TRUE]]
    /\ Use(s) /\ To(s, [step |-> call[s].tool])
    /\ UNCHANGED <<now, stored, records, writes, dropped, wrong>>

\* run_sandbox_list and run_sandbox_read; without the file, reading fails.
SandboxRead(s) ==
    /\ call[s].step = "read" /\ To(s, Idle)
    /\ \/ scope[s].is /\ scope' = Touched(s) /\ Use(s)
       \/ ~scope[s].file /\ UNCHANGED <<scope, used>>
    /\ UNCHANGED <<now, stored, records, writes, dropped, wrong>>

\* Mutant of SandboxWrite: the directory is not touched at the end.
SandboxWriteUntouched(s) ==
    /\ call[s].step = "write"
    /\ scope' = [scope EXCEPT ![s] = [mtime |-> IF @.is THEN @.mtime ELSE now, file |-> TRUE, is |-> TRUE]]
    /\ Use(s) /\ To(s, Idle)
    /\ UNCHANGED <<now, stored, records, writes, dropped, wrong>>

\* The parents are made again when the directory was removed meanwhile.
SandboxWrite(s) ==
    /\ call[s].step = "write"
    /\ scope' = [scope EXCEPT ![s] = [mtime |-> now, file |-> TRUE, is |-> TRUE]]
    /\ Use(s) /\ To(s, Idle)
    /\ UNCHANGED <<now, stored, records, writes, dropped, wrong>>

---------------------------------------------------------------------------
(* run_storage_write and run_publish_artifact *)

StoreCheck(s, p) ==
    /\ call[s] = Idle /\ writes < Writes /\ stored[p] = 0
    /\ writes' = writes + 1
    /\ To(s, [step |-> "replace", path |-> p, content |-> writes', publish |-> FALSE, had |-> stored[p]])
    /\ UNCHANGED <<now, scope, stored, records, dropped, used, wrong>>

PublishCheck(s, p) ==
    /\ call[s].step = "publish" /\ scope[s].file /\ stored[p] = 0 /\ writes < Writes
    /\ writes' = writes + 1
    /\ To(s, [step |-> "replace", path |-> p, content |-> writes', publish |-> TRUE, had |-> stored[p]])
    /\ UNCHANGED <<now, scope, stored, records, dropped, used, wrong>>

\* Refused: no sandbox file, the destination exists, or the arguments are bad.
PublishRefused(s) ==
    /\ call[s].step = "publish" /\ To(s, Idle)
    /\ UNCHANGED <<now, scope, stored, records, writes, dropped, used, wrong>>

\* The temporary file replaces whatever is at the path by now.
Replace(s) ==
    /\ call[s].step = "replace"
    /\ call[s].publish => scope[s].file
    /\ LET p == call[s].path
       IN /\ stored' = [stored EXCEPT ![p] = call[s].content]
          /\ wrong' = IF call[s].had # 0 THEN wrong \cup {call[s].had} ELSE wrong
    /\ To(s, [call[s] EXCEPT !.step = "record"])
    /\ UNCHANGED <<now, scope, records, writes, dropped, used>>

ReplaceRaises(s) ==
    /\ call[s].step = "replace" /\ To(s, Idle)
    /\ UNCHANGED <<now, scope, stored, records, writes, dropped, used, wrong>>

AppendRecord(s) ==
    /\ call[s].step = "record"
    /\ records' = records \cup {[path |-> call[s].path, content |-> call[s].content]}
    /\ IF call[s].publish /\ scope[s].is THEN scope' = Touched(s) /\ Use(s) ELSE UNCHANGED <<scope, used>>
    /\ To(s, Idle)
    /\ UNCHANGED <<now, stored, writes, dropped, wrong>>

\* The tool answers with an error, though the artifact is there.
RecordRaises(s) ==
    /\ call[s].step = "record" /\ To(s, Idle)
    /\ dropped' = dropped \cup {call[s].content}
    /\ UNCHANGED <<now, scope, stored, records, writes, used, wrong>>

\* The process dies: what it was doing stops anywhere.
ArtifactsCrash ==
    /\ \E s \in Owners : call[s] # Idle
    /\ dropped' = dropped \cup {call[s].content : s \in {o \in Owners : call[o].step = "record"}}
    /\ call' = [s \in Owners |-> Idle]
    /\ UNCHANGED <<now, scope, stored, records, writes, used, wrong>>

ArtifactsNext ==
    \/ Tick \/ ArtifactsCrash
    \/ \E s \in Owners :
           \/ \E tool \in {"read", "write", "publish"} : SandboxCall(s, tool)
           \/ CleanupLook(s) \/ CleanupRemove(s) \/ SandboxEnter(s) \/ SandboxRead(s) \/ SandboxWrite(s)
           \/ \E p \in Paths : StoreCheck(s, p) \/ PublishCheck(s, p)
           \/ PublishRefused(s) \/ Replace(s) \/ ReplaceRaises(s) \/ AppendRecord(s) \/ RecordRaises(s)

---------------------------------------------------------------------------
\* Every artifact at its path is in the log, or its call is about to add it, or
\* was answered with an error.  None is replaced but by a call that looked at the
\* path before it was there, and a sandbox file only disappears when
\* a cleanup found its session inactive for longer than the maximal age.
ArtifactsAreAccounted ==
    /\ \A p \in Paths : stored[p] = 0 \/ stored[p] \in dropped
           \/ [path |-> p, content |-> stored[p]] \in records
           \/ \E s \in Owners : call[s].step = "record" /\ call[s].content = stored[p]
    /\ wrong = {}
=============================================================================
