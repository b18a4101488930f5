--------------------------- MODULE WorkbenchProofs ---------------------------
(* Theorems about the parts of Workbench.  Each part has an inductive         *)
(* invariant over its own variables, which the other parts leave alone: those *)
(* of WorkRecordsProofs, and here those of the files and artifacts, of the    *)
(* fan-outs, of the knowledge base and its search, of the modes with their    *)
(* tools, and of the sections of a context.                                   *)
EXTENDS Workbench, WorkRecordsProofs, Recursion

---------------------------------------------------------------------------
(* Files and the outputs of reading tools *)

\* What a session has kept, when there were n changes: no output of it is older
\* than the latest change of its file that the session was told of.
Informed(k, n) ==
    /\ k = [cache |-> k.cache, told |-> k.told] /\ k.told \in [Files -> Nat]
    /\ \A f \in Files : k.told[f] <= n
    /\ \A q \in DOMAIN k.cache : \A f \in Files : q.file \in {f, "all"} => k.cache[q].at >= k.told[f]

FilesInv ==
    /\ changes \in Nat /\ kept = [s \in Sessions |-> kept[s]] /\ saved = [s \in Sessions |-> saved[s]]
    /\ \A s \in Sessions : Informed(kept[s], changes) /\ Informed(saved[s], changes)

LEMMA FilesStart == WorkspaceInit => FilesInv
<1> SUFFICES ASSUME WorkspaceInit PROVE FilesInv
  OBVIOUS
<1>1. Informed(Nothing, 0)
  BY DEF Informed, Nothing
<1>2. changes = 0 /\ kept = [s \in Sessions |-> Nothing] /\ saved = kept
  BY DEF WorkspaceInit
<1> QED BY <1>1, <1>2 DEF FilesInv

\* More changes by others do not make what was kept older.
LEMMA InformedLater ==
  ASSUME NEW k, NEW n \in Nat, NEW m \in Nat, n <= m, Informed(k, n)
  PROVE  Informed(k, m)
<1>1. \A f \in Files : k.told[f] \in Nat /\ k.told[f] <= n
  BY DEF Informed
<1>2. \A f \in Files : k.told[f] <= m
  BY <1>1
<1> QED BY <1>2 DEF Informed

LEMMA InformedByReading ==
  ASSUME NEW k, NEW n \in Nat, Informed(k, n), NEW q, NEW view,
         NEW new, new = [cache |-> [p \in DOMAIN k.cache \cup {q} |-> IF p = q THEN [view |-> view, at |-> n] ELSE k.cache[p]],
                         told |-> k.told]
  PROVE  Informed(new, n)
<1>1. /\ new = [cache |-> new.cache, told |-> new.told] /\ new.told = k.told
      /\ new.cache = [p \in DOMAIN k.cache \cup {q} |-> IF p = q THEN [view |-> view, at |-> n] ELSE k.cache[p]]
  OBVIOUS
<1>2. ASSUME NEW p \in DOMAIN new.cache, NEW f \in Files, p.file \in {f, "all"} PROVE new.cache[p].at >= new.told[f]
  <2>1. k.told[f] \in Nat /\ k.told[f] <= n
    BY DEF Informed
  <2>2. CASE p = q
    <3>1. new.cache[p].at = n
      BY <1>1, <2>2
    <3> QED BY <1>1, <2>1, <3>1
  <2>3. CASE p # q
    <3>1. p \in DOMAIN k.cache /\ new.cache[p] = k.cache[p]
      BY <1>1, <2>3
    <3> QED BY <1>1, <1>2, <3>1 DEF Informed
  <2> QED BY <2>2, <2>3
<1> QED BY <1>1, <1>2 DEF Informed

LEMMA InformedByWriting ==
  ASSUME NEW k, NEW n \in Nat, Informed(k, n), NEW f \in Files,
         NEW new, new = [cache |-> <<>>, told |-> [k.told EXCEPT ![f] = n + 1]]
  PROVE  Informed(new, n + 1)
<1>1. new = [cache |-> new.cache, told |-> new.told] /\ new.told = [k.told EXCEPT ![f] = n + 1] /\ new.cache = <<>>
  OBVIOUS
<1>2. k.told \in [Files -> Nat] /\ \A g \in Files : k.told[g] \in Nat /\ k.told[g] <= n
  BY DEF Informed
<1>3. new.told \in [Files -> Nat] /\ \A g \in Files : new.told[g] <= n + 1
  BY <1>1, <1>2
<1> QED BY <1>1, <1>3 DEF Informed

\* What is still to be shown of a step: what the session has now, and that the others have what they had.
LEMMA SessionsInformed ==
  ASSUME FilesInv, NEW s \in Sessions, NEW new, kept' = [kept EXCEPT ![s] = new],
         changes' \in {changes, changes + 1}, Informed(new, changes'),
         saved' = saved \/ saved' = [saved EXCEPT ![s] = kept[s]]
  PROVE  FilesInv'
<1>1. changes \in Nat /\ changes' \in Nat /\ changes <= changes'
  BY DEF FilesInv
<1>2. \A t \in Sessions : Informed(kept[t], changes') /\ Informed(saved[t], changes')
  BY <1>1, InformedLater DEF FilesInv
<1>3. \A t \in Sessions : kept'[t] = IF t = s THEN new ELSE kept[t]
  BY DEF FilesInv
<1>4. \A t \in Sessions : saved'[t] \in {saved[t], kept[t]}
  BY DEF FilesInv
<1>5. kept' = [t \in Sessions |-> kept'[t]] /\ saved' = [t \in Sessions |-> saved'[t]]
  BY DEF FilesInv
<1>6. \A t \in Sessions : Informed(kept'[t], changes')
  BY <1>2, <1>3
<1>7. \A t \in Sessions : Informed(saved'[t], changes')
  BY <1>2, <1>4
<1> QED BY <1>1, <1>5, <1>6, <1>7 DEF FilesInv

LEMMA FilesStutter == FilesInv /\ UNCHANGED <<kept, saved, changes>> => FilesInv'
BY DEF FilesInv

LEMMA NothingTold ==
  ASSUME FilesInv, changes' \in {changes, changes + 1}, UNCHANGED <<kept, saved>>
  PROVE  FilesInv'
<1>1. changes \in Nat /\ changes' \in Nat /\ changes <= changes'
  BY DEF FilesInv
<1>2. \A t \in Sessions : Informed(kept[t], changes') /\ Informed(saved[t], changes')
  BY <1>1, InformedLater DEF FilesInv
<1> QED BY <1>1, <1>2 DEF FilesInv

LEMMA ReadKeeps == ASSUME FilesInv, NEW s \in Sessions, NEW q \in Queries, Read(s, q) PROVE FilesInv'
<1>1. UNCHANGED <<saved, changes>> /\ CacheSet(s, q) /\ changes \in Nat /\ kept[s] = [cache |-> kept[s].cache, told |-> kept[s].told]
      /\ Informed(kept[s], changes)
  BY DEF Read, FilesInv, Informed
<1>2. CASE ~Keeps(q)
  BY <1>1, <1>2, FilesStutter DEF CacheSet
<1>3. CASE Keeps(q)
  <2>1. PICK new : new = [cache |-> WithEntry(kept[s].cache, q), told |-> kept[s].told]
    OBVIOUS
  <2>2. kept' = [kept EXCEPT ![s] = new]
    <3>1. kept' = [kept EXCEPT ![s].cache = WithEntry(@, q)]
      BY <1>1, <1>3 DEF CacheSet
    <3>2. [kept[s] EXCEPT !.cache = WithEntry(kept[s].cache, q)] = new
      BY <1>1, <2>1
    <3> QED BY <3>1, <3>2
  <2>3. Informed(new, changes)
    <3>1. PICK view : view = View(q)
      OBVIOUS
    <3>2. new = [cache |-> [p \in DOMAIN kept[s].cache \cup {q} |-> IF p = q THEN [view |-> view, at |-> changes] ELSE kept[s].cache[p]],
                 told |-> kept[s].told]
      BY <2>1, <3>1 DEF WithEntry
    <3> QED BY <1>1, <3>2, InformedByReading
  <2> QED BY <1>1, <2>2, <2>3, SessionsInformed
<1> QED BY <1>2, <1>3

LEMMA ClearedKeeps ==
  ASSUME FilesInv, NEW s \in Sessions, NEW f \in Files, changes' = changes + 1, kept' = Cleared(s, f), UNCHANGED saved
  PROVE  FilesInv'
<1>1. PICK new : new = [cache |-> <<>>, told |-> [kept[s].told EXCEPT ![f] = changes + 1]]
  OBVIOUS
<1>2. kept' = [kept EXCEPT ![s] = new]
  BY <1>1 DEF Cleared
<1>3. Informed(new, changes')
  BY <1>1, InformedByWriting DEF FilesInv
<1> QED BY <1>2, <1>3, SessionsInformed

\* What a session has read to edit is a file's.
EditsAreOfFiles == DOMAIN editing = Sessions /\ \A s \in Sessions : editing[s] # NotEditing => editing[s].file \in Files

LEMMA FilesStep == FilesInv /\ EditsAreOfFiles /\ WorkspaceNext => FilesInv'
<1> SUFFICES ASSUME FilesInv, EditsAreOfFiles, NEW s \in Sessions,
                    \/ \E q \in Queries : Read(s, q)
                    \/ \E f \in Files : RunWrite(s, f) \/ WriteRaises(s, f) \/ EditRead(s, f) \/ RunBash(s, f)
                    \/ EditWrite(s) \/ EditRaises(s) \/ SaveSession(s) \/ LoadSession(s)
             PROVE  FilesInv'
  BY DEF WorkspaceNext
<1>1. CASE \E q \in Queries : Read(s, q)
  BY <1>1, ReadKeeps
<1>2. ASSUME NEW f \in Files, RunWrite(s, f) PROVE FilesInv'
  BY <1>2, ClearedKeeps DEF RunWrite, Change
<1>3. ASSUME NEW f \in Files, WriteRaises(s, f) \/ EditRead(s, f) \/ RunBash(s, f) PROVE FilesInv'
  BY <1>3, NothingTold DEF WriteRaises, EditRead, RunBash, Change
<1>4. CASE EditWrite(s)
  BY <1>4, ClearedKeeps DEF EditWrite, Change, EditsAreOfFiles
<1>5. CASE EditRaises(s)
  BY <1>5, NothingTold DEF EditRaises, Change
<1>6. CASE SaveSession(s)
  <2>1. kept' = [kept EXCEPT ![s] = kept[s]] /\ changes' = changes /\ saved' = [saved EXCEPT ![s] = kept[s]]
    BY <1>6 DEF SaveSession, FilesInv
  <2>2. Informed(kept[s], changes')
    BY <2>1 DEF FilesInv
  <2> QED BY <2>1, <2>2, SessionsInformed
<1>7. CASE LoadSession(s)
  <2>1. kept' = [kept EXCEPT ![s] = saved[s]] /\ changes' = changes /\ saved' = saved
    BY <1>7 DEF LoadSession
  <2>2. Informed(saved[s], changes')
    BY <2>1 DEF FilesInv
  <2> QED BY <2>1, <2>2, SessionsInformed
<1> QED BY <1>1, <1>2, <1>3, <1>4, <1>5, <1>6, <1>7

LEMMA EditsStart == WorkspaceInit => EditsAreOfFiles
BY DEF WorkspaceInit, EditsAreOfFiles

LEMMA EditsKeep == EditsAreOfFiles /\ [WorkspaceNext]_filesVars => EditsAreOfFiles'
<1> SUFFICES ASSUME EditsAreOfFiles, WorkspaceNext \/ UNCHANGED editing PROVE EditsAreOfFiles'
  BY DEF filesVars
<1>1. CASE UNCHANGED editing
  BY <1>1 DEF EditsAreOfFiles
<1>2. ASSUME NEW s \in Sessions, NEW e, e = NotEditing \/ e.file \in Files, editing' = [editing EXCEPT ![s] = e]
      PROVE EditsAreOfFiles'
  BY <1>2 DEF EditsAreOfFiles
<1>3. ASSUME NEW s \in Sessions, NEW f \in Files, EditRead(s, f) PROVE EditsAreOfFiles'
  <2>1. PICK e : e = [file |-> f, content |-> disk[f]]
    OBVIOUS
  <2> QED BY <1>2, <1>3, <2>1 DEF EditRead
<1> QED BY <1>1, <1>2, <1>3 DEF WorkspaceNext, Read, RunWrite, WriteRaises, RunBash, EditWrite, EditRaises, SaveSession, LoadSession

LEMMA OwnChangesSeen == FilesInv => OwnChangesAreSeen
BY DEF FilesInv, OwnChangesAreSeen, Informed, Cache

---------------------------------------------------------------------------
(* Sandbox files and artifacts *)

Cleanups == [step : {"cleanup"}, tool : {"read", "write", "publish"}, todo : SUBSET Owners]
Storings == [step : {"replace", "record"}, path : Paths, content : Nat \ {0}, publish : BOOLEAN, had : {0}]
ArtifactCalls == {Idle} \cup Cleanups \cup [step : {"remove"}, victim : Owners, idle : Nat \ {0}, then : Cleanups]
                 \cup [step : {"read", "write", "publish"}] \cup Storings
Scopes == [mtime : Nat, file : BOOLEAN, is : BOOLEAN]

ArtifactTypes ==
    /\ now \in Nat /\ writes \in Nat /\ scope \in [Owners -> Scopes] /\ used \in [Owners -> Nat]
    /\ stored \in [Paths -> Nat] /\ \A p \in Paths : stored[p] <= writes
    /\ call \in [Owners -> ArtifactCalls]

Stores(c) == c.step \in {"replace", "record"}

\* A call that stores has a content of its own, which is at its path or nowhere.
StoringIs(c, count, at) ==
    Stores(c) => /\ c.content <= count
                 /\ \A p \in Paths : at[p] = c.content => c.step = "record" /\ c.path = p
ContentsDiffer(c, d) == Stores(c) /\ Stores(d) => c.content # d.content

Accounted(p) == \/ stored[p] = 0 \/ stored[p] \in dropped
                \/ [path |-> p, content |-> stored[p]] \in records
                \/ \E s \in Owners : call[s].step = "record" /\ call[s].content = stored[p]

\* The directory has the time of the last use.
ScopesMatch == \A s \in Owners : scope[s].mtime = used[s]

ArtifactInv ==
    /\ ArtifactTypes /\ ScopesMatch /\ wrong = {}
    /\ \A s \in Owners : StoringIs(call[s], writes, stored)
    /\ \A s, t \in Owners : s # t => ContentsDiffer(call[s], call[t])
    /\ \A p \in Paths : Accounted(p)

LEMMA ArtifactsStart == ArtifactsInit => ArtifactInv
<1> SUFFICES ASSUME ArtifactsInit PROVE ArtifactInv
  OBVIOUS
<1>1. NoScope \in Scopes /\ NoScope.mtime = 0 /\ Idle \in ArtifactCalls /\ ~Stores(Idle)
  BY DEF NoScope, Scopes, Idle, ArtifactCalls, Stores
<1>2. /\ now = 0 /\ writes = 0 /\ scope = [s \in Owners |-> NoScope] /\ stored = [p \in Paths |-> 0]
      /\ call = [s \in Owners |-> Idle] /\ wrong = {} /\ used = [s \in Owners |-> 0]
  BY DEF ArtifactsInit
<1>3. ArtifactTypes /\ ScopesMatch /\ \A p \in Paths : Accounted(p)
  BY <1>1, <1>2 DEF ArtifactTypes, ScopesMatch, Accounted
<1>4. \A s \in Owners : ~Stores(call[s])
  BY <1>1, <1>2
<1> QED BY <1>2, <1>3, <1>4 DEF ArtifactInv, StoringIs, ContentsDiffer

LEMMA ArtifactsStutter == ArtifactInv /\ UNCHANGED artifactVars => ArtifactInv'
BY DEF ArtifactInv, artifactVars, ArtifactTypes, ScopesMatch, Accounted

LEMMA CallsAre ==
  ASSUME NEW c \in ArtifactCalls
  PROVE  /\ c.step = "idle" <=> c = Idle
         /\ c.step = "cleanup" => c \in Cleanups
         /\ c.step = "remove" => c.victim \in Owners /\ c.idle \in Nat \ {0} /\ c.then \in Cleanups
         /\ Stores(c) => c \in Storings
BY DEF ArtifactCalls, Idle, Cleanups, Storings, Stores

LEMMA CallGoes ==
  ASSUME ArtifactInv, NEW s \in Owners, NEW new \in ArtifactCalls, To(s, new)
  PROVE  /\ call' \in [Owners -> ArtifactCalls]
         /\ call'[s] = new /\ \A t \in Owners : t # s => call'[t] = call[t]
BY DEF To, ArtifactInv, ArtifactTypes

\* A step of a call that stores nothing, before and after it.
LEMMA ToolGoes ==
  ASSUME ArtifactInv, NEW s \in Owners, NEW new \in ArtifactCalls, To(s, new), ~Stores(new), call[s].step # "record",
         UNCHANGED <<now, stored, records, writes, dropped, wrong>>,
         scope' \in [Owners -> Scopes], used' \in [Owners -> Nat], ScopesMatch'
  PROVE  ArtifactInv'
<1>1. /\ call' \in [Owners -> ArtifactCalls] /\ call'[s] = new /\ \A t \in Owners : t # s => call'[t] = call[t]
  BY CallGoes
<1>2. ArtifactTypes'
  BY <1>1 DEF ArtifactInv, ArtifactTypes
<1>3. \A t \in Owners : StoringIs(call'[t], writes, stored)
  BY <1>1 DEF ArtifactInv, StoringIs
<1>4. \A t, u \in Owners : t # u => ContentsDiffer(call'[t], call'[u])
  BY <1>1 DEF ArtifactInv, ContentsDiffer
<1>5. \A p \in Paths : Accounted(p)'
  BY <1>1 DEF ArtifactInv, Accounted
<1> QED BY <1>2, <1>3, <1>4, <1>5 DEF ArtifactInv

\* A directory that a tool uses gets its time; one that is removed has none.
LEMMA ScopeGoes ==
  ASSUME ArtifactInv, NEW s \in Owners, NEW new \in Scopes, NEW time \in Nat, new.mtime = time,
         scope' = [scope EXCEPT ![s] = new], used' = [used EXCEPT ![s] = time]
  PROVE  scope' \in [Owners -> Scopes] /\ used' \in [Owners -> Nat] /\ ScopesMatch'
BY DEF ArtifactInv, ArtifactTypes, ScopesMatch

LEMMA ScopesStay ==
  ASSUME ArtifactInv, UNCHANGED <<scope, used>>
  PROVE  scope' \in [Owners -> Scopes] /\ used' \in [Owners -> Nat] /\ ScopesMatch'
BY DEF ArtifactInv, ArtifactTypes, ScopesMatch

LEMMA TouchedIs ==
  ASSUME ArtifactInv, NEW s \in Owners, scope' = Touched(s), Use(s)
  PROVE  scope' \in [Owners -> Scopes] /\ used' \in [Owners -> Nat] /\ ScopesMatch'
<1> PICK new : new = [scope[s] EXCEPT !.mtime = now]
  OBVIOUS
<1>1. new \in Scopes /\ new.mtime = now /\ now \in Nat
  BY DEF ArtifactInv, ArtifactTypes, Scopes
<1>2. scope' = [scope EXCEPT ![s] = new] /\ used' = [used EXCEPT ![s] = now]
  BY DEF Touched, Use
<1> QED BY <1>1, <1>2, ScopeGoes

LEMMA SandboxCallKeeps ==
  ASSUME ArtifactInv, NEW s \in Owners, NEW tool \in {"read", "write", "publish"}, SandboxCall(s, tool)
  PROVE  ArtifactInv'
<1> PICK new : new = [step |-> "cleanup", tool |-> tool, todo |-> SandboxDirs]
  OBVIOUS
<1>1. new \in ArtifactCalls /\ ~Stores(new)
  BY DEF ArtifactCalls, Cleanups, Stores, SandboxDirs
<1>2. To(s, new) /\ call[s].step # "record" /\ UNCHANGED <<now, scope, stored, records, writes, dropped, used, wrong>>
  BY DEF SandboxCall, Idle
<1> QED BY <1>1, <1>2, ToolGoes, ScopesStay

LEMMA CleanupLookKeeps == ASSUME ArtifactInv, NEW s \in Owners, CleanupLook(s) PROVE ArtifactInv'
<1> PICK c : c = call[s]
  OBVIOUS
<1> PICK e : e = CHOOSE x \in c.todo : TRUE
  OBVIOUS
<1> PICK rest : rest = [c EXCEPT !.todo = c.todo \ {e}]
  OBVIOUS
<1> PICK removal : removal = [step |-> "remove", victim |-> e, idle |-> now - used[e], then |-> rest]
  OBVIOUS
<1> PICK new : new = CASE ~scope[e].is -> Idle [] scope[e].is /\ Expired(e) -> removal [] OTHER -> rest
  OBVIOUS
<1>1. c.step = "cleanup" /\ c.todo # {} /\ To(s, new) /\ UNCHANGED <<now, scope, stored, records, writes, dropped, used, wrong>>
  BY DEF CleanupLook
<1>2. c \in Cleanups /\ e \in c.todo /\ e \in Owners
  <2>1. c \in ArtifactCalls
    BY DEF ArtifactInv, ArtifactTypes
  <2>2. c \in Cleanups
    BY <1>1, <2>1, CallsAre
  <2> QED BY <1>1, <2>2 DEF Cleanups
<1>3. rest \in Cleanups /\ rest \in ArtifactCalls /\ rest.step = "cleanup"
  BY <1>2 DEF Cleanups, ArtifactCalls
<1>4. Expired(e) => removal \in ArtifactCalls /\ removal.step = "remove"
  <2> SUFFICES ASSUME Expired(e) PROVE removal \in ArtifactCalls /\ removal.step = "remove"
    OBVIOUS
  <2>1. scope[e].mtime = used[e] /\ used[e] \in Nat /\ now \in Nat /\ now > scope[e].mtime
    BY <1>2 DEF ArtifactInv, ScopesMatch, ArtifactTypes, Expired
  <2>2. now - used[e] \in Nat \ {0}
    BY <2>1
  <2> QED BY <1>2, <1>3, <2>2 DEF ArtifactCalls
<1>5. Idle \in ArtifactCalls /\ Idle.step = "idle"
  BY DEF ArtifactCalls, Idle
<1>6. new = Idle \/ (Expired(e) /\ new = removal) \/ new = rest
  OBVIOUS
<1>7. new \in ArtifactCalls /\ ~Stores(new)
  BY <1>3, <1>4, <1>5, <1>6 DEF Stores
<1>8. call[s].step # "record"
  BY <1>1
<1> QED BY <1>1, <1>7, <1>8, ToolGoes, ScopesStay

LEMMA CleanupRemoveKeeps == ASSUME ArtifactInv, NEW s \in Owners, CleanupRemove(s) PROVE ArtifactInv'
<1>1. call[s].step = "remove" /\ UNCHANGED <<now, stored, records, writes, dropped>>
  BY DEF CleanupRemove
<1>2. call[s].victim \in Owners /\ call[s].idle # 0 /\ call[s].then \in Cleanups
  BY <1>1, CallsAre DEF ArtifactInv, ArtifactTypes
<1>3. /\ call[s].then \in ArtifactCalls /\ ~Stores(call[s].then)
      /\ Idle \in ArtifactCalls /\ ~Stores(Idle)
  BY <1>2 DEF ArtifactCalls, Cleanups, Stores, Idle
<1>4. CASE ~scope[call[s].victim].is
  <2>1. To(s, Idle) /\ UNCHANGED <<scope, used, wrong>>
    BY <1>4 DEF CleanupRemove
  <2> QED BY <1>1, <1>3, <2>1, ToolGoes, ScopesStay
<1>5. CASE scope[call[s].victim].is
  <2>1. /\ To(s, call[s].then) /\ scope' = [scope EXCEPT ![call[s].victim] = NoScope]
        /\ used' = [used EXCEPT ![call[s].victim] = 0] /\ wrong' = wrong
    BY <1>2, <1>5 DEF CleanupRemove
  <2>2. NoScope \in Scopes /\ NoScope.mtime = 0 /\ 0 \in Nat
    BY DEF NoScope, Scopes
  <2> PICK e \in Owners : e = call[s].victim
    BY <1>2
  <2>3. scope' = [scope EXCEPT ![e] = NoScope] /\ used' = [used EXCEPT ![e] = 0]
    BY <2>1
  <2>4. scope' \in [Owners -> Scopes] /\ used' \in [Owners -> Nat] /\ ScopesMatch'
    BY <2>2, <2>3, ScopeGoes
  <2> QED BY <1>1, <1>3, <2>1, <2>4, ToolGoes
<1> QED BY <1>4, <1>5

LEMMA SandboxEnterKeeps == ASSUME ArtifactInv, NEW s \in Owners, SandboxEnter(s) PROVE ArtifactInv'
<1> PICK new : new = [step |-> call[s].tool]
  OBVIOUS
<1> PICK dir : dir = [scope[s] EXCEPT !.mtime = now, !.is = TRUE]
  OBVIOUS
<1>1. /\ call[s].step = "cleanup" /\ scope' = [scope EXCEPT ![s] = dir] /\ used' = [used EXCEPT ![s] = now] /\ To(s, new)
      /\ UNCHANGED <<now, stored, records, writes, dropped, wrong>>
  BY DEF SandboxEnter, Use
<1>2. call[s] \in Cleanups /\ scope[s] \in Scopes /\ now \in Nat
  BY <1>1, CallsAre DEF ArtifactInv, ArtifactTypes
<1>3. new \in ArtifactCalls /\ ~Stores(new)
  BY <1>2 DEF ArtifactCalls, Cleanups, Stores
<1>4. dir \in Scopes /\ dir.mtime = now
  BY <1>2 DEF Scopes
<1>5. scope' \in [Owners -> Scopes] /\ used' \in [Owners -> Nat] /\ ScopesMatch'
  BY <1>1, <1>2, <1>4, ScopeGoes
<1> QED BY <1>1, <1>3, <1>5, ToolGoes

LEMMA IdleIs == Idle \in ArtifactCalls /\ ~Stores(Idle)
BY DEF ArtifactCalls, Idle, Stores

LEMMA SandboxReadKeeps == ASSUME ArtifactInv, NEW s \in Owners, SandboxRead(s) PROVE ArtifactInv'
<1>1. To(s, Idle) /\ call[s].step = "read" /\ UNCHANGED <<now, stored, records, writes, dropped, wrong>>
  BY DEF SandboxRead
<1>2. scope' \in [Owners -> Scopes] /\ used' \in [Owners -> Nat] /\ ScopesMatch'
  <2>1. CASE UNCHANGED <<scope, used>>
    BY <2>1, ScopesStay
  <2>2. CASE scope' = Touched(s) /\ Use(s)
    BY <2>2, TouchedIs
  <2> QED BY <2>1, <2>2 DEF SandboxRead
<1> QED BY <1>1, <1>2, IdleIs, ToolGoes

LEMMA SandboxWriteKeeps == ASSUME ArtifactInv, NEW s \in Owners, SandboxWrite(s) PROVE ArtifactInv'
<1> PICK dir : dir = [mtime |-> now, file |-> TRUE, is |-> TRUE]
  OBVIOUS
<1>1. /\ call[s].step = "write" /\ scope' = [scope EXCEPT ![s] = dir] /\ used' = [used EXCEPT ![s] = now] /\ To(s, Idle)
      /\ UNCHANGED <<now, stored, records, writes, dropped, wrong>>
  BY DEF SandboxWrite, Use
<1>2. now \in Nat
  BY DEF ArtifactInv, ArtifactTypes
<1>3. dir \in Scopes /\ dir.mtime = now
  BY <1>2 DEF Scopes
<1>4. scope' \in [Owners -> Scopes] /\ used' \in [Owners -> Nat] /\ ScopesMatch'
  BY <1>1, <1>2, <1>3, ScopeGoes
<1> QED BY <1>1, <1>4, IdleIs, ToolGoes

LEMMA RefusedKeeps == ASSUME ArtifactInv, NEW s \in Owners, PublishRefused(s) \/ ReplaceRaises(s) PROVE ArtifactInv'
<1>1. To(s, Idle) /\ call[s].step # "record" /\ UNCHANGED <<now, scope, stored, records, writes, dropped, used, wrong>>
  BY DEF PublishRefused, ReplaceRaises
<1> QED BY <1>1, IdleIs, ToolGoes, ScopesStay

\* A call begins to store with a content that no other call or path has.
LEMMA CheckKeepsAll ==
  ASSUME ArtifactInv, NEW s \in Owners, NEW p \in Paths, NEW publish \in BOOLEAN, stored[p] = 0, call[s].step # "record",
         writes' = writes + 1,
         To(s, [step |-> "replace", path |-> p, content |-> writes + 1, publish |-> publish, had |-> stored[p]]),
         UNCHANGED <<now, scope, stored, records, dropped, used, wrong>>
  PROVE  ArtifactInv'
<1> PICK new : new = [step |-> "replace", path |-> p, content |-> writes + 1, publish |-> publish, had |-> 0]
  OBVIOUS
<1>1. To(s, new)
  OBVIOUS
<1>2. writes \in Nat /\ \A q \in Paths : stored[q] \in Nat /\ stored[q] <= writes
  BY DEF ArtifactInv, ArtifactTypes
<1>3. writes + 1 \in Nat \ {0} /\ \A q \in Paths : stored[q] # writes + 1 /\ stored[q] <= writes + 1
  BY <1>2
<1>4. new \in Storings /\ new \in ArtifactCalls /\ new.content = writes + 1 /\ new.step = "replace"
  BY <1>3 DEF Storings, ArtifactCalls
<1>5. /\ call' \in [Owners -> ArtifactCalls] /\ call'[s] = new /\ \A t \in Owners : t # s => call'[t] = call[t]
  BY <1>1, <1>4, CallGoes
<1>6. ArtifactTypes'
  BY <1>3, <1>5 DEF ArtifactInv, ArtifactTypes
<1>7. ScopesMatch' /\ wrong' = {}
  BY DEF ArtifactInv, ScopesMatch
<1>8. \A t \in Owners : Stores(call[t]) => call[t].content \in Nat /\ call[t].content <= writes
  <2>1. ASSUME NEW t \in Owners, Stores(call[t]) PROVE call[t].content \in Nat /\ call[t].content <= writes
    <3>1. call[t] \in ArtifactCalls /\ StoringIs(call[t], writes, stored)
      BY DEF ArtifactInv, ArtifactTypes
    <3>2. call[t] \in Storings
      BY <2>1, <3>1, CallsAre
    <3> QED BY <2>1, <3>1, <3>2 DEF StoringIs, Storings
  <2> QED BY <2>1
<1>9. \A t \in Owners : Stores(call[t]) => call[t].content # writes + 1 /\ call[t].content <= writes + 1
  BY <1>2, <1>8
<1>10. ASSUME NEW t \in Owners PROVE StoringIs(call'[t], writes + 1, stored)
  <2>1. CASE t = s
    <3>1. StoringIs(new, writes + 1, stored)
      BY <1>2, <1>3, <1>4 DEF StoringIs
    <3> QED BY <1>5, <2>1, <3>1
  <2>2. CASE t # s
    BY <1>5, <1>9, <2>2 DEF ArtifactInv, StoringIs
  <2> QED BY <2>1, <2>2
<1>11. \A t, u \in Owners : t # u => ContentsDiffer(call'[t], call'[u])
  BY <1>4, <1>5, <1>9 DEF ArtifactInv, ContentsDiffer
<1>12. \A q \in Paths : Accounted(q)'
  BY <1>5 DEF ArtifactInv, Accounted
<1>13. writes' = writes + 1 /\ stored' = stored
  OBVIOUS
<1>14. \A t \in Owners : StoringIs(call'[t], writes', stored')
  BY <1>10, <1>13
<1> QED BY <1>6, <1>7, <1>11, <1>12, <1>14 DEF ArtifactInv

LEMMA ChecksKeep == ASSUME ArtifactInv, NEW s \in Owners, NEW p \in Paths, StoreCheck(s, p) \/ PublishCheck(s, p) PROVE ArtifactInv'
<1>1. PICK publish \in BOOLEAN :
          To(s, [step |-> "replace", path |-> p, content |-> writes + 1, publish |-> publish, had |-> stored[p]])
  BY DEF StoreCheck, PublishCheck
<1>2. /\ writes' = writes + 1 /\ stored[p] = 0 /\ call[s].step # "record"
      /\ UNCHANGED <<now, scope, stored, records, dropped, used, wrong>>
  BY DEF StoreCheck, PublishCheck, Idle
<1> QED BY <1>1, <1>2, CheckKeepsAll

LEMMA ReplaceKeeps == ASSUME ArtifactInv, NEW s \in Owners, Replace(s) PROVE ArtifactInv'
<1> PICK c : c = call[s]
  OBVIOUS
<1> PICK new : new = [c EXCEPT !.step = "record"]
  OBVIOUS
<1>1. c.step = "replace" /\ To(s, new) /\ stored' = [stored EXCEPT ![c.path] = c.content]
      /\ UNCHANGED <<now, scope, records, writes, dropped, used>>
  BY DEF Replace
<1>2. c \in Storings /\ StoringIs(c, writes, stored) /\ Stores(c)
  <2>1. c \in ArtifactCalls /\ Stores(c)
    BY <1>1 DEF ArtifactInv, ArtifactTypes, Stores
  <2> QED BY <2>1, CallsAre DEF ArtifactInv
<1>3. /\ c.path \in Paths /\ c.content \in Nat \ {0} /\ c.content <= writes /\ \A p \in Paths : stored[p] # c.content
      /\ wrong' = wrong
  BY <1>1, <1>2 DEF Storings, StoringIs, Replace
<1>4. new \in Storings /\ new \in ArtifactCalls /\ new.step = "record" /\ new.content = c.content /\ new.path = c.path
  BY <1>2 DEF Storings, ArtifactCalls
<1>5. /\ call' \in [Owners -> ArtifactCalls] /\ call'[s] = new /\ \A t \in Owners : t # s => call'[t] = call[t]
  BY <1>1, <1>4, CallGoes
<1>6. stored' \in [Paths -> Nat] /\ \A p \in Paths : stored'[p] = IF p = c.path THEN c.content ELSE stored[p]
  BY <1>1, <1>3 DEF ArtifactInv, ArtifactTypes
<1>7. ArtifactTypes'
  BY <1>1, <1>3, <1>5, <1>6 DEF ArtifactInv, ArtifactTypes
<1>8. ScopesMatch' /\ wrong' = {}
  BY <1>1, <1>3 DEF ArtifactInv, ScopesMatch
<1>9. \A t \in Owners : t # s /\ Stores(call[t]) => call[t].content # c.content
  BY <1>2 DEF ArtifactInv, ContentsDiffer
<1>10. ASSUME NEW t \in Owners PROVE StoringIs(call'[t], writes, stored')
  <2>1. CASE t = s
    <3>1. StoringIs(new, writes, stored')
      BY <1>3, <1>4, <1>6 DEF StoringIs
    <3> QED BY <1>5, <2>1, <3>1
  <2>2. CASE t # s
    <3>1. StoringIs(call[t], writes, stored) /\ call'[t] = call[t]
      BY <1>5, <2>2 DEF ArtifactInv
    <3> QED BY <1>6, <1>9, <2>2, <3>1 DEF StoringIs
  <2> QED BY <2>1, <2>2
<1>11. ASSUME NEW t \in Owners, NEW u \in Owners, t # u PROVE ContentsDiffer(call'[t], call'[u])
  <2>1. ContentsDiffer(call[t], call[u])
    BY <1>11 DEF ArtifactInv
  <2>2. (Stores(call'[t]) <=> Stores(call[t])) /\ call'[t].content = call[t].content
    BY <1>2, <1>4, <1>5 DEF Stores
  <2>3. (Stores(call'[u]) <=> Stores(call[u])) /\ call'[u].content = call[u].content
    BY <1>2, <1>4, <1>5 DEF Stores
  <2> QED BY <2>1, <2>2, <2>3 DEF ContentsDiffer
<1>12. ASSUME NEW p \in Paths PROVE Accounted(p)'
  <2>1. CASE p = c.path
    BY <1>4, <1>5, <1>6, <2>1 DEF Accounted
  <2>2. CASE p # c.path
    <3>1. stored'[p] = stored[p] /\ Accounted(p)
      BY <1>6, <2>2 DEF ArtifactInv
    <3>2. \A t \in Owners : call[t].step = "record" => call'[t] = call[t]
      BY <1>1, <1>5
    <3> QED BY <1>1, <3>1, <3>2 DEF Accounted
  <2> QED BY <2>1, <2>2
<1>13. writes' = writes
  BY <1>1
<1> QED BY <1>7, <1>8, <1>10, <1>11, <1>12, <1>13 DEF ArtifactInv

\* A call that ends has nothing more to be accounted for.
LEMMA StoringEnds ==
  ASSUME ArtifactInv, call' \in [Owners -> ArtifactCalls], \A t \in Owners : call'[t] \in {call[t], Idle},
         UNCHANGED <<now, stored, writes, wrong>>, scope' \in [Owners -> Scopes], used' \in [Owners -> Nat], ScopesMatch',
         \A p \in Paths : Accounted(p)'
  PROVE  ArtifactInv'
<1>1. ArtifactTypes'
  BY DEF ArtifactInv, ArtifactTypes
<1>2. \A t \in Owners : StoringIs(call'[t], writes, stored)
  BY IdleIs DEF ArtifactInv, StoringIs
<1>3. ASSUME NEW t \in Owners, NEW u \in Owners, t # u PROVE ContentsDiffer(call'[t], call'[u])
  <2>1. ContentsDiffer(call[t], call[u])
    BY <1>3 DEF ArtifactInv
  <2>2. call'[t] \in {call[t], Idle} /\ call'[u] \in {call[u], Idle}
    OBVIOUS
  <2> QED BY <2>1, <2>2, IdleIs DEF ContentsDiffer
<1> QED BY <1>1, <1>2, <1>3 DEF ArtifactInv

LEMMA AppendRecordKeeps == ASSUME ArtifactInv, NEW s \in Owners, AppendRecord(s) PROVE ArtifactInv'
<1>1. /\ call[s].step = "record" /\ To(s, Idle) /\ UNCHANGED <<now, stored, writes, dropped, wrong>>
      /\ records' = records \cup {[path |-> call[s].path, content |-> call[s].content]}
  BY DEF AppendRecord
<1>2. /\ call' \in [Owners -> ArtifactCalls] /\ call'[s] = Idle /\ \A t \in Owners : t # s => call'[t] = call[t]
  BY <1>1, IdleIs, CallGoes
<1>3. scope' \in [Owners -> Scopes] /\ used' \in [Owners -> Nat] /\ ScopesMatch'
  <2>1. CASE UNCHANGED <<scope, used>>
    BY <2>1, ScopesStay
  <2>2. CASE scope' = Touched(s) /\ Use(s)
    BY <2>2, TouchedIs
  <2> QED BY <2>1, <2>2 DEF AppendRecord
<1>4. ASSUME NEW p \in Paths PROVE Accounted(p)'
  <2>1. Accounted(p) /\ StoringIs(call[s], writes, stored) /\ Stores(call[s])
    BY <1>1 DEF ArtifactInv, Stores
  <2>2. call[s].content = stored[p] => call[s].path = p
    BY <2>1 DEF StoringIs
  <2>3. CASE call[s].content = stored[p]
    <3>1. [path |-> p, content |-> stored[p]] \in records'
      BY <1>1, <2>2, <2>3
    <3> QED BY <1>1, <3>1 DEF Accounted
  <2>4. CASE call[s].content # stored[p]
    BY <1>1, <1>2, <2>1, <2>4 DEF Accounted
  <2> QED BY <2>3, <2>4
<1>5. \A t \in Owners : call'[t] \in {call[t], Idle}
  BY <1>2
<1> QED BY <1>1, <1>2, <1>3, <1>4, <1>5, StoringEnds

LEMMA RecordRaisesKeeps == ASSUME ArtifactInv, NEW s \in Owners, RecordRaises(s) PROVE ArtifactInv'
<1>1. /\ call[s].step = "record" /\ To(s, Idle) /\ UNCHANGED <<now, scope, stored, records, writes, used, wrong>>
      /\ dropped' = dropped \cup {call[s].content}
  BY DEF RecordRaises
<1>2. /\ call' \in [Owners -> ArtifactCalls] /\ call'[s] = Idle /\ \A t \in Owners : t # s => call'[t] = call[t]
  BY <1>1, IdleIs, CallGoes
<1>3. scope' \in [Owners -> Scopes] /\ used' \in [Owners -> Nat] /\ ScopesMatch'
  BY <1>1, ScopesStay
<1>4. \A p \in Paths : Accounted(p)'
  BY <1>1, <1>2 DEF ArtifactInv, Accounted
<1>5. \A t \in Owners : call'[t] \in {call[t], Idle}
  BY <1>2
<1> QED BY <1>1, <1>2, <1>3, <1>4, <1>5, StoringEnds

LEMMA ArtifactsCrashKeeps == ASSUME ArtifactInv, ArtifactsCrash PROVE ArtifactInv'
<1>1. /\ call' = [s \in Owners |-> Idle] /\ UNCHANGED <<now, scope, stored, records, writes, used, wrong>>
      /\ dropped' = dropped \cup {call[s].content : s \in {o \in Owners : call[o].step = "record"}}
  BY DEF ArtifactsCrash
<1>2. scope' \in [Owners -> Scopes] /\ used' \in [Owners -> Nat] /\ ScopesMatch'
  BY <1>1, ScopesStay
<1>3. call' \in [Owners -> ArtifactCalls] /\ \A t \in Owners : call'[t] \in {call[t], Idle}
  BY <1>1, IdleIs
<1>4. \A p \in Paths : Accounted(p)'
  BY <1>1 DEF ArtifactInv, Accounted
<1> QED BY <1>1, <1>2, <1>3, <1>4, StoringEnds

LEMMA ArtifactsStep == ArtifactInv /\ ArtifactsNext => ArtifactInv'
<1> SUFFICES ASSUME ArtifactInv, ArtifactsNext PROVE ArtifactInv'
  OBVIOUS
<1>1. CASE Tick
  <2>1. now' \in Nat /\ UNCHANGED <<scope, stored, records, call, writes, dropped, used, wrong>>
    BY <1>1 DEF Tick, ArtifactInv, ArtifactTypes
  <2> QED BY <2>1 DEF ArtifactInv, ArtifactTypes, ScopesMatch, Accounted
<1> QED BY <1>1, SandboxCallKeeps, CleanupLookKeeps, CleanupRemoveKeeps, SandboxEnterKeeps, SandboxReadKeeps, SandboxWriteKeeps,
           RefusedKeeps, ChecksKeep, ReplaceKeeps, AppendRecordKeeps, RecordRaisesKeeps, ArtifactsCrashKeeps DEF ArtifactsNext

LEMMA ArtifactInvAccounts == ArtifactInv => ArtifactsAreAccounted
BY DEF ArtifactInv, ArtifactsAreAccounted, Accounted

---------------------------------------------------------------------------
(* Fan-outs to subagents *)

Stages == {"subagent", "narrowed_subagent", "teammate", "self", "terminal"}
Orchestrations == [fanouts : Nat, failures : [Clues -> Nat], stage : [Clues -> Stages]]

\* A clue that was answered is terminal, and what is being run was neither answered nor
\* given up before, unless it was in a fan-out twice.
SubagentInv ==
    /\ orchestration \in Orchestrations /\ savedState \in Orchestrations
    /\ tasks \in Seq(Clues) /\ answered \subseteq Clues /\ (phase = "parent" => tasks = <<>>)
    /\ \A c \in answered \ doubled : orchestration.stage[c] = "terminal"
    /\ \A i \in DOMAIN tasks : /\ orchestration.stage[tasks[i]] # "terminal"
                               /\ orchestration.failures[tasks[i]] < MaxFailures
    /\ \A i, j \in DOMAIN tasks : i # j /\ tasks[i] = tasks[j] => tasks[i] \in doubled

LEMMA SubagentsStart == SubagentsInit => SubagentInv
BY DEF SubagentsInit, SubagentInv, Orchestrations, Stages

LEMMA SubagentsStutter == SubagentInv /\ UNCHANGED <<orchestration, savedState, tasks, phase, answered, doubled>> => SubagentInv'
BY DEF SubagentInv

\* One result of record_subagent_results.
Taken(o, n) ==
    LET c == tasks[n]
    IN IF outcomes[n] = "success" THEN [o EXCEPT !.stage[c] = "terminal"]
       ELSE [o EXCEPT !.failures[c] = @ + 1, !.stage[c] = StageAfter(o.failures[c] + 1)]

LEMMA TakenIs ==
  ASSUME NEW o \in Orchestrations, NEW n \in Nat
  PROVE  /\ Taken(o, n) \in Orchestrations
         /\ \A c \in Clues : c # tasks[n] => Taken(o, n).stage[c] = o.stage[c]
         /\ outcomes[n] = "success" /\ tasks[n] \in Clues => Taken(o, n).stage[tasks[n]] = "terminal"
<1> PICK t : t = tasks[n]
  OBVIOUS
<1>1. CASE outcomes[n] = "success"
  <2>1. Taken(o, n) = [o EXCEPT !.stage = [o.stage EXCEPT ![t] = "terminal"]]
    BY <1>1 DEF Taken, Orchestrations
  <2>2. [o.stage EXCEPT ![t] = "terminal"] \in [Clues -> Stages]
    BY DEF Orchestrations, Stages
  <2> QED BY <2>1, <2>2 DEF Orchestrations
<1>2. CASE outcomes[n] # "success"
  <2> PICK s : s = [o.stage EXCEPT ![t] = StageAfter(o.failures[t] + 1)]
    OBVIOUS
  <2> PICK k : k = [o.failures EXCEPT ![t] = @ + 1]
    OBVIOUS
  <2>1. Taken(o, n) = [o EXCEPT !.failures = k, !.stage = s]
    BY <1>2 DEF Taken, Orchestrations
  <2>2. s \in [Clues -> Stages] /\ k \in [Clues -> Nat]
    <3>1. o.stage \in [Clues -> Stages] /\ o.failures \in [Clues -> Nat] /\ StageAfter(o.failures[t] + 1) \in Stages
      BY DEF Orchestrations, Stages, StageAfter
    <3>2. s \in [Clues -> Stages]
      BY <3>1
    <3>3. \A c \in Clues : o.failures[c] + 1 \in Nat
      BY <3>1
    <3>4. k \in [Clues -> Nat]
      BY <3>1, <3>3
    <3> QED BY <3>2, <3>4
  <2>3. Taken(o, n) \in Orchestrations /\ Taken(o, n).stage = s
    BY <2>1, <2>2 DEF Orchestrations
  <2>4. \A c \in Clues : c # t => s[c] = o.stage[c]
    BY DEF Orchestrations
  <2> QED BY <1>2, <2>3, <2>4
<1> QED BY <1>1, <1>2

LEMMA RecordedIs ==
  ASSUME orchestration \in Orchestrations
  PROVE  \A n \in Nat : Recorded[n] \in Orchestrations /\ Recorded[n] = IF n = 0 THEN orchestration ELSE Taken(Recorded[n - 1], n)
<1> DEFINE d == [s \in Orchestrations \X Nat |-> Taken(s[1], s[2])]
<1>1. d \in [Orchestrations \X Nat -> Orchestrations]
  BY TakenIs
<1>2. \A o \in Orchestrations, n \in Nat : d[<<o, n>>] = Taken(o, n)
  OBVIOUS
<1> HIDE DEF d
<1>3. PICK f \in [Nat -> Orchestrations] : \A n \in Nat : f[n] = IF n = 0 THEN orchestration ELSE d[<<f[n - 1], n>>]
  <2>1. Recurses(Orchestrations, orchestration, d)
    BY <1>1, RecursionExists, Zenon
  <2> QED BY <2>1 DEF Recurses
<1>4. ASSUME NEW n \in Nat PROVE f[n] = IF n = 0 THEN orchestration ELSE Taken(f[n - 1], n)
  <2>1. CASE n = 0
    BY <1>3, <2>1
  <2>2. CASE n # 0
    <3>1. f[n - 1] \in Orchestrations
      BY <2>2
    <3>2. d[<<f[n - 1], n>>] = Taken(f[n - 1], n)
      BY <1>2, <3>1
    <3> QED BY <1>3, <2>2, <3>2
  <2> QED BY <2>1, <2>2
<1>5. f = [n \in Nat |-> IF n = 0 THEN orchestration ELSE Taken(f[n - 1], n)]
  BY <1>3, <1>4
<1>6. Recorded = [n \in Nat |-> IF n = 0 THEN orchestration ELSE Taken(Recorded[n - 1], n)]
  <2>1. Recorded = CHOOSE r : r = [n \in Nat |-> IF n = 0 THEN orchestration ELSE Taken(r[n - 1], n)]
    BY DEF Recorded, Taken
  <2>2. \E r : r = [n \in Nat |-> IF n = 0 THEN orchestration ELSE Taken(r[n - 1], n)]
    BY <1>5
  <2> QED BY <2>1, <2>2
<1>7. \A n \in Nat : Recorded[n] = IF n = 0 THEN orchestration ELSE Taken(Recorded[n - 1], n)
  BY <1>6
<1> DEFINE P == {n \in Nat : Recorded[n] \in Orchestrations}
<1>8. 0 \in P
  BY <1>7
<1>9. ASSUME NEW n \in Nat, n \in P PROVE n + 1 \in P
  <2>1. n + 1 \in Nat /\ n + 1 # 0 /\ n + 1 - 1 = n
    OBVIOUS
  <2>2. Recorded[n + 1] = Taken(Recorded[n], n + 1)
    BY <1>7, <2>1
  <2> QED BY <1>9, <2>1, <2>2, TakenIs
<1> HIDE DEF P
<1>10. Nat \subseteq P
  BY <1>8, <1>9, SetInduction
<1> QED BY <1>7, <1>10 DEF P

\* The stage of a clue after the results up to the n-th.
LEMMA StageStays ==
  ASSUME SubagentInv, NEW c \in Clues, NEW n \in Nat, n <= Len(tasks), \A i \in 1..n : tasks[i] # c
  PROVE  Recorded[n].stage[c] = orchestration.stage[c]
<1> DEFINE P == {k \in Nat : k <= n => Recorded[k].stage[c] = orchestration.stage[c]}
<1>1. orchestration \in Orchestrations
  BY DEF SubagentInv
<1>2. 0 \in P
  BY <1>1, RecordedIs
<1>3. ASSUME NEW k \in Nat, k \in P PROVE k + 1 \in P
  <2> SUFFICES ASSUME k + 1 <= n PROVE Recorded[k + 1].stage[c] = orchestration.stage[c]
    OBVIOUS
  <2>1. k + 1 \in Nat /\ k + 1 # 0 /\ k + 1 - 1 = k /\ k <= n /\ k + 1 \in 1..n
    OBVIOUS
  <2>2. Recorded[k] \in Orchestrations /\ Recorded[k + 1] = Taken(Recorded[k], k + 1)
    BY <1>1, <2>1, RecordedIs
  <2>3. tasks[k + 1] # c
    BY <2>1
  <2>4. Taken(Recorded[k], k + 1).stage[c] = Recorded[k].stage[c]
    BY <2>1, <2>2, <2>3, TakenIs
  <2> QED BY <1>3, <2>1, <2>2, <2>4
<1> HIDE DEF P
<1>4. Nat \subseteq P
  BY <1>2, <1>3, SetInduction
<1> QED BY <1>4 DEF P

LEMMA StageTerminal ==
  ASSUME SubagentInv, NEW i \in DOMAIN tasks, outcomes[i] = "success", \A j \in DOMAIN tasks : j # i => tasks[j] # tasks[i]
  PROVE  Recorded[Len(tasks)].stage[tasks[i]] = "terminal"
<1>c. PICK c : c = tasks[i]
  OBVIOUS
<1>n. PICK n : n = Len(tasks)
  OBVIOUS
<1>1. orchestration \in Orchestrations /\ n \in Nat /\ DOMAIN tasks = 1..n /\ c \in Clues /\ i \in 1..n
  BY <1>c, <1>n DEF SubagentInv
<1> DEFINE P == {k \in Nat : i <= k /\ k <= n => Recorded[k].stage[c] = "terminal"}
<1>2. 0 \in P
  BY <1>1
<1>3. ASSUME NEW k \in Nat, k \in P PROVE k + 1 \in P
  <2> SUFFICES ASSUME i <= k + 1, k + 1 <= n PROVE Recorded[k + 1].stage[c] = "terminal"
    OBVIOUS
  <2>1. k + 1 \in Nat /\ k + 1 # 0 /\ k + 1 - 1 = k /\ k <= n /\ k + 1 \in 1..n
    BY <1>1
  <2>2. Recorded[k] \in Orchestrations /\ Recorded[k + 1] = Taken(Recorded[k], k + 1)
    BY <1>1, <2>1, RecordedIs
  <2>3. CASE k + 1 = i
    <3>1. Taken(Recorded[k], k + 1).stage[tasks[k + 1]] = "terminal"
      BY <1>1, <1>c, <2>1, <2>2, <2>3, TakenIs
    <3> QED BY <1>c, <2>2, <2>3, <3>1
  <2>4. CASE k + 1 # i
    <3>1. i <= k
      BY <1>1, <2>4
    <3>2. Recorded[k].stage[c] = "terminal"
      BY <1>3, <2>1, <3>1
    <3>3. tasks[k + 1] # c
      BY <1>1, <1>c, <2>1, <2>4
    <3>4. Taken(Recorded[k], k + 1).stage[c] = Recorded[k].stage[c]
      BY <1>1, <2>1, <2>2, <3>3, TakenIs
    <3> QED BY <2>2, <3>2, <3>4
  <2> QED BY <2>3, <2>4
<1> HIDE DEF P
<1>4. Nat \subseteq P
  BY <1>2, <1>3, SetInduction
<1>5. Recorded[n].stage[c] = "terminal"
  <2>1. n \in P /\ i <= n
    BY <1>1, <1>4
  <2> QED BY <1>1, <2>1 DEF P
<1> QED BY <1>5, <1>c, <1>n

LEMMA ResultsKeep == ASSUME SubagentInv, RecordResults PROVE SubagentInv'
<1>r. PICK r : r = Recorded[Len(tasks)]
  OBVIOUS
<1>1. /\ orchestration \in Orchestrations /\ tasks \in Seq(Clues) /\ answered \subseteq Clues /\ Len(tasks) \in Nat
      /\ DOMAIN tasks = 1..Len(tasks)
  BY DEF SubagentInv
<1>2. /\ orchestration' = r /\ phase' = "parent" /\ tasks' = <<>> /\ UNCHANGED <<savedState, doubled>>
      /\ answered' = answered \cup {tasks[i] : i \in {j \in DOMAIN tasks : outcomes[j] = "success"}}
  BY <1>r DEF RecordResults
<1>3. r \in Orchestrations
  BY <1>1, <1>r, RecordedIs
<1>4. ASSUME NEW c \in answered' \ doubled PROVE r.stage[c] = "terminal"
  <2>1. CASE \E i \in DOMAIN tasks : outcomes[i] = "success" /\ tasks[i] = c
    <3>1. PICK i \in DOMAIN tasks : outcomes[i] = "success" /\ tasks[i] = c
      BY <2>1
    <3>2. \A j \in DOMAIN tasks : j # i => tasks[j] # tasks[i]
      BY <3>1 DEF SubagentInv
    <3>3. Recorded[Len(tasks)].stage[tasks[i]] = "terminal"
      BY <3>1, <3>2, StageTerminal
    <3> QED BY <1>r, <3>1, <3>3
  <2>2. CASE ~\E i \in DOMAIN tasks : outcomes[i] = "success" /\ tasks[i] = c
    <3>1. c \in answered \ doubled
      BY <1>2, <2>2
    <3>2. c \in Clues /\ orchestration.stage[c] = "terminal"
      BY <1>1, <3>1 DEF SubagentInv
    <3>3. \A i \in 1..Len(tasks) : tasks[i] # c
      BY <1>1, <3>2 DEF SubagentInv
    <3>4. Recorded[Len(tasks)].stage[c] = orchestration.stage[c]
      BY <1>1, <3>2, <3>3, StageStays
    <3> QED BY <1>r, <3>2, <3>4
  <2> QED BY <2>1, <2>2
<1>5. answered' \subseteq Clues
  BY <1>1, <1>2
<1>6. tasks' \in Seq(Clues) /\ DOMAIN tasks' = {}
  BY <1>2
<1> QED BY <1>2, <1>3, <1>4, <1>5, <1>6 DEF SubagentInv

LEMMA DispatchKeeps ==
  ASSUME SubagentInv, NEW wanted \in Calls, NEW files, NEW workers, Dispatch(wanted, files, workers) PROVE SubagentInv'
<1>1. /\ orchestration \in Orchestrations /\ answered \subseteq Clues
      /\ phase' = "collect" /\ UNCHANGED <<savedState, answered>> /\ Refusal(wanted) = "none"
      /\ orchestration' = [orchestration EXCEPT !.fanouts = @ + 1]
      /\ tasks' = IF Len(wanted) > MaxTasks THEN SubSeq(wanted, 1, MaxTasks) ELSE wanted
      /\ doubled' = doubled \cup {c \in Clues : \E i, j \in DOMAIN tasks' : i # j /\ tasks'[i] = c /\ tasks'[j] = c}
  BY DEF SubagentInv, Dispatch
<1>2. /\ orchestration' \in Orchestrations /\ orchestration'.failures = orchestration.failures
      /\ orchestration'.stage = orchestration.stage
  BY <1>1 DEF Orchestrations
<1>3. wanted \in Seq(Clues)
  BY DEF Calls, SeqOf
<1>t. PICK given : given = tasks'
  OBVIOUS
<1>4. given \in Seq(Clues) /\ \A i \in DOMAIN given : i \in DOMAIN wanted /\ given[i] = wanted[i]
  <2>1. CASE Len(wanted) > MaxTasks
    <3>1. 1 \in Int /\ MaxTasks \in Nat /\ MaxTasks - 1 + 1 = MaxTasks /\ Len(wanted) \in Nat /\ DOMAIN wanted = 1..Len(wanted)
      BY <1>3, SubagentAssumption
    <3>2. \A i \in 1..MaxTasks : i \in DOMAIN wanted /\ wanted[i] \in Clues /\ 1 + i - 1 = i
      BY <1>3, <2>1, <3>1
    <3>3. /\ SubSeq(wanted, 1, MaxTasks) \in Seq(Clues)
          /\ Len(SubSeq(wanted, 1, MaxTasks)) = IF 1 <= MaxTasks THEN MaxTasks - 1 + 1 ELSE 0
          /\ \A i \in 1..MaxTasks - 1 + 1 : SubSeq(wanted, 1, MaxTasks)[i] = wanted[1 + i - 1]
      BY <3>1, <3>2, SubSeqProperties
    <3>4. given = SubSeq(wanted, 1, MaxTasks)
      BY <1>1, <1>t, <2>1
    <3>5. given \in Seq(Clues) /\ Len(given) = MaxTasks /\ \A i \in 1..MaxTasks : given[i] = wanted[i]
      BY <3>1, <3>2, <3>3, <3>4
    <3> QED BY <3>2, <3>5
  <2>2. CASE ~(Len(wanted) > MaxTasks)
    BY <1>1, <1>3, <1>t, <2>2
  <2> QED BY <2>1, <2>2
<1>5. \A c \in ToSet(wanted) : orchestration.failures[c] < MaxFailures /\ orchestration.stage[c] # "terminal"
  <2>1. ~\E c \in ToSet(wanted) : \/ orchestration.failures[c] >= MaxFailures
                                \/ orchestration.stage[c] \in {"teammate", "self", "terminal"}
    BY <1>1 DEF Refusal
  <2>2. ASSUME NEW c \in ToSet(wanted) PROVE orchestration.failures[c] \in Nat
    BY <1>1, <1>3 DEF ToSet, Orchestrations
  <2> QED BY <2>1, <2>2, SubagentAssumption
<1>6. \A i \in DOMAIN given : orchestration.stage[given[i]] # "terminal" /\ orchestration.failures[given[i]] < MaxFailures
  BY <1>4, <1>5 DEF ToSet
<1>7. \A i, j \in DOMAIN given : i # j /\ given[i] = given[j] => given[i] \in doubled'
  BY <1>1, <1>4, <1>t
<1>8. \A c \in answered' \ doubled' : orchestration'.stage[c] = "terminal"
  BY <1>1, <1>2 DEF SubagentInv
<1>9. savedState' \in Orchestrations
  BY <1>1 DEF SubagentInv
<1>10. \A i \in DOMAIN tasks' : orchestration'.stage[tasks'[i]] # "terminal" /\ orchestration'.failures[tasks'[i]] < MaxFailures
  BY <1>2, <1>6, <1>t
<1>11. \A i, j \in DOMAIN tasks' : i # j /\ tasks'[i] = tasks'[j] => tasks'[i] \in doubled'
  BY <1>7, <1>t
<1>12. tasks' \in Seq(Clues) /\ phase' # "parent" /\ answered' \subseteq Clues /\ orchestration' \in Orchestrations
  BY <1>1, <1>2, <1>4, <1>t
<1> QED BY <1>8, <1>9, <1>10, <1>11, <1>12 DEF SubagentInv

LEMMA SubagentStep == SubagentInv /\ SubagentsNext => SubagentInv'
<1> SUFFICES ASSUME SubagentInv, SubagentsNext PROVE SubagentInv'
  OBVIOUS
<1>1. ASSUME NextRun PROVE SubagentInv'
  BY <1>1 DEF SubagentInv, NextRun, callVars
<1>2. ASSUME SubagentsCrash PROVE SubagentInv'
  BY <1>2 DEF SubagentInv, SubagentsCrash
<1>3. ASSUME UNCHANGED <<orchestration, savedState, tasks, answered, doubled>>, phase' = phase \/ phase' # "parent"
      PROVE  SubagentInv'
  BY <1>3 DEF SubagentInv
<1>4. ASSUME NEW i \in DOMAIN attempt, SubagentStarts(i) \/ \E o \in Outcomes : SubagentEnds(i, o) PROVE SubagentInv'
  BY <1>3, <1>4 DEF SubagentStarts, SubagentEnds, historyVars
<1>5. ASSUME CollectAll \/ Timeout \/ Retry \/ RetriesDone \/ \E o \in Outcomes \cup {"timeout"} : RetryReturns(o)
      PROVE  SubagentInv'
  BY <1>3, <1>5 DEF CollectAll, Timeout, Retry, RetriesDone, RetryReturns, historyVars, callVars
<1> QED BY <1>1, <1>2, <1>4, <1>5, ResultsKeep, DispatchKeeps DEF SubagentsNext

LEMMA SubagentInvHolds == SubagentInv => LadderHolds
BY DEF SubagentInv, LadderHolds

---------------------------------------------------------------------------
(* The index of the knowledge base *)

Counts == [SourceFiles -> Nat]
Batch(c, n) == {c} \X (1..n)
SyncStates == [pc : {"idle", "forget", "walk", "chunk", "upsert", "save", "done"}, known : Counts, loaded : Counts,
               current : SUBSET SourceFiles, todo : SUBSET SourceFiles, file : SourceFiles \cup {Resting.file},
               stamp : Nat, batch : Nat, content : Nat, changed : SUBSET SourceFiles]

KnowledgeTypes ==
    /\ version \in Counts /\ there \subseteq SourceFiles /\ chunks \in [SourceFiles -> SUBSET (Nat \X Batches)]
    /\ recorded \in Counts /\ readable \in {"whole", "torn"} /\ sync \in SyncStates
    /\ sync.pc \in {"chunk", "upsert"} => sync.file \in SourceFiles

\* A record that names the version v stands for its chunks.
Claim(f, r, v, held, lost) == r = v /\ r # 0 => held \subseteq Whole(v) /\ (f \notin lost => held = Whole(v))

\* The running ingestion: what it knows of a file and what is left to do, and what it
\* has done with the file it is at.
ListedIs(f, y, v, held) ==
    /\ f \in y.todo => f \in y.current /\ y.known[f] = y.loaded[f]
    /\ f \notin y.current => (y.pc \notin {"idle", "forget"} => y.known[f] = 0) /\ (y.known[f] = 0 /\ y.loaded[f] # 0 => held = {})
    /\ f \in y.current /\ f \notin y.todo /\ f \notin y.changed => y.known[f] = v /\ v # 0
    /\ y.pc \in {"save", "done"} => f \notin y.todo
AtFile(f, y, v, held) ==
    y.pc \in {"chunk", "upsert"} /\ y.file = f =>
        /\ f \in y.todo /\ y.known[f] < v /\ y.stamp <= v /\ (f \notin y.changed => y.stamp = v)
        /\ y.pc = "chunk" => held = {}
        /\ y.pc = "upsert" => y.stamp <= y.content /\ y.content <= v /\ y.batch \in Batches /\ held = Batch(y.content, y.batch - 1)

\* A file: its version v, its chunks, whether they were lost, its record, if that can be read.
FileIs(f, y, v, held, lost, here, r, state) ==
    /\ f \in here => v # 0
    /\ r <= v /\ y.known[f] <= v
    /\ Claim(f, y.known[f], v, held, lost) /\ (state = "whole" => Claim(f, r, v, held, lost))
    /\ state = "whole" /\ y.pc \in {"forget", "walk", "chunk", "upsert"} => y.loaded[f] = r
    /\ ListedIs(f, y, v, held) /\ AtFile(f, y, v, held)

KnowledgeInv ==
    /\ KnowledgeTypes
    /\ \A f \in SourceFiles : FileIs(f, sync, version[f], chunks[f], emptied, there, recorded[f], readable)

LEMMA RestingIs ==
  /\ Resting \in SyncStates /\ Resting.pc = "idle" /\ Resting.current = {} /\ Resting.todo = {}
  /\ \A f \in SourceFiles : Resting.known[f] = 0 /\ Resting.loaded[f] = 0
BY DEF Resting, SyncStates, NoRecords, Counts

\* Between ingestions a file is what its record says.
LEMMA FileRests ==
  ASSUME NEW f \in SourceFiles, NEW v \in Nat, NEW held, NEW lost, NEW here, NEW r \in Nat, NEW state,
         f \in here => v # 0, r <= v, state = "whole" => Claim(f, r, v, held, lost)
  PROVE  FileIs(f, Resting, v, held, lost, here, r, state)
<1>1. Claim(f, Resting.known[f], v, held, lost) /\ Resting.known[f] <= v
  BY RestingIs DEF Claim
<1>2. ListedIs(f, Resting, v, held) /\ AtFile(f, Resting, v, held)
  BY RestingIs DEF ListedIs, AtFile
<1> QED BY <1>1, <1>2, RestingIs DEF FileIs

LEMMA KnowledgeStart == KnowledgeInit => KnowledgeInv
<1> SUFFICES ASSUME KnowledgeInit PROVE KnowledgeInv
  OBVIOUS
<1>1. /\ version = NoRecords /\ there = {} /\ chunks = [f \in SourceFiles |-> {}]
      /\ recorded = NoRecords /\ readable = "whole" /\ sync = Resting
  BY DEF KnowledgeInit
<1>2. KnowledgeTypes
  BY <1>1, RestingIs DEF KnowledgeTypes, NoRecords, Counts
<1>3. ASSUME NEW f \in SourceFiles
      PROVE  FileIs(f, sync, version[f], chunks[f], emptied, there, recorded[f], readable)
  <2>1. version[f] = 0 /\ recorded[f] = 0 /\ f \notin there
    BY <1>1 DEF NoRecords
  <2>2. Claim(f, recorded[f], version[f], chunks[f], emptied)
    BY <2>1 DEF Claim
  <2>3. \A n : n = 0 => n \in Nat /\ n <= n
    OBVIOUS
  <2> QED BY <1>1, <2>1, <2>2, <2>3, FileRests
<1> QED BY <1>2, <1>3 DEF KnowledgeInv

LEMMA KnowledgeStutters == KnowledgeInv /\ UNCHANGED knowledgeVars => KnowledgeInv'
BY DEF KnowledgeInv, knowledgeVars, KnowledgeTypes

LEMMA FileOf ==
  ASSUME KnowledgeInv, NEW f \in SourceFiles
  PROVE  /\ FileIs(f, sync, version[f], chunks[f], emptied, there, recorded[f], readable)
         /\ version[f] \in Nat /\ recorded[f] \in Nat /\ sync.known[f] \in Nat /\ sync.loaded[f] \in Nat /\ sync \in SyncStates
         /\ sync.stamp \in Nat /\ sync.content \in Nat /\ chunks[f] \subseteq Nat \X Batches
BY DEF KnowledgeInv, KnowledgeTypes, SyncStates, Counts

\* The owner changes or removes a file: no record stands for the new content, and a running
\* ingestion is known to have missed it.
LEMMA FileChanges_ ==
  ASSUME NEW f, NEW y \in SyncStates, NEW new, new = [y EXCEPT !.changed = y.changed \union {f}], NEW v \in Nat, NEW w \in Nat, v <= w,
         NEW held, NEW lost, NEW here, NEW nowHere, NEW r \in Nat, NEW state,
         FileIs(f, y, v, held, lost, here, r, state), y.known[f] \in Nat, y.stamp \in Nat, y.content \in Nat,
         w = v \/ v < w, f \in nowHere => w # 0
  PROVE  FileIs(f, new, w, held, lost, nowHere, r, state)
<1>1. /\ new.pc = y.pc /\ new.known = y.known /\ new.loaded = y.loaded /\ new.current = y.current /\ new.todo = y.todo
      /\ new.file = y.file /\ new.stamp = y.stamp /\ new.batch = y.batch /\ new.content = y.content /\ f \in new.changed
  BY DEF SyncStates
<1>2. r <= w /\ y.known[f] <= w
  BY DEF FileIs
<1>3. Claim(f, y.known[f], w, held, lost) /\ (state = "whole" => Claim(f, r, w, held, lost))
  <2>1. CASE w = v
    BY <2>1 DEF FileIs
  <2>2. CASE v < w
    BY <2>2 DEF FileIs, Claim
  <2> QED BY <2>1, <2>2
<1>4. ListedIs(f, new, w, held)
  BY <1>1 DEF FileIs, ListedIs
<1>5. AtFile(f, new, w, held)
  BY <1>1 DEF FileIs, AtFile
<1> QED BY <1>1, <1>2, <1>3, <1>4, <1>5 DEF FileIs

\* Another file's change.
LEMMA FileStaysBy ==
  ASSUME NEW f, NEW g, f # g, NEW y \in SyncStates, NEW new, new = [y EXCEPT !.changed = y.changed \union {f}],
         NEW v, NEW held, NEW lost, NEW here, NEW nowHere, g \in nowHere <=> g \in here, NEW r, NEW state,
         FileIs(g, y, v, held, lost, here, r, state)
  PROVE  FileIs(g, new, v, held, lost, nowHere, r, state)
<1>1. /\ new.pc = y.pc /\ new.known = y.known /\ new.loaded = y.loaded /\ new.current = y.current /\ new.todo = y.todo
      /\ new.file = y.file /\ new.stamp = y.stamp /\ new.batch = y.batch /\ new.content = y.content
      /\ g \in new.changed <=> g \in y.changed
  BY DEF SyncStates
<1> QED BY <1>1 DEF FileIs, ListedIs, AtFile

LEMMA OwnersKeep ==
  ASSUME KnowledgeInv, NEW f \in SourceFiles, NEW w \in Nat, version[f] <= w, version' = [version EXCEPT ![f] = w],
         \/ w # 0 /\ there' = there \union {f}
         \/ there' = there \ {f},
         sync' = [sync EXCEPT !.changed = @ \union {f}], UNCHANGED <<chunks, recorded, readable, ingestions, emptied>>
  PROVE  KnowledgeInv'
<1> PICK y : y = sync
  OBVIOUS
<1> PICK new : new = [y EXCEPT !.changed = y.changed \union {f}]
  OBVIOUS
<1>1. y \in SyncStates /\ sync' = new /\ new \in SyncStates /\ new.pc = y.pc /\ new.file = y.file
  BY DEF KnowledgeInv, KnowledgeTypes, SyncStates
<1>2. /\ version \in Counts /\ there \subseteq SourceFiles /\ version' \in Counts /\ version'[f] = w
      /\ \A g \in SourceFiles \ {f} : version'[g] = version[g] /\ (g \in there' <=> g \in there)
      /\ f \in there' => w # 0
      /\ there' \subseteq SourceFiles
  BY DEF KnowledgeInv, KnowledgeTypes, Counts
<1>3. KnowledgeTypes'
  BY <1>1, <1>2 DEF KnowledgeInv, KnowledgeTypes
<1>4. ASSUME NEW g \in SourceFiles
      PROVE  FileIs(g, new, version'[g], chunks[g], emptied, there', recorded[g], readable)
  <2>1. FileIs(g, y, version[g], chunks[g], emptied, there, recorded[g], readable)
    BY FileOf
  <2>2. CASE g = f
    <3>1. /\ version[f] \in Nat /\ recorded[f] \in Nat /\ y.known[f] \in Nat /\ y.stamp \in Nat /\ y.content \in Nat
          /\ w = version[f] \/ version[f] < w
      BY FileOf
    <3> QED BY <1>1, <1>2, <2>1, <2>2, <3>1, FileChanges_
  <2>3. CASE g # f
    <3>1. version'[g] = version[g] /\ (g \in there' <=> g \in there)
      BY <1>2, <2>3
    <3>2. PICK held : held = chunks[g]
      OBVIOUS
    <3>3. PICK r : r = recorded[g]
      OBVIOUS
    <3>4. FileIs(g, y, version[g], held, emptied, there, r, readable)
      BY <2>1, <3>2, <3>3
    <3>5. FileIs(g, new, version[g], held, emptied, there', r, readable)
      BY <1>1, <2>3, <3>1, <3>4, FileStaysBy
    <3> QED BY <3>1, <3>2, <3>3, <3>5
  <2> QED BY <2>2, <2>3
<1> QED BY <1>1, <1>3, <1>4 DEF KnowledgeInv

LEMMA OwnersStep == ASSUME KnowledgeInv, NEW f \in SourceFiles, ChangeFile(f) \/ RemoveFile(f) PROVE KnowledgeInv'
<1>1. version \in Counts /\ version[f] \in Nat
  BY DEF KnowledgeInv, KnowledgeTypes, Counts
<1>2. CASE ChangeFile(f)
  <2>1. version[f] + 1 \in Nat /\ version[f] <= version[f] + 1 /\ version[f] + 1 # 0
    BY <1>1
  <2> QED BY <1>2, <2>1, OwnersKeep DEF ChangeFile
<1>3. CASE RemoveFile(f)
  <2>1. version' = [version EXCEPT ![f] = version[f]] /\ version[f] <= version[f]
    BY <1>1, <1>3 DEF RemoveFile, Counts
  <2> QED BY <1>1, <1>3, <2>1, OwnersKeep DEF RemoveFile
<1> QED BY <1>2, <1>3

\* What is to be shown of a step that leaves the files alone.
LEMMA KnowledgeGoes ==
  ASSUME KnowledgeInv, UNCHANGED <<version, there>>, sync' \in SyncStates, sync'.pc \in {"chunk", "upsert"} => sync'.file \in SourceFiles,
         chunks' \in [SourceFiles -> SUBSET (Nat \X Batches)], recorded' \in Counts, readable' \in {"whole", "torn"},
         \A g \in SourceFiles : FileIs(g, sync', version[g], chunks'[g], emptied', there, recorded'[g], readable')
  PROVE  KnowledgeInv'
BY DEF KnowledgeInv, KnowledgeTypes

LEMMA StopsKeep ==
  ASSUME KnowledgeInv, sync' = Resting, UNCHANGED <<version, there, recorded, readable>>,
         chunks' \in [SourceFiles -> SUBSET (Nat \X Batches)],
         \A g \in SourceFiles : readable = "whole" => Claim(g, recorded[g], version[g], chunks'[g], emptied')
  PROVE  KnowledgeInv'
<1>1. ASSUME NEW g \in SourceFiles PROVE FileIs(g, Resting, version[g], chunks'[g], emptied', there, recorded[g], readable)
  <2>1. FileIs(g, sync, version[g], chunks[g], emptied, there, recorded[g], readable) /\ version[g] \in Nat /\ recorded[g] \in Nat
    BY FileOf
  <2>2. (g \in there => version[g] # 0) /\ recorded[g] <= version[g]
    BY <2>1 DEF FileIs
  <2>3. readable = "whole" => Claim(g, recorded[g], version[g], chunks'[g], emptied')
    OBVIOUS
  <2> QED BY <2>1, <2>2, <2>3, FileRests
<1>2. recorded \in Counts /\ readable \in {"whole", "torn"}
  BY DEF KnowledgeInv, KnowledgeTypes
<1> QED BY <1>1, <1>2, RestingIs, KnowledgeGoes

LEMMA RecreateKeeps == ASSUME KnowledgeInv, RecreateCollection PROVE KnowledgeInv'
<1>1. /\ sync' = Resting /\ UNCHANGED <<version, there, recorded, readable>> /\ chunks' = [f \in SourceFiles |-> {}]
      /\ emptied' = emptied \union {f \in SourceFiles : recorded[f] # 0}
  BY DEF RecreateCollection
<1>2. chunks' \in [SourceFiles -> SUBSET (Nat \X Batches)]
  BY <1>1
<1>3. \A g \in SourceFiles : Claim(g, recorded[g], version[g], chunks'[g], emptied')
  BY <1>1 DEF Claim
<1> QED BY <1>1, <1>2, <1>3, StopsKeep

LEMMA FullIngestKeeps == ASSUME KnowledgeInv, NEW f \in SourceFiles, FullIngest(f) PROVE KnowledgeInv'
<1>1. /\ sync' = Resting /\ UNCHANGED <<version, there, recorded, readable>> /\ emptied' = emptied \ {f}
  BY DEF FullIngest
<1>2. PICK kept_ \in {{}, chunks[f]} : chunks' = [chunks EXCEPT ![f] = kept_ \union Whole(version[f])]
  BY DEF FullIngest
<1>3. chunks \in [SourceFiles -> SUBSET (Nat \X Batches)] /\ version[f] \in Nat
  BY FileOf DEF KnowledgeInv, KnowledgeTypes
<1>4. Whole(version[f]) \subseteq Nat \X Batches
  BY <1>3 DEF Whole
<1>5. chunks' \in [SourceFiles -> SUBSET (Nat \X Batches)]
  BY <1>2, <1>3, <1>4
<1>6. ASSUME NEW g \in SourceFiles, readable = "whole" PROVE Claim(g, recorded[g], version[g], chunks'[g], emptied')
  <2>1. Claim(g, recorded[g], version[g], chunks[g], emptied)
    BY <1>6, FileOf DEF FileIs
  <2>2. CASE g = f
    <3>1. chunks'[g] = kept_ \union Whole(version[g]) /\ kept_ \in {{}, chunks[g]}
      BY <1>2, <1>3, <2>2
    <3> QED BY <2>1, <3>1 DEF Claim
  <2>3. CASE g # f
    <3>1. chunks'[g] = chunks[g]
      BY <1>2, <1>3, <2>3
    <3> QED BY <1>1, <2>1, <2>3, <3>1 DEF Claim
  <2> QED BY <2>2, <2>3
<1> QED BY <1>1, <1>5, <1>6, StopsKeep

LEMMA RaisesKeeps == ASSUME KnowledgeInv, SyncRaises PROVE KnowledgeInv'
<1>1. sync' = Resting /\ UNCHANGED <<version, there, chunks, recorded, readable, emptied>>
  BY DEF SyncRaises
<1>2. chunks' \in [SourceFiles -> SUBSET (Nat \X Batches)]
  BY <1>1 DEF KnowledgeInv, KnowledgeTypes
<1>3. \A g \in SourceFiles : readable = "whole" => Claim(g, recorded[g], version[g], chunks'[g], emptied')
  BY <1>1, FileOf DEF FileIs
<1> QED BY <1>1, <1>2, <1>3, StopsKeep

LEMMA SyncStartKeeps == ASSUME KnowledgeInv, SyncStart PROVE KnowledgeInv'
<1>1. PICK current \in Listings :
          sync' = [Resting EXCEPT !.pc = "forget", !.known = LoadedState, !.loaded = LoadedState, !.current = current, !.todo = current]
  BY DEF SyncStart
<1>2. UNCHANGED <<version, there, chunks, recorded, readable, emptied>>
  BY DEF SyncStart
<1>3. current \subseteq SourceFiles
  BY DEF Listings, KnowledgeInv, KnowledgeTypes
<1>4. LoadedState \in Counts
  BY DEF LoadedState, KnowledgeInv, KnowledgeTypes, NoRecords, Counts
<1> PICK loaded : loaded = LoadedState
  OBVIOUS
<1> PICK new : new = sync'
  OBVIOUS
<1>5. /\ new \in SyncStates /\ new.pc = "forget" /\ new.known = loaded /\ new.loaded = loaded
      /\ new.current = current /\ new.todo = current
  BY <1>1, <1>3, <1>4, RestingIs DEF SyncStates
<1>6. ASSUME NEW g \in SourceFiles PROVE FileIs(g, new, version[g], chunks[g], emptied, there, recorded[g], readable)
  <2>1. FileIs(g, sync, version[g], chunks[g], emptied, there, recorded[g], readable) /\ version[g] \in Nat /\ recorded[g] \in Nat
    BY FileOf
  <2>2. loaded[g] = IF readable = "whole" THEN recorded[g] ELSE 0
    BY DEF LoadedState, NoRecords
  <2>3. Claim(g, loaded[g], version[g], chunks[g], emptied) /\ loaded[g] <= version[g]
    BY <2>1, <2>2 DEF FileIs, Claim
  <2>4. ListedIs(g, new, version[g], chunks[g]) /\ AtFile(g, new, version[g], chunks[g])
    BY <1>5 DEF ListedIs, AtFile
  <2> QED BY <1>5, <2>1, <2>2, <2>3, <2>4 DEF FileIs
<1>7. /\ chunks \in [SourceFiles -> SUBSET (Nat \X Batches)] /\ recorded \in Counts /\ readable \in {"whole", "torn"}
  BY DEF KnowledgeInv, KnowledgeTypes
<1> QED BY <1>2, <1>5, <1>6, <1>7, KnowledgeGoes

LEMMA ForgetKeeps == ASSUME KnowledgeInv, NEW f \in SourceFiles, SyncForget(f) PROVE KnowledgeInv'
<1> PICK y : y = sync
  OBVIOUS
<1> PICK new : new = sync'
  OBVIOUS
<1>1. /\ y.pc = "forget" /\ f \notin y.current /\ chunks' = [chunks EXCEPT ![f] = {}] /\ emptied' = emptied \union {f}
      /\ new = [y EXCEPT !.known[f] = 0] /\ UNCHANGED <<version, there, recorded, readable>>
  BY DEF SyncForget, Gone
<1>2. y \in SyncStates /\ chunks \in [SourceFiles -> SUBSET (Nat \X Batches)] /\ recorded \in Counts /\ readable \in {"whole", "torn"}
  BY DEF KnowledgeInv, KnowledgeTypes
<1>3. /\ new \in SyncStates /\ new.pc = "forget" /\ new.known = [y.known EXCEPT ![f] = 0] /\ new.loaded = y.loaded
      /\ new.current = y.current /\ new.todo = y.todo /\ new.changed = y.changed
  <2> PICK k : k = [y.known EXCEPT ![f] = 0]
    OBVIOUS
  <2>1. k \in Counts /\ new = [y EXCEPT !.known = k]
    BY <1>1, <1>2 DEF SyncStates, Counts
  <2> QED BY <1>1, <1>2, <2>1 DEF SyncStates
<1>4. /\ new.known[f] = 0 /\ chunks'[f] = {}
      /\ \A g \in SourceFiles \ {f} : new.known[g] = y.known[g] /\ chunks'[g] = chunks[g]
      /\ chunks' \in [SourceFiles -> SUBSET (Nat \X Batches)]
  BY <1>1, <1>2, <1>3 DEF SyncStates, Counts
<1>5. ASSUME NEW g \in SourceFiles PROVE FileIs(g, new, version[g], chunks'[g], emptied', there, recorded[g], readable)
  <2>1. FileIs(g, y, version[g], chunks[g], emptied, there, recorded[g], readable) /\ version[g] \in Nat /\ recorded[g] \in Nat
    BY FileOf
  <2>2. CASE g = f
    <3>1. Claim(g, new.known[g], version[g], chunks'[g], emptied') /\ Claim(g, recorded[g], version[g], chunks'[g], emptied')
      BY <1>1, <1>4, <2>2 DEF Claim
    <3>2. ListedIs(g, new, version[g], chunks'[g]) /\ AtFile(g, new, version[g], chunks'[g])
      BY <1>1, <1>3, <1>4, <2>1, <2>2 DEF FileIs, ListedIs, AtFile
    <3> QED BY <1>1, <1>3, <1>4, <2>1, <2>2, <3>1, <3>2 DEF FileIs
  <2>3. CASE g # f
    <3>1. Claim(g, new.known[g], version[g], chunks'[g], emptied')
      BY <1>1, <1>4, <2>1, <2>3 DEF FileIs, Claim
    <3>2. readable = "whole" => Claim(g, recorded[g], version[g], chunks'[g], emptied')
      BY <1>1, <1>4, <2>1, <2>3 DEF FileIs, Claim
    <3>3. ListedIs(g, new, version[g], chunks'[g]) /\ AtFile(g, new, version[g], chunks'[g])
      BY <1>1, <1>3, <1>4, <2>1, <2>3 DEF FileIs, ListedIs, AtFile
    <3> QED BY <1>1, <1>3, <1>4, <2>1, <2>3, <3>1, <3>2, <3>3 DEF FileIs
  <2> QED BY <2>2, <2>3
<1> QED BY <1>1, <1>2, <1>3, <1>4, <1>5, KnowledgeGoes

\* Steps that only move on in the ingestion.
LEMMA MovesOn ==
  ASSUME KnowledgeInv, NEW new \in SyncStates, sync' = new, UNCHANGED <<version, there, chunks, recorded, emptied>>,
         readable' \in {readable, "torn"},
         new.pc \in {"chunk", "upsert"} => new.file \in SourceFiles,
         new.known = sync.known, new.loaded = sync.loaded,
         \A g \in SourceFiles :
             /\ ListedIs(g, new, version[g], chunks[g]) /\ AtFile(g, new, version[g], chunks[g])
             /\ new.pc \in {"forget", "walk", "chunk", "upsert"} => sync.pc \in {"forget", "walk", "chunk", "upsert"}
  PROVE  KnowledgeInv'
<1>1. readable' \in {"whole", "torn"} /\ (readable' = "whole" => readable = "whole")
  BY DEF KnowledgeInv, KnowledgeTypes
<1>2. ASSUME NEW g \in SourceFiles PROVE FileIs(g, new, version[g], chunks[g], emptied, there, recorded[g], readable')
  <2>1. FileIs(g, sync, version[g], chunks[g], emptied, there, recorded[g], readable)
    BY FileOf
  <2> QED BY <1>1, <2>1 DEF FileIs
<1>3. chunks \in [SourceFiles -> SUBSET (Nat \X Batches)] /\ recorded \in Counts
  BY DEF KnowledgeInv, KnowledgeTypes
<1> QED BY <1>1, <1>2, <1>3, KnowledgeGoes

LEMMA ForgottenKeeps == ASSUME KnowledgeInv, SyncForgotten PROVE KnowledgeInv'
<1> PICK y : y = sync
  OBVIOUS
<1> PICK new : new = [y EXCEPT !.pc = "walk"]
  OBVIOUS
<1>1. /\ y.pc = "forget" /\ sync' = new /\ UNCHANGED <<version, there, chunks, recorded, readable, emptied>>
      /\ \A g \in SourceFiles : g \notin y.current => y.known[g] = 0
  BY DEF SyncForgotten, Gone
<1>2. y \in SyncStates
  BY DEF KnowledgeInv, KnowledgeTypes
<1>3. /\ new \in SyncStates /\ new.pc = "walk" /\ new.known = y.known /\ new.loaded = y.loaded
      /\ new.current = y.current /\ new.todo = y.todo /\ new.changed = y.changed
  BY <1>2 DEF SyncStates
<1>4. ASSUME NEW g \in SourceFiles PROVE ListedIs(g, new, version[g], chunks[g]) /\ AtFile(g, new, version[g], chunks[g])
  <2>1. ListedIs(g, y, version[g], chunks[g])
    BY FileOf DEF FileIs
  <2> QED BY <1>1, <1>3, <2>1 DEF ListedIs, AtFile
<1> QED BY <1>1, <1>3, <1>4, MovesOn

LEMMA SkipKeeps == ASSUME KnowledgeInv, NEW f \in SourceFiles, SyncSkip(f) PROVE KnowledgeInv'
<1> PICK y : y = sync
  OBVIOUS
<1> PICK new : new = [y EXCEPT !.todo = y.todo \ {f}]
  OBVIOUS
<1>1. /\ y.pc = "walk" /\ f \in y.todo /\ f \in there /\ y.known[f] = version[f] /\ sync' = new
      /\ UNCHANGED <<version, there, chunks, recorded, readable, emptied>>
  BY DEF SyncSkip
<1>2. y \in SyncStates
  BY DEF KnowledgeInv, KnowledgeTypes
<1>3. /\ new \in SyncStates /\ new.pc = "walk" /\ new.known = y.known /\ new.loaded = y.loaded
      /\ new.current = y.current /\ new.todo = y.todo \ {f} /\ new.changed = y.changed
  BY <1>1, <1>2 DEF SyncStates
<1>4. ASSUME NEW g \in SourceFiles PROVE ListedIs(g, new, version[g], chunks[g]) /\ AtFile(g, new, version[g], chunks[g])
  <2>1. ListedIs(g, y, version[g], chunks[g]) /\ (g \in there => version[g] # 0)
    BY FileOf DEF FileIs
  <2> QED BY <1>1, <1>3, <2>1 DEF ListedIs, AtFile
<1> QED BY <1>1, <1>3, <1>4, MovesOn

LEMMA ChunkKeeps == ASSUME KnowledgeInv, SyncChunk PROVE KnowledgeInv'
<1> PICK y : y = sync
  OBVIOUS
<1> PICK new : new = [y EXCEPT !.pc = "upsert", !.content = version[y.file], !.batch = 1]
  OBVIOUS
<1>1. /\ y.pc = "chunk" /\ y.file \in there /\ sync' = new
      /\ UNCHANGED <<version, there, chunks, recorded, readable, emptied>>
  BY DEF SyncChunk
<1>2. y \in SyncStates /\ y.file \in SourceFiles /\ version[y.file] \in Nat
  BY <1>1, FileOf DEF KnowledgeInv, KnowledgeTypes
<1>3. /\ new \in SyncStates /\ new.pc = "upsert" /\ new.known = y.known /\ new.loaded = y.loaded /\ new.current = y.current
      /\ new.todo = y.todo /\ new.changed = y.changed /\ new.file = y.file /\ new.stamp = y.stamp
      /\ new.content = version[y.file] /\ new.batch = 1
  BY <1>1, <1>2 DEF SyncStates
<1>4. ASSUME NEW g \in SourceFiles PROVE ListedIs(g, new, version[g], chunks[g]) /\ AtFile(g, new, version[g], chunks[g])
  <2>1. ListedIs(g, y, version[g], chunks[g]) /\ AtFile(g, y, version[g], chunks[g]) /\ version[g] \in Nat
    BY FileOf DEF FileIs
  <2>2. ListedIs(g, new, version[g], chunks[g])
    BY <1>1, <1>3, <2>1 DEF ListedIs
  <2>3. Batch(version[g], 1 - 1) = {}
    BY DEF Batch
  <2>4. 1 \in Batches /\ version[g] <= version[g]
    BY <2>1 DEF Batches
  <2>5. AtFile(g, new, version[g], chunks[g])
    BY <1>1, <1>3, <2>1, <2>3, <2>4 DEF AtFile
  <2> QED BY <2>2, <2>5
<1> QED BY <1>1, <1>2, <1>3, <1>4, MovesOn

LEMMA SaveKeeps == ASSUME KnowledgeInv, SyncSave PROVE KnowledgeInv'
<1> PICK y : y = sync
  OBVIOUS
<1> PICK new : new = [y EXCEPT !.pc = "save"]
  OBVIOUS
<1>1. /\ y.pc = "walk" /\ y.todo = {} /\ sync' = new /\ readable' = "torn"
      /\ UNCHANGED <<version, there, chunks, recorded, emptied>>
  BY DEF SyncSave
<1>2. y \in SyncStates
  BY DEF KnowledgeInv, KnowledgeTypes
<1>3. /\ new \in SyncStates /\ new.pc = "save" /\ new.known = y.known /\ new.loaded = y.loaded
      /\ new.current = y.current /\ new.todo = y.todo /\ new.changed = y.changed
  BY <1>2 DEF SyncStates
<1>4. ASSUME NEW g \in SourceFiles PROVE ListedIs(g, new, version[g], chunks[g]) /\ AtFile(g, new, version[g], chunks[g])
  <2>1. ListedIs(g, y, version[g], chunks[g])
    BY FileOf DEF FileIs
  <2> QED BY <1>1, <1>3, <2>1 DEF ListedIs, AtFile
<1> QED BY <1>1, <1>3, <1>4, MovesOn

LEMMA SavedKeeps == ASSUME KnowledgeInv, SyncSaved PROVE KnowledgeInv'
<1> PICK y : y = sync
  OBVIOUS
<1> PICK new : new = [y EXCEPT !.pc = "done"]
  OBVIOUS
<1>1. /\ y.pc = "save" /\ sync' = new /\ readable' = "whole" /\ recorded' = y.known
      /\ UNCHANGED <<version, there, chunks, emptied>>
  BY DEF SyncSaved
<1>2. y \in SyncStates /\ y.known \in Counts /\ chunks \in [SourceFiles -> SUBSET (Nat \X Batches)]
  BY DEF KnowledgeInv, KnowledgeTypes, SyncStates
<1>3. /\ new \in SyncStates /\ new.pc = "done" /\ new.known = y.known /\ new.loaded = y.loaded
      /\ new.current = y.current /\ new.todo = y.todo /\ new.changed = y.changed
  BY <1>2 DEF SyncStates
<1>4. ASSUME NEW g \in SourceFiles PROVE FileIs(g, new, version[g], chunks[g], emptied, there, y.known[g], "whole")
  <2>1. FileIs(g, y, version[g], chunks[g], emptied, there, recorded[g], readable)
    BY FileOf
  <2>2. ListedIs(g, new, version[g], chunks[g]) /\ AtFile(g, new, version[g], chunks[g])
    BY <1>1, <1>3, <2>1 DEF FileIs, ListedIs, AtFile
  <2> QED BY <1>1, <1>3, <2>1, <2>2 DEF FileIs
<1> QED BY <1>1, <1>2, <1>3, <1>4, KnowledgeGoes

\* A file that the ingestion asks about has lost its chunks, and no record names its version.
LEMMA StatKeeps == ASSUME KnowledgeInv, NEW f \in SourceFiles, SyncStat(f) PROVE KnowledgeInv'
<1> PICK y : y = sync
  OBVIOUS
<1> PICK new : new = [y EXCEPT !.pc = "chunk", !.file = f, !.stamp = version[f]]
  OBVIOUS
<1>1. /\ y.pc = "walk" /\ f \in y.todo /\ f \in there /\ y.known[f] # version[f] /\ sync' = new
      /\ chunks' = [chunks EXCEPT ![f] = {}] /\ UNCHANGED <<version, there, recorded, readable, emptied>>
  BY DEF SyncStat
<1>2. /\ y \in SyncStates /\ chunks \in [SourceFiles -> SUBSET (Nat \X Batches)] /\ recorded \in Counts
      /\ readable \in {"whole", "torn"} /\ version[f] \in Nat
  BY FileOf DEF KnowledgeInv, KnowledgeTypes
<1>3. /\ new \in SyncStates /\ new.pc = "chunk" /\ new.known = y.known /\ new.loaded = y.loaded /\ new.current = y.current
      /\ new.todo = y.todo /\ new.changed = y.changed /\ new.file = f /\ new.stamp = version[f]
  BY <1>2 DEF SyncStates
<1>4. /\ chunks' \in [SourceFiles -> SUBSET (Nat \X Batches)] /\ chunks'[f] = {}
      /\ \A g \in SourceFiles \ {f} : chunks'[g] = chunks[g]
  BY <1>1, <1>2
<1>5. ASSUME NEW g \in SourceFiles PROVE FileIs(g, new, version[g], chunks'[g], emptied, there, recorded[g], readable)
  <2>1. /\ FileIs(g, y, version[g], chunks[g], emptied, there, recorded[g], readable)
        /\ version[g] \in Nat /\ recorded[g] \in Nat /\ y.known[g] \in Nat
    BY FileOf
  <2>2. CASE g = f
    <3>1. y.known[g] < version[g] /\ (readable = "whole" => recorded[g] = y.known[g])
      BY <1>1, <2>1, <2>2 DEF FileIs, ListedIs
    <3>2. Claim(g, y.known[g], version[g], chunks'[g], emptied) /\ (readable = "whole" => Claim(g, recorded[g], version[g], chunks'[g], emptied))
      BY <1>1, <2>2, <3>1 DEF Claim
    <3>3. ListedIs(g, new, version[g], chunks'[g])
      BY <1>1, <1>3, <1>4, <2>1, <2>2 DEF FileIs, ListedIs
    <3>4. AtFile(g, new, version[g], chunks'[g])
      BY <1>1, <1>3, <1>4, <2>1, <2>2, <3>1 DEF AtFile
    <3> QED BY <1>1, <1>3, <2>1, <3>2, <3>3, <3>4 DEF FileIs
  <2>3. CASE g # f
    <3>1. ListedIs(g, new, version[g], chunks[g]) /\ AtFile(g, new, version[g], chunks[g]) /\ chunks'[g] = chunks[g]
      BY <1>1, <1>3, <1>4, <2>1, <2>3 DEF FileIs, ListedIs, AtFile
    <3> QED BY <1>1, <1>3, <2>1, <3>1 DEF FileIs
  <2> QED BY <2>2, <2>3
<1> QED BY <1>1, <1>2, <1>3, <1>4, <1>5, KnowledgeGoes

LEMMA BatchesAre ==
  /\ Cardinality(Batches) = 2
  /\ \A c : Batch(c, 1 - 1) \union {<<c, 1>>} = Batch(c, 1) /\ Batch(c, 2 - 1) \union {<<c, 2>>} = Whole(c)
<1>1. Cardinality(Batches) = 2
  <2>1. Cardinality(1..2) = 2
    <3>1. IsFiniteSet({1}) /\ Cardinality({1}) = 1
      BY FS_Singleton
    <3>2. Cardinality({1} \cup {2}) = IF 2 \in {1} THEN 1 ELSE 1 + 1
      BY <3>1, FS_AddElement
    <3>3. 1..2 = {1} \cup {2}
      OBVIOUS
    <3>4. 2 \notin {1} /\ 1 + 1 = 2
      OBVIOUS
    <3> QED BY <3>2, <3>3, <3>4
  <2>2. 1..2 = Batches
    BY DEF Batches
  <2> QED BY <2>1, <2>2
<1>2. 1..(1 - 1) = {} /\ 1..1 = {1} /\ 1..(2 - 1) = {1}
  OBVIOUS
<1> QED BY <1>1, <1>2 DEF Batch, Whole, Batches

LEMMA UpsertKeeps == ASSUME KnowledgeInv, SyncUpsert PROVE KnowledgeInv'
<1> PICK y : y = sync
  OBVIOUS
<1> PICK f : f = y.file
  OBVIOUS
<1> PICK piece : piece = <<y.content, y.batch>>
  OBVIOUS
<1>1. /\ y.pc = "upsert" /\ chunks' = [chunks EXCEPT ![f] = @ \union {piece}]
      /\ UNCHANGED <<version, there, recorded, readable>>
  BY DEF SyncUpsert
<1>2. /\ y \in SyncStates /\ f \in SourceFiles /\ chunks \in [SourceFiles -> SUBSET (Nat \X Batches)] /\ recorded \in Counts
      /\ readable \in {"whole", "torn"}
  BY <1>1 DEF KnowledgeInv, KnowledgeTypes
<1>3. /\ FileIs(f, y, version[f], chunks[f], emptied, there, recorded[f], readable)
      /\ version[f] \in Nat /\ recorded[f] \in Nat /\ y.known[f] \in Nat /\ y.stamp \in Nat /\ y.content \in Nat
  BY <1>2, FileOf
<1>4. /\ f \in y.todo /\ f \in y.current /\ y.known[f] < version[f] /\ y.stamp <= version[f] /\ (f \notin y.changed => y.stamp = version[f])
      /\ y.stamp <= y.content /\ y.content <= version[f] /\ y.batch \in Batches /\ chunks[f] = Batch(y.content, y.batch - 1)
      /\ readable = "whole" => recorded[f] = y.known[f]
  BY <1>1, <1>3 DEF FileIs, ListedIs, AtFile
<1>5. /\ chunks' \in [SourceFiles -> SUBSET (Nat \X Batches)] /\ chunks'[f] = chunks[f] \union {piece}
      /\ \A g \in SourceFiles \ {f} : chunks'[g] = chunks[g]
  <2>1. piece \in Nat \X Batches
    BY <1>3, <1>4
  <2> QED BY <1>1, <1>2, <2>1
<1>6. readable = "whole" => recorded[f] < version[f]
  BY <1>4
<1>7. CASE y.batch = 1
  <2> PICK new : new = [y EXCEPT !.batch = 2]
    OBVIOUS
  <2>1. sync' = new /\ emptied' = emptied
    BY <1>7, BatchesAre DEF SyncUpsert
  <2>2. /\ new \in SyncStates /\ new.pc = "upsert" /\ new.known = y.known /\ new.loaded = y.loaded /\ new.current = y.current
        /\ new.todo = y.todo /\ new.changed = y.changed /\ new.file = f /\ new.stamp = y.stamp /\ new.content = y.content /\ new.batch = 2
    BY <1>1, <1>2 DEF SyncStates
  <2>3. chunks'[f] = Batch(y.content, 2 - 1)
    BY <1>4, <1>5, <1>7, BatchesAre
  <2>4. ASSUME NEW g \in SourceFiles PROVE FileIs(g, new, version[g], chunks'[g], emptied, there, recorded[g], readable)
    <3>1. FileIs(g, y, version[g], chunks[g], emptied, there, recorded[g], readable)
      BY FileOf
    <3>2. CASE g = f
      <4>1. Claim(g, y.known[g], version[g], chunks'[g], emptied) /\ (readable = "whole" => Claim(g, recorded[g], version[g], chunks'[g], emptied))
        BY <1>3, <1>4, <1>6, <3>2 DEF Claim
      <4>2. ListedIs(g, new, version[g], chunks'[g])
        BY <1>1, <1>4, <2>2, <3>1, <3>2 DEF FileIs, ListedIs
      <4>3. AtFile(g, new, version[g], chunks'[g])
        BY <1>1, <1>4, <2>2, <2>3, <3>2 DEF AtFile, Batches
      <4> QED BY <1>1, <2>2, <3>1, <4>1, <4>2, <4>3 DEF FileIs
    <3>3. CASE g # f
      <4>1. ListedIs(g, new, version[g], chunks[g]) /\ AtFile(g, new, version[g], chunks[g]) /\ chunks'[g] = chunks[g]
        BY <1>1, <1>5, <2>2, <3>1, <3>3 DEF FileIs, ListedIs, AtFile
      <4> QED BY <1>1, <2>2, <3>1, <4>1 DEF FileIs
    <3> QED BY <3>2, <3>3
  <2> QED BY <1>1, <1>2, <1>5, <2>1, <2>2, <2>4, KnowledgeGoes
<1>8. CASE y.batch = 2
  <2> PICK new : new = [y EXCEPT !.pc = "walk", !.todo = y.todo \ {f}, !.known[f] = y.stamp]
    OBVIOUS
  <2>1. sync' = new /\ emptied' = emptied \ {f}
    BY <1>8, BatchesAre DEF SyncUpsert
  <2>2. /\ new \in SyncStates /\ new.pc = "walk" /\ new.known = [y.known EXCEPT ![f] = y.stamp] /\ new.loaded = y.loaded
        /\ new.current = y.current /\ new.todo = y.todo \ {f} /\ new.changed = y.changed
    BY <1>1, <1>2, <1>3 DEF SyncStates, Counts
  <2>3. new.known[f] = y.stamp /\ \A g \in SourceFiles \ {f} : new.known[g] = y.known[g]
    BY <1>2, <2>2 DEF SyncStates, Counts
  <2>4. chunks'[f] = Whole(y.content)
    BY <1>4, <1>5, <1>8, BatchesAre
  <2>5. ASSUME NEW g \in SourceFiles PROVE FileIs(g, new, version[g], chunks'[g], emptied', there, recorded[g], readable)
    <3>1. FileIs(g, y, version[g], chunks[g], emptied, there, recorded[g], readable)
      BY FileOf
    <3>2. CASE g = f
      <4>1. y.stamp = version[f] => y.content = version[f]
        BY <1>3, <1>4
      <4>2. Claim(g, y.stamp, version[g], chunks'[g], emptied') /\ (readable = "whole" => Claim(g, recorded[g], version[g], chunks'[g], emptied'))
        BY <1>3, <1>6, <2>4, <3>2, <4>1 DEF Claim
      <4>3. version[f] # 0
        BY <1>3, <1>4
      <4>4. ListedIs(g, new, version[g], chunks'[g]) /\ AtFile(g, new, version[g], chunks'[g])
        BY <1>1, <1>4, <2>2, <2>3, <3>1, <3>2, <4>3 DEF FileIs, ListedIs, AtFile
      <4> QED BY <1>1, <1>4, <2>2, <2>3, <3>1, <3>2, <4>2, <4>4 DEF FileIs
    <3>3. CASE g # f
      <4>1. ListedIs(g, new, version[g], chunks[g]) /\ AtFile(g, new, version[g], chunks[g]) /\ chunks'[g] = chunks[g]
        BY <1>1, <1>5, <2>2, <2>3, <3>1, <3>3 DEF FileIs, ListedIs, AtFile
      <4>2. \A k : Claim(g, k, version[g], chunks[g], emptied) => Claim(g, k, version[g], chunks[g], emptied')
        BY <2>1, <3>3 DEF Claim
      <4> QED BY <1>1, <2>2, <2>3, <3>1, <3>3, <4>1, <4>2 DEF FileIs
    <3> QED BY <3>2, <3>3
  <2>6. sync' \in SyncStates /\ sync'.pc = "walk" /\ sync'.loaded = y.loaded
    BY <2>1, <2>2
  <2>7. sync'.pc \notin {"chunk", "upsert"}
    BY <2>6
  <2>8. \A g \in SourceFiles : FileIs(g, sync', version[g], chunks'[g], emptied', there, recorded[g], readable)
    BY <2>1, <2>5
  <2> QED BY <1>1, <1>2, <1>5, <2>6, <2>7, <2>8, KnowledgeGoes
<1> QED BY <1>4, <1>7, <1>8 DEF Batches

LEMMA KnowledgeStep == KnowledgeInv /\ KnowledgeNext => KnowledgeInv'
BY OwnersStep, RecreateKeeps, FullIngestKeeps, RaisesKeeps, SyncStartKeeps, ForgetKeeps, ForgottenKeeps, SkipKeeps, StatKeeps,
   ChunkKeeps, UpsertKeeps, SaveKeeps, SavedKeeps DEF KnowledgeNext, SyncStep

LEMMA KnowledgeInvIsHonest == KnowledgeInv => RecordsAreHonest /\ IndexFollowsFiles
<1> SUFFICES ASSUME KnowledgeInv PROVE RecordsAreHonest /\ IndexFollowsFiles
  OBVIOUS
<1>1. RecordsAreHonest
  <2> SUFFICES ASSUME readable = "whole", NEW f \in there, f \notin emptied, recorded[f] = version[f]
               PROVE  chunks[f] = Whole(version[f])
    BY DEF RecordsAreHonest
  <2>1. f \in SourceFiles
    BY DEF KnowledgeInv, KnowledgeTypes
  <2>2. FileIs(f, sync, version[f], chunks[f], emptied, there, recorded[f], readable)
    BY <2>1, FileOf
  <2> QED BY <2>2 DEF FileIs, Claim
<1>2. IndexFollowsFiles
  <2> SUFFICES ASSUME sync.pc = "done", NEW f \in SourceFiles, f \notin sync.changed
               PROVE  IF f \in sync.current THEN chunks[f] = Whole(version[f]) \/ f \in emptied
                      ELSE chunks[f] = {} \/ sync.loaded[f] = 0
    BY DEF IndexFollowsFiles
  <2>1. FileIs(f, sync, version[f], chunks[f], emptied, there, recorded[f], readable)
    BY FileOf
  <2> QED BY <2>1 DEF FileIs, Claim, ListedIs
<1> QED BY <1>1, <1>2

---------------------------------------------------------------------------
(* The search of the knowledge base *)

Asks == [pc : {"idle", "step", "lookup", "hit", "search", "store", "move", "evict", "pop", "answer"}, turns : Nat, step : Nat,
         key : Questions \cup {NoAsk.key}, at : Nat, found : Nat, used : BOOLEAN, blocks : Nat]
Entries == [key : Questions \cup {NoAsk.key}, found : Nat, ts : Nat]

\* An asker that was shown a block asks no more, and what it holds was found no longer
\* than the cache's time before it looked.
AskIs(ask, time) ==
    /\ ask.blocks <= 1 /\ ask.at <= time
    /\ ask.pc # "idle" /\ ~ask.used => ask.blocks = 0
    /\ ask.used => ask.pc = "step"
    /\ ask.pc = "store" => ask.found >= ask.at
    /\ ask.pc \in {"hit", "store", "move", "evict", "pop", "answer"} => ask.found >= ask.at - Ttl

\* Each entry over the cache's size is owed by an asker of its own: one that has yet to
\* move the entry it has added, or that is in its loop.
Owed(asks, c, debtors) ==
    /\ debtors \subseteq Askers /\ Len(c) <= CacheSize + Cardinality(debtors)
    /\ \A a \in debtors : /\ asks[a].pc \in {"move", "evict", "pop"}
                          /\ asks[a].pc = "move" => \E i \in DOMAIN c : c[i].key = asks[a].key
    /\ \A a, b \in debtors : asks[a].pc = "move" /\ asks[b].pc = "move" /\ asks[a].key = asks[b].key => a = b

SearchInv ==
    /\ tick \in Nat /\ asking \in [Askers -> Asks] /\ cache \in Seq(Entries)
    /\ \A a \in Askers : AskIs(asking[a], tick)
    /\ \A i \in DOMAIN cache : cache[i].found >= cache[i].ts
    /\ \E debtors : Owed(asking, cache, debtors)

LEMMA NoAskIs == NoAsk \in Asks /\ NoAsk.pc = "idle" /\ NoAsk.at = 0 /\ NoAsk.blocks = 0 /\ ~NoAsk.used
<1> PICK key : key = NoAsk.key
  OBVIOUS
<1>1. NoAsk = [pc |-> "idle", turns |-> 0, step |-> 0, key |-> key, at |-> 0, found |-> 0, used |-> FALSE, blocks |-> 0]
  BY DEF NoAsk
<1> QED BY <1>1 DEF Asks

LEMMA SearchStart == SearchInit => SearchInv
<1> SUFFICES ASSUME SearchInit PROVE SearchInv
  OBVIOUS
<1>1. NoAsk \in Asks /\ AskIs(NoAsk, 0)
  BY NoAskIs DEF AskIs
<1>2. asking \in [Askers -> Asks] /\ \A a \in Askers : AskIs(asking[a], 0)
  BY <1>1 DEF SearchInit
<1>3. Owed(asking, cache, {})
  BY SearchAssumption, FS_EmptySet DEF SearchInit, Owed
<1> QED BY <1>2, <1>3 DEF SearchInit, SearchInv

LEMMA SearchStutters == SearchInv /\ UNCHANGED searchVars => SearchInv'
BY DEF SearchInv, searchVars

\* What an asker owes when another one, or itself, goes on.
LEMMA DebtsEnd ==
  ASSUME NEW asks, NEW c, NEW debtors, Owed(asks, c, debtors), NEW a \in Askers, NEW new, NEW asks2,
         asks \in [Askers -> Asks], asks2 = [asks EXCEPT ![a] = new],
         a \in debtors => /\ new.pc \in {"move", "evict", "pop"}
                          /\ new.pc = "move" => asks[a].pc = "move" /\ new.key = asks[a].key
  PROVE  Owed(asks2, c, debtors)
<1>1. asks2[a] = new /\ \A b \in Askers \ {a} : asks2[b] = asks[b]
  OBVIOUS
<1>2. debtors \subseteq Askers /\ Len(c) <= CacheSize + Cardinality(debtors)
  BY DEF Owed
<1>3. ASSUME NEW b \in debtors
      PROVE  /\ asks2[b].pc \in {"move", "evict", "pop"}
             /\ asks2[b].pc = "move" => asks[b].pc = "move" /\ asks2[b].key = asks[b].key
  <2>1. CASE b = a
    BY <1>1, <2>1
  <2>2. CASE b # a
    BY <1>1, <1>2, <2>2 DEF Owed
  <2> QED BY <2>1, <2>2
<1> QED BY <1>2, <1>3 DEF Owed

LEMMA AskerGoes ==
  ASSUME SearchInv, NEW a \in Askers, NEW new \in Asks, asking' = [asking EXCEPT ![a] = new], UNCHANGED <<tick, cache>>,
         AskIs(new, tick),
         new.pc \in {"evict", "pop"} => asking[a].pc \in {"move", "evict", "pop"},
         new.pc = "move" => asking[a].pc = "move" /\ new.key = asking[a].key,
         \/ new.pc \in {"move", "evict", "pop"}
         \/ asking[a].pc \notin {"move", "evict", "pop"}
         \/ Len(cache) <= CacheSize
         \/ asking[a].pc = "move" /\ ~Cached(asking[a].key)
  PROVE  SearchInv'
<1>1. asking' \in [Askers -> Asks] /\ asking'[a] = new /\ \A b \in Askers \ {a} : asking'[b] = asking[b]
  BY DEF SearchInv
<1>2. \A b \in Askers : AskIs(asking'[b], tick)
  BY <1>1 DEF SearchInv
<1>3. \E debtors : Owed(asking', cache, debtors)
  <2>1. CASE Len(cache) <= CacheSize
    <3>1. Owed(asking', cache, {})
      BY <2>1, SearchAssumption, FS_EmptySet DEF Owed
    <3> QED BY <3>1
  <2>2. CASE ~(Len(cache) <= CacheSize)
    <3>1. PICK debtors : Owed(asking, cache, debtors)
      BY DEF SearchInv
    <3>2. asking \in [Askers -> Asks]
      BY DEF SearchInv
    <3>3. a \in debtors => new.pc \in {"move", "evict", "pop"}
      BY <2>2, <3>1 DEF Owed, Cached
    <3>4. Owed(asking', cache, debtors)
      BY <3>1, <3>2, <3>3, DebtsEnd
    <3> QED BY <3>4
  <2> QED BY <2>1, <2>2
<1> QED BY <1>1, <1>2, <1>3 DEF SearchInv

\* Where a step of a turn ends, with a block shown or without.
EndsStep(a) == Continue(a, FALSE) \/ (~asking[a].used /\ Continue(a, TRUE))

LEMMA ContinueKeeps ==
  ASSUME SearchInv, NEW a \in Askers, asking[a].pc # "idle", EndsStep(a), UNCHANGED <<tick, cache>>,
         \/ asking[a].pc \notin {"move", "evict", "pop"}
         \/ Len(cache) <= CacheSize
         \/ asking[a].pc = "move" /\ ~Cached(asking[a].key)
  PROVE  SearchInv'
<1> PICK ask : ask = asking[a]
  OBVIOUS
<1> PICK any : any = NoAsk.key
  OBVIOUS
<1>1. ask \in Asks /\ AskIs(ask, tick) /\ tick \in Nat
  BY DEF SearchInv
<1>2. PICK shows \in BOOLEAN :
         /\ shows => ~ask.used
         /\ LET next == [ask EXCEPT !.pc = "step", !.step = @ + 1, !.used = @ \/ shows,
                                    !.blocks = @ + IF shows THEN 1 ELSE 0, !.at = 0, !.found = 0]
            IN asking' = [asking EXCEPT ![a] = IF next.step < AskerSteps THEN next
                                               ELSE [NoAsk EXCEPT !.turns = ask.turns, !.blocks = next.blocks]]
  BY DEF EndsStep, Continue
<1> PICK count \in Nat : count = ask.blocks + IF shows THEN 1 ELSE 0
  BY <1>1 DEF Asks
<1> PICK used_ : used_ = (ask.used \/ shows)
  OBVIOUS
<1>0. used_ \in BOOLEAN /\ (used_ <=> ask.used \/ shows)
  BY Zenon
<1> DEFINE next == [ask EXCEPT !.pc = "step", !.step = @ + 1, !.used = used_, !.blocks = count, !.at = 0, !.found = 0]
           idle == [NoAsk EXCEPT !.turns = ask.turns, !.blocks = count]
<1>3. count <= 1 /\ (~(ask.used \/ shows) => count = 0)
  BY <1>1, <1>2 DEF Asks, AskIs
<1>4. next \in Asks /\ next.pc = "step" /\ next.at = 0 /\ next.blocks = count /\ next.used = used_
  <2>1. ask.step + 1 \in Nat /\ used_ \in BOOLEAN
    BY <1>0, <1>1 DEF Asks
  <2>2. next \in Asks
    <3>1. PICK with : with = [ask EXCEPT !.pc = "step", !.step = @ + 1, !.blocks = count, !.at = 0, !.found = 0]
      OBVIOUS
    <3>2. with \in Asks
      BY <1>1, <2>1, <3>1 DEF Asks
    <3>3. [with EXCEPT !.used = used_] \in Asks
      BY <2>1, <3>2 DEF Asks
    <3>4. next = [with EXCEPT !.used = used_]
      BY <1>1, <3>1 DEF Asks
    <3> QED BY <3>3, <3>4
  <2>3. next.pc = "step" /\ next.at = 0 /\ next.blocks = count
    BY <1>1 DEF Asks
  <2>4. next.used = used_
    BY <1>1 DEF Asks
  <2> QED BY <2>2, <2>3, <2>4
<1>7. PICK new \in {next, idle} : asking' = [asking EXCEPT ![a] = new]
  <2>1. asking' = [asking EXCEPT ![a] = IF next.step < AskerSteps THEN next ELSE [NoAsk EXCEPT !.turns = ask.turns, !.blocks = next.blocks]]
    BY <1>2
  <2> HIDE DEF next
  <2> QED BY <1>4, <2>1
<1> HIDE DEF next
<1>5. AskIs(next, tick)
  BY <1>0, <1>1, <1>3, <1>4 DEF AskIs
<1>6. idle \in Asks /\ AskIs(idle, tick) /\ idle.pc = "idle"
  <2>1. idle \in Asks /\ idle.blocks = count /\ idle.pc = "idle" /\ ~idle.used /\ idle.at = 0
    BY <1>1, NoAskIs DEF Asks
  <2> HIDE DEF idle
  <2> QED BY <1>1, <1>3, <2>1 DEF AskIs
<1> HIDE DEF idle
<1>8. new \in Asks /\ AskIs(new, tick) /\ new.pc \notin {"move", "evict", "pop"}
  BY <1>4, <1>5, <1>6
<1> QED BY <1>7, <1>8, AskerGoes

LEMMA BeginKeeps == ASSUME SearchInv, NEW a \in Askers, BeginAsking(a) PROVE SearchInv'
<1>1. /\ asking[a] \in Asks /\ AskIs(asking[a], tick) /\ asking[a].pc = "idle"
  BY DEF SearchInv, BeginAsking, AskerAt
<1>2. PICK key \in Questions :
         asking' = [asking EXCEPT ![a] = [NoAsk EXCEPT !.pc = "step", !.turns = asking[a].turns + 1, !.key = key]]
  BY DEF BeginAsking
<1> PICK n \in Nat : n = asking[a].turns + 1
  BY <1>1 DEF Asks
<1> DEFINE new == [NoAsk EXCEPT !.pc = "step", !.turns = n, !.key = key]
<1>3. new \in Asks /\ new.pc = "step" /\ new.at = 0 /\ new.blocks = 0 /\ ~new.used
  BY NoAskIs DEF Asks
<1>5. asking' = [asking EXCEPT ![a] = new]
  BY <1>2
<1> HIDE DEF new
<1>4. AskIs(new, tick)
  <2>1. tick \in Nat
    BY DEF SearchInv
  <2> QED BY <1>3, <2>1 DEF AskIs
<1>6. UNCHANGED <<tick, cache>>
  BY DEF BeginAsking
<1> QED BY <1>1, <1>3, <1>4, <1>5, <1>6, AskerGoes

LEMMA RouteKeeps == ASSUME SearchInv, NEW a \in Askers, RouteStep(a) PROVE SearchInv'
<1>1. /\ asking[a] \in Asks /\ AskIs(asking[a], tick) /\ tick \in Nat /\ asking[a].pc = "step" /\ UNCHANGED <<tick, cache>>
  BY DEF SearchInv, RouteStep, AskerAt
<1>2. EndsStep(a) \/ (~asking[a].used /\ Goes(a, "lookup"))
  <2>1. CASE asking[a].used
    BY <2>1, Zenon DEF RouteStep, EndsStep
  <2>2. CASE ~asking[a].used
    BY <2>2, Zenon DEF RouteStep, EndsStep
  <2> QED BY <2>1, <2>2
<1>3. CASE EndsStep(a)
  BY <1>1, <1>3, ContinueKeeps
<1>4. CASE ~asking[a].used /\ Goes(a, "lookup")
  <2> PICK new : new = [asking[a] EXCEPT !.pc = "lookup"]
    OBVIOUS
  <2>1. new \in Asks /\ AskIs(new, tick) /\ new.pc = "lookup"
    BY <1>1, <1>4 DEF Asks, AskIs
  <2>2. asking' = [asking EXCEPT ![a] = new]
    BY <1>4 DEF Goes
  <2> QED BY <1>1, <2>1, <2>2, AskerGoes
<1> QED BY <1>2, <1>3, <1>4
LEMMA RemoveAtIs ==
  ASSUME NEW S, NEW c \in Seq(S), NEW k \in DOMAIN c
  PROVE  /\ RemoveAt(c, k) \in Seq(S) /\ DOMAIN RemoveAt(c, k) = 1..Len(c) - 1 /\ Len(RemoveAt(c, k)) = Len(c) - 1
         /\ \A j \in DOMAIN RemoveAt(c, k) : RemoveAt(c, k)[j] = IF j < k THEN c[j] ELSE c[j + 1]
<1> DEFINE a == SubSeq(c, 1, k - 1)
           b == SubSeq(c, k + 1, Len(c))
           r == a \o b
<1>1. Len(c) \in Nat /\ k \in 1..Len(c) /\ \A i \in 1..Len(c) : c[i] \in S
  OBVIOUS
<1>2. /\ a \in Seq(S) /\ Len(a) = k - 1
      /\ \A i \in 1..k - 1 : a[i] = c[i]
  <2>1. \A i \in 1..k - 1 : c[i] \in S
    BY <1>1
  <2>2. /\ a \in Seq(S) /\ Len(a) = (IF 1 <= k - 1 THEN (k - 1) - 1 + 1 ELSE 0)
        /\ \A i \in 1..(k - 1) - 1 + 1 : a[i] = c[1 + i - 1]
    BY <1>1, <2>1, SubSeqProperties
  <2>3. (k - 1) - 1 + 1 = k - 1 /\ \A i \in 1..k - 1 : 1 + i - 1 = i
    BY <1>1
  <2>4. (IF 1 <= k - 1 THEN (k - 1) - 1 + 1 ELSE 0) = k - 1
    BY <1>1
  <2> HIDE DEF a
  <2> QED BY <2>2, <2>3, <2>4
<1>3. /\ b \in Seq(S) /\ Len(b) = Len(c) - k
      /\ \A i \in 1..Len(c) - k : b[i] = c[k + i]
  <2>1. \A i \in k + 1..Len(c) : c[i] \in S
    BY <1>1
  <2>2. /\ b \in Seq(S) /\ Len(b) = (IF k + 1 <= Len(c) THEN Len(c) - (k + 1) + 1 ELSE 0)
        /\ \A i \in 1..Len(c) - (k + 1) + 1 : b[i] = c[(k + 1) + i - 1]
    BY <1>1, <2>1, SubSeqProperties
  <2> HIDE DEF b
  <2> QED BY <1>1, <2>2
<1> HIDE DEF a, b
<1>4. /\ r \in Seq(S) /\ Len(r) = Len(a) + Len(b)
      /\ \A i \in 1..Len(a) + Len(b) : r[i] = IF i <= Len(a) THEN a[i] ELSE b[i - Len(a)]
  BY <1>2, <1>3, ConcatProperties
<1> HIDE DEF r
<1>5. r \in Seq(S) /\ DOMAIN r = 1..Len(c) - 1 /\ Len(r) = Len(c) - 1
  BY <1>1, <1>2, <1>3, <1>4
<1>6. ASSUME NEW j \in 1..Len(c) - 1 PROVE r[j] = IF j < k THEN c[j] ELSE c[j + 1]
  <2>0. j \in 1..Len(a) + Len(b) /\ Len(a) = k - 1
    BY <1>1, <1>2, <1>3
  <2>1. r[j] = IF j <= k - 1 THEN a[j] ELSE b[j - (k - 1)]
    BY <1>4, <2>0
  <2>2. CASE j < k
    BY <1>1, <1>2, <2>1, <2>2
  <2>3. CASE ~(j < k)
    <3>1. j - (k - 1) \in 1..Len(c) - k /\ k + (j - (k - 1)) = j + 1
      BY <1>1, <2>3
    <3>2. ~(j <= k - 1)
      BY <1>1, <2>3
    <3>3. b[j - (k - 1)] = c[k + (j - (k - 1))]
      BY <1>3, <3>1
    <3>4. r[j] = b[j - (k - 1)]
      BY <2>1, <3>2
    <3> QED BY <2>3, <3>1, <3>3, <3>4
  <2> QED BY <2>2, <2>3
<1>7. RemoveAt(c, k) = r
  BY DEF RemoveAt, r, a, b
<1> QED BY <1>5, <1>6, <1>7

\* What is moved to the end of the cache stays in it, as all else does.
Rearranged(S, c, m) ==
    /\ m \in Seq(S) /\ Len(m) = Len(c)
    /\ \A i \in DOMAIN m : \E j \in DOMAIN c : m[i] = c[j]
    /\ \A j \in DOMAIN c : \E i \in DOMAIN m : m[i] = c[j]

LEMMA MovedToEnd ==
  ASSUME NEW S, NEW c \in Seq(S), NEW p \in DOMAIN c
  PROVE  Rearranged(S, c, Append(RemoveAt(c, p), c[p]))
<1> PICK m : m = Append(RemoveAt(c, p), c[p])
  OBVIOUS
<1> PICK r : r = RemoveAt(c, p)
  OBVIOUS
<1> PICK e : e = c[p]
  OBVIOUS
<1> PICK n : n = Len(c)
  OBVIOUS
<1>1. n \in Nat /\ p \in 1..n /\ DOMAIN c = 1..n /\ e \in S
  OBVIOUS
<1>2. /\ r \in Seq(S) /\ Len(r) = n - 1
      /\ \A j \in 1..n - 1 : r[j] = IF j < p THEN c[j] ELSE c[j + 1]
  BY RemoveAtIs
<1>4. /\ m \in Seq(S) /\ Len(m) = n /\ m[n] = e
      /\ \A i \in 1..n - 1 : m[i] = r[i]
  <2>1. /\ m \in Seq(S) /\ Len(m) = Len(r) + 1 /\ m[Len(r) + 1] = e
        /\ \A i \in 1..Len(r) : m[i] = r[i]
    BY <1>1, <1>2, AppendProperties
  <2>2. n - 1 + 1 = n
    BY <1>1
  <2> QED BY <1>2, <2>1, <2>2
<1>5. DOMAIN m = 1..n
  BY <1>4
<1>6. ASSUME NEW i \in DOMAIN m PROVE \E j \in DOMAIN c : m[i] = c[j]
  <2>0. i \in 1..n
    BY <1>5
  <2>1. CASE i = n
    BY <1>1, <1>4, <2>1
  <2>2. CASE i # n
    <3>1. i \in 1..n - 1
      BY <1>1, <2>0, <2>2
    <3>2. i \in DOMAIN c /\ i + 1 \in DOMAIN c
      BY <1>1, <3>1
    <3>3. m[i] = IF i < p THEN c[i] ELSE c[i + 1]
      BY <1>2, <1>4, <3>1
    <3> QED BY <3>2, <3>3
  <2> QED BY <2>1, <2>2
<1>7. ASSUME NEW j \in DOMAIN c PROVE \E i \in DOMAIN m : m[i] = c[j]
  <2>0. j \in 1..n
    BY <1>1
  <2>1. CASE j = p
    <3>1. n \in DOMAIN m
      BY <1>1, <1>5
    <3> QED BY <1>4, <2>1, <3>1
  <2>2. CASE j < p
    <3>1. j \in 1..n - 1
      BY <1>1, <2>0, <2>2
    <3>2. m[j] = c[j]
      BY <1>2, <1>4, <2>2, <3>1
    <3>3. j \in DOMAIN m
      BY <1>5, <2>0
    <3> QED BY <3>2, <3>3
  <2>3. CASE j > p
    <3> PICK k : k = j - 1
      OBVIOUS
    <3>1. k \in 1..n - 1 /\ ~(k < p) /\ k + 1 = j /\ k \in 1..n
      BY <1>1, <2>0, <2>3
    <3>2. m[k] = c[k + 1]
      BY <1>2, <1>4, <3>1
    <3>3. k \in DOMAIN m
      BY <1>5, <3>1
    <3> QED BY <3>1, <3>2, <3>3
  <2> QED BY <1>1, <2>0, <2>1, <2>2, <2>3
<1> QED BY <1>4, <1>6, <1>7 DEF Rearranged

\* move_to_end of an entry that is there.
LEMMA MoveKeeps ==
  ASSUME SearchInv, NEW a \in Askers, Cached(asking[a].key), cache' = Append(Without(asking[a].key), EntryOf(asking[a].key)),
         NEW to \in {"answer", "evict"}, Goes(a, to), UNCHANGED tick,
         \/ asking[a].pc = "hit" /\ to = "answer"
         \/ asking[a].pc = "move" /\ to = "evict"
  PROVE  SearchInv'
<1> PICK ask : ask = asking[a]
  OBVIOUS
<1> PICK p : p = PlaceOf(ask.key)
  OBVIOUS
<1>1. ask \in Asks /\ AskIs(ask, tick) /\ cache \in Seq(Entries) /\ asking \in [Askers -> Asks]
  BY DEF SearchInv
<1>2. p \in DOMAIN cache
  BY DEF Cached, PlaceOf
<1>3. cache' = Append(RemoveAt(cache, p), cache[p])
  BY DEF Without, EntryOf
<1>4. /\ cache' \in Seq(Entries) /\ Len(cache') = Len(cache)
      /\ \A i \in DOMAIN cache' : \E j \in DOMAIN cache : cache'[i] = cache[j]
      /\ \A j \in DOMAIN cache : \E i \in DOMAIN cache' : cache'[i] = cache[j]
  <2>c. PICK c : c = cache
    OBVIOUS
  <2>m. PICK moved : moved = cache'
    OBVIOUS
  <2>1. c \in Seq(Entries) /\ p \in DOMAIN c
    BY <1>1, <1>2, <2>c
  <2>2. moved = Append(RemoveAt(c, p), c[p])
    BY <1>3, <2>c, <2>m
  <2>3. Rearranged(Entries, c, Append(RemoveAt(c, p), c[p]))
    BY <2>1, MovedToEnd, Zenon
  <2>4. Rearranged(Entries, c, moved)
    BY <2>2, <2>3
  <2>5. /\ moved \in Seq(Entries) /\ Len(moved) = Len(c)
        /\ \A i \in DOMAIN moved : \E j \in DOMAIN c : moved[i] = c[j]
        /\ \A j \in DOMAIN c : \E i \in DOMAIN moved : moved[i] = c[j]
    BY <2>4 DEF Rearranged
  <2> QED BY <2>5, <2>c, <2>m
<1> PICK new : new = [ask EXCEPT !.pc = to]
  OBVIOUS
<1>5. new \in Asks /\ new.pc = to /\ AskIs(new, tick)
  BY <1>1 DEF Asks, AskIs
<1>6. asking' = [asking EXCEPT ![a] = new]
  BY DEF Goes
<1>7. PICK debtors : Owed(asking, cache, debtors)
  BY DEF SearchInv
<1>8. Owed(asking', cache, debtors)
  <2>1. a \in debtors => new.pc \in {"move", "evict", "pop"} /\ new.pc # "move"
    BY <1>5, <1>7 DEF Owed
  <2> QED BY <1>1, <1>6, <1>7, <2>1, DebtsEnd
<1>9. Owed(asking', cache', debtors)
  <2> PICK asks : asks = asking'
    OBVIOUS
  <2> PICK c : c = cache'
    OBVIOUS
  <2>1. Owed(asks, cache, debtors)
    BY <1>8
  <2>2. ASSUME NEW b \in debtors, asks[b].pc = "move" PROVE \E i \in DOMAIN c : c[i].key = asks[b].key
    <3>1. PICK j \in DOMAIN cache : cache[j].key = asks[b].key
      BY <2>1, <2>2 DEF Owed
    <3>2. PICK i \in DOMAIN c : c[i] = cache[j]
      BY <1>4
    <3> QED BY <3>1, <3>2
  <2>3. Owed(asks, c, debtors)
    BY <1>4, <2>1, <2>2 DEF Owed
  <2> QED BY <2>3
<1>10. \A i \in DOMAIN cache' : cache'[i].found >= cache'[i].ts
  BY <1>4 DEF SearchInv
<1>11. asking' \in [Askers -> Asks] /\ \A b \in Askers : AskIs(asking'[b], tick)
  BY <1>1, <1>5, <1>6 DEF SearchInv
<1> QED BY <1>4, <1>9, <1>10, <1>11 DEF SearchInv

LEMMA LookUpKeeps == ASSUME SearchInv, NEW a \in Askers, LookUp(a) PROVE SearchInv'
<1> PICK ask : ask = asking[a]
  OBVIOUS
<1>1. ask \in Asks /\ AskIs(ask, tick) /\ tick \in Nat /\ cache \in Seq(Entries) /\ ask.pc = "lookup" /\ UNCHANGED <<tick, cache>>
  BY DEF SearchInv, LookUp, AskerAt
<1>2. CASE Cached(ask.key) /\ tick - EntryOf(ask.key).ts <= Ttl
  <2> PICK e : e = EntryOf(ask.key)
    OBVIOUS
  <2>1. e \in Entries /\ e.found >= e.ts
    <3>1. PlaceOf(ask.key) \in DOMAIN cache
      BY <1>2 DEF Cached, PlaceOf
    <3>2. e = cache[PlaceOf(ask.key)]
      BY DEF EntryOf
    <3> QED BY <1>1, <3>1, <3>2 DEF SearchInv
  <2> PICK new : new = [ask EXCEPT !.at = tick, !.pc = "hit", !.found = e.found]
    OBVIOUS
  <2>2. asking' = [asking EXCEPT ![a] = new]
    BY <1>1, <1>2 DEF LookUp, SearchInv
  <2>3. new \in Asks /\ new.pc = "hit" /\ new.at = tick /\ new.found = e.found /\ new.blocks = ask.blocks /\ new.used = ask.used
    BY <1>1, <2>1 DEF Asks, Entries
  <2>4. e.found >= tick - Ttl
    BY <1>1, <1>2, <2>1, SearchAssumption DEF Entries
  <2>5. AskIs(new, tick)
    BY <1>1, <2>3, <2>4 DEF AskIs
  <2> QED BY <1>1, <2>2, <2>3, <2>5, AskerGoes
<1>3. CASE ~(Cached(ask.key) /\ tick - EntryOf(ask.key).ts <= Ttl)
  <2> PICK new : new = [ask EXCEPT !.at = tick, !.pc = "search", !.found = 0]
    OBVIOUS
  <2>2. asking' = [asking EXCEPT ![a] = new]
    BY <1>1, <1>3 DEF LookUp, SearchInv
  <2>3. new \in Asks /\ new.pc = "search" /\ new.at = tick /\ new.blocks = ask.blocks /\ new.used = ask.used
    BY <1>1 DEF Asks
  <2>5. AskIs(new, tick)
    BY <1>1, <2>3 DEF AskIs
  <2> QED BY <1>1, <2>2, <2>3, <2>5, AskerGoes
<1> QED BY <1>2, <1>3

LEMMA HitKeeps == ASSUME SearchInv, NEW a \in Askers, UseHit(a) PROVE SearchInv'
<1>1. asking[a].pc = "hit" /\ UNCHANGED tick
  BY DEF UseHit, AskerAt
<1>2. CASE Cached(asking[a].key)
  <2>1. cache' = Append(Without(asking[a].key), EntryOf(asking[a].key)) /\ Goes(a, "answer")
    BY <1>2 DEF UseHit
  <2> QED BY <1>1, <1>2, <2>1, MoveKeeps
<1>3. CASE ~Cached(asking[a].key)
  <2>1. Continue(a, TRUE) /\ UNCHANGED cache
    BY <1>3 DEF UseHit, SearchError
  <2>2. ~asking[a].used
    BY <1>1 DEF SearchInv, AskIs
  <2> QED BY <1>1, <2>1, <2>2, ContinueKeeps DEF EndsStep
<1> QED BY <1>2, <1>3

LEMMA IndexKeeps == ASSUME SearchInv, NEW a \in Askers, SearchIndex(a) PROVE SearchInv'
<1> PICK ask : ask = asking[a]
  OBVIOUS
<1>1. ask \in Asks /\ AskIs(ask, tick) /\ tick \in Nat /\ ask.pc = "search" /\ UNCHANGED <<tick, cache>>
  BY DEF SearchInv, SearchIndex, AskerAt
<1>2. CASE Continue(a, TRUE)
  BY <1>1, <1>2, ContinueKeeps DEF EndsStep, AskIs
<1>3. CASE asking' = [asking EXCEPT ![a].pc = "store", ![a].found = tick]
  <2> PICK new : new = [ask EXCEPT !.pc = "store", !.found = tick]
    OBVIOUS
  <2>1. new \in Asks /\ new.pc = "store" /\ new.at = ask.at /\ new.found = tick /\ new.blocks = ask.blocks /\ new.used = ask.used
    BY <1>1 DEF Asks
  <2>2. tick >= ask.at - Ttl
    BY <1>1, SearchAssumption DEF Asks, AskIs
  <2>3. AskIs(new, tick)
    BY <1>1, <2>1, <2>2 DEF AskIs
  <2>4. asking' = [asking EXCEPT ![a] = new]
    BY <1>3 DEF SearchInv
  <2> QED BY <1>1, <2>1, <2>3, <2>4, AskerGoes
<1> QED BY <1>2, <1>3 DEF SearchIndex, SearchError

\* An asker that has added an entry owes it.
LEMMA DebtsAdd ==
  ASSUME NEW asks, NEW c \in Seq(Entries), NEW debtors, Owed(asks, c, debtors), NEW a \in Askers, a \notin debtors,
         asks[a].pc = "move", NEW e \in Entries, e.key = asks[a].key, \A i \in DOMAIN c : c[i].key # e.key,
         NEW d, d = Append(c, e)
  PROVE  Owed(asks, d, debtors \cup {a})
<1>n. PICK n : n = Len(c)
  OBVIOUS
<1>0. n \in Nat /\ DOMAIN c = 1..n
  BY <1>n
<1>1. d \in Seq(Entries) /\ Len(d) = n + 1 /\ (\A i \in 1..n : d[i] = c[i]) /\ d[n + 1] = e
  BY <1>n, AppendProperties
<1>2. n + 1 \in DOMAIN d /\ 1..n \subseteq DOMAIN d
  BY <1>0, <1>1
<1>3. debtors \subseteq Askers /\ IsFiniteSet(debtors) /\ n <= CacheSize + Cardinality(debtors) /\ Cardinality(debtors) \in Nat
  <2>1. debtors \subseteq Askers /\ n <= CacheSize + Cardinality(debtors)
    BY <1>n DEF Owed
  <2> QED BY <2>1, SearchAssumption, FS_Subset, FS_CardinalityType
<1>4. Cardinality(debtors \cup {a}) = Cardinality(debtors) + 1
  BY <1>3, FS_AddElement
<1>5. Len(d) <= CacheSize + Cardinality(debtors \cup {a})
  BY <1>0, <1>1, <1>3, <1>4, SearchAssumption
<1>6. ASSUME NEW b \in debtors
      PROVE  /\ asks[b].pc \in {"move", "evict", "pop"}
             /\ asks[b].pc = "move" => asks[b].key # e.key /\ \E i \in DOMAIN d : d[i].key = asks[b].key
  <2>1. /\ asks[b].pc \in {"move", "evict", "pop"}
        /\ asks[b].pc = "move" => \E i \in 1..n : c[i].key = asks[b].key
    BY <1>0 DEF Owed
  <2>2. \A i \in 1..n : i \in DOMAIN d /\ d[i].key = c[i].key /\ c[i].key # e.key
    BY <1>0, <1>1, <1>2
  <2> QED BY <2>1, <2>2
<1>7. ASSUME NEW b \in debtors \cup {a}
      PROVE  asks[b].pc \in {"move", "evict", "pop"} /\ (asks[b].pc = "move" => \E i \in DOMAIN d : d[i].key = asks[b].key)
  <2>1. CASE b = a
    BY <1>1, <1>2, <2>1
  <2>2. CASE b \in debtors
    BY <1>6, <2>2
  <2> QED BY <2>1, <2>2
<1>8. ASSUME NEW b \in debtors \cup {a}, NEW g \in debtors \cup {a}, asks[b].pc = "move", asks[g].pc = "move",
             asks[b].key = asks[g].key
      PROVE  b = g
  <2>1. CASE b \in debtors /\ g \in debtors
    BY <1>8, <2>1 DEF Owed
  <2>2. CASE b \notin debtors \/ g \notin debtors
    BY <1>6, <1>8, <2>2
  <2> QED BY <2>1, <2>2
<1> QED BY <1>3, <1>5, <1>7, <1>8 DEF Owed

LEMMA StoreKeeps == ASSUME SearchInv, NEW a \in Askers, StoreEntry(a) PROVE SearchInv'
<1> PICK ask : ask = asking[a]
  OBVIOUS
<1> PICK key : key = ask.key
  OBVIOUS
<1> PICK fresh : fresh = [key |-> key, found |-> ask.found, ts |-> ask.at]
  OBVIOUS
<1>1. ask \in Asks /\ AskIs(ask, tick) /\ tick \in Nat /\ cache \in Seq(Entries) /\ asking \in [Askers -> Asks]
  BY DEF SearchInv
<1>2. /\ ask.pc = "store" /\ Goes(a, "move") /\ UNCHANGED tick
      /\ cache' = IF Cached(key) THEN [i \in DOMAIN cache |-> IF cache[i].key = key THEN fresh ELSE cache[i]]
                  ELSE Append(cache, fresh)
  BY DEF StoreEntry, AskerAt
<1>3. fresh \in Entries /\ fresh.found >= fresh.ts /\ fresh.key = key
  BY <1>1, <1>2 DEF Asks, Entries, AskIs
<1> PICK new : new = [ask EXCEPT !.pc = "move"]
  OBVIOUS
<1>4. new \in Asks /\ new.pc = "move" /\ new.key = key /\ AskIs(new, tick)
  BY <1>1, <1>2 DEF Asks, AskIs
<1>5. asking' = [asking EXCEPT ![a] = new]
  BY <1>2 DEF Goes
<1>6. asking' \in [Askers -> Asks] /\ (\A b \in Askers : AskIs(asking'[b], tick)) /\ asking'[a] = new
      /\ \A b \in Askers \ {a} : asking'[b] = asking[b]
  BY <1>1, <1>4, <1>5 DEF SearchInv
<1>7. PICK debtors : Owed(asking, cache, debtors)
  BY DEF SearchInv
<1>8. a \notin debtors /\ debtors \subseteq Askers /\ IsFiniteSet(debtors) /\ Len(cache) <= CacheSize + Cardinality(debtors)
      /\ Cardinality(debtors) \in Nat
  <2>1. a \notin debtors /\ debtors \subseteq Askers /\ Len(cache) <= CacheSize + Cardinality(debtors)
    BY <1>2, <1>7 DEF Owed
  <2> QED BY <2>1, SearchAssumption, FS_Subset, FS_CardinalityType
<1>9. CASE Cached(key)
  <2> PICK c : c = [i \in DOMAIN cache |-> IF cache[i].key = key THEN fresh ELSE cache[i]]
    OBVIOUS
  <2>1. c \in Seq(Entries) /\ Len(c) = Len(cache) /\ DOMAIN c = DOMAIN cache
        /\ \A i \in DOMAIN cache : c[i].key = cache[i].key
    <3> PICK n : n = Len(cache)
      OBVIOUS
    <3>1. n \in Nat /\ DOMAIN cache = 1..n /\ \A i \in 1..n : cache[i] \in Entries
      BY <1>1
    <3>2. c \in [1..n -> Entries] /\ \A i \in 1..n : c[i].key = cache[i].key
      BY <1>3, <3>1
    <3>3. c \in Seq(Entries) /\ Len(c) = n
      BY <3>1, <3>2, LenProperties
    <3> QED BY <3>1, <3>2, <3>3
  <2>2. cache' = c
    BY <1>2, <1>9
  <2>3. \A i \in DOMAIN c : c[i].found >= c[i].ts
    BY <1>3, <2>1 DEF SearchInv
  <2>4. ASSUME NEW b \in debtors PROVE b \in Askers \ {a} /\ asking'[b] = asking[b]
    BY <1>6, <1>8
  <2>5. Owed(asking', c, debtors)
    <3> PICK asks : asks = asking'
      OBVIOUS
    <3>1. \A b \in debtors : asks[b] = asking[b]
      BY <2>4
    <3>2. Owed(asks, c, debtors)
      BY <1>7, <1>8, <2>1, <3>1 DEF Owed
    <3> QED BY <3>2
  <2> QED BY <1>2, <1>6, <2>1, <2>2, <2>3, <2>5 DEF SearchInv
<1>10. CASE ~Cached(key)
  <2>c. PICK c : c = Append(cache, fresh)
    OBVIOUS
  <2>n. PICK n : n = Len(cache)
    OBVIOUS
  <2>0. n \in Nat /\ DOMAIN cache = 1..n
    BY <1>1, <2>n
  <2>1. c \in Seq(Entries) /\ Len(c) = n + 1 /\ (\A i \in 1..n : c[i] = cache[i]) /\ c[n + 1] = fresh
    BY <1>1, <1>3, <2>c, <2>n, AppendProperties
  <2>2. cache' = c /\ DOMAIN c = 1..n + 1
    BY <1>2, <1>10, <2>0, <2>1, <2>c
  <2>3. \A i \in DOMAIN c : c[i].found >= c[i].ts
    <3>1. \A i \in 1..n : c[i].found >= c[i].ts
      BY <2>0, <2>1 DEF SearchInv
    <3> QED BY <1>3, <2>0, <2>1, <2>2, <3>1
  <2>a. PICK asks : asks = asking'
    OBVIOUS
  <2>4. asks[a].pc = "move" /\ asks[a].key = fresh.key /\ \A b \in debtors : asks[b] = asking[b]
    BY <1>3, <1>4, <1>6, <1>8, <2>a
  <2>5. Owed(asks, cache, debtors)
    BY <1>7, <2>4 DEF Owed
  <2>6. \A i \in DOMAIN cache : cache[i].key # fresh.key
    BY <1>3, <1>10 DEF Cached
  <2>7. Owed(asks, c, debtors \cup {a})
    BY <1>1, <1>3, <1>8, <2>4, <2>5, <2>6, <2>c, DebtsAdd
  <2> QED BY <1>2, <1>6, <2>1, <2>2, <2>3, <2>7, <2>a DEF SearchInv
<1> QED BY <1>9, <1>10

LEMMA MoveEntryKeeps == ASSUME SearchInv, NEW a \in Askers, MoveEntry(a) PROVE SearchInv'
<1>1. asking[a].pc = "move" /\ UNCHANGED tick
  BY DEF MoveEntry, AskerAt
<1>2. CASE Cached(asking[a].key)
  <2>1. cache' = Append(Without(asking[a].key), EntryOf(asking[a].key)) /\ Goes(a, "evict")
    BY <1>2 DEF MoveEntry
  <2> QED BY <1>1, <1>2, <2>1, MoveKeeps
<1>3. CASE ~Cached(asking[a].key)
  <2>1. Continue(a, TRUE) /\ UNCHANGED cache
    BY <1>3 DEF MoveEntry, SearchError
  <2>2. ~asking[a].used
    BY <1>1 DEF SearchInv, AskIs
  <2> QED BY <1>1, <1>3, <2>1, <2>2, ContinueKeeps DEF EndsStep
<1> QED BY <1>2, <1>3

LEMMA SizeUpKeeps == ASSUME SearchInv, NEW a \in Askers, SizeUp(a) PROVE SearchInv'
<1> PICK ask : ask = asking[a]
  OBVIOUS
<1> PICK to : to = IF Len(cache) > CacheSize THEN "pop" ELSE "answer"
  OBVIOUS
<1>1. /\ ask \in Asks /\ AskIs(ask, tick) /\ ask.pc = "evict" /\ UNCHANGED <<tick, cache>>
      /\ asking' = [asking EXCEPT ![a] = [ask EXCEPT !.pc = to]]
  BY DEF SearchInv, SizeUp, AskerAt, Goes
<1> PICK new : new = [ask EXCEPT !.pc = to]
  OBVIOUS
<1>2. new \in Asks /\ new.pc = to /\ to \in {"pop", "answer"} /\ AskIs(new, tick)
  BY <1>1 DEF Asks, AskIs
<1>3. to = "pop" \/ Len(cache) <= CacheSize
  <2>1. Len(cache) \in Nat
    BY DEF SearchInv
  <2> QED BY <2>1, SearchAssumption
<1> QED BY <1>1, <1>2, <1>3, AskerGoes

\* An entry that is dropped is owed no more.
LEMMA DebtsDrop ==
  ASSUME NEW asks, NEW old \in Seq(Entries), old # <<>>, NEW debtors, Owed(asks, old, debtors), NEW c, c = Tail(old)
  PROVE  \E left : Owed(asks, c, left)
<1>n. PICK n : n = Len(old)
  OBVIOUS
<1>1. n \in Nat \ {0} /\ DOMAIN old = 1..n
  BY <1>n
<1>2. c \in Seq(Entries) /\ Len(c) = n - 1 /\ \A i \in 1..n - 1 : c[i] = old[i + 1]
  BY <1>n, HeadTailProperties
<1>3. DOMAIN c = 1..n - 1
  BY <1>2
<1>4. debtors \subseteq Askers /\ IsFiniteSet(debtors) /\ Cardinality(debtors) \in Nat /\ n <= CacheSize + Cardinality(debtors)
  <2>1. debtors \subseteq Askers /\ n <= CacheSize + Cardinality(debtors)
    BY <1>n DEF Owed
  <2> QED BY <2>1, SearchAssumption, FS_Subset, FS_CardinalityType
<1>5. ASSUME NEW d \in debtors, asks[d].pc = "move", asks[d].key # old[1].key
      PROVE  \E i \in DOMAIN c : c[i].key = asks[d].key
  <2>1. PICK j \in 1..n : old[j].key = asks[d].key
    BY <1>1, <1>5 DEF Owed
  <2>2. PICK i : i = j - 1
    OBVIOUS
  <2>3. j # 1 /\ i \in 1..n - 1 /\ i + 1 = j
    BY <1>1, <1>5, <2>1, <2>2
  <2>4. c[i].key = asks[d].key
    BY <1>2, <2>1, <2>3
  <2> QED BY <1>3, <2>3, <2>4
<1>6. CASE \E b \in debtors : asks[b].pc = "move" /\ asks[b].key = old[1].key
  <2>1. PICK b \in debtors : asks[b].pc = "move" /\ asks[b].key = old[1].key
    BY <1>6
  <2>2. PICK left : left = debtors \ {b}
    OBVIOUS
  <2>3. Cardinality(left) = Cardinality(debtors) - 1
    BY <1>4, <2>2, FS_RemoveElement
  <2>4. Len(c) <= CacheSize + Cardinality(left)
    BY <1>1, <1>2, <1>4, <2>3, SearchAssumption
  <2>5. ASSUME NEW d \in left, asks[d].pc = "move" PROVE asks[d].key # old[1].key
    BY <2>1, <2>2, <2>5 DEF Owed
  <2>6. Owed(asks, c, left)
    BY <1>5, <2>2, <2>4, <2>5 DEF Owed
  <2> QED BY <2>6
<1>7. CASE \A b \in debtors : asks[b].pc = "move" => asks[b].key # old[1].key
  <2>1. Len(c) <= CacheSize + Cardinality(debtors)
    BY <1>1, <1>2, <1>4, SearchAssumption
  <2>2. Owed(asks, c, debtors)
    BY <1>5, <1>7, <2>1 DEF Owed
  <2> QED BY <2>2
<1> QED BY <1>6, <1>7

LEMMA PopKeeps == ASSUME SearchInv, NEW a \in Askers, PopOldest(a) PROVE SearchInv'
<1> PICK ask : ask = asking[a]
  OBVIOUS
<1>1. ask \in Asks /\ AskIs(ask, tick) /\ cache \in Seq(Entries) /\ asking \in [Askers -> Asks]
  BY DEF SearchInv
<1>2. ask.pc = "pop" /\ UNCHANGED tick
  BY DEF PopOldest, AskerAt
<1>3. CASE cache = <<>>
  <2>1. Continue(a, TRUE) /\ UNCHANGED cache
    BY <1>3 DEF PopOldest, SearchError
  <2>2. ~ask.used /\ Len(cache) <= CacheSize
    BY <1>1, <1>2, <1>3, SearchAssumption DEF AskIs
  <2> QED BY <1>2, <2>1, <2>2, ContinueKeeps DEF EndsStep
<1>4. CASE cache # <<>>
  <2> PICK new : new = [ask EXCEPT !.pc = "evict"]
    OBVIOUS
  <2>1. new \in Asks /\ new.pc = "evict" /\ AskIs(new, tick)
    BY <1>1, <1>2 DEF Asks, AskIs
  <2>2. asking' = [asking EXCEPT ![a] = new] /\ cache' = Tail(cache)
    BY <1>4 DEF PopOldest, Goes
  <2>3. asking' \in [Askers -> Asks] /\ \A b \in Askers : AskIs(asking'[b], tick)
    BY <1>1, <2>1, <2>2 DEF SearchInv
  <2>c. PICK c : c = Tail(cache)
    OBVIOUS
  <2>4. c \in Seq(Entries) /\ \A i \in DOMAIN c : c[i].found >= c[i].ts
    <3>n. PICK n : n = Len(cache)
      OBVIOUS
    <3>1. n \in Nat \ {0} /\ DOMAIN cache = 1..n
      BY <1>1, <1>4, <3>n
    <3>2. c \in Seq(Entries) /\ Len(c) = n - 1 /\ \A i \in 1..n - 1 : c[i] = cache[i + 1]
      BY <1>1, <1>4, <2>c, <3>n, HeadTailProperties
    <3>3. DOMAIN c = 1..n - 1 /\ \A i \in 1..n - 1 : i + 1 \in DOMAIN cache
      BY <3>1, <3>2
    <3> QED BY <3>2, <3>3 DEF SearchInv
  <2>5. PICK debtors : Owed(asking, cache, debtors)
    BY DEF SearchInv
  <2>a. PICK asks : asks = asking'
    OBVIOUS
  <2>6. Owed(asks, cache, debtors)
    BY <1>1, <1>2, <2>1, <2>2, <2>5, <2>a, DebtsEnd
  <2>7. \E left : Owed(asks, c, left)
    BY <1>1, <1>4, <2>6, <2>c, DebtsDrop
  <2> QED BY <1>2, <2>2, <2>3, <2>4, <2>7, <2>a, <2>c DEF SearchInv
<1> QED BY <1>3, <1>4

LEMMA ShowKeeps == ASSUME SearchInv, NEW a \in Askers, ShowHits(a) PROVE SearchInv'
<1>1. asking[a].pc = "answer" /\ UNCHANGED <<tick, cache>>
  BY DEF ShowHits, AskerAt
<1>2. ~asking[a].used
  BY <1>1 DEF SearchInv, AskIs
<1>3. EndsStep(a)
  <2>1. CASE asking[a].key \in Barren
    BY <1>2, <2>1 DEF ShowHits, EndsStep, Continue
  <2>2. CASE asking[a].key \notin Barren
    BY <1>2, <2>2 DEF ShowHits, EndsStep, Continue
  <2> QED BY <2>1, <2>2
<1> QED BY <1>1, <1>3, ContinueKeeps

LEMMA TickKeeps == SearchInv /\ PassTick => SearchInv'
<1> SUFFICES ASSUME SearchInv, PassTick PROVE SearchInv'
  OBVIOUS
<1>1. tick \in Nat /\ tick' = tick + 1 /\ UNCHANGED <<cache, asking>>
  BY DEF SearchInv, PassTick
<1>2. ASSUME NEW a \in Askers PROVE AskIs(asking[a], tick + 1)
  <2>1. asking[a].at \in Nat /\ AskIs(asking[a], tick)
    BY DEF SearchInv, Asks
  <2> QED BY <1>1, <2>1 DEF AskIs
<1> QED BY <1>1, <1>2 DEF SearchInv

LEMMA SearchStep == SearchInv /\ SearchNext => SearchInv'
BY BeginKeeps, RouteKeeps, LookUpKeeps, HitKeeps, IndexKeeps, StoreKeeps, MoveEntryKeeps, SizeUpKeeps, PopKeeps, ShowKeeps,
   TickKeeps DEF SearchNext

LEMMA SearchInvIsFresh == SearchInv => SnippetsAreFresh
<1> SUFFICES ASSUME SearchInv PROVE SnippetsAreFresh
  OBVIOUS
<1>1. ASSUME NEW a \in Askers PROVE asking[a].blocks <= 1 /\ (AskerAt(a, "answer") => asking[a].found >= asking[a].at - Ttl)
  BY DEF SearchInv, AskIs, AskerAt
<1>2. PICK debtors : Owed(asking, cache, debtors)
  BY DEF SearchInv
<1> PICK late : late = {a \in Askers : asking[a].pc \in {"move", "evict", "pop"}}
  OBVIOUS
<1>3. debtors \subseteq late /\ late \subseteq Askers /\ Len(cache) <= CacheSize + Cardinality(debtors)
  BY <1>2 DEF Owed
<1>4. IsFiniteSet(late) /\ IsFiniteSet(debtors)
  BY <1>3, SearchAssumption, FS_Subset
<1>5. Cardinality(debtors) <= Cardinality(late) /\ Cardinality(debtors) \in Nat /\ Cardinality(late) \in Nat
  BY <1>3, <1>4, FS_Subset, FS_CardinalityType
<1>6. Len(cache) \in Nat
  BY DEF SearchInv
<1>7. Len(cache) <= CacheSize + Cardinality(late)
  BY <1>3, <1>5, <1>6, SearchAssumption
<1> QED BY <1>1, <1>7 DEF SnippetsAreFresh

---------------------------------------------------------------------------
(* Modes and tools *)

Roles == {"none", "admin", "user"}
ToolSessions == [mode : Switches \cup {"teammate"}, role : Roles, tools : SUBSET ToolNames, unlocked : SUBSET ToolNames, by : Roles]
Turns == [pc : {"idle", "route", "work", "save"}, profile : {"bot", "coding"}, tells : Switches \cup {"nothing"}]

AccessTypes ==
    /\ account \in Roles /\ post \subseteq Roles /\ turn \in Turns
    /\ live \in ToolSessions /\ storedChat \in ToolSessions
    /\ task \in ToolSessions /\ sub \in ToolSessions /\ mate \in ToolSessions

\* A chat is in a mode that the user was told, or that was set since.
KnownMode(sess, known, since) == sess.mode \in Switches /\ sess.mode \in {known} \cup since

\* A turn that works has a profile that goes with the mode of its chat.
TurnIsOf(now_, sess, working) ==
    /\ now_.pc # "idle" => Exists(sess)
    /\ now_.pc = "route" => sess.by = sess.role /\ now_.tells = "nothing"
    /\ now_.pc = "work" => /\ sess.mode = "coding" => now_.profile = "coding"
                           /\ sess.mode = "bot" => now_.profile = "bot"
                           /\ ~Exists(working) => now_.profile = "bot"
    /\ now_.pc \in {"work", "save"} /\ now_.tells # "nothing" => sess.mode = now_.tells

ForAnAdmin(sess) == Exists(sess) => sess.by # "user"
IsSubagent(sess) == Exists(sess) => sess.mode = "coding" /\ \E type \in DOMAIN Whitelist : sess.tools = Whitelist[type]

AccessInv ==
    /\ AccessTypes
    /\ KnownMode(storedChat, announced, loose) /\ Exists(storedChat)
    /\ Exists(live) => KnownMode(live, announced, loose)
    /\ TurnIsOf(turn, live, task)
    /\ ForAnAdmin(task) /\ ForAnAdmin(sub) /\ ForAnAdmin(mate) /\ IsSubagent(sub)

LEMMA ToolsAre ==
  /\ ToolNames = {"bash", "git_add", "task", "spawn_teammate", "idle", "load_skill", "publish_artifact", "recall_memory",
                  "tool_search", "web_search", "security_rag_search", "server_admin"}
  /\ DOMAIN Whitelist = {"explore", "code"}
  /\ Whitelist["explore"] = {"bash", "security_rag_search", "tool_search"}
  /\ Whitelist["code"] = {"bash", "git_add", "load_skill", "recall_memory", "security_rag_search", "tool_search"}
BY DEF ToolNames, EnabledModes, Whitelist

LEMMA SessionsAre ==
  /\ NewChat \in ToolSessions /\ Exists(NewChat) /\ NewChat.tools = LeadRegistry /\ NewChat.mode = "hybrid"
  /\ Absent \in ToolSessions /\ ~Exists(Absent)
  /\ NewChat = [Absent EXCEPT !.mode = "hybrid", !.tools = LeadRegistry]
BY ToolsAre DEF NewChat, Absent, Exists, ToolSessions, LeadRegistry, Switches, Roles

LEMMA AccessStart == AccessInit => AccessInv
BY SessionsAre DEF AccessInit, AccessInv, AccessTypes, KnownMode, TurnIsOf, ForAnAdmin, IsSubagent, Roles, Turns, Switches

LEMMA AccessStutters == AccessInv /\ UNCHANGED accessVars => AccessInv'
BY DEF AccessInv, AccessTypes, accessVars

\* Where a message may go.
LEMMA RouteIs ==
  ASSUME NEW sess \in ToolSessions, sess.mode \in Switches, NEW route \in Routes(sess)
  PROVE  /\ route.mode \in Switches /\ route.profile \in {"bot", "coding"}
         /\ route.execution # "direct_reply" /\ route.profile = "coding" => IsAdmin(sess) /\ sess.mode \in {"coding", "hybrid"}
         /\ route.execution # "direct_reply" /\ route.profile = "bot" => route.mode # "coding"
<1>1. PICK request \in Requests, verdict \in Verdicts : route = RouteFor(request, sess, verdict)
  BY DEF Routes
<1> PICK command : command = request.command
  OBVIOUS
<1> PICK intent : intent = request.intent
  OBVIOUS
<1> PICK mode \in Switches : mode = sess.mode
  OBVIOUS
<1> PICK plan : plan = PlanFor(command, intent, mode, IsAdmin(sess))
  OBVIOUS
<1>2. CASE IsAdmin(sess)
  <2>1. plan = PlanFor(command, intent, mode, TRUE)
    BY <1>2, Zenon
  <2>2. /\ plan.mode \in Switches /\ plan.profile \in {"bot", "coding"}
        /\ plan.execution = "task_session" => plan.mode = "coding" /\ mode = "coding"
        /\ plan.execution = "unmatched" => plan.mode = mode /\ mode = "hybrid"
        /\ plan.execution \notin {"direct_reply", "task_session"} => plan.mode # "coding" /\ plan.profile = "bot"
        /\ plan.execution = "task_session" => plan.profile = "coding"
    BY <2>1 DEF PlanFor, Route, Switches
  <2> QED BY <1>1, <1>2, <2>2 DEF RouteFor, Route, Switches
<1>3. CASE ~IsAdmin(sess)
  <2>0. IsAdmin(sess) = FALSE
    BY <1>3 DEF IsAdmin
  <2>1. plan = PlanFor(command, intent, mode, FALSE)
    BY <2>0, Zenon
  <2>2. /\ plan.mode \in Switches /\ plan.profile \in {"bot", "coding"} /\ plan.execution \in {"direct_reply", "pipeline_bot"}
        /\ plan.execution = "pipeline_bot" => plan.profile = "bot" /\ plan.mode # "coding"
    BY <2>1 DEF PlanFor, Route, Switches
  <2> QED BY <1>1, <2>2 DEF RouteFor, Route
<1> QED BY <1>2, <1>3

LEMMA ReceiveKeeps == ASSUME AccessInv, NEW role \in post, Receive(role) PROVE AccessInv'
<1>1. /\ turn.pc = "idle" /\ UNCHANGED <<sent, account, storedChat, task, sub, mate, announced, loose>> /\ post' = {}
      /\ turn' = [turn EXCEPT !.pc = "route", !.profile = "bot", !.tells = "nothing"]
  BY DEF Receive, TurnAt
<1> PICK sess : sess = IF Exists(live) THEN live ELSE storedChat
  OBVIOUS
<1>2. sess \in ToolSessions /\ KnownMode(sess, announced, loose) /\ Exists(sess)
  BY DEF AccessInv, AccessTypes
<1> PICK held : held = IF role = "none" THEN sess.role ELSE role
  OBVIOUS
<1>3. held \in Roles
  BY <1>2 DEF AccessInv, AccessTypes, ToolSessions
<1> PICK new : new = [sess EXCEPT !.role = held, !.by = held]
  OBVIOUS
<1>4. live' = new
  BY DEF Receive
<1>5. new \in ToolSessions /\ KnownMode(new, announced, loose) /\ Exists(new) /\ new.by = new.role
  BY <1>2, <1>3 DEF ToolSessions, KnownMode, Exists
<1>6. turn' \in Turns /\ turn'.pc = "route" /\ turn'.tells = "nothing"
  BY <1>1 DEF AccessInv, AccessTypes, Turns
<1>7. TurnIsOf(turn', new, task)
  BY <1>5, <1>6 DEF TurnIsOf
<1> QED BY <1>1, <1>4, <1>5, <1>6, <1>7 DEF AccessInv, AccessTypes

LEMMA RouteTurnKeeps == ASSUME AccessInv, NEW route \in Routes(live), RouteTurn(route) PROVE AccessInv'
<1> PICK chat : chat = live
  OBVIOUS
<1>1. turn.pc = "route" /\ UNCHANGED <<sent, account, post, storedChat, sub, mate, announced>>
  BY DEF RouteTurn, TurnAt
<1>2. chat \in ToolSessions /\ Exists(chat) /\ KnownMode(chat, announced, loose) /\ chat.by = chat.role /\ route \in Routes(chat)
  BY <1>1 DEF AccessInv, AccessTypes, TurnIsOf
<1>3. /\ route.mode \in Switches /\ route.profile \in {"bot", "coding"}
      /\ route.execution # "direct_reply" /\ route.profile = "coding" => IsAdmin(chat) /\ chat.mode \in {"coding", "hybrid"}
      /\ route.execution # "direct_reply" /\ route.profile = "bot" => route.mode # "coding"
  BY <1>2, RouteIs DEF KnownMode
<1> PICK mode : mode = IF route.execution = "direct_reply" \/ route.profile # "coding" THEN route.mode ELSE chat.mode
  OBVIOUS
<1> PICK unlocked : unlocked = IF route.execution = "direct_reply" \/ route.profile = "coding" THEN chat.unlocked ELSE {}
  OBVIOUS
<1> PICK new : new = [chat EXCEPT !.mode = mode, !.unlocked = unlocked]
  OBVIOUS
<1>4. mode \in Switches /\ unlocked \in SUBSET ToolNames
  BY <1>2, <1>3 DEF KnownMode, ToolSessions
<1>5. live' = new
  BY DEF RouteTurn
<1>6. loose' = IF route.mode # chat.mode THEN loose \cup {route.mode} ELSE loose
  BY DEF RouteTurn
<1>7. new \in ToolSessions /\ new.mode = mode /\ Exists(new) /\ KnownMode(new, announced, loose') /\ KnownMode(storedChat, announced, loose')
  <2>1. new \in ToolSessions /\ new.mode = mode /\ Exists(new)
    BY <1>2, <1>4 DEF ToolSessions, Exists
  <2> QED BY <1>2, <1>3, <1>4, <1>6, <2>1 DEF KnownMode, AccessInv
<1>8. CASE route.execution = "direct_reply"
  <2>1. task' = Absent /\ turn' = [pc |-> "save", profile |-> route.profile, tells |-> route.mode] /\ mode = route.mode
    BY <1>8 DEF RouteTurn
  <2>2. turn' \in Turns /\ TurnIsOf(turn', new, Absent)
    BY <1>3, <1>7, <2>1 DEF Turns, TurnIsOf
  <2> QED BY <1>1, <1>5, <1>7, <2>1, <2>2, SessionsAre DEF AccessInv, AccessTypes, ForAnAdmin
<1>9. CASE route.execution # "direct_reply" /\ route.profile = "coding"
  <2> PICK made : made = TaskSession(chat)
    OBVIOUS
  <2>1. task' = made /\ turn' = [pc |-> "work", profile |-> "coding", tells |-> "nothing"] /\ mode = chat.mode
    BY <1>9 DEF RouteTurn
  <2>2. made \in ToolSessions /\ Exists(made) /\ made.by = chat.by
    <3> PICK base : base = NewChat
      OBVIOUS
    <3>1. base \in ToolSessions /\ Exists(base)
      BY SessionsAre
    <3>2. made = [base EXCEPT !.mode = "coding", !.by = chat.by, !.role = IF chat.role = "none" THEN "admin" ELSE chat.role]
      BY DEF TaskSession
    <3> QED BY <1>2, <3>1, <3>2 DEF ToolSessions, Exists, Roles, Switches
  <2>3. ForAnAdmin(made) /\ chat.mode # "bot"
    BY <1>2, <1>3, <1>9, <2>2 DEF ForAnAdmin, IsAdmin
  <2>4. turn' \in Turns /\ TurnIsOf(turn', new, made)
    BY <1>7, <2>1, <2>2, <2>3 DEF Turns, TurnIsOf
  <2> QED BY <1>1, <1>5, <1>7, <2>1, <2>2, <2>3, <2>4 DEF AccessInv, AccessTypes
<1>10. CASE route.execution # "direct_reply" /\ route.profile = "bot"
  <2>1. task' = Absent /\ turn' = [pc |-> "work", profile |-> "bot", tells |-> "nothing"] /\ mode = route.mode
    BY <1>10 DEF RouteTurn
  <2>2. turn' \in Turns /\ TurnIsOf(turn', new, Absent)
    BY <1>3, <1>7, <1>10, <2>1 DEF Turns, TurnIsOf
  <2> QED BY <1>1, <1>5, <1>7, <2>1, <2>2, SessionsAre DEF AccessInv, AccessTypes, ForAnAdmin
<1> QED BY <1>3, <1>8, <1>9, <1>10

\* What tool_search unlocks changes nothing else of a session.
LEMMA SelectedIs ==
  ASSUME NEW sess \in ToolSessions, NEW tool \in Catalog(sess).deferred
  PROVE  /\ Selected(sess, tool) = [sess EXCEPT !.unlocked = @ \cup {tool}]
         /\ Selected(sess, tool) \in ToolSessions
         /\ tool \in ToolNames
BY DEF Catalog, Allowed, Selected, ToolSessions

LEMMA UnlockKeeps == AccessInv /\ Unlock => AccessInv'
<1> SUFFICES ASSUME AccessInv, Unlock PROVE AccessInv'
  OBVIOUS
<1>1. UNCHANGED <<sent, account, post, storedChat, turn, announced, loose>>
  BY DEF Unlock
<1>2. ASSUME NEW tool \in Catalog(Chat).deferred, live' = [live EXCEPT !.unlocked = Selected(Chat, tool).unlocked],
             UNCHANGED <<task, sub, mate>>
      PROVE  AccessInv'
  <2>1. Chat \in ToolSessions /\ live \in ToolSessions
    BY DEF AccessInv, AccessTypes, Chat, ToolSessions, Turns, Switches
  <2>2. Selected(Chat, tool).unlocked \in SUBSET ToolNames
    BY <2>1, SelectedIs DEF ToolSessions
  <2>3. /\ live' \in ToolSessions /\ live'.mode = live.mode /\ live'.role = live.role /\ live'.by = live.by
        /\ live'.tools = live.tools
    BY <1>2, <2>1, <2>2 DEF ToolSessions
  <2>4. (Exists(live) => KnownMode(live', announced, loose)) /\ TurnIsOf(turn, live', task) /\ (Exists(live') => Exists(live))
    BY <2>3 DEF AccessInv, KnownMode, TurnIsOf, Exists
  <2> QED BY <1>1, <1>2, <2>3, <2>4 DEF AccessInv, AccessTypes
<1>3. ASSUME NEW sess \in ToolSessions, NEW tool \in Catalog(sess).deferred
      PROVE  LET new == Selected(sess, tool)
             IN /\ new \in ToolSessions /\ (Exists(new) <=> Exists(sess)) /\ (ForAnAdmin(sess) => ForAnAdmin(new))
                /\ IsSubagent(sess) => IsSubagent(new)
  <2> PICK new : new = Selected(sess, tool)
    OBVIOUS
  <2>1. new \in ToolSessions /\ new = [sess EXCEPT !.unlocked = @ \cup {tool}]
    BY SelectedIs
  <2>2. new.mode = sess.mode /\ new.tools = sess.tools /\ new.by = sess.by
    BY <2>1 DEF ToolSessions
  <2> QED BY <2>1, <2>2 DEF Exists, ForAnAdmin, IsSubagent
<1>4. task \in ToolSessions /\ sub \in ToolSessions /\ mate \in ToolSessions
  BY DEF AccessInv, AccessTypes
<1>5. ASSUME NEW tool \in Catalog(task).deferred, task' = Selected(task, tool), UNCHANGED <<live, sub, mate>> PROVE AccessInv'
  <2>1. task' \in ToolSessions /\ (Exists(task') <=> Exists(task)) /\ (ForAnAdmin(task) => ForAnAdmin(task'))
    BY <1>3, <1>4, <1>5
  <2>2. TurnIsOf(turn, live, task')
    BY <2>1 DEF AccessInv, TurnIsOf
  <2> QED BY <1>1, <1>5, <2>1, <2>2 DEF AccessInv, AccessTypes
<1>6. ASSUME NEW tool \in Catalog(sub).deferred, sub' = Selected(sub, tool), UNCHANGED <<live, task, mate>> PROVE AccessInv'
  <2>1. sub' \in ToolSessions /\ (ForAnAdmin(sub) => ForAnAdmin(sub')) /\ (IsSubagent(sub) => IsSubagent(sub'))
    BY <1>3, <1>4, <1>6
  <2> QED BY <1>1, <1>6, <2>1 DEF AccessInv, AccessTypes
<1>7. ASSUME NEW tool \in Catalog(mate).deferred, mate' = Selected(mate, tool), UNCHANGED <<live, task, sub>> PROVE AccessInv'
  <2>1. mate' \in ToolSessions /\ (ForAnAdmin(mate) => ForAnAdmin(mate'))
    BY <1>3, <1>4, <1>7
  <2> QED BY <1>1, <1>7, <2>1 DEF AccessInv, AccessTypes
<1> QED BY <1>2, <1>5, <1>6, <1>7 DEF Unlock

LEMMA StartSubagentKeeps == ASSUME AccessInv, NEW type \in DOMAIN Whitelist, StartSubagent(type) PROVE AccessInv'
<1>1. UNCHANGED <<sent, account, post, live, storedChat, turn, task, mate, announced, loose>> /\ Exists(task)
  BY DEF StartSubagent, TaskWorks
<1>2. LeadRegistry \cap Whitelist[type] = Whitelist[type] /\ Whitelist[type] \in SUBSET ToolNames
  BY ToolsAre DEF LeadRegistry
<1>3. sub' = [mode |-> "coding", role |-> task.role, tools |-> Whitelist[type], unlocked |-> {}, by |-> task.by]
  BY <1>2 DEF StartSubagent
<1>4. sub' \in ToolSessions /\ sub'.by # "user" /\ sub'.mode = "coding" /\ sub'.tools = Whitelist[type]
  BY <1>1, <1>2, <1>3 DEF AccessInv, AccessTypes, ToolSessions, ForAnAdmin, Switches
<1> QED BY <1>1, <1>4 DEF AccessInv, AccessTypes, ForAnAdmin, IsSubagent

LEMMA SpawnKeeps == AccessInv /\ SpawnMate => AccessInv'
<1> SUFFICES ASSUME AccessInv, SpawnMate PROVE AccessInv'
  OBVIOUS
<1>1. UNCHANGED <<sent, account, post, live, storedChat, turn, task, sub, announced, loose>> /\ Exists(task)
  BY DEF SpawnMate, TaskWorks
<1>2. mate' \in ToolSessions /\ mate'.by # "user"
  BY <1>1, ToolsAre DEF SpawnMate, AccessInv, AccessTypes, ToolSessions, ForAnAdmin, TeammateRegistry, Roles
<1> QED BY <1>1, <1>2 DEF AccessInv, AccessTypes, ForAnAdmin

LEMMA SaveKeepsModes == AccessInv /\ SaveAndReply => AccessInv'
<1> SUFFICES ASSUME AccessInv, SaveAndReply PROVE AccessInv'
  OBVIOUS
<1>1. /\ turn.pc = "save" /\ turn' = [turn EXCEPT !.pc = "idle"] /\ storedChat' = [live EXCEPT !.by = "none"]
      /\ UNCHANGED <<sent, account, post, live, task, sub, mate>>
  BY DEF SaveAndReply, TurnAt
<1>2. live \in ToolSessions /\ Exists(live) /\ KnownMode(live, announced, loose) /\ turn \in Turns
      /\ (turn.tells # "nothing" => live.mode = turn.tells)
  BY <1>1 DEF AccessInv, AccessTypes, TurnIsOf
<1>3. storedChat' \in ToolSessions /\ storedChat'.mode = live.mode /\ Exists(storedChat')
  BY <1>1, <1>2 DEF ToolSessions, Exists, Roles
<1>4. KnownMode(live, announced', loose')
  <2>1. CASE turn.tells = "nothing"
    BY <1>2, <2>1 DEF SaveAndReply
  <2>2. CASE turn.tells # "nothing"
    BY <1>2, <2>2 DEF SaveAndReply, KnownMode
  <2> QED BY <2>1, <2>2
<1>5. turn' \in Turns /\ turn'.pc = "idle"
  BY <1>1, <1>2 DEF Turns
<1>6. KnownMode(storedChat', announced', loose') /\ TurnIsOf(turn', live, task)
  BY <1>3, <1>4, <1>5 DEF KnownMode, TurnIsOf
<1> QED BY <1>1, <1>3, <1>4, <1>5, <1>6 DEF AccessInv, AccessTypes

\* What ends or drops something of a turn.
LEMMA EndingsKeep ==
  ASSUME AccessInv, UNCHANGED <<account, storedChat, announced, loose>>, post' \subseteq post,
         NEW to \in {"idle", "save"}, turn' = [turn EXCEPT !.pc = to], to = "save" => turn.pc \in {"work", "route"},
         live' = live \/ (live' = Absent /\ to = "idle"), task' \in {task, Absent}, sub' \in {sub, Absent}, mate' \in {mate, Absent}
  PROVE  AccessInv'
<1>1. turn' \in Turns /\ turn'.pc = to /\ turn'.tells = turn.tells /\ turn'.profile = turn.profile
  BY DEF AccessInv, AccessTypes, Turns
<1>2. /\ live' \in ToolSessions /\ task' \in ToolSessions /\ sub' \in ToolSessions /\ mate' \in ToolSessions
      /\ ForAnAdmin(task') /\ ForAnAdmin(sub') /\ ForAnAdmin(mate') /\ IsSubagent(sub')
  BY SessionsAre DEF AccessInv, AccessTypes, ForAnAdmin, IsSubagent
<1>3. Exists(live') => KnownMode(live', announced, loose)
  BY SessionsAre DEF AccessInv
<1>4. TurnIsOf(turn', live', task')
  BY <1>1 DEF AccessInv, TurnIsOf
<1> QED BY <1>1, <1>2, <1>3, <1>4 DEF AccessInv, AccessTypes

LEMMA AccessStep == AccessInv /\ AccessNext => AccessInv'
<1> SUFFICES ASSUME AccessInv, AccessNext PROVE AccessInv'
  OBVIOUS
<1>1. turn \in Turns /\ mate \in ToolSessions /\ account \in Roles
  BY DEF AccessInv, AccessTypes
<1>2. ASSUME ChangeRole \/ SendMessage PROVE AccessInv'
  BY <1>1, <1>2 DEF ChangeRole, SendMessage, AccessInv, AccessTypes, Roles
<1>3. ASSUME PluginAnswers \/ EndWork \/ TurnRaises PROVE AccessInv'
  <2>1. CASE PluginAnswers
    BY <2>1, EndingsKeep DEF PluginAnswers, TurnAt
  <2>2. CASE EndWork
    BY <2>2, EndingsKeep DEF EndWork, TurnAt
  <2>3. CASE TurnRaises
    BY <2>3, EndingsKeep DEF TurnRaises
  <2> QED BY <1>3, <2>1, <2>2, <2>3
<1>4. ASSUME RestartProcess PROVE AccessInv'
  BY <1>4, EndingsKeep DEF RestartProcess
<1>5. ASSUME DropSession PROVE AccessInv'
  <2>1. turn.pc = "idle" /\ turn' = turn
    BY <1>5 DEF DropSession, TurnAt
  <2>2. TurnIsOf(turn', live', task')
    BY <2>1 DEF TurnIsOf
  <2> QED BY <1>5, <2>1, <2>2, SessionsAre DEF DropSession, AccessInv, AccessTypes
<1>6. ASSUME EndSubagent PROVE AccessInv'
  BY <1>6, SessionsAre DEF EndSubagent, AccessInv, AccessTypes, ForAnAdmin, IsSubagent
<1>7. ASSUME CycleMate PROVE AccessInv'
  <2>1. mate' \in {[mate EXCEPT !.unlocked = {}], Absent} /\ UNCHANGED <<sent, account, post, live, storedChat, turn, task, sub, announced, loose>>
    BY <1>7 DEF CycleMate
  <2>2. [mate EXCEPT !.unlocked = {}] \in ToolSessions /\ ForAnAdmin([mate EXCEPT !.unlocked = {}])
    BY <1>1 DEF ToolSessions, AccessInv, ForAnAdmin, Exists
  <2>3. mate' \in ToolSessions /\ ForAnAdmin(mate')
    BY <2>1, <2>2, SessionsAre DEF ForAnAdmin
  <2> QED BY <2>1, <2>3 DEF AccessInv, AccessTypes
<1> QED BY <1>2, <1>3, <1>4, <1>5, <1>6, <1>7, ReceiveKeeps, RouteTurnKeeps, UnlockKeeps, StartSubagentKeeps, SpawnKeeps,
           SaveKeepsModes DEF AccessNext

\* What the catalog of any session says is so.
LEMMA CatalogTells ==
  ASSUME NEW sess \in ToolSessions, NEW tool
  PROVE  LET catalog == Catalog(sess)
             selected == Selected(sess, tool)
         IN CASE tool \in catalog.direct -> Executes(sess, tool) /\ Helps(sess, tool)
              [] tool \in catalog.deferred -> ~Executes(sess, tool) /\ Executes(selected, tool)
              [] OTHER -> tool = "tool_search" \/ ~Executes(selected, tool)
<1> PICK direct : direct = Visible(sess)
  OBVIOUS
<1> PICK deferred : deferred = Allowed(sess) \ direct
  OBVIOUS
<1> PICK selected : selected = Selected(sess, tool)
  OBVIOUS
<1>1. Catalog(sess).direct = direct /\ Catalog(sess).deferred = deferred
  BY DEF Catalog
<1>2. ASSUME tool \in direct PROVE Executes(sess, tool) /\ Helps(sess, tool)
  BY <1>2 DEF Executes, Helps, Visible
<1>3. ASSUME tool \in deferred PROVE ~Executes(sess, tool) /\ Executes(selected, tool)
  <2>1. tool # "tool_search"
    BY <1>3 DEF Visible, AlwaysOn
  <2>2. selected = [sess EXCEPT !.unlocked = @ \cup {tool}]
    BY <1>3 DEF Selected
  <2>3. selected.unlocked = sess.unlocked \cup {tool} /\ selected.mode = sess.mode /\ selected.role = sess.role
        /\ selected.tools = sess.tools
    BY <2>2 DEF ToolSessions
  <2>4. Allowed(selected) = Allowed(sess)
    BY <2>3 DEF Allowed, EnabledFor, IsAdmin
  <2>5. tool \in Visible(selected)
    BY <1>3, <2>3, <2>4 DEF Visible
  <2> QED BY <1>3, <2>1, <2>5 DEF Executes
<1>4. ASSUME tool \notin direct, tool \notin deferred PROVE tool = "tool_search" \/ ~Executes(selected, tool)
  BY <1>4 DEF Selected, Executes, Visible
<1> QED BY <1>1, <1>2, <1>3, <1>4

\* Every tool of a whitelist is enabled in coding mode.
LEMMA WhitelistIsOpen ==
  ASSUME AccessInv, Exists(sub)
  PROVE  \E type \in DOMAIN Whitelist : {tool \in ToolNames : Executes(Selected(sub, tool), tool)} = Whitelist[type]
<1>1. PICK type \in DOMAIN Whitelist : sub.tools = Whitelist[type]
  BY DEF AccessInv, IsSubagent
<1>2. sub \in ToolSessions /\ sub.mode = "coding"
  BY DEF AccessInv, AccessTypes, IsSubagent
<1>3. ASSUME NEW tool \in Whitelist[type] PROVE tool # "server_admin" /\ "coding" \in EnabledModes[tool]
  BY ToolsAre DEF EnabledModes
<1>4. Allowed(sub) = Whitelist[type]
  BY <1>1, <1>2, <1>3 DEF Allowed, EnabledFor
<1>5. "tool_search" \in Whitelist[type] /\ Whitelist[type] \subseteq ToolNames
  BY ToolsAre
<1>6. ASSUME NEW tool \in ToolNames PROVE Executes(Selected(sub, tool), tool) <=> tool \in Whitelist[type]
  <2>1. CASE tool \in Whitelist[type]
    <3>1. CASE tool \in Visible(sub)
      <4>1. ~(tool \in Catalog(sub).deferred)
        BY <3>1 DEF Catalog
      <4>2. Selected(sub, tool) = [sub EXCEPT !.unlocked = @ \cup {tool}]
        BY <1>4, <2>1 DEF Selected
      <4>3. Selected(sub, tool).unlocked = sub.unlocked \cup {tool} /\ Selected(sub, tool).mode = sub.mode
            /\ Selected(sub, tool).role = sub.role /\ Selected(sub, tool).tools = sub.tools
        BY <1>2, <4>2 DEF ToolSessions
      <4>4. Allowed(Selected(sub, tool)) = Allowed(sub)
        BY <4>3 DEF Allowed, EnabledFor, IsAdmin
      <4> QED BY <1>4, <2>1, <4>3, <4>4 DEF Executes, Visible
    <3>2. CASE tool \notin Visible(sub)
      <4>1. tool \in Catalog(sub).deferred /\ tool \notin Catalog(sub).direct
        BY <1>4, <2>1, <3>2 DEF Catalog
      <4> QED BY <1>2, <2>1, <4>1, CatalogTells
    <3> QED BY <3>1, <3>2
  <2>2. CASE tool \notin Whitelist[type]
    <3>1. Selected(sub, tool) = sub /\ tool \notin Visible(sub) /\ tool # "tool_search"
      BY <1>4, <1>5, <2>2 DEF Selected, Visible
    <3> QED BY <2>2, <3>1 DEF Executes
  <2> QED BY <2>1, <2>2
<1> QED BY <1>5, <1>6

LEMMA AccessInvHolds == AccessInv => AccessHolds
<1> SUFFICES ASSUME AccessInv PROVE AccessHolds
  OBVIOUS
<1>1. Chat \in ToolSessions /\ Chat.mode = turn.profile
  BY DEF AccessInv, AccessTypes, Chat, ToolSessions, Turns, Switches
<1>2. ASSUME NEW sess \in AtWork
      PROVE  sess \in ToolSessions /\ (sess.mode \in {"coding", "teammate"} => sess.by # "user")
  <2>1. CASE ChatWorks /\ sess = Chat
    <3>1. turn.profile = "bot"
      BY <2>1 DEF AccessInv, TurnIsOf, ChatWorks, TurnAt
    <3> QED BY <1>1, <2>1, <3>1
  <2>2. CASE TaskWorks /\ sess = task
    BY <2>2 DEF TaskWorks, AccessInv, AccessTypes, ForAnAdmin
  <2>3. CASE Exists(sess) /\ sess \in {sub, mate}
    BY <2>3 DEF AccessInv, AccessTypes, ForAnAdmin
  <2> QED BY <2>1, <2>2, <2>3 DEF AtWork
<1>3. CodingIsForAdmins
  BY <1>2 DEF CodingIsForAdmins
<1>4. TurnsRunAsTold
  <2>1. ASSUME TurnAt("work") PROVE live.mode \in {announced} \cup loose
    BY <2>1 DEF AccessInv, TurnIsOf, KnownMode, TurnAt
  <2>2. ASSUME TurnAt("work") PROVE (live.mode = "bot" => turn.profile = "bot") /\ (live.mode = "coding" => turn.profile = "coding")
    BY <2>2 DEF AccessInv, TurnIsOf, TurnAt
  <2> QED BY <2>1, <2>2 DEF TurnsRunAsTold
<1>5. CatalogIsTrue
  <2>1. ASSUME NEW sess \in AtWork, NEW tool \in ToolNames
        PROVE  LET catalog == Catalog(sess)
                   selected == Selected(sess, tool)
               IN CASE tool \in catalog.direct -> Executes(sess, tool) /\ Helps(sess, tool)
                    [] tool \in catalog.deferred -> ~Executes(sess, tool) /\ Executes(selected, tool)
                    [] OTHER -> tool = "tool_search" \/ ~Executes(selected, tool)
    BY <1>2, CatalogTells
  <2>2. Exists(sub) => {tool \in ToolNames : Executes(Selected(sub, tool), tool)} \in {Whitelist[type] : type \in DOMAIN Whitelist}
    BY WhitelistIsOpen
  <2> QED BY <2>1, <2>2 DEF CatalogIsTrue
<1> QED BY <1>3, <1>4, <1>5 DEF AccessHolds

---------------------------------------------------------------------------
(* Instruction files and their cache *)

Stamped == [mtime : Nat, text : Nat]
ReaderStates == [pc : {"idle", "cache", "read", "store", "use"}, mtime : Nat, text : Nat, cached : Stamped, since : SUBSET Nat]

\* A reader has asked for the time before it got a text: one that it has read, or
\* found, is the file's as long as the time is, and stands for one change only.
ReaderIs(r, f, shared) ==
    r.pc # "idle" =>
        /\ r.mtime >= 1 /\ r.mtime <= f.mtime /\ f.text \in r.since
        /\ r.pc \in {"store", "use"} /\ r.mtime = f.mtime /\ r.mtime \notin shared => r.text = f.text

\* The text of a time is one of those that a reader who was told that time may find.
Allows(r, mtime, text, shared) == r.pc # "idle" /\ r.mtime = mtime /\ mtime \notin shared => text \in r.since

FrameInv ==
    /\ clock \in Nat /\ rewrites \in Nat /\ file \in Stamped /\ entry \in Stamped /\ builder \in [Builders -> ReaderStates]
    /\ 1 <= file.mtime /\ file.mtime <= clock /\ entry.mtime <= file.mtime
    /\ entry.mtime = file.mtime /\ entry.mtime \notin sharedTimes => entry.text = file.text
    /\ \A b \in Builders : /\ ReaderIs(builder[b], file, sharedTimes)
                           /\ Allows(builder[b], entry.mtime, entry.text, sharedTimes)
    /\ \A b, c \in Builders : builder[c].pc \in {"store", "use"} =>
           Allows(builder[b], builder[c].mtime, builder[c].text, sharedTimes)

LEMMA FrameStart == FrameInit => FrameInv
<1> SUFFICES ASSUME FrameInit PROVE FrameInv
  OBVIOUS
<1>1. NoRead \in ReaderStates /\ NoRead.pc = "idle"
  BY DEF NoRead, ReaderStates, Stamped
<1>2. \A b \in Builders : builder[b] = NoRead
  BY DEF FrameInit
<1>3. /\ clock = 1 /\ rewrites = 1 /\ file = [text |-> 1, mtime |-> 1] /\ entry = [mtime |-> 0, text |-> 0]
      /\ builder \in [Builders -> ReaderStates]
  BY <1>1 DEF FrameInit
<1>4. \A b \in Builders : ReaderIs(builder[b], file, sharedTimes) /\ Allows(builder[b], entry.mtime, entry.text, sharedTimes)
  BY <1>1, <1>2 DEF ReaderIs, Allows
<1>5. \A c \in Builders : builder[c].pc \notin {"store", "use"}
  BY <1>1, <1>2
<1>6. file.mtime = 1 /\ entry.mtime = 0 /\ file \in Stamped /\ entry \in Stamped
  BY <1>3 DEF Stamped
<1> QED BY <1>3, <1>4, <1>5, <1>6 DEF FrameInv

LEMMA FrameStutters == FrameInv /\ UNCHANGED frameVars => FrameInv'
BY DEF FrameInv, frameVars

\* A change of the file leaves it a time of its own, or one that is known to be shared.
LEMMA FileGetsKeeps == ASSUME FrameInv, NEW text \in Nat, FileGets(text), rewrites' \in Nat PROVE FrameInv'
<1> PICK shared : shared = sharedTimes'
  OBVIOUS
<1> PICK new : new = file'
  OBVIOUS
<1>1. /\ new = [text |-> text, mtime |-> clock] /\ clock' = clock /\ entry' = entry /\ file' = new /\ sharedTimes' = shared
      /\ shared = IF file.mtime = clock THEN sharedTimes \union {clock} ELSE sharedTimes
      /\ builder' = [b \in Builders |-> [builder[b] EXCEPT !.since = @ \union {text}]]
  BY DEF FileGets
<1>2. new.mtime = clock /\ new.text = text /\ new \in Stamped /\ sharedTimes \subseteq shared
      /\ file.mtime \in Nat /\ entry.mtime \in Nat /\ clock \in Nat
  BY <1>1 DEF FrameInv, Stamped
<1>3. \A m \in Nat : m <= file.mtime /\ m = new.mtime => m \in shared
  <2>1. \A m \in Nat : m <= file.mtime /\ m = clock => file.mtime = clock
    BY <1>2 DEF FrameInv
  <2> QED BY <1>1, <1>2, <2>1
<1>4. ASSUME NEW b \in Builders
      PROVE  /\ builder'[b] \in ReaderStates /\ builder'[b].pc = builder[b].pc /\ builder'[b].mtime = builder[b].mtime
             /\ builder'[b].text = builder[b].text /\ builder'[b].since = builder[b].since \union {text}
             /\ builder[b].mtime \in Nat
  <2>1. builder[b] \in ReaderStates /\ builder'[b] = [builder[b] EXCEPT !.since = builder[b].since \union {text}]
    BY <1>1 DEF FrameInv
  <2> QED BY <2>1 DEF ReaderStates
<1>5. builder' \in [Builders -> ReaderStates]
  BY <1>1, <1>4
<1>6. ASSUME NEW b \in Builders PROVE ReaderIs(builder'[b], new, shared)
  <2>1. ReaderIs(builder[b], file, sharedTimes) /\ file.mtime <= clock
    BY DEF FrameInv
  <2> SUFFICES ASSUME builder[b].pc # "idle" PROVE ReaderIs(builder'[b], new, shared)
    BY <1>4 DEF ReaderIs
  <2>2. builder[b].mtime \in Nat /\ 1 <= builder[b].mtime /\ builder[b].mtime <= file.mtime
    BY <1>4, <2>1 DEF ReaderIs
  <2>3. builder[b].mtime <= new.mtime /\ (builder[b].mtime = new.mtime => builder[b].mtime \in shared)
    BY <1>2, <1>3, <2>1, <2>2
  <2>4. new.text \in builder'[b].since
    BY <1>2, <1>4
  <2> QED BY <1>4, <2>2, <2>3, <2>4 DEF ReaderIs
<1>7. ASSUME NEW b \in Builders PROVE Allows(builder'[b], entry.mtime, entry.text, shared)
  BY <1>2, <1>4 DEF Allows, FrameInv
<1>8. ASSUME NEW b \in Builders, NEW c \in Builders, builder'[c].pc \in {"store", "use"}
      PROVE  Allows(builder'[b], builder'[c].mtime, builder'[c].text, shared)
  <2>1. Allows(builder[b], builder[c].mtime, builder[c].text, sharedTimes)
    BY <1>4, <1>8 DEF FrameInv
  <2> QED BY <1>2, <1>4, <2>1 DEF Allows
<1>9. entry.mtime <= new.mtime /\ (entry.mtime = new.mtime /\ entry.mtime \notin shared => entry.text = new.text)
  <2>1. entry.mtime <= file.mtime /\ file.mtime <= clock
    BY DEF FrameInv
  <2>2. entry.mtime <= new.mtime
    BY <1>2, <2>1
  <2>3. entry.mtime = new.mtime => entry.mtime \in shared
    BY <1>2, <1>3, <2>1
  <2> QED BY <2>2, <2>3
<1>10. 1 <= new.mtime
  BY <1>2 DEF FrameInv
<1>11. \A b \in Builders : /\ ReaderIs(builder'[b], file', sharedTimes')
                            /\ Allows(builder'[b], entry'.mtime, entry'.text, sharedTimes')
  BY <1>1, <1>6, <1>7
<1>12. \A b, c \in Builders : builder'[c].pc \in {"store", "use"} =>
           Allows(builder'[b], builder'[c].mtime, builder'[c].text, sharedTimes')
  BY <1>1, <1>8
<1>13. /\ clock' \in Nat /\ file' \in Stamped /\ entry' \in Stamped
       /\ 1 <= file'.mtime /\ file'.mtime <= clock' /\ entry'.mtime <= file'.mtime
       /\ entry'.mtime = file'.mtime /\ entry'.mtime \notin sharedTimes' => entry'.text = file'.text
  BY <1>1, <1>2, <1>9, <1>10 DEF FrameInv
<1> QED BY <1>5, <1>11, <1>12, <1>13 DEF FrameInv

\* What is to be shown of a step of one reader, which leaves the file alone.
LEMMA ReaderGoes ==
  ASSUME FrameInv, NEW b \in Builders, NEW from, NEW new, Reads(b, from, new), new \in ReaderStates,
         entry' \in Stamped, entry'.mtime <= file.mtime,
         entry'.mtime = file.mtime /\ entry'.mtime \notin sharedTimes => entry'.text = file.text,
         ReaderIs(new, file, sharedTimes), Allows(new, entry'.mtime, entry'.text, sharedTimes),
         \A c \in Builders : Allows(builder[c], entry'.mtime, entry'.text, sharedTimes),
         \A c \in Builders : builder[c].pc \in {"store", "use"} => Allows(new, builder[c].mtime, builder[c].text, sharedTimes),
         new.pc \in {"store", "use"} => Allows(new, new.mtime, new.text, sharedTimes)
             /\ \A c \in Builders : Allows(builder[c], new.mtime, new.text, sharedTimes)
  PROVE  FrameInv'
<1>1. /\ builder' = [builder EXCEPT ![b] = new] /\ UNCHANGED <<clock, file, rewrites, rewriting, sharedTimes>>
      /\ builder \in [Builders -> ReaderStates]
  BY DEF Reads, FrameInv
<1>2. \A c \in Builders : builder'[c] = IF c = b THEN new ELSE builder[c]
  BY <1>1
<1>3. builder' \in [Builders -> ReaderStates]
  BY <1>1
<1>4. \A c \in Builders : ReaderIs(builder'[c], file, sharedTimes) /\ Allows(builder'[c], entry'.mtime, entry'.text, sharedTimes)
  BY <1>2 DEF FrameInv
<1>5. ASSUME NEW c \in Builders, NEW d \in Builders, builder'[c].pc \in {"store", "use"}
      PROVE  Allows(builder'[d], builder'[c].mtime, builder'[c].text, sharedTimes)
  BY <1>2, <1>5 DEF FrameInv
<1> QED BY <1>1, <1>3, <1>4, <1>5 DEF FrameInv

LEMMA NoReadIs == NoRead \in ReaderStates /\ NoRead.pc = "idle"
BY DEF NoRead, ReaderStates, Stamped

LEMMA StatFileKeeps == ASSUME FrameInv, NEW b \in Builders, StatFile(b) PROVE FrameInv'
<1> PICK new : new = [NoRead EXCEPT !.pc = "cache", !.mtime = file.mtime, !.since = {file.text}]
  OBVIOUS
<1>1. Reads(b, "idle", new) /\ entry' = entry
  BY DEF StatFile
<1>2. file \in Stamped /\ file.mtime \in Nat /\ file.text \in Nat
  BY DEF FrameInv, Stamped
<1>3. new \in ReaderStates /\ new.pc = "cache" /\ new.mtime = file.mtime /\ new.since = {file.text}
  BY <1>2 DEF NoRead, ReaderStates, Stamped
<1>4. ReaderIs(new, file, sharedTimes) /\ Allows(new, entry.mtime, entry.text, sharedTimes)
  BY <1>2, <1>3 DEF ReaderIs, Allows, FrameInv
<1>5. ASSUME NEW c \in Builders, builder[c].pc \in {"store", "use"}
      PROVE  Allows(new, builder[c].mtime, builder[c].text, sharedTimes)
  <2>1. ReaderIs(builder[c], file, sharedTimes)
    BY DEF FrameInv
  <2> QED BY <1>3, <1>5, <2>1 DEF ReaderIs, Allows
<1>6. /\ entry \in Stamped /\ entry.mtime <= file.mtime
      /\ entry.mtime = file.mtime /\ entry.mtime \notin sharedTimes => entry.text = file.text
      /\ \A c \in Builders : Allows(builder[c], entry.mtime, entry.text, sharedTimes)
  BY DEF FrameInv
<1> QED BY <1>1, <1>3, <1>4, <1>5, <1>6, ReaderGoes

LEMMA LookUpFileKeeps == ASSUME FrameInv, NEW b \in Builders, LookUpFile(b) PROVE FrameInv'
<1> PICK old : old = builder[b]
  OBVIOUS
<1> PICK new : new = [old EXCEPT !.cached = entry, !.text = IF entry.mtime = old.mtime THEN entry.text ELSE old.text,
                                 !.pc = IF entry.mtime = old.mtime THEN "use" ELSE "read"]
  OBVIOUS
<1>1. Reads(b, "cache", new) /\ entry' = entry
  BY DEF LookUpFile
<1>2. /\ entry \in Stamped /\ entry.mtime \in Nat /\ entry.text \in Nat /\ old \in ReaderStates /\ old.pc = "cache"
  BY <1>1 DEF FrameInv, Stamped, Reads
<1>3. /\ new \in ReaderStates /\ new.mtime = old.mtime /\ new.since = old.since
      /\ new.pc = (IF entry.mtime = old.mtime THEN "use" ELSE "read")
      /\ entry.mtime = old.mtime => new.text = entry.text
  BY <1>2 DEF ReaderStates
<1>4. /\ ReaderIs(old, file, sharedTimes) /\ Allows(old, entry.mtime, entry.text, sharedTimes)
      /\ entry.mtime <= file.mtime
      /\ entry.mtime = file.mtime /\ entry.mtime \notin sharedTimes => entry.text = file.text
      /\ \A c \in Builders : Allows(builder[c], entry.mtime, entry.text, sharedTimes)
      /\ \A c \in Builders : builder[c].pc \in {"store", "use"} => Allows(old, builder[c].mtime, builder[c].text, sharedTimes)
  BY DEF FrameInv
<1>5. ReaderIs(new, file, sharedTimes)
  BY <1>2, <1>3, <1>4 DEF ReaderIs
<1>6. \A m, t : Allows(old, m, t, sharedTimes) => Allows(new, m, t, sharedTimes)
  BY <1>2, <1>3 DEF Allows
<1>7. new.pc = "use" => new.mtime = entry.mtime /\ new.text = entry.text
  BY <1>3
<1>8. new.pc # "store"
  BY <1>3
<1> QED BY <1>1, <1>2, <1>3, <1>4, <1>5, <1>6, <1>7, <1>8, ReaderGoes

LEMMA ReadFileKeeps == ASSUME FrameInv, NEW b \in Builders, ReadFile(b) PROVE FrameInv'
<1> PICK old : old = builder[b]
  OBVIOUS
<1> PICK new : new = [old EXCEPT !.text = file.text, !.pc = "store"]
  OBVIOUS
<1>1. Reads(b, "read", new) /\ entry' = entry
  BY DEF ReadFile
<1>2. file.text \in Nat /\ old \in ReaderStates /\ old.pc = "read"
  BY <1>1 DEF FrameInv, Stamped, Reads
<1>3. new \in ReaderStates /\ new.mtime = old.mtime /\ new.since = old.since /\ new.pc = "store" /\ new.text = file.text
  BY <1>2 DEF ReaderStates
<1>4. /\ ReaderIs(old, file, sharedTimes) /\ Allows(old, entry.mtime, entry.text, sharedTimes)
      /\ entry \in Stamped /\ entry.mtime <= file.mtime
      /\ entry.mtime = file.mtime /\ entry.mtime \notin sharedTimes => entry.text = file.text
      /\ \A c \in Builders : Allows(builder[c], entry.mtime, entry.text, sharedTimes) /\ ReaderIs(builder[c], file, sharedTimes)
      /\ \A c \in Builders : builder[c].pc \in {"store", "use"} => Allows(old, builder[c].mtime, builder[c].text, sharedTimes)
  BY DEF FrameInv
<1>5. ReaderIs(new, file, sharedTimes)
  BY <1>2, <1>3, <1>4 DEF ReaderIs
<1>6. \A m, t : Allows(old, m, t, sharedTimes) => Allows(new, m, t, sharedTimes)
  BY <1>2, <1>3 DEF Allows
<1>7. \A c \in Builders : Allows(builder[c], new.mtime, new.text, sharedTimes)
  BY <1>3, <1>4 DEF ReaderIs, Allows
<1>8. Allows(new, new.mtime, new.text, sharedTimes)
  BY <1>2, <1>3, <1>4 DEF ReaderIs, Allows
<1> QED BY <1>1, <1>3, <1>4, <1>5, <1>6, <1>7, <1>8, ReaderGoes

LEMMA IdleKeeps == ASSUME FrameInv, NEW b \in Builders, NEW from, Reads(b, from, NoRead), UNCHANGED entry PROVE FrameInv'
<1>1. \A m, t : Allows(NoRead, m, t, sharedTimes)
  BY NoReadIs DEF Allows
<1>2. ReaderIs(NoRead, file, sharedTimes) /\ NoRead.pc \notin {"store", "use"}
  BY NoReadIs DEF ReaderIs
<1>3. /\ entry \in Stamped /\ entry.mtime <= file.mtime
      /\ entry.mtime = file.mtime /\ entry.mtime \notin sharedTimes => entry.text = file.text
      /\ \A c \in Builders : Allows(builder[c], entry.mtime, entry.text, sharedTimes)
  BY DEF FrameInv
<1> QED BY <1>1, <1>2, <1>3, NoReadIs, ReaderGoes

LEMMA StoreFileKeeps == ASSUME FrameInv, NEW b \in Builders, StoreFile(b) PROVE FrameInv'
<1> PICK old : old = builder[b]
  OBVIOUS
<1> PICK new : new = [old EXCEPT !.pc = "use"]
  OBVIOUS
<1> PICK stored_ : stored_ = [mtime |-> old.mtime, text |-> old.text]
  OBVIOUS
<1>1. Reads(b, "store", new) /\ entry' = stored_
  BY DEF StoreFile
<1>2. old \in ReaderStates /\ old.pc = "store"
  BY <1>1 DEF FrameInv, Reads
<1>3. /\ new \in ReaderStates /\ new.mtime = old.mtime /\ new.since = old.since /\ new.pc = "use" /\ new.text = old.text
      /\ stored_ \in Stamped /\ stored_.mtime = old.mtime /\ stored_.text = old.text
  BY <1>2 DEF ReaderStates, Stamped
<1>4. /\ ReaderIs(old, file, sharedTimes)
      /\ \A c \in Builders : Allows(builder[c], old.mtime, old.text, sharedTimes)
      /\ \A c \in Builders : builder[c].pc \in {"store", "use"} => Allows(old, builder[c].mtime, builder[c].text, sharedTimes)
  BY <1>2 DEF FrameInv
<1>5. ReaderIs(new, file, sharedTimes)
  BY <1>2, <1>3, <1>4 DEF ReaderIs
<1>6. \A m, t : Allows(old, m, t, sharedTimes) => Allows(new, m, t, sharedTimes)
  BY <1>2, <1>3 DEF Allows
<1>7. Allows(new, old.mtime, old.text, sharedTimes)
  BY <1>4, <1>6
<1>8. stored_.mtime <= file.mtime /\ (stored_.mtime = file.mtime /\ stored_.mtime \notin sharedTimes => stored_.text = file.text)
  BY <1>2, <1>3, <1>4 DEF ReaderIs
<1> QED BY <1>1, <1>3, <1>4, <1>5, <1>6, <1>7, <1>8, ReaderGoes

LEMMA FrameStep == FrameInv /\ FrameNext => FrameInv'
<1> SUFFICES ASSUME FrameInv, FrameNext PROVE FrameInv'
  OBVIOUS
<1>1. CASE PassMtime
  <2>1. /\ clock' = clock + 1 /\ UNCHANGED <<file, rewrites, rewriting, sharedTimes, entry, builder>>
        /\ clock \in Nat /\ file.mtime \in Nat /\ file.mtime <= clock
    BY <1>1 DEF PassMtime, FrameInv, Stamped
  <2>2. clock' \in Nat /\ file.mtime <= clock'
    BY <2>1
  <2> QED BY <2>1, <2>2 DEF FrameInv
<1>2. CASE TruncateFile
  <2>1. FileGets(0) /\ rewrites' \in Nat
    BY <1>2 DEF TruncateFile, FrameInv
  <2> QED BY <2>1, FileGetsKeeps
<1>3. CASE WriteFile
  <2>1. FileGets(rewrites) /\ rewrites' \in Nat /\ rewrites \in Nat
    BY <1>3 DEF WriteFile, FrameInv
  <2> QED BY <2>1, FileGetsKeeps
<1>4. ASSUME NEW b \in Builders, ReadFails(b) \/ UseFile(b) PROVE FrameInv'
  BY <1>4, IdleKeeps DEF ReadFails, UseFile
<1> QED BY <1>1, <1>2, <1>3, <1>4, StatFileKeeps, LookUpFileKeeps, ReadFileKeeps, StoreFileKeeps DEF FrameNext

LEMMA FrameInvIsCurrent == FrameInv => InstructionsAreCurrent
BY DEF FrameInv, InstructionsAreCurrent, Allows

---------------------------------------------------------------------------
(* The parts together *)

\* A step of Workbench is one of its parts, or leaves it alone.
LEMMA PartSteps ==
  ASSUME [Next]_<<workVars, part>>
  PROVE  /\ WorkspaceNext \/ UNCHANGED filesVars
         /\ ArtifactsNext \/ UNCHANGED artifactVars
         /\ SubagentsNext \/ UNCHANGED subagentVars
         /\ CodingNext \/ UNCHANGED codingVars
         /\ BackgroundNext \/ UNCHANGED backgroundVars
         /\ ProtocolsNext \/ UNCHANGED protocolVars
         /\ MemoryNext \/ UNCHANGED memoryVars
         /\ TracesNext \/ UNCHANGED traceVars
         /\ KnowledgeNext \/ UNCHANGED knowledgeVars
         /\ SearchNext \/ UNCHANGED searchVars
         /\ AccessNext \/ UNCHANGED accessVars
         /\ FrameNext \/ UNCHANGED frameVars
<1>1. CASE ToolsNext
  BY <1>1 DEF ToolsNext, turnVars, recordVars, contextVars
<1>2. CASE TurnsNext
  BY <1>2 DEF TurnsNext, toolVars, recordVars, contextVars
<1>3. CASE RecordsNext
  BY <1>3 DEF RecordsNext, toolVars, turnVars, contextVars
<1>4. CASE ContextNext
  BY <1>4 DEF ContextNext, toolVars, turnVars, recordVars
<1>5. CASE UNCHANGED workVars
  BY <1>5 DEF workVars, toolVars, turnVars, recordVars, contextVars
<1> QED BY <1>1, <1>2, <1>3, <1>4, <1>5 DEF Next

\* No session is shown a file as it was before its own latest change to it
\* (tools/handlers.py); and every file a turn leaves for its user is accounted for
\* (tools/artifacts).
THEOREM FilesFaithful == Spec => []FilesAreFaithful
<1>1. Init => FilesInv /\ EditsAreOfFiles /\ ArtifactInv
  BY FilesStart, EditsStart, ArtifactsStart DEF Init
<1>2. FilesInv /\ EditsAreOfFiles /\ ArtifactInv /\ [Next]_<<workVars, part>> => FilesInv' /\ EditsAreOfFiles' /\ ArtifactInv'
  <2> SUFFICES ASSUME FilesInv, EditsAreOfFiles, ArtifactInv, [Next]_<<workVars, part>> PROVE FilesInv' /\ EditsAreOfFiles' /\ ArtifactInv'
    OBVIOUS
  <2>1. FilesInv' /\ EditsAreOfFiles'
    BY PartSteps, FilesStep, EditsKeep, FilesStutter DEF filesVars
  <2>2. ArtifactInv'
    BY PartSteps, ArtifactsStep, ArtifactsStutter
  <2> QED BY <2>1, <2>2
<1>3. FilesInv /\ ArtifactInv => FilesAreFaithful
  BY OwnChangesSeen, ArtifactInvAccounts DEF FilesAreFaithful
<1> QED BY <1>1, <1>2, <1>3, PTL DEF Spec

\* Every task that reports completed (agents/coding/task.py) tells what is so.
THEOREM TaskReportsHold == Spec => []TaskReportIsTrue
<1>1. Init => CodingInv
  BY CodingStart DEF Init
<1>2. CodingInv /\ [Next]_<<workVars, part>> => CodingInv'
  BY PartSteps, CodingStep, CodingStutters
<1>3. CodingInv => TaskReportIsTrue
  <2> SUFFICES ASSUME CodingInv PROVE TaskReportIsTrue
    OBVIOUS
  <2>1. ASSUME NEW t \in CodingJobs, report[t].status = "completed"
        PROVE  /\ report[t].lists.promoted \cup report[t].lists.skipped \subseteq ToSet(review)
               /\ work[t].learnt = UNION {report[t].lists.promoted, report[t].lists.skipped, report[t].lists.rejected}
               /\ archived[t] = Unfiled \/ archived[t].lists = report[t].lists
               /\ session[t] = [status |-> "completed", artifacts |-> archived[t].status]
               /\ DiffTells(t)
    <3>1. TaskInv(t)
      BY DEF CodingInv
    <3> QED BY <2>1, <3>1 DEF TaskInv, ListsAreFiled, FiledFor, ReportIsOf, ListsOf
  <2> QED BY <2>1 DEF TaskReportIsTrue, CodingInv, OnceUnlessNoted
<1> QED BY <1>1, <1>2, <1>3, PTL DEF Spec

\* No turn of the history and no item of MEMORY.md is lost or doubled without a failure
\* or an overlap of two workers (memory/).
THEOREM MemoryKept == Spec => []MemoryIsKept
<1>1. Init => MemoryInv
  BY MemoryStart DEF Init
<1>2. MemoryInv /\ [Next]_<<workVars, part>> => MemoryInv'
  BY PartSteps, MemoryStep, MemoryStutters
<1> QED BY <1>1, <1>2, MemoryInvKeeps, PTL DEF Spec

\* The end of a background command is put before a model once and as the table shows it
\* (coding_runtime/background_task.py); who asked for a verdict is told the one that is
\* on record (coding_runtime/protocols.py); and a clue that was answered or has failed as
\* often as it may is not given to a subagent again (agents/subagent).
THEOREM CoordinationTold == Spec => []CoordinationIsTold
<1>1. Init => BackgroundInv /\ ProtocolInv /\ SubagentInv
  BY BackgroundStart, ProtocolsStart, SubagentsStart DEF Init
<1>2. BackgroundInv /\ ProtocolInv /\ SubagentInv /\ [Next]_<<workVars, part>> => BackgroundInv' /\ ProtocolInv' /\ SubagentInv'
  <2>1. SubagentInv /\ [Next]_<<workVars, part>> => SubagentInv'
    BY PartSteps, SubagentStep, SubagentsStutter DEF subagentVars
  <2> QED BY PartSteps, BackgroundStep, BackgroundStutters, ProtocolsStep, ProtocolsStutter, <2>1
<1>3. BackgroundInv /\ ProtocolInv /\ SubagentInv => CoordinationIsTold
  BY BackgroundInvReports, ProtocolInvTells, SubagentInvHolds DEF CoordinationIsTold
<1> QED BY <1>1, <1>2, <1>3, PTL DEF Spec

\* A record of the knowledge base stands for all chunks of its file, the index follows
\* the files, and the snippets a turn is shown are no older than the cache's time
\* (knowledge/security_rag.py, knowledge/caching.py).
THEOREM KnowledgeHonest == Spec => []KnowledgeIsHonest
<1>1. Init => KnowledgeInv /\ SearchInv
  BY KnowledgeStart, SearchStart DEF Init
<1>2. KnowledgeInv /\ SearchInv /\ [Next]_<<workVars, part>> => KnowledgeInv' /\ SearchInv'
  BY PartSteps, KnowledgeStep, KnowledgeStutters, SearchStep, SearchStutters
<1>3. KnowledgeInv /\ SearchInv => KnowledgeIsHonest
  BY KnowledgeInvIsHonest, SearchInvIsFresh DEF KnowledgeIsHonest
<1> QED BY <1>1, <1>2, <1>3, PTL DEF Spec

\* A turn runs in the mode the user was last told, with tools that the catalog shows as
\* they are, for an admin where it is a coding turn (runtime/routing, tools/policy.py),
\* and on instructions that are current (runtime/context.py).
THEOREM TurnsPrepared == Spec => []TurnsArePrepared
<1>1. Init => AccessInv /\ FrameInv
  BY AccessStart, FrameStart DEF Init
<1>2. AccessInv /\ FrameInv /\ [Next]_<<workVars, part>> => AccessInv' /\ FrameInv'
  BY PartSteps, AccessStep, AccessStutters, FrameStep, FrameStutters
<1>3. AccessInv /\ FrameInv => TurnsArePrepared
  BY AccessInvHolds, FrameInvIsCurrent DEF TurnsArePrepared
<1> QED BY <1>1, <1>2, <1>3, PTL DEF Spec

\* When a turn and its memory worker are done, the state, report, metrics, summary and index of
\* the run tell the same, also of a run that failed after it was reported as finished, unless the
\* two met at the summary (runtime/trace/trace_store.py, summary.py, index_store.py).
THEOREM TracesTell == Spec => []TracesAgree
<1>1. Init => TraceInv
  BY TracesStart DEF Init
<1>2. TraceInv /\ [Next]_<<workVars, part>> => TraceInv'
  BY PartSteps, TracesStep, TracesStutter
<1> QED BY <1>1, <1>2, TraceInvAgrees, PTL DEF Spec
=============================================================================
