------------------------------ MODULE WebFiles ------------------------------
(* A user's storage directory, changed by several HTTP threads at once: the   *)
(* upload, mkdir, rename and delete handlers of web/server.py.  Every call of *)
(* the file system is a step; two levels of directories are enough for each   *)
(* branch of the handlers.                                                    *)
EXTENDS Naturals, Sequences

CONSTANTS Names, Paths,    \* the names and paths that requests give
          Workers,
          Changes          \* how many requests are made

ASSUME FilesAssumption == \A p \in Paths : p \in Seq(Names) /\ Len(p) \in {1, 2}

VARIABLES tree,     \* path -> inode
          content,  \* inode -> Dir, Torn or the number of the upload it holds
          work,     \* what a thread still has to do
          requests, \* requests made so far
          saved,    \* history: uploads that were written to their end
         discarded, \* history: uploads deleted, or replaced by another upload
          lost      \* history: uploads that a rename replaced, which had found its target free

fileVars == <<tree, content, work, requests, saved, discarded, lost>>

Dir == 0
Torn == 1
Upload(n) == n + 1
Idle == [step |-> "idle"]
Parent(p) == SubSeq(p, 1, Len(p) - 1)

FilesInit == /\ tree = <<>> /\ content = <<>> /\ work = [w \in Workers |-> Idle]
             /\ requests = 0 /\ saved = {} /\ discarded = {} /\ lost = {}

IsDir(p) == p = <<>> \/ (p \in DOMAIN tree /\ content[tree[p]] = Dir)
IsFile(p) == p \in DOMAIN tree /\ content[tree[p]] # Dir
Below(p) == {q \in DOMAIN tree : Len(q) > Len(p) /\ SubSeq(q, 1, Len(p)) = p}
Held(paths) == {content[tree[p]] : p \in paths} \ {Dir, Torn}
Added(f, p, x) == [q \in DOMAIN f \cup {p} |-> IF q = p THEN x ELSE f[q]]
Kept(paths) == [q \in DOMAIN tree \ paths |-> tree[q]]

\* The thread goes on; a rename that waits learns that its target has appeared.
Proceed(w, next) ==
    work' = [v \in Workers |->
                IF v = w THEN next
                ELSE IF work[v].step = "rename" /\ work[v].target \in DOMAIN tree' \ DOMAIN tree
                     THEN [work[v] EXCEPT !.late = TRUE] ELSE work[v]]

Request(w) == /\ work[w].step = "idle" /\ requests < Changes
              /\ requests' = requests + 1

\* mkdir with parents=True and exist_ok=True; a file in the way is an error.
MakeDirs(w, p, next) ==
    IF p = <<>> \/ IsDir(p) THEN UNCHANGED <<tree, content>> /\ Proceed(w, next)
    ELSE IF p \in DOMAIN tree \/ (~IsDir(Parent(p)) /\ Parent(p) \in DOMAIN tree)
         THEN UNCHANGED <<tree, content>> /\ Proceed(w, Idle)
    ELSE /\ IF IsDir(Parent(p))
            THEN content' = Append(content, Dir) /\ tree' = Added(tree, p, Len(content'))
            ELSE /\ content' = content \o <<Dir, Dir>>
                 /\ tree' = Added(Added(tree, Parent(p), Len(content) + 1), p, Len(content'))
         /\ Proceed(w, next)

HandleMkdir(w, p) == Request(w) /\ MakeDirs(w, p, Idle) /\ UNCHANGED <<saved, discarded, lost>>

HandleUpload(w, p) == /\ Request(w)
                      /\ MakeDirs(w, Parent(p), [step |-> "open", path |-> p, number |-> Upload(requests')])
                      /\ UNCHANGED <<saved, discarded, lost>>

\* write_bytes opens and truncates, then writes to what it has opened.
OpenDest(w) ==
    /\ work[w].step = "open"
    /\ LET p == work[w].path
       IN IF ~IsDir(Parent(p)) \/ IsDir(p)
          THEN UNCHANGED <<tree, content, discarded>> /\ Proceed(w, Idle)
          ELSE /\ IF IsFile(p)
                  THEN /\ content' = [content EXCEPT ![tree[p]] = Torn] /\ UNCHANGED tree
                       /\ discarded' = discarded \cup Held({p})
                  ELSE /\ content' = Append(content, Torn) /\ tree' = Added(tree, p, Len(content'))
                       /\ UNCHANGED discarded
               /\ Proceed(w, [step |-> "write", inode |-> tree'[p], number |-> work[w].number])
    /\ UNCHANGED <<requests, saved, lost>>

\* Another upload of the file may have written already: the longer tail stays.
WriteDest(w) ==
    /\ work[w].step = "write"
    /\ LET i == work[w].inode
           linked == \E p \in DOMAIN tree : tree[p] = i
       IN /\ content' \in {[content EXCEPT ![i] = work[w].number]}
                          \cup (IF content[i] = Torn THEN {} ELSE {[content EXCEPT ![i] = Torn]})
          /\ discarded' = discarded \cup ({content[i]} \ {Torn})
                        \cup (IF linked /\ content'[i] # Torn THEN {} ELSE {work[w].number})
    /\ saved' = saved \cup {work[w].number}
    /\ UNCHANGED <<tree, requests, lost>> /\ Proceed(w, Idle)

\* Mutant of Taken: nobody looks.
TakenNever(p) == FALSE
Taken(p) == p \in DOMAIN tree

RenameCheck(w, p, name) ==
    LET target == Append(Parent(p), name)
    IN /\ Request(w)
       /\ UNCHANGED <<tree, content, saved, discarded, lost>>
       /\ Proceed(w, IF Taken(target) THEN Idle
                     ELSE [step |-> "rename", path |-> p, target |-> target, late |-> FALSE])

\* rename replaces a file by a file and an empty directory by a directory.
RenameDo(w) ==
    /\ work[w].step = "rename"
    /\ LET p == work[w].path
           t == work[w].target
           moved == {p} \cup Below(p)
           To(q) == t \o SubSeq(q, Len(p) + 1, Len(q))
       IN IF p \notin DOMAIN tree \/ p = t
             \/ (t \in DOMAIN tree /\ (IsDir(p) # IsDir(t) \/ Below(t) # {}))
          THEN UNCHANGED <<tree, lost>>
          ELSE /\ tree' = [q \in (DOMAIN tree \ moved) \cup {To(r) : r \in moved} |->
                             IF \E r \in moved : To(r) = q THEN tree[CHOOSE r \in moved : To(r) = q] ELSE tree[q]]
               /\ lost' = IF work[w].late THEN lost \cup Held({t} \cap DOMAIN tree) ELSE lost
    /\ UNCHANGED <<content, requests, saved, discarded>> /\ Proceed(w, Idle)

\* rmtree deletes what it finds below, and then the directory if it is empty.
HandleDelete(w, p) ==
    /\ Request(w)
    /\ LET victims == IF IsDir(p) THEN Below(p) ELSE {p} \cap DOMAIN tree
       IN tree' = Kept(victims) /\ discarded' = discarded \cup Held(victims)
    /\ Proceed(w, IF IsDir(p) THEN [step |-> "rmdir", path |-> p] ELSE Idle)
    /\ UNCHANGED <<content, saved, lost>>

RemoveDir(w) == /\ work[w].step = "rmdir"
                /\ LET p == work[w].path
                   IN tree' = IF IsDir(p) /\ Below(p) = {} THEN Kept({p}) ELSE tree
                /\ Proceed(w, Idle)
                /\ UNCHANGED <<content, requests, saved, discarded, lost>>

FilesNext == \E w \in Workers :
                \/ \E p \in Paths : HandleUpload(w, p) \/ HandleMkdir(w, p) \/ HandleDelete(w, p)
                \/ \E p \in Paths, name \in Names : RenameCheck(w, p, name)
                \/ OpenDest(w) \/ WriteDest(w) \/ RenameDo(w) \/ RemoveDir(w)

---------------------------------------------------------------------------
\* What was uploaded is in the user's directory until the user deletes it or
\* uploads something over it: no rename overwrites it, except one whose target
\* appeared after the handler had checked that there was none.
NothingLost == saved \subseteq Held(DOMAIN tree) \cup discarded \cup lost
=============================================================================
