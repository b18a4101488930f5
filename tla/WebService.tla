----------------------------- MODULE WebService -----------------------------
(* AgentService of web/server.py: threads of the HTTP server start the agent  *)
(* runtime, put asks and deletions on its event loop and wait for the answer. *)
(* A turn blocks the loop; only other threads run meanwhile.                  *)
EXTENDS UserBus, Sessions

CONSTANTS Asks, Dels,  \* HTTP requests: chat messages, and deletions of a session
          No           \* no request

VARIABLES service,  \* the runtime's thread: "none", "starting", "up", "failed"
          http,     \* where the HTTP thread of a request is, or what it answered
          session,  \* the session a request is about
          locks,    \* _session_locks: who holds or waits for a session's lock, in order
          task,     \* where the coroutine of a request is
          pending,  \* _pending: the ask whose future waits for a chat's reply
          result,   \* the ask whose reply a future was given
          busy,     \* the ask whose turn blocks the loop
          object,   \* the messages of the session object that turn holds
          removed,  \* history: the asks whose messages a deletion removed
          raced     \* history: sessions deleted in the table while the runtime had them

Requests == Asks \cup Dels
ASSUME WebAssumption == No \notin Requests /\ Asks \cap Dels = {}

webVars == <<service, http, session, locks, task, pending, result, busy, object, removed, raced>>
threadVars == <<locks, task, pending, result, busy, object>>
historyWeb == <<removed, raced>>

WebInit == /\ service = "none" /\ http = [r \in Requests |-> "idle"]
           /\ session \in [Requests -> SessionIds]
           /\ locks = [s \in SessionIds |-> <<>>] /\ task = [r \in Requests |-> "none"]
           /\ pending = [s \in SessionIds |-> No] /\ result = [a \in Asks |-> No]
           /\ busy = No /\ object = <<>>
           /\ removed = {} /\ raced = {}

LoopFree == service = "up" /\ busy = No /\ dispatcher # "handling"
\* Mutant of Holds: waiting for the lock is enough.
HoldsOrWaits(r) == r \in ToSet(locks[session[r]])
Holds(r) == locks[session[r]] # <<>> /\ Head(locks[session[r]]) = r
Finish(r, answer) == http' = [http EXCEPT ![r] = IF @ = "waiting" THEN answer ELSE @]
Release(r) == locks' = [locks EXCEPT ![session[r]] = Tail(@)]

---------------------------------------------------------------------------
(* The threads of the HTTP server *)

\* ensure_started under _start_lock; a failed start is remembered for ever.
EnsureStarted(r) ==
    /\ http[r] = IF r \in Asks THEN "idle" ELSE "checked"
    /\ http' = [http EXCEPT ![r] = IF service = "failed" THEN "error" ELSE "starting"]
    /\ service' = IF service = "none" THEN "starting" ELSE service
    /\ UNCHANGED <<busVars, sessionVars, session, threadVars, historyWeb>>

StartTimesOut(r) == /\ http[r] = "starting" /\ service = "starting"
                    /\ http' = [http EXCEPT ![r] = "error"]
                    /\ UNCHANGED <<busVars, sessionVars, service, session, threadVars, historyWeb>>

\* run_coroutine_threadsafe: the thread waits, the coroutine asks for the lock.
Submit(r) ==
    /\ http[r] = "starting" /\ service \in {"up", "failed"}
    /\ IF service = "up"
       THEN /\ http' = [http EXCEPT ![r] = "waiting"]
            /\ task' = [task EXCEPT ![r] = "queued"]
       ELSE http' = [http EXCEPT ![r] = "error"] /\ UNCHANGED task
    /\ UNCHANGED <<busVars, sessionVars, service, session, locks, pending, result, busy, object, historyWeb>>

\* future.result times out; the coroutine goes on.
GivesUp(r) == /\ http[r] = "waiting"
              /\ http' = [http EXCEPT ![r] = "error"]
              /\ UNCHANGED <<busVars, sessionVars, service, session, threadVars, historyWeb>>

\* delete_session: without a runtime the rows are deleted by this thread.
CheckRuntime(d) == /\ d \in Dels /\ http[d] = "idle"
                   /\ http' = [http EXCEPT ![d] = IF service = "none" THEN "direct" ELSE "checked"]
                   /\ UNCHANGED <<busVars, sessionVars, service, session, threadVars, historyWeb>>

DeleteDirect(d) == /\ d \in Dels /\ http[d] = "direct"
                   /\ http' = [http EXCEPT ![d] = "deleted"]
                   /\ DeleteStored(session[d])
                   /\ removed' = removed \cup Remembered(session[d])
                   /\ raced' = IF service = "none" THEN raced ELSE raced \cup {session[d]}
                   /\ UNCHANGED <<busVars, service, session, threadVars>>

---------------------------------------------------------------------------
(* The thread of the runtime and its event loop *)

StartRuntime == /\ service = "starting"
                /\ \/ service' = "up" /\ Start
                   \/ service' = "failed" /\ UNCHANGED busVars
                /\ UNCHANGED <<sessionVars, http, session, threadVars, historyWeb>>

\* The coroutine's first step: it takes the lock or waits behind the others.
Enter(r) == /\ LoopFree /\ task[r] = "queued"
            /\ task' = [task EXCEPT ![r] = "lock"]
            /\ locks' = [locks EXCEPT ![session[r]] = Append(@, r)]
            /\ UNCHANGED <<busVars, sessionVars, service, http, session, pending, result, busy, object, historyWeb>>

\* The future is registered and run_message begins: from here to Deliver the
\* loop does nothing else.
BeginTurn(a) == /\ LoopFree /\ a \in Asks /\ task[a] = "lock" /\ Holds(a)
                /\ pending' = [pending EXCEPT ![session[a]] = a]
                /\ busy' = a
                /\ object' = Loaded(session[a])
                /\ cache' = Touched(session[a], Loaded(session[a]))
                /\ UNCHANGED <<busVars, stored, service, http, session, locks, task, result, historyWeb>>

\* A coding turn opens a session of its own, which may evict that of the turn.
OpenChild(s) == /\ service = "up" /\ busy # No /\ s # session[busy] /\ ~Cached(s)
                /\ cache' = Touched(s, stored[s])
                /\ UNCHANGED <<busVars, stored, webVars>>

\* The turn adds its messages, or has compacted those before; save, publish.
EndTurn == /\ busy # No
           /\ \E new \in {<<Tells(object) \cup {busy}>>, Append(object, {busy})} : Save(session[busy], new)
           /\ outbound' = Append(outbound, [chat |-> session[busy], reply |-> busy])
           /\ task' = [task EXCEPT ![busy] = "reply"]
           /\ busy' = No /\ object' = <<>>
           /\ UNCHANGED <<running, dispatcher, current, early, shown, dropped,
                          service, http, session, locks, pending, result, historyWeb>>

\* Mutant of FailTurn: the lock is released only on success.
FailTurnLocked == /\ busy # No
                  /\ task' = [task EXCEPT ![busy] = "done"]
                  /\ pending' = [pending EXCEPT ![session[busy]] = No]
                  /\ Finish(busy, "error")
                  /\ busy' = No /\ object' = <<>>
                  /\ UNCHANGED <<busVars, sessionVars, service, session, locks, result, historyWeb>>

\* The turn raised: what it added stays in the cached object and is not saved.
FailTurn == /\ busy # No
            /\ cache' = IF Cached(session[busy]) THEN Touched(session[busy], Append(object, {busy})) ELSE cache
            /\ task' = [task EXCEPT ![busy] = "done"]
            /\ pending' = [pending EXCEPT ![session[busy]] = No]
            /\ Release(busy) /\ Finish(busy, "error")
            /\ busy' = No /\ object' = <<>>
            /\ UNCHANGED <<busVars, stored, service, session, result, historyWeb>>

\* _handle_outbound
HandleOutbound ==
    /\ dispatcher = "handling"
    /\ LET a == pending[current[1].chat]
       IN /\ pending' = [pending EXCEPT ![current[1].chat] = No]
          /\ result' = IF a # No /\ result[a] = No THEN [result EXCEPT ![a] = current[1].reply] ELSE result
    /\ NextReply
    /\ UNCHANGED <<outbound, running, early, shown, dropped, sessionVars,
                   service, http, session, locks, task, busy, object, historyWeb>>

AskReturns(a) == /\ LoopFree /\ task[a] = "reply" /\ result[a] # No
                 /\ task' = [task EXCEPT ![a] = "done"]
                 /\ pending' = [pending EXCEPT ![session[a]] = No]
                 /\ Release(a) /\ Finish(a, "reply")
                 /\ UNCHANGED <<busVars, sessionVars, service, session, result, busy, object, historyWeb>>

\* reply_timeout.  A timer runs after the callbacks that were ready before it,
\* so the dispatcher has had its chance; a turn of another user may use up the time.
ReplyTimesOut(a) == /\ LoopFree /\ task[a] = "reply"
                    /\ outbound = <<>> \/ dispatcher = "ended"
                    /\ task' = [task EXCEPT ![a] = "done"]
                    /\ pending' = [pending EXCEPT ![session[a]] = No]
                    /\ Release(a) /\ Finish(a, "error")
                    /\ UNCHANGED <<busVars, sessionVars, service, session, result, busy, object, historyWeb>>

DeleteInLoop(d) == /\ LoopFree /\ d \in Dels /\ task[d] = "lock" /\ Holds(d)
                   /\ Delete(session[d])
                   /\ removed' = removed \cup Remembered(session[d]) \cup Tells(Loaded(session[d]))
                   /\ task' = [task EXCEPT ![d] = "done"]
                   /\ Release(d) /\ Finish(d, "deleted")
                   /\ UNCHANGED <<busVars, service, session, pending, result, busy, object, raced>>

WebDispatch == /\ service = "up" /\ busy = No
               /\ DispatchBegin \/ DispatchTake \/ DispatchNotices
               /\ UNCHANGED <<sessionVars, webVars>>

---------------------------------------------------------------------------
\* Ctrl-C: the server asks the loop to stop the runtime and waits ten seconds;
\* then the process ends, whatever its daemon threads are doing.
WebStop == /\ service = "up" /\ running
           /\ Stop
           /\ UNCHANGED <<sessionVars, webVars>>

WebClosed == /\ service = "up" /\ ~running /\ dispatcher # "created"
             /\ service' = "none" /\ BusGone /\ cache' = <<>>
             /\ http' = [r \in Requests |-> IF http[r] \in {"idle", "reply", "deleted", "error"} THEN http[r] ELSE "error"]
             /\ locks' = [s \in SessionIds |-> <<>>] /\ task' = [r \in Requests |-> "none"]
             /\ pending' = [s \in SessionIds |-> No] /\ busy' = No /\ object' = <<>>
             /\ UNCHANGED <<stored, session, result, historyWeb>>

\* The event loop runs what is ready.
LoopStep == \/ \E r \in Requests : Enter(r) \/ BeginTurn(r) \/ DeleteInLoop(r)
            \/ \E a \in Asks : AskReturns(a) \/ ReplyTimesOut(a)
            \/ EndTurn \/ FailTurn \/ HandleOutbound \/ WebDispatch \/ StartRuntime

WebNext == \/ \E r \in Requests : EnsureStarted(r) \/ StartTimesOut(r) \/ Submit(r) \/ GivesUp(r)
           \/ \E d \in Dels : CheckRuntime(d) \/ DeleteDirect(d)
           \/ \E s \in SessionIds : OpenChild(s)
           \/ LoopStep \/ WebStop \/ WebClosed

---------------------------------------------------------------------------
WebTypeOK ==
    /\ service \in {"none", "starting", "up", "failed"}
    /\ http \in [Requests -> {"idle", "checked", "direct", "starting", "waiting", "reply", "deleted", "error"}]
    /\ task \in [Requests -> {"none", "queued", "lock", "reply", "done"}]
    /\ pending \in [SessionIds -> Asks \cup {No}] /\ result \in [Asks -> Asks \cup {No}]
    /\ busy \in Asks \cup {No}
    /\ Len(cache) <= MaxSessions /\ \A i, j \in DOMAIN cache : cache[i].id = cache[j].id => i = j

\* The reply a request is given is that of its own turn, though replies of one
\* chat only carry the chat's name, asks give up, and turns outlive them.
OwnReply == \A a \in Asks : http[a] = "reply" => result[a] = a

\* A turn whose reply the user has is in the session's stored messages, however
\* often the session was evicted and loaded since, or a deletion removed it.
AnsweredIsStored == \A a \in Asks : http[a] = "reply" => a \in Remembered(session[a]) \cup removed

\* What a user was told is the answer to the question, and the agent remembers it.
AnswersHold == OwnReply /\ AnsweredIsStored

\* What a deletion removed never comes back, unless the rows were deleted
\* behind the back of a runtime that was started meanwhile.
DeletedStaysDeleted == \A s \in SessionIds \ raced : Remembered(s) \cap removed = {}

\* While the process lives, every request that was put on the loop comes to an
\* end, so that the lock of its session is free again.
LocksAreFreed == \A s \in SessionIds : (locks[s] # <<>> /\ running) ~> (locks[s] = <<>> \/ ~running)
=============================================================================
