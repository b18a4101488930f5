---------------------------- MODULE ReliableBus ----------------------------
(***************************************************************************)
(* ReliableMessageBus of bus/reliable.py: request, respond, notify_arrival.*)
(*                                                                         *)
(* request runs on the thread of the agent that asks; notify_arrival on    *)
(* any thread that has read the response out of the asker's inbox.  They   *)
(* share the dicts _pending and _responses under one lock; the wait, the   *)
(* timeout and event.set() happen outside it.  Each critical section is    *)
(* one step.                                                               *)
(*                                                                         *)
(* The inbox below it (module TeamInbox) may lose a response, or hand it   *)
(* to two readers that both notify: a response stays on the wire after a   *)
(* delivery until Drop removes it.                                         *)
(***************************************************************************)
CONSTANTS
    Ids,        \* ids of the request messages
    Answers,    \* response messages
    Corr,       \* Corr[v]: the correlation_id of response v
    Notifiers,  \* threads that call notify_arrival
    NoAnswer    \* Python's None

ASSUME ReliableAssumption ==
    /\ Corr \in [Answers -> Ids]
    /\ NoAnswer \notin Answers

VARIABLES
    call,       \* call[i]: where the request with id i is
    result,     \* result[i]: what request returned
    pending,    \* ids that have an event in _pending
    flag,       \* flag[i]: the event of i is set
    responses,  \* responses[i]: the entry of _responses, or NoAnswer
    wire,       \* responses that sit in the asker's inbox
    responded,  \* responses sent so far
    npc,        \* npc[n]: "idle", or "set": notify_arrival holds an event to set
    nid,        \* nid[n]: the id of that event
    unasked     \* history: ids that were notified while not pending

vars == <<call, result, pending, flag, responses, wire, responded, npc, nid, unasked>>

-----------------------------------------------------------------------------
Calls == {"new", "registered", "waiting", "timedOut", "woken", "done", "plain"}

Init ==
    /\ call = [i \in Ids |-> "new"]
    /\ result = [i \in Ids |-> NoAnswer]
    /\ pending = {}
    /\ flag = [i \in Ids |-> FALSE]
    /\ responses = [i \in Ids |-> NoAnswer]
    /\ wire = {}
    /\ responded = {}
    /\ npc = [n \in Notifiers |-> "idle"]
    /\ nid \in [Notifiers -> Ids]
    /\ unasked = {}

Goto(i, l) == call' = [call EXCEPT ![i] = l]

-----------------------------------------------------------------------------
\* request: put a fresh event into _pending under the lock ...
Register(i) ==
    /\ call[i] = "new"
    /\ pending' = pending \cup {i}
    /\ Goto(i, "registered")
    /\ UNCHANGED <<result, flag, responses, wire, responded, npc, nid, unasked>>

\* ... send the message (only now can anybody answer it) ...
SendRequest(i) ==
    /\ call[i] = "registered"
    /\ Goto(i, "waiting")
    /\ UNCHANGED <<result, pending, flag, responses, wire, responded, npc, nid, unasked>>

\* ... event.wait(timeout) returns True once the event is set ...
Wake(i) ==
    /\ call[i] = "waiting"
    /\ flag[i]
    /\ Goto(i, "woken")
    /\ UNCHANGED <<result, pending, flag, responses, wire, responded, npc, nid, unasked>>

\* Mutant of Timeout: event.wait() without a timeout never gives up.
TimeoutNever(i) == FALSE /\ UNCHANGED vars

\* ... or False after the timeout, if it is not ...
Timeout(i) ==
    /\ call[i] = "waiting"
    /\ ~flag[i]
    /\ Goto(i, "timedOut")
    /\ UNCHANGED <<result, pending, flag, responses, wire, responded, npc, nid, unasked>>

\* Mutant of ReturnNone: the event is not withdrawn.
ReturnNoneKeeps(i) ==
    /\ call[i] = "timedOut"
    /\ Goto(i, "done")
    /\ UNCHANGED <<result, pending, flag, responses, wire, responded, npc, nid, unasked>>

\* ... then the event is withdrawn and request returns None ...
ReturnNone(i) ==
    /\ call[i] = "timedOut"
    /\ pending' = pending \ {i}
    /\ Goto(i, "done")
    /\ UNCHANGED <<result, flag, responses, wire, responded, npc, nid, unasked>>

\* ... and a woken request pops its response and returns it.
ReturnResponse(i) ==
    /\ call[i] = "woken"
    /\ result' = [result EXCEPT ![i] = responses[i]]
    /\ responses' = [responses EXCEPT ![i] = NoAnswer]
    /\ Goto(i, "done")
    /\ UNCHANGED <<pending, flag, wire, responded, npc, nid, unasked>>

\* send without request: the plan and shutdown requests of ProtocolManager.
SendPlain(i) ==
    /\ call[i] = "new"
    /\ Goto(i, "plain")
    /\ UNCHANGED <<result, pending, flag, responses, wire, responded, npc, nid, unasked>>

-----------------------------------------------------------------------------
\* respond: the recipient of a request that was sent answers it.
Respond(v) ==
    /\ call[Corr[v]] \notin {"new", "registered"}
    /\ v \notin responded
    /\ wire' = wire \cup {v}
    /\ responded' = responded \cup {v}
    /\ UNCHANGED <<call, result, pending, flag, responses, npc, nid, unasked>>

\* The last reader of the inbox has the response, or the inbox lost it.
Drop(v) ==
    /\ v \in wire
    /\ wire' = wire \ {v}
    /\ UNCHANGED <<call, result, pending, flag, responses, responded, npc, nid, unasked>>

\* Mutant of NotifyStore: the response replaces all that are stored.
NotifyStoreAll(n, v) ==
    /\ npc[n] = "idle"
    /\ v \in wire
    /\ responses' = [i \in Ids |-> IF i = Corr[v] \/ responses[i] # NoAnswer THEN v ELSE NoAnswer]
    /\ pending' = pending \ {Corr[v]}
    /\ IF Corr[v] \in pending
       THEN /\ npc' = [npc EXCEPT ![n] = "set"]
            /\ nid' = [nid EXCEPT ![n] = Corr[v]]
            /\ UNCHANGED unasked
       ELSE unasked' = unasked \cup {Corr[v]} /\ UNCHANGED <<npc, nid>>
    /\ UNCHANGED <<call, result, flag, wire, responded>>

\* notify_arrival, under the lock: store the response, take the event out.
NotifyStore(n, v) ==
    /\ npc[n] = "idle"
    /\ v \in wire
    /\ responses' = [responses EXCEPT ![Corr[v]] = v]
    /\ pending' = pending \ {Corr[v]}
    /\ \/ /\ Corr[v] \in pending
          /\ npc' = [npc EXCEPT ![n] = "set"]
          /\ nid' = [nid EXCEPT ![n] = Corr[v]]
          /\ UNCHANGED unasked
       \/ /\ Corr[v] \notin pending
          /\ unasked' = unasked \cup {Corr[v]}
          /\ UNCHANGED <<npc, nid>>
    /\ UNCHANGED <<call, result, flag, wire, responded>>

\* notify_arrival, after the lock: event.set().
NotifySet(n) ==
    /\ npc[n] = "set"
    /\ flag' = [flag EXCEPT ![nid[n]] = TRUE]
    /\ npc' = [npc EXCEPT ![n] = "idle"]
    /\ UNCHANGED <<call, result, pending, responses, wire, responded, nid, unasked>>

-----------------------------------------------------------------------------
\* The steps of the thread that called request.
Requester(i) ==
    \/ Register(i) \/ SendRequest(i) \/ Wake(i) \/ Timeout(i)
    \/ ReturnNone(i) \/ ReturnResponse(i)

Next ==
    \/ \E i \in Ids : Requester(i) \/ SendPlain(i)
    \/ \E v \in Answers : Respond(v) \/ Drop(v)
    \/ \E n \in Notifiers : NotifySet(n) \/ \E v \in Answers : NotifyStore(n, v)

Spec == Init /\ [][Next]_vars

\* A started request keeps running: wait has a timeout, so it always returns.
\* Nothing is assumed of the thread that answers or of the one that reads.
Fairness ==
    \A i \in Ids : WF_vars(SendRequest(i) \/ Wake(i) \/ Timeout(i)
                           \/ ReturnNone(i) \/ ReturnResponse(i))

FairSpec == Spec /\ Fairness

-----------------------------------------------------------------------------
TypeOK ==
    /\ call \in [Ids -> Calls]
    /\ result \in [Ids -> Answers \cup {NoAnswer}]
    /\ pending \in SUBSET Ids
    /\ flag \in [Ids -> BOOLEAN]
    /\ responses \in [Ids -> Answers \cup {NoAnswer}]
    /\ wire \in SUBSET Answers
    /\ responded \in SUBSET Answers
    /\ npc \in [Notifiers -> {"idle", "set"}]
    /\ nid \in [Notifiers -> Ids]
    /\ unasked \in SUBSET Ids

\* A request whose wait was ended by its event has a response to return: the
\* pop after the wait never misses, although two threads may notify.
WokenHasResponse == \A i \in Ids : call[i] = "woken" => responses[i] # NoAnswer

\* A request that is still waiting, whose event was taken out of _pending, is
\* woken by the thread that took it.
NoLostWakeup ==
    \A i \in Ids : call[i] = "waiting" /\ i \notin pending /\ ~flag[i] =>
        \E n \in Notifiers : npc[n] = "set" /\ nid[n] = i

\* Nothing of a finished request stays behind, unless it timed out or somebody
\* notified a response it was not waiting for: a second one, or a late one.
NothingLeftBehind ==
    \A i \in Ids : call[i] = "done" =>
        /\ i \notin pending
        /\ responses[i] # NoAnswer => result[i] = NoAnswer \/ i \in unasked

\* A request that has started returns, whatever becomes of its responses.
RequestReturns == \A i \in Ids : call[i] = "registered" ~> call[i] = "done"

-----------------------------------------------------------------------------
\* The request as its caller sees it.
Seen(l) == CASE l \in {"new", "registered"} -> "new"
             [] l = "done" -> "closed"
             [] OTHER -> "open"

stateBar == [i \in Ids |-> Seen(call[i])]

Abstract == INSTANCE RequestReply WITH state <- stateBar, replied <- responded

\* The bus implements request-reply: one result per request, and a result is a
\* response that was sent to that request.
ImplementsRequestReply == Abstract!Spec
=============================================================================
