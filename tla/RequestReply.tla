---------------------------- MODULE RequestReply ----------------------------
(***************************************************************************)
(* What ReliableMessageBus promises its callers, without threads, locks or *)
(* events: a request that is open is closed once, with one of the replies  *)
(* that were sent to it or with none (a timeout).                          *)
(***************************************************************************)
CONSTANTS
    Ids,       \* request ids
    Answers,   \* reply messages
    Corr,      \* Corr[v]: the correlation_id of reply v
    NoAnswer   \* the None a timed out request returns

VARIABLES
    state,     \* state[i]: "new", "open" or "closed"
    result,    \* result[i]: what the request returned
    replied    \* the replies sent so far

vars == <<state, result, replied>>

Init ==
    /\ state = [i \in Ids |-> "new"]
    /\ result = [i \in Ids |-> NoAnswer]
    /\ replied = {}

Ask(i) ==
    /\ state[i] = "new"
    /\ state' = [state EXCEPT ![i] = "open"]
    /\ UNCHANGED <<result, replied>>

Reply(v) ==
    /\ state[Corr[v]] # "new"
    /\ replied' = replied \cup {v}
    /\ UNCHANGED <<state, result>>

\* The request returns; a reply it returns was sent to it.
Close(i, v) ==
    /\ state[i] = "open"
    /\ v # NoAnswer => v \in replied /\ Corr[v] = i
    /\ state' = [state EXCEPT ![i] = "closed"]
    /\ result' = [result EXCEPT ![i] = v]
    /\ UNCHANGED replied

Next ==
    \/ \E i \in Ids : Ask(i) \/ \E v \in Answers \cup {NoAnswer} : Close(i, v)
    \/ \E v \in Answers : Reply(v)

Spec == Init /\ [][Next]_vars
=============================================================================
