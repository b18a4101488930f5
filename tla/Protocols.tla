----------------------------- MODULE Protocols ------------------------------
(* Shutdown requests and plan reviews between the lead and its teammates.     *)
(* The tracker is in memory and guarded by a lock; a message is sent after    *)
(* the lock is released; inboxes are files, read whole and in order.          *)
EXTENDS Naturals, Sequences, SequencesExt

CONSTANTS Leads,         \* turns of the lead that run at the same time
          Mates,         \* teammates
          Ids,           \* request ids
          MaxVerdicts,   \* bound on the verdicts on one request
          ProcessStarts  \* bound on restarts of the process

VARIABLES tracked,    \* shutdown_requests and plan_requests, one map here
          inbox,      \* inboxes of the teammates, and of the lead
          caller,     \* what each thread is doing in the manager
          seen,       \* requests the lead, or a teammate, has been shown
          heard,      \* history: the last verdict each request's asker was shown
          life,       \* history: [starts, the process life each id was made in]
          blurred     \* history: requests two verdicts overlapped on, or whose message was not sent

protocolVars == <<tracked, inbox, caller, seen, heard, life, blurred>>

Threads == Leads \cup Mates
Unasked == [status |-> "none"]
Free == [step |-> "free"]
BoxOf(who) == IF who \in Mates THEN who ELSE "lead"

ProtocolsInit ==
    /\ tracked = [i \in Ids |-> Unasked]
    /\ inbox = [b \in Mates \cup {"lead"} |-> <<>>]
    /\ caller = [t \in Threads |-> Free] /\ seen = [b \in Mates \cup {"lead"} |-> {}]
    /\ heard = [i \in Ids |-> "pending"]
    /\ life = [starts |-> 0, of |-> [i \in Ids |-> 0]] /\ blurred = {}

---------------------------------------------------------------------------
(* Requests: a fresh id is recorded, then sent.  A teammate asks for a review *)
(* of its plan, the lead asks a teammate to shut down.                        *)

Unused == {i \in Ids : tracked[i] = Unasked /\ life.of[i] = 0}
Request(i, from, to) == [kind |-> "request", id |-> i, from |-> from, to |-> to]
Verdict(i, from, to, approve) == [kind |-> "verdict", id |-> i, from |-> from, to |-> to, approve |-> approve]

Record(t, i, to) ==
    /\ caller[t] = Free /\ i \in Unused
    /\ tracked' = [tracked EXCEPT ![i] = [status |-> "pending", asker |-> BoxOf(t), answerer |-> to, verdicts |-> 0]]
    /\ caller' = [caller EXCEPT ![t] = [step |-> "send", message |-> Request(i, BoxOf(t), to)]]
    /\ life' = [life EXCEPT !.of[i] = life.starts + 1]
    /\ UNCHANGED <<inbox, seen, heard, blurred>>

HandlePlanRequest(m, i) == m \in Mates /\ Record(m, i, "lead")
HandleShutdownRequest(l, i, m) == l \in Leads /\ Record(l, i, m)

---------------------------------------------------------------------------
(* Verdicts: on a plan by the lead, on a shutdown by the teammate.  Who was   *)
(* asked may answer again; what one turn of the lead read, the others may     *)
(* know.                                                                      *)

Deciding(i) == {t \in Threads : caller[t].step \in {"send", "return"} /\ caller[t].message.id = i}

\* An id of an earlier life of the process is unknown and changes nothing.
DecideUnknown(t, i) ==
    /\ caller[t] = Free /\ i \in seen[BoxOf(t)] /\ tracked[i] = Unasked
    /\ seen' = [seen EXCEPT ![BoxOf(t)] = @ \ {i}]
    /\ UNCHANGED <<tracked, inbox, caller, heard, life, blurred>>

MayAnswer(t, i) == i \in seen[BoxOf(t)] /\ tracked[i] # Unasked /\ tracked[i].answerer = BoxOf(t)

\* Mutant of Decide: a request that was refused is not approved any more, though the answer says so.
DecideOnce(t, i, approve) ==
    /\ caller[t] = Free /\ MayAnswer(t, i) /\ tracked[i].verdicts < MaxVerdicts
    /\ tracked' = [tracked EXCEPT ![i].status = CASE @ # "pending" -> @
                                                  [] approve -> "approved"
                                                  [] OTHER -> "refused",
                                  ![i].verdicts = @ + 1]
    /\ caller' = [caller EXCEPT ![t] =
           [step |-> "send", message |-> Verdict(i, BoxOf(t), tracked[i].asker, approve)]]
    /\ blurred' = IF Deciding(i) = {} THEN blurred ELSE blurred \cup {i}
    /\ UNCHANGED <<inbox, seen, heard, life>>

Decide(t, i, approve) ==
    /\ caller[t] = Free /\ MayAnswer(t, i) /\ tracked[i].verdicts < MaxVerdicts
    /\ tracked' = [tracked EXCEPT ![i].status = IF approve THEN "approved" ELSE "refused",
                                  ![i].verdicts = @ + 1]
    /\ caller' = [caller EXCEPT ![t] =
           [step |-> "send", message |-> Verdict(i, BoxOf(t), tracked[i].asker, approve)]]
    /\ blurred' = IF Deciding(i) = {} THEN blurred ELSE blurred \cup {i}
    /\ UNCHANGED <<inbox, seen, heard, life>>

---------------------------------------------------------------------------
(* Sending; the answer to a review quotes the status at that time.            *)

Send(t) ==
    /\ caller[t].step = "send"
    /\ LET m == caller[t].message
       IN /\ inbox' = [inbox EXCEPT ![m.to] = Append(@, m)]
          /\ caller' = [caller EXCEPT ![t] = IF m.kind = "request" THEN Free ELSE [@ EXCEPT !.step = "return"]]
    /\ UNCHANGED <<tracked, seen, heard, life, blurred>>

\* The tool's error goes to the model; what was recorded stays.
SendRaises(t) ==
    /\ caller[t].step = "send"
    /\ caller' = [caller EXCEPT ![t] = Free]
    /\ blurred' = blurred \cup {caller[t].message.id}
    /\ UNCHANGED <<tracked, inbox, seen, heard, life>>

ReturnVerdict(t) ==
    /\ caller[t].step = "return"
    /\ caller' = [caller EXCEPT ![t] = Free]
    /\ UNCHANGED <<tracked, inbox, seen, heard, life, blurred>>

\* Who reads these messages believes the last verdict in them, or what was said before.
LastHeard(messages, i, before) ==
    LET on == {k \in DOMAIN messages : messages[k].kind = "verdict" /\ messages[k].id = i}
    IN IF on = {} THEN before
       ELSE IF \E k \in on : messages[k].approve /\ \A l \in on : l <= k THEN "approved" ELSE "refused"

\* Status of a shutdown, from the tracker: it changes nothing.  An inbox is read whole.
ReadInbox(t) ==
    /\ caller[t] = Free /\ inbox[BoxOf(t)] # <<>>
    /\ LET messages == inbox[BoxOf(t)]
       IN /\ seen' = [seen EXCEPT ![BoxOf(t)] = @ \cup {m.id : m \in {n \in ToSet(messages) : n.kind = "request"}}]
          /\ heard' = [i \in Ids |-> LastHeard(messages, i, heard[i])]
    /\ inbox' = [inbox EXCEPT ![BoxOf(t)] = <<>>]
    /\ UNCHANGED <<tracked, caller, life, blurred>>

\* The tracker and the threads go with the process, the inboxes stay.
Restart ==
    /\ life.starts < ProcessStarts
    /\ life' = [life EXCEPT !.starts = @ + 1]
    /\ tracked' = [i \in Ids |-> Unasked] /\ caller' = [t \in Threads |-> Free]
    /\ seen' = [b \in DOMAIN seen |-> {}]
    /\ UNCHANGED <<inbox, heard, blurred>>

ProtocolsNext ==
    \/ \E t \in Threads : Send(t) \/ SendRaises(t) \/ ReturnVerdict(t) \/ ReadInbox(t)
    \/ \E i \in Ids : \/ \E m \in Mates : HandlePlanRequest(m, i)
                      \/ \E l \in Leads, m \in Mates : HandleShutdownRequest(l, i, m)
                      \/ \E t \in Threads : DecideUnknown(t, i) \/ \E approve \in BOOLEAN : Decide(t, i, approve)
    \/ Restart

---------------------------------------------------------------------------
OfThisLife(i) == life.of[i] = life.starts + 1
Told(i) == LastHeard(inbox[tracked[i].asker], i, heard[i])

\* A request of this life that has reached an inbox is on record, so that its answer
\* is never "no such request"; and once its verdicts are sent, the last one the asker
\* was or will be shown is the recorded status, unless two were given at the same time.
VerdictsAreTold ==
    /\ \A b \in DOMAIN inbox : \A m \in ToSet(inbox[b]) : OfThisLife(m.id) => tracked[m.id] # Unasked
    /\ \A i \in Ids : OfThisLife(i) /\ Deciding(i) = {} /\ i \notin blurred => Told(i) = tracked[i].status
=============================================================================
