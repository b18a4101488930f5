----------------------------- MODULE TeamProofs -----------------------------
(***************************************************************************)
(* Proofs about the team: the inboxes (TeamInbox), for any agents, any     *)
(* number of readers per inbox and any number of messages; the             *)
(* request/response bus over them (ReliableBus), for any requests, any     *)
(* number of responses to each of them and any number of threads that      *)
(* notify; and the teammates (Teammates), for any members, threads, tasks  *)
(* and number of polls, and for any files that an earlier process left.    *)
(***************************************************************************)
EXTENDS TeamInbox, ReliableBus, Teammates, TLAPS

-----------------------------------------------------------------------------
(* The inboxes *)

\* What a pending read_inbox has not parsed was appended in its window.
WindowInv ==
    \A r \in Readers : pc[r] = "truncate" =>
        \A m \in inbox[InboxOf[r]] : m \in got[r] \/ m \in windowed

\* A file only holds messages younger than those its readers were given.
YoungerInv ==
    \A r \in Readers :
        \A old \in delivered[r] : old <= last /\ \A m \in inbox[InboxOf[r]] : old < m

\* Messages only reach readers of the inbox they were sent to.
NoStrayDelivery ==
    \A r \in Readers : \A m \in got[r] \cup delivered[r] :
        m \in Sent /\ sentTo[m] = InboxOf[r]

\* A message in a file or in a call was sent to that file's owner.
OriginInv ==
    /\ \A n \in Names : \A m \in inbox[n] : m \in Sent /\ sentTo[m] = n
    /\ NoStrayDelivery

InboxInv == InboxTypeOK /\ WindowInv /\ YoungerInv /\ OriginInv /\ LossOnlyInWindow /\ ForwardOnly

LEMMA InboxStart == InboxInit => InboxInv
  BY InboxAssumption
  DEF InboxInit, InboxInv, InboxTypeOK, Sent, WindowInv, YoungerInv, OriginInv, NoStrayDelivery,
      LossOnlyInWindow, ForwardOnly

\* One append keeps the invariant, whatever the senders' broadcasts do.
LEMMA AppendStep ==
    ASSUME InboxInv, NEW n \in Names, Append(n), UNCHANGED <<pc, got, delivered>>,
           todo' \in [Senders -> SUBSET Names]
    PROVE  InboxInv'
<1> USE InboxAssumption DEF Append, InboxInv, InboxTypeOK, MsgIds, Sent
<1>1. InboxTypeOK'
  OBVIOUS
<1>2. WindowInv'
  BY DEF WindowInv, InWindow
<1>3. YoungerInv'
  BY DEF YoungerInv
<1>4. OriginInv'
  BY DEF OriginInv, NoStrayDelivery
<1>5. LossOnlyInWindow'
  BY DEF LossOnlyInWindow, Kept
<1>6. ForwardOnly'
  BY DEF ForwardOnly
<1> QED BY <1>1, <1>2, <1>3, <1>4, <1>5, <1>6

LEMMA InboxStep == InboxInv /\ [InboxNext]_inboxVars => InboxInv'
<1> SUFFICES ASSUME InboxInv, [InboxNext]_inboxVars PROVE InboxInv'
  OBVIOUS
<1> USE InboxAssumption DEF InboxInv, InboxTypeOK
<1>1. ASSUME NEW s \in Senders, NEW n \in Names, Send(s, n) \/ BroadcastSend(s, n)
      PROVE  InboxInv'
  BY <1>1, AppendStep DEF Send, BroadcastSend
<1>2. ASSUME NEW s \in Senders, Broadcast(s) PROVE InboxInv'
  BY <1>2 DEF Broadcast, WindowInv, YoungerInv, OriginInv, NoStrayDelivery,
              LossOnlyInWindow, ForwardOnly, Kept, Sent
<1>3. ASSUME NEW r \in Readers, ReadText(r) PROVE InboxInv'
  BY <1>3 DEF ReadText, WindowInv, YoungerInv, OriginInv, NoStrayDelivery,
              LossOnlyInWindow, ForwardOnly, Kept, Sent
<1>4. ASSUME NEW r \in Readers, TruncateReturn(r) PROVE InboxInv'
  <2> USE <1>4 DEF TruncateReturn
  <2>1. InboxTypeOK'
    BY DEF Sent
  <2>5. WindowInv'
    BY DEF WindowInv
  <2>6. ForwardOnly'
    BY DEF ForwardOnly
  <2>2. YoungerInv'
    BY DEF YoungerInv, OriginInv, NoStrayDelivery, Sent
  <2>3. OriginInv'
    BY DEF OriginInv, NoStrayDelivery, Sent
  <2>4. LossOnlyInWindow'
    <3> SUFFICES ASSUME NEW m \in Sent, m \notin windowed
                 PROVE  Kept(m, sentTo[m])'
      BY DEF LossOnlyInWindow, Sent
    <3>1. CASE sentTo[m] = InboxOf[r] /\ m \in inbox[InboxOf[r]]
      <4>1. m \in got[r]
        BY <3>1 DEF WindowInv
      <4> QED BY <3>1, <4>1 DEF Kept
    <3>2. CASE ~(sentTo[m] = InboxOf[r] /\ m \in inbox[InboxOf[r]])
      BY <3>2 DEF LossOnlyInWindow, Kept, Sent
    <3> QED BY <3>1, <3>2
  <2> QED BY <2>1, <2>2, <2>3, <2>4, <2>5, <2>6
<1>5. CASE Restart
  BY <1>5 DEF Restart, WindowInv, YoungerInv, OriginInv, NoStrayDelivery,
              LossOnlyInWindow, ForwardOnly, Kept, Sent
<1>6. CASE UNCHANGED inboxVars
  BY <1>6 DEF inboxVars, WindowInv, YoungerInv, OriginInv, NoStrayDelivery,
              LossOnlyInWindow, ForwardOnly, Kept, Sent
<1> QED BY <1>1, <1>2, <1>3, <1>4, <1>5, <1>6 DEF InboxNext

LEMMA InboxInvariant == InboxSpec => []InboxInv
  BY InboxStart, InboxStep, PTL DEF InboxSpec

\* An inbox only loses a message that was appended inside the window of a
\* read_inbox call; this holds with any number of readers and across restarts.
THEOREM InboxLosesOnlyInWindow == InboxSpec => []LossOnlyInWindow
<1>1. InboxInv => LossOnlyInWindow
  BY DEF InboxInv
<1> QED BY <1>1, InboxInvariant, PTL

\* No thread gets a message twice or out of order.
THEOREM InboxForwardOnly == InboxSpec => []ForwardOnly
<1>1. InboxInv => ForwardOnly
  BY DEF InboxInv
<1> QED BY <1>1, InboxInvariant, PTL

\* What is returned to a reader of an inbox was sent to that inbox.
THEOREM InboxDeliversNoStray == InboxSpec => []NoStrayDelivery
<1>1. InboxInv => NoStrayDelivery
  BY DEF InboxInv, OriginInv
<1> QED BY <1>1, InboxInvariant, PTL

-----------------------------------------------------------------------------
(* The bus *)

\* The event of request i has left _pending and is set, or about to be.
Taken(i) == flag[i] \/ \E n \in Notifiers : npc[n] = "set" /\ nid[n] = i

\* An event is in _pending from the registration until it is taken or withdrawn.
EventInv ==
    \A i \in Ids :
        /\ i \in pending => call[i] \in {"registered", "waiting", "timedOut"} /\ ~Taken(i)
        /\ call[i] \in {"registered", "waiting", "timedOut"} /\ i \notin pending => Taken(i)
        /\ call[i] \in {"new", "plain"} => ~Taken(i)
        /\ call[i] = "woken" => flag[i]

\* Whoever takes an event has stored a response, which stays until it is popped.
ResponseInv ==
    \A i \in Ids :
        /\ Taken(i) /\ call[i] # "done" => responses[i] # NoAnswer
        /\ call[i] # "done" => result[i] = NoAnswer

\* Stored responses answer the request they are stored for, which was sent.
CorrInv ==
    /\ wire \subseteq responded
    /\ \A v \in responded : call[Corr[v]] \notin {"new", "registered"}
    /\ \A i \in Ids : responses[i] # NoAnswer =>
          responses[i] \in responded /\ Corr[responses[i]] = i

IInv == TypeOK /\ EventInv /\ ResponseInv /\ CorrInv /\ NothingLeftBehind

-----------------------------------------------------------------------------
LEMMA InitIInv == Init => IInv
  BY ReliableAssumption
  DEF Init, IInv, TypeOK, Calls, EventInv, Taken, ResponseInv, CorrInv, NothingLeftBehind

LEMMA NextIInv == IInv /\ [Next]_vars => IInv'
<1> SUFFICES ASSUME IInv, [Next]_vars PROVE IInv'
  OBVIOUS
<1> USE ReliableAssumption DEF IInv, TypeOK, Calls
<1>1. ASSUME NEW i \in Ids, Requester(i) \/ SendPlain(i) PROVE IInv'
  <2> USE DEF EventInv, Taken, ResponseInv, CorrInv, NothingLeftBehind, Goto
  <2>1. CASE Register(i)
    BY <2>1 DEF Register
  <2>2. CASE SendRequest(i)
    BY <2>2 DEF SendRequest
  <2>3. CASE Wake(i)
    BY <2>3 DEF Wake
  <2>4. CASE Timeout(i)
    BY <2>4 DEF Timeout
  <2>5. CASE ReturnNone(i)
    BY <2>5 DEF ReturnNone
  <2>6. CASE ReturnResponse(i)
    BY <2>6 DEF ReturnResponse
  <2>7. CASE SendPlain(i)
    BY <2>7 DEF SendPlain
  <2> QED BY <1>1, <2>1, <2>2, <2>3, <2>4, <2>5, <2>6, <2>7 DEF Requester
<1>2. ASSUME NEW v \in Answers, Respond(v) \/ Drop(v) PROVE IInv'
  BY <1>2 DEF Respond, Drop, EventInv, Taken, ResponseInv, CorrInv, NothingLeftBehind
<1>3. ASSUME NEW n \in Notifiers, NEW v \in Answers, NotifyStore(n, v) PROVE IInv'
  <2>1. TypeOK'
    BY <1>3 DEF NotifyStore
  <2>2. CorrInv'
    BY <1>3 DEF NotifyStore, CorrInv
  <2>3. CASE Corr[v] \in pending
    <3>1. EventInv'
      BY <1>3, <2>3 DEF NotifyStore, EventInv, Taken
    <3>2. ResponseInv'
      BY <1>3, <2>3 DEF NotifyStore, ResponseInv, Taken
    <3>3. NothingLeftBehind'
      BY <1>3, <2>3 DEF NotifyStore, NothingLeftBehind
    <3> QED BY <2>1, <2>2, <3>1, <3>2, <3>3
  <2>4. CASE Corr[v] \notin pending
    BY <1>3, <2>1, <2>2, <2>4
    DEF NotifyStore, EventInv, Taken, ResponseInv, NothingLeftBehind
  <2> QED BY <2>3, <2>4
<1>4. ASSUME NEW n \in Notifiers, NotifySet(n) PROVE IInv'
  <2>1. \A i \in Ids : Taken(i)' <=> Taken(i)
    BY <1>4 DEF NotifySet, Taken
  <2> QED BY <1>4, <2>1 DEF NotifySet, EventInv, ResponseInv, CorrInv, NothingLeftBehind
<1>5. CASE UNCHANGED vars
  BY <1>5 DEF vars, EventInv, Taken, ResponseInv, CorrInv, NothingLeftBehind
<1> QED BY <1>1, <1>2, <1>3, <1>4, <1>5 DEF Next

LEMMA BusInvariant == Spec => []IInv
  BY InitIInv, NextIInv, PTL DEF Spec

-----------------------------------------------------------------------------
\* A woken request always finds its response.
THEOREM ResponseIsThere == Spec => []WokenHasResponse
<1>1. IInv => WokenHasResponse
  BY DEF IInv, TypeOK, EventInv, ResponseInv, Taken, WokenHasResponse
<1> QED BY <1>1, BusInvariant, PTL

\* No wakeup is lost between the dict and the event.
THEOREM WakeupIsNotLost == Spec => []NoLostWakeup
<1>1. IInv => NoLostWakeup
  BY DEF IInv, EventInv, Taken, NoLostWakeup
<1> QED BY <1>1, BusInvariant, PTL

\* The dicts only keep what belongs to late, extra or timed out exchanges.
THEOREM NothingIsLeftBehind == Spec => []NothingLeftBehind
<1>1. IInv => NothingLeftBehind
  BY DEF IInv
<1> QED BY <1>1, BusInvariant, PTL

-----------------------------------------------------------------------------
\* Every step of the bus is a step of the abstract request-reply or none.
LEMMA StepRefines == IInv /\ IInv' /\ [Next]_vars => [Abstract!Next]_(Abstract!vars)
<1> SUFFICES ASSUME IInv, IInv', [Next]_vars
             PROVE  Abstract!Next \/ UNCHANGED <<stateBar, result, responded>>
  BY DEF Abstract!vars
<1> USE ReliableAssumption DEF IInv, TypeOK, Calls
<1>1. ASSUME NEW i \in Ids, NEW l \in Calls, Goto(i, l)
      PROVE  stateBar' = [stateBar EXCEPT ![i] = Seen(l)]
  BY <1>1 DEF stateBar, Goto
<1>0. ASSUME NEW i \in Ids, NEW l \in Calls, Goto(i, l), Seen(l) = Seen(call[i])
      PROVE  stateBar' = stateBar
  <2>1. \A k \in Ids : call'[k] = IF k = i THEN l ELSE call[k]
    BY <1>0 DEF Goto
  <2>2. \A k \in Ids : Seen(call'[k]) = Seen(call[k])
    BY <1>0, <2>1
  <2> QED BY <2>2, Zenon DEF stateBar
<1>2. ASSUME NEW i \in Ids, SendRequest(i) \/ SendPlain(i) PROVE Abstract!Ask(i)
  <2>1. stateBar' = [stateBar EXCEPT ![i] = "open"]
    BY <1>2, <1>1 DEF SendRequest, SendPlain, Seen
  <2>2. stateBar[i] = "new"
    BY <1>2 DEF SendRequest, SendPlain, stateBar, Seen
  <2> QED BY <1>2, <2>1, <2>2 DEF SendRequest, SendPlain, Abstract!Ask
<1>3. ASSUME NEW i \in Ids, ReturnNone(i) PROVE Abstract!Close(i, NoAnswer)
  <2>1. result' = [result EXCEPT ![i] = NoAnswer]
    BY <1>3 DEF ReturnNone, ResponseInv
  <2>2. stateBar' = [stateBar EXCEPT ![i] = "closed"]
    BY <1>3, <1>1 DEF ReturnNone, Seen
  <2>3. stateBar[i] = "open"
    BY <1>3 DEF ReturnNone, stateBar, Seen
  <2> QED BY <1>3, <2>1, <2>2, <2>3 DEF ReturnNone, Abstract!Close
<1>4. ASSUME NEW i \in Ids, ReturnResponse(i) PROVE Abstract!Close(i, responses[i])
  <2>1. stateBar' = [stateBar EXCEPT ![i] = "closed"]
    BY <1>4, <1>1 DEF ReturnResponse, Seen
  <2>2. stateBar[i] = "open"
    BY <1>4 DEF ReturnResponse, stateBar, Seen
  <2> QED BY <1>4, <2>1, <2>2 DEF ReturnResponse, CorrInv, Abstract!Close
<1>5. ASSUME NEW i \in Ids, Register(i) \/ Wake(i) \/ Timeout(i)
      PROVE  UNCHANGED <<stateBar, result, responded>>
  BY <1>5, <1>0 DEF Register, Wake, Timeout, Seen
<1>6. ASSUME NEW v \in Answers, Respond(v) PROVE Abstract!Reply(v)
  BY <1>6 DEF Respond, stateBar, Seen, CorrInv, Abstract!Reply
<1>7. ASSUME NEW v \in Answers, Drop(v) \/ \E n \in Notifiers : NotifyStore(n, v)
      PROVE  UNCHANGED <<stateBar, result, responded>>
  BY <1>7 DEF Drop, NotifyStore, stateBar
<1>8. ASSUME NEW n \in Notifiers, NotifySet(n)
      PROVE  UNCHANGED <<stateBar, result, responded>>
  BY <1>8 DEF NotifySet, stateBar
<1>9. CASE UNCHANGED vars
  BY <1>9 DEF vars, stateBar
<1> QED
  BY <1>2, <1>3, <1>4, <1>5, <1>6, <1>7, <1>8, <1>9 DEF Next, Requester, Abstract!Next

\* The bus implements the abstract request-reply service.
THEOREM Refinement == Spec => ImplementsRequestReply
<1>1. Init => Abstract!Init
  BY DEF Init, stateBar, Seen, Abstract!Init
<1> QED BY <1>1, StepRefines, BusInvariant, PTL DEF Spec, ImplementsRequestReply, Abstract!Spec

-----------------------------------------------------------------------------
(* The teammates *)

\* A thread has a name once it is started, and a named member has a status.
NamesInv ==
    \A k \in Threads : /\ place[k] # "new" => name[k] \in Members
                       /\ name[k] \in Members => status[name[k]] # "none"

\* Between a poll's inbox and its end there is a poll left to count.
PollsInv == \A k \in Threads : place[k] \in {"scan", "claim"} => polls[k] > 0

TeamInv == TeamTypeOK /\ NamesInv /\ PollsInv /\ StatusIsTrue

-----------------------------------------------------------------------------
LEMMA TeamStart == TeamInit => TeamInv
  BY TeamAssumption DEF TeamInit, TeamInv, TeamTypeOK, Statuses, PCs, NamesInv, PollsInv, StatusIsTrue,
     ErrorIsHeard, WorkingIsAlive, OneThread, ShutdownMeansDead, Live

\* What a thread does as it ends, or changes between working and idling: its own
\* place and its member's status.
LEMMA ThreadStep ==
    ASSUME TeamInv, NEW k \in Threads, NEW s \in Statuses \ {"none"}, NEW l \in PCs \ {"new"},
           Live(k), SetStatus(name[k], s), GoesTo(k, l), UNCHANGED <<name, over>>,
           s = "error" => lead' = lead \cup {name[k]}, s # "error" => lead' = lead,
           s = "working" => l = "start",
           s = "shutdown" => l = "dead"
    PROVE  NamesInv' /\ StatusIsTrue'
<1> DEFINE m == name[k]
<1> USE DEF TeamInv, TeamTypeOK, SetStatus, GoesTo, PCs, Statuses
<1>0. m \in Members
  BY DEF NamesInv, Live
<1>1. /\ \A j \in Threads : place'[j] = IF j = k THEN l ELSE place[j]
      /\ \A n \in Members : status'[n] = IF n = m THEN s ELSE status[n]
  BY <1>0
<1>2. NamesInv'
  BY <1>0, <1>1 DEF NamesInv
<1>3. ErrorIsHeard'
  BY <1>0, <1>1 DEF StatusIsTrue, ErrorIsHeard
<1>4. WorkingIsAlive'
  BY <1>0, <1>1 DEF StatusIsTrue, WorkingIsAlive, InCycle
<1>5. \A j \in Threads : Live(j)' => Live(j)
  BY <1>1 DEF Live
<1>6. OneThread'
  BY <1>5 DEF StatusIsTrue, OneThread
<1>7. ShutdownMeansDead'
  <2> SUFFICES ASSUME NEW n \in Members, status'[n] = "shutdown", n \notin over,
                      NEW j \in Threads, name[j] = n
               PROVE  ~Live(j)'
    BY DEF ShutdownMeansDead
  <2>1. CASE n = m /\ j = k
    BY <2>1, <1>0, <1>1 DEF Live
  <2>2. CASE n = m /\ j # k
    BY <2>2, <1>5 DEF StatusIsTrue, OneThread
  <2>3. CASE n # m
    BY <2>3, <1>0, <1>1, <1>5 DEF StatusIsTrue, ShutdownMeansDead
  <2> QED BY <2>1, <2>2, <2>3
<1> QED BY <1>2, <1>3, <1>4, <1>6, <1>7 DEF StatusIsTrue

\* A step within a phase: no status changes, and no thread begins or leaves a cycle
\* but by its end.
LEMMA QuietStep ==
    ASSUME TeamInv, UNCHANGED <<status, name, lead, over>>, TeamTypeOK',
           \A j \in Threads : /\ place'[j] = "new" <=> place[j] = "new"
                              /\ Live(j)' => Live(j)
                              /\ InCycle(j) => InCycle(j)'
    PROVE  NamesInv' /\ StatusIsTrue'
  BY DEF TeamInv, NamesInv, StatusIsTrue, ErrorIsHeard, WorkingIsAlive, OneThread, ShutdownMeansDead

-----------------------------------------------------------------------------
\* Every step keeps the types.
LEMMA TeamStepTypeOK == TeamInv /\ [TeamNext]_teamVars => TeamTypeOK'
<1> SUFFICES ASSUME TeamInv, [TeamNext]_teamVars PROVE TeamTypeOK'
  OBVIOUS
<1> USE TeamAssumption DEF TeamInv, TeamTypeOK, Statuses, PCs, SetStatus, GoesTo, Unclaimed, InCycle
<1>0. \A k \in Threads : place[k] # "new" => name[k] \in Members
  BY DEF NamesInv
<1>1. ASSUME NEW k \in Threads, NEW m \in Members, Spawn(k, m) PROVE TeamTypeOK'
  BY <1>1 DEF Spawn
<1>2. ASSUME NEW m \in Members, Mail(m) PROVE TeamTypeOK'
  BY <1>2 DEF Mail
<1>3. ASSUME NEW t \in Tasks, CreateTask(t) PROVE TeamTypeOK'
  BY <1>3 DEF CreateTask
<1>4. ASSUME NEW k \in Threads, Cycle(k) PROVE TeamTypeOK'
  <2>1. CASE Build(k)
    BY <2>1 DEF Build
  <2>2. CASE CycleIdle(k)
    <3>1. short' \in [Threads -> BOOLEAN]
      BY <2>2 DEF CycleIdle
    <3> QED BY <2>2, <3>1, <1>0 DEF CycleIdle
  <2>3. CASE CycleShutdown(k)
    BY <2>3, <1>0 DEF CycleShutdown
  <2>4. CASE CycleError(k)
    BY <2>4, <1>0 DEF CycleError
  <2>5. ASSUME NEW t \in Tasks, CycleClaim(k, t) PROVE TeamTypeOK'
    BY <2>5, <1>0 DEF CycleClaim
  <2> QED BY <1>4, <2>1, <2>2, <2>3, <2>4, <2>5 DEF Cycle
<1>5. ASSUME NEW k \in Threads, Idling(k) PROVE TeamTypeOK'
  <2>1. CASE PollMail(k)
    BY <2>1, <1>0 DEF PollMail
  <2>2. CASE PollEmpty(k)
    BY <2>2 DEF PollEmpty
  <2>3. CASE ScanNothing(k)
    BY <2>3 DEF ScanNothing, PollsInv
  <2>4. ASSUME NEW t \in Tasks, ScanFound(k, t) PROVE TeamTypeOK'
    BY <2>4 DEF ScanFound
  <2>5. CASE BoardRaise(k)
    BY <2>5 DEF BoardRaise
  <2>6. CASE ClaimRefused(k)
    BY <2>6 DEF ClaimRefused, PollsInv
  <2>7. CASE ClaimGranted(k)
    BY <2>7, <1>0 DEF ClaimGranted
  <2>8. CASE ClaimRaise(k)
    BY <2>8, <1>0 DEF ClaimRaise
  <2>9. CASE PollsOver(k)
    BY <2>9, <1>0 DEF PollsOver
  <2> QED BY <1>5, <2>1, <2>2, <2>3, <2>4, <2>5, <2>6, <2>7, <2>8, <2>9 DEF Idling
<1>6. CASE TeamRestart
  BY <1>6 DEF TeamRestart
<1>7. CASE UNCHANGED teamVars
  BY <1>7 DEF teamVars
<1> QED BY <1>1, <1>2, <1>3, <1>4, <1>5, <1>6, <1>7 DEF TeamNext

LEMMA NextPollsInv == TeamInv /\ [TeamNext]_teamVars => PollsInv'
<1> SUFFICES ASSUME TeamInv, [TeamNext]_teamVars PROVE PollsInv'
  OBVIOUS
<1> USE DEF TeamInv, TeamTypeOK, PCs, PollsInv, GoesTo, InCycle
<1>1. ASSUME NEW k \in Threads, NEW m \in Members, Spawn(k, m) PROVE PollsInv'
  BY <1>1 DEF Spawn
<1>2. ASSUME NEW k \in Threads, Cycle(k) PROVE PollsInv'
  BY <1>2 DEF Cycle, Build, CycleIdle, CycleShutdown, CycleError, CycleClaim
<1>3. ASSUME NEW k \in Threads, Idling(k) PROVE PollsInv'
  BY <1>3 DEF Idling, PollMail, PollEmpty, ScanNothing, ScanFound, BoardRaise, ClaimRefused,
     ClaimGranted, ClaimRaise, PollsOver
<1>4. CASE TeamRestart \/ (\E m \in Members : Mail(m)) \/ (\E t \in Tasks : CreateTask(t)) \/ UNCHANGED teamVars
  BY <1>4 DEF TeamRestart, Mail, CreateTask, teamVars
<1> QED BY <1>1, <1>2, <1>3, <1>4 DEF TeamNext

\* A member that is spawned had no thread, or was idle, which is remembered.
LEMMA SpawnStep ==
    ASSUME TeamInv, NEW k \in Threads, NEW m \in Members, Spawn(k, m)
    PROVE  NamesInv' /\ StatusIsTrue'
<1> USE TeamAssumption DEF TeamInv, TeamTypeOK, Spawn, SetStatus, GoesTo, PCs, Statuses
<1>1. /\ \A j \in Threads : /\ place'[j] = IF j = k THEN "start" ELSE place[j]
                            /\ name'[j] = IF j = k THEN m ELSE name[j]
      /\ \A n \in Members : status'[n] = IF n = m THEN "working" ELSE status[n]
  OBVIOUS
<1>2. NamesInv'
  BY <1>1 DEF NamesInv
<1>3. ErrorIsHeard' /\ WorkingIsAlive'
  BY <1>1 DEF StatusIsTrue, ErrorIsHeard, WorkingIsAlive, InCycle
<1>4. ShutdownMeansDead'
  BY <1>1 DEF StatusIsTrue, ShutdownMeansDead, Live
<1>5. m \notin over' => \A j \in Threads : name[j] = m => ~Live(j)
  <2>1. m \notin over' => status[m] \in {"none", "shutdown"} /\ m \notin over
    OBVIOUS
  <2> QED BY <2>1 DEF NamesInv, StatusIsTrue, ShutdownMeansDead
<1>6. OneThread'
  <2> SUFFICES ASSUME NEW i \in Threads, NEW j \in Threads, i # j, Live(i)', Live(j)',
                      name'[i] = name'[j], name'[i] \notin over'
               PROVE  FALSE
    BY DEF OneThread
  <2>1. CASE i = k
    BY <2>1, <1>1, <1>5 DEF Live
  <2>2. CASE j = k
    BY <2>2, <1>1, <1>5 DEF Live
  <2>3. CASE i # k /\ j # k
    BY <2>3, <1>1 DEF StatusIsTrue, OneThread, Live
  <2> QED BY <2>1, <2>2, <2>3
<1> QED BY <1>2, <1>3, <1>4, <1>6 DEF StatusIsTrue

\* A restart ends all threads, and no status says "working" any more.
LEMMA RestartStep == TeamInv /\ TeamRestart => NamesInv' /\ StatusIsTrue'
  BY DEF TeamInv, TeamTypeOK, TeamRestart, Live, InCycle, NamesInv, StatusIsTrue, ErrorIsHeard, WorkingIsAlive,
     OneThread, ShutdownMeansDead

LEMMA TeamStep == TeamInv /\ [TeamNext]_teamVars => TeamInv'
<1> SUFFICES ASSUME TeamInv, [TeamNext]_teamVars PROVE NamesInv' /\ StatusIsTrue'
  BY TeamStepTypeOK, NextPollsInv DEF TeamInv
<1>0. TeamTypeOK'
  BY TeamStepTypeOK
<1> USE DEF TeamInv, TeamTypeOK, Statuses, PCs, GoesTo, Live, InCycle
<1>1. ASSUME NEW k \in Threads, Cycle(k) PROVE NamesInv' /\ StatusIsTrue'
  <2>1. CASE Build(k)
    BY <2>1, <1>0, QuietStep DEF Build
  <2>2. CASE CycleIdle(k)
    BY <2>2, ThreadStep DEF CycleIdle
  <2>3. CASE CycleShutdown(k)
    BY <2>3, ThreadStep DEF CycleShutdown
  <2>4. CASE CycleError(k)
    BY <2>4, ThreadStep DEF CycleError
  <2>5. ASSUME NEW t \in Tasks, CycleClaim(k, t) PROVE NamesInv' /\ StatusIsTrue'
    BY <2>5, <1>0, QuietStep DEF CycleClaim
  <2> QED BY <1>1, <2>1, <2>2, <2>3, <2>4, <2>5 DEF Cycle
<1>2. ASSUME NEW k \in Threads, Idling(k) PROVE NamesInv' /\ StatusIsTrue'
  <2>1. CASE PollMail(k)
    BY <2>1, ThreadStep DEF PollMail
  <2>2. CASE PollEmpty(k)
    BY <2>2, <1>0, QuietStep DEF PollEmpty
  <2>3. CASE ScanNothing(k)
    BY <2>3, <1>0, QuietStep DEF ScanNothing
  <2>4. ASSUME NEW t \in Tasks, ScanFound(k, t) PROVE NamesInv' /\ StatusIsTrue'
    BY <2>4, <1>0, QuietStep DEF ScanFound
  <2>5. CASE BoardRaise(k)
    BY <2>5, <1>0, QuietStep DEF BoardRaise
  <2>6. CASE ClaimRefused(k)
    BY <2>6, <1>0, QuietStep DEF ClaimRefused
  <2>7. CASE ClaimGranted(k)
    BY <2>7, ThreadStep DEF ClaimGranted
  <2>8. CASE ClaimRaise(k)
    BY <2>8, <1>0, QuietStep DEF ClaimRaise
  <2>9. CASE PollsOver(k)
    BY <2>9, ThreadStep DEF PollsOver
  <2> QED BY <1>2, <2>1, <2>2, <2>3, <2>4, <2>5, <2>6, <2>7, <2>8, <2>9 DEF Idling
<1>3. CASE (\E m \in Members : Mail(m)) \/ (\E t \in Tasks : CreateTask(t)) \/ UNCHANGED teamVars
  BY <1>3, <1>0, QuietStep DEF Mail, CreateTask, teamVars
<1> QED BY <1>1, <1>2, <1>3, SpawnStep, RestartStep DEF TeamNext

LEMMA TeamHolds == TeamSpec => []TeamInv
  BY TeamStart, TeamStep, PTL DEF TeamSpec

-----------------------------------------------------------------------------
\* The statuses in config.json are among those the code writes, and every name, owner
\* and count in _run_member has its type.
THEOREM TeamTypesCorrect == TeamSpec => []TeamTypeOK
<1>1. TeamInv => TeamTypeOK
  BY DEF TeamInv
<1> QED BY <1>1, TeamHolds, PTL

\* What config.json says of a member is true of its threads, through any number of
\* spawns, cycles, idle phases, failures and restarts (TeammateManager.spawn,
\* _run_member, _clear_stale_working_members).
THEOREM StatusTellsTruth == TeamSpec => []StatusIsTrue
<1>1. TeamInv => StatusIsTrue
  BY DEF TeamInv
<1> QED BY <1>1, TeamHolds, PTL
=============================================================================
