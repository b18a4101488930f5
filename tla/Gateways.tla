------------------------------ MODULE Gateways ------------------------------
(* The chat gateways: gateway/telegram polls for updates and remembers an     *)
(* offset, gateway/feishu is called back and remembers the events it has      *)
(* seen.  Both run agent turns in their event loop, send the replies through  *)
(* UserBus and the messages of tools through Outbox.  A turn runs without an  *)
(* await, so it is one step.                                                  *)
EXTENDS UserBus, Outbox, FiniteSets

CONSTANTS Inputs,     \* how many messages users and tools send altogether
          Kinds,      \* what users send: "chat", "new", or "other": commands, what is ignored
          Callbacks,  \* how often Feishu calls back altogether
          Deaths      \* how often the process stops or is killed

ASSUME GatewayAssumption == Kinds \subseteq {"chat", "new", "other"}

VARIABLES channel,   \* what this process serves: "telegram", "feishu" or the web
          main,      \* where run_forever is
          arrived,   \* the kinds of the messages users have sent
          offset,    \* telegram_state: the first update not handled yet
          batch,     \* the updates of this poll that are left
          broke,     \* whether handling the update at hand raised
          seen,      \* feishu_events
          calls,     \* callbacks that wait for the event loop
          acked,     \* events Feishu was answered
          called,    \* how often Feishu has called
          tasks,     \* message events that were accepted and have not run
          conv,      \* the chat's active conversation
          turns,     \* history: completed turns, with their message and conversation
          failed,    \* history: messages whose handling raised or was interrupted
          redone,    \* history: messages whose turn was done as the process was killed
          deaths     \* how often the process stopped

channelVars == <<busVars, outboxVars, main, arrived, offset, batch, broke, seen, calls, acked,
                 called, tasks, conv, turns, failed, redone, deaths>>
gatewayVars == <<main, arrived, offset, batch, broke, seen, calls, acked, called, tasks,
                 conv, turns, failed, redone, deaths>>
feishuVars == <<seen, calls, acked, called, tasks>>
historyVars == <<turns, failed, redone>>

Telegram == channel = "telegram"
Feishu == channel = "feishu"

GatewayInit ==
    /\ main = "off" /\ arrived = <<>> /\ offset = 1 /\ batch = <<>> /\ broke = FALSE
    /\ seen = {} /\ calls = <<>> /\ acked = {} /\ called = 0 /\ tasks = <<>>
    /\ conv = 0 /\ turns = <<>> /\ failed = {} /\ redone = {} /\ deaths = 0

MoreInput == Len(arrived) + Len(outbox) < Inputs

UserSends == /\ MoreInput
             /\ \E k \in Kinds : arrived' = Append(arrived, k)
             /\ UNCHANGED <<main, offset, batch, broke, feishuVars, conv, historyVars, deaths>>

\* A turn of message u: the reply is on its way, or the turn raised.
Turn(u) == \/ /\ turns' = Append(turns, [message |-> u, conv |-> conv])
              /\ outbound' = Append(outbound, Len(turns) + 1)
              /\ UNCHANGED <<running, dispatcher, current, early, shown, dropped, failed, redone>>
           \/ /\ failed' = failed \cup {u}
              /\ UNCHANGED <<busVars, turns, redone>>

Flushing == FlushList

---------------------------------------------------------------------------
(* Telegram *)

TgUnchanged == UNCHANGED <<arrived, feishuVars, deaths>>

TgBoot == /\ Telegram /\ main = "off"
          /\ Start /\ Flushing /\ main' = "flush"
          /\ TgUnchanged /\ UNCHANGED <<offset, batch, broke, conv, historyVars>>

\* run_forever: flush, poll, flush again, and a pause after any exception.
TgPoll == /\ Telegram /\ main = "flush" /\ toSend = <<>>
          /\ main' = "poll"
          /\ TgUnchanged /\ UNCHANGED <<busVars, outboxVars, offset, batch, broke, conv, historyVars>>

TgUpdates == /\ Telegram /\ main = "poll"
             /\ batch' = [i \in 1..(Len(arrived) - offset + 1) |-> offset + i - 1]
             /\ IF batch' = <<>> THEN main' = "flush again" /\ Flushing
                                 ELSE main' = "handle" /\ UNCHANGED outboxVars
             /\ TgUnchanged /\ UNCHANGED <<busVars, offset, broke, conv, historyVars>>

TgPollRaises == /\ Telegram /\ main = "poll"
                /\ main' = "pause"
                /\ TgUnchanged /\ UNCHANGED <<busVars, outboxVars, offset, batch, broke, conv, historyVars>>

TgAgain == /\ Telegram /\ \/ main = "flush again" /\ toSend = <<>>
                          \/ main = "pause"
           /\ main' = "flush" /\ Flushing
           /\ TgUnchanged /\ UNCHANGED <<busVars, offset, batch, broke, conv, historyVars>>

\* handle_update up to its first await that matters: a command is answered, a
\* chat action announces a turn; any of these calls may raise.
TgHandle == /\ Telegram /\ main = "handle"
            /\ LET u == Head(batch)
               IN CASE arrived[u] = "new" ->
                           main' = "confirm" /\ conv' = conv + 1 /\ UNCHANGED <<broke, failed>>
                    [] arrived[u] = "other" ->
                           main' = "settle" /\ broke' \in BOOLEAN /\ UNCHANGED <<conv, failed>>
                    [] arrived[u] = "chat" ->
                           \/ main' = "turn" /\ UNCHANGED <<broke, conv, failed>>
                           \/ main' = "settle" /\ broke' = TRUE /\ failed' = failed \cup {u}
                              /\ UNCHANGED conv
            /\ TgUnchanged /\ UNCHANGED <<busVars, outboxVars, offset, batch, turns, redone>>

TgConfirm == /\ Telegram /\ main = "confirm"
             /\ main' = "settle" /\ broke' \in BOOLEAN
             /\ TgUnchanged /\ UNCHANGED <<busVars, outboxVars, offset, batch, conv, historyVars>>

TgTurn == /\ Telegram /\ main = "turn"
          /\ Turn(Head(batch))
          /\ main' = "settle" /\ broke' = (turns' = turns)
          /\ TgUnchanged /\ UNCHANGED <<outboxVars, offset, batch, conv>>

\* Mutant of OffsetAfter: the batch is settled as a whole.
OffsetAfterBatch(us) == us[Len(us)] + 1
OffsetAfter(us) == Head(us) + 1

\* The finally of poll_once; an exception abandons the rest of the batch.
TgSettle == /\ Telegram /\ main = "settle"
            /\ offset' = OffsetAfter(batch)
            /\ batch' = IF broke THEN <<>> ELSE Tail(batch)
            /\ IF broke THEN main' = "pause" /\ UNCHANGED outboxVars
               ELSE IF batch' = <<>> THEN main' = "flush again" /\ Flushing
               ELSE main' = "handle" /\ UNCHANGED outboxVars
            /\ broke' = FALSE
            /\ TgUnchanged /\ UNCHANGED <<busVars, conv, historyVars>>

\* Ctrl-C cancels run_forever at an await; finally still saves the offset.
TgCancel == /\ Telegram /\ deaths < Deaths
            /\ main \in {"flush", "poll", "handle", "confirm", "flush again", "pause"}
            /\ main' = "closing" /\ deaths' = deaths + 1 /\ Stop
            /\ offset' = IF main \in {"handle", "confirm"} THEN OffsetAfter(batch) ELSE offset
            /\ failed' = IF main = "handle" THEN failed \cup {Head(batch)} ELSE failed
            /\ UNCHANGED <<outboxVars, arrived, batch, broke, feishuVars, conv, turns, redone>>

---------------------------------------------------------------------------
(* Feishu *)

FsUnchanged == UNCHANGED <<arrived, offset, batch, broke>>

FsBoot == /\ Feishu /\ main = "off"
          /\ Start /\ Flushing /\ main' = "flush"
          /\ FsUnchanged /\ UNCHANGED <<feishuVars, conv, historyVars, deaths>>

\* The callback server cannot bind its port: close is called before any await.
FsPortTaken == /\ Feishu /\ main = "off" /\ deaths < Deaths
               /\ dispatcher' = "created" /\ running' = FALSE /\ early' = TRUE
               /\ main' = "closing" /\ deaths' = deaths + 1
               /\ FsUnchanged
               /\ UNCHANGED <<outbound, current, shown, dropped, outboxVars, feishuVars, conv, historyVars>>

FsSleep == /\ Feishu /\ main = "flush" /\ toSend = <<>>
           /\ main' = "pause"
           /\ FsUnchanged /\ UNCHANGED <<busVars, outboxVars, feishuVars, conv, historyVars, deaths>>

FsAgain == /\ Feishu /\ main = "pause"
           /\ main' = "flush" /\ Flushing
           /\ FsUnchanged /\ UNCHANGED <<busVars, feishuVars, conv, historyVars, deaths>>

\* An HTTP thread passes an event to the loop; Feishu repeats what was not
\* answered, perhaps because the thread's wait timed out.
FsCallback == /\ Feishu /\ main \notin {"off", "closing"}
              /\ called < Callbacks /\ called' = called + 1
              /\ \E u \in DOMAIN arrived \ acked : calls' = Append(calls, u)
              /\ FsUnchanged /\ UNCHANGED <<busVars, outboxVars, main, seen, acked, tasks, conv, historyVars, deaths>>

AlreadySeen(u) == u \in seen

\* handle_callback: an event is remembered before it is worked on.
FsAccept == /\ Feishu /\ calls # <<>>
            /\ LET u == Head(calls)
               IN /\ seen' = seen \cup {u}
                  /\ tasks' \in {IF AlreadySeen(u) THEN tasks ELSE Append(tasks, u)}
                                 \cup (IF arrived[u] = "other" THEN {tasks} ELSE {})
                  /\ acked' \in {acked, acked \cup {u}}
            /\ calls' = Tail(calls)
            /\ FsUnchanged /\ UNCHANGED <<busVars, outboxVars, main, called, conv, historyVars, deaths>>

\* A task of _handle_message_event.  What it sends by itself changes nothing
\* here, and when it raises the message is gone.
FsHandle == /\ Feishu /\ tasks # <<>>
            /\ LET u == Head(tasks)
               IN \/ arrived[u] = "chat" /\ Turn(u) /\ UNCHANGED conv
                  \/ /\ arrived[u] # "chat" /\ UNCHANGED <<busVars, historyVars>>
                     /\ conv' = IF arrived[u] = "new" THEN conv + 1 ELSE conv
            /\ tasks' = Tail(tasks)
            /\ FsUnchanged /\ UNCHANGED <<outboxVars, main, seen, calls, acked, called, deaths>>

FsCancel == /\ Feishu /\ main \in {"flush", "pause"} /\ deaths < Deaths
            /\ main' = "closing" /\ deaths' = deaths + 1 /\ Stop
            /\ FsUnchanged /\ UNCHANGED <<outboxVars, feishuVars, conv, historyVars>>

---------------------------------------------------------------------------
(* Both *)

FlushWork == /\ main \in {"flush", "flush again"}
             /\ FlushSend \/ FlushMark
             /\ UNCHANGED <<busVars, gatewayVars>>

ToolEnqueues == MoreInput /\ Enqueue /\ UNCHANGED <<busVars, gatewayVars>>

\* The dispatcher runs when the loop is free: never between a turn and finally.
Dispatch == /\ main \notin {"off", "settle"} /\ DispatchStep
            /\ UNCHANGED <<outboxVars, gatewayVars>>

\* Whatever the process had accepted and not finished is gone with it.
Gone == /\ main' = "off" /\ batch' = <<>> /\ broke' = FALSE /\ calls' = <<>> /\ tasks' = <<>>
        /\ failed' = failed \cup ToSet(tasks)
        /\ BusGone /\ FlushGone
        /\ UNCHANGED <<arrived, offset, seen, acked, called, conv, turns>>

\* close() has waited for the dispatcher; the process ends.
Closed == /\ main = "closing" /\ Stopped
          /\ Gone /\ UNCHANGED <<redone, deaths>>

Kill == /\ main # "off" /\ deaths < Deaths
        /\ Gone /\ deaths' = deaths + 1
        /\ redone' = IF main = "settle" THEN redone \cup {Head(batch)} ELSE redone

Arrive == UserSends /\ UNCHANGED <<busVars, outboxVars>>

TgMain == \/ TgBoot \/ TgPoll \/ TgUpdates \/ TgPollRaises \/ TgAgain
          \/ TgHandle \/ TgConfirm \/ TgTurn \/ TgSettle

FsMain == FsBoot \/ FsSleep \/ FsAgain \/ FsAccept \/ FsHandle

GatewayNext == \/ TgMain \/ TgCancel
               \/ FsMain \/ FsPortTaken \/ FsCallback \/ FsCancel
               \/ FlushWork \/ Dispatch \/ Closed
               \/ ToolEnqueues \/ Arrive \/ Kill

---------------------------------------------------------------------------
Turned == {turns[i].message : i \in DOMAIN turns}

GatewayTypeOK ==
    /\ main \in {"off", "flush", "poll", "handle", "confirm", "turn", "settle", "flush again", "pause", "closing"}
    /\ arrived \in Seq(Kinds) /\ offset \in 1..Inputs + 1 /\ batch \in Seq(1..Inputs) /\ broke \in BOOLEAN
    /\ seen \subseteq DOMAIN arrived /\ acked \subseteq seen /\ ToSet(calls) \subseteq DOMAIN arrived
    /\ ToSet(tasks) \subseteq seen /\ failed \subseteq DOMAIN arrived /\ redone \subseteq DOMAIN arrived
    /\ deaths \in 0..Deaths

\* A message is answered by one turn, however often Feishu calls back for it,
\* Telegram hands it out, the process stops or a step of its batch raises;
\* only a kill between a turn and set_offset repeats a Telegram message.
TurnOncePerMessage == \A i, j \in DOMAIN turns :
                        turns[i].message = turns[j].message => i = j \/ turns[i].message \in redone

\* A chat message that the gateway will not be handed again has had its turn,
\* has it before it, or was lost where the code may lose it: its handling
\* raised, was cancelled, or the process ended before its task ran.
NoMessageSkipped ==
    \A u \in DOMAIN arrived :
        arrived[u] = "chat" /\ (IF Telegram THEN u < offset ELSE u \in seen)
            => u \in Turned \cup failed \cup ToSet(tasks)

\* At most one turn for a message, and no message without one.
EachMessageOneTurn == TurnOncePerMessage /\ NoMessageSkipped

\* The reply of every turn is queued, being sent, shown or given up, and users
\* see replies in the order of the turns, a repetition right after the first.
RepliesAccounted ==
    Telegram \/ Feishu =>
    /\ DOMAIN turns = ToSet(outbound) \cup ToSet(current) \cup ToSet(shown) \cup dropped
    /\ \A i, j \in DOMAIN shown : i < j => shown[i] <= shown[j]

\* What the gateways know of what users were shown is true, for the replies of
\* turns and for the messages of tools.
DeliveriesAreTrue == RepliesAccounted /\ OutboxTellsTruth

\* While the process lives, every message of a tool is sent or given up: those
\* in front of it that fail cannot fill the batch for ever.
OutboxSettles == \A i \in 1..Inputs :
                    (i \in DOMAIN outbox /\ Pending(i)) ~> (i \in DOMAIN outbox /\ (~Pending(i) \/ early))

\* close() returns, unless stop was called before the dispatch task had run:
\* the task then sets _running again and stop waits for it for ever.
StopReturns == main = "closing" ~> (main = "off" \/ early)

GatewayFairness == WF_channelVars(TgMain \/ FsMain) /\ WF_channelVars(FlushWork)
                   /\ WF_channelVars(Dispatch) /\ WF_channelVars(Closed)
=============================================================================
