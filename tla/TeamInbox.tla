----------------------------- MODULE TeamInbox -----------------------------
(***************************************************************************)
(* The file inboxes of the agent team: MessageBus of bus/team_bus.py.      *)
(*                                                                         *)
(* send appends one JSON line to the recipient's file.  read_inbox reads   *)
(* the whole file and afterwards truncates it with a second call, without  *)
(* a lock: a line appended in between is gone.  Several threads may read   *)
(* one inbox (the lead's inbox is read by every coding turn and by the     *)
(* read_inbox tool).                                                       *)
(*                                                                         *)
(* Messages are numbered in the order in which send appends them, so the   *)
(* lines of a file, always in increasing order, are a set of numbers.      *)
(* Lines are appended in one write; text longer than Python's write buffer *)
(* is not modelled.                                                        *)
(***************************************************************************)
EXTENDS Integers

CONSTANTS
    Names,    \* the agents that have an inbox file
    Senders,  \* the agents that send
    Readers,  \* the threads that call read_inbox
    InboxOf,  \* InboxOf[r]: the inbox that thread r reads
    MaxMsgs   \* bound on the number of messages

ASSUME InboxAssumption ==
    /\ InboxOf \in [Readers -> Names]
    /\ MaxMsgs \in Nat

VARIABLES
    inbox,      \* inbox[n]: the messages in n's file
    present,    \* the names whose file exists
    last,       \* the number of messages sent so far
    sentTo,     \* sentTo[m]: the recipient of message m, for m in 1 .. last
    todo,       \* todo[s]: the recipients s's broadcast still has to reach
    pc,         \* pc[r]: "idle", or "truncate" between read_text and write_text
    got,        \* got[r]: what the pending read_inbox of r has parsed
    delivered,  \* delivered[r]: history of the messages r's calls returned
    windowed    \* history: messages appended while a reader was at "truncate"

inboxVars == <<inbox, present, last, sentTo, todo, pc, got, delivered, windowed>>

-----------------------------------------------------------------------------
MsgIds == 1..MaxMsgs

Sent == 1..last

InWindow(n) == \E r \in Readers : InboxOf[r] = n /\ pc[r] = "truncate"

\* The files of earlier sessions may exist (with nothing in them yet).
InboxInit ==
    /\ present \in SUBSET Names
    /\ last = 0
    /\ sentTo = [m \in {} |-> m]
    /\ inbox = [n \in Names |-> {}]
    /\ todo = [s \in Senders |-> {}]
    /\ pc = [r \in Readers |-> "idle"]
    /\ got = [r \in Readers |-> {}]
    /\ delivered = [r \in Readers |-> {}]
    /\ windowed = {}

-----------------------------------------------------------------------------
\* Mutant of Append: the file is opened with mode "w".
AppendOverwrites(n) ==
    /\ last < MaxMsgs
    /\ last' = last + 1
    /\ sentTo' = [m \in 1..last' |-> IF m = last' THEN n ELSE sentTo[m]]
    /\ inbox' = [inbox EXCEPT ![n] = {last'}]
    /\ present' = present \cup {n}
    /\ windowed' = IF InWindow(n) THEN windowed \cup {last'} ELSE windowed

\* One append to the file of n, which creates the file when it is missing.
Append(n) ==
    /\ last < MaxMsgs
    /\ last' = last + 1
    /\ sentTo' = [m \in 1..last' |-> IF m = last' THEN n ELSE sentTo[m]]
    /\ inbox' = [inbox EXCEPT ![n] = @ \cup {last'}]
    /\ present' = present \cup {n}
    /\ windowed' = IF InWindow(n) THEN windowed \cup {last'} ELSE windowed

\* send: an invalid msg_type is refused before this and changes nothing.
Send(s, n) ==
    /\ todo[s] = {}
    /\ Append(n)
    /\ UNCHANGED <<todo, pc, got, delivered>>

\* broadcast: the member list is taken once ...
Broadcast(s) ==
    /\ todo[s] = {}
    /\ todo' = [todo EXCEPT ![s] = Names \ {s}]
    /\ UNCHANGED <<inbox, present, last, sentTo, pc, got, delivered, windowed>>

\* ... and every member gets a send of its own.
BroadcastSend(s, n) ==
    /\ n \in todo[s]
    /\ Append(n)
    /\ todo' = [todo EXCEPT ![s] = @ \ {n}]
    /\ UNCHANGED <<pc, got, delivered>>

-----------------------------------------------------------------------------
\* read_inbox: no file, no messages (and no truncation); else read_text ...
ReadText(r) ==
    /\ pc[r] = "idle"
    /\ InboxOf[r] \in present
    /\ pc' = [pc EXCEPT ![r] = "truncate"]
    /\ got' = [got EXCEPT ![r] = inbox[InboxOf[r]]]
    /\ UNCHANGED <<inbox, present, last, sentTo, todo, delivered, windowed>>

\* Mutant of TruncateReturn: the file keeps what was returned.
TruncateNothing(r) ==
    /\ pc[r] = "truncate"
    /\ delivered' = [delivered EXCEPT ![r] = @ \cup got[r]]
    /\ pc' = [pc EXCEPT ![r] = "idle"]
    /\ got' = [got EXCEPT ![r] = {}]
    /\ UNCHANGED <<inbox, present, last, sentTo, todo, windowed>>

\* ... and write_text(""), then return the parsed messages.
TruncateReturn(r) ==
    /\ pc[r] = "truncate"
    /\ inbox' = [inbox EXCEPT ![InboxOf[r]] = {}]
    /\ delivered' = [delivered EXCEPT ![r] = @ \cup got[r]]
    /\ pc' = [pc EXCEPT ![r] = "idle"]
    /\ got' = [got EXCEPT ![r] = {}]
    /\ UNCHANGED <<present, last, sentTo, todo, windowed>>

\* The process stops: its threads are daemons and die inside their calls.  The
\* files stay, and a new process starts with new threads.
Restart ==
    /\ pc' = [r \in Readers |-> "idle"]
    /\ got' = [r \in Readers |-> {}]
    /\ todo' = [s \in Senders |-> {}]
    /\ UNCHANGED <<inbox, present, last, sentTo, delivered, windowed>>

-----------------------------------------------------------------------------
InboxNext ==
    \/ \E s \in Senders, n \in Names : Send(s, n) \/ BroadcastSend(s, n)
    \/ \E s \in Senders : Broadcast(s)
    \/ \E r \in Readers : ReadText(r) \/ TruncateReturn(r)
    \/ Restart

InboxSpec == InboxInit /\ [][InboxNext]_inboxVars

-----------------------------------------------------------------------------
InboxTypeOK ==
    /\ inbox \in [Names -> SUBSET MsgIds]
    /\ present \in SUBSET Names
    /\ last \in 0..MaxMsgs
    /\ sentTo \in [Sent -> Names]
    /\ todo \in [Senders -> SUBSET Names]
    /\ pc \in [Readers -> {"idle", "truncate"}]
    /\ got \in [Readers -> SUBSET MsgIds]
    /\ delivered \in [Readers -> SUBSET MsgIds]
    /\ windowed \in SUBSET MsgIds

\* Message m is in the file of n, or was returned to a reader of that file.
Kept(m, n) == m \in inbox[n] \/ \E r \in Readers : InboxOf[r] = n /\ m \in delivered[r]

\* A message is lost only if it was appended between the read_text and the
\* write_text of one read_inbox call: everything else sent is still in the
\* recipient's file or was returned to a reader of that inbox, restarts included.
LossOnlyInWindow ==
    \A m \in Sent : m \notin windowed => Kept(m, sentTo[m])

\* read_inbox never returns a message twice to one thread, nor a message older
\* than one it returned before, even with several readers per inbox.
ForwardOnly ==
    \A r \in Readers : \A old \in delivered[r], new \in got[r] : old < new
=============================================================================
