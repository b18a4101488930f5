------------------------------- MODULE Outbox -------------------------------
(* The table of messages that tools leave for a chat channel, and the loop of *)
(* the gateway that sends them (flush_outbox).  The Telegram and the Feishu   *)
(* gateway have the same code over tables of their own.                       *)
EXTENDS Naturals, Sequences, SequencesExt

CONSTANTS Limit,       \* outbox_limit
          MaxAttempts  \* outbox_max_attempts

ASSUME OutboxAssumption == Limit \in Nat \ {0} /\ MaxAttempts \in Nat \ {0}

VARIABLES outbox,    \* rows in the order of their ids: status and attempts
          toSend,    \* the rows of this flush that are left
          sending,   \* "no", or what happened to the row at hand: "sent", "failed"
          arrivals,  \* history: how often each row reached the chat
          doubtful   \* history: rows whose delivery was not recorded as such

outboxVars == <<outbox, toSend, sending, arrivals, doubtful>>

Pending(i) == outbox[i].status = "pending"

OutboxInit == /\ outbox = <<>> /\ toSend = <<>> /\ sending = "no"
              /\ arrivals = <<>> /\ doubtful = {}

\* A tool of any process that shares the database.
Enqueue == /\ outbox' = Append(outbox, [status |-> "pending", attempts |-> 0])
           /\ arrivals' = Append(arrivals, 0)
           /\ UNCHANGED <<toSend, sending, doubtful>>

\* What list_pending_messages returns: the oldest pending rows, at most Limit of them.
ListPending(rows) ==
    /\ \A i, j \in DOMAIN rows : i < j => rows[i] < rows[j]
    /\ \A i \in DOMAIN rows : Pending(rows[i])
    /\ \A k \in DOMAIN outbox \ ToSet(rows) :
         Pending(k) => Len(rows) = Limit /\ \A i \in DOMAIN rows : rows[i] < k

FlushList == /\ \E n \in 0..Limit : \E rows \in [1..n -> DOMAIN outbox] : ListPending(rows) /\ toSend' = rows
             /\ UNCHANGED <<outbox, sending, arrivals, doubtful>>

\* The API call returns or raises; a call that raises may have been executed.
FlushSend == /\ toSend # <<>> /\ sending = "no"
             /\ \E reached, raised \in BOOLEAN :
                  /\ reached \/ raised
                  /\ sending' = IF raised THEN "failed" ELSE "sent"
                  /\ arrivals' = IF reached THEN [arrivals EXCEPT ![Head(toSend)] = @ + 1] ELSE arrivals
                  /\ doubtful' = IF reached /\ raised THEN doubtful \cup {Head(toSend)} ELSE doubtful
             /\ UNCHANGED <<outbox, toSend>>

MarkSent(i) == outbox' = [outbox EXCEPT ![i].status = "sent"]

\* Mutants of MarkFailed: the attempts are compared before they are counted, or
\* not counted at all.
MarkFailedLate(i) == LET n == outbox[i].attempts
                     IN outbox' = [outbox EXCEPT ![i] = [status |-> IF n >= MaxAttempts THEN "failed" ELSE "pending",
                                                         attempts |-> n + 1]]
MarkFailedUncounted(i) == UNCHANGED outbox

MarkFailed(i) == LET n == outbox[i].attempts + 1
                 IN outbox' = [outbox EXCEPT ![i] = [status |-> IF n >= MaxAttempts THEN "failed" ELSE "pending",
                                                     attempts |-> n]]

\* Recording a success may fail as well, and then counts as a failed attempt.
FlushMark == /\ sending # "no"
             /\ LET i == Head(toSend)
                IN \/ sending = "sent" /\ MarkSent(i) /\ UNCHANGED doubtful
                   \/ sending = "sent" /\ MarkFailed(i) /\ doubtful' = doubtful \cup {i}
                   \/ sending = "failed" /\ MarkFailed(i) /\ UNCHANGED doubtful
             /\ toSend' = Tail(toSend) /\ sending' = "no"
             /\ UNCHANGED arrivals

FlushGone == /\ toSend' = <<>> /\ sending' = "no"
             /\ doubtful' = IF sending = "sent" THEN doubtful \cup {Head(toSend)} ELSE doubtful
             /\ UNCHANGED <<outbox, arrivals>>

---------------------------------------------------------------------------
OutboxTypeOK == /\ outbox \in Seq([status : {"pending", "sent", "failed"}, attempts : 0..MaxAttempts])
                /\ toSend \in Seq(DOMAIN outbox) /\ Len(toSend) <= Limit
                /\ sending \in {"no", "sent", "failed"}
                /\ Len(arrivals) = Len(outbox)

\* A row marked sent has reached the chat; one given up was tried to the limit;
\* a row reaches the chat twice only if a delivery of it raised, or was not
\* recorded before the process died or the database refused.
OutboxTellsTruth ==
    \A i \in DOMAIN outbox :
        /\ outbox[i].status = "sent" => arrivals[i] > 0
        /\ outbox[i].status = "failed" <=> outbox[i].attempts = MaxAttempts
        /\ arrivals[i] > 1 => i \in doubtful
=============================================================================
