------------------------------ MODULE UserBus ------------------------------
(* The outbound side of bus/user_bus.py with AppRuntime.start and stop.  One  *)
(* asyncio task takes replies from a queue and hands each to the channel's    *)
(* handler, with one retry.  Everything here runs in one event loop: a step   *)
(* is what happens between two awaits.                                        *)
EXTENDS Naturals, Sequences

VARIABLES outbound,    \* _outbound: replies, oldest first
          running,     \* _running
          dispatcher,  \* where the dispatch task is
          current,     \* the reply it holds, as a sequence of at most one
          early,       \* history: stop was called before the task had run
          shown,       \* history: the replies users were shown, in order
          dropped      \* history: replies given up after the retry, or lost with the process

busVars == <<outbound, running, dispatcher, current, early, shown, dropped>>

BusInit == /\ outbound = <<>> /\ running = FALSE /\ dispatcher = "none"
           /\ current = <<>> /\ early = FALSE /\ shown = <<>> /\ dropped = {}

\* AppRuntime.start: the task exists, but has not run yet.
Start == /\ dispatcher = "none"
         /\ dispatcher' = "created"
         /\ UNCHANGED <<outbound, running, current, early, shown, dropped>>

DispatchBegin == /\ dispatcher = "created"
                 /\ dispatcher' = "waiting" /\ running' = TRUE
                 /\ UNCHANGED <<outbound, current, early, shown, dropped>>

DispatchTake == /\ dispatcher = "waiting" /\ outbound # <<>>
                /\ current' = <<Head(outbound)>> /\ outbound' = Tail(outbound)
                /\ dispatcher' = "handling"
                /\ UNCHANGED <<running, early, shown, dropped>>

\* Mutant of DispatchNotices: a wait without a timeout.
DispatchNoticesLate == /\ dispatcher = "waiting" /\ outbound # <<>> /\ ~running
                       /\ dispatcher' = "ended"
                       /\ UNCHANGED <<outbound, running, current, early, shown, dropped>>

\* The wait for a reply times out every second; only then a stop is noticed.
DispatchNotices == /\ dispatcher = "waiting" /\ outbound = <<>> /\ ~running
                   /\ dispatcher' = "ended"
                   /\ UNCHANGED <<outbound, running, current, early, shown, dropped>>

NextReply == /\ current' = <<>>
             /\ dispatcher' = IF running THEN "waiting" ELSE "ended"

HandlerReturns == /\ dispatcher \in {"handling", "retrying"}
                  /\ shown' = shown \o current
                  /\ NextReply
                  /\ UNCHANGED <<outbound, running, early, dropped>>

\* Mutant of HandlerRaises: what failed goes back to the queue.
HandlerRaisesRequeue == /\ dispatcher \in {"handling", "retrying"}
                        /\ shown' \in {shown, shown \o current}
                        /\ NextReply
                        /\ outbound' = outbound \o current
                        /\ UNCHANGED <<running, early, dropped>>

\* The send failed, though the message may have reached the user.
HandlerRaises == /\ dispatcher \in {"handling", "retrying"}
                 /\ shown' \in {shown, shown \o current}
                 /\ IF dispatcher = "handling"
                    THEN dispatcher' = "pausing" /\ UNCHANGED <<current, dropped>>
                    ELSE /\ NextReply
                         /\ dropped' = dropped \cup {current[1]}
                 /\ UNCHANGED <<outbound, running, early>>

RetryNow == /\ dispatcher = "pausing"
            /\ dispatcher' = "retrying"
            /\ UNCHANGED <<outbound, running, current, early, shown, dropped>>

\* AppRuntime.stop up to its wait for the task; the caller waits for "ended".
Stop == /\ running' = FALSE
        /\ early' = (dispatcher = "created")
        /\ UNCHANGED <<outbound, dispatcher, current, shown, dropped>>

Stopped == dispatcher \in {"none", "ended"}

\* What a process held in memory is gone with it.
BusGone == /\ outbound' = <<>> /\ running' = FALSE /\ dispatcher' = "none" /\ current' = <<>>
           /\ early' = FALSE
           /\ dropped' = dropped \cup {outbound[i] : i \in DOMAIN outbound}
                                 \cup {current[i] : i \in DOMAIN current}
           /\ UNCHANGED shown

DispatchStep == \/ DispatchBegin \/ DispatchTake \/ DispatchNotices
                \/ HandlerReturns \/ HandlerRaises \/ RetryNow
=============================================================================
