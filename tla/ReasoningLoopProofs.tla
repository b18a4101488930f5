------------------------ MODULE ReasoningLoopProofs ------------------------
(***************************************************************************)
(* Proofs about ReasoningLoop, for any calls, tools, budgets, limits and   *)
(* number of turns.                                                        *)
(***************************************************************************)
EXTENDS ReasoningLoop, FiniteSetTheorems, SequenceTheorems, TLAPS

\* The step counters, and what a run and its session say while the loop runs.
FlowInv ==
  /\ pc \in {"head", "model", "tools"} =>
       /\ run.status = "running" /\ run.reason = NoReason /\ session.reason = NoReason
       /\ loop.step <= MaxSteps /\ loop.empty <= 1
  /\ pc \in {"model", "tools"} => loop.step > 0
  /\ pc = "finish" /\ loop.step > 0 =>
       \/ run.status = "running" /\ run.reason = NoReason /\ session.reason = NoReason
       \/ run.status = "stopped" /\ run.reason # NoReason /\ session.reason = run.reason

TypeInv == TypeOK /\ FlowInv

-----------------------------------------------------------------------------
LEMMA Bounds ==
  /\ MaxSteps \in Nat \ {0} /\ SearchLimit \in Nat /\ MaxTurns \in Nat
  /\ NoReason \notin StopReasons
  BY LoopAssumption

\* The parts of a session and of the loop's locals that a step changes.
LEMMA SessionReset ==
  ASSUME NEW s \in Sessions, NEW why \in StopReasons \cup {NoReason}, NEW n \in 0..SearchLimit,
         NEW u \in SUBSET (Direct \cup Deferred)
  PROVE  [s EXCEPT !.reason = why, !.used = n, !.unlocked = u] \in Sessions
  BY DEF Sessions

LEMMA BeforeTurnType == ASSUME NEW s \in Sessions PROVE BeforeTurn(s) \in Sessions
<1>1. {} \in SUBSET (Direct \cup Deferred) /\ 0 \in 0..SearchLimit
  BY Bounds
<1> QED BY <1>1, SessionReset DEF BeforeTurn

LEMMA SessionAnswered ==
  ASSUME NEW s \in Sessions, NEW n \in 0..MaxTurns
  PROVE  [s EXCEPT !.last = n] \in Sessions
  BY DEF Sessions

LEMMA SessionStopped ==
  ASSUME NEW s \in Sessions, NEW n \in 0..MaxTurns, NEW why \in StopReasons
  PROVE  [s EXCEPT !.last = n, !.reason = why] \in Sessions
  BY DEF Sessions

LEMMA SessionReminded ==
  ASSUME NEW s \in Sessions, NEW b \in BOOLEAN
  PROVE  [s EXCEPT !.sent = b] \in Sessions
  BY DEF Sessions

LEMMA LoopEmptied ==
  ASSUME NEW l \in Loops, NEW n \in 0..2, NEW cs \in Seq(Calls), NEW sum \in Summaries
  PROVE  [l EXCEPT !.empty = n, !.calls = cs, !.sum = sum] \in Loops
  BY DEF Loops

LEMMA FreshValues ==
  /\ NewSession \in Sessions /\ NewSession.reason = NoReason
  /\ NewSummary \in Summaries /\ ~NewSummary.denied
  /\ NewLoop \in Loops /\ NewLoop.step = 0 /\ NewLoop.empty = 0 /\ NewLoop.sum = NewSummary
<1>1. {} \in SUBSET (Direct \cup Deferred)
  OBVIOUS
<1>2. NewSession \in Sessions /\ NewSession.reason = NoReason
  BY <1>1, Bounds DEF NewSession, Sessions
<1>3. NewSummary \in Summaries /\ ~NewSummary.denied
  BY DEF NewSummary, Summaries
<1>4. NewLoop \in Loops /\ NewLoop.step = 0 /\ NewLoop.empty = 0 /\ NewLoop.sum = NewSummary
  BY <1>3, Bounds DEF NewLoop, Loops
<1> QED BY <1>2, <1>3, <1>4

LEMMA InitTypeInv == Init => TypeInv
<1> SUFFICES ASSUME Init PROVE TypeInv
  OBVIOUS
<1>1. pc = "idle" /\ reminded \in BOOLEAN
  BY DEF Init
<1>5. turn \in 0..MaxTurns /\ reply \in 0..MaxTurns /\ delivered \in 0..MaxTurns
  BY Bounds DEF Init
<1>4. run \in [status : {"none", "running", "completed", "stopped", "failed"}, reason : StopReasons \cup {NoReason}]
  BY DEF Init
<1>2. session \in Sessions /\ stored \in Sessions /\ loop \in Loops
  BY FreshValues DEF Init
<1>3. log \in Seq([call : Calls, ran : BOOLEAN]) /\ seen \in [Outputs -> Nat]
  BY DEF Init
<1> QED BY <1>1, <1>2, <1>3, <1>4, <1>5 DEF TypeInv, TypeOK, FlowInv

\* The loop's return with a stop reason (_stop_turn).
LEMMA StopStep ==
  ASSUME TypeInv, NEW why \in StopReasons, StopTurn(why), UNCHANGED <<turn, stored, delivered>>,
         loop' \in Loops, log' \in Seq([call : Calls, ran : BOOLEAN]),
         seen' \in [Outputs -> Nat], reminded' \in BOOLEAN
  PROVE  TypeInv'
<1> USE DEF TypeInv, TypeOK, StopTurn, ReturnWith
<1>1. session' \in Sessions /\ session'.reason = why /\ session'.last = turn
  BY SessionStopped DEF Sessions
<1>2. run' \in [status : {"none", "running", "completed", "stopped", "failed"}, reason : StopReasons \cup {NoReason}]
  OBVIOUS
<1> QED BY <1>1, <1>2, Bounds DEF FlowInv

LEMMA Typed ==
  ASSUME TypeInv
  PROVE  /\ TypeOK /\ FlowInv
         /\ session \in Sessions /\ stored \in Sessions /\ loop \in Loops
         /\ turn \in 0..MaxTurns /\ loop.step \in Nat /\ loop.empty \in Nat
         /\ loop.calls \in Seq(Calls) /\ loop.sum \in Summaries
  BY Bounds DEF TypeInv, TypeOK, Loops

LEMMA ReceiveTypeInv == TypeInv /\ Receive => TypeInv'
<1> SUFFICES ASSUME TypeInv, Receive PROVE TypeInv'
  OBVIOUS
<1>1. turn' \in 0..MaxTurns /\ turn' = turn + 1 /\ UNCHANGED <<stored, delivered>>
  BY Typed, Bounds DEF Receive
<1>2. /\ run' \in [status : {"none", "running", "completed", "stopped", "failed"}, reason : StopReasons \cup {NoReason}]
      /\ run'.status = "running" /\ run'.reason = NoReason
  BY DEF Receive
<1>4. CASE Chat
  <2>1. session' \in Sessions
    BY <1>4, Typed, BeforeTurnType DEF Chat
  <2>2. session'.reason = NoReason
    BY <1>4, Typed DEF Chat, BeforeTurn, Sessions
  <2>3. log' \in Seq([call : Calls, ran : BOOLEAN])
    BY <1>4 DEF Chat
  <2>4. seen' \in [Outputs -> Nat] /\ reminded' \in BOOLEAN
    BY <1>4 DEF Chat
  <2>5. pc' = "head" /\ loop' = NewLoop /\ reply' = reply
    BY <1>4 DEF Chat
  <2>6. TypeOK'
    BY <1>1, <1>2, <2>1, <2>3, <2>4, <2>5, Typed, FreshValues DEF TypeOK
  <2> QED BY <1>2, <2>2, <2>5, <2>6, FreshValues, Bounds DEF TypeInv, FlowInv
<1>5. CASE Switch \/ Abort
  <2>1. session' \in Sessions
    BY <1>1, <1>5, Typed, SessionAnswered DEF Switch, Abort
  <2>2. pc' = "finish" /\ loop' = NewLoop /\ reply' = turn' /\ UNCHANGED turnVars
    BY <1>5 DEF Switch, Abort
  <2>3. TypeOK'
    BY <1>1, <1>2, <2>1, <2>2, Typed, FreshValues DEF TypeOK, turnVars
  <2> QED BY <1>2, <2>2, <2>3, FreshValues, Bounds DEF TypeInv, FlowInv
<1> QED BY <1>4, <1>5 DEF Receive

LEMMA StartStepTypeInv == TypeInv /\ StartStep => TypeInv'
<1> SUFFICES ASSUME TypeInv, StartStep PROVE TypeInv'
  OBVIOUS
<1>0. UNCHANGED <<turn, stored, log, seen, delivered>> /\ pc = "head" /\ loop' = [loop EXCEPT !.step = @ + 1]
  BY DEF StartStep
<1>1. loop.step \in 0..MaxSteps /\ loop.empty <= 1
  BY <1>0, Typed, Bounds DEF FlowInv
<1>2. loop' \in Loops /\ loop'.step = loop.step + 1 /\ loop'.empty = loop.empty
  BY <1>0, <1>1, Typed, Bounds DEF Loops
<1>3. CASE StopTurn("reasoning_step_limit") /\ UNCHANGED reminded
  BY <1>0, <1>2, <1>3, StopStep, Typed DEF StopReasons, TypeOK
<1>4. ASSUME ~(StopTurn("reasoning_step_limit") /\ UNCHANGED reminded) PROVE TypeInv'
  <2> DEFINE remind == ~session.sent /\ loop.step + 1 >= ReminderStep
  <2>1. /\ session' = [session EXCEPT !.sent = @ \/ remind] /\ reminded' = (reminded \/ remind) /\ pc' = "model"
        /\ UNCHANGED <<run, reply>> /\ loop.step + 1 <= MaxSteps
    BY <1>4 DEF StartStep
  <2> HIDE DEF remind
  <2>2. (session.sent \/ remind) \in BOOLEAN /\ (reminded \/ remind) \in BOOLEAN
    OBVIOUS
  <2>3. session' \in Sessions
    BY <2>1, <2>2, Typed, SessionReminded
  <2>4. session'.reason = session.reason
    BY <2>1, Typed DEF Sessions
  <2>5. TypeOK'
    BY <1>0, <1>2, <2>1, <2>2, <2>3, Typed DEF TypeOK
  <2> QED BY <1>0, <1>1, <1>2, <2>1, <2>4, <2>5, Typed DEF TypeInv, FlowInv
<1> QED BY <1>3, <1>4

LEMMA ModelTypeInv == TypeInv /\ (ModelEmpty \/ ModelAnswers \/ ModelCalls) => TypeInv'
<1> SUFFICES ASSUME TypeInv, ModelEmpty \/ ModelAnswers \/ ModelCalls PROVE TypeInv'
  OBVIOUS
<1>0. UNCHANGED <<turn, stored, turnVars, delivered>> /\ pc = "model"
  BY DEF ModelEmpty, ModelAnswers, ModelCalls
<1>1. /\ run.status = "running" /\ run.reason = NoReason /\ session.reason = NoReason
      /\ loop.step <= MaxSteps /\ loop.empty \in 0..1 /\ loop.step > 0
  BY <1>0, Typed DEF FlowInv
<1>2. CASE ModelEmpty
  <2>1. loop' = [loop EXCEPT !.empty = @ + 1]
    BY <1>2 DEF ModelEmpty
  <2>2. loop' \in Loops /\ loop'.step = loop.step /\ loop'.empty = loop.empty + 1
    BY <1>1, <2>1, Typed DEF Loops
  <2>3. CASE StopTurn("empty_model_response")
    BY <1>0, <2>2, <2>3, StopStep, Typed DEF StopReasons, TypeOK, turnVars
  <2>4. CASE loop.empty + 1 < 2 /\ pc' = "head" /\ UNCHANGED <<session, run, reply>>
    <3>1. TypeOK'
      BY <1>0, <2>2, <2>4, Typed DEF TypeOK, turnVars
    <3> QED BY <1>1, <2>2, <2>4, <3>1 DEF TypeInv, FlowInv
  <2> QED BY <1>2, <2>3, <2>4 DEF ModelEmpty
<1>3. CASE ModelAnswers
  <2>1. loop' = [loop EXCEPT !.empty = 0] /\ session' = [session EXCEPT !.last = turn] /\ UNCHANGED run
        /\ reply' = session'.last /\ pc' = "finish"
    BY <1>3 DEF ModelAnswers, ReturnWith
  <2>2. loop' \in Loops
    BY <2>1, Typed DEF Loops
  <2>3. session' \in Sessions /\ session'.reason = session.reason /\ session'.last = turn
    BY <2>1, Typed DEF Sessions
  <2>4. TypeOK'
    BY <1>0, <2>1, <2>2, <2>3, Typed DEF TypeOK, turnVars
  <2> QED BY <1>1, <2>1, <2>3, <2>4 DEF TypeInv, FlowInv
<1>4. CASE ModelCalls
  <2>1. PICK n \in 1..MaxCalls : \E cs \in [1..n -> Calls] :
           loop' = [loop EXCEPT !.empty = 0, !.calls = cs, !.sum = NewSummary]
    BY <1>4 DEF ModelCalls
  <2>2. PICK cs \in [1..n -> Calls] :
           loop' = [loop EXCEPT !.empty = 0, !.calls = cs, !.sum = NewSummary]
    BY <2>1
  <2>3. cs \in Seq(Calls) /\ 0 \in 0..2
    OBVIOUS
  <2>4. loop' \in Loops
    BY <2>2, <2>3, FreshValues, LoopEmptied, Typed
  <2>5. loop'.step = loop.step /\ loop'.empty = 0
    BY <2>2, Typed DEF Loops
  <2>6. session' = [session EXCEPT !.last = turn] /\ pc' = "tools" /\ UNCHANGED <<run, reply>>
    BY <1>4 DEF ModelCalls
  <2>7. session' \in Sessions /\ session'.reason = session.reason
    BY <2>6, Typed DEF Sessions
  <2>8. TypeOK'
    BY <1>0, <2>4, <2>6, <2>7, Typed DEF TypeOK, turnVars
  <2> QED BY <1>1, <2>5, <2>6, <2>7, <2>8 DEF TypeInv, FlowInv
<1> QED BY <1>2, <1>3, <1>4

-----------------------------------------------------------------------------
(* The call that is executed                                                *)

\* What one call may leave in the session, the log and the loop's locals.
LEMMA AnsweredType ==
  ASSUME NEW l \in Loops, l.calls # <<>>, NEW sum \in Summaries
  PROVE  /\ [l EXCEPT !.calls = Tail(@), !.sum = sum] \in Loops
         /\ [l EXCEPT !.calls = Tail(@), !.sum = sum].step = l.step
         /\ [l EXCEPT !.calls = Tail(@), !.sum = sum].empty = l.empty
         /\ [l EXCEPT !.calls = Tail(@), !.sum = sum].sum = sum
<1>1. Tail(l.calls) \in Seq(Calls)
  BY DEF Loops
<1> QED BY <1>1 DEF Loops

LEMMA NotedType ==
  ASSUME NEW sum \in Summaries, NEW un \in Seq(Tools), NEW d \in BOOLEAN, NEW f \in BOOLEAN
  PROVE  [[sum EXCEPT !.unavailable = un] EXCEPT !.denied = d, !.failed = f] \in Summaries
  BY DEF Summaries

LEMMA NotedIn ==
  ASSUME loop.sum \in Summaries, NEW c \in Calls
  PROVE  Noted(c) \in Summaries /\ Noted(c).denied = loop.sum.denied /\ Noted(c).failed \in BOOLEAN
<1>1. c.tool \in Tools
  BY DEF Tools
<1>2. Append(loop.sum.unavailable, c.tool) \in Seq(Tools)
  BY <1>1 DEF Summaries
<1> QED BY <1>2 DEF Noted, Summaries

LEMMA UsedType ==
  ASSUME session \in Sessions, NEW c \in Calls, ~BudgetDenies(c)
  PROVE  UsedAfter(c) \in 0..SearchLimit
  BY Bounds DEF UsedAfter, BudgetDenies, Sessions

LEMMA UnlockType ==
  ASSUME session \in Sessions, NEW c \in Calls
  PROVE  Unlock(c) \in SUBSET (Direct \cup Deferred)
  BY DEF Unlock, Sessions

LEMMA SessionUsed ==
  ASSUME NEW s \in Sessions, NEW n \in 0..SearchLimit, NEW u \in SUBSET (Direct \cup Deferred)
  PROVE  /\ [s EXCEPT !.used = n, !.unlocked = u] \in Sessions
         /\ [s EXCEPT !.used = n, !.unlocked = u].reason = s.reason
         /\ [s EXCEPT !.used = n, !.unlocked = u].last = s.last
         /\ [s EXCEPT !.used = n, !.unlocked = u].sent = s.sent
  BY DEF Sessions

\* A call leaves the answered text, the stop reason and the reminder's flag of the
\* session, and the counters of the loop, as they were.
LEMMA ToolStep ==
  ASSUME TypeInv, ExecuteTool
  PROVE  /\ Head(loop.calls) \in Calls
         /\ loop' \in Loops /\ loop'.step = loop.step /\ loop'.empty = loop.empty
         /\ session' \in Sessions /\ session'.reason = session.reason
         /\ session'.last = session.last /\ session'.sent = session.sent
         /\ log' \in Seq([call : Calls, ran : BOOLEAN])
         /\ seen' \in [Outputs -> Nat]
<1> DEFINE c == Head(loop.calls)
<1>0. loop.calls # <<>>
  BY DEF ExecuteTool
<1>1. c \in Calls
  BY <1>0, Typed
<1>2. /\ session \in Sessions /\ loop \in Loops /\ loop.sum \in Summaries
      /\ log \in Seq([call : Calls, ran : BOOLEAN]) /\ seen \in [Outputs -> Nat]
  BY Typed DEF TypeOK
<1> HIDE DEF c
<1>3. ASSUME NEW sum \in Summaries, Answered(sum)
      PROVE  loop' \in Loops /\ loop'.step = loop.step /\ loop'.empty = loop.empty
  <2>1. [loop EXCEPT !.calls = Tail(@), !.sum = sum] \in Loops
    BY <1>0, <1>2, AnsweredType
  <2>2. [loop EXCEPT !.calls = Tail(@), !.sum = sum].step = loop.step
        /\ [loop EXCEPT !.calls = Tail(@), !.sum = sum].empty = loop.empty
    BY <1>0, <1>2, AnsweredType
  <2> QED BY <1>3, <2>1, <2>2 DEF Answered
<1>4. ASSUME NEW d \in BOOLEAN, NEW f \in BOOLEAN
      PROVE  [Noted(c) EXCEPT !.denied = d, !.failed = f] \in Summaries
  BY <1>1, <1>2, NotedIn DEF Summaries
<1>5. /\ Noted(c) \in Summaries /\ Noted(c).denied \in BOOLEAN /\ Noted(c).failed \in BOOLEAN
  BY <1>1, <1>2, NotedIn DEF Summaries
<1>6. [Noted(c) EXCEPT !.failed = TRUE] \in Summaries
  BY <1>5 DEF Summaries
<1>7. ASSUME NEW b \in BOOLEAN
      PROVE  Append(log, [call |-> c, ran |-> b]) \in Seq([call : Calls, ran : BOOLEAN])
  BY <1>1, <1>2
<1>8. CASE CallCompact
  BY <1>2, <1>3, <1>8, <1>1 DEF CallCompact, c
<1>9. CASE CallOverBudget
  BY <1>1, <1>2, <1>3, <1>6, <1>9 DEF CallOverBudget, c
<1>10. CASE CallExecutor
  <2> DEFINE ran == CanExecute(c.tool) /\ ~GuardDenies(c)
             unlocks == IF ran THEN Unlock(c) ELSE session.unlocked
  <2>1. ran \in BOOLEAN
    OBVIOUS
  <2>2. /\ log' = Append(log, [call |-> c, ran |-> ran])
        /\ session' = [session EXCEPT !.used = UsedAfter(c), !.unlocked = unlocks]
        /\ ~BudgetDenies(c)
    BY <1>10 DEF CallExecutor, c
  <2>3. unlocks \in SUBSET (Direct \cup Deferred)
    BY <1>1, <1>2, UnlockType DEF Sessions
  <2> HIDE DEF ran, unlocks
  <2>4. session' \in Sessions /\ session'.reason = session.reason
        /\ session'.last = session.last /\ session'.sent = session.sent
    BY <1>1, <1>2, <2>2, <2>3, UsedType, SessionUsed
  <2>5. log' \in Seq([call : Calls, ran : BOOLEAN])
    BY <1>7, <2>1, <2>2
  <2>6. CASE GuardDenies(c)
    <3>1. Answered([Noted(c) EXCEPT !.denied = TRUE, !.failed = TRUE]) /\ UNCHANGED seen
      BY <1>10, <2>6 DEF CallExecutor, c
    <3> QED BY <1>1, <1>2, <1>3, <1>4, <2>4, <2>5, <3>1 DEF c
  <2>7. CASE Answered(Noted(c)) /\ UNCHANGED seen
    BY <1>1, <1>2, <1>3, <1>5, <2>4, <2>5, <2>7 DEF c
  <2>8. ASSUME NEW o \in Outputs, seen' = [seen EXCEPT ![o] = @ + 1],
               Answered([Noted(c) EXCEPT !.denied = @ \/ seen[o] + 1 >= ResultLimit,
                                         !.failed = @ \/ seen[o] + 1 >= ResultLimit])
        PROVE  loop' \in Loops /\ loop'.step = loop.step /\ loop'.empty = loop.empty /\ seen' \in [Outputs -> Nat]
    <3> DEFINE over == seen[o] + 1 >= ResultLimit
               d == Noted(c).denied \/ over
               f == Noted(c).failed \/ over
    <3>1. seen' \in [Outputs -> Nat]
      BY <1>2, <2>8
    <3>2. d \in BOOLEAN /\ f \in BOOLEAN
      OBVIOUS
    <3>3. Answered([Noted(c) EXCEPT !.denied = d, !.failed = f])
      BY <2>8
    <3> HIDE DEF d, f
    <3>4. [Noted(c) EXCEPT !.denied = d, !.failed = f] \in Summaries
      BY <1>4, <3>2
    <3> QED BY <1>3, <3>1, <3>3, <3>4
  <2>9. CASE ~GuardDenies(c) /\ ~(Answered(Noted(c)) /\ UNCHANGED seen)
    <3>1. PICK o \in Outputs :
             /\ seen' = [seen EXCEPT ![o] = @ + 1]
             /\ Answered([Noted(c) EXCEPT !.denied = @ \/ seen[o] + 1 >= ResultLimit,
                                          !.failed = @ \/ seen[o] + 1 >= ResultLimit])
      BY <1>10, <2>9 DEF CallExecutor, c
    <3> QED BY <1>1, <2>4, <2>5, <2>8, <3>1 DEF c
  <2> QED BY <2>6, <2>7, <2>9
<1>11. CASE CallRefused
  <2>1. /\ session' = [session EXCEPT !.used = UsedAfter(c)] /\ UNCHANGED seen /\ ~BudgetDenies(c)
        /\ Answered([Noted(c) EXCEPT !.failed = TRUE])
        /\ log' = log \/ log' = Append(log, [call |-> c, ran |-> FALSE])
    BY <1>11 DEF CallRefused, c
  <2>2. UsedAfter(c) \in 0..SearchLimit
    BY <1>1, <1>2, <2>1, UsedType
  <2>3. session' \in Sessions /\ session'.reason = session.reason
        /\ session'.last = session.last /\ session'.sent = session.sent
    BY <1>2, <2>1, <2>2 DEF Sessions
  <2> QED BY <1>1, <1>2, <1>3, <1>6, <1>7, <2>1, <2>3 DEF c
<1> QED BY <1>8, <1>9, <1>10, <1>11 DEF ExecuteTool

LEMMA ExecuteTypeInv == TypeInv /\ ExecuteTool => TypeInv'
<1> SUFFICES ASSUME TypeInv, ExecuteTool PROVE TypeInv'
  OBVIOUS
<1>1. UNCHANGED <<pc, turn, run, stored, reply, delivered, reminded>> /\ pc = "tools"
  BY DEF ExecuteTool
<1>2. TypeOK'
  BY <1>1, ToolStep, Typed DEF TypeOK
<1> QED BY <1>1, <1>2, ToolStep, Typed DEF TypeInv, FlowInv

\* The positions of a sequence that satisfy a condition are counted by a number.
LEMMA CountedPositions ==
  ASSUME NEW S, NEW s \in Seq(S), NEW I, I \subseteq DOMAIN s
  PROVE  IsFiniteSet(I) /\ Cardinality(I) \in Nat
<1>1. DOMAIN s = 1..Len(s) /\ Len(s) \in Nat
  OBVIOUS
<1>2. IsFiniteSet(1..Len(s))
  BY <1>1, FS_Interval
<1> QED BY <1>1, <1>2, FS_Subset, FS_CardinalityType

LEMMA AttemptsType == ASSUME loop \in Loops PROVE Attempts \in [Tools -> Nat]
<1>1. loop.sum.unavailable \in Seq(Tools) /\ loop.attempts \in [Tools -> Nat]
  BY DEF Loops, Summaries
<1>2. ASSUME NEW t \in Tools PROVE loop.attempts[t] + Missed(t) \in Nat
  <2>1. Missed(t) \in Nat
    BY <1>1, CountedPositions DEF Missed
  <2> QED BY <1>1, <2>1
<1> QED BY <1>2 DEF Attempts

LEMMA AfterToolsTypeInv == TypeInv /\ AfterTools => TypeInv'
<1> SUFFICES ASSUME TypeInv, AfterTools PROVE TypeInv'
  OBVIOUS
<1>0. UNCHANGED <<turn, stored, turnVars, delivered>> /\ pc = "tools"
  BY DEF AfterTools
<1>1. /\ log' \in Seq([call : Calls, ran : BOOLEAN]) /\ seen' \in [Outputs -> Nat] /\ reminded' \in BOOLEAN
      /\ loop \in Loops /\ UNCHANGED <<turn, stored, delivered>>
  BY <1>0, Typed DEF TypeOK, turnVars
<1>2. [loop EXCEPT !.attempts = Attempts] \in Loops /\ [loop EXCEPT !.attempts = Attempts].step = loop.step
      /\ [loop EXCEPT !.attempts = Attempts].empty = loop.empty
  <2>1. Attempts \in [Tools -> Nat]
    BY <1>1, AttemptsType
  <2> QED BY <1>1, <2>1 DEF Loops
<1>3. loop' = loop \/ loop' = [loop EXCEPT !.attempts = Attempts]
  BY DEF AfterTools
<1>4. loop' \in Loops /\ loop'.step = loop.step /\ loop'.empty = loop.empty
  BY <1>1, <1>2, <1>3
<1>5. ASSUME NEW why \in StopReasons, StopTurn(why) PROVE TypeInv'
  BY <1>1, <1>4, <1>5, StopStep
<1>6. CASE pc' = "head" /\ UNCHANGED <<session, run, reply>>
  <2>1. TypeOK'
    BY <1>1, <1>4, <1>6, Typed DEF TypeOK
  <2> QED BY <1>0, <1>4, <1>6, <2>1, Typed DEF TypeInv, FlowInv
<1>7. \/ \E why \in StopReasons : StopTurn(why)
      \/ pc' = "head" /\ UNCHANGED <<session, run, reply>>
  BY DEF AfterTools, Reflect, StopReasons
<1> QED BY <1>5, <1>6, <1>7

LEMMA RestTypeInv == TypeInv /\ (Finish \/ Save \/ Publish \/ Fail \/ Crash) => TypeInv'
<1> SUFFICES ASSUME TypeInv, Finish \/ Save \/ Publish \/ Fail \/ Crash PROVE TypeInv'
  OBVIOUS
<1>1. CASE Finish
  <2>1. run' \in [status : {"none", "running", "completed", "stopped", "failed"}, reason : StopReasons \cup {NoReason}]
    BY <1>1, Typed DEF Finish, TypeOK
  <2>2. TypeOK'
    BY <1>1, <2>1, Typed DEF Finish, TypeOK, turnVars
  <2> QED BY <1>1, <2>2, Typed DEF TypeInv, Finish, FlowInv
<1>2. CASE Save \/ Publish
  <2>1. TypeOK'
    BY <1>2, Typed DEF Save, Publish, TypeOK, turnVars, Sessions
  <2> QED BY <1>2, <2>1 DEF TypeInv, Save, Publish, FlowInv
<1>3. CASE Fail
  <2>1. run' \in [status : {"none", "running", "completed", "stopped", "failed"}, reason : StopReasons \cup {NoReason}]
    BY <1>3, Typed DEF Fail, TypeOK
  <2>2. TypeOK'
    BY <1>3, <2>1, Typed DEF Fail, TypeOK, turnVars
  <2> QED BY <1>3, <2>2 DEF TypeInv, Fail, FlowInv
<1>4. CASE Crash
  <2>1. run' \in [status : {"none", "running", "completed", "stopped", "failed"}, reason : StopReasons \cup {NoReason}]
    BY <1>4 DEF Crash
  <2>2. log' \in Seq([call : Calls, ran : BOOLEAN]) /\ seen' \in [Outputs -> Nat]
    BY <1>4 DEF Crash
  <2>3. TypeOK'
    BY <1>4, <2>1, <2>2, Typed, FreshValues DEF Crash, TypeOK
  <2> QED BY <1>4, <2>3 DEF TypeInv, Crash, FlowInv
<1> QED BY <1>1, <1>2, <1>3, <1>4

LEMMA StutterTypeInv == TypeInv /\ UNCHANGED vars => TypeInv'
  BY DEF TypeInv, TypeOK, FlowInv, vars

\* TypeOK and FlowInv are preserved by every step.
LEMMA NextTypeInv == TypeInv /\ [Next]_vars => TypeInv'
  BY ReceiveTypeInv, StartStepTypeInv, ModelTypeInv, ExecuteTypeInv, AfterToolsTypeInv,
     RestTypeInv, StutterTypeInv DEF Next, Advance

\* The session, the loop's locals and the guard's state keep their types: the
\* counters of a turn stay within their limits (ReasoningLoop.run), the search
\* count within the budget of the turn, and only tools of the mode are unlocked.
THEOREM TypeCorrect == Spec => []TypeOK
<1>1. Init => TypeInv
  BY InitTypeInv
<1>2. TypeInv /\ [Next]_vars => TypeInv'
  BY NextTypeInv
<1>3. TypeInv => TypeOK
  BY DEF TypeInv
<1> QED BY <1>1, <1>2, <1>3, PTL DEF Spec

-----------------------------------------------------------------------------
(* Nothing of one turn is taken for that of another                          *)

Searches == {i \in DOMAIN log : log[i].ran /\ log[i].call.tool = "web_search"}
Unlocked(t) == \E s \in Calls : s.tool = "tool_search" /\ s.arg = t /\ Ran(s)

\* The searches in the log were counted in the session (used); and what is
\* unlocked while the loop runs was unlocked by a call of this turn.
SearchInv == SearchLimit > 0 => Cardinality(Searches) <= session.used
UnlockInv == pc \in {"head", "model", "tools"} => \A t \in session.unlocked : Unlocked(t)

StaleInv == SearchInv /\ UnlockInv /\ UnlocksLastOneTurn /\ ReasonIsThisTurns /\ ReplyIsThisTurns

\* A call either leaves the log alone, or adds itself to it: as one that ran,
\* only when the policy and the guard let it.
LEMMA ToolStepLog ==
  ASSUME TypeInv, ExecuteTool
  PROVE  \/ log' = log /\ session'.unlocked = session.unlocked /\ session'.used >= session.used
         \/ \E b \in BOOLEAN :
              /\ log' = Append(log, [call |-> Head(loop.calls), ran |-> b])
              /\ b => CanExecute(Head(loop.calls).tool) /\ ~GuardDenies(Head(loop.calls))
              /\ session'.unlocked = IF b THEN Unlock(Head(loop.calls)) ELSE session.unlocked
              /\ session'.used = UsedAfter(Head(loop.calls))
<1> DEFINE c == Head(loop.calls)
<1> HIDE DEF c
<1>1. session \in Sessions /\ c \in Calls
  BY Typed, ToolStep DEF c
<1>2. UsedAfter(c) >= session.used
  BY <1>1, Bounds DEF UsedAfter, Sessions
<1>3. CASE CallCompact \/ CallOverBudget
  BY <1>1, <1>3, Bounds DEF CallCompact, CallOverBudget, Sessions
<1>4. CASE CallExecutor
  <2> DEFINE ran == CanExecute(c.tool) /\ ~GuardDenies(c)
             unlocks == IF ran THEN Unlock(c) ELSE session.unlocked
  <2>1. /\ log' = Append(log, [call |-> c, ran |-> ran])
        /\ session' = [session EXCEPT !.used = UsedAfter(c), !.unlocked = unlocks]
    BY <1>4 DEF CallExecutor, c
  <2>2. session'.used = UsedAfter(c) /\ session'.unlocked = unlocks
    BY <1>1, <2>1 DEF Sessions
  <2>3. ran \in BOOLEAN
    OBVIOUS
  <2> QED BY <2>1, <2>2, <2>3 DEF c
<1>5. CASE CallRefused
  <2>1. /\ session' = [session EXCEPT !.used = UsedAfter(c)]
        /\ log' = log \/ log' = Append(log, [call |-> c, ran |-> FALSE])
    BY <1>5 DEF CallRefused, c
  <2>2. session'.used = UsedAfter(c) /\ session'.unlocked = session.unlocked
    BY <1>1, <2>1 DEF Sessions
  <2>3. FALSE \in BOOLEAN
    OBVIOUS
  <2> QED BY <1>2, <2>1, <2>2, <2>3 DEF c
<1> QED BY <1>3, <1>4, <1>5 DEF ExecuteTool

\* One more entry adds at most one to what is counted in a sequence.
LEMMA AppendCount ==
  ASSUME NEW S, NEW s \in Seq(S), NEW J, J \subseteq DOMAIN s, NEW K, K \subseteq J \cup {Len(s) + 1}
  PROVE  /\ Cardinality(K) <= Cardinality(J) + 1
         /\ K \subseteq J => Cardinality(K) <= Cardinality(J)
         /\ Cardinality(J) \in Nat /\ Cardinality(K) \in Nat
<1>1. IsFiniteSet(J) /\ Cardinality(J) \in Nat
  BY CountedPositions
<1>2. IsFiniteSet(J \cup {Len(s) + 1}) /\ Cardinality(J \cup {Len(s) + 1}) <= Cardinality(J) + 1
  <2> DEFINE n == Len(s) + 1
  <2> HIDE DEF n
  <2>1. IsFiniteSet(J \cup {n}) /\ Cardinality(J \cup {n}) = IF n \in J THEN Cardinality(J) ELSE Cardinality(J) + 1
    BY <1>1, FS_AddElement
  <2>2. Cardinality(J \cup {n}) <= Cardinality(J) + 1
    BY <1>1, <2>1
  <2> QED BY <2>1, <2>2 DEF n
<1>3. Cardinality(J \cup {Len(s) + 1}) \in Nat
  BY <1>2, FS_CardinalityType
<1>4. IsFiniteSet(K) /\ Cardinality(K) \in Nat /\ Cardinality(K) <= Cardinality(J \cup {Len(s) + 1})
  BY <1>2, FS_Subset, FS_CardinalityType
<1>5. K \subseteq J => Cardinality(K) <= Cardinality(J)
  BY <1>1, FS_Subset
<1> QED BY <1>1, <1>2, <1>3, <1>4, <1>5

LEMMA EmptyCount ==
  ASSUME log' = <<>>
  PROVE  /\ Cardinality(Searches') = 0
         /\ \A c : ~Ran(c)'
<1>1. Searches' = {}
  BY DEF Searches
<1> QED BY <1>1, FS_EmptySet DEF Ran

LEMMA ExecuteStaleInv == TypeInv /\ StaleInv /\ ExecuteTool => StaleInv'
<1> SUFFICES ASSUME TypeInv, StaleInv, ExecuteTool PROVE StaleInv'
  OBVIOUS
<1> DEFINE c == Head(loop.calls)
<1>1. pc = "tools" /\ pc' = "tools"
  BY DEF ExecuteTool
<1>2. /\ c \in Calls /\ session \in Sessions /\ session' \in Sessions
      /\ log \in Seq([call : Calls, ran : BOOLEAN])
  BY Typed, ToolStep DEF TypeOK
<1> HIDE DEF c
<1>3. CASE /\ log' = log /\ session'.unlocked = session.unlocked /\ session'.used >= session.used
  <2>1. UnlockInv' /\ UnlocksLastOneTurn'
    BY <1>1, <1>3 DEF StaleInv, UnlockInv, UnlocksLastOneTurn, Unlocked, Ran
  <2>2. Searches' = Searches /\ Cardinality(Searches) \in Nat
    BY <1>2, <1>3, CountedPositions DEF Searches
  <2>3. SearchInv'
    BY <1>2, <1>3, <2>2, Bounds DEF StaleInv, SearchInv, Sessions
  <2> QED BY <1>1, <2>1, <2>3 DEF StaleInv, ReasonIsThisTurns, ReplyIsThisTurns
<1>4. ASSUME NEW b \in BOOLEAN,
             log' = Append(log, [call |-> c, ran |-> b]),
             b => CanExecute(c.tool),
             session'.unlocked = IF b THEN Unlock(c) ELSE session.unlocked,
             session'.used = UsedAfter(c)
      PROVE  StaleInv'
  <2>1. /\ DOMAIN log' = DOMAIN log \cup {Len(log) + 1} /\ Len(log) + 1 \notin DOMAIN log
        /\ \A i \in DOMAIN log : log'[i] = log[i]
        /\ log'[Len(log) + 1] = [call |-> c, ran |-> b]
    BY <1>2, <1>4
  <2>2. \A d : Ran(d)' <=> Ran(d) \/ (d = c /\ b)
    BY <2>1 DEF Ran
  <2>3. \A t \in session.unlocked : Unlocked(t)
    BY <1>1 DEF StaleInv, UnlockInv
  <2>4. UnlockInv'
    BY <1>2, <1>4, <2>2, <2>3 DEF UnlockInv, Unlocked, Unlock
  <2>5. b /\ c.tool \in Deferred => Unlocked(c.tool)
    BY <1>4, <2>3, LoopAssumption DEF CanExecute
  <2>6. UnlocksLastOneTurn'
    BY <2>2, <2>5 DEF StaleInv, UnlocksLastOneTurn, Unlocked
  <2>7. /\ Searches' \subseteq Searches \cup {Len(log) + 1}
        /\ c.tool # "web_search" => Searches' \subseteq Searches
    BY <2>1 DEF Searches
  <2>8. Searches \subseteq DOMAIN log
    BY DEF Searches
  <2> DEFINE K == Searches'
             J == Searches
  <2> HIDE DEF K, J
  <2>9. /\ Cardinality(K) <= Cardinality(J) + 1
        /\ c.tool # "web_search" => Cardinality(K) <= Cardinality(J)
        /\ Cardinality(J) \in Nat /\ Cardinality(K) \in Nat
    BY <1>2, <2>7, <2>8, AppendCount DEF K, J
  <2>10. SearchLimit > 0 => Cardinality(J) <= session.used
    BY DEF StaleInv, SearchInv, J
  <2>11. SearchLimit > 0 => Cardinality(K) <= session'.used
    BY <1>2, <1>4, <2>9, <2>10 DEF UsedAfter, Sessions
  <2>12. SearchInv'
    BY <2>11 DEF SearchInv, K
  <2> QED BY <1>1, <2>4, <2>6, <2>12 DEF StaleInv, ReasonIsThisTurns, ReplyIsThisTurns
<1>5. \/ log' = log /\ session'.unlocked = session.unlocked /\ session'.used >= session.used
      \/ \E b \in BOOLEAN :
           /\ log' = Append(log, [call |-> c, ran |-> b])
           /\ b => CanExecute(c.tool)
           /\ session'.unlocked = IF b THEN Unlock(c) ELSE session.unlocked
           /\ session'.used = UsedAfter(c)
  BY ToolStepLog DEF c
<1> QED BY <1>3, <1>4, <1>5

LEMMA ReceiveStaleInv == TypeInv /\ StaleInv /\ Receive => StaleInv'
<1> SUFFICES ASSUME TypeInv, StaleInv, Receive PROVE StaleInv'
  OBVIOUS
<1>1. session \in Sessions /\ loop'.step = 0 /\ pc' # "save" /\ pc' # "publish" /\ pc' # "tools" /\ pc' # "model"
  BY Typed, FreshValues DEF Receive, Chat, Switch, Abort
<1>2. ReasonIsThisTurns'
  BY <1>1 DEF ReasonIsThisTurns
<1>3. ReplyIsThisTurns'
  BY <1>1 DEF ReplyIsThisTurns, Receive, Chat, Switch, Abort
<1>4. CASE Chat
  <2>1. log' = <<>> /\ session' = BeforeTurn(session)
    BY <1>4 DEF Chat
  <2>2. session'.unlocked = {} /\ session'.used = 0
    BY <1>1, <2>1 DEF BeforeTurn, Sessions
  <2>3. SearchInv'
    BY <2>1, <2>2, EmptyCount DEF SearchInv
  <2>4. UnlocksLastOneTurn' /\ UnlockInv'
    BY <2>1, <2>2, EmptyCount DEF UnlocksLastOneTurn, UnlockInv
  <2> QED BY <1>2, <1>3, <2>3, <2>4 DEF StaleInv
<1>5. CASE Switch \/ Abort
  <2>1. log' = log /\ pc' = "finish" /\ session'.used = session.used
    BY <1>1, <1>5 DEF Switch, Abort, turnVars, Sessions
  <2>2. SearchInv' /\ UnlocksLastOneTurn' /\ UnlockInv'
    BY <2>1 DEF StaleInv, SearchInv, Searches, UnlocksLastOneTurn, UnlockInv, Ran
  <2> QED BY <1>2, <1>3, <2>2 DEF StaleInv
<1> QED BY <1>4, <1>5 DEF Receive

\* A step of the loop that executes no tool leaves the unlocks and the count.
LEMMA KeptStaleInv ==
  ASSUME StaleInv, UNCHANGED log, session'.unlocked = session.unlocked, session'.used = session.used,
         pc' \in {"head", "model", "tools"} => pc \in {"head", "model", "tools"},
         ReasonIsThisTurns', ReplyIsThisTurns'
  PROVE  StaleInv'
<1>1. UnlockInv' /\ UnlocksLastOneTurn'
  BY DEF StaleInv, UnlockInv, UnlocksLastOneTurn, Unlocked, Ran
<1>2. SearchInv'
  BY DEF StaleInv, SearchInv, Searches
<1> QED BY <1>1, <1>2 DEF StaleInv

LEMMA LoopStaleInv ==
  TypeInv /\ StaleInv /\ (StartStep \/ ModelEmpty \/ ModelAnswers \/ ModelCalls \/ AfterTools) => StaleInv'
<1> SUFFICES ASSUME TypeInv, StaleInv,
                    StartStep \/ ModelEmpty \/ ModelAnswers \/ ModelCalls \/ AfterTools
             PROVE  StaleInv'
  OBVIOUS
<1>1. /\ pc \in {"head", "model", "tools"} /\ UNCHANGED <<log, turn>> /\ session \in Sessions
      /\ pc' # "save" /\ pc' # "publish"
  BY Typed DEF StartStep, ModelEmpty, ModelAnswers, ModelCalls, AfterTools, StopTurn, ReturnWith, Reflect, turnVars
<1>2. CASE UNCHANGED session /\ pc' # "finish"
  BY <1>1, <1>2, KeptStaleInv DEF ReasonIsThisTurns, ReplyIsThisTurns
<1>3. CASE ModelCalls
  <2>1. session' = [session EXCEPT !.last = turn] /\ pc' = "tools"
    BY <1>3 DEF ModelCalls
  <2>2. session'.unlocked = session.unlocked /\ session'.used = session.used
    BY <1>1, <2>1 DEF Sessions
  <2> QED BY <1>1, <2>1, <2>2, KeptStaleInv DEF ReasonIsThisTurns, ReplyIsThisTurns
<1>4. CASE ModelAnswers
  <2>1. session' = [session EXCEPT !.last = turn] /\ pc' = "finish" /\ reply' = session'.last
    BY <1>4 DEF ModelAnswers, ReturnWith
  <2>2. session'.unlocked = session.unlocked /\ session'.used = session.used /\ session'.last = turn
    BY <1>1, <2>1 DEF Sessions
  <2> QED BY <1>1, <2>1, <2>2, KeptStaleInv DEF ReasonIsThisTurns, ReplyIsThisTurns
<1>5. ASSUME NEW why, StopTurn(why) PROVE StaleInv'
  <2>1. session' = [session EXCEPT !.last = turn, !.reason = why] /\ pc' = "finish" /\ reply' = session'.last
    BY <1>5 DEF StopTurn, ReturnWith
  <2>2. session'.unlocked = session.unlocked /\ session'.used = session.used /\ session'.last = turn
    BY <1>1, <2>1 DEF Sessions
  <2> QED BY <1>1, <2>1, <2>2, KeptStaleInv DEF ReasonIsThisTurns, ReplyIsThisTurns
<1>6. CASE StartStep
  <2>1. ASSUME ~StopTurn("reasoning_step_limit") PROVE StaleInv'
    <3>1. \E b : session' = [session EXCEPT !.sent = b]
      BY <1>6, <2>1 DEF StartStep
    <3>2. session'.unlocked = session.unlocked /\ session'.used = session.used /\ pc' = "model"
      BY <1>1, <1>6, <2>1, <3>1 DEF Sessions, StartStep
    <3> QED BY <1>1, <3>2, KeptStaleInv DEF ReasonIsThisTurns, ReplyIsThisTurns
  <2> QED BY <1>5, <2>1
<1>7. CASE ModelEmpty
  BY <1>2, <1>5, <1>7 DEF ModelEmpty
<1>8. CASE AfterTools
  BY <1>2, <1>5, <1>8 DEF AfterTools, Reflect
<1> QED BY <1>3, <1>4, <1>6, <1>7, <1>8

LEMMA RestStaleInv == TypeInv /\ StaleInv /\ (Finish \/ Save \/ Publish \/ Fail) => StaleInv'
<1> SUFFICES ASSUME TypeInv, StaleInv, Finish \/ Save \/ Publish \/ Fail PROVE StaleInv'
  OBVIOUS
<1>1. UNCHANGED <<session, log, turn, reply, loop>> /\ pc' \notin {"head", "model", "tools"}
  BY DEF Finish, Save, Publish, Fail, turnVars
<1>2. ReplyIsThisTurns'
  BY <1>1 DEF StaleInv, ReplyIsThisTurns, Finish, Save, Publish, Fail
<1>3. ReasonIsThisTurns'
  <2>1. CASE Finish
    <3>1. run' = IF run.status = "running" THEN [run EXCEPT !.status = "completed"] ELSE run
      BY <2>1 DEF Finish
    <3>2. run.status = "running" => run'.status = "completed" /\ run'.reason = run.reason
      BY <3>1, Typed DEF TypeOK
    <3> QED BY <1>1, <2>1, <3>1, <3>2, Typed DEF FlowInv, ReasonIsThisTurns, Finish
  <2>2. CASE Save \/ Publish \/ Fail
    BY <2>2 DEF ReasonIsThisTurns, Save, Publish, Fail
  <2> QED BY <2>1, <2>2
<1> QED BY <1>1, <1>2, <1>3, KeptStaleInv

LEMMA CrashStaleInv == TypeInv /\ Crash => StaleInv'
<1> SUFFICES ASSUME TypeInv, Crash PROVE StaleInv'
  OBVIOUS
<1>1. pc' = "idle" /\ log' = <<>> /\ session' = stored
  BY DEF Crash
<1>2. session' \in Sessions
  BY <1>1, Typed
<1>3. SearchInv'
  BY <1>1, <1>2, EmptyCount, Bounds DEF SearchInv, Sessions
<1>4. UnlocksLastOneTurn'
  BY <1>1, EmptyCount DEF UnlocksLastOneTurn
<1> QED BY <1>1, <1>3, <1>4 DEF StaleInv, UnlockInv, ReasonIsThisTurns, ReplyIsThisTurns

LEMMA InitStaleInv == Init => StaleInv
<1> SUFFICES ASSUME Init PROVE StaleInv
  OBVIOUS
<1>1. pc = "idle" /\ log = <<>> /\ session \in Sessions
  BY FreshValues DEF Init
<1>2. Searches = {} /\ \A c : ~Ran(c)
  BY <1>1 DEF Searches, Ran
<1>3. SearchInv
  BY <1>1, <1>2, FS_EmptySet, Bounds DEF SearchInv, Sessions
<1> QED BY <1>1, <1>2, <1>3 DEF StaleInv, UnlockInv, UnlocksLastOneTurn, ReasonIsThisTurns, ReplyIsThisTurns

LEMMA StutterStaleInv == StaleInv /\ UNCHANGED vars => StaleInv'
  BY DEF StaleInv, SearchInv, Searches, UnlockInv, UnlocksLastOneTurn, ReasonIsThisTurns, ReplyIsThisTurns, Unlocked, Ran, vars

\* What a turn leaves in the session's metadata and messages is never taken for
\* that of a later turn (Pipeline._before_turn, reset_turn_unlocks): within a turn
\* no more searches run than its budget allows, a deferred tool runs only if
\* tool_search unlocked it in this turn, the stop reason and the published text
\* are this turn's, across failed turns and restarts of the process.
THEOREM TurnsAreSeparate == Spec => []NothingIsStale
<1>1. Init => TypeInv /\ StaleInv
  BY InitTypeInv, InitStaleInv
<1>2. TypeInv /\ StaleInv /\ [Next]_vars => TypeInv' /\ StaleInv'
  <2> SUFFICES ASSUME TypeInv, StaleInv, [Next]_vars PROVE TypeInv' /\ StaleInv'
    OBVIOUS
  <2>1. TypeInv'
    BY NextTypeInv
  <2>2. StaleInv'
    BY ReceiveStaleInv, LoopStaleInv, ExecuteStaleInv, RestStaleInv, CrashStaleInv, StutterStaleInv
       DEF Next, Advance
  <2> QED BY <2>1, <2>2
<1>3. TypeInv /\ StaleInv => NothingIsStale
  <2> SUFFICES ASSUME TypeInv, StaleInv PROVE NothingIsStale
    OBVIOUS
  <2>1. session \in Sessions /\ log \in Seq([call : Calls, ran : BOOLEAN])
    BY Typed DEF TypeOK
  <2>2. Cardinality(Searches) \in Nat
    BY <2>1, CountedPositions DEF Searches
  <2>3. SearchLimit > 0 => Cardinality(Searches) <= SearchLimit
    BY <2>1, <2>2, Bounds DEF StaleInv, SearchInv, Sessions
  <2>4. SearchesWithinBudget
    BY <2>3 DEF SearchesWithinBudget, Searches
  <2> QED BY <2>4 DEF StaleInv, NothingIsStale
<1> QED BY <1>1, <1>2, <1>3, PTL DEF Spec

-----------------------------------------------------------------------------
(* What was published is in the database                                     *)

SavedInv ==
  /\ delivered <= stored.last /\ stored.last <= session.last /\ session.last <= turn
  /\ pc = "publish" => session.last = stored.last

\* A step that saves nothing moves the session's last text to this turn or not at all.
LEMMA UnsavedStep ==
  ASSUME TypeInv, SavedInv, UNCHANGED <<stored, delivered>>, pc' # "publish",
         turn' \in 0..MaxTurns, turn' >= turn,
         session'.last = session.last \/ session'.last = turn'
  PROVE  SavedInv'
<1>1. session.last \in Nat /\ stored.last \in Nat /\ turn \in Nat
  BY Typed, Bounds DEF Sessions
<1> QED BY <1>1, Bounds DEF SavedInv

LEMMA NextSavedInv == TypeInv /\ SavedInv /\ [Next]_vars => SavedInv'
<1> SUFFICES ASSUME TypeInv, SavedInv, [Next]_vars PROVE SavedInv'
  OBVIOUS
<1>1. session \in Sessions /\ stored \in Sessions /\ turn \in 0..MaxTurns /\ turn >= turn
  BY Typed, Bounds
<1>2. CASE Receive
  <2>1. turn' \in 0..MaxTurns /\ turn' >= turn /\ UNCHANGED <<stored, delivered>> /\ pc' # "publish"
    BY <1>1, <1>2, Bounds DEF Receive, Chat, Switch, Abort
  <2>2. session'.last = session.last \/ session'.last = turn'
    BY <1>1, <1>2 DEF Receive, Chat, Switch, Abort, BeforeTurn, Sessions
  <2> QED BY <2>1, <2>2, UnsavedStep
<1>3. ASSUME NEW why, StopTurn(why), UNCHANGED <<turn, stored, delivered>> PROVE SavedInv'
  <2>1. session' = [session EXCEPT !.last = turn, !.reason = why] /\ pc' = "finish"
    BY <1>3 DEF StopTurn, ReturnWith
  <2>2. session'.last = turn'
    BY <1>1, <1>3, <2>1 DEF Sessions
  <2> QED BY <1>1, <1>3, <2>1, <2>2, UnsavedStep
<1>4. CASE StartStep
  <2>1. ASSUME ~StopTurn("reasoning_step_limit") PROVE SavedInv'
    <3>1. \E b : session' = [session EXCEPT !.sent = b]
      BY <1>4, <2>1 DEF StartStep
    <3>2. session'.last = session.last /\ pc' = "model" /\ UNCHANGED <<turn, stored, delivered>>
      BY <1>1, <1>4, <2>1, <3>1 DEF Sessions, StartStep
    <3> QED BY <1>1, <3>2, UnsavedStep
  <2> QED BY <1>3, <1>4, <2>1 DEF StartStep
<1>5. CASE ModelEmpty
  <2>1. UNCHANGED <<turn, stored, delivered>> /\ pc' # "publish"
    BY <1>5 DEF ModelEmpty, StopTurn, ReturnWith
  <2>2. StopTurn("empty_model_response") \/ UNCHANGED session
    BY <1>5 DEF ModelEmpty
  <2> QED BY <1>1, <1>3, <2>1, <2>2, UnsavedStep
<1>6. CASE ModelAnswers \/ ModelCalls
  <2>1. session' = [session EXCEPT !.last = turn] /\ pc' # "publish" /\ UNCHANGED <<turn, stored, delivered>>
    BY <1>6 DEF ModelAnswers, ModelCalls, ReturnWith
  <2>2. session'.last = turn'
    BY <1>1, <2>1 DEF Sessions
  <2> QED BY <1>1, <2>1, <2>2, UnsavedStep
<1>7. CASE ExecuteTool
  BY <1>1, <1>7, ToolStep, UnsavedStep DEF ExecuteTool
<1>8. CASE AfterTools
  <2>1. UNCHANGED <<turn, stored, delivered>> /\ pc' # "publish"
    BY <1>8 DEF AfterTools, Reflect, StopTurn, ReturnWith
  <2>2. (\E why : StopTurn(why)) \/ UNCHANGED session
    BY <1>8 DEF AfterTools, Reflect
  <2> QED BY <1>1, <1>3, <2>1, <2>2, UnsavedStep
<1>9. CASE Finish \/ Fail
  BY <1>1, <1>9, UnsavedStep DEF Finish, Fail
<1>10. CASE Save
  <2>1. session.last \in Nat /\ stored.last \in Nat /\ delivered \in Nat
    BY <1>1, Typed, Bounds DEF Sessions, TypeOK
  <2> QED BY <1>10, <2>1 DEF SavedInv, Save
<1>11. CASE Publish
  BY <1>1, <1>11, Bounds DEF SavedInv, Publish, Sessions
<1>12. CASE Crash
  BY <1>1, <1>12, Bounds DEF SavedInv, Crash, Sessions
<1>13. CASE UNCHANGED vars
  BY <1>13 DEF SavedInv, vars
<1> QED BY <1>2, <1>4, <1>5, <1>6, <1>7, <1>8, <1>9, <1>10, <1>11, <1>12, <1>13 DEF Next, Advance

\* When a reply is published, the session up to its text is in the database
\* (sessions.save before bus.publish_outbound in run_inbound): a restart does not
\* forget what the user was told.
THEOREM RepliesAreSaved == Spec => []PublishedIsSaved
<1>1. Init => TypeInv /\ SavedInv
  <2> SUFFICES ASSUME Init PROVE SavedInv
    BY InitTypeInv
  <2>1. session.last = 0 /\ stored.last = 0 /\ delivered = 0 /\ turn = 0
    BY DEF Init, NewSession
  <2> QED BY <2>1 DEF SavedInv
<1>2. TypeInv /\ SavedInv /\ [Next]_vars => TypeInv' /\ SavedInv'
  BY NextTypeInv, NextSavedInv
<1>3. SavedInv => PublishedIsSaved
  BY DEF SavedInv, PublishedIsSaved
<1> QED BY <1>1, <1>2, <1>3, PTL DEF Spec

-----------------------------------------------------------------------------
(* The finishing reminder                                                    *)

\* Once a run has used its share of the budget, its model is asked only with the
\* reminder in the session (_maybe_inject_finishing_reminder), whatever the
\* budget, the ratio and the way the steps were spent.
THEOREM RemindedInTime == Spec => []ReminderNotSkipped
<1>1. Init => TypeInv /\ ReminderNotSkipped
  <2>1. Init => ReminderNotSkipped
    BY DEF Init, ReminderNotSkipped
  <2> QED BY <2>1, InitTypeInv
<1>2. TypeInv /\ ReminderNotSkipped /\ [Next]_vars => TypeInv' /\ ReminderNotSkipped'
  <2> SUFFICES ASSUME TypeInv, ReminderNotSkipped, [Next]_vars PROVE ReminderNotSkipped'
    BY NextTypeInv
  <2>1. CASE StartStep
    <3>1. CASE StopTurn("reasoning_step_limit")
      BY <3>1 DEF StopTurn, ReturnWith, ReminderNotSkipped
    <3>2. ASSUME ~StopTurn("reasoning_step_limit") PROVE ReminderNotSkipped'
      <4> DEFINE remind == ~session.sent /\ loop.step + 1 >= ReminderStep
      <4>1. /\ session' = [session EXCEPT !.sent = @ \/ remind]
            /\ loop' = [loop EXCEPT !.step = @ + 1]
        BY <2>1, <3>2 DEF StartStep
      <4>2. session'.sent = (session.sent \/ remind) /\ loop'.step = loop.step + 1
        BY <4>1, Typed DEF Sessions, Loops
      <4>3. session.sent \in BOOLEAN
        BY Typed DEF Sessions
      <4>4. loop'.step >= ReminderStep => session'.sent
        BY <4>2, <4>3
      <4>5. ReminderStep' = ReminderStep
        BY DEF ReminderStep
      <4> QED BY <4>4, <4>5 DEF ReminderNotSkipped
    <3> QED BY <3>1, <3>2
  <2>2. CASE UNCHANGED vars
    BY <2>2 DEF ReminderNotSkipped, ReminderStep, vars
  <2>3. CASE Next /\ ~StartStep
    <3>1. pc' # "model"
      BY <2>3 DEF Next, Advance, Receive, Chat, Switch, Abort, ModelEmpty, ModelAnswers, ModelCalls, ExecuteTool,
                  AfterTools, Reflect, StopTurn, ReturnWith, Finish, Save, Publish, Fail, Crash
    <3> QED BY <3>1 DEF ReminderNotSkipped
  <2> QED BY <2>1, <2>2, <2>3
<1> QED BY <1>1, <1>2, PTL DEF Spec

-----------------------------------------------------------------------------
(* The loop guard                                                            *)

Fresh == ~loop.sum.denied /\ \A o \in Outputs : seen[o] < ResultLimit
\* A result that was seen too often leaves a denial in the summary, and a turn
\* with a denial does not go back to the model.
DenialInv ==
  /\ pc \in {"head", "model"} => Fresh
  /\ pc = "tools" => loop.sum.denied \/ Fresh

LEMMA ExecuteDenialInv == TypeInv /\ DenialInv /\ ExecuteTool => DenialInv'
<1> SUFFICES ASSUME TypeInv, DenialInv, ExecuteTool PROVE DenialInv'
  OBVIOUS
<1> DEFINE c == Head(loop.calls)
<1>1. pc = "tools" /\ pc' = "tools" /\ loop.calls # <<>>
  BY DEF ExecuteTool
<1>2. c \in Calls /\ loop \in Loops /\ loop.sum \in Summaries /\ seen \in [Outputs -> Nat] /\ ResultLimit \in Nat
  BY Typed, ToolStep, LoopAssumption DEF TypeOK
<1> HIDE DEF c
<1>3. ASSUME NEW sum \in Summaries, Answered(sum) PROVE loop'.sum = sum
  <2>1. [loop EXCEPT !.calls = Tail(@), !.sum = sum].sum = sum
    BY <1>1, <1>2, AnsweredType
  <2> QED BY <1>3, <2>1 DEF Answered
<1>4. Noted(c) \in Summaries /\ Noted(c).denied = loop.sum.denied /\ Noted(c).failed \in BOOLEAN
  BY <1>2, NotedIn
<1>5. ASSUME NEW d \in BOOLEAN, NEW f \in BOOLEAN
      PROVE  /\ [Noted(c) EXCEPT !.denied = d, !.failed = f] \in Summaries
             /\ [Noted(c) EXCEPT !.denied = d, !.failed = f].denied = d
  BY <1>4 DEF Summaries
<1>6. ASSUME loop'.sum.denied = loop.sum.denied, UNCHANGED seen PROVE DenialInv'
  BY <1>1, <1>6 DEF DenialInv, Fresh
<1>7. ASSUME loop'.sum.denied PROVE DenialInv'
  BY <1>1, <1>7 DEF DenialInv
<1>8. [Noted(c) EXCEPT !.failed = TRUE] \in Summaries /\ [Noted(c) EXCEPT !.failed = TRUE].denied = loop.sum.denied
  BY <1>4 DEF Summaries
<1>9. CASE Answered([Noted(c) EXCEPT !.failed = TRUE]) /\ UNCHANGED seen
  BY <1>3, <1>6, <1>8, <1>9
<1>10. CASE Answered(loop.sum) /\ UNCHANGED seen
  BY <1>2, <1>3, <1>6, <1>10
<1>11. CASE CallExecutor
  <2>1. CASE GuardDenies(c)
    BY <1>3, <1>5, <1>7, <1>11, <2>1 DEF CallExecutor, c
  <2>2. CASE Answered(Noted(c)) /\ UNCHANGED seen
    BY <1>3, <1>4, <1>6, <2>2
  <2>3. CASE ~GuardDenies(c) /\ ~(Answered(Noted(c)) /\ UNCHANGED seen)
    <3>1. PICK o \in Outputs :
             /\ seen' = [seen EXCEPT ![o] = @ + 1]
             /\ Answered([Noted(c) EXCEPT !.denied = @ \/ seen[o] + 1 >= ResultLimit,
                                          !.failed = @ \/ seen[o] + 1 >= ResultLimit])
      BY <1>11, <2>3 DEF CallExecutor, c
    <3> DEFINE over == seen[o] + 1 >= ResultLimit
               d == Noted(c).denied \/ over
               f == Noted(c).failed \/ over
    <3>2. d \in BOOLEAN /\ f \in BOOLEAN
      OBVIOUS
    <3>3. Answered([Noted(c) EXCEPT !.denied = d, !.failed = f])
      BY <3>1
    <3>4. d <=> loop.sum.denied \/ over
      BY <1>4
    <3> HIDE DEF d, f
    <3>5. loop'.sum.denied = d
      BY <1>3, <1>5, <3>2, <3>3
    <3>6. over \/ (\A p \in Outputs : seen[p] < ResultLimit) => \A p \in Outputs : over \/ seen'[p] < ResultLimit
      BY <1>2, <3>1
    <3> QED BY <1>1, <1>7, <3>4, <3>5, <3>6 DEF DenialInv, Fresh
  <2> QED BY <2>1, <2>2, <2>3
<1> QED BY <1>9, <1>10, <1>11 DEF ExecuteTool, CallCompact, CallOverBudget, CallRefused, c

LEMMA NextDenialInv == TypeInv /\ DenialInv /\ [Next]_vars => DenialInv'
<1> SUFFICES ASSUME TypeInv, DenialInv, [Next]_vars PROVE DenialInv'
  OBVIOUS
<1>1. loop \in Loops /\ ResultLimit \in Nat /\ 0 < ResultLimit
  BY Typed, LoopAssumption
<1>2. CASE Receive
  <2>1. CASE Chat
    BY <1>1, <2>1, FreshValues DEF Chat, DenialInv, Fresh
  <2>2. CASE Switch \/ Abort
    BY <2>2 DEF Switch, Abort, DenialInv
  <2> QED BY <1>2, <2>1, <2>2 DEF Receive
<1>3. ASSUME pc \in {"head", "model"} \/ (pc = "tools" /\ ~loop.sum.denied), loop'.sum = loop.sum, UNCHANGED seen
      PROVE  DenialInv'
  BY <1>3 DEF DenialInv, Fresh
<1>4. CASE StartStep \/ ModelEmpty \/ ModelAnswers
  <2>1. loop'.sum = loop.sum
    BY <1>1, <1>4 DEF StartStep, ModelEmpty, ModelAnswers, Loops
  <2> QED BY <1>3, <1>4, <2>1 DEF StartStep, ModelEmpty, ModelAnswers, turnVars
<1>5. CASE ModelCalls
  <2>1. loop'.sum = NewSummary /\ UNCHANGED seen /\ pc = "model" /\ pc' = "tools"
    BY <1>1, <1>5 DEF ModelCalls, turnVars, Loops
  <2> QED BY <2>1, FreshValues DEF DenialInv, Fresh
<1>6. CASE ExecuteTool
  BY <1>6, ExecuteDenialInv
<1>7. CASE AfterTools
  <2>1. CASE loop.sum.denied
    BY <1>7, <2>1 DEF AfterTools, StopTurn, ReturnWith, DenialInv
  <2>2. CASE ~loop.sum.denied
    <3>1. loop'.sum = loop.sum
      BY <1>1, <1>7, <2>2 DEF AfterTools, Loops
    <3> QED BY <1>3, <1>7, <2>2, <3>1 DEF AfterTools, turnVars
  <2> QED BY <2>1, <2>2
<1>8. CASE Finish \/ Save \/ Publish \/ Fail \/ Crash
  BY <1>8 DEF Finish, Save, Publish, Fail, Crash, DenialInv
<1>9. CASE UNCHANGED vars
  BY <1>9 DEF DenialInv, Fresh, vars
<1> QED BY <1>2, <1>4, <1>5, <1>6, <1>7, <1>8, <1>9 DEF Next, Advance

\* The positions of the guard's window that hold the call c.
Same(c) == {m \in DOMAIN Recent : Recent[m].call = c}
Entries == [call : Calls, ran : BOOLEAN]

\* The guard's window holds every entry that is less than WindowSize before the
\* next one.
LEMMA WindowHolds ==
  ASSUME log \in Seq(Entries), NEW i \in DOMAIN log, Len(log) + 1 - i < WindowSize, NEW c
  PROVE  /\ IsFiniteSet(Same(c)) /\ Cardinality(Same(c)) \in Nat
         /\ IsFiniteSet({k \in i..Len(log) : log[k].call = c})
         /\ Cardinality({k \in i..Len(log) : log[k].call = c}) <= Cardinality(Same(c))
<1> DEFINE first == IF Len(log) > WindowSize THEN Len(log) - WindowSize + 1 ELSE 1
           J == {k \in i..Len(log) : log[k].call = c}
           f == [k \in J |-> k - first + 1]
<1>1. Len(log) \in Nat /\ i \in 1..Len(log) /\ WindowSize \in Nat
  BY LoopAssumption
<1>2. first \in 1..Len(log) /\ first <= i
  BY <1>1
<1>3. Recent = SubSeq(log, first, Len(log))
  BY DEF Recent
<1> HIDE DEF first
<1>4. /\ Recent \in Seq(Entries) /\ Len(Recent) = Len(log) - first + 1
      /\ \A m \in 1..Len(log) - first + 1 : Recent[m] = log[first + m - 1]
  BY <1>1, <1>2, <1>3, SubSeqProperties
<1>5. Same(c) \subseteq DOMAIN Recent
  BY DEF Same
<1>6. IsFiniteSet(Same(c)) /\ Cardinality(Same(c)) \in Nat
  BY <1>4, <1>5, CountedPositions
<1>7. ASSUME NEW k \in J PROVE k - first + 1 \in Same(c)
  <2>1. k \in i..Len(log) /\ log[k].call = c
    BY <1>7
  <2>2. k - first + 1 \in 1..Len(log) - first + 1 /\ first + (k - first + 1) - 1 = k
    BY <1>1, <1>2, <2>1
  <2>3. Recent[k - first + 1] = log[k]
    BY <1>4, <2>2
  <2> QED BY <1>4, <2>1, <2>2, <2>3 DEF Same
<1>8. f \in Injection(J, Same(c))
  <2>1. f \in [J -> Same(c)]
    BY <1>7
  <2>2. \A a, b \in J : f[a] = f[b] => a = b
    BY <1>1, <1>2
  <2> QED BY <2>1, <2>2 DEF Injection, IsInjective
<1> HIDE DEF f
<1>9. IsFiniteSet(J) /\ Cardinality(J) <= Cardinality(Same(c))
  BY <1>6, <1>8, FS_Injection
<1> QED BY <1>6, <1>9

\* What the guard admits was not yet RepeatLimit - 1 times in its window.
LEMMA GuardAdmits ==
  ASSUME Guarded, NEW c, ~GuardDenies(c)
  PROVE  ~(Cardinality(Same(c)) + 1 >= RepeatLimit)
  BY DEF GuardDenies, Count, Same

LEMMA ExecuteRepeats ==
  TypeInv /\ Guarded /\ RepeatsAreBlocked /\ ExecuteTool => RepeatsAreBlocked'
<1> SUFFICES ASSUME TypeInv, Guarded, RepeatsAreBlocked, ExecuteTool PROVE RepeatsAreBlocked'
  OBVIOUS
<1> DEFINE d == Head(loop.calls)
<1>1. log \in Seq(Entries) /\ d \in Calls /\ Len(log) \in Nat /\ WindowSize \in Nat
  BY Typed, ToolStep, LoopAssumption DEF TypeOK, Entries
<1>2. RepeatLimit \in Nat /\ RepeatLimit >= 2
  BY LoopAssumption
<1> HIDE DEF d
<1>3. CASE log' = log
  BY <1>3 DEF RepeatsAreBlocked
<1>4. ASSUME NEW b \in BOOLEAN, log' = Append(log, [call |-> d, ran |-> b]), b => ~GuardDenies(d)
      PROVE  RepeatsAreBlocked'
  <2> DEFINE n == Len(log)
  <2>1. /\ DOMAIN log = 1..n /\ DOMAIN log' = 1..(n + 1) /\ \A i \in 1..n : log'[i] = log[i]
        /\ log'[n + 1] = [call |-> d, ran |-> b]
    BY <1>1, <1>4
  <2> SUFFICES ASSUME NEW c \in Calls, NEW i \in 1..(n + 1), NEW j \in 1..(n + 1), i <= j, j - i < WindowSize
               PROVE  Cardinality({k \in i..j : log'[k].call = c /\ log'[k].ran}) < RepeatLimit
    BY <2>1 DEF RepeatsAreBlocked
  <2> DEFINE K == {k \in i..j : log'[k].call = c /\ log'[k].ran}
  <2>2. CASE j <= n
    <3>1. i \in DOMAIN log /\ j \in DOMAIN log
      BY <1>1, <2>1, <2>2
    <3>2. K = {k \in i..j : log[k].call = c /\ log[k].ran}
      BY <1>1, <2>1, <2>2
    <3>3. Cardinality({k \in i..j : log[k].call = c /\ log[k].ran}) < RepeatLimit
      BY <3>1 DEF RepeatsAreBlocked
    <3> QED BY <3>2, <3>3
  <2>3. CASE j = n + 1 /\ i = n + 1
    <3>1. K \subseteq {n + 1}
      BY <1>1, <2>3
    <3>2. Cardinality(K) <= 1
      <4> DEFINE m == n + 1
      <4> HIDE DEF m
      <4>1. IsFiniteSet({m}) /\ Cardinality({m}) = 1
        BY FS_Singleton
      <4>2. K \in SUBSET {m}
        BY <3>1 DEF m
      <4> HIDE DEF K
      <4> QED BY <4>1, <4>2, FS_Subset
    <3>3. Cardinality(K) \in Nat
      <4> DEFINE m == n + 1
      <4>1. IsFiniteSet({m})
        BY FS_Singleton
      <4> HIDE DEF m
      <4>2. K \in SUBSET {m}
        BY <3>1 DEF m
      <4> HIDE DEF K
      <4> QED BY <4>1, <4>2, FS_Subset, FS_CardinalityType
    <3> QED BY <1>2, <3>2, <3>3
  <2>4. CASE j = n + 1 /\ i <= n /\ b /\ c = d
    <3> DEFINE J == {k \in i..n : log[k].call = c}
    <3>1. i \in DOMAIN log /\ Len(log) + 1 - i < WindowSize
      BY <1>1, <2>1, <2>4
    <3>2. /\ Cardinality(Same(c)) \in Nat /\ Cardinality(J) <= Cardinality(Same(c))
      BY <1>1, <3>1, WindowHolds
    <3>3. ~(Cardinality(Same(c)) + 1 >= RepeatLimit)
      BY <1>4, <2>4, GuardAdmits
    <3>4. J \subseteq DOMAIN log /\ K \subseteq J \cup {n + 1}
      BY <1>1, <2>1, <2>4
    <3> HIDE DEF J, K
    <3>5. Cardinality(K) <= Cardinality(J) + 1 /\ Cardinality(J) \in Nat /\ Cardinality(K) \in Nat
      BY <1>1, <3>4, AppendCount
    <3>6. Cardinality(K) < RepeatLimit
      BY <1>2, <3>2, <3>3, <3>5
    <3> QED BY <3>6 DEF K
  <2>5. CASE j = n + 1 /\ i <= n /\ ~(b /\ c = d)
    <3>1. i \in DOMAIN log /\ n \in DOMAIN log /\ n - i < WindowSize /\ i <= n
      BY <1>1, <2>1, <2>5
    <3>2. K = {k \in i..n : log[k].call = c /\ log[k].ran}
      <4>1. n + 1 \notin K
        BY <2>1, <2>5
      <4>2. \A k \in i..n : k \in 1..n /\ log'[k] = log[k]
        BY <1>1, <2>1
      <4>3. i..j = (i..n) \cup {n + 1}
        BY <1>1, <2>5
      <4> QED BY <4>1, <4>2, <4>3
    <3>3. Cardinality({k \in i..n : log[k].call = c /\ log[k].ran}) < RepeatLimit
      BY <3>1 DEF RepeatsAreBlocked
    <3> QED BY <3>2, <3>3
  <2> QED BY <1>1, <2>2, <2>3, <2>4, <2>5
<1> QED BY <1>3, <1>4, ToolStepLog DEF d

LEMMA NextRepeats == TypeInv /\ Guarded /\ RepeatsAreBlocked /\ [Next]_vars => RepeatsAreBlocked'
<1> SUFFICES ASSUME TypeInv, Guarded, RepeatsAreBlocked, [Next]_vars PROVE RepeatsAreBlocked'
  OBVIOUS
<1>1. CASE ExecuteTool
  BY <1>1, ExecuteRepeats
<1>2. CASE log' = log
  BY <1>2 DEF RepeatsAreBlocked
<1>3. CASE log' = <<>>
  BY <1>3 DEF RepeatsAreBlocked
<1>4. ExecuteTool \/ log' = log \/ log' = <<>>
  BY DEF Next, Advance, Receive, Chat, Switch, Abort, StartStep, ModelEmpty, ModelAnswers, ModelCalls,
         AfterTools, Finish, Save, Publish, Fail, Crash, vars, turnVars
<1> QED BY <1>1, <1>2, <1>3, <1>4

\* With ToolLoopGuardHook among the hooks, the same call runs fewer than RepeatLimit
\* times within any WindowSize consecutive calls of a turn, and after a denial (of
\* a call, or of a result seen ResultLimit times) the turn's model is not asked again.
THEOREM RepeatsEnd == Guarded => (Spec => []GuardStopsRepeats)
<1> SUFFICES ASSUME Guarded PROVE Spec => []GuardStopsRepeats
  OBVIOUS
<1>1. Init => TypeInv /\ DenialInv /\ RepeatsAreBlocked
  <2> SUFFICES ASSUME Init PROVE DenialInv /\ RepeatsAreBlocked
    BY InitTypeInv
  <2>1. pc = "idle" /\ log = <<>>
    BY DEF Init
  <2> QED BY <2>1 DEF DenialInv, RepeatsAreBlocked
<1>2. TypeInv /\ DenialInv /\ RepeatsAreBlocked /\ [Next]_vars => TypeInv' /\ DenialInv' /\ RepeatsAreBlocked'
  BY NextTypeInv, NextDenialInv, NextRepeats
<1>3. DenialInv /\ RepeatsAreBlocked => GuardStopsRepeats
  BY DEF DenialInv, Fresh, GuardStopsRepeats, GuardEndsTurn
<1> QED BY <1>1, <1>2, <1>3, PTL DEF Spec
=============================================================================
