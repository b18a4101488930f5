---------------------------- MODULE ModelContext ----------------------------
(***************************************************************************)
(* What the model is shown.  A session's messages grow as the reasoning     *)
(* loop adds them (runtime/reasoning_loop.py), and before every model call  *)
(* they are budgeted by section (runtime/context.py, context_history.py),   *)
(* given a tool catalog (runtime/pipeline.py), repaired                     *)
(* (_sanitize_context_messages) and, over the provider's token limit,       *)
(* trimmed (runtime/token_estimator.py, emergency_trim).                    *)
(*                                                                          *)
(* A message is its role, the length of its text (NoText for a null), the   *)
(* ids of its tool calls, the id it answers, and the place in the session   *)
(* it comes from (0 for a message that the context adds).  The texts of     *)
(* summaries, of placeholders and of shortened results are abstracted to    *)
(* one length, Note; JSON's overhead to Overhead per message and per call.  *)
(***************************************************************************)
EXTENDS Integers, Sequences, FiniteSets, SequencesExt

CONSTANTS
  Lengths,        \* lengths of the texts that users and tools produce
  KeepHead, KeepTail,             \* turns that summary_middle keeps
  HistoryBudget, ActiveBudget,    \* budget_chars of the two sections
  KeepRecent,     \* keep_recent_results
  Limit,          \* safe_context_limit, in tokens
  Note, Overhead, \* lengths that are not told apart (see above)
  Short,          \* below it, _trim_text_messages drops instead of shortening (200)
  MaxIds,         \* bound: tool calls in one response
  MaxMessages     \* bound: messages in the session

ASSUME ContextAssumption ==
  /\ Lengths \subseteq Nat /\ KeepHead \in Nat /\ KeepTail \in Nat
  /\ HistoryBudget \in Nat \ {0} /\ ActiveBudget \in Nat \ {0} /\ KeepRecent \in Nat
  /\ Limit \in Nat \ {0} /\ Note \in Nat /\ Overhead \in Nat /\ Short \in Nat
  /\ MaxIds \in Nat /\ MaxMessages \in Nat

VARIABLES
  messages,  \* session.messages
  start,     \* active_turn_start_index, from 1
  open,      \* ids of the last response's calls still to be answered, in order
  phase      \* "idle", "model": the next step is a model call, "tools"

contextVars == <<messages, start, open, phase>>

NoText == -1
\* The ids of a response's calls are made of its place in the session.
CallIds == Nat \X Nat
Roles == {"user", "assistant", "tool", "system"}
Message ==
  {m \in [role : Roles, text : Int, calls : SUBSET CallIds, id : CallIds \cup {<<>>}, at : Nat] :
     m.calls # {} => m.role = "assistant"}
Msg(role, text) == [role |-> role, text |-> text, calls |-> {}, id |-> <<>>, at |-> 0]
Summary == Msg("user", Note)

Total(ms, W(_)) == FoldFunction(+, 0, [i \in DOMAIN ms |-> W(ms[i])])
Text(m) == IF m.text = NoText THEN 0 ELSE m.text

\* messages_chars, and estimate_tokens
Weight(m) == Text(m) + Overhead * Cardinality(m.calls)
Chars(ms) == Total(ms, Weight)
Json(m) == Overhead + Weight(m)
Tokens(ms) == (Total(ms, Json) + 2) \div 3

----------------------------------------------------------------------------
(* Places in a sequence of messages.                                         *)

\* The k-th of a set of places, the messages at them, and the largest of them.
Nth(K, k) == CHOOSE i \in K : Cardinality({j \in K : j <= i}) = k
Chosen(ms, K) == [k \in 1..Cardinality(K) |-> ms[Nth(K, k)]]
Largest(K) == Max(K \cup {0})

(* Groups of messages (_group_turns, _conversation_groups): a group starts   *)
(* at the first message and at each user message.                            *)

Heads(ms) == {i \in DOMAIN ms : i = 1 \/ ms[i].role = "user"}
Groups(ms) == Cardinality(Heads(ms))
\* The messages of the groups with these numbers, and the last k groups.
InGroups(ms, G) ==
  LET heads == Heads(ms)
  IN  Chosen(ms, {i \in DOMAIN ms : Cardinality({h \in heads : h <= i}) \in G})
LastOnes(ms, k) == Groups(ms) - k + 1..Groups(ms)

\* _tail_trim_groups: a note, and as many of the last groups as fit; when not
\* even the last one fits, its summary (_compact_group).
TailTrim(ms, limit) ==
  LET k == Largest({n \in 1..Groups(ms) : Chars(InGroups(ms, LastOnes(ms, n))) + Note <= limit})
  IN  <<Summary>> \o (IF k = 0 THEN <<Summary>> ELSE InGroups(ms, LastOnes(ms, k)))

\* budget_conversation_history with summary_middle
Reduced(ms) ==
  IF KeepHead + KeepTail >= Groups(ms) THEN ms
  ELSE InGroups(ms, 1..KeepHead) \o <<Summary>> \o InGroups(ms, LastOnes(ms, KeepTail))
BudgetHistory(ms) ==
  IF Chars(ms) <= HistoryBudget THEN ms
  ELSE IF Chars(Reduced(ms)) <= HistoryBudget THEN Reduced(ms) ELSE TailTrim(Reduced(ms), HistoryBudget)

\* _compress_old_tool_results: tool results before the last KeepRecent ones.
Compress(ms) ==
  LET tools == {i \in DOMAIN ms : ms[i].role = "tool"}
      old == {i \in tools : Cardinality({j \in tools : j >= i}) > KeepRecent}
  IN  [i \in DOMAIN ms |-> IF i \in old THEN [ms[i] EXCEPT !.text = Note] ELSE ms[i]]

\* _last_tool_call_index, 0 for None
LastCall(ms) == Largest({i \in DOMAIN ms : ms[i].calls # {}})

Summarised(ms) == IF ms = <<>> THEN <<>> ELSE <<Summary>>

\* Mutant of ReduceActive: only the first result of the last group is kept.
ReduceActiveShort(ms) ==
  LET last == LastCall(ms)
  IN  IF last <= 1 THEN <<ms[1]>> \o Summarised(Tail(ms))
      ELSE <<ms[1]>> \o Summarised(SubSeq(ms, 2, last - 1))
             \o SubSeq(ms, last, Min({last + 1, Len(ms)}))

\* _reduce_active_turn: the request, a summary, the last tool group and what
\* follows it.
ReduceActive(ms) ==
  LET last == LastCall(ms)
  IN  IF last <= 1 THEN <<ms[1]>> \o Summarised(Tail(ms))
      ELSE <<ms[1]>> \o Summarised(SubSeq(ms, 2, last - 1)) \o SubSeq(ms, last, Len(ms))

\* _compact_active_tail: without a tool call the turn is trimmed as history is;
\* otherwise the results of the last group are shortened.
Shortened(m) == IF m.role = "tool" /\ m.text > Note THEN [m EXCEPT !.text = Note] ELSE m
CompactActive(ms) ==
  IF Chars(ms) <= ActiveBudget THEN ms
  ELSE IF LastCall(ms) = 0 THEN TailTrim(ms, ActiveBudget)
  ELSE [i \in DOMAIN ms |-> Shortened(ms[i])]

\* budget_active_turn with latest_tool_call
BudgetActive(ms) ==
  LET working == Compress(ms)
  IN  IF Chars(working) <= ActiveBudget THEN working ELSE CompactActive(ReduceActive(working))

History == SubSeq(messages, 1, start - 1)
ActiveTurn == SubSeq(messages, start, Len(messages))

\* ContextBuilder.build and Pipeline._with_tool_catalog: system prompt,
\* history, context frame, tool catalog, active turn.
Built ==
  <<Msg("system", Note)>> \o BudgetHistory(History)
    \o <<Msg("user", Note), Msg("user", Note)>> \o BudgetActive(ActiveTurn)

----------------------------------------------------------------------------
(* _sanitize_context_messages                                                *)

\* How many of the messages after i belong to its tool-call group: tool
\* messages that answer its calls, up to the one that completes the group.
Answers(ms, i, n) ==
  /\ i + n <= Len(ms)
  /\ \A j \in i + 1..i + n : ms[j].role = "tool" /\ ms[j].id \in ms[i].calls
Ids(ms, i, n) == {ms[j].id : j \in i + 1..i + n}
Extent(ms, i) ==
  Largest({n \in 1..Len(ms) - i : Answers(ms, i, n) /\ Ids(ms, i, n - 1) # ms[i].calls})
\* Mutant of Complete: one answer is enough.
CompleteOnce(ms, i) == Ids(ms, i, Extent(ms, i)) # {}

Complete(ms, i) == Ids(ms, i, Extent(ms, i)) = ms[i].calls

\* An empty assistant message goes; a tool-call group is kept whole or summarised
\* as one user message, and so is a tool result outside any group.
Owners(ms, i) == {g \in 1..i - 1 : ms[g].calls # {} /\ i <= g + Extent(ms, g)}
Empty(m) == m.role = "assistant" /\ m.calls = {} /\ Text(m) = 0
Dropped(ms, i) ==
  Empty(ms[i]) \/ (ms[i].role = "tool" /\ \E g \in Owners(ms, i) : ~Complete(ms, g))
Alone(ms, i) == ms[i].role = "tool" /\ Owners(ms, i) = {}
Repaired(ms, i) ==
  IF Alone(ms, i) \/ (ms[i].calls # {} /\ ~Complete(ms, i)) THEN Summary ELSE ms[i]

Sanitized(ms) ==
  Chosen([i \in DOMAIN ms |-> Repaired(ms, i)], {i \in DOMAIN ms : ~Dropped(ms, i)})

----------------------------------------------------------------------------
(* emergency_trim                                                            *)

\* _trim_text_messages: shorten or drop the largest message but the first.
TrimText[ms \in Seq(Message)] ==
  IF ms = <<>> \/ Tokens(ms) <= Limit THEN ms
  ELSE LET from == IF Len(ms) > 1 THEN 2 ELSE 1
           big == CHOOSE i \in from..Len(ms) :
                    \A j \in from..Len(ms) : Json(ms[j]) < Json(ms[i]) \/ (Json(ms[j]) = Json(ms[i]) /\ i <= j)
           kept == IF ms[big].text < Short THEN ms[big].text \div 2 ELSE (ms[big].text * 65) \div 100
       IN  IF ms[big].text = NoText \/ (ms[big].text < Short /\ Len(ms) > 1)
           THEN TrimText[RemoveAt(ms, big)]
           ELSE TrimText[[ms EXCEPT ![big].text = kept + Note]]

\* The system messages, the first two groups and the last k ones.
Role(ms, system) == Chosen(ms, {i \in DOMAIN ms : (ms[i].role = "system") = system})
Ends(ms, k) ==
  LET rest == Role(ms, FALSE)
  IN  Role(ms, TRUE) \o InGroups(rest, 1..2 \cup LastOnes(rest, k))
EndsFit(ms, k) == Tokens(Ends(ms, k)) <= Limit
Fitting(ms) == {k \in 1..Groups(Role(ms, FALSE)) : EndsFit(ms, k)}

\* Mutant of Trimmed: the group that was one too many stays in.
TrimmedOver(ms) ==
  IF Tokens(ms) <= Limit THEN ms
  ELSE IF EndsFit(ms, 0) THEN Ends(ms, Largest(Fitting(ms)) + 1) ELSE TrimText[Ends(ms, 0)]

\* The first two groups, then as many of the last ones as fit; when the first
\* two do not fit, their texts are trimmed.  (The code adds groups from the end
\* until one is too many, then takes that one out again.)
Trimmed(ms) ==
  IF Tokens(ms) <= Limit THEN ms
  ELSE IF EndsFit(ms, 0) THEN Ends(ms, Largest(Fitting(ms))) ELSE TrimText[Ends(ms, 0)]

\* The messages of the next model call.
Sent == Trimmed(Sanitized(Built))

----------------------------------------------------------------------------
(* The session's messages                                                    *)

ContextInit == messages = <<>> /\ start = 1 /\ open = <<>> /\ phase = "idle"

Append1(m) == messages' = Append(messages, [m EXCEPT !.at = Len(messages) + 1])
Room == Len(messages) < MaxMessages

\* AgentLoop._record, and the turn's start index (_last_user_message_index)
UserAsks ==
  /\ phase = "idle" /\ Room
  /\ \E n \in Lengths : Append1(Msg("user", n))
  /\ start' = Len(messages) + 1 /\ phase' = "model"
  /\ UNCHANGED open

\* The finishing reminder (system, once in a session) or the retry of an empty
\* response (user, once until the model says something).
Reminded == \E i \in DOMAIN messages : messages[i].role = "system"
Retried == \E i \in start + 1..Len(messages) :
             /\ messages[i].role = "user"
             /\ \A j \in i..Len(messages) : messages[j].role \in {"user", "system"}
LoopAdds ==
  /\ phase = "model" /\ Room
  /\ \/ ~Reminded /\ Append1(Msg("system", Note))
     \/ ~Retried /\ Append1(Msg("user", Note))
  /\ UNCHANGED <<start, open, phase>>

ModelAnswers ==
  /\ phase = "model" /\ Room
  /\ \E n \in Lengths : Append1(Msg("assistant", n))
  /\ phase' = "idle"
  /\ UNCHANGED <<start, open>>

ModelCalls ==
  /\ phase = "model" /\ Room
  /\ \E n \in 1..MaxIds, text \in {NoText, Note} :
       LET ids == [k \in 1..n |-> <<Len(messages) + 1, k>>]
       IN  /\ Append1([Msg("assistant", text) EXCEPT !.calls = ToSet(ids)])
           /\ open' = ids
  /\ phase' = "tools"
  /\ UNCHANGED start

ToolReturns ==
  /\ phase = "tools" /\ Room
  /\ \E n \in Lengths : Append1([Msg("tool", n) EXCEPT !.id = Head(open)])
  /\ open' = Tail(open)
  /\ phase' = IF Tail(open) = <<>> THEN "model" ELSE "tools"
  /\ UNCHANGED start

\* The turn fails between two messages; the session keeps what it has.
TurnFails ==
  /\ phase # "idle" /\ phase' = "idle" /\ open' = <<>>
  /\ UNCHANGED <<messages, start>>

ContextNext == UserAsks \/ LoopAdds \/ ModelAnswers \/ ModelCalls \/ ToolReturns \/ TurnFails

ContextSpec == ContextInit /\ [][ContextNext]_contextVars

----------------------------------------------------------------------------
(* Properties                                                                *)

ContextTypeOK ==
  /\ phase \in {"idle", "model", "tools"} /\ start \in 1..MaxMessages + 1
  /\ (phase = "tools") = (open # <<>>)
  /\ \A i \in DOMAIN messages : messages[i].at = i

\* What the providers accept: every assistant message with tool calls is
\* followed by results that answer all of them, and no result stands alone.
Paired(ms) ==
  /\ \A i \in DOMAIN ms : ms[i].calls # {} =>
       \E n \in 1..Len(ms) - i : Answers(ms, i, n) /\ Ids(ms, i, n) = ms[i].calls
  /\ \A i \in DOMAIN ms : ms[i].role = "tool" =>
       \E g \in 1..i - 1 : ms[i].id \in ms[g].calls /\ Answers(ms, g, i - g)

Has(ms, i) == \E j \in DOMAIN ms : ms[j].at = i

\* Under the token limit, the model sees the latest tool calls and a result for
\* each of them (docs/system-design/05: "the latest assistant tool_call must be
\* kept", "the tool results of the latest tool_call must be kept").
LatestResultsAreSeen ==
  phase = "model" /\ Tokens(Sanitized(Built)) <= Limit =>
    LET last == LastCall(ActiveTurn) + start - 1
        sent == Sent
    IN  last >= start => \A i \in last..last + Cardinality(messages[last].calls) : Has(sent, i)

\* The messages sent fit the limit, begin with the system prompt and, the
\* system messages aside, keep their order.
SentFitsInOrder ==
  phase = "model" =>
    LET sent == Sent
        placed == SelectSeq(sent, LAMBDA m : m.role # "system" /\ m.at > 0)
    IN  /\ Tokens(sent) <= Limit /\ sent[1].role = "system"
        /\ \A i \in 2..Len(placed) : placed[i - 1].at < placed[i].at

\* Whatever turns failed half way and whatever the budgets cut, the messages
\* that leave the sanitizer pair calls with results.
ContextIsPaired == phase = "model" => Paired(Sanitized(Built))

\* token_estimator.py, emergency_trim: "Groups are built around user turns and
\* assistant/tool chains so we avoid creating invalid OpenAI-style tool-call
\* ordering": so it is whenever the first two groups fit.
GroupTrimKeepsPairs ==
  phase = "model" => LET ms == Sanitized(Built) IN EndsFit(ms, 0) => Paired(Trimmed(ms))

\* Whatever fails and whatever is cut on the way from the session to the request,
\* the provider is sent something that it accepts, with the latest results in it.
SentIsUsable == ContextIsPaired /\ GroupTrimKeepsPairs /\ LatestResultsAreSeen
=============================================================================
