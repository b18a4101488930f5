---------------------------- MODULE WireFormats ----------------------------
(* models/provider.py: a model answers in one piece, in the chunks of a       *)
(* stream, or as the items of the responses API, and a session is sent as     *)
(* messages or as items.  A string is the sequence of its pieces.             *)
EXTENDS Naturals, Sequences, SequencesExt, FiniteSetsExt

\* Arguments a model may write: an object, one that breaks off, nothing.
Object == <<"{a", "b}">>
Written == {Object, <<"{a">>, <<>>}
NoArguments == <<"{}">>
ParsedArguments(text) == IF text = Object THEN Object ELSE NoArguments

\* What the loop executes, and what it appends to the session.
ToolCallOf(call) == [id |-> call.id, name |-> call.name, arguments |-> ParsedArguments(call.arguments)]
Answer(text, calls, raw) == [text |-> text, calls |-> calls, raw |-> [role |-> "assistant", text |-> text, calls |-> raw]]

\* chat: the message of the service is kept as it is.
FromMessage(message) == Answer(message.text, [i \in DOMAIN message.calls |-> ToolCallOf(message.calls[i])], message.calls)

---------------------------------------------------------------------------
(* stream_chat *)

NothingYet == [id |-> <<>>, name |-> <<>>, arguments |-> <<>>]
AddDelta(parts, delta) ==
    LET old == IF delta.index \in DOMAIN parts THEN parts[delta.index] ELSE NothingYet
    IN [i \in DOMAIN parts \cup {delta.index} |->
           IF i # delta.index THEN parts[i]
           ELSE [id |-> old.id \o delta.id, name |-> old.name \o delta.name,
                 arguments |-> old.arguments \o delta.arguments]]

Deltas(chunks) == FlattenSeq([i \in DOMAIN chunks |-> chunks[i].deltas])
StreamedText(chunks) == FlattenSeq([i \in DOMAIN chunks |-> chunks[i].text])
Streamed(chunks) == FoldLeft(AddDelta, [i \in {} |-> NothingYet], Deltas(chunks))

\* Mutant of StreamedCalls: in the order of their first pieces.
StreamedCallsAsTheyCome(chunks) ==
    LET parts == Streamed(chunks)
        First(i) == Min({k \in DOMAIN Deltas(chunks) : Deltas(chunks)[k].index = i})
        order == SetToSortSeq(DOMAIN parts, LAMBDA i, j : First(i) < First(j))
    IN [k \in DOMAIN order |-> parts[order[k]]]

StreamedCalls(chunks) ==
    LET parts == Streamed(chunks)
        order == SetToSortSeq(DOMAIN parts, <)
    IN [k \in DOMAIN order |-> parts[order[k]]]

\* A stream that brought nothing leaves nothing to append.
NoMessage == [role |-> "none"]
FromStream(chunks) ==
    LET answer == FromMessage([text |-> StreamedText(chunks), calls |-> StreamedCalls(chunks)])
    IN IF answer.text = <<>> /\ answer.calls = <<>> THEN [answer EXCEPT !.raw = NoMessage] ELSE answer

---------------------------------------------------------------------------
(* The responses API *)

\* The text is given whole, or in the items.
ItemsText(whole, items) == IF whole # <<>> THEN whole
                           ELSE LET parts == SelectSeq(items, LAMBDA m : m.type = "message")
                                IN FlattenSeq([i \in DOMAIN parts |-> parts[i].text])

\* An item names its call by call_id, or only by its own id.
ItemsCalls(items) ==
    LET asked == SelectSeq(items, LAMBDA m : m.type = "function_call")
        CallId(item) == IF item.call_id # <<>> THEN item.call_id ELSE item.id
    IN [i \in DOMAIN asked |-> ToolCallOf([asked[i] EXCEPT !.id = CallId(asked[i])])]

\* The session gets the arguments that were parsed.
FromItems(whole, items) == Answer(ItemsText(whole, items), ItemsCalls(items), ItemsCalls(items))

\* A tool result without an id is left out, and a call without an id or a name;
\* other roles than the user's and the system's are left out when they say nothing.
ItemsOf(message) ==
    IF message.role = "tool"
    THEN IF message.answers = <<>> THEN <<>> ELSE <<[type |-> "output", id |-> message.answers]>>
    ELSE (IF message.text = <<>> /\ message.role \notin {"system", "user"} THEN <<>>
          ELSE <<[type |-> message.role, text |-> message.text]>>)
         \o LET named == SelectSeq(message.calls, LAMBDA c : c.id # <<>> /\ c.name # <<>>)
            IN [i \in DOMAIN named |-> [type |-> "call", id |-> named[i].id, arguments |-> named[i].arguments]]
ResponsesInput(messages) == FlattenSeq([i \in DOMAIN messages |-> ItemsOf(messages[i])])

\* On the chat wire only empty assistant messages are left out.
EmptyAssistant(message) == message.role = "assistant" /\ message.calls = <<>> /\ message.text = <<>>
ChatInput(messages) == SelectSeq(messages, LAMBDA m : ~EmptyAssistant(m))

---------------------------------------------------------------------------
(* Answers and sessions to look at *)

Cuts(s) == {<<SubSeq(s, 1, k), SubSeq(s, k + 1, Len(s))>> : k \in 0..Len(s)}
\* The two deltas of a call whose service calls it number index.
Pieces(index, call) ==
    {[k \in 1..2 |-> [index |-> index, id |-> i[k], name |-> n[k], arguments |-> a[k]]] :
        i \in Cuts(call.id), n \in Cuts(call.name), a \in Cuts(call.arguments)}
Merged(s, t) == {<<s[1], s[2], t[1], t[2]>>, <<s[1], t[1], s[2], t[2]>>, <<s[1], t[1], t[2], s[2]>>,
                 <<t[1], s[1], s[2], t[2]>>, <<t[1], s[1], t[2], s[2]>>, <<t[1], t[2], s[1], s[2]>>}
CallOf(id, name, arguments) == [id |-> id, name |-> name, arguments |-> arguments]

Question == [role |-> "user", text |-> <<"question">>, calls |-> <<>>]
\* A step of a turn: an answer with its calls, and their results.
Exchange(text, calls) == <<[role |-> "assistant", text |-> text, calls |-> calls]>>
                     \o [i \in DOMAIN calls |-> [role |-> "tool", answers |-> calls[i].id]]
Said == {<<>>, <<"t">>}
CallsAt(k) == UNION {{<<>>}, {<<CallOf(i, n, a)>> : i \in {<<>>, <<k, "1">>}, n \in {<<>>, <<"n">>}, a \in Written},
                     {<<CallOf(<<k, "1">>, n, Object), CallOf(<<k, "2">>, <<"n">>, a)>> : n \in {<<>>, <<"n">>}, a \in Written}}
Histories == {<<Question>> \o Exchange(t, c) \o Exchange(<<>>, d) : t \in Said, c \in CallsAt("a"), d \in CallsAt("b")}
CallsIn(messages) == LET answers == SelectSeq(messages, LAMBDA m : m.role = "assistant")
                     IN FlattenSeq([i \in DOMAIN answers |-> answers[i].calls])

\* Every result follows its call, and every call has its result.
PairedItems(items) ==
    LET tools == SelectSeq(items, LAMBDA m : m.type \in {"call", "output"})
        Has(places, type, id) == \E j \in places : tools[j].type = type /\ tools[j].id = id
    IN \A i \in DOMAIN tools : IF tools[i].type = "call" THEN Has((i + 1)..Len(tools), "output", tools[i].id)
                               ELSE Has(1..(i - 1), "call", tools[i].id)

---------------------------------------------------------------------------
\* However a service cuts its answer into chunks and interleaves its calls, the
\* loop gets what it would have got in one piece; what it appends to the session
\* comes back to either wire with every call and its result, in order, but for calls
\* without a name, whose results go to the responses API without them
\* (models/provider.py:209).
WiresAgree ==
    /\ \A a, b \in Written :
          LET first == CallOf(<<"1">>, <<"na", "me">>, a)
              second == CallOf(<<"2">>, <<"n">>, b)
          IN \A s \in Pieces(0, first), t \in Pieces(1, second) : \A deltas \in Merged(s, t) :
                FromStream([i \in DOMAIN deltas |-> [text |-> IF i = 2 THEN <<"t">> ELSE <<>>, deltas |-> <<deltas[i]>>]])
                    = FromMessage([text |-> <<"t">>, calls |-> <<first, second>>])
    /\ \A messages \in Histories :
          LET items == ResponsesInput(messages)
              calls == CallsIn(messages)
              told == SelectSeq(items, LAMBDA m : m.type = "call")
          IN /\ (\A i \in DOMAIN calls : calls[i].name # <<>>) =>
                    /\ PairedItems(items)
                    /\ LET sent == SelectSeq(calls, LAMBDA c : c.id # <<>>)
                       IN told = [i \in DOMAIN sent |-> [type |-> "call", id |-> sent[i].id, arguments |-> sent[i].arguments]]
             /\ CallsIn(ChatInput(messages)) = calls
    /\ \A own \in {<<>>, <<"i">>}, given \in {<<>>, <<"c">>}, a \in Written, whole \in Said :
          LET text == [type |-> "message", text |-> <<"t">>]
              call == [type |-> "function_call", call_id |-> given, id |-> own, name |-> <<"n">>, arguments |-> a]
              answer == FromItems(whole, <<text, call>>)
              next == <<Question>> \o Exchange(answer.text, answer.raw.calls)
          IN /\ answer.raw.calls = answer.calls /\ answer.raw.text = <<"t">>
             /\ answer.calls[1].id # <<>> => PairedItems(ResponsesInput(next))
=============================================================================
