-------------------------- MODULE KnowledgeSearch ---------------------------
(* How a turn comes by snippets of the knowledge base: the router decides    *)
(* (retrieval/security_router.py), the cached index answers                  *)
(* (knowledge/caching.py, knowledge/security_rag.py), and the context of a   *)
(* step shows the block (runtime/context.py), once per turn                  *)
(* (runtime/pipeline.py).  Turns run on threads of their own and share the   *)
(* index and its cache, which no lock guards.                                *)
EXTENDS Integers, Sequences, SequencesExt, FiniteSets

CONSTANTS Askers,      \* threads that run turns
          Questions,     \* what turns ask for
          Barren,      \* the queries no snippet answers
          CacheSize, Ttl,
          LastTick,    \* bound of the clock
          AskerSteps, AskerTurns

ASSUME SearchAssumption == IsFiniteSet(Askers) /\ CacheSize \in Nat /\ Ttl \in Nat

VARIABLES
    tick,    \* the clock
    cache,   \* [key, found, ts], least recently used first
    asking   \* per asker: its turn

searchVars == <<tick, cache, asking>>

---------------------------------------------------------------------------
\* LlmSecurityRouteClassifier: an exception, an answer that is not JSON, or one
\* it is not sure enough of, is a no.
Classified == {"none", "failed", "unsure", "yes"}
Requested == {"keyword", "low", "middle", "high"}

\* SecurityRetrievalRouter.route: a keyword or a high similarity is enough, a low
\* one is not; between the thresholds the model is asked, if one is configured.
UsesRag(request, classified) ==
    \/ request \in {"keyword", "high"}
    \/ request = "middle" /\ classified = "yes"

\* search: hybrid search falls back to the dense side alone; what that cannot do
\* either is raised.
Searched(hybrid, sparseWorks, denseWorks) ==
    IF ~denseWorks THEN "raised" ELSE IF hybrid /\ sparseWorks THEN "fused" ELSE "dense"

\* Mutant of BestHits: cut before the reranker has seen them.
BestHitsCut(points, minScore, reranked, topK) ==
    LET first == SubSeq(points, 1, IF topK < Len(points) THEN topK ELSE Len(points))
        hits == SelectSeq(first, LAMBDA p : p.score >= minScore)
    IN IF reranked THEN SortSeq(hits, LAMBDA p, q : p.rank > q.rank) ELSE hits

\* The points come by falling score; those that score enough are reranked by the
\* cross-encoder if there is one, and the first topK are the answer.
BestHits(points, minScore, reranked, topK) ==
    LET hits == SelectSeq(points, LAMBDA p : p.score >= minScore)
        order == IF reranked THEN SortSeq(hits, LAMBDA p, q : p.rank > q.rank) ELSE hits
    IN SubSeq(order, 1, IF topK < Len(order) THEN topK ELSE Len(order))

---------------------------------------------------------------------------
NoAsk == [pc |-> "idle", turns |-> 0, step |-> 0,
          key |-> CHOOSE q \in Questions : TRUE, at |-> 0, found |-> 0, used |-> FALSE, blocks |-> 0]

SearchInit == tick = 0 /\ cache = <<>> /\ asking = [a \in Askers |-> NoAsk]

AskerAt(a, pc) == asking[a].pc = pc
Goes(a, pc) == asking' = [asking EXCEPT ![a].pc = pc]
Cached(key) == \E i \in DOMAIN cache : cache[i].key = key
PlaceOf(key) == CHOOSE i \in DOMAIN cache : cache[i].key = key
EntryOf(key) == cache[PlaceOf(key)]
Without(key) == RemoveAt(cache, PlaceOf(key))

\* _before_turn: nothing was shown yet in this turn.
BeginAsking(a) ==
    /\ AskerAt(a, "idle") /\ asking[a].turns < AskerTurns
    /\ \E key \in Questions :
         asking' = [asking EXCEPT ![a] = [NoAsk EXCEPT !.pc = "step", !.turns = asking[a].turns + 1, !.key = key]]
    /\ UNCHANGED <<tick, cache>>

\* A step goes on, with a block or without; the budget may drop a block, which
\* then does not count as shown.
Continue(a, block) ==
    \E shown \in {FALSE, block} :
        LET ask == asking[a]
            next == [ask EXCEPT !.pc = "step", !.step = @ + 1, !.used = @ \/ shown,
                                !.blocks = @ + IF shown THEN 1 ELSE 0, !.at = 0, !.found = 0]
        IN asking' = [asking EXCEPT ![a] = IF next.step < AskerSteps THEN next
                                           ELSE [NoAsk EXCEPT !.turns = ask.turns, !.blocks = next.blocks]]

\* _build_security_knowledge_block, asked until a block was shown.  A router that
\* raises is shown as a block too.  What is requested stays the same in a turn, but
\* a request between the thresholds may go either way at each step.
RouteStep(a) ==
    /\ AskerAt(a, "step")
    /\ IF asking[a].used THEN Continue(a, FALSE)
       ELSE \/ \E request \in Requested, classified \in Classified :
                 IF UsesRag(request, classified) THEN Goes(a, "lookup") ELSE Continue(a, FALSE)
            \/ Continue(a, TRUE)
    /\ UNCHANGED <<tick, cache>>

\* The cache is read at "now": an entry within its time is used.
LookUp(a) ==
    LET key == asking[a].key
        fresh == Cached(key) /\ tick - EntryOf(key).ts <= Ttl
    IN /\ AskerAt(a, "lookup")
       /\ asking' = [asking EXCEPT ![a].at = tick,
                                   ![a].pc = IF fresh THEN "hit" ELSE "search",
                                   ![a].found = IF fresh THEN EntryOf(key).found ELSE 0]
       /\ UNCHANGED <<tick, cache>>

\* What raises inside search is shown as an error, and counts as the turn's block.
SearchError(a) == Continue(a, TRUE)

\* Mutant of UseHit: a hit counts as a new answer.
UseHitRenews(a) ==
    LET key == asking[a].key
    IN /\ AskerAt(a, "hit")
       /\ \/ /\ Cached(key)
             /\ cache' = Append(Without(key), [EntryOf(key) EXCEPT !.ts = tick])
             /\ Goes(a, "answer")
          \/ ~Cached(key) /\ SearchError(a) /\ UNCHANGED cache
       /\ UNCHANGED tick

\* move_to_end raises when another thread has evicted the entry meanwhile.
UseHit(a) ==
    LET key == asking[a].key
    IN /\ AskerAt(a, "hit")
       /\ \/ /\ Cached(key)
             /\ cache' = Append(Without(key), EntryOf(key))
             /\ Goes(a, "answer")
          \/ ~Cached(key) /\ SearchError(a) /\ UNCHANGED cache
       /\ UNCHANGED tick

SearchIndex(a) ==
    /\ AskerAt(a, "search")
    /\ \E hybrid, sparseWorks, denseWorks \in BOOLEAN :
         IF Searched(hybrid, sparseWorks, denseWorks) = "raised" THEN SearchError(a)
         ELSE asking' = [asking EXCEPT ![a].pc = "store", ![a].found = tick]
    /\ UNCHANGED <<tick, cache>>

\* A key that is there keeps its place until it is moved to the end.
StoreEntry(a) ==
    LET key == asking[a].key
        entry == [key |-> key, found |-> asking[a].found, ts |-> asking[a].at]
    IN /\ AskerAt(a, "store")
       /\ cache' = IF Cached(key) THEN [i \in DOMAIN cache |-> IF cache[i].key = key THEN entry ELSE cache[i]]
                   ELSE Append(cache, entry)
       /\ Goes(a, "move")
       /\ UNCHANGED tick

MoveEntry(a) ==
    LET key == asking[a].key
    IN /\ AskerAt(a, "move")
       /\ \/ Cached(key) /\ cache' = Append(Without(key), EntryOf(key)) /\ Goes(a, "evict")
          \/ ~Cached(key) /\ SearchError(a) /\ UNCHANGED cache
       /\ UNCHANGED tick

\* The loop looks at the size, then drops the oldest entry.
SizeUp(a) ==
    /\ AskerAt(a, "evict")
    /\ Goes(a, IF Len(cache) > CacheSize THEN "pop" ELSE "answer")
    /\ UNCHANGED <<tick, cache>>

PopOldest(a) ==
    /\ AskerAt(a, "pop")
    /\ \/ cache # <<>> /\ cache' = Tail(cache) /\ Goes(a, "evict")
       \/ cache = <<>> /\ SearchError(a) /\ UNCHANGED cache
    /\ UNCHANGED tick

ShowHits(a) ==
    /\ AskerAt(a, "answer")
    /\ Continue(a, asking[a].key \notin Barren)
    /\ UNCHANGED <<tick, cache>>

PassTick == tick < LastTick /\ tick' = tick + 1 /\ UNCHANGED <<cache, asking>>

SearchNext ==
    \/ PassTick
    \/ \E a \in Askers : \/ BeginAsking(a) \/ RouteStep(a) \/ LookUp(a) \/ UseHit(a) \/ SearchIndex(a)
                         \/ StoreEntry(a) \/ MoveEntry(a) \/ SizeUp(a) \/ PopOldest(a) \/ ShowHits(a)

---------------------------------------------------------------------------
\* A turn is shown one block at most, and none whose snippets were found more than
\* the cache's time before it looked; the cache is over its size only while an
\* asker is about to evict (knowledge/caching.py:28, runtime/pipeline.py:148).
SnippetsAreFresh ==
    /\ \A a \in Askers : /\ asking[a].blocks <= 1
                         /\ AskerAt(a, "answer") => asking[a].found >= asking[a].at - Ttl
    /\ Len(cache) <= CacheSize + Cardinality({a \in Askers : asking[a].pc \in {"move", "evict", "pop"}})

\* Whatever the reranker says, the answer has as many of the points that score
\* enough as fit, and none that was left out belongs before one of the answer
\* (knowledge/security_rag.py:174).
BestHitsAnswer ==
    \A n \in 0..3, minScore \in 1..2, topK \in 1..2, reranked \in BOOLEAN :
        \A points \in [1..n -> [score : 1..2, rank : 1..2]] :
            LET enough == SelectSeq(points, LAMBDA p : p.score >= minScore)
                answer == BestHits(points, minScore, reranked, topK)
                Worth(p) == IF reranked THEN p.rank ELSE p.score
            IN (\A i, j \in 1..n : i < j => points[i].score >= points[j].score) =>
               /\ Len(answer) = IF Len(enough) < topK THEN Len(enough) ELSE topK
               /\ \A i \in DOMAIN answer : answer[i].score >= minScore
               /\ \A i \in DOMAIN answer : Cardinality({j \in DOMAIN enough : Worth(enough[j]) > Worth(answer[i])}) < i
=============================================================================
