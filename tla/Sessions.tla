------------------------------ MODULE Sessions ------------------------------
(* SessionManager (an LRU cache of session objects) over SessionStore (one    *)
(* row per session and per message).  A message is the set of asks whose      *)
(* turns it tells of: one, or several once compact has summarised them.       *)
EXTENDS Naturals, Sequences, FiniteSetsExt, SequencesExt

CONSTANTS SessionIds, MaxSessions
ASSUME SessionsAssumption == MaxSessions \in Nat \ {0}

VARIABLES cache,   \* _sessions: cached objects, least recently used first
          stored   \* the tables: the messages of a session, <<>> when it has none

sessionVars == <<cache, stored>>

SessionsInit == cache = <<>> /\ stored = [s \in SessionIds |-> <<>>]

\* The asks that messages tell of.
Tells(messages) == UNION ToSet(messages)
Remembered(s) == Tells(stored[s])

Cached(s) == \E i \in DOMAIN cache : cache[i].id = s
Without(c, s) == LET at == {i \in DOMAIN c : c[i].id = s}
                 IN IF at = {} THEN c ELSE RemoveAt(c, CHOOSE i \in at : TRUE)
EvictIfNeeded(c) == IF Len(c) > MaxSessions THEN SubSeq(c, Len(c) - MaxSessions + 1, Len(c)) ELSE c

\* The object get_or_create returns, and the cache after it.
Loaded(s) == IF Cached(s) THEN (CHOOSE x \in ToSet(cache) : x.id = s).messages ELSE stored[s]
Touched(s, messages) == EvictIfNeeded(Append(Without(cache, s), [id |-> s, messages |-> messages]))

\* save_session keeps the rows before the first message that changed.
RowsAfter(old, new) ==
    LET same == Max({n \in 0..Len(new) : n <= Len(old) /\ SubSeq(old, 1, n) = SubSeq(new, 1, n)})
    IN SubSeq(old, 1, same) \o SubSeq(new, same + 1, Len(new))

Save(s, messages) == /\ cache' = Touched(s, messages)
                     /\ stored' = [stored EXCEPT ![s] = RowsAfter(@, messages)]

DeleteStored(s) == stored' = [stored EXCEPT ![s] = <<>>] /\ UNCHANGED cache
\* Mutant of Delete: the cached object stays.
DeleteStoredOnly(s) == DeleteStored(s)
Delete(s) == stored' = [stored EXCEPT ![s] = <<>>] /\ cache' = Without(cache, s)

=============================================================================
