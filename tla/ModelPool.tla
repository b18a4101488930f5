----------------------------- MODULE ModelPool -----------------------------
(***************************************************************************)
(* ModelPool and RoutedModelProvider of models/model_pool.py: which        *)
(* profile (endpoint and model) a call is sent to, what happens when it    *)
(* fails, and the health that decides which profiles are skipped.          *)
(*                                                                         *)
(* A caller is a thread: a turn of the web server, a teammate, a subagent, *)
(* the memory worker.  It asks the pool for a model name (model_for) and   *)
(* uses it in later calls: the reasoning loop in the same step, the        *)
(* reflection agent and the extractors of conclusions for ever.  Nothing   *)
(* in the pool is locked.  A model name is represented by the profile      *)
(* whose model it is, and time by a clock that counts.                     *)
(***************************************************************************)
EXTENDS Naturals, Sequences, FiniteSets

CONSTANTS
    Callers,    \* threads that use the pool
    Profiles,   \* names of the configured profiles
    Purposes,   \* "chat", "coding", ...
    PurposeOf,  \* PurposeOf[c]: the purpose that caller c asks a provider for
    Routings,   \* possible values of route_profile_names, as functions of the purpose
    Threshold,  \* failure_threshold
    Cooldown,   \* failure_cooldown_seconds
    NoProfile,  \* a caller that has no model name yet
    MaxTime,    \* bound on the clock
    MaxCalls    \* bound on the number of calls

ASSUME PoolAssumption ==
    /\ Threshold \in Nat \ {0}
    /\ Cooldown \in Nat
    /\ MaxTime \in Nat
    /\ MaxCalls \in Nat
    /\ NoProfile \notin Profiles
    /\ PurposeOf \in [Callers -> Purposes]
    /\ Routings \subseteq [Purposes -> Seq(Profiles) \ {<<>>}]

VARIABLES
    route,      \* route_profile_names for each purpose
    now,        \* time.time()
    health,     \* _health: consecutive failures, and disabled_until
    calls,      \* calls made so far
    pc,         \* "idle", "asked": a provider is at work, "mark": it failed
    kind,       \* "chat", "stream" or "check"
    given,      \* the model name the caller passes
    todo,       \* places in the route that this call has still to try
    at,         \* the place in the route that it is trying
    copy,       \* the health record that mark_profile_failure is about to store
    result,     \* how the last call ended
    tried,      \* history: places in the route that this call has tried
    shown,      \* history: profiles whose text this call has passed to on_text
    up,         \* history: places whose profiles were available at its start
    down,       \* history: the primary was disabled when the model name was asked for
    since,      \* history: failed calls of a profile since its last success
    forced,     \* history: profiles that failed a health check since then
    raced       \* history: profiles whose last success came between two steps of a failure

call == <<kind, todo, at, result, tried, shown, up>>
history == <<since, forced, raced>>
vars == <<route, now, health, calls, pc, given, copy, down, call, history>>

-----------------------------------------------------------------------------
Healthy == [failures |-> 0, until |-> 0]
Primary(p) == Head(route[p])
Current(c) == route[PurposeOf[c]][at[c]]

\* profile_available
Available(n) == now >= health[n].until

Free(p) == {i \in DOMAIN route[p] : Available(route[p][i])}

\* Mutant of ForCall: only the first profile is tried.
ForCallOne(p) ==
    LET usable == IF Free(p) = {} THEN DOMAIN route[p] ELSE Free(p)
    IN  {i \in usable : \A j \in usable : i <= j}

\* route_profiles_for_call: the profiles that are available, or else all of them.
ForCall(p) == IF Free(p) = {} THEN DOMAIN route[p] ELSE Free(p)

IsFirst(i, places) == i \in places /\ \A j \in places : i <= j

Set(f, c, v) == [f EXCEPT ![c] = v]

\* Mutant of Selected: the caller's model goes to the first profile that is tried.
SelectedFirst(c) == IF Cardinality(tried[c]) = 1 THEN given[c] ELSE Current(c)

\* The model that the current profile is asked for: the caller's, if the profile is the configured
\* primary of the purpose (whether or not it is the first to be tried), else its own.
Selected(c) ==
    IF kind[c] # "check" /\ Current(c) = Primary(PurposeOf[c]) THEN given[c] ELSE Current(c)

Init ==
    /\ route \in Routings
    /\ now = 0
    /\ health = [n \in Profiles |-> Healthy]
    /\ calls = 0
    /\ pc = [c \in Callers |-> "idle"]
    /\ kind = [c \in Callers |-> "chat"]
    /\ given = [c \in Callers |-> NoProfile]
    /\ todo = [c \in Callers |-> {}]
    /\ at = [c \in Callers |-> 1]
    /\ copy = [c \in Callers |-> Healthy]
    /\ result = [c \in Callers |-> "none"]
    /\ tried = [c \in Callers |-> {}]
    /\ shown = [c \in Callers |-> {}]
    /\ up = [c \in Callers |-> {}]
    /\ down = [c \in Callers |-> FALSE]
    /\ since = [n \in Profiles |-> 0]
    /\ forced = {}
    /\ raced = {}

Tick ==
    /\ now < MaxTime
    /\ now' = now + 1
    /\ UNCHANGED <<route, health, calls, pc, given, copy, down, call, history>>

-----------------------------------------------------------------------------
\* model_for, when the caller sets up its provider.
Resolve(c) ==
    LET p == PurposeOf[c]
    IN  /\ pc[c] = "idle"
        /\ \E i \in DOMAIN route[p] : IsFirst(i, ForCall(p)) /\ given' = Set(given, c, route[p][i])
        /\ down' = Set(down, c, ~Available(Primary(p)))
        /\ UNCHANGED <<route, now, health, calls, pc, copy, call, history>>

\* A provider call of kind k begins, at the first of these places.
Begin(c, k, places) ==
    /\ pc[c] = "idle"
    /\ calls < MaxCalls
    /\ calls' = calls + 1
    /\ pc' = Set(pc, c, "asked")
    /\ kind' = Set(kind, c, k)
    /\ \E i \in places :
          /\ IsFirst(i, places)
          /\ at' = Set(at, c, i)
          /\ todo' = Set(todo, c, places \ {i})
          /\ tried' = Set(tried, c, {i})
    /\ result' = Set(result, c, "none")
    /\ shown' = Set(shown, c, {})
    /\ up' = Set(up, c, Free(PurposeOf[c]))
    /\ UNCHANGED <<route, now, health, given, copy, down, history>>

\* chat and stream_chat: _call_with_fallbacks up to its first provider call.
Call(c, k) == given[c] # NoProfile /\ Begin(c, k, ForCall(PurposeOf[c]))

\* health_check_purposes asks the primary of a purpose, with its own model.
Check(c) == Begin(c, "check", {1})

\* Mutant of Succeed: the failures are not forgotten.
SucceedKeeps(c) ==
    /\ pc[c] = "asked"
    /\ \E text \in IF kind[c] = "stream" THEN {{}, {Current(c)}} ELSE {{}} :
          shown' = Set(shown, c, shown[c] \cup text)
    /\ since' = Set(since, Current(c), 0)
    /\ forced' = forced \ {Current(c)}
    /\ raced' = raced \ {Current(c)}
    /\ pc' = Set(pc, c, "idle")
    /\ result' = Set(result, c, "ok")
    /\ UNCHANGED <<route, now, health, calls, kind, given, todo, at, tried, copy, up, down>>

\* The provider answers, with text or with tool calls only; mark_profile_success.
Succeed(c) ==
    LET n == Current(c)
        others == \E d \in Callers \ {c} : pc[d] = "mark" /\ Current(d) = n
    IN  /\ pc[c] = "asked"
        /\ \E text \in IF kind[c] = "stream" THEN {{}, {n}} ELSE {{}} :
              shown' = Set(shown, c, shown[c] \cup text)
        /\ health' = Set(health, n, Healthy)
        /\ since' = Set(since, n, 0)
        /\ forced' = forced \ {n}
        /\ raced' = IF others THEN raced \cup {n} ELSE raced \ {n}
        /\ pc' = Set(pc, c, "idle")
        /\ result' = Set(result, c, "ok")
        /\ UNCHANGED <<route, now, calls, kind, given, todo, at, tried, copy, up, down>>

\* The record of profile n after one more failure, as mark_profile_failure computes it.
Failed(n, force) ==
    LET failures == health[n].failures + 1
    IN  [failures |-> failures,
         until |-> IF force \/ failures >= Threshold THEN now + Cooldown ELSE health[n].until]

\* The provider raises, perhaps after some text; mark_profile_failure reads the profile's health.
Break(c) ==
    LET n == Current(c)
    IN  /\ pc[c] = "asked"
        /\ \E text \in IF kind[c] = "stream" THEN {{}, {n}} ELSE {{}} :
              shown' = Set(shown, c, shown[c] \cup text)
        /\ copy' = Set(copy, c, Failed(n, kind[c] = "check"))
        /\ since' = Set(since, n, since[n] + 1)
        /\ forced' = IF kind[c] = "check" THEN forced \cup {n} ELSE forced
        /\ pc' = Set(pc, c, "mark")
        /\ UNCHANGED <<route, now, health, calls, kind, given, todo, at, tried, result, up,
                       down, raced>>

\* mark_profile_failure stores the record it has computed.
Mark(c) ==
    /\ pc[c] = "mark"
    /\ health' = Set(health, Current(c), copy[c])
    /\ copy' = Set(copy, c, Healthy)

Ask(c) ==
    /\ \E i \in todo[c] :
          /\ IsFirst(i, todo[c])
          /\ at' = Set(at, c, i)
          /\ todo' = Set(todo, c, todo[c] \ {i})
          /\ tried' = Set(tried, c, tried[c] \cup {i})
    /\ pc' = Set(pc, c, "asked")

\* ... and a health check reports it, or a stream that has shown text raises.
Raise(c) ==
    /\ Mark(c)
    /\ kind[c] = "check" \/ shown[c] # {}
    /\ pc' = Set(pc, c, "idle")
    /\ result' = Set(result, c, "raised")
    /\ UNCHANGED <<route, now, calls, kind, given, todo, at, tried, shown, up, down, history>>

\* Mutant of TryNext: the next profile is asked although the user has seen text of this one.
TryNextAnyway(c) ==
    /\ Mark(c)
    /\ kind[c] # "check"
    /\ Ask(c)
    /\ UNCHANGED <<route, now, calls, kind, given, result, shown, up, down, history>>

\* ... or the next profile of the route is asked ...
TryNext(c) ==
    /\ Mark(c)
    /\ kind[c] # "check" /\ shown[c] = {}
    /\ Ask(c)
    /\ UNCHANGED <<route, now, calls, kind, given, result, shown, up, down, history>>

\* ... or none is left and ModelRouteError is raised.
GiveUp(c) ==
    /\ Mark(c)
    /\ kind[c] # "check" /\ shown[c] = {}
    /\ todo[c] = {}
    /\ pc' = Set(pc, c, "idle")
    /\ result' = Set(result, c, "failed")
    /\ UNCHANGED <<route, now, calls, kind, given, todo, at, tried, shown, up, down, history>>

Running(c) == Succeed(c) \/ Break(c) \/ Raise(c) \/ TryNext(c) \/ GiveUp(c)

Next ==
    \/ Tick
    \/ \E c \in Callers :
          \/ Resolve(c)
          \/ \E k \in {"chat", "stream"} : Call(c, k)
          \/ Check(c)
          \/ Running(c)

Spec == Init /\ [][Next]_vars

\* A provider answers or fails (its client has a time-out), and the thread that called it goes on.
FairSpec == Spec /\ \A c \in Callers : WF_vars(Running(c))

-----------------------------------------------------------------------------
Records == [failures : Nat, until : Nat]

TypeOK ==
    /\ route \in [Purposes -> Seq(Profiles) \ {<<>>}]
    /\ now \in 0..MaxTime
    /\ health \in [Profiles -> Records]
    /\ calls \in 0..MaxCalls
    /\ pc \in [Callers -> {"idle", "asked", "mark"}]
    /\ kind \in [Callers -> {"chat", "stream", "check"}]
    /\ given \in [Callers -> Profiles \cup {NoProfile}]
    /\ at \in [Callers -> Nat]
    /\ todo \in [Callers -> SUBSET Nat]
    /\ tried \in [Callers -> SUBSET Nat]
    /\ up \in [Callers -> SUBSET Nat]
    /\ \A c \in Callers :
          LET places == DOMAIN route[PurposeOf[c]]
          IN  /\ at[c] \in places
              /\ todo[c] \subseteq places /\ tried[c] \subseteq places /\ up[c] \subseteq places
    /\ copy \in [Callers -> Records]
    /\ result \in [Callers -> {"none", "ok", "raised", "failed"}]
    /\ shown \in [Callers -> SUBSET Profiles]
    /\ down \in [Callers -> BOOLEAN]
    /\ since \in [Profiles -> Nat]
    /\ forced \in SUBSET Profiles
    /\ raced \in SUBSET Profiles

\* The text that one call shows the user comes from one profile only: a stream that has shown some
\* is not continued by another profile (model_pool.py:361).
OneVoice == \A c \in Callers : \A m, n \in shown[c] : m = n

\* A profile is asked for another profile's model only if it is the primary, and was disabled when
\* the caller asked for the name: model_for answered with the model of a fallback, and the primary
\* was available again at the time of the call (model_pool.py:323).
WrongModelOnlyAfterSwitch ==
    \A c \in Callers :
        pc[c] = "asked" /\ Selected(c) # Current(c) =>
            kind[c] # "check" /\ Current(c) = Primary(PurposeOf[c]) /\ down[c]

\* ModelRouteError means that every profile of the route that was available at the start has failed,
\* and at least one profile has: disabled profiles never lock a route (model_pool.py:145).
FailedMeansTried ==
    \A c \in Callers :
        result[c] = "failed" =>
            /\ up[c] \subseteq tried[c]
            /\ up[c] = {} => tried[c] = DOMAIN route[PurposeOf[c]]

\* A profile is disabled only after as many failures as the threshold says with no success since, or
\* a failed health check; unless its last success was overtaken by an older failure whose record was
\* computed before and stored after it (model_pool.py:207).
DisabledForCause ==
    \A n \in Profiles \ raced :
        ~Available(n) => since[n] >= Threshold \/ n \in forced
=============================================================================
