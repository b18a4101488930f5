---------------------------- MODULE ModelRoutes ----------------------------
(***************************************************************************)
(* How models/model_pool.py turns the environment into the list of         *)
(* profiles that a call for some purpose may try: _routes_from_env,        *)
(* _merge_profile_chains, _route_chain_for and route_profile_names.        *)
(*                                                                         *)
(* An environment is a record: `default` is the default profile, `json`    *)
(* and `vars` map the purposes that LLM_ROUTES_JSON and the LLM_ROUTE_*    *)
(* variables mention to lists of profiles, `fallback` is                   *)
(* LLM_ROUTE_FALLBACK.  All names are those of configured profiles and no  *)
(* route is empty; otherwise every use of the route raises.                *)
(***************************************************************************)
EXTENDS Sequences, SequencesExt, TLC

CONSTANTS
    Fallbacks,  \* Fallbacks[n]: the fallbacks of profile n
    Alias       \* PURPOSE_ALIASES, a function on some of the purposes

Add(chain, name) == IF name \in ToSet(chain) THEN chain ELSE Append(chain, name)

\* _merge_profile_chains: what is missing of `fallback` goes to the end.
Merge(primary, fallback) == FoldLeft(Add, primary, fallback)

\* _routes_from_env: a variable goes before the JSON, and that before the default.
Routes(env) ==
    LET named == env.vars @@ env.json @@ ("default" :> <<env.default>>)
    IN  [p \in DOMAIN named |-> Merge(named[p], env.fallback)]

\* _route_chain_for: the purpose's own route, that of its alias, or the default.
RouteChain(env, purpose) ==
    LET routes == Routes(env)
        aliased == purpose \in DOMAIN Alias /\ Alias[purpose] \in DOMAIN routes
    IN  IF purpose \in DOMAIN routes THEN routes[purpose]
        ELSE IF aliased THEN routes[Alias[purpose]]
        ELSE routes["default"]

\* Mutant of Expand: the fallbacks of all profiles go behind all profiles.
ExpandLate(names) ==
    FoldLeft(LAMBDA chain, n : Merge(chain, Fallbacks[n]), Merge(<<>>, names), names)

\* route_profile_names: each profile of the chain, followed by its own fallbacks.
Expand(names) ==
    FoldLeft(LAMBDA chain, n : Merge(Add(chain, n), Fallbacks[n]), <<>>, names)

RouteNames(env, purpose) == Expand(RouteChain(env, purpose))

-----------------------------------------------------------------------------
First(s, x) == CHOOSE i \in DOMAIN s : s[i] = x /\ \A j \in 1..(i - 1) : s[j] # x

\* A route tries every profile once: in the order in which the chain names them, each one followed
\* by its fallbacks, at the earliest place where it is named (model_pool.py:163).
ExpandsInOrder(env, purpose) ==
    LET names == RouteChain(env, purpose)
        named == FlattenSeq([i \in DOMAIN names |-> <<names[i]>> \o Fallbacks[names[i]]])
        route == RouteNames(env, purpose)
    IN  /\ ToSet(route) = ToSet(named)
        /\ \A i, j \in DOMAIN route : i < j => First(named, route[i]) < First(named, route[j])
=============================================================================
