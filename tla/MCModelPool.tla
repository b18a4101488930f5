---------------------------- MODULE MCModelPool ----------------------------
(* An instance of ModelPool for TLC: three profiles, two purposes, and the *)
(* routes that some environments give them.                                *)
EXTENDS ModelPool, ModelRoutes

CONSTANTS p1, p2, p3, c1, c2

MCFallbacks == [n \in {p1, p2, p3} |-> IF n = p3 THEN <<p1>> ELSE <<>>]
MCAlias == "reflection" :> "summary"

Empty == [p \in {} |-> <<>>]

MCEnvs ==
    [default : {p1, p3}, fallback : {<<>>, <<p2>>},
     json : {Empty, "summary" :> <<p2, p3>>},
     vars : {Empty, "summary" :> <<p3, p2>>, "chat" :> <<p1, p2>>}]

\* Two profiles that are the primaries of one purpose each, and each other's fallback.
MCEnv == [default |-> p1, fallback |-> <<p1, p2>>, json |-> "summary" :> <<p2>>, vars |-> Empty]
MCPurposeOf == [c \in {c1, c2} |-> IF c = c1 THEN "chat" ELSE "reflection"]

MCRoutings == {[p \in Purposes |-> RouteNames(MCEnv, p)]}

\* In each of these environments, every purpose's route names its profiles in the order that
\* route_profile_names gives them (model_pool.py:163).  Routes never change: initial states show it.
RoutesExpandInOrder == Init => \A env \in MCEnvs, p \in Purposes : ExpandsInOrder(env, p)
=============================================================================
