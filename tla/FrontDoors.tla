----------------------------- MODULE FrontDoors -----------------------------
(* Every way in to the agent: a gateway process or the web server.  A process *)
(* is one of them; both use the user bus, each has its own tables.  The web   *)
(* server's chat, its file storage and its accounts share no state and are    *)
(* looked at one at a time.                                                   *)
EXTENDS Gateways, WebService, WebFiles, WebLogin

Doors == {"telegram", "feishu", "web chat", "web files", "web login"}

gateVars == <<outboxVars, gatewayVars>>
chatVars == <<sessionVars, webVars>>
frontVars == <<busVars, gateVars, chatVars, fileVars, loginVars>>

Init == /\ channel \in Doors
        /\ BusInit /\ OutboxInit /\ GatewayInit /\ SessionsInit /\ WebInit /\ FilesInit /\ LoginInit
        /\ LET some == CHOOSE s \in SessionIds : TRUE   \* sessions are interchangeable
           IN /\ session[CHOOSE d \in Dels : TRUE] = some
              /\ channel # "web chat" => session = [r \in Requests |-> some]
        /\ channel # "web login" => configured = {}

Next == /\ UNCHANGED channel
        /\ \/ GatewayNext /\ channel \in {"telegram", "feishu"} /\ UNCHANGED <<chatVars, fileVars, loginVars>>
           \/ channel = "web chat" /\ WebNext /\ UNCHANGED <<gateVars, fileVars, loginVars>>
           \/ channel = "web files" /\ FilesNext /\ UNCHANGED <<busVars, gateVars, chatVars, loginVars>>
           \/ channel = "web login" /\ LoginNext /\ UNCHANGED <<busVars, gateVars, chatVars, fileVars>>

\* Event loops run what is ready; HTTP threads, users and operators need not act.
Fairness == GatewayFairness /\ WF_<<busVars, chatVars>>(channel = "web chat" /\ LoopStep)

Spec == Init /\ [][Next]_<<frontVars, channel>> /\ Fairness

TypeOK == OutboxTypeOK /\ GatewayTypeOK /\ WebTypeOK
=============================================================================
