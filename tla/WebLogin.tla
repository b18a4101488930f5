------------------------------ MODULE WebLogin ------------------------------
(* web/auth_store.py and the handlers of web/server.py that use it: accounts  *)
(* come from the environment or from registration, and a browser holds the    *)
(* token of a login.  HTTP threads share the tables; each call of the store   *)
(* is a step.  A password is named by where it comes from.                    *)
EXTENDS Naturals

CONSTANTS Users, Browsers,
          Ttl,       \* how long a token lives
          LastTime,  \* bound on the clock
          Restarts   \* how often the server is started again

ASSUME LoginAssumption == Ttl \in Nat /\ LastTime \in Nat

VARIABLES configured,  \* the users of WEB_USERS_JSON in this process
          accounts,    \* web_users: where a user's password comes from, or "none"
          tokens,      \* web_auth_sessions: browser -> user and expiry; a browser has one token
          handler,     \* what the thread that serves a browser is doing
          clock, restarts,
          registered,  \* history: how often each name was registered with success
          loggedIn,    \* history: user, password and configuration of successful logins
          served       \* history: requests that were served, and whether rightly so

loginVars == <<configured, accounts, tokens, handler, clock, restarts, registered, loggedIn, served>>

Passwords == {"environment", "registration"}
NoToken == [user |-> "none", expires |-> 0]
Quiet == [step |-> "idle"]

LoginInit == /\ configured \in SUBSET Users /\ accounts = [u \in Users |-> "none"]
             /\ tokens = [b \in Browsers |-> NoToken] /\ handler = [b \in Browsers |-> Quiet]
             /\ clock = 0 /\ restarts = 0
             /\ registered = [u \in Users |-> 0] /\ loggedIn = {} /\ served = {}

Then(b, next) == handler' = [handler EXCEPT ![b] = next]

\* Mutant of Synced: an account that exists is left alone.
SyncedNew(u) == IF u \in configured /\ accounts[u] = "none" THEN "environment" ELSE accounts[u]
Synced(u) == IF u \in configured THEN "environment" ELSE accounts[u]

\* sync_environment_users: an upsert for each configured user, of another thread's too.
SyncEnvironmentUsers(b, next) ==
    /\ handler[b] = Quiet
    /\ accounts' = [u \in Users |-> Synced(u)]
    /\ Then(b, next)
    /\ UNCHANGED <<configured, tokens, clock, restarts, registered, loggedIn, served>>

HandleLogin(b, u, p) == SyncEnvironmentUsers(b, [step |-> "authenticate", user |-> u, password |-> p])
HandleRegister(b, u) == SyncEnvironmentUsers(b, [step |-> "register", user |-> u])

Authenticate(b) ==
    /\ handler[b].step = "authenticate"
    /\ LET ok == accounts[handler[b].user] = handler[b].password
       IN /\ Then(b, IF ok THEN [step |-> "session", user |-> handler[b].user] ELSE Quiet)
          /\ loggedIn' = IF ok THEN loggedIn \cup {[user |-> handler[b].user, password |-> handler[b].password,
                                                    known |-> handler[b].user \in configured]}
                         ELSE loggedIn
    /\ UNCHANGED <<configured, accounts, tokens, clock, restarts, registered, served>>

\* The primary key decides which of two registrations of a name succeeds.
Register(b) ==
    /\ handler[b].step = "register"
    /\ LET u == handler[b].user
       IN IF accounts[u] = "none"
          THEN /\ accounts' = [accounts EXCEPT ![u] = "registration"]
               /\ registered' = [registered EXCEPT ![u] = @ + 1]
               /\ Then(b, [step |-> "session", user |-> u])
          ELSE UNCHANGED <<accounts, registered>> /\ Then(b, Quiet)
    /\ UNCHANGED <<configured, tokens, clock, restarts, loggedIn, served>>

\* create_session also deletes what has expired; the cookie replaces an older one.
CreateSession(b) ==
    /\ handler[b].step = "session"
    /\ tokens' = [c \in Browsers |->
                    IF c = b THEN [user |-> handler[b].user, expires |-> clock + Ttl]
                    ELSE IF tokens[c].expires <= clock THEN NoToken ELSE tokens[c]]
    /\ Then(b, Quiet)
    /\ UNCHANGED <<configured, accounts, clock, restarts, registered, loggedIn, served>>

\* Logout, from another window of the browser while a request may be under way.
HandleLogout(b) ==
    /\ tokens[b] # NoToken
    /\ tokens' = [tokens EXCEPT ![b] = NoToken]
    /\ UNCHANGED <<configured, accounts, handler, clock, restarts, registered, loggedIn, served>>

\* _authorize: the row of the token joined with that of its user.
Authorize(b) ==
    /\ tokens[b] # NoToken
    /\ LET valid == tokens[b].expires > clock
       IN /\ tokens' = IF valid THEN tokens ELSE [tokens EXCEPT ![b] = NoToken]
          /\ served' = IF valid THEN served \cup {[user |-> tokens[b].user, age |-> Ttl - (tokens[b].expires - clock),
                                                   exists |-> accounts[tokens[b].user] # "none"]}
                       ELSE served
    /\ UNCHANGED <<configured, accounts, handler, clock, restarts, registered, loggedIn>>

Tick == /\ clock < LastTime /\ clock' = clock + 1
        /\ UNCHANGED <<configured, accounts, tokens, handler, restarts, registered, loggedIn, served>>

\* A new process, perhaps with other users configured; the tables stay.
RestartServer == /\ restarts < Restarts /\ restarts' = restarts + 1
                 /\ configured' \in SUBSET Users
                 /\ handler' = [b \in Browsers |-> Quiet]
                 /\ UNCHANGED <<accounts, tokens, clock, registered, loggedIn, served>>

LoginNext == \/ \E b \in Browsers : Authenticate(b) \/ Register(b) \/ CreateSession(b)
                                    \/ HandleLogout(b) \/ Authorize(b)
             \/ \E b \in Browsers, u \in Users : HandleRegister(b, u) \/ \E p \in Passwords : HandleLogin(b, u, p)
             \/ Tick \/ RestartServer

---------------------------------------------------------------------------
\* A name is registered once, however many threads try; a login to a name that
\* the environment configures took the environment's password, even if someone
\* had registered the name before; a request is served as a user that exists,
\* within the lifetime of its login.
LoginsAreSound == /\ \A u \in Users : registered[u] <= 1
                  /\ \A l \in loggedIn : l.known => l.password = "environment"
                  /\ \A s \in served : s.exists /\ s.age < Ttl
=============================================================================
