-------------------------- MODULE FrontDoorsProofs --------------------------
(***************************************************************************)
(* Proofs about FrontDoors, for any users, messages, requests and bounds.  *)
(***************************************************************************)
EXTENDS FrontDoors, FiniteSetTheorems, SequenceTheorems, TLAPS

-----------------------------------------------------------------------------
(* Accounts and logins                                                      *)

Asked == [step : {"authenticate"}, user : Users, password : Passwords]
Named == [step : {"register", "session"}, user : Users]
Logins == [user : Users, password : Passwords, known : BOOLEAN]

LoginTypeOK ==
  /\ configured \subseteq Users /\ accounts \in [Users -> Passwords \cup {"none"}]
  /\ tokens \in [Browsers -> {NoToken} \cup [user : Users, expires : Nat]]
  /\ handler \in [Browsers -> {Quiet} \cup Asked \cup Named]
  /\ clock \in Nat /\ registered \in [Users -> Nat] /\ loggedIn \subseteq Logins

\* An account exists once its name was registered, while a handler works for it,
\* and for as long as a token names it.  A login under way comes after the
\* environment's users were written.
AccountsInv ==
  /\ \A u \in Users : registered[u] <= 1 /\ (registered[u] = 1 => accounts[u] # "none")
  /\ \A b \in Browsers :
       /\ handler[b].step = "authenticate" /\ handler[b].user \in configured
            => accounts[handler[b].user] = "environment"
       /\ handler[b].step = "session" => accounts[handler[b].user] # "none"
       /\ tokens[b] # NoToken => accounts[tokens[b].user] # "none"

LoginInv == LoginTypeOK /\ AccountsInv /\ LoginsAreSound

LEMMA QuietIsIdle == /\ Quiet.step = "idle"
                     /\ \A r \in Asked : r.step = "authenticate"
                     /\ \A r \in Named : r.step \in {"register", "session"}
  BY DEF Quiet, Asked, Named

\* Accounts that only come into being, or change to the environment's password,
\* leave the invariant as it was.
LEMMA AccountsGrow ==
  ASSUME LoginInv, NEW acc \in [Users -> Passwords \cup {"none"}],
         \A u \in Users : /\ accounts[u] # "none" => acc[u] # "none"
                          /\ accounts[u] = "environment" => acc[u] = "environment"
  PROVE  \A b \in Browsers :
           /\ handler[b].step = "authenticate" /\ handler[b].user \in configured
                => acc[handler[b].user] = "environment"
           /\ handler[b].step = "session" => acc[handler[b].user] # "none"
           /\ tokens[b] # NoToken => acc[tokens[b].user] # "none"
<1> SUFFICES ASSUME NEW b \in Browsers
             PROVE /\ handler[b].step = "authenticate" /\ handler[b].user \in configured
                        => acc[handler[b].user] = "environment"
                   /\ handler[b].step = "session" => acc[handler[b].user] # "none"
                   /\ tokens[b] # NoToken => acc[tokens[b].user] # "none"
  OBVIOUS
<1>1. handler[b].step \in {"authenticate", "session"} => handler[b].user \in Users
  BY QuietIsIdle DEF LoginInv, LoginTypeOK, Asked, Named
<1>2. tokens[b] # NoToken => tokens[b].user \in Users
  BY DEF LoginInv, LoginTypeOK
<1> QED BY <1>1, <1>2 DEF LoginInv, AccountsInv

LEMMA SyncLoginInv ==
  ASSUME LoginInv, NEW b \in Browsers, NEW next \in Asked \cup Named,
         next.step # "session", SyncEnvironmentUsers(b, next)
  PROVE  LoginInv'
<1>1. /\ accounts' = [u \in Users |-> Synced(u)] /\ handler' = [handler EXCEPT ![b] = next]
      /\ UNCHANGED <<configured, tokens, clock, restarts, registered, loggedIn, served>>
  BY DEF SyncEnvironmentUsers, Then
<1>2. \A u \in Users : /\ Synced(u) \in Passwords \cup {"none"}
                       /\ accounts[u] # "none" => Synced(u) # "none"
                       /\ accounts[u] = "environment" => Synced(u) = "environment"
                       /\ u \in configured => Synced(u) = "environment"
  BY DEF Synced, LoginInv, LoginTypeOK, Passwords
<1>3. accounts' \in [Users -> Passwords \cup {"none"}]
  BY <1>1, <1>2
<1>4. handler' \in [Browsers -> {Quiet} \cup Asked \cup Named]
  BY <1>1 DEF LoginInv, LoginTypeOK
<1>5. LoginTypeOK'
  BY <1>1, <1>3, <1>4 DEF LoginInv, LoginTypeOK
<1>6. next.user \in Users
  BY DEF Asked, Named
<1>7. AccountsInv'
  BY <1>1, <1>2, <1>3, <1>6, AccountsGrow DEF LoginInv, LoginTypeOK, AccountsInv
<1> QED BY <1>1, <1>5, <1>7 DEF LoginInv, LoginsAreSound

LEMMA LoginStep == LoginInv /\ LoginNext => LoginInv'
<1> SUFFICES ASSUME LoginInv, LoginNext PROVE LoginInv'
  OBVIOUS
<1>1. ASSUME NEW b \in Browsers, NEW u \in Users, HandleRegister(b, u) PROVE LoginInv'
  <2>1. [step |-> "register", user |-> u] \in Asked \cup Named
    BY DEF Named
  <2> QED BY <1>1, <2>1, SyncLoginInv DEF HandleRegister
<1>2. ASSUME NEW b \in Browsers, NEW u \in Users, NEW p \in Passwords, HandleLogin(b, u, p) PROVE LoginInv'
  <2>1. [step |-> "authenticate", user |-> u, password |-> p] \in Asked \cup Named
    BY DEF Asked
  <2> QED BY <1>2, <2>1, SyncLoginInv DEF HandleLogin
<1>3. ASSUME NEW b \in Browsers, Authenticate(b) PROVE LoginInv'
  <2>1. handler[b] \in Asked /\ handler[b].step = "authenticate"
    BY <1>3, QuietIsIdle DEF Authenticate, LoginInv, LoginTypeOK
  <2> DEFINE u == handler[b].user
             p == handler[b].password
  <2>2. u \in Users /\ p \in Passwords
    BY <2>1 DEF Asked
  <2>3. [step |-> "session", user |-> u] \in Named
    BY <2>2 DEF Named
  <2>4. [user |-> u, password |-> p, known |-> u \in configured] \in Logins
    BY <2>2 DEF Logins
  <2>5. UNCHANGED <<configured, accounts, tokens, clock, restarts, registered, served>>
    BY <1>3 DEF Authenticate
  <2>6. CASE accounts[u] = p
    <3>1. /\ handler' = [handler EXCEPT ![b] = [step |-> "session", user |-> u]]
          /\ loggedIn' = loggedIn \cup {[user |-> u, password |-> p, known |-> u \in configured]}
      BY <1>3, <2>6 DEF Authenticate, Then
    <3>2. LoginTypeOK'
      BY <2>3, <2>4, <2>5, <3>1 DEF LoginInv, LoginTypeOK
    <3>3. p # "none"
      BY <2>2 DEF Passwords
    <3>4. AccountsInv'
      BY <2>5, <2>6, <3>1, <3>3 DEF LoginInv, LoginTypeOK, AccountsInv
    <3>5. u \in configured => p = "environment"
      BY <2>1, <2>6 DEF LoginInv, AccountsInv
    <3>6. LoginsAreSound'
      <4> DEFINE known == u \in configured
                 new == [user |-> u, password |-> p, known |-> known]
      <4>1. new.known => new.password = "environment"
        <5> HIDE DEF known
        <5>1. new.known = known /\ new.password = p
          OBVIOUS
        <5> QED BY <3>5, <5>1 DEF known
      <4>2. loggedIn' = loggedIn \cup {new}
        BY <3>1
      <4> HIDE DEF new
      <4>3. \A l \in loggedIn' : l.known => l.password = "environment"
        BY <4>1, <4>2 DEF LoginInv, LoginsAreSound
      <4> QED BY <2>5, <4>3 DEF LoginInv, LoginsAreSound
    <3> QED BY <3>2, <3>4, <3>6 DEF LoginInv
  <2>7. CASE accounts[u] # p
    <3>1. handler' = [handler EXCEPT ![b] = Quiet] /\ loggedIn' = loggedIn
      BY <1>3, <2>7 DEF Authenticate, Then
    <3>2. LoginTypeOK'
      BY <2>5, <3>1 DEF LoginInv, LoginTypeOK
    <3>3. AccountsInv'
      BY <2>5, <3>1, QuietIsIdle DEF LoginInv, LoginTypeOK, AccountsInv
    <3> QED BY <2>5, <3>1, <3>2, <3>3 DEF LoginInv, LoginsAreSound
  <2> QED BY <2>6, <2>7
<1>4. ASSUME NEW b \in Browsers, Register(b) PROVE LoginInv'
  <2> DEFINE u == handler[b].user
  <2>1. handler[b] \in Named /\ handler[b].step = "register" /\ u \in Users
    BY <1>4, QuietIsIdle DEF Register, LoginInv, LoginTypeOK, Named
  <2>2. [step |-> "session", user |-> u] \in Named
    BY <2>1 DEF Named
  <2>3. UNCHANGED <<configured, tokens, clock, restarts, loggedIn, served>>
    BY <1>4 DEF Register
  <2>4. CASE accounts[u] = "none"
    <3>1. /\ accounts' = [accounts EXCEPT ![u] = "registration"]
          /\ registered' = [registered EXCEPT ![u] = @ + 1]
          /\ handler' = [handler EXCEPT ![b] = [step |-> "session", user |-> u]]
      BY <1>4, <2>4 DEF Register, Then
    <3>2. registered[u] = 0
      BY <2>1, <2>4 DEF LoginInv, LoginTypeOK, AccountsInv
    <3>3. LoginTypeOK'
      BY <2>1, <2>2, <2>3, <3>1 DEF LoginInv, LoginTypeOK, Passwords
    <3>4. AccountsInv'
      <4>1. \A v \in Users : /\ accounts[v] # "none" => accounts'[v] # "none"
                             /\ accounts[v] = "environment" => accounts'[v] = "environment"
        BY <2>4, <3>1 DEF LoginInv, LoginTypeOK
      <4>2. accounts' \in [Users -> Passwords \cup {"none"}]
        BY <3>3 DEF LoginTypeOK
      <4>3. \A c \in Browsers :
              /\ handler[c].step = "authenticate" /\ handler[c].user \in configured
                   => accounts'[handler[c].user] = "environment"
              /\ handler[c].step = "session" => accounts'[handler[c].user] # "none"
              /\ tokens[c] # NoToken => accounts'[tokens[c].user] # "none"
        BY <4>1, <4>2, AccountsGrow
      <4>4. accounts'[u] # "none"
        BY <2>1, <3>1 DEF LoginInv, LoginTypeOK
      <4>5. \A v \in Users : registered'[v] <= 1 /\ (registered'[v] = 1 => accounts'[v] # "none")
        BY <2>1, <3>1, <3>2, <4>1, <4>4 DEF LoginInv, LoginTypeOK, AccountsInv
      <4> QED BY <2>3, <3>1, <4>3, <4>4, <4>5 DEF LoginInv, LoginTypeOK, AccountsInv
    <3>5. LoginsAreSound'
      BY <2>3, <3>4 DEF AccountsInv, LoginInv, LoginsAreSound
    <3> QED BY <3>3, <3>4, <3>5 DEF LoginInv
  <2>5. CASE accounts[u] # "none"
    <3>1. handler' = [handler EXCEPT ![b] = Quiet] /\ UNCHANGED <<accounts, registered>>
      BY <1>4, <2>5 DEF Register, Then
    <3>2. LoginTypeOK'
      BY <2>3, <3>1 DEF LoginInv, LoginTypeOK
    <3>3. AccountsInv'
      BY <2>3, <3>1, QuietIsIdle DEF LoginInv, LoginTypeOK, AccountsInv
    <3> QED BY <2>3, <3>1, <3>2, <3>3 DEF LoginInv, LoginsAreSound
  <2> QED BY <2>4, <2>5
<1>5. ASSUME NEW b \in Browsers, CreateSession(b) PROVE LoginInv'
  <2>1. handler[b] \in Named /\ handler[b].step = "session" /\ handler[b].user \in Users
    BY <1>5, QuietIsIdle DEF CreateSession, LoginInv, LoginTypeOK, Named
  <2>2. UNCHANGED <<configured, accounts, clock, restarts, registered, loggedIn, served>>
        /\ handler' = [handler EXCEPT ![b] = Quiet]
    BY <1>5 DEF CreateSession, Then
  <2>3. [user |-> handler[b].user, expires |-> clock + Ttl] \in [user : Users, expires : Nat]
    BY <2>1, LoginAssumption DEF LoginInv, LoginTypeOK
  <2>4. tokens' \in [Browsers -> {NoToken} \cup [user : Users, expires : Nat]]
    BY <1>5, <2>3 DEF CreateSession, LoginInv, LoginTypeOK
  <2>5. LoginTypeOK'
    BY <2>2, <2>4 DEF LoginInv, LoginTypeOK
  <2>6. \A c \in Browsers : tokens'[c] # NoToken => accounts[tokens'[c].user] # "none"
    BY <1>5, <2>1 DEF CreateSession, LoginInv, AccountsInv
  <2>7. AccountsInv'
    BY <2>2, <2>6, QuietIsIdle DEF LoginInv, LoginTypeOK, AccountsInv
  <2> QED BY <2>2, <2>5, <2>7 DEF LoginInv, LoginsAreSound
<1>6. ASSUME NEW b \in Browsers, HandleLogout(b) \/ Authorize(b) PROVE LoginInv'
  <2>1. /\ UNCHANGED <<configured, accounts, handler, clock, restarts, registered, loggedIn>>
        /\ tokens' = tokens \/ tokens' = [tokens EXCEPT ![b] = NoToken]
    BY <1>6 DEF HandleLogout, Authorize
  <2>2. LoginTypeOK'
    BY <2>1 DEF LoginInv, LoginTypeOK
  <2>3. AccountsInv'
    BY <2>1 DEF LoginInv, LoginTypeOK, AccountsInv
  <2>4. \A s \in served' : s.exists /\ s.age < Ttl
    <3>1. CASE HandleLogout(b)
      BY <3>1 DEF HandleLogout, LoginInv, LoginsAreSound
    <3>2. CASE Authorize(b)
      <4>1. tokens[b] # NoToken /\ tokens[b].expires \in Nat /\ clock \in Nat /\ Ttl \in Nat
        BY <3>2, LoginAssumption DEF Authorize, LoginInv, LoginTypeOK
      <4>2. tokens[b].expires > clock => Ttl - (tokens[b].expires - clock) < Ttl
        BY <4>1
      <4>3. accounts[tokens[b].user] # "none"
        BY <4>1 DEF LoginInv, AccountsInv
      <4> DEFINE exists == accounts[tokens[b].user] # "none"
                 age == Ttl - (tokens[b].expires - clock)
                 new == [user |-> tokens[b].user, age |-> age, exists |-> exists]
      <4>4. tokens[b].expires > clock => new.exists /\ new.age < Ttl
        <5> HIDE DEF exists, age
        <5>1. new.exists = exists /\ new.age = age
          OBVIOUS
        <5> QED BY <4>2, <4>3, <5>1 DEF exists, age
      <4>5. served' = served \/ (tokens[b].expires > clock /\ served' = served \cup {new})
        BY <3>2 DEF Authorize
      <4> HIDE DEF new
      <4> QED BY <4>4, <4>5 DEF LoginInv, LoginsAreSound
    <3> QED BY <1>6, <3>1, <3>2
  <2> QED BY <2>1, <2>2, <2>3, <2>4 DEF LoginInv, LoginsAreSound
<1>7. CASE Tick
  <2>1. LoginTypeOK'
    BY <1>7 DEF Tick, LoginInv, LoginTypeOK
  <2>2. AccountsInv'
    BY <1>7 DEF Tick, LoginInv, AccountsInv
  <2> QED BY <1>7, <2>1, <2>2 DEF Tick, LoginInv, LoginsAreSound
<1>8. CASE RestartServer
  <2>1. LoginTypeOK'
    BY <1>8 DEF RestartServer, LoginInv, LoginTypeOK
  <2>2. AccountsInv'
    BY <1>8, QuietIsIdle DEF RestartServer, LoginInv, AccountsInv
  <2> QED BY <1>8, <2>1, <2>2 DEF RestartServer, LoginInv, LoginsAreSound
<1> QED BY <1>1, <1>2, <1>3, <1>4, <1>5, <1>6, <1>7, <1>8 DEF LoginNext

\* A name is registered once, however many HTTP threads try; a login to a name the
\* environment configures took the environment's password, though someone had
\* registered it before (sync_environment_users); and a request is served as a
\* user that exists, within the lifetime of the token (web/auth_store.py).
THEOREM LoginsSound == Spec => []LoginsAreSound
<1>1. Init => LoginInv
  <2> SUFFICES ASSUME LoginInit PROVE LoginInv
    BY DEF Init
  <2>1. LoginTypeOK
    BY DEF LoginInit, LoginTypeOK
  <2>2. AccountsInv
    BY QuietIsIdle DEF LoginInit, AccountsInv
  <2> QED BY <2>1, <2>2 DEF LoginInit, LoginInv, LoginsAreSound
<1>2. LoginInv /\ [Next]_<<frontVars, channel>> => LoginInv'
  <2> SUFFICES ASSUME LoginInv, [Next]_<<frontVars, channel>> PROVE LoginInv'
    OBVIOUS
  <2>1. CASE LoginNext
    BY <2>1, LoginStep
  <2>2. CASE UNCHANGED loginVars
    BY <2>2 DEF loginVars, LoginInv, LoginTypeOK, AccountsInv, LoginsAreSound
  <2> QED BY <2>1, <2>2 DEF Next, frontVars
<1>3. LoginInv => LoginsAreSound
  BY DEF LoginInv
<1> QED BY <1>1, <1>2, <1>3, PTL DEF Spec

-----------------------------------------------------------------------------
(* Stored files                                                             *)

One(a) == <<a>>
Two(a, b) == <<a, b>>
Places == {One(a) : a \in Names} \cup {Two(a, b) : a, b \in Names}
Uploads == Nat \ {Dir, Torn}

\* Every path leads to an inode, and through a directory.
TreeIs(t, c) ==
  /\ t = [p \in DOMAIN t |-> t[p]] /\ DOMAIN t \subseteq Places /\ c \in Seq(Nat)
  /\ \A p \in DOMAIN t : t[p] \in DOMAIN c
  /\ \A p \in DOMAIN t : Len(p) = 2 => Parent(p) \in DOMAIN t /\ c[t[Parent(p)]] = Dir

\* What a thread has opened is a file, and a rename whose target is there knows that it came late.
Opening(s) == \E p \in Places, n \in Uploads : s = [step |-> "open", path |-> p, number |-> n]
Writing(s, c) == \E i \in DOMAIN c, n \in Uploads : c[i] # Dir /\ s = [step |-> "write", inode |-> i, number |-> n]
Renaming(s, t) ==
  \E p, q \in Places, late \in BOOLEAN : /\ Len(p) = Len(q) /\ Parent(p) = Parent(q) /\ (q \in DOMAIN t => late)
                                         /\ s = [step |-> "rename", path |-> p, target |-> q, late |-> late]
Removing(s) == \E p \in Places : s = [step |-> "rmdir", path |-> p]
WorkIs(s, t, c) == s = Idle \/ Opening(s) \/ Writing(s, c) \/ Renaming(s, t) \/ Removing(s)

FilesInv == /\ TreeIs(tree, content) /\ requests \in Nat /\ NothingLost
            /\ \A w \in Workers : WorkIs(work[w], tree, content)

LEMMA ShortSeqs ==
  ASSUME NEW s \in Seq(Names)
  PROVE  /\ Len(s) = 1 => s = <<s[1]>> /\ s[1] \in Names
         /\ Len(s) = 2 => s = <<s[1], s[2]>> /\ s[1] \in Names /\ s[2] \in Names
OBVIOUS

LEMMA ShortPaths == ASSUME NEW s \in Seq(Names), Len(s) \in {1, 2} PROVE s \in Places
BY ShortSeqs DEF Places, One, Two

LEMMA TupleParts ==
  ASSUME NEW a \in Names, NEW b \in Names
  PROVE  /\ Len(<<a>>) = 1 /\ <<a>> # <<>> /\ Parent(<<a>>) = <<>> /\ Append(<<>>, a) = <<a>>
         /\ Len(<<a, b>>) = 2 /\ <<a, b>> # <<>> /\ Parent(<<a, b>>) = <<a>> /\ Append(<<a>>, b) = <<a, b>>
         /\ SubSeq(<<a, b>>, 1, 1) = <<a>> /\ SubSeq(<<a, b>>, 2, 2) = <<b>>
         /\ <<a>> \o <<b>> = <<a, b>> /\ SubSeq(<<a>>, 1, 1) = <<a>>
         /\ <<a>> \in Seq(Names) /\ <<a, b>> \in Seq(Names)
<1>1. Len(<<a>>) = 1 /\ <<a>> # <<>> /\ Len(<<a, b>>) = 2 /\ <<a, b>> # <<>> /\ <<a, b>> \in Seq(Names)
      /\ <<a>> \in Seq(Names) /\ <<b>> \in Seq(Names)
  OBVIOUS
<1>2. SubSeq(<<a>>, 1, 0) = <<>>
  BY SubSeqEmpty
<1>3. ASSUME NEW i \in {1, 2} PROVE SubSeq(<<a, b>>, i, i) = <<<<a, b>>[i]>>
  <2> PICK s : s = SubSeq(<<a, b>>, i, i)
    OBVIOUS
  <2>1. s \in Seq(Names) /\ Len(s) = 1 /\ s[1] = <<a, b>>[i]
    <3>1. \A j \in i..i : <<a, b>>[j] \in Names
      OBVIOUS
    <3>2. /\ s \in Seq(Names) /\ Len(s) = (IF i <= i THEN i - i + 1 ELSE 0)
          /\ \A j \in 1..(i - i + 1) : s[j] = <<a, b>>[i + j - 1]
      BY <3>1, SubSeqProperties
    <3> QED BY <3>2
  <2>2. s = <<s[1]>>
    BY <2>1, ShortSeqs
  <2> QED BY <2>1, <2>2
<1>4. SubSeq(<<a, b>>, 1, 1) = <<a>> /\ SubSeq(<<a, b>>, 2, 2) = <<b>>
  <2>1. <<a, b>>[1] = a /\ <<a, b>>[2] = b
    OBVIOUS
  <2> QED BY <1>3, <2>1
<1>5. Append(<<>>, a) = <<a>>
  <2> PICK s : s = Append(<<>>, a)
    OBVIOUS
  <2>1. <<>> \in Seq(Names)
    OBVIOUS
  <2>2. s \in Seq(Names) /\ Len(s) = 1 /\ s[1] = a
    BY <2>1
  <2>3. s = <<s[1]>>
    BY <2>2, ShortSeqs
  <2> QED BY <2>2, <2>3
<1>6. Append(<<a>>, b) = <<a, b>>
  <2> PICK s : s = Append(<<a>>, b)
    OBVIOUS
  <2>1. s \in Seq(Names) /\ Len(s) = 2 /\ s[1] = a /\ s[2] = b
    BY <1>1
  <2>2. s = <<s[1], s[2]>>
    BY <2>1, ShortSeqs
  <2> QED BY <2>1, <2>2
<1>7. <<a>> \o <<b>> = <<a, b>>
  <2> PICK s : s = <<a>> \o <<b>>
    OBVIOUS
  <2>1. s \in Seq(Names) /\ Len(s) = 2 /\ s[1] = a /\ s[2] = b
    BY <1>1
  <2>2. s = <<s[1], s[2]>>
    BY <2>1, ShortSeqs
  <2> QED BY <2>1, <2>2
<1>8. SubSeq(<<a>>, 1, 1) = <<a>>
  BY <1>1, SubSeqFull
<1> QED BY <1>1, <1>2, <1>4, <1>5, <1>6, <1>7, <1>8 DEF Parent

\* The parts of paths of one and of two names.
LEMMA PathParts ==
  /\ \A a \in Names : /\ One(a) \in Seq(Names) /\ Len(One(a)) = 1 /\ One(a) # <<>> /\ Parent(One(a)) = <<>>
                      /\ Append(<<>>, a) = One(a) /\ SubSeq(One(a), 1, 1) = One(a)
  /\ \A a, b \in Names : /\ Two(a, b) \in Seq(Names) /\ Len(Two(a, b)) = 2 /\ Two(a, b) # <<>> /\ Parent(Two(a, b)) = One(a)
                         /\ Append(One(a), b) = Two(a, b) /\ SubSeq(Two(a, b), 1, 1) = One(a)
                         /\ SubSeq(Two(a, b), 2, 2) = One(b) /\ One(a) \o One(b) = Two(a, b)
<1>1. \A a \in Names : /\ One(a) \in Seq(Names) /\ Len(One(a)) = 1 /\ One(a) # <<>> /\ Parent(One(a)) = <<>>
                       /\ Append(<<>>, a) = One(a) /\ SubSeq(One(a), 1, 1) = One(a)
  BY TupleParts, Zenon DEF One
<1>2. \A a, b \in Names : /\ Two(a, b) \in Seq(Names) /\ Len(Two(a, b)) = 2 /\ Two(a, b) # <<>> /\ Parent(Two(a, b)) = One(a)
                          /\ Append(One(a), b) = Two(a, b) /\ SubSeq(Two(a, b), 1, 1) = One(a)
                          /\ SubSeq(Two(a, b), 2, 2) = One(b) /\ One(a) \o One(b) = Two(a, b)
  BY TupleParts, Zenon DEF One, Two
<1> QED BY <1>1, <1>2

LEMMA PathNames ==
  /\ \A a, b : One(a) = One(b) => a = b
  /\ \A a, b, c, d : Two(a, b) = Two(c, d) => a = c /\ b = d
BY DEF One, Two

LEMMA PlaceKinds ==
  ASSUME NEW p \in Places
  PROVE  (Len(p) = 1 /\ \E a \in Names : p = One(a)) \/ (Len(p) = 2 /\ \E a, b \in Names : p = Two(a, b))
<1>1. CASE \E a \in Names : p = One(a)
  BY <1>1, PathParts
<1>2. CASE \E a, b \in Names : p = Two(a, b)
  BY <1>2, PathParts
<1> QED BY <1>1, <1>2 DEF Places

LEMMA PlaceIs ==
  ASSUME NEW p \in Places
  PROVE  /\ p # <<>> /\ Len(p) \in {1, 2} /\ (Len(p) = 1 => Parent(p) = <<>>)
         /\ Len(p) = 2 => Parent(p) \in Places /\ Len(Parent(p)) = 1
         /\ Len(p) = 1 => SubSeq(p, 1, 1) = p
         /\ Len(p) = 2 => SubSeq(p, 1, 1) = Parent(p)
<1>1. CASE \E a \in Names : p = One(a)
  BY <1>1, PathParts
<1>2. CASE \E a, b \in Names : p = Two(a, b)
  <2>1. PICK a \in Names, b \in Names : p = Two(a, b)
    BY <1>2
  <2>2. One(a) \in Places
    BY DEF Places
  <2> QED BY <2>1, <2>2, PathParts
<1> QED BY <1>1, <1>2 DEF Places

LEMMA PathsArePlaces == Paths \subseteq Places
<1> SUFFICES ASSUME NEW p \in Paths PROVE p \in Places
  OBVIOUS
<1>1. p \in Seq(Names) /\ Len(p) \in {1, 2}
  BY FilesAssumption
<1> QED BY <1>1, ShortPaths

LEMMA SiblingIs ==
  ASSUME NEW p \in Places, NEW name \in Names, NEW t, t = Append(Parent(p), name)
  PROVE  t \in Places /\ Len(t) = Len(p) /\ Parent(t) = Parent(p)
<1>1. CASE \E a \in Names : p = One(a)
  <2>1. PICK a \in Names : p = One(a)
    BY <1>1
  <2>2. t = One(name) /\ Len(p) = 1 /\ Parent(p) = <<>>
    BY <2>1, PathParts
  <2> QED BY <2>2, PathParts DEF Places
<1>2. CASE \E a, b \in Names : p = Two(a, b)
  <2>1. PICK a \in Names, b \in Names : p = Two(a, b)
    BY <1>2
  <2>2. Len(p) = 2 /\ Parent(p) = One(a) /\ Append(One(a), name) = Two(a, name)
    BY <2>1, PathParts, Zenon
  <2>3. t = Two(a, name)
    BY <2>2
  <2>4. Two(a, name) \in Places /\ Len(Two(a, name)) = 2 /\ Parent(Two(a, name)) = One(a)
    BY PathParts DEF Places
  <2> QED BY <2>2, <2>3, <2>4
<1> QED BY <1>1, <1>2 DEF Places

LEMMA BelowIs ==
  ASSUME DOMAIN tree \subseteq Places, NEW p \in Places
  PROVE  Below(p) = {q \in DOMAIN tree : Len(p) = 1 /\ Len(q) = 2 /\ Parent(q) = p}
<1>1. ASSUME NEW q \in DOMAIN tree
      PROVE  (Len(q) > Len(p) /\ SubSeq(q, 1, Len(p)) = p) <=> (Len(p) = 1 /\ Len(q) = 2 /\ Parent(q) = p)
  <2>1. Len(p) \in {1, 2} /\ Len(q) \in {1, 2}
    BY <1>1, PlaceIs
  <2>2. Len(q) = 2 => SubSeq(q, 1, 1) = Parent(q)
    BY <1>1, PlaceIs
  <2>3. CASE Len(p) = 1 /\ Len(q) = 2
    BY <2>2, <2>3
  <2>4. CASE ~(Len(p) = 1 /\ Len(q) = 2)
    <3>1. ~(Len(q) > Len(p))
      BY <2>1, <2>4
    <3> QED BY <2>4, <3>1
  <2> QED BY <2>3, <2>4
<1> QED BY <1>1 DEF Below

\* Where a rename takes a path.
Moved(p, t, q) == t \o SubSeq(q, Len(p) + 1, Len(q))
LEMMA MovedIs ==
  ASSUME NEW p \in Places, NEW t \in Places, Len(p) = Len(t)
  PROVE  /\ Moved(p, t, p) = t
         /\ \A q \in Places : Len(p) = 1 /\ Len(q) = 2 =>
                Moved(p, t, q) \in Places /\ Len(Moved(p, t, q)) = 2 /\ Parent(Moved(p, t, q)) = t
         /\ \A q, r \in Places : Len(p) = 1 /\ Len(q) = 2 /\ Len(r) = 2 /\ Parent(q) = Parent(r)
                                 /\ Moved(p, t, q) = Moved(p, t, r) => q = r
<1>1. Moved(p, t, p) = t
  <2>1. t \in Seq(Names) /\ Len(p) \in Int
    BY PathParts, PlaceIs DEF Places
  <2>2. SubSeq(p, Len(p) + 1, Len(p)) = <<>>
    BY <2>1, SubSeqEmpty
  <2>3. t \o <<>> = t
    BY <2>1
  <2> QED BY <2>2, <2>3 DEF Moved
<1>2. ASSUME NEW q \in Places, Len(p) = 1, Len(q) = 2
      PROVE  \E a, b, c \in Names : q = Two(a, c) /\ t = One(b) /\ Moved(p, t, q) = Two(b, c) /\ Parent(q) = One(a)
  <2>1. PICK b \in Names : t = One(b)
    <3>1. Len(t) # 2
      BY <1>2
    <3> QED BY <3>1, PlaceKinds
  <2>2. PICK a \in Names, c \in Names : q = Two(a, c)
    <3>1. Len(q) # 1
      BY <1>2
    <3> QED BY <1>2, <3>1, PlaceKinds
  <2>3. SubSeq(Two(a, c), 2, 2) = One(c) /\ Parent(Two(a, c)) = One(a) /\ One(b) \o One(c) = Two(b, c)
    BY PathParts
  <2>4. Len(p) + 1 = 2
    BY <1>2
  <2>5. Moved(p, t, q) = Two(b, c)
    BY <1>2, <2>1, <2>2, <2>3, <2>4 DEF Moved
  <2> QED BY <2>1, <2>2, <2>3, <2>5
<1>3. ASSUME NEW q \in Places, Len(p) = 1, Len(q) = 2
      PROVE  Moved(p, t, q) \in Places /\ Len(Moved(p, t, q)) = 2 /\ Parent(Moved(p, t, q)) = t
  <2>1. PICK b \in Names, c \in Names : t = One(b) /\ Moved(p, t, q) = Two(b, c)
    BY <1>2, <1>3
  <2>2. Len(Two(b, c)) = 2 /\ Parent(Two(b, c)) = One(b) /\ Two(b, c) \in Places
    BY PathParts DEF Places
  <2> QED BY <2>1, <2>2
<1>4. ASSUME NEW q \in Places, NEW r \in Places, Len(p) = 1, Len(q) = 2, Len(r) = 2, Parent(q) = Parent(r),
             Moved(p, t, q) = Moved(p, t, r)
      PROVE  q = r
  <2>1. PICK a \in Names, b \in Names, c \in Names : q = Two(a, c) /\ t = One(b) /\ Moved(p, t, q) = Two(b, c) /\ Parent(q) = One(a)
    BY <1>2, <1>4
  <2>2. PICK d \in Names, e \in Names, f \in Names : r = Two(d, f) /\ t = One(e) /\ Moved(p, t, r) = Two(e, f) /\ Parent(r) = One(d)
    BY <1>2, <1>4
  <2>3. Two(b, c) = Two(e, f) /\ One(a) = One(d)
    BY <1>4, <2>1, <2>2, Zenon
  <2>4. c = f /\ a = d
    BY <2>3, PathNames
  <2> QED BY <2>1, <2>2, <2>4
<1>5. \A q \in Places : Len(p) = 1 /\ Len(q) = 2 =>
          Moved(p, t, q) \in Places /\ Len(Moved(p, t, q)) = 2 /\ Parent(Moved(p, t, q)) = t
  BY <1>3, Zenon
<1>6. \A q, r \in Places : Len(p) = 1 /\ Len(q) = 2 /\ Len(r) = 2 /\ Parent(q) = Parent(r)
                           /\ Moved(p, t, q) = Moved(p, t, r) => q = r
  BY <1>4
<1> QED BY <1>1, <1>5, <1>6, Zenon

LEMMA FilesStart == FilesInit => FilesInv
<1> SUFFICES ASSUME FilesInit PROVE FilesInv
  OBVIOUS
<1>1. tree = <<>> /\ content = <<>> /\ requests = 0 /\ saved = {} /\ \A w \in Workers : work[w] = Idle
  BY DEF FilesInit
<1>2. DOMAIN tree = {} /\ tree = [p \in DOMAIN tree |-> tree[p]]
  BY <1>1
<1>4. content \in Seq(Nat)
  BY <1>1
<1>3. TreeIs(tree, content)
  BY <1>2, <1>4 DEF TreeIs
<1> QED BY <1>1, <1>3 DEF FilesInv, WorkIs, NothingLost

LEMMA FilesStutter == FilesInv /\ UNCHANGED fileVars => FilesInv'
<1> SUFFICES ASSUME FilesInv, UNCHANGED fileVars PROVE FilesInv'
  OBVIOUS
<1>1. /\ tree' = tree /\ content' = content /\ work' = work /\ requests' = requests
      /\ saved' = saved /\ discarded' = discarded /\ lost' = lost
  BY DEF fileVars
<1> QED BY <1>1 DEF FilesInv, NothingLost, Held

\* What a thread is doing says what it holds.
LEMMA StepIs ==
  ASSUME NEW s, NEW t, NEW c, WorkIs(s, t, c)
  PROVE  /\ s.step \in {"idle", "open", "write", "rename", "rmdir"}
         /\ s.step = "open" <=> Opening(s)
         /\ s.step = "write" <=> Writing(s, c)
         /\ s.step = "rename" <=> Renaming(s, t)
         /\ s.step = "rmdir" <=> Removing(s)
<1>1. s = Idle => s.step = "idle"
  BY DEF Idle
<1>2. Opening(s) => s.step = "open"
  BY DEF Opening
<1>3. Writing(s, c) => s.step = "write"
  BY DEF Writing
<1>4. Renaming(s, t) => s.step = "rename"
  BY DEF Renaming
<1>5. Removing(s) => s.step = "rmdir"
  BY DEF Removing
<1> QED BY <1>1, <1>2, <1>3, <1>4, <1>5 DEF WorkIs

\* The threads keep what they know of the tree while one of them goes on, as files stay
\* files and directories stay directories.
LEMMA ProceedKeeps ==
  ASSUME FilesInv, NEW w \in Workers, NEW next, Proceed(w, next), WorkIs(next, tree', content'),
         DOMAIN content \subseteq DOMAIN content', \A i \in DOMAIN content : content[i] # Dir => content'[i] # Dir
  PROVE  \A v \in Workers : WorkIs(work'[v], tree', content')
<1> SUFFICES ASSUME NEW v \in Workers PROVE WorkIs(work'[v], tree', content')
  OBVIOUS
<1> PICK s : s = work[v]
  OBVIOUS
<1>1. WorkIs(s, tree, content)
  BY DEF FilesInv
<1>2. CASE v = w
  <2>1. work'[v] = next
    BY <1>2 DEF Proceed
  <2> QED BY <2>1
<1>3. CASE v # w /\ Renaming(s, tree)
  <2>1. PICK p \in Places, q \in Places, late \in BOOLEAN :
             /\ Len(p) = Len(q) /\ Parent(p) = Parent(q) /\ (q \in DOMAIN tree => late)
             /\ s = [step |-> "rename", path |-> p, target |-> q, late |-> late]
    BY <1>3 DEF Renaming
  <2>2. s.step = "rename" /\ s.target = q
    BY <2>1
  <2>3. CASE q \in DOMAIN tree' \ DOMAIN tree
    <3>1. work'[v] = [s EXCEPT !.late = TRUE]
      <4>1. work[v].step = "rename" /\ work[v].target \in DOMAIN tree' \ DOMAIN tree /\ v # w
        BY <1>3, <2>2, <2>3
      <4>2. work'[v] = [work[v] EXCEPT !.late = TRUE]
        BY <4>1, Zenon DEF Proceed
      <4> QED BY <4>2
    <3>2. work'[v] = [step |-> "rename", path |-> p, target |-> q, late |-> TRUE]
      <4>1. work'[v] = [[step |-> "rename", path |-> p, target |-> q, late |-> late] EXCEPT !.late = TRUE]
        BY <2>1, <3>1, Zenon
      <4> QED BY <4>1
    <3>3. Renaming(work'[v], tree')
      BY <2>1, <3>2 DEF Renaming
    <3> QED BY <3>3 DEF WorkIs
  <2>4. CASE q \notin DOMAIN tree' \ DOMAIN tree
    <3>1. work'[v] = s
      BY <1>3, <2>2, <2>4 DEF Proceed
    <3>2. Renaming(work'[v], tree')
      BY <2>1, <2>4, <3>1 DEF Renaming
    <3> QED BY <3>2 DEF WorkIs
  <2> QED BY <2>3, <2>4
<1>4. CASE v # w /\ ~Renaming(s, tree)
  <2>1. s.step # "rename"
    BY <1>1, <1>4, StepIs
  <2>2. work'[v] = s
    BY <1>4, <2>1 DEF Proceed
  <2>3. Writing(s, content) => Writing(s, content')
    BY DEF Writing
  <2> QED BY <1>1, <1>4, <2>2, <2>3 DEF WorkIs
<1> QED BY <1>2, <1>3, <1>4

\* A path is added below a directory, and its inode behind the others.
HeldIn(t, c) == {c[t[p]] : p \in DOMAIN t} \ {Dir, Torn}
Grown(t, c, p, kind, t2, c2) == t2 = Added(t, p, Len(c) + 1) /\ c2 = Append(c, kind)
GrownIs(t, c, p, kind, t2, c2) ==
  /\ TreeIs(t2, c2) /\ HeldIn(t2, c2) = HeldIn(t, c)
  /\ DOMAIN c2 = DOMAIN c \cup {Len(c) + 1} /\ c2[Len(c) + 1] = kind
  /\ (\A i \in DOMAIN c : c2[i] = c[i]) /\ Len(c2) = Len(c) + 1
  /\ DOMAIN t2 = DOMAIN t \cup {p} /\ t2[p] = Len(c) + 1
  /\ \A q \in DOMAIN t : t2[q] = t[q]
LEMMA AddedKeeps ==
  ASSUME NEW t, NEW c, TreeIs(t, c), NEW p \in Places, p \notin DOMAIN t, NEW kind \in {Dir, Torn},
         Len(p) = 2 => Parent(p) \in DOMAIN t /\ c[t[Parent(p)]] = Dir,
         NEW t2, NEW c2, Grown(t, c, p, kind, t2, c2)
  PROVE  GrownIs(t, c, p, kind, t2, c2)
<1>1. c \in Seq(Nat) /\ DOMAIN t \subseteq Places
  BY DEF TreeIs
<1> PICK n \in Nat : n = Len(c) + 1
  BY <1>1
<1>2. /\ c2 \in Seq(Nat) /\ DOMAIN c2 = DOMAIN c \cup {n} /\ c2[n] = kind /\ Len(c2) = n /\ n \notin DOMAIN c
      /\ \A i \in DOMAIN c : c2[i] = c[i]
  BY <1>1 DEF Dir, Torn, Grown
<1>3. /\ DOMAIN t2 = DOMAIN t \cup {p} /\ t2[p] = n /\ t2 = [q \in DOMAIN t2 |-> t2[q]]
      /\ \A q \in DOMAIN t : t2[q] = t[q]
  BY DEF Added, Grown
<1>4. \A q \in DOMAIN t : t[q] \in DOMAIN c /\ c2[t2[q]] = c[t[q]]
  BY <1>2, <1>3 DEF TreeIs
<1>5. ASSUME NEW q \in DOMAIN t2, Len(q) = 2 PROVE Parent(q) \in DOMAIN t2 /\ c2[t2[Parent(q)]] = Dir
  <2>1. Parent(q) \in DOMAIN t /\ c[t[Parent(q)]] = Dir
    BY <1>3, <1>5 DEF TreeIs
  <2> QED BY <1>3, <1>4, <2>1
<1>6. TreeIs(t2, c2)
  <2>1. \A q \in DOMAIN t2 : t2[q] \in DOMAIN c2
    BY <1>2, <1>3, <1>4
  <2> QED BY <1>1, <1>2, <1>3, <1>5, <2>1 DEF TreeIs
<1>7. HeldIn(t2, c2) = HeldIn(t, c)
  <2>1. c2[t2[p]] \in {Dir, Torn}
    BY <1>2, <1>3
  <2> QED BY <1>3, <1>4, <2>1 DEF HeldIn
<1> QED BY <1>2, <1>3, <1>6, <1>7 DEF GrownIs

LEMMA HeldIs == Held(DOMAIN tree) = HeldIn(tree, content)
BY DEF Held, HeldIn

\* mkdir adds directories to directories.
LEMMA MakeDirsKeeps ==
  ASSUME FilesInv, NEW w \in Workers, NEW p, p = <<>> \/ p \in Places, NEW next, WorkIs(next, tree', content'), MakeDirs(w, p, next)
  PROVE  /\ TreeIs(tree', content') /\ HeldIn(tree', content') = HeldIn(tree, content)
         /\ \A v \in Workers : WorkIs(work'[v], tree', content')
<1>1. TreeIs(tree, content) /\ content \in Seq(Nat)
  BY DEF FilesInv, TreeIs
<1>2. CASE p = <<>> \/ IsDir(p)
  <2>1. tree' = tree /\ content' = content /\ Proceed(w, next)
    BY <1>2 DEF MakeDirs
  <2> QED BY <1>1, <2>1, ProceedKeeps
<1>3. CASE ~(p = <<>> \/ IsDir(p)) /\ (p \in DOMAIN tree \/ (~IsDir(Parent(p)) /\ Parent(p) \in DOMAIN tree))
  <2>1. tree' = tree /\ content' = content /\ Proceed(w, Idle) /\ WorkIs(Idle, tree', content')
    BY <1>3 DEF MakeDirs, WorkIs
  <2> QED BY <1>1, <2>1, ProceedKeeps
<1>4. CASE ~(p = <<>> \/ IsDir(p)) /\ ~(p \in DOMAIN tree \/ (~IsDir(Parent(p)) /\ Parent(p) \in DOMAIN tree))
  <2>1. /\ p \in Places \ DOMAIN tree /\ Len(p) \in {1, 2} /\ (Len(p) = 1 => Parent(p) = <<>>) /\ <<>> \notin Places
        /\ Len(p) = 2 => Parent(p) \in Places /\ Len(Parent(p)) = 1
    BY <1>4, PlaceIs
  <2>2. CASE IsDir(Parent(p))
    <3>1. content' = Append(content, Dir) /\ tree' = Added(tree, p, Len(content')) /\ Proceed(w, next)
      BY <1>4, <2>2 DEF MakeDirs
    <3>2. Len(content') = Len(content) + 1
      BY <1>1, <3>1
    <3>3. Len(p) = 2 => Parent(p) \in DOMAIN tree /\ content[tree[Parent(p)]] = Dir
      BY <2>1, <2>2 DEF IsDir
    <3>4. /\ TreeIs(tree', content') /\ HeldIn(tree', content') = HeldIn(tree, content)
          /\ DOMAIN content \subseteq DOMAIN content' /\ (\A i \in DOMAIN content : content'[i] = content[i])
      <4>1. Grown(tree, content, p, Dir, tree', content')
        BY <3>1, <3>2 DEF Grown
      <4>2. Dir \in {Dir, Torn} /\ p \in Places /\ p \notin DOMAIN tree
        BY <2>1
      <4>3. GrownIs(tree, content, p, Dir, tree', content')
        BY <1>1, <3>3, <4>1, <4>2, AddedKeeps, Zenon
      <4> QED BY <4>3 DEF GrownIs
    <3> QED BY <3>1, <3>4, ProceedKeeps
  <2>3. CASE ~IsDir(Parent(p))
    <3> PICK top : top = Parent(p)
      OBVIOUS
    <3> PICK t : t = Added(tree, top, Len(content) + 1)
      OBVIOUS
    <3> PICK c : c = Append(content, Dir)
      OBVIOUS
    <3>1. /\ content' = content \o <<Dir, Dir>> /\ tree' = Added(t, p, Len(content')) /\ Proceed(w, next)
      BY <1>4, <2>3 DEF MakeDirs
    <3>2. Len(p) = 2 /\ top \in Places /\ Len(top) = 1 /\ top \notin DOMAIN tree
      BY <1>4, <2>1, <2>3 DEF IsDir
    <3>3. /\ TreeIs(t, c) /\ HeldIn(t, c) = HeldIn(tree, content) /\ DOMAIN t = DOMAIN tree \cup {top}
          /\ DOMAIN c = DOMAIN content \cup {Len(content) + 1} /\ (\A i \in DOMAIN content : c[i] = content[i])
          /\ t[top] = Len(content) + 1 /\ c[Len(content) + 1] = Dir /\ Len(c) = Len(content) + 1
      <4>1. Grown(tree, content, top, Dir, t, c)
        BY DEF Grown
      <4>2. Dir \in {Dir, Torn} /\ (Len(top) = 2 => Parent(top) \in DOMAIN tree /\ content[tree[Parent(top)]] = Dir)
        BY <3>2
      <4>3. GrownIs(tree, content, top, Dir, t, c)
        BY <1>1, <3>2, <4>1, <4>2, AddedKeeps, Zenon
      <4> QED BY <4>3 DEF GrownIs
    <3>4. content' = Append(c, Dir) /\ Len(content') = Len(c) + 1
      <4>1. c \in Seq(Nat) /\ Dir \in Nat
        BY <3>3 DEF TreeIs, Dir
      <4> QED BY <1>1, <3>1, <4>1
    <3>5. p \notin DOMAIN t /\ top \in DOMAIN t /\ c[t[top]] = Dir
      BY <2>1, <3>2, <3>3
    <3>6. /\ TreeIs(tree', content') /\ HeldIn(tree', content') = HeldIn(t, c)
          /\ DOMAIN c \subseteq DOMAIN content' /\ (\A i \in DOMAIN c : content'[i] = c[i])
      <4>1. Grown(t, c, p, Dir, tree', content')
        BY <3>1, <3>4 DEF Grown
      <4>2. Dir \in {Dir, Torn} /\ p \in Places /\ (Len(p) = 2 => Parent(p) \in DOMAIN t /\ c[t[Parent(p)]] = Dir)
        BY <2>1, <3>5
      <4>3. GrownIs(t, c, p, Dir, tree', content')
        BY <3>3, <3>5, <4>1, <4>2, AddedKeeps, Zenon
      <4> QED BY <4>3 DEF GrownIs
    <3> QED BY <3>1, <3>3, <3>6, ProceedKeeps
  <2> QED BY <2>2, <2>3
<1> QED BY <1>2, <1>3, <1>4

LEMMA FilesClose ==
  ASSUME TreeIs(tree', content'), requests' \in Nat, \A v \in Workers : WorkIs(work'[v], tree', content'),
         saved' \subseteq HeldIn(tree', content') \cup discarded' \cup lost'
  PROVE  FilesInv'
<1>1. NothingLost'
  BY DEF NothingLost, Held, HeldIn
<1> QED BY <1>1 DEF FilesInv

LEMMA FilesNow ==
  ASSUME FilesInv
  PROVE  /\ TreeIs(tree, content) /\ requests \in Nat /\ saved \subseteq HeldIn(tree, content) \cup discarded \cup lost
         /\ \A w \in Workers : WorkIs(work[w], tree, content)
BY HeldIs DEF FilesInv, NothingLost

LEMMA HandleMkdirKeeps == ASSUME FilesInv, NEW w \in Workers, NEW p \in Paths, HandleMkdir(w, p) PROVE FilesInv'
<1>1. /\ MakeDirs(w, p, Idle) /\ saved' = saved /\ discarded' = discarded /\ lost' = lost /\ requests' = requests + 1
      /\ p \in Places /\ WorkIs(Idle, tree', content')
  BY PathsArePlaces DEF HandleMkdir, Request, WorkIs
<1>2. /\ TreeIs(tree', content') /\ HeldIn(tree', content') = HeldIn(tree, content)
      /\ \A v \in Workers : WorkIs(work'[v], tree', content')
  BY <1>1, MakeDirsKeeps
<1> QED BY <1>1, <1>2, FilesNow, FilesClose

LEMMA HandleUploadKeeps == ASSUME FilesInv, NEW w \in Workers, NEW p \in Paths, HandleUpload(w, p) PROVE FilesInv'
<1> PICK n : n = Upload(requests')
  OBVIOUS
<1> PICK next : next = [step |-> "open", path |-> p, number |-> n]
  OBVIOUS
<1>1. /\ MakeDirs(w, Parent(p), next) /\ saved' = saved /\ discarded' = discarded /\ lost' = lost /\ requests' = requests + 1
      /\ p \in Places
  BY PathsArePlaces DEF HandleUpload, Request
<1>2. n \in Uploads
  BY <1>1, FilesNow DEF Upload, Uploads, Dir, Torn
<1>3. WorkIs(next, tree', content')
  BY <1>1, <1>2 DEF WorkIs, Opening
<1>4. Parent(p) = <<>> \/ Parent(p) \in Places
  BY <1>1, PlaceIs
<1>5. /\ TreeIs(tree', content') /\ HeldIn(tree', content') = HeldIn(tree, content)
      /\ \A v \in Workers : WorkIs(work'[v], tree', content')
  BY <1>1, <1>3, <1>4, MakeDirsKeeps
<1> QED BY <1>1, <1>5, FilesNow, FilesClose

\* What is deleted leaves no file without its directory.
Left(t, gone) == [q \in DOMAIN t \ gone |-> t[q]]
LEMMA LeftKeeps ==
  ASSUME NEW t, NEW c, TreeIs(t, c), NEW gone, \A q \in DOMAIN t \ gone : Len(q) = 2 => Parent(q) \notin gone
  PROVE  /\ TreeIs(Left(t, gone), c)
         /\ HeldIn(t, c) \subseteq HeldIn(Left(t, gone), c) \cup ({c[t[q]] : q \in gone \cap DOMAIN t} \ {Dir, Torn})
<1> PICK t2 : t2 = Left(t, gone)
  OBVIOUS
<1>1. /\ DOMAIN t2 = DOMAIN t \ gone /\ t2 = [q \in DOMAIN t2 |-> t2[q]]
      /\ \A q \in DOMAIN t \ gone : t2[q] = t[q]
  BY DEF Left
<1>2. TreeIs(t2, c)
  BY <1>1 DEF TreeIs
<1>3. HeldIn(t, c) \subseteq HeldIn(t2, c) \cup ({c[t[q]] : q \in gone \cap DOMAIN t} \ {Dir, Torn})
  BY <1>1 DEF HeldIn
<1> QED BY <1>2, <1>3

LEMMA TreeKeeps ==
  ASSUME FilesInv, NEW w \in Workers, NEW next, Proceed(w, next), content' = content, WorkIs(next, tree', content')
  PROVE  \A v \in Workers : WorkIs(work'[v], tree', content')
BY ProceedKeeps

LEMMA HandleDeleteKeeps == ASSUME FilesInv, NEW w \in Workers, NEW p \in Paths, HandleDelete(w, p) PROVE FilesInv'
<1> PICK gone : gone = IF IsDir(p) THEN Below(p) ELSE {p} \cap DOMAIN tree
  OBVIOUS
<1> PICK next : next = IF IsDir(p) THEN [step |-> "rmdir", path |-> p] ELSE Idle
  OBVIOUS
<1>1. /\ tree' = Left(tree, gone) /\ discarded' = discarded \cup Held(gone) /\ Proceed(w, next)
      /\ content' = content /\ saved' = saved /\ lost' = lost /\ requests' = requests + 1 /\ p \in Places
  BY PathsArePlaces DEF HandleDelete, Request, Kept, Left
<1>2. TreeIs(tree, content) /\ DOMAIN tree \subseteq Places
  BY FilesNow DEF TreeIs
<1>3. \A q \in DOMAIN tree \ gone : Len(q) = 2 => Parent(q) \notin gone
  <2>1. CASE IsDir(p)
    <3>1. \A q \in gone : Len(q) = 2
      BY <1>1, <1>2, <2>1, BelowIs
    <3>2. \A q \in DOMAIN tree : Len(q) = 2 => Len(Parent(q)) = 1
      BY <1>2, PlaceIs
    <3> QED BY <3>1, <3>2
  <2>2. CASE ~IsDir(p)
    BY <1>2, <2>2 DEF TreeIs, IsDir
  <2> QED BY <2>1, <2>2
<1>4. gone \subseteq DOMAIN tree
  BY DEF Below
<1>5. /\ TreeIs(tree', content')
      /\ HeldIn(tree, content) \subseteq HeldIn(tree', content') \cup ({content[tree[q]] : q \in gone \cap DOMAIN tree} \ {Dir, Torn})
  BY <1>1, <1>2, <1>3, LeftKeeps
<1>6. HeldIn(tree, content) \subseteq HeldIn(tree', content') \cup Held(gone)
  BY <1>4, <1>5 DEF Held
<1>7. WorkIs(next, tree', content')
  BY <1>1 DEF WorkIs, Removing
<1>8. \A v \in Workers : WorkIs(work'[v], tree', content')
  BY <1>1, <1>7, TreeKeeps
<1>9. requests' \in Nat
  BY <1>1, FilesNow
<1>10. saved' \subseteq HeldIn(tree', content') \cup discarded' \cup lost'
  BY <1>1, <1>6, FilesNow
<1> QED BY <1>5, <1>8, <1>9, <1>10, FilesClose

LEMMA RemoveDirKeeps == ASSUME FilesInv, NEW w \in Workers, RemoveDir(w) PROVE FilesInv'
<1> PICK p : p = work[w].path
  OBVIOUS
<1>1. /\ work[w].step = "rmdir" /\ tree' = (IF IsDir(p) /\ Below(p) = {} THEN Left(tree, {p}) ELSE tree)
      /\ Proceed(w, Idle) /\ content' = content /\ saved' = saved /\ lost' = lost /\ requests' = requests /\ discarded' = discarded
  BY DEF RemoveDir, Kept, Left
<1>2. TreeIs(tree, content) /\ DOMAIN tree \subseteq Places /\ WorkIs(work[w], tree, content)
  BY FilesNow DEF TreeIs
<1>3. p \in Places
  <2>1. Removing(work[w])
    BY <1>1, <1>2, StepIs
  <2> QED BY <2>1 DEF Removing
<1>4. TreeIs(tree', content') /\ HeldIn(tree, content) \subseteq HeldIn(tree', content')
  <2>1. CASE IsDir(p) /\ Below(p) = {}
    <3>1. tree' = Left(tree, {p}) /\ p \in DOMAIN tree /\ content[tree[p]] = Dir
      BY <1>1, <1>3, <2>1, PlaceIs DEF IsDir
    <3>2. \A q \in DOMAIN tree \ {p} : Len(q) = 2 => Parent(q) \notin {p}
      <4>1. \A q \in DOMAIN tree : Len(q) = 2 => Len(Parent(q)) = 1
        BY <1>2, PlaceIs
      <4> QED BY <1>2, <1>3, <2>1, <4>1, BelowIs
    <3>3. /\ TreeIs(tree', content')
          /\ HeldIn(tree, content) \subseteq HeldIn(tree', content') \cup ({content[tree[q]] : q \in {p} \cap DOMAIN tree} \ {Dir, Torn})
      BY <1>1, <1>2, <3>1, <3>2, LeftKeeps
    <3> QED BY <3>1, <3>3
  <2>2. CASE ~(IsDir(p) /\ Below(p) = {})
    BY <1>1, <1>2, <2>2
  <2> QED BY <2>1, <2>2
<1>5. \A v \in Workers : WorkIs(work'[v], tree', content')
  BY <1>1, TreeKeeps DEF WorkIs
<1> QED BY <1>1, <1>4, <1>5, FilesNow, FilesClose

LEMMA RenameCheckKeeps ==
  ASSUME FilesInv, NEW w \in Workers, NEW p \in Paths, NEW name \in Names, RenameCheck(w, p, name) PROVE FilesInv'
<1> PICK t : t = Append(Parent(p), name)
  OBVIOUS
<1> PICK next : next = IF Taken(t) THEN Idle ELSE [step |-> "rename", path |-> p, target |-> t, late |-> FALSE]
  OBVIOUS
<1>1. /\ tree' = tree /\ content' = content /\ saved' = saved /\ lost' = lost /\ discarded' = discarded
      /\ requests' = requests + 1 /\ Proceed(w, next) /\ p \in Places
  BY PathsArePlaces DEF RenameCheck, Request
<1>2. t \in Places /\ Len(t) = Len(p) /\ Parent(t) = Parent(p)
  BY <1>1, SiblingIs
<1>3. WorkIs(next, tree', content')
  <2>1. CASE t \in DOMAIN tree
    BY <2>1 DEF Taken, WorkIs
  <2>2. CASE t \notin DOMAIN tree
    <3>1. next = [step |-> "rename", path |-> p, target |-> t, late |-> FALSE]
      BY <2>2 DEF Taken
    <3>2. Renaming(next, tree')
      BY <1>1, <1>2, <2>2, <3>1 DEF Renaming
    <3> QED BY <3>2 DEF WorkIs
  <2> QED BY <2>1, <2>2
<1>4. \A v \in Workers : WorkIs(work'[v], tree', content')
  BY <1>1, <1>3, TreeKeeps
<1> QED BY <1>1, <1>4, FilesNow, FilesClose

\* A file's inode gets new content.
SetIs(t, c, i, x, c2) ==
  /\ TreeIs(t, c2) /\ DOMAIN c2 = DOMAIN c /\ c2[i] = x /\ (\A j \in DOMAIN c : c[j] # Dir => c2[j] # Dir)
  /\ HeldIn(t, c) \subseteq HeldIn(t, c2) \cup ({c[i]} \ {Torn})
  /\ (x # Torn /\ \E p \in DOMAIN t : t[p] = i) => x \in HeldIn(t, c2)
LEMMA SetKeeps ==
  ASSUME NEW t, NEW c, TreeIs(t, c), NEW i \in DOMAIN c, c[i] # Dir, NEW x \in Nat \ {Dir}, NEW c2, c2 = [c EXCEPT ![i] = x]
  PROVE  SetIs(t, c, i, x, c2)
<1>1. c \in Seq(Nat) /\ \A p \in DOMAIN t : t[p] \in DOMAIN c
  BY DEF TreeIs
<1>2. c2 \in Seq(Nat) /\ DOMAIN c2 = DOMAIN c /\ c2[i] = x /\ \A j \in DOMAIN c : j # i => c2[j] = c[j]
  BY <1>1
<1>3. TreeIs(t, c2)
  BY <1>2 DEF TreeIs
<1>4. \A j \in DOMAIN c : c[j] # Dir => c2[j] # Dir
  BY <1>2
<1>5. HeldIn(t, c) \subseteq HeldIn(t, c2) \cup ({c[i]} \ {Torn})
  BY <1>1, <1>2 DEF HeldIn
<1>6. (x # Torn /\ \E p \in DOMAIN t : t[p] = i) => x \in HeldIn(t, c2)
  BY <1>2 DEF HeldIn
<1> QED BY <1>2, <1>3, <1>4, <1>5, <1>6 DEF SetIs

LEMMA OpenDestKeeps == ASSUME FilesInv, NEW w \in Workers, OpenDest(w) PROVE FilesInv'
<1>1. WorkIs(work[w], tree, content) /\ work[w].step = "open" /\ TreeIs(tree, content) /\ requests' = requests /\ requests \in Nat
      /\ saved' = saved /\ lost' = lost
  BY FilesNow DEF OpenDest
<1>2. PICK p \in Places, n \in Uploads : work[w] = [step |-> "open", path |-> p, number |-> n]
  <2>1. Opening(work[w])
    BY <1>1, StepIs
  <2> QED BY <2>1 DEF Opening
<1>3. work[w].path = p /\ work[w].number = n
  BY <1>2
<1>4. CASE ~IsDir(Parent(p)) \/ IsDir(p)
  <2>1. tree' = tree /\ content' = content /\ discarded' = discarded /\ Proceed(w, Idle)
    BY <1>3, <1>4 DEF OpenDest
  <2>2. \A v \in Workers : WorkIs(work'[v], tree', content')
    BY <2>1, TreeKeeps DEF WorkIs
  <2> QED BY <1>1, <2>1, <2>2, FilesNow, FilesClose
<1>5. CASE ~(~IsDir(Parent(p)) \/ IsDir(p)) /\ IsFile(p)
  <2> PICK i : i = tree[p]
    OBVIOUS
  <2> PICK next : next = [step |-> "write", inode |-> i, number |-> n]
    OBVIOUS
  <2>1. /\ content' = [content EXCEPT ![i] = Torn] /\ tree' = tree /\ discarded' = discarded \cup Held({p})
    BY <1>3, <1>5 DEF OpenDest
  <2>2. Proceed(w, next)
    BY <1>3, <1>5, <2>1 DEF OpenDest
  <2>3. i \in DOMAIN content /\ content[i] # Dir /\ p \in DOMAIN tree
    BY <1>1, <1>5 DEF IsFile, TreeIs
  <2>4. Torn \in Nat \ {Dir}
    BY DEF Torn, Dir
  <2>5. /\ TreeIs(tree, content') /\ DOMAIN content' = DOMAIN content /\ content'[i] = Torn
        /\ \A j \in DOMAIN content : content[j] # Dir => content'[j] # Dir
        /\ HeldIn(tree, content) \subseteq HeldIn(tree, content') \cup ({content[i]} \ {Torn})
    <3>1. SetIs(tree, content, i, Torn, content')
      BY <1>1, <2>1, <2>3, <2>4, SetKeeps, Zenon
    <3> QED BY <3>1 DEF SetIs
  <2>6. WorkIs(next, tree', content')
    <3>1. Writing(next, content')
      BY <2>3, <2>4, <2>5 DEF Writing
    <3> QED BY <3>1 DEF WorkIs
  <2>7. \A v \in Workers : WorkIs(work'[v], tree', content')
    BY <2>2, <2>5, <2>6, ProceedKeeps
  <2>8. Held({p}) = {content[i]} \ {Dir, Torn}
    BY DEF Held
  <2>9. saved' \subseteq HeldIn(tree', content') \cup discarded' \cup lost'
    BY <1>1, <2>1, <2>3, <2>5, <2>8, FilesNow
  <2> QED BY <1>1, <2>1, <2>5, <2>7, <2>9, FilesClose
<1>6. CASE ~(~IsDir(Parent(p)) \/ IsDir(p)) /\ ~IsFile(p)
  <2> PICK i : i = Len(content) + 1
    OBVIOUS
  <2> PICK next : next = [step |-> "write", inode |-> i, number |-> n]
    OBVIOUS
  <2>1. content' = Append(content, Torn) /\ tree' = Added(tree, p, Len(content')) /\ discarded' = discarded
    BY <1>3, <1>6 DEF OpenDest
  <2>2. content \in Seq(Nat) /\ Len(content') = i
    BY <1>1, <2>1 DEF TreeIs
  <2>3. Grown(tree, content, p, Torn, tree', content')
    BY <2>1, <2>2 DEF Grown
  <2>4. p \notin DOMAIN tree /\ Torn \in {Dir, Torn}
    BY <1>6 DEF IsDir, IsFile
  <2>5. Len(p) = 2 => Parent(p) \in DOMAIN tree /\ content[tree[Parent(p)]] = Dir
    <3>1. Len(p) = 2 => Parent(p) # <<>>
      BY PlaceIs
    <3> QED BY <1>6, <3>1 DEF IsDir
  <2>6. GrownIs(tree, content, p, Torn, tree', content')
    BY <1>1, <2>3, <2>4, <2>5, AddedKeeps, Zenon
  <2>7. /\ TreeIs(tree', content') /\ HeldIn(tree', content') = HeldIn(tree, content)
        /\ DOMAIN content' = DOMAIN content \cup {i} /\ content'[i] = Torn /\ tree'[p] = i
        /\ \A j \in DOMAIN content : content'[j] = content[j]
    BY <2>6 DEF GrownIs
  <2>8. Proceed(w, next)
    BY <1>3, <1>6, <2>7 DEF OpenDest
  <2>9. WorkIs(next, tree', content')
    <3>1. Writing(next, content')
      BY <2>7 DEF Writing, Torn, Dir
    <3> QED BY <3>1 DEF WorkIs
  <2>10. \A v \in Workers : WorkIs(work'[v], tree', content')
    BY <2>7, <2>8, <2>9, ProceedKeeps
  <2>11. saved' \subseteq HeldIn(tree', content') \cup discarded' \cup lost'
    BY <1>1, <2>1, <2>7, FilesNow
  <2> QED BY <1>1, <2>7, <2>10, <2>11, FilesClose
<1> QED BY <1>4, <1>5, <1>6

LEMMA WriteDestKeeps == ASSUME FilesInv, NEW w \in Workers, WriteDest(w) PROVE FilesInv'
<1>1. WorkIs(work[w], tree, content) /\ work[w].step = "write" /\ TreeIs(tree, content) /\ requests' = requests /\ requests \in Nat
      /\ lost' = lost /\ tree' = tree /\ Proceed(w, Idle)
  BY FilesNow DEF WriteDest
<1>2. PICK i \in DOMAIN content, n \in Uploads : content[i] # Dir /\ work[w] = [step |-> "write", inode |-> i, number |-> n]
  <2>1. Writing(work[w], content)
    BY <1>1, StepIs
  <2> QED BY <2>1 DEF Writing
<1>3. work[w].inode = i /\ work[w].number = n
  BY <1>2
<1>4. PICK x \in {n, Torn} : content' = [content EXCEPT ![i] = x]
  BY <1>3 DEF WriteDest
<1>5. x \in Nat \ {Dir} /\ n \in Nat \ {Dir, Torn} /\ content'[i] = x
  <2>1. content \in Seq(Nat)
    BY <1>1 DEF TreeIs
  <2> QED BY <1>2, <1>4, <2>1 DEF Uploads, Torn, Dir
<1>6. /\ TreeIs(tree, content') /\ DOMAIN content' = DOMAIN content
      /\ \A j \in DOMAIN content : content[j] # Dir => content'[j] # Dir
      /\ HeldIn(tree, content) \subseteq HeldIn(tree, content') \cup ({content[i]} \ {Torn})
      /\ (x # Torn /\ \E p \in DOMAIN tree : tree[p] = i) => x \in HeldIn(tree, content')
  <2>1. SetIs(tree, content, i, x, content')
    BY <1>1, <1>2, <1>4, <1>5, SetKeeps, Zenon
  <2> QED BY <2>1 DEF SetIs
<1>7. /\ saved' = saved \cup {n}
      /\ discarded' = discarded \cup ({content[i]} \ {Torn})
                      \cup (IF (\E p \in DOMAIN tree : tree[p] = i) /\ content'[i] # Torn THEN {} ELSE {n})
  BY <1>3 DEF WriteDest
<1>8. n \in HeldIn(tree, content') \cup discarded'
  BY <1>4, <1>5, <1>6, <1>7
<1>9. saved' \subseteq HeldIn(tree', content') \cup discarded' \cup lost'
  BY <1>1, <1>6, <1>7, <1>8, FilesNow
<1>10. \A v \in Workers : WorkIs(work'[v], tree', content')
  BY <1>1, <1>6, ProceedKeeps DEF WorkIs
<1> QED BY <1>1, <1>6, <1>9, <1>10, FilesClose

\* A rename moves a path with what is below it.
Subtree(t, p) == {p} \cup {q \in DOMAIN t : Len(p) = 1 /\ Len(q) = 2 /\ Parent(q) = p}
Images(t, p, d) == {Moved(p, d, r) : r \in Subtree(t, p)}
Renamed(t, p, d) ==
  [q \in (DOMAIN t \ Subtree(t, p)) \cup Images(t, p, d) |->
     IF \E r \in Subtree(t, p) : Moved(p, d, r) = q THEN t[CHOOSE r \in Subtree(t, p) : Moved(p, d, r) = q] ELSE t[q]]

\* What the rename finds at its end.
MayMove(t, c, p, d) ==
  /\ TreeIs(t, c) /\ p \in DOMAIN t /\ p \in Places /\ d \in Places /\ Len(p) = Len(d) /\ Parent(p) = Parent(d) /\ p # d
  /\ d \in DOMAIN t => {q \in DOMAIN t : Len(d) = 1 /\ Len(q) = 2 /\ Parent(q) = d} = {}

LEMMA ImagesDiffer ==
  ASSUME NEW t, NEW c, NEW p, NEW d, MayMove(t, c, p, d), NEW q \in Subtree(t, p), NEW r \in Subtree(t, p),
         Moved(p, d, q) = Moved(p, d, r)
  PROVE  q = r
<1>1. DOMAIN t \subseteq Places /\ p \in Places /\ d \in Places /\ Len(p) = Len(d)
  BY DEF MayMove, TreeIs
<1>2. /\ Moved(p, d, p) = d
      /\ \A x \in Places : Len(p) = 1 /\ Len(x) = 2 => Len(Moved(p, d, x)) = 2
      /\ \A x, y \in Places : Len(p) = 1 /\ Len(x) = 2 /\ Len(y) = 2 /\ Parent(x) = Parent(y)
                              /\ Moved(p, d, x) = Moved(p, d, y) => x = y
  BY <1>1, MovedIs
<1>3. \A x \in Subtree(t, p) : x = p \/ (x \in Places /\ Len(p) = 1 /\ Len(x) = 2 /\ Parent(x) = p)
  BY <1>1 DEF Subtree
<1>4. ASSUME NEW x \in Subtree(t, p), x # p PROVE Len(Moved(p, d, x)) = 2 /\ Len(d) = 1
  BY <1>1, <1>2, <1>3, <1>4
<1>5. CASE q = p \/ r = p
  BY <1>2, <1>4, <1>5
<1>6. CASE q # p /\ r # p
  <2>1. /\ q \in Places /\ r \in Places /\ Len(p) = 1 /\ Len(q) = 2 /\ Len(r) = 2 /\ Parent(q) = Parent(r)
    BY <1>3, <1>6
  <2> QED BY <1>2, <2>1
<1> QED BY <1>5, <1>6

RenamedTo(t, p, d, t2) ==
  /\ DOMAIN t2 = (DOMAIN t \ Subtree(t, p)) \cup Images(t, p, d) /\ t2 = [q \in DOMAIN t2 |-> t2[q]]
  /\ \A r \in Subtree(t, p) : Moved(p, d, r) \in DOMAIN t2 /\ t2[Moved(p, d, r)] = t[r]
  /\ \A q \in DOMAIN t2 \ Images(t, p, d) : t2[q] = t[q] /\ q \in DOMAIN t \ Subtree(t, p)
LEMMA RenamedIs ==
  ASSUME NEW t, NEW c, NEW p, NEW d, MayMove(t, c, p, d), NEW t2, t2 = Renamed(t, p, d)
  PROVE  RenamedTo(t, p, d, t2)
<1>1. DOMAIN t2 = (DOMAIN t \ Subtree(t, p)) \cup Images(t, p, d) /\ t2 = [q \in DOMAIN t2 |-> t2[q]]
  BY DEF Renamed
<1>2. ASSUME NEW r \in Subtree(t, p) PROVE Moved(p, d, r) \in DOMAIN t2 /\ t2[Moved(p, d, r)] = t[r]
  <2> PICK q : q = Moved(p, d, r)
    OBVIOUS
  <2>1. q \in Images(t, p, d)
    BY DEF Images
  <2> PICK s : s = CHOOSE x \in Subtree(t, p) : Moved(p, d, x) = q
    OBVIOUS
  <2>2. s \in Subtree(t, p) /\ Moved(p, d, s) = q
    OBVIOUS
  <2>3. t2[q] = t[s]
    BY <1>1, <2>1 DEF Renamed
  <2>4. s = r
    BY <2>2, ImagesDiffer
  <2> QED BY <1>1, <2>1, <2>3, <2>4
<1>3. ASSUME NEW q \in DOMAIN t2 \ Images(t, p, d) PROVE t2[q] = t[q] /\ q \in DOMAIN t \ Subtree(t, p)
  <2>1. ~\E r \in Subtree(t, p) : Moved(p, d, r) = q
    BY DEF Images
  <2>2. t2[q] = t[q]
    BY <1>1, <2>1 DEF Renamed
  <2> QED BY <1>1, <2>2
<1> QED BY <1>1, <1>2, <1>3 DEF RenamedTo

SubtreeOf(t, p, d) ==
  /\ DOMAIN t \subseteq Places /\ p \in Subtree(t, p) /\ Moved(p, d, p) = d /\ p \in Places /\ d \in Places
  /\ \A r \in Subtree(t, p) : /\ r \in DOMAIN t /\ Moved(p, d, r) \in Places
                              /\ r # p => /\ Len(p) = 1 /\ Len(d) = 1 /\ Len(r) = 2 /\ Parent(r) = p
                                          /\ Len(Moved(p, d, r)) = 2 /\ Parent(Moved(p, d, r)) = d
LEMMA SubtreeIs == ASSUME NEW t, NEW c, NEW p, NEW d, MayMove(t, c, p, d) PROVE SubtreeOf(t, p, d)
<1>1. DOMAIN t \subseteq Places /\ p \in Places /\ d \in Places /\ Len(p) = Len(d) /\ p \in DOMAIN t
  BY DEF MayMove, TreeIs
<1>2. /\ Moved(p, d, p) = d
      /\ \A q \in Places : Len(p) = 1 /\ Len(q) = 2 =>
                Moved(p, d, q) \in Places /\ Len(Moved(p, d, q)) = 2 /\ Parent(Moved(p, d, q)) = d
  BY <1>1, MovedIs
<1>3. \A r \in Subtree(t, p) : r = p \/ (r \in DOMAIN t /\ Len(p) = 1 /\ Len(r) = 2 /\ Parent(r) = p)
  BY DEF Subtree
<1>4. p \in Subtree(t, p)
  BY DEF Subtree
<1> QED BY <1>1, <1>2, <1>3, <1>4 DEF SubtreeOf

LEMMA RenamedTree ==
  ASSUME NEW t, NEW c, NEW p, NEW d, MayMove(t, c, p, d), NEW t2, t2 = Renamed(t, p, d)
  PROVE  TreeIs(t2, c)
<1>0. RenamedTo(t, p, d, t2) /\ SubtreeOf(t, p, d)
  BY RenamedIs, SubtreeIs, Zenon
<1>1. /\ c \in Seq(Nat) /\ Len(p) = Len(d) /\ Parent(p) = Parent(d) /\ \A q \in DOMAIN t : t[q] \in DOMAIN c
      /\ \A q \in DOMAIN t : Len(q) = 2 => Parent(q) \in DOMAIN t /\ c[t[Parent(q)]] = Dir
  BY DEF MayMove, TreeIs
<1>2. DOMAIN t2 \subseteq Places
  BY <1>0 DEF RenamedTo, SubtreeOf, Images
<1>3. ASSUME NEW q \in DOMAIN t2 PROVE t2[q] \in DOMAIN c
  <2>1. CASE q \in Images(t, p, d)
    <3>1. PICK r \in Subtree(t, p) : q = Moved(p, d, r)
      BY <2>1 DEF Images
    <3>2. t2[q] = t[r] /\ r \in DOMAIN t
      BY <3>1, <1>0 DEF RenamedTo, SubtreeOf
    <3> QED BY <1>1, <3>2
  <2>2. CASE q \notin Images(t, p, d)
    <3>1. t2[q] = t[q] /\ q \in DOMAIN t
      BY <2>2, <1>0 DEF RenamedTo
    <3> QED BY <1>1, <3>1
  <2> QED BY <2>1, <2>2
<1>4. ASSUME NEW q \in DOMAIN t \ Subtree(t, p), Len(q) = 1, q # d
      PROVE  q \in DOMAIN t2 /\ t2[q] = t[q]
  <2>1. q \notin Images(t, p, d)
    <3> SUFFICES ASSUME NEW r \in Subtree(t, p), q = Moved(p, d, r) PROVE FALSE
      BY DEF Images
    <3>1. r # p
      BY <1>4, <1>0 DEF SubtreeOf
    <3>2. Len(q) = 2
      BY <3>1, <1>0 DEF SubtreeOf
    <3> QED BY <1>4, <3>2
  <2>2. q \in DOMAIN t2
    BY <1>0 DEF RenamedTo
  <2> QED BY <2>1, <2>2, <1>0 DEF RenamedTo
<1>5. ASSUME NEW q \in DOMAIN t2, Len(q) = 2 PROVE Parent(q) \in DOMAIN t2 /\ c[t2[Parent(q)]] = Dir
  <2>1. CASE q \in Images(t, p, d)
    <3>1. PICK r \in Subtree(t, p) : q = Moved(p, d, r)
      BY <2>1 DEF Images
    <3>2. CASE r = p
      <4>1. q = d /\ p \in DOMAIN t /\ Len(p) = 2 /\ Parent(q) = Parent(p)
        BY <1>1, <1>5, <3>1, <3>2, <1>0 DEF SubtreeOf
      <4>2. Parent(q) \in DOMAIN t /\ c[t[Parent(q)]] = Dir
        BY <1>1, <4>1
      <4>3. Len(Parent(q)) = 1 /\ Parent(q) # d
        BY <1>5, <4>1, <1>0, PlaceIs DEF SubtreeOf
      <4>4. Parent(q) \notin Subtree(t, p)
        BY <4>1, <4>3 DEF Subtree
      <4> QED BY <1>4, <4>2, <4>3, <4>4
    <3>3. CASE r # p
      <4>1. Parent(q) = d /\ r \in DOMAIN t /\ Len(r) = 2 /\ Parent(r) = p
        BY <3>1, <3>3, <1>0 DEF SubtreeOf
      <4>2. d \in DOMAIN t2 /\ t2[d] = t[p]
        BY <1>0 DEF RenamedTo, SubtreeOf
      <4> QED BY <1>1, <4>1, <4>2
    <3> QED BY <3>2, <3>3
  <2>2. CASE q \notin Images(t, p, d)
    <3>1. q \in DOMAIN t \ Subtree(t, p)
      BY <2>2, <1>0 DEF RenamedTo
    <3>2. Parent(q) \in DOMAIN t /\ c[t[Parent(q)]] = Dir /\ Len(Parent(q)) = 1
      BY <1>1, <1>2, <1>5, <3>1, PlaceIs
    <3>3. Parent(q) \notin Subtree(t, p)
      BY <1>5, <3>1, <3>2 DEF Subtree
    <3>4. Parent(q) # d
      BY <1>5, <3>1, <3>2 DEF MayMove
    <3> QED BY <1>4, <3>2, <3>3, <3>4
  <2> QED BY <2>1, <2>2
<1>6. t2 = [q \in DOMAIN t2 |-> t2[q]]
  BY <1>0 DEF RenamedTo
<1> QED BY <1>1, <1>2, <1>3, <1>5, <1>6 DEF TreeIs

LEMMA RenamedHolds ==
  ASSUME NEW t, NEW c, NEW p, NEW d, MayMove(t, c, p, d), NEW t2, t2 = Renamed(t, p, d)
  PROVE  HeldIn(t, c) \subseteq HeldIn(t2, c) \cup ({c[t[q]] : q \in {d} \cap DOMAIN t} \ {Dir, Torn})
<1>0. RenamedTo(t, p, d, t2) /\ SubtreeOf(t, p, d)
  BY RenamedIs, SubtreeIs, Zenon
<1> SUFFICES ASSUME NEW q \in DOMAIN t, c[t[q]] \notin {Dir, Torn}
             PROVE  c[t[q]] \in HeldIn(t2, c) \/ q = d
  BY DEF HeldIn
<1>1. CASE q \in Subtree(t, p)
  <2>1. Moved(p, d, q) \in DOMAIN t2 /\ t2[Moved(p, d, q)] = t[q]
    BY <1>1, <1>0 DEF RenamedTo
  <2> QED BY <2>1 DEF HeldIn
<1>2. CASE q \notin Subtree(t, p) /\ q # d
  <2>1. q \notin Images(t, p, d)
    <3> SUFFICES ASSUME NEW r \in Subtree(t, p), q = Moved(p, d, r) PROVE FALSE
      BY DEF Images
    <3>1. r # p
      BY <1>2, <1>0 DEF SubtreeOf
    <3>2. Len(q) = 2 /\ Parent(q) = d /\ Len(d) = 1
      BY <3>1, <1>0 DEF SubtreeOf
    <3>3. d \in DOMAIN t
      BY <3>2 DEF MayMove, TreeIs
    <3> QED BY <3>2, <3>3 DEF MayMove
  <2>2. q \in DOMAIN t2 /\ t2[q] = t[q]
    BY <1>2, <2>1, <1>0 DEF RenamedTo
  <2> QED BY <2>2 DEF HeldIn
<1> QED BY <1>1, <1>2

Mapped(t, p, d, moved) ==
  [q \in (DOMAIN t \ moved) \cup {Moved(p, d, r) : r \in moved} |->
     IF \E r \in moved : Moved(p, d, r) = q THEN t[CHOOSE r \in moved : Moved(p, d, r) = q] ELSE t[q]]
Refused(p, d) == p \notin DOMAIN tree \/ p = d \/ (d \in DOMAIN tree /\ (IsDir(p) # IsDir(d) \/ Below(d) # {}))
LEMMA RenameDoIs ==
  ASSUME NEW w, RenameDo(w), ~Refused(work[w].path, work[w].target)
  PROVE  /\ tree' = Mapped(tree, work[w].path, work[w].target, {work[w].path} \cup Below(work[w].path))
         /\ lost' = IF work[w].late THEN lost \cup Held({work[w].target} \cap DOMAIN tree) ELSE lost
BY Zenon DEF RenameDo, Refused, Mapped, Moved

LEMMA RenameDoKeeps == ASSUME FilesInv, NEW w \in Workers, RenameDo(w) PROVE FilesInv'
<1>1. WorkIs(work[w], tree, content) /\ work[w].step = "rename" /\ TreeIs(tree, content) /\ requests' = requests /\ requests \in Nat
      /\ content' = content /\ saved' = saved /\ discarded' = discarded /\ Proceed(w, Idle)
  BY FilesNow DEF RenameDo
<1>2. PICK p \in Places, d \in Places, late \in BOOLEAN :
           /\ Len(p) = Len(d) /\ Parent(p) = Parent(d) /\ (d \in DOMAIN tree => late)
           /\ work[w] = [step |-> "rename", path |-> p, target |-> d, late |-> late]
  <2>1. Renaming(work[w], tree)
    BY <1>1, StepIs
  <2> QED BY <2>1 DEF Renaming
<1>3. work[w].path = p /\ work[w].target = d /\ work[w].late = late
  BY <1>2
<1>4. \A v \in Workers : WorkIs(work'[v], tree', content')
  BY <1>1, TreeKeeps DEF WorkIs
<1>5. CASE Refused(p, d)
  <2>1. tree' = tree /\ lost' = lost
    BY <1>3, <1>5 DEF RenameDo, Refused
  <2> QED BY <1>1, <1>4, <2>1, FilesNow, FilesClose
<1>6. CASE ~Refused(p, d)
  <2>1. DOMAIN tree \subseteq Places
    BY <1>1 DEF TreeIs
  <2>2. Below(p) = {q \in DOMAIN tree : Len(p) = 1 /\ Len(q) = 2 /\ Parent(q) = p}
    BY <2>1, BelowIs
  <2>3. Below(d) = {q \in DOMAIN tree : Len(d) = 1 /\ Len(q) = 2 /\ Parent(q) = d}
    BY <2>1, BelowIs
  <2>4. {p} \cup Below(p) = Subtree(tree, p)
    BY <2>2 DEF Subtree
  <2>5. /\ tree' = Mapped(tree, p, d, {p} \cup Below(p))
         /\ lost' = IF late THEN lost \cup Held({d} \cap DOMAIN tree) ELSE lost
    BY <1>3, <1>6, RenameDoIs
  <2>6. /\ tree' = Mapped(tree, p, d, Subtree(tree, p))
        /\ lost' = IF late THEN lost \cup Held({d} \cap DOMAIN tree) ELSE lost
    BY <2>4, <2>5
  <2>7. tree' = Renamed(tree, p, d)
    BY <2>6, Zenon DEF Renamed, Images, Mapped
  <2>8. MayMove(tree, content, p, d)
    BY <1>1, <1>2, <1>6, <2>3 DEF MayMove, Refused
  <2>9. TreeIs(tree', content)
    BY <2>7, <2>8, RenamedTree, Zenon
  <2>10. HeldIn(tree, content) \subseteq HeldIn(tree', content) \cup ({content[tree[q]] : q \in {d} \cap DOMAIN tree} \ {Dir, Torn})
    BY <2>7, <2>8, RenamedHolds, Zenon
  <2>11. HeldIn(tree, content) \subseteq HeldIn(tree', content) \cup Held({d} \cap DOMAIN tree)
    BY <2>10 DEF Held
  <2>12. Held({d} \cap DOMAIN tree) \subseteq lost' /\ lost \subseteq lost'
    <3>1. CASE late
      BY <2>6, <3>1
    <3>2. CASE ~late
      BY <1>2, <2>6, <3>2 DEF Held
    <3> QED BY <3>1, <3>2
  <2>13. saved' \subseteq HeldIn(tree', content') \cup discarded' \cup lost'
    BY <1>1, <2>11, <2>12, FilesNow
  <2> QED BY <1>1, <1>4, <2>9, <2>13, FilesClose
<1> QED BY <1>5, <1>6

LEMMA FilesStep == FilesInv /\ FilesNext => FilesInv'
<1> SUFFICES ASSUME FilesInv, NEW w \in Workers,
                    \/ \E p \in Paths : HandleUpload(w, p) \/ HandleMkdir(w, p) \/ HandleDelete(w, p)
                    \/ \E p \in Paths, name \in Names : RenameCheck(w, p, name)
                    \/ OpenDest(w) \/ WriteDest(w) \/ RenameDo(w) \/ RemoveDir(w)
             PROVE  FilesInv'
  BY DEF FilesNext
<1>1. CASE \E p \in Paths : HandleUpload(w, p) \/ HandleMkdir(w, p) \/ HandleDelete(w, p)
  BY <1>1, HandleUploadKeeps, HandleMkdirKeeps, HandleDeleteKeeps
<1>2. CASE \E p \in Paths, name \in Names : RenameCheck(w, p, name)
  BY <1>2, RenameCheckKeeps
<1>3. CASE OpenDest(w) \/ WriteDest(w) \/ RenameDo(w) \/ RemoveDir(w)
  BY <1>3, OpenDestKeeps, WriteDestKeeps, RenameDoKeeps, RemoveDirKeeps
<1> QED BY <1>1, <1>2, <1>3

\* Whatever threads of the web server upload, make, rename and delete in a user's directory
\* at once (web/server.py, the handlers of /api/files), a file that was written to its end is
\* there until it is deleted or uploaded again; only a rename that found its target free, and
\* replaced what came there before it moved, takes one away.
THEOREM UploadsAreKept == Spec => []NothingLost
<1>1. Init => FilesInv
  BY FilesStart DEF Init
<1>2. FilesInv /\ [Next]_<<frontVars, channel>> => FilesInv'
  <2> SUFFICES ASSUME FilesInv, [Next]_<<frontVars, channel>> PROVE FilesInv'
    OBVIOUS
  <2>1. CASE FilesNext
    BY <2>1, FilesStep
  <2>2. CASE UNCHANGED fileVars
    BY <2>2, FilesStutter
  <2> QED BY <2>1, <2>2 DEF Next, frontVars
<1>3. FilesInv => NothingLost
  BY DEF FilesInv
<1> QED BY <1>1, <1>2, <1>3, PTL DEF Spec

-----------------------------------------------------------------------------
(* The outbox of a gateway                                                  *)

Rows == [status : {"pending", "sent", "failed"}, attempts : 0..MaxAttempts]

OutboxRows == outbox \in Seq(Rows) /\ arrivals \in Seq(Nat) /\ Len(arrivals) = Len(outbox)

\* The rows of a flush are pending and in order; the row at hand is the first.
FlushInv ==
  /\ toSend \in Seq(Nat)
  /\ \A i \in DOMAIN toSend : toSend[i] \in DOMAIN outbox /\ Pending(toSend[i])
  /\ \A i, j \in DOMAIN toSend : i < j => toSend[i] < toSend[j]
  /\ sending \in {"no", "sent", "failed"} /\ (sending # "no" => toSend # <<>>)
  /\ sending = "sent" => arrivals[toSend[1]] > 0

\* A pending row has not reached the chat unless that is in doubt, or it is the
\* row whose success is about to be recorded.
ArrivalsInv ==
  \A i \in DOMAIN outbox :
    Pending(i) /\ i \notin doubtful /\ arrivals[i] > 0 =>
      arrivals[i] = 1 /\ sending = "sent" /\ i = toSend[1]

OutboxInv == OutboxRows /\ FlushInv /\ ArrivalsInv /\ OutboxTellsTruth

LEMMA EnqueueOutbox == OutboxInv /\ Enqueue => OutboxInv'
<1> SUFFICES ASSUME OutboxInv, Enqueue PROVE OutboxInv'
  OBVIOUS
<1> DEFINE row == [status |-> "pending", attempts |-> 0]
           n == Len(outbox) + 1
<1>1. row \in Rows /\ MaxAttempts \in Nat \ {0}
  BY OutboxAssumption DEF Rows
<1>2. /\ outbox' = Append(outbox, row) /\ arrivals' = Append(arrivals, 0)
      /\ UNCHANGED <<toSend, sending, doubtful>>
  BY DEF Enqueue
<1>3. row.status = "pending" /\ row.attempts = 0
  OBVIOUS
<1> HIDE DEF row
<1>4. OutboxRows'
  BY <1>1, <1>2 DEF OutboxInv, OutboxRows
<1>5. /\ DOMAIN outbox' = DOMAIN outbox \cup {n} /\ n \notin DOMAIN outbox
      /\ \A i \in DOMAIN outbox : outbox'[i] = outbox[i] /\ arrivals'[i] = arrivals[i]
      /\ outbox'[n] = row /\ arrivals'[n] = 0
  BY <1>1, <1>2 DEF OutboxInv, OutboxRows
<1> HIDE DEF n
<1>6. FlushInv'
  <2>1. sending = "sent" => toSend[1] \in DOMAIN outbox
    BY DEF OutboxInv, FlushInv
  <2> QED BY <1>2, <1>5, <2>1 DEF OutboxInv, FlushInv, Pending
<1>7. ArrivalsInv'
  <2> SUFFICES ASSUME NEW i \in DOMAIN outbox', outbox'[i].status = "pending", i \notin doubtful, arrivals'[i] > 0
               PROVE  arrivals'[i] = 1 /\ sending = "sent" /\ i = toSend[1]
    BY <1>2 DEF ArrivalsInv, Pending
  <2>1. i # n
    BY <1>5
  <2> QED BY <1>5, <2>1 DEF OutboxInv, ArrivalsInv, Pending
<1>8. OutboxTellsTruth'
  <2> SUFFICES ASSUME NEW i \in DOMAIN outbox'
               PROVE  /\ outbox'[i].status = "sent" => arrivals'[i] > 0
                      /\ outbox'[i].status = "failed" <=> outbox'[i].attempts = MaxAttempts
                      /\ arrivals'[i] > 1 => i \in doubtful
    BY <1>2 DEF OutboxTellsTruth
  <2>1. CASE i = n
    BY <1>1, <1>3, <1>5, <2>1
  <2>2. CASE i \in DOMAIN outbox
    BY <1>5, <2>2 DEF OutboxInv, OutboxTellsTruth
  <2> QED BY <1>5, <2>1, <2>2
<1> QED BY <1>4, <1>6, <1>7, <1>8 DEF OutboxInv

LEMMA ListOutbox == OutboxInv /\ sending = "no" /\ FlushList => OutboxInv'
<1> SUFFICES ASSUME OutboxInv, sending = "no", FlushList PROVE OutboxInv'
  OBVIOUS
<1>1. UNCHANGED <<outbox, sending, arrivals, doubtful>>
  BY DEF FlushList
<1>2. PICK n \in 0..Limit : \E rows \in [1..n -> DOMAIN outbox] : ListPending(rows) /\ toSend' = rows
  BY DEF FlushList
<1>3. PICK rows \in [1..n -> DOMAIN outbox] : ListPending(rows) /\ toSend' = rows
  BY <1>2
<1>4. /\ DOMAIN rows = 1..n
      /\ \A i, j \in DOMAIN rows : i < j => rows[i] < rows[j]
      /\ \A i \in DOMAIN rows : rows[i] \in DOMAIN outbox /\ Pending(rows[i])
  BY <1>3 DEF ListPending
<1>5. rows \in Seq(Nat)
  <2>1. \A i \in 1..n : rows[i] \in Nat
    BY <1>3 DEF OutboxInv, OutboxRows
  <2> QED BY <1>2, <1>3, <2>1
<1>6. FlushInv'
  BY <1>1, <1>3, <1>4, <1>5 DEF OutboxInv, FlushInv, Pending
<1> QED BY <1>1, <1>6 DEF OutboxInv, OutboxRows, ArrivalsInv, OutboxTellsTruth, Pending

LEMMA SendOutbox == OutboxInv /\ FlushSend => OutboxInv'
<1> SUFFICES ASSUME OutboxInv, FlushSend PROVE OutboxInv'
  OBVIOUS
<1> DEFINE h == toSend[1]
<1>1. toSend # <<>> /\ sending = "no" /\ UNCHANGED <<outbox, toSend>> /\ Head(toSend) = h
  BY DEF FlushSend, OutboxInv, FlushInv
<1>2. h \in DOMAIN outbox /\ Pending(h) /\ h \in DOMAIN arrivals
  BY <1>1 DEF OutboxInv, OutboxRows, FlushInv
<1>3. PICK reached \in BOOLEAN : \E raised \in BOOLEAN :
         /\ reached \/ raised
         /\ sending' = IF raised THEN "failed" ELSE "sent"
         /\ arrivals' = IF reached THEN [arrivals EXCEPT ![h] = @ + 1] ELSE arrivals
         /\ doubtful' = IF reached /\ raised THEN doubtful \cup {h} ELSE doubtful
  BY <1>1 DEF FlushSend
<1>4. PICK raised \in BOOLEAN :
         /\ reached \/ raised
         /\ sending' = IF raised THEN "failed" ELSE "sent"
         /\ arrivals' = IF reached THEN [arrivals EXCEPT ![h] = @ + 1] ELSE arrivals
         /\ doubtful' = IF reached /\ raised THEN doubtful \cup {h} ELSE doubtful
  BY <1>3
<1>5. /\ arrivals' \in Seq(Nat) /\ Len(arrivals') = Len(arrivals)
      /\ \A i \in DOMAIN outbox : i # h => arrivals'[i] = arrivals[i]
      /\ arrivals[h] \in Nat /\ arrivals'[h] = IF reached THEN arrivals[h] + 1 ELSE arrivals[h]
  BY <1>2, <1>4 DEF OutboxInv, OutboxRows
<1>6. OutboxRows'
  BY <1>1, <1>5 DEF OutboxInv, OutboxRows
<1>7. FlushInv'
  BY <1>1, <1>4, <1>5 DEF OutboxInv, FlushInv, Pending
<1>8. h \notin doubtful => arrivals[h] = 0
  BY <1>1, <1>2, <1>5 DEF OutboxInv, ArrivalsInv
<1>9. ArrivalsInv'
  BY <1>1, <1>4, <1>5, <1>8 DEF OutboxInv, ArrivalsInv, Pending
<1>10. OutboxTellsTruth'
  BY <1>1, <1>2, <1>4, <1>5, <1>8 DEF OutboxInv, OutboxTellsTruth, Pending
<1> QED BY <1>6, <1>7, <1>9, <1>10 DEF OutboxInv

LEMMA MarkOutbox == OutboxInv /\ FlushMark => OutboxInv'
<1> SUFFICES ASSUME OutboxInv, FlushMark PROVE OutboxInv'
  OBVIOUS
<1> DEFINE h == toSend[1]
<1>1. /\ sending \in {"sent", "failed"} /\ toSend # <<>> /\ Head(toSend) = h
      /\ toSend' = Tail(toSend) /\ sending' = "no" /\ UNCHANGED arrivals
  BY DEF FlushMark, OutboxInv, FlushInv
<1>2. h \in DOMAIN outbox /\ Pending(h) /\ outbox[h] \in Rows /\ arrivals[h] \in Nat
  BY <1>1 DEF OutboxInv, OutboxRows, FlushInv
<1>3. MaxAttempts \in Nat \ {0} /\ outbox[h].attempts \in 0..MaxAttempts /\ outbox[h].attempts # MaxAttempts
  BY <1>2, OutboxAssumption DEF Rows, Pending, OutboxInv, OutboxTellsTruth
<1>4. ASSUME NEW row \in Rows, outbox' = [outbox EXCEPT ![h] = row],
             row.status = "failed" <=> row.attempts = MaxAttempts,
             row.status = "sent" => sending = "sent" /\ doubtful' = doubtful,
             row.status # "sent" /\ sending = "sent" => doubtful' = doubtful \cup {h},
             row.status # "sent" /\ sending # "sent" => doubtful' = doubtful
      PROVE  OutboxInv'
  <2>1. /\ outbox' \in Seq(Rows) /\ DOMAIN outbox' = DOMAIN outbox /\ Len(outbox') = Len(outbox)
        /\ outbox'[h] = row /\ \A i \in DOMAIN outbox : i # h => outbox'[i] = outbox[i]
    BY <1>2, <1>4 DEF OutboxInv, OutboxRows
  <2>2. OutboxRows'
    BY <1>1, <2>1 DEF OutboxInv, OutboxRows
  <2>3. /\ toSend' \in Seq(Nat)
        /\ \A i \in DOMAIN toSend' : i + 1 \in DOMAIN toSend /\ toSend'[i] = toSend[i + 1] /\ toSend[i + 1] > h
    BY <1>1 DEF OutboxInv, FlushInv
  <2>4. \A i \in DOMAIN toSend' : toSend'[i] \in DOMAIN outbox' /\ outbox'[toSend'[i]].status = "pending"
    <3> SUFFICES ASSUME NEW i \in DOMAIN toSend'
                 PROVE  toSend'[i] \in DOMAIN outbox' /\ outbox'[toSend'[i]].status = "pending"
      OBVIOUS
    <3>1. toSend'[i] \in DOMAIN outbox /\ outbox[toSend'[i]].status = "pending"
      BY <2>3 DEF OutboxInv, FlushInv, Pending
    <3>2. toSend'[i] # h
      BY <2>3, <1>2 DEF OutboxInv, OutboxRows
    <3> QED BY <2>1, <3>1, <3>2
  <2>5. \A i, j \in DOMAIN toSend' : i < j => toSend'[i] < toSend'[j]
    <3>1. \A i \in DOMAIN toSend' : i \in Nat
      BY <2>3
    <3> QED BY <2>3, <3>1 DEF OutboxInv, FlushInv
  <2>6. FlushInv'
    BY <1>1, <2>3, <2>4, <2>5 DEF FlushInv, Pending
  <2>7. sending = "sent" => arrivals[h] > 0
    BY DEF OutboxInv, FlushInv
  <2>8. h \notin doubtful /\ arrivals[h] > 0 => sending = "sent"
    BY <1>2 DEF OutboxInv, ArrivalsInv
  <2>9. ArrivalsInv'
    BY <1>1, <1>4, <2>1, <2>8 DEF OutboxInv, ArrivalsInv, Pending
  <2>10. OutboxTellsTruth'
    BY <1>1, <1>4, <2>1, <2>7 DEF OutboxInv, OutboxTellsTruth
  <2> QED BY <2>2, <2>6, <2>9, <2>10 DEF OutboxInv
<1>5. CASE sending = "sent" /\ MarkSent(h) /\ UNCHANGED doubtful
  <2> DEFINE row == [outbox[h] EXCEPT !.status = "sent"]
  <2>1. row \in Rows /\ row.status = "sent" /\ row.attempts = outbox[h].attempts
    BY <1>2 DEF Rows
  <2>2. outbox' = [outbox EXCEPT ![h] = row]
    BY <1>5 DEF MarkSent
  <2> HIDE DEF row
  <2> QED BY <1>3, <1>4, <1>5, <2>1, <2>2
<1>6. CASE /\ MarkFailed(h)
           /\ \/ sending = "sent" /\ doubtful' = doubtful \cup {h}
              \/ sending = "failed" /\ doubtful' = doubtful
  <2> DEFINE k == outbox[h].attempts + 1
             row == [status |-> IF k >= MaxAttempts THEN "failed" ELSE "pending", attempts |-> k]
  <2>1. row \in Rows /\ row.status # "sent" /\ (row.status = "failed" <=> row.attempts = MaxAttempts)
    BY <1>3 DEF Rows
  <2>2. outbox' = [outbox EXCEPT ![h] = row]
    BY <1>6 DEF MarkFailed
  <2> HIDE DEF row
  <2> QED BY <1>4, <1>6, <2>1, <2>2
<1> QED BY <1>1, <1>5, <1>6 DEF FlushMark

LEMMA GoneOutbox == OutboxInv /\ FlushGone => OutboxInv'
<1> SUFFICES ASSUME OutboxInv, FlushGone PROVE OutboxInv'
  OBVIOUS
<1>1. toSend' = <<>> /\ sending' = "no" /\ UNCHANGED <<outbox, arrivals>>
      /\ doubtful' = IF sending = "sent" THEN doubtful \cup {Head(toSend)} ELSE doubtful
  BY DEF FlushGone
<1>2. sending = "sent" => Head(toSend) = toSend[1]
  BY DEF OutboxInv, FlushInv
<1>3. FlushInv'
  BY <1>1 DEF FlushInv
<1>4. ArrivalsInv'
  BY <1>1, <1>2 DEF OutboxInv, ArrivalsInv, Pending
<1> QED BY <1>1, <1>3, <1>4 DEF OutboxInv, OutboxRows, OutboxTellsTruth

-----------------------------------------------------------------------------
(* Facts about sequences                                                    *)

LEMMA TailSet ==
  ASSUME NEW S, NEW s \in Seq(S), s # <<>>
  PROVE  /\ ToSet(s) = {Head(s)} \cup ToSet(Tail(s)) /\ Head(s) \in S /\ Tail(s) \in Seq(S)
         /\ Head(s) = s[1] /\ 1 \in DOMAIN s
         /\ \A i \in DOMAIN Tail(s) : i \in Nat /\ i + 1 \in DOMAIN s /\ Tail(s)[i] = s[i + 1]
<1>1. \A i \in DOMAIN s : i = 1 \/ (i - 1 \in DOMAIN Tail(s) /\ Tail(s)[i - 1] = s[i])
  OBVIOUS
<1>2. \A i \in DOMAIN Tail(s) : i \in Nat /\ i + 1 \in DOMAIN s /\ Tail(s)[i] = s[i + 1]
  OBVIOUS
<1>3. Head(s) = s[1] /\ 1 \in DOMAIN s /\ Head(s) \in S /\ Tail(s) \in Seq(S)
  OBVIOUS
<1>4. ToSet(s) \subseteq {Head(s)} \cup ToSet(Tail(s))
  <2> SUFFICES ASSUME NEW i \in DOMAIN s PROVE s[i] \in {Head(s)} \cup ToSet(Tail(s))
    BY DEF ToSet
  <2>1. CASE i = 1
    BY <1>3, <2>1
  <2>2. CASE i # 1
    <3>1. i - 1 \in DOMAIN Tail(s) /\ Tail(s)[i - 1] = s[i]
      BY <1>1, <2>2
    <3> QED BY <3>1 DEF ToSet
  <2> QED BY <2>1, <2>2
<1>5. {Head(s)} \cup ToSet(Tail(s)) \subseteq ToSet(s)
  BY <1>2, <1>3 DEF ToSet
<1> QED BY <1>2, <1>3, <1>4, <1>5

LEMMA AppendSet ==
  ASSUME NEW S, NEW s \in Seq(S), NEW x
  PROVE  /\ ToSet(Append(s, x)) = ToSet(s) \cup {x}
         /\ DOMAIN Append(s, x) = DOMAIN s \cup {Len(s) + 1} /\ Append(s, x)[Len(s) + 1] = x
         /\ \A i \in DOMAIN s : Append(s, x)[i] = s[i] /\ i <= Len(s) /\ i \in Nat
         /\ Len(Append(s, x)) = Len(s) + 1 /\ Len(s) \in Nat
<1>1. /\ DOMAIN Append(s, x) = DOMAIN s \cup {Len(s) + 1} /\ Append(s, x)[Len(s) + 1] = x
      /\ \A i \in DOMAIN s : Append(s, x)[i] = s[i] /\ i <= Len(s) /\ i \in Nat
      /\ Len(Append(s, x)) = Len(s) + 1 /\ Len(s) \in Nat
  OBVIOUS
<1> DEFINE t == Append(s, x)
           n == Len(s) + 1
<1>2. DOMAIN t = DOMAIN s \cup {n} /\ t[n] = x /\ \A i \in DOMAIN s : t[i] = s[i]
  BY <1>1
<1> HIDE DEF t, n
<1>3. ToSet(t) = ToSet(s) \cup {x}
  BY <1>2 DEF ToSet
<1> QED BY <1>1, <1>3 DEF t

-----------------------------------------------------------------------------
(* The messages a gateway is working on                                      *)

Working == main \in {"handle", "confirm", "turn", "settle"}

\* The batch is what users have sent from the offset on.
PlaceInv ==
  /\ arrived \in Seq(Kinds) /\ offset \in 1..Len(arrived) + 1 /\ conv \in Nat
  /\ batch \in Seq(Nat) /\ calls \in Seq(Nat) /\ tasks \in Seq(Nat) /\ ToSet(calls) \subseteq DOMAIN arrived
  /\ turns \in Seq([message : Nat, conv : Nat])
  /\ Working => /\ batch # <<>>
                /\ \A i \in DOMAIN batch : batch[i] = offset + i - 1 /\ batch[i] \in DOMAIN arrived

\* Turn, seen from the message it is of.
LEMMA TurnStep ==
  ASSUME PlaceInv, NEW u \in Nat, Turn(u)
  PROVE  /\ turns' \in Seq([message : Nat, conv : Nat])
         /\ \/ /\ turns' = Append(turns, [message |-> u, conv |-> conv])
               /\ outbound' = Append(outbound, Len(turns) + 1)
               /\ UNCHANGED <<running, dispatcher, current, early, shown, dropped, failed, redone>>
            \/ failed' = failed \cup {u} /\ UNCHANGED <<busVars, turns, redone>>
<1>1. turns \in Seq([message : Nat, conv : Nat]) /\ [message |-> u, conv |-> conv] \in [message : Nat, conv : Nat]
  BY DEF PlaceInv
<1>2. Append(turns, [message |-> u, conv |-> conv]) \in Seq([message : Nat, conv : Nat])
  BY <1>1
<1> QED BY <1>1, <1>2 DEF Turn

\* What PlaceInv says: in general, and while updates are handled.
LEMMA Placed ==
  ASSUME PlaceInv
  PROVE  /\ arrived \in Seq(Kinds) /\ offset \in Nat /\ Len(arrived) \in Nat /\ conv \in Nat
         /\ offset >= 1 /\ offset <= Len(arrived) + 1 /\ DOMAIN arrived = 1..Len(arrived)
         /\ batch \in Seq(Nat) /\ calls \in Seq(Nat) /\ tasks \in Seq(Nat) /\ ToSet(calls) \subseteq DOMAIN arrived
         /\ turns \in Seq([message : Nat, conv : Nat])
<1>1. /\ arrived \in Seq(Kinds) /\ offset \in 1..Len(arrived) + 1 /\ conv \in Nat
      /\ batch \in Seq(Nat) /\ calls \in Seq(Nat) /\ tasks \in Seq(Nat) /\ ToSet(calls) \subseteq DOMAIN arrived
      /\ turns \in Seq([message : Nat, conv : Nat])
  BY DEF PlaceInv
<1>2. Len(arrived) \in Nat /\ DOMAIN arrived = 1..Len(arrived)
  BY <1>1
<1>3. offset \in Nat /\ offset >= 1 /\ offset <= Len(arrived) + 1
  BY <1>1, <1>2
<1> QED BY <1>1, <1>2, <1>3

LEMMA AtWork ==
  ASSUME PlaceInv, Working
  PROVE  /\ batch \in Seq(Nat) /\ batch # <<>> /\ Head(batch) = offset
         /\ offset \in Nat /\ offset \in DOMAIN arrived /\ offset \in 1..Len(arrived) /\ Len(arrived) \in Nat
         /\ \A i \in DOMAIN batch : batch[i] = offset + i - 1 /\ batch[i] \in DOMAIN arrived
<1>1. /\ batch # <<>> /\ \A i \in DOMAIN batch : batch[i] = offset + i - 1 /\ batch[i] \in DOMAIN arrived
  BY DEF PlaceInv
<1>2. batch \in Seq(Nat) /\ offset \in Nat /\ DOMAIN arrived = 1..Len(arrived) /\ Len(arrived) \in Nat
  BY Placed
<1>3. Head(batch) = batch[1] /\ 1 \in DOMAIN batch
  BY <1>1, <1>2, TailSet
<1>4. Head(batch) = offset /\ offset \in DOMAIN arrived
  BY <1>1, <1>2, <1>3
<1> QED BY <1>1, <1>2, <1>4

LEMMA NextPlaceInv == PlaceInv /\ GatewayNext => PlaceInv'
<1> SUFFICES ASSUME PlaceInv, GatewayNext PROVE PlaceInv'
  OBVIOUS
<1>1. CASE UNCHANGED <<arrived, offset, batch, calls, tasks, conv, turns>> /\ (main' = main \/ ~Working')
  BY <1>1 DEF PlaceInv, Working
<1>2. CASE UserSends
  <2>1. PICK k \in Kinds : arrived' = Append(arrived, k)
    BY <1>2 DEF UserSends
  <2>2. /\ arrived' \in Seq(Kinds) /\ Len(arrived') = Len(arrived) + 1 /\ DOMAIN arrived \subseteq DOMAIN arrived'
    BY <2>1, Placed
  <2>3. offset' \in 1..Len(arrived') + 1
    <3>1. offset' = offset
      BY <1>2 DEF UserSends
    <3>2. offset \in Nat /\ Len(arrived) \in Nat /\ offset >= 1 /\ offset <= Len(arrived) + 1
      BY Placed
    <3> QED BY <2>2, <3>1, <3>2
  <2>4. UNCHANGED <<main, offset, batch, calls, tasks, conv, turns>>
    BY <1>2 DEF UserSends, feishuVars, historyVars
  <2> QED BY <2>2, <2>3, <2>4, Placed DEF PlaceInv, Working
<1>3. CASE TgUpdates
  <2> DEFINE n == Len(arrived) - offset + 1
  <2>1. /\ batch' = [i \in 1..n |-> offset + i - 1]
        /\ UNCHANGED <<arrived, offset, calls, tasks, conv, turns>>
        /\ IF batch' = <<>> THEN main' = "flush again" ELSE main' = "handle"
    BY <1>3 DEF TgUpdates, TgUnchanged, feishuVars, historyVars
  <2>2. n \in Nat /\ \A i \in 1..n : offset + i - 1 \in Nat /\ offset + i - 1 \in DOMAIN arrived
    BY Placed
  <2> HIDE DEF n
  <2>3. batch' \in Seq(Nat) /\ DOMAIN batch' = 1..n
    <3>1. batch' \in [1..n -> Nat]
      BY <2>1, <2>2
    <3> QED BY <2>2, <3>1
  <2>4. \A i \in DOMAIN batch' : batch'[i] = offset + i - 1 /\ batch'[i] \in DOMAIN arrived
    BY <2>1, <2>2, <2>3
  <2>5. Working' => batch' # <<>>
    BY <2>1 DEF Working
  <2> QED BY <2>1, <2>3, <2>4, <2>5 DEF PlaceInv
<1>4. CASE TgHandle \/ TgConfirm
  <2>1. UNCHANGED <<arrived, offset, batch, calls, tasks, turns>> /\ Working
    BY <1>4 DEF TgHandle, TgConfirm, TgUnchanged, feishuVars, historyVars, Working
  <2>2. CASE TgConfirm
    BY <2>1, <2>2 DEF TgConfirm, PlaceInv
  <2>3. CASE TgHandle
    <3>1. arrived[Head(batch)] \in {"chat", "new", "other"}
      <4>1. arrived[Head(batch)] \in Kinds
        BY <2>1, Placed, AtWork
      <4> QED BY <4>1, GatewayAssumption
    <3>2. conv' = conv \/ conv' = conv + 1
      BY <2>3, <3>1 DEF TgHandle
    <3>3. conv' \in Nat
      BY <3>2, Placed
    <3> QED BY <2>1, <3>3 DEF PlaceInv
  <2> QED BY <1>4, <2>2, <2>3
<1>5. CASE TgTurn
  <2>1. Turn(Head(batch)) /\ main' = "settle" /\ Working
    BY <1>5 DEF TgTurn, Working
  <2>2. UNCHANGED <<arrived, offset, batch, calls, tasks, conv>>
    BY <1>5 DEF TgTurn, TgUnchanged, feishuVars
  <2>3. turns' \in Seq([message : Nat, conv : Nat])
    BY <2>1, AtWork, TurnStep
  <2> QED BY <2>1, <2>2, <2>3 DEF PlaceInv
<1>6. CASE TgSettle
  <2>1. /\ Working /\ UNCHANGED <<arrived, calls, tasks, conv, turns>>
        /\ offset' = Head(batch) + 1 /\ batch' = (IF broke THEN <<>> ELSE Tail(batch))
        /\ main' = IF broke THEN "pause" ELSE IF batch' = <<>> THEN "flush again" ELSE "handle"
    BY <1>6 DEF TgSettle, OffsetAfter, TgUnchanged, feishuVars, historyVars, Working
  <2>2. offset' = offset + 1 /\ offset' \in 1..Len(arrived) + 1
    <3>1. Head(batch) = offset /\ offset \in 1..Len(arrived) /\ Len(arrived) \in Nat
      BY <2>1, AtWork
    <3>2. offset' = Head(batch) + 1
      BY <2>1
    <3>3. offset' = offset + 1
      BY <3>1, <3>2
    <3> QED BY <3>1, <3>3
  <2>3. /\ Tail(batch) \in Seq(Nat)
        /\ \A i \in DOMAIN Tail(batch) : i \in Nat /\ i + 1 \in DOMAIN batch /\ Tail(batch)[i] = batch[i + 1]
    BY <2>1, AtWork, TailSet
  <2>4. \A i \in DOMAIN Tail(batch) : Tail(batch)[i] = offset' + i - 1 /\ Tail(batch)[i] \in DOMAIN arrived
    <3>1. /\ \A i \in DOMAIN batch : batch[i] = offset + i - 1 /\ batch[i] \in DOMAIN arrived
          /\ offset \in Nat
      BY <2>1, AtWork
    <3>2. offset' = offset + 1 /\ \A i \in DOMAIN Tail(batch) :
             i \in Nat /\ i + 1 \in DOMAIN batch /\ Tail(batch)[i] = batch[i + 1]
      BY <2>2, <2>3
    <3>3. ASSUME NEW i \in DOMAIN Tail(batch)
          PROVE  Tail(batch)[i] = offset' + i - 1 /\ Tail(batch)[i] \in DOMAIN arrived
      <4>1. i \in Nat /\ i + 1 \in DOMAIN batch /\ Tail(batch)[i] = batch[i + 1] /\ offset' = offset + 1
        BY <3>2
      <4>2. batch[i + 1] = offset + (i + 1) - 1 /\ batch[i + 1] \in DOMAIN arrived
        BY <3>1, <4>1
      <4>3. offset + (i + 1) - 1 = (offset + 1) + i - 1
        BY <3>1, <4>1
      <4> QED BY <4>1, <4>2, <4>3
    <3> QED BY <3>3
  <2>5. batch' \in Seq(Nat)
    <3>1. batch' = <<>> \/ batch' = Tail(batch)
      BY <2>1
    <3>2. Tail(batch) \in Seq(Nat)
      BY <2>3
    <3>3. CASE batch' = <<>>
      BY <3>3
    <3>4. CASE batch' = Tail(batch)
      BY <3>2, <3>4, Zenon
    <3> QED BY <3>1, <3>3, <3>4
  <2>6. Working' => batch' = Tail(batch) /\ batch' # <<>>
    BY <2>1 DEF Working
  <2> QED BY <2>1, <2>2, <2>4, <2>5, <2>6 DEF PlaceInv
<1>7. CASE TgCancel
  <2>1. /\ UNCHANGED <<arrived, batch, calls, tasks, conv, turns>> /\ main' = "closing"
        /\ offset' = offset \/ (Working /\ offset' = Head(batch) + 1)
    BY <1>7 DEF TgCancel, OffsetAfter, feishuVars, Working
  <2>2. offset' \in 1..Len(arrived) + 1
    BY <2>1, Placed, AtWork
  <2> QED BY <2>1, <2>2 DEF PlaceInv, Working
<1>8. CASE FsCallback
  <2>1. PICK u \in DOMAIN arrived : calls' = Append(calls, u)
    BY <1>8 DEF FsCallback
  <2>2. u \in Nat
    BY <2>1, Placed
  <2>3. calls' \in Seq(Nat) /\ ToSet(calls') = ToSet(calls) \cup {u}
    BY <2>1, <2>2, Placed, AppendSet
  <2>4. ToSet(calls') \subseteq DOMAIN arrived
    BY <2>1, <2>3, Placed
  <2>5. UNCHANGED <<main, arrived, offset, batch, tasks, conv, turns>>
    BY <1>8 DEF FsCallback, FsUnchanged, historyVars
  <2> QED BY <2>3, <2>4, <2>5 DEF PlaceInv, Working
<1>9. CASE FsAccept
  <2>1. /\ Head(calls) \in Nat /\ Tail(calls) \in Seq(Nat) /\ ToSet(Tail(calls)) \subseteq DOMAIN arrived
    BY <1>9, Placed, TailSet DEF FsAccept
  <2>2. tasks' = tasks \/ tasks' = Append(tasks, Head(calls))
    BY <1>9 DEF FsAccept
  <2>3. tasks' \in Seq(Nat)
    <3>1. tasks \in Seq(Nat)
      BY Placed
    <3> HIDE <2>2
    <3>2. Append(tasks, Head(calls)) \in Seq(Nat)
      BY <2>1, <3>1
    <3> QED BY <2>2, <3>1, <3>2
  <2>4. UNCHANGED <<main, arrived, offset, batch, conv, turns>> /\ calls' = Tail(calls)
    BY <1>9 DEF FsAccept, FsUnchanged, historyVars
  <2> QED BY <2>1, <2>3, <2>4 DEF PlaceInv, Working
<1>10. CASE FsHandle
  <2>1. /\ tasks' = Tail(tasks) /\ UNCHANGED <<arrived, offset, batch, main, calls>>
    BY <1>10 DEF FsHandle, FsUnchanged
  <2>2. Head(tasks) \in Nat /\ Tail(tasks) \in Seq(Nat)
    BY <1>10, Placed, TailSet DEF FsHandle
  <2>3. turns' \in Seq([message : Nat, conv : Nat])
    <3>1. CASE Turn(Head(tasks))
      BY <2>2, <3>1, TurnStep
    <3>2. CASE turns' = turns
      BY <3>2, Placed
    <3> QED BY <1>10, <3>1, <3>2 DEF FsHandle, historyVars
  <2>4. conv' \in Nat
    <3>1. conv' = conv \/ conv' = conv + 1
      BY <1>10 DEF FsHandle
    <3> QED BY <3>1, Placed
  <2> QED BY <2>1, <2>2, <2>3, <2>4 DEF PlaceInv, Working
<1>11. CASE Gone
  <2>1. /\ main' = "off" /\ batch' = <<>> /\ calls' = <<>> /\ tasks' = <<>>
        /\ UNCHANGED <<arrived, offset, conv, turns>>
    BY <1>11 DEF Gone
  <2>2. ToSet(calls') = {}
    BY <2>1 DEF ToSet
  <2> QED BY <2>1, <2>2 DEF PlaceInv, Working
<1>12. \/ UNCHANGED <<arrived, offset, batch, calls, tasks, conv, turns>> /\ (main' = main \/ ~Working')
       \/ UserSends \/ TgUpdates \/ TgHandle \/ TgConfirm \/ TgTurn \/ TgSettle \/ TgCancel
       \/ FsCallback \/ FsAccept \/ FsHandle \/ Gone
  BY DEF GatewayNext, TgMain, FsMain, TgBoot, TgPoll, TgPollRaises, TgAgain, FsBoot, FsSleep, FsAgain, FsPortTaken,
         FsCancel, FlushWork, Dispatch, Closed, ToolEnqueues, Arrive, Kill, TgUnchanged, FsUnchanged, feishuVars,
         historyVars, gatewayVars, Working
<1> QED BY <1>1, <1>2, <1>3, <1>4, <1>5, <1>6, <1>7, <1>8, <1>9, <1>10, <1>11, <1>12

\* Only the flushing gateway, or one that was stopped in a flush, has a row at hand.
FlushOnly == main \notin {"flush", "flush again", "closing"} => sending = "no"

LEMMA NextOutboxInv == OutboxInv /\ FlushOnly /\ GatewayNext => OutboxInv' /\ FlushOnly'
<1> SUFFICES ASSUME OutboxInv, FlushOnly, GatewayNext PROVE OutboxInv' /\ FlushOnly'
  OBVIOUS
<1>1. toSend = <<>> => sending = "no"
  BY DEF OutboxInv, FlushInv
<1>2. CASE Enqueue /\ UNCHANGED main
  BY <1>2, EnqueueOutbox DEF Enqueue, FlushOnly
<1>3. CASE FlushList /\ sending = "no"
  BY <1>3, ListOutbox DEF FlushList, FlushOnly
<1>4. CASE FlushWork
  BY <1>4, SendOutbox, MarkOutbox DEF FlushWork, FlushOnly, gatewayVars
<1>5. CASE FlushGone
  BY <1>5, GoneOutbox DEF FlushGone, FlushOnly
<1>6. CASE UNCHANGED outboxVars /\ (UNCHANGED main \/ main' = "closing" \/ sending = "no")
  BY <1>6 DEF outboxVars, OutboxInv, OutboxRows, FlushInv, ArrivalsInv, OutboxTellsTruth, Pending, FlushOnly
<1>7. \/ Enqueue /\ UNCHANGED main
      \/ FlushList /\ sending = "no"
      \/ FlushWork
      \/ FlushGone
      \/ UNCHANGED outboxVars /\ (UNCHANGED main \/ main' = "closing" \/ sending = "no")
  <2>1. CASE TgMain \/ TgCancel
    BY <1>1, <2>1 DEF FlushOnly, Flushing, TgMain, TgBoot, TgPoll, TgUpdates, TgPollRaises, TgAgain, TgHandle,
                      TgConfirm, TgTurn, TgSettle, TgCancel
  <2>2. CASE FsMain \/ FsPortTaken \/ FsCallback \/ FsCancel
    BY <1>1, <2>2 DEF FlushOnly, Flushing, FsMain, FsBoot, FsSleep, FsAgain, FsAccept, FsHandle, FsPortTaken,
                      FsCallback, FsCancel, feishuVars
  <2>3. CASE FlushWork \/ Dispatch \/ Closed \/ ToolEnqueues \/ Arrive \/ Kill
    BY <2>3 DEF Dispatch, Closed, ToolEnqueues, Arrive, UserSends, Kill, Gone, gatewayVars
  <2> QED BY <2>1, <2>2, <2>3 DEF GatewayNext
<1> QED BY <1>2, <1>3, <1>4, <1>5, <1>6, <1>7

-----------------------------------------------------------------------------
(* The replies of a gateway's turns                                         *)

Holding == dispatcher \in {"handling", "pausing", "retrying"}

\* Replies are numbered by their turns.  Those shown come before the one at hand,
\* which comes before those in the queue, and none is later than the last turn.
RepliesInv ==
  /\ outbound \in Seq(Nat) /\ current \in Seq(Nat) /\ shown \in Seq(Nat)
  /\ Len(current) = (IF Holding THEN 1 ELSE 0)
  /\ DOMAIN turns = ToSet(outbound) \cup ToSet(current) \cup ToSet(shown) \cup dropped
  /\ \A i, j \in DOMAIN outbound : i < j => outbound[i] < outbound[j]
  /\ \A i, j \in DOMAIN shown : i < j => shown[i] <= shown[j]
  /\ \A x \in ToSet(outbound), y \in ToSet(shown) \cup ToSet(current) : y < x
  /\ \A x \in ToSet(current), y \in ToSet(shown) : y <= x

LEMMA NoneHeld == ASSUME RepliesInv, ~Holding PROVE current = <<>> /\ ToSet(current) = {}
<1>1. current \in Seq(Nat) /\ Len(current) = 0
  BY DEF RepliesInv
<1>2. current = <<>>
  BY <1>1
<1> QED BY <1>2 DEF ToSet

LEMMA OneHeld ==
  ASSUME RepliesInv, Holding
  PROVE  current[1] \in Nat /\ current = <<current[1]>> /\ ToSet(current) = {current[1]}
<1>1. current \in Seq(Nat) /\ Len(current) = 1
  BY DEF RepliesInv
<1>2. current[1] \in Nat /\ current = <<current[1]>> /\ DOMAIN current = {1}
  BY <1>1
<1> QED BY <1>2 DEF ToSet

LEMMA ShownNext ==
  ASSUME RepliesInv, Holding
  PROVE  /\ shown \o current \in Seq(Nat) /\ ToSet(shown \o current) = ToSet(shown) \cup ToSet(current)
         /\ \A i, j \in DOMAIN (shown \o current) : i < j => (shown \o current)[i] <= (shown \o current)[j]
<1> DEFINE x == current[1]
           s == Append(shown, x)
<1>1. x \in Nat /\ current = <<x>> /\ ToSet(current) = {x}
  BY OneHeld
<1>2. shown \in Seq(Nat)
  BY DEF RepliesInv
<1> HIDE DEF x
<1>3. shown \o current = s
  BY <1>1, <1>2
<1>4. s \in Seq(Nat)
  BY <1>1, <1>2
<1>5. ToSet(s) = ToSet(shown) \cup {x}
  BY <1>2, AppendSet
<1>6. \A y \in ToSet(shown) : y <= x
  BY <1>1 DEF RepliesInv
<1>7. ASSUME NEW i \in DOMAIN s, NEW j \in DOMAIN s, i < j PROVE s[i] <= s[j]
  <2>1. i \in DOMAIN shown /\ s[i] = shown[i] /\ ((j \in DOMAIN shown /\ s[j] = shown[j]) \/ s[j] = x)
    <3> DEFINE n == Len(shown) + 1
    <3>1. /\ DOMAIN s = DOMAIN shown \cup {n} /\ s[n] = x /\ n \in Nat
          /\ \A k \in DOMAIN shown : s[k] = shown[k] /\ k < n /\ k \in Nat
      BY <1>2, AppendSet
    <3> HIDE DEF s, n
    <3>2. i \in DOMAIN shown
      BY <1>7, <3>1
    <3> QED BY <3>1, <3>2
  <2>2. shown[i] \in ToSet(shown)
    BY <2>1 DEF ToSet
  <2> QED BY <1>6, <1>7, <2>1, <2>2 DEF RepliesInv
<1> QED BY <1>1, <1>3, <1>4, <1>5, <1>7

\* Shown replies grow by the one at hand, or stay; then it is let go, or kept.
LEMMA HandledStep ==
  ASSUME RepliesInv, Holding, UNCHANGED <<outbound, turns>>,
         shown' \in {shown, shown \o current},
         \/ Holding' /\ UNCHANGED <<current, dropped>>
         \/ /\ ~Holding' /\ current' = <<>>
            /\ \/ shown' = shown \o current /\ dropped' = dropped
               \/ dropped' = dropped \cup ToSet(current)
  PROVE  RepliesInv'
<1>1. /\ shown' \in Seq(Nat) /\ ToSet(shown') \subseteq ToSet(shown) \cup ToSet(current) /\ ToSet(shown) \subseteq ToSet(shown')
      /\ \A i, j \in DOMAIN shown' : i < j => shown'[i] <= shown'[j]
      /\ shown' = shown \o current => ToSet(shown') = ToSet(shown) \cup ToSet(current)
  BY ShownNext DEF RepliesInv
<1>2. \A x \in ToSet(current), y \in ToSet(shown') : y <= x
  BY <1>1, OneHeld DEF RepliesInv
<1>3. \A x \in ToSet(outbound), y \in ToSet(shown') \cup ToSet(current) : y < x
  BY <1>1 DEF RepliesInv
<1>4. ToSet(outbound') = ToSet(outbound) /\ DOMAIN turns' = DOMAIN turns
  OBVIOUS
<1>5. CASE Holding' /\ UNCHANGED <<current, dropped>>
  <2>1. Holding' <=> Holding
    BY <1>5
  <2>2. DOMAIN turns' = ToSet(outbound') \cup ToSet(current') \cup ToSet(shown') \cup dropped'
    BY <1>1, <1>4, <1>5 DEF RepliesInv
  <2> QED BY <1>1, <1>2, <1>3, <1>5, <2>1, <2>2 DEF RepliesInv
<1>6. CASE ~Holding'
  <2>0. current' = <<>>
    BY <1>6
  <2>1. current' = <<>> /\ ToSet(current') = {} /\ current' \in Seq(Nat) /\ Len(current') = 0
    BY <2>0 DEF ToSet
  <2>2. DOMAIN turns' = ToSet(outbound') \cup ToSet(shown') \cup dropped'
    BY <1>1, <1>4, <1>6 DEF RepliesInv
  <2>3. DOMAIN turns' = ToSet(outbound') \cup ToSet(current') \cup ToSet(shown') \cup dropped'
    BY <2>1, <2>2
  <2>4. \A x \in ToSet(outbound'), y \in ToSet(shown') \cup ToSet(current') : y < x
    BY <1>3, <1>4, <2>1
  <2>5. outbound' \in Seq(Nat) /\ \A i, j \in DOMAIN outbound' : i < j => outbound'[i] < outbound'[j]
    BY DEF RepliesInv
  <2> QED BY <1>1, <1>6, <2>1, <2>3, <2>4, <2>5 DEF RepliesInv
<1> QED BY <1>5, <1>6

LEMMA DispatchReplies == RepliesInv /\ DispatchStep /\ UNCHANGED turns => RepliesInv'
<1> SUFFICES ASSUME RepliesInv, DispatchStep, UNCHANGED turns PROVE RepliesInv'
  OBVIOUS
<1>1. CASE DispatchBegin \/ DispatchNotices \/ RetryNow
  <2>1. (Holding' <=> Holding) /\ UNCHANGED <<outbound, current, shown, dropped>>
    BY <1>1 DEF DispatchBegin, DispatchNotices, RetryNow, Holding
  <2> QED BY <2>1 DEF RepliesInv
<1>2. CASE DispatchTake
  <2>1. /\ ~Holding /\ Holding' /\ outbound # <<>> /\ current' = <<Head(outbound)>> /\ outbound' = Tail(outbound)
        /\ UNCHANGED <<shown, dropped>>
    BY <1>2 DEF DispatchTake, Holding
  <2> DEFINE x == Head(outbound)
             rest == Tail(outbound)
  <2>2. /\ ToSet(outbound) = {x} \cup ToSet(rest) /\ x \in Nat /\ rest \in Seq(Nat) /\ x = outbound[1]
        /\ \A i \in DOMAIN rest : i \in Nat /\ i + 1 \in DOMAIN outbound /\ rest[i] = outbound[i + 1]
        /\ 1 \in DOMAIN outbound
    BY <2>1, TailSet DEF RepliesInv
  <2>3. current' = <<x>> /\ outbound' = rest
    BY <2>1
  <2> HIDE DEF x, rest
  <2>4. \A i \in DOMAIN rest : x < rest[i]
    <3> SUFFICES ASSUME NEW i \in DOMAIN rest PROVE x < rest[i]
      OBVIOUS
    <3>1. i + 1 \in DOMAIN outbound /\ 1 < i + 1
      <4>1. i \in 1..Len(rest) /\ Len(rest) \in Nat
        BY <2>2
      <4> QED BY <2>2, <4>1
    <3> QED BY <2>2, <3>1 DEF RepliesInv
  <2>5. \A i, j \in DOMAIN rest : i < j => rest[i] < rest[j]
    <3> SUFFICES ASSUME NEW i \in DOMAIN rest, NEW j \in DOMAIN rest, i < j PROVE rest[i] < rest[j]
      OBVIOUS
    <3>1. i + 1 \in DOMAIN outbound /\ j + 1 \in DOMAIN outbound /\ i + 1 < j + 1
      BY <2>2
    <3> QED BY <2>2, <3>1 DEF RepliesInv
  <2>6. ToSet(current') = {x} /\ Len(current') = 1 /\ current' \in Seq(Nat)
    BY <2>2, <2>3 DEF ToSet
  <2>7. ToSet(current) = {}
    BY <2>1, NoneHeld
  <2>8. DOMAIN turns' = ToSet(outbound') \cup ToSet(current') \cup ToSet(shown') \cup dropped'
    BY <2>1, <2>2, <2>3, <2>6, <2>7 DEF RepliesInv
  <2>9. \A y \in ToSet(shown) : y < x /\ \A z \in ToSet(rest) : y < z
    BY <2>2 DEF RepliesInv
  <2>10. \A z \in ToSet(rest) : x < z
    BY <2>4 DEF ToSet
  <2>11. \A y \in ToSet(shown) : y \in Nat
    BY DEF RepliesInv, ToSet
  <2>12. \A a \in ToSet(outbound'), y \in ToSet(shown') \cup ToSet(current') : y < a
    BY <2>1, <2>3, <2>6, <2>9, <2>10
  <2>13. \A a \in ToSet(current'), y \in ToSet(shown') : y <= a
    BY <2>1, <2>2, <2>6, <2>9, <2>11
  <2>14. outbound' \in Seq(Nat) /\ \A i, j \in DOMAIN outbound' : i < j => outbound'[i] < outbound'[j]
    BY <2>2, <2>3, <2>5
  <2> QED BY <2>1, <2>6, <2>8, <2>12, <2>13, <2>14 DEF RepliesInv
<1>3. CASE HandlerReturns
  <2>1. Holding /\ ~Holding' /\ current' = <<>> /\ shown' = shown \o current /\ dropped' = dropped /\ outbound' = outbound
    BY <1>3 DEF HandlerReturns, NextReply, Holding
  <2> QED BY <2>1, HandledStep
<1>4. CASE HandlerRaises
  <2>1. Holding /\ outbound' = outbound /\ shown' \in {shown, shown \o current}
    BY <1>4 DEF HandlerRaises, Holding
  <2>2. ToSet(current) = {current[1]}
    BY <2>1, OneHeld
  <2>3. \/ Holding' /\ UNCHANGED <<current, dropped>>
        \/ ~Holding' /\ current' = <<>> /\ dropped' = dropped \cup ToSet(current)
    BY <1>4, <2>2 DEF HandlerRaises, NextReply, Holding
  <2> QED BY <2>1, <2>3, HandledStep
<1> QED BY <1>1, <1>2, <1>3, <1>4 DEF DispatchStep

LEMMA TurnReplies ==
  ASSUME RepliesInv, PlaceInv, NEW u \in Nat, Turn(u)
  PROVE  RepliesInv'
<1> DEFINE n == Len(turns) + 1
<1>1. CASE UNCHANGED <<busVars, turns>>
  BY <1>1 DEF busVars, RepliesInv, Holding
<1>2. CASE /\ turns' = Append(turns, [message |-> u, conv |-> conv]) /\ outbound' = Append(outbound, n)
           /\ UNCHANGED <<dispatcher, current, shown, dropped>>
  <2>1. turns \in Seq([message : Nat, conv : Nat])
    BY Placed
  <2>2. DOMAIN turns' = DOMAIN turns \cup {n} /\ n \in Nat /\ \A i \in DOMAIN turns : i < n
    BY <1>2, <2>1, AppendSet
  <2>3. outbound \in Seq(Nat)
    BY DEF RepliesInv
  <2>4. /\ ToSet(outbound') = ToSet(outbound) \cup {n} /\ Len(outbound) \in Nat
        /\ DOMAIN outbound' = DOMAIN outbound \cup {Len(outbound) + 1} /\ outbound'[Len(outbound) + 1] = n
        /\ \A i \in DOMAIN outbound : outbound'[i] = outbound[i] /\ i \in Nat /\ i <= Len(outbound)
    BY <1>2, <2>3, AppendSet
  <2>5. outbound' \in Seq(Nat)
    BY <1>2, <2>2, <2>3
  <2> HIDE DEF n
  <2>6. \A y \in ToSet(outbound) \cup ToSet(shown) \cup ToSet(current) : y < n
    BY <2>2 DEF RepliesInv
  <2>7. \A i, j \in DOMAIN outbound' : i < j => outbound'[i] < outbound'[j]
    <3> DEFINE k == Len(outbound) + 1
    <3>1. /\ DOMAIN outbound' = DOMAIN outbound \cup {k} /\ outbound'[k] = n /\ k \in Nat
          /\ \A i \in DOMAIN outbound : outbound'[i] = outbound[i] /\ i \in Nat /\ i < k
      BY <2>4
    <3> HIDE DEF k
    <3> SUFFICES ASSUME NEW i \in DOMAIN outbound', NEW j \in DOMAIN outbound', i < j
                 PROVE  outbound'[i] < outbound'[j]
      OBVIOUS
    <3>2. i \in DOMAIN outbound
      BY <3>1
    <3>3. outbound[i] \in ToSet(outbound)
      BY <3>2 DEF ToSet
    <3>4. CASE j \in DOMAIN outbound
      BY <3>1, <3>2, <3>4 DEF RepliesInv
    <3>5. CASE j = k
      BY <2>6, <3>1, <3>2, <3>3, <3>5
    <3> QED BY <3>1, <3>4, <3>5
  <2>8. \A x \in ToSet(outbound'), y \in ToSet(shown') \cup ToSet(current') : y < x
    BY <1>2, <2>4, <2>6 DEF RepliesInv
  <2>9. DOMAIN turns' = ToSet(outbound') \cup ToSet(current') \cup ToSet(shown') \cup dropped'
    BY <1>2, <2>2, <2>4 DEF RepliesInv
  <2> QED BY <1>2, <2>5, <2>7, <2>8, <2>9 DEF RepliesInv, Holding
<1> QED BY <1>1, <1>2, TurnStep

LEMMA GoneReplies == RepliesInv /\ BusGone /\ UNCHANGED turns => RepliesInv'
<1> SUFFICES ASSUME RepliesInv, BusGone, UNCHANGED turns PROVE RepliesInv'
  OBVIOUS
<1>1. /\ outbound' = <<>> /\ current' = <<>> /\ ~Holding' /\ shown' = shown
      /\ dropped' = dropped \cup ToSet(outbound) \cup ToSet(current)
  BY DEF BusGone, ToSet, Holding
<1>2. ToSet(outbound') = {} /\ ToSet(current') = {} /\ DOMAIN outbound' = {} /\ Len(current') = 0
      /\ outbound' \in Seq(Nat) /\ current' \in Seq(Nat)
  BY <1>1 DEF ToSet
<1>3. DOMAIN turns' = ToSet(outbound') \cup ToSet(current') \cup ToSet(shown') \cup dropped'
  BY <1>1, <1>2 DEF RepliesInv
<1> QED BY <1>1, <1>2, <1>3 DEF RepliesInv

\* Before a process boots and after it has ended there is no dispatch task.
OffInv == main = "off" => dispatcher = "none"

LEMMA NextRepliesInv == RepliesInv /\ OffInv /\ PlaceInv /\ GatewayNext => RepliesInv' /\ OffInv'
<1> SUFFICES ASSUME RepliesInv, OffInv, PlaceInv, GatewayNext PROVE RepliesInv' /\ OffInv'
  OBVIOUS
<1>1. CASE TgTurn
  <2>1. Turn(Head(batch)) /\ Working /\ main' = "settle"
    BY <1>1 DEF TgTurn, Working
  <2> QED BY <2>1, AtWork, TurnReplies DEF OffInv
<1>2. CASE FsHandle
  <2>1. tasks # <<>> /\ (Turn(Head(tasks)) \/ UNCHANGED <<busVars, turns>>) /\ main' = main
    BY <1>2 DEF FsHandle, historyVars
  <2>2. Head(tasks) \in Nat
    BY <2>1, Placed, TailSet
  <2>3. UNCHANGED dispatcher
    BY <2>1, <2>2, TurnStep DEF busVars
  <2>4. ASSUME UNCHANGED <<busVars, turns>> PROVE RepliesInv'
    BY <2>4 DEF busVars, RepliesInv, Holding
  <2>5. ASSUME Turn(Head(tasks)) PROVE RepliesInv'
    BY <2>2, <2>5, TurnReplies
  <2>6. OffInv'
    BY <2>1, <2>3 DEF OffInv
  <2> QED BY <2>1, <2>4, <2>5, <2>6
<1>3. CASE Dispatch
  <2>1. DispatchStep /\ UNCHANGED <<turns, main>> /\ main # "off"
    BY <1>3 DEF Dispatch, gatewayVars
  <2> QED BY <2>1, DispatchReplies DEF OffInv
<1>4. CASE Gone
  <2>1. BusGone /\ UNCHANGED turns
    BY <1>4 DEF Gone
  <2> QED BY <2>1, GoneReplies DEF OffInv, BusGone
<1>5. CASE FsPortTaken
  <2>1. ~Holding /\ ~Holding' /\ main' = "closing" /\ UNCHANGED <<outbound, current, shown, dropped, turns>>
    BY <1>5 DEF FsPortTaken, OffInv, Holding, historyVars
  <2> QED BY <2>1 DEF RepliesInv, OffInv
<1>6. CASE /\ Start \/ Stop \/ UNCHANGED busVars
           /\ UNCHANGED turns /\ (main' # "off" \/ UNCHANGED <<dispatcher, main>>)
  <2>1. (Holding' <=> Holding) /\ UNCHANGED <<outbound, current, shown, dropped>>
    BY <1>6 DEF Start, Stop, busVars, Holding
  <2> QED BY <1>6, <2>1 DEF RepliesInv, OffInv
<1>7. \/ TgTurn \/ FsHandle \/ Dispatch \/ Gone \/ FsPortTaken
      \/ /\ Start \/ Stop \/ UNCHANGED busVars
         /\ UNCHANGED turns /\ (main' # "off" \/ UNCHANGED <<dispatcher, main>>)
  <2>1. CASE TgMain \/ TgCancel
    <3>1. main = "handle" => arrived[Head(batch)] \in {"chat", "new", "other"}
      <4>1. main = "handle" => arrived[Head(batch)] \in Kinds
        BY AtWork, Placed DEF Working
      <4> QED BY <4>1, GatewayAssumption
    <3> QED BY <2>1, <3>1 DEF TgMain, TgBoot, TgPoll, TgUpdates, TgPollRaises, TgAgain, TgHandle, TgConfirm, TgSettle, TgCancel,
                      busVars, historyVars
  <2>2. CASE FsMain \/ FsPortTaken \/ FsCallback \/ FsCancel
    BY <2>2 DEF FsMain, FsBoot, FsSleep, FsAgain, FsAccept, FsCallback, FsCancel, busVars, historyVars
  <2>3. CASE FlushWork \/ Dispatch \/ Closed \/ ToolEnqueues \/ Arrive \/ Kill
    BY <2>3 DEF FlushWork, Closed, ToolEnqueues, Arrive, UserSends, Kill, gatewayVars, busVars, historyVars
  <2> QED BY <2>1, <2>2, <2>3 DEF GatewayNext
<1> QED BY <1>1, <1>2, <1>3, <1>4, <1>5, <1>6, <1>7

-----------------------------------------------------------------------------
(* One turn for every message                                               *)

\* What was turned is behind the offset, unless its turn has just ended or the
\* process was killed then; what is behind the offset was worked on.
TgMessages ==
  /\ TurnOncePerMessage
  /\ \A i \in DOMAIN turns : \/ turns[i].message < offset \/ turns[i].message \in redone
                             \/ main = "settle" /\ turns[i].message = offset
  /\ \A u \in DOMAIN arrived :
       arrived[u] = "chat" /\ (u < offset \/ (main = "settle" /\ u = offset))
         => u \in Turned \cup failed \cup ToSet(tasks)
  /\ main = "confirm" => arrived[offset] # "chat"

\* A message event that was seen has had its turn, or its task waits, once.
FsMessages ==
  /\ \A i, j \in DOMAIN turns : turns[i].message = turns[j].message => i = j
  /\ Turned \cup ToSet(tasks) \subseteq seen /\ seen \subseteq DOMAIN arrived
  /\ Turned \cap ToSet(tasks) = {}
  /\ \A i, j \in DOMAIN tasks : tasks[i] = tasks[j] => i = j
  /\ \A u \in seen : arrived[u] = "chat" => u \in Turned \cup failed \cup ToSet(tasks)

MessagesInv == IF Telegram THEN TgMessages ELSE FsMessages

LEMMA TurnedNext ==
  ASSUME PlaceInv, NEW u \in Nat, turns' = Append(turns, [message |-> u, conv |-> conv])
  PROVE  /\ Turned' = Turned \cup {u}
         /\ \A i \in DOMAIN turns' : \/ i \in DOMAIN turns /\ turns'[i].message = turns[i].message
                                     \/ i = Len(turns) + 1 /\ turns'[i].message = u
<1> DEFINE turn == [message |-> u, conv |-> conv]
           n == Len(turns) + 1
<1>1. turn.message = u
  OBVIOUS
<1>2. turns \in Seq([message : Nat, conv : Nat])
  BY Placed
<1> HIDE DEF turn
<1>3. DOMAIN turns' = DOMAIN turns \cup {n} /\ turns'[n] = turn /\ \A i \in DOMAIN turns : turns'[i] = turns[i]
  BY <1>2, AppendSet DEF turn
<1> HIDE DEF n
<1>4. Turned' = Turned \cup {u}
  BY <1>1, <1>3 DEF Turned
<1> QED BY <1>1, <1>3, <1>4 DEF n

LEMMA TgStep == Telegram /\ PlaceInv /\ TgMessages /\ GatewayNext => TgMessages'
<1> SUFFICES ASSUME Telegram, PlaceInv, TgMessages, GatewayNext PROVE TgMessages'
  OBVIOUS
<1>1. CASE UserSends
  <2>1. PICK k \in Kinds : arrived' = Append(arrived, k)
    BY <1>1 DEF UserSends
  <2>2. UNCHANGED <<main, offset, tasks, turns, failed, redone>>
    BY <1>1 DEF UserSends, feishuVars, historyVars
  <2>3. arrived \in Seq(Kinds) /\ offset \in Nat /\ offset <= Len(arrived) + 1 /\ Len(arrived) \in Nat
    BY Placed
  <2>4. /\ DOMAIN arrived' = DOMAIN arrived \cup {Len(arrived) + 1} /\ \A u \in DOMAIN arrived : arrived'[u] = arrived[u]
    BY <2>1, <2>3
  <2>5. main \in {"settle", "confirm"} => offset \in DOMAIN arrived /\ offset # Len(arrived) + 1
    BY AtWork DEF Working
  <2>6. \A u \in DOMAIN arrived' : u < offset \/ (main = "settle" /\ u = offset) => u \in DOMAIN arrived
    BY <2>3, <2>4, <2>5
  <2> QED BY <2>2, <2>4, <2>5, <2>6 DEF TgMessages, TurnOncePerMessage, Turned
<1>2. CASE TgTurn
  <2>1. Turn(offset) /\ main' = "settle" /\ UNCHANGED <<arrived, offset, tasks>> /\ main = "turn" /\ offset \in Nat
    BY <1>2, AtWork DEF TgTurn, TgUnchanged, feishuVars, Working
  <2>2. CASE failed' = failed \cup {offset} /\ UNCHANGED <<turns, redone>>
    BY <2>1, <2>2, Placed DEF TgMessages, TurnOncePerMessage, Turned
  <2>3. CASE turns' = Append(turns, [message |-> offset, conv |-> conv]) /\ UNCHANGED <<failed, redone>>
    <3>1. /\ Turned' = Turned \cup {offset}
          /\ \A i \in DOMAIN turns' : \/ i \in DOMAIN turns /\ turns'[i].message = turns[i].message
                                      \/ i = Len(turns) + 1 /\ turns'[i].message = offset
      BY <2>1, <2>3, TurnedNext
    <3>2. \A i \in DOMAIN turns : turns[i].message < offset \/ turns[i].message \in redone
      BY <2>1 DEF TgMessages
    <3>3. \A i \in DOMAIN turns : turns[i].message = offset => offset \in redone
      BY <2>1, <3>2
    <3>4. TurnOncePerMessage'
      BY <2>3, <3>1, <3>3 DEF TgMessages, TurnOncePerMessage
    <3>5. \A i \in DOMAIN turns' : \/ turns'[i].message < offset' \/ turns'[i].message \in redone'
                                   \/ main' = "settle" /\ turns'[i].message = offset'
      BY <2>1, <2>3, <3>1, <3>2
    <3>6. \A u \in DOMAIN arrived' :
            arrived'[u] = "chat" /\ (u < offset' \/ (main' = "settle" /\ u = offset'))
              => u \in Turned' \cup failed' \cup ToSet(tasks')
      BY <2>1, <2>3, <3>1 DEF TgMessages
    <3> QED BY <2>1, <3>4, <3>5, <3>6 DEF TgMessages
  <2> QED BY <2>1, <2>2, <2>3, TurnStep
<1>3. CASE TgHandle
  <2>1. /\ main = "handle" /\ Head(batch) = offset /\ arrived[offset] \in Kinds /\ arrived[offset] \in {"chat", "new", "other"}
        /\ offset \in Nat
    BY <1>3, AtWork, Placed, GatewayAssumption DEF TgHandle, Working
  <2>2. UNCHANGED <<arrived, offset, tasks, turns, redone>>
    BY <1>3 DEF TgHandle, TgUnchanged, feishuVars
  <2>3. \/ main' = "confirm" /\ failed' = failed /\ arrived[offset] # "chat"
        \/ main' = "settle" /\ failed' = failed /\ arrived[offset] # "chat"
        \/ main' = "turn" /\ failed' = failed
        \/ main' = "settle" /\ failed' = failed \cup {offset}
    BY <1>3, <2>1 DEF TgHandle
  <2>4. \A i \in DOMAIN turns : turns[i].message < offset \/ turns[i].message \in redone
    BY <2>1 DEF TgMessages
  <2>5. \A u \in DOMAIN arrived : arrived[u] = "chat" /\ u < offset => u \in Turned \cup failed \cup ToSet(tasks)
    BY DEF TgMessages
  <2> QED BY <2>1, <2>2, <2>3, <2>4, <2>5 DEF TgMessages, TurnOncePerMessage, Turned
<1>4. CASE TgConfirm
  <2>1. main = "confirm" /\ main' = "settle" /\ UNCHANGED <<arrived, offset, tasks, turns, failed, redone>>
    BY <1>4 DEF TgConfirm, TgUnchanged, feishuVars, historyVars
  <2> QED BY <2>1 DEF TgMessages, TurnOncePerMessage, Turned
<1>5. ASSUME offset' = offset + 1, UNCHANGED <<arrived, tasks, turns, redone>>, main' \notin {"settle", "confirm"},
             \A u \in DOMAIN arrived : arrived[u] = "chat" /\ (u < offset \/ u = offset)
                => u \in Turned \cup failed' \cup ToSet(tasks)
      PROVE  TgMessages'
  <2>1. offset \in Nat /\ \A u \in DOMAIN arrived : u \in Nat
    BY Placed
  <2>2. \A i \in DOMAIN turns : turns[i].message \in Nat
    <3> DEFINE R == [message : Nat, conv : Nat]
    <3>1. turns \in Seq(R)
      BY Placed
    <3>2. \A r \in R : r.message \in Nat
      OBVIOUS
    <3> HIDE DEF R
    <3> QED BY <3>1, <3>2
  <2>3. \A u \in DOMAIN arrived : u < offset' => u < offset \/ u = offset
    BY <1>5, <2>1
  <2>4. \A i \in DOMAIN turns' : turns[i].message < offset' \/ turns[i].message \in redone
    BY <1>5, <2>1, <2>2 DEF TgMessages
  <2> QED BY <1>5, <2>3, <2>4 DEF TgMessages, TurnOncePerMessage, Turned
<1>6. CASE TgSettle
  <2>1. main = "settle" /\ offset' = offset + 1 /\ UNCHANGED <<arrived, tasks, turns, failed, redone>>
    BY <1>6, AtWork DEF TgSettle, OffsetAfter, TgUnchanged, feishuVars, historyVars, Working
  <2>2. main' \notin {"settle", "confirm"}
    BY <1>6 DEF TgSettle
  <2>3. \A u \in DOMAIN arrived : arrived[u] = "chat" /\ (u < offset \/ u = offset)
                => u \in Turned \cup failed \cup ToSet(tasks)
    BY <2>1 DEF TgMessages
  <2> QED BY <1>5, <2>1, <2>2, <2>3
<1>7. CASE TgCancel
  <2>1. main' = "closing" /\ UNCHANGED <<arrived, tasks, turns, redone>> /\ main # "settle"
    BY <1>7 DEF TgCancel, feishuVars
  <2>2. CASE main \notin {"handle", "confirm"}
    <3>1. offset' = offset /\ failed' = failed
      BY <1>7, <2>2 DEF TgCancel
    <3> QED BY <2>1, <3>1 DEF TgMessages, TurnOncePerMessage, Turned
  <2>3. CASE main \in {"handle", "confirm"}
    <3>1. offset' = offset + 1 /\ failed' = IF main = "handle" THEN failed \cup {offset} ELSE failed
      BY <1>7, <2>3, AtWork DEF TgCancel, OffsetAfter, Working
    <3>2. \A u \in DOMAIN arrived : arrived[u] = "chat" /\ (u < offset \/ u = offset)
                => u \in Turned \cup failed' \cup ToSet(tasks)
      BY <2>3, <3>1 DEF TgMessages
    <3> QED BY <1>5, <2>1, <3>1, <3>2
  <2> QED BY <2>2, <2>3
<1>8. CASE Gone /\ (main = "settle" => redone' = redone \cup {offset}) /\ redone \subseteq redone'
  <2>1. main' = "off" /\ UNCHANGED <<arrived, offset, turns>> /\ tasks' = <<>> /\ failed' = failed \cup ToSet(tasks)
    BY <1>8 DEF Gone
  <2>2. \A i \in DOMAIN turns : turns[i].message < offset \/ turns[i].message \in redone'
    BY <1>8 DEF TgMessages
  <2>3. TurnOncePerMessage'
    BY <1>8, <2>1 DEF TgMessages, TurnOncePerMessage
  <2> QED BY <2>1, <2>2, <2>3 DEF TgMessages, Turned
<1>9. CASE UNCHANGED <<arrived, offset, turns, failed, redone, tasks>> /\ (main' = main \/ {main, main'} \cap {"settle", "confirm"} = {})
  <2>1. TurnOncePerMessage' /\ Turned' = Turned
    BY <1>9 DEF TgMessages, TurnOncePerMessage, Turned
  <2>2. arrived' = arrived /\ offset' = offset /\ turns' = turns /\ failed' = failed /\ redone' = redone /\ tasks' = tasks
    BY <1>9
  <2>3. main' = "settle" <=> main = "settle"
    BY <1>9
  <2>4. main' = "confirm" => main = "confirm"
    BY <1>9
  <2>5. \A i \in DOMAIN turns : \/ turns[i].message < offset \/ turns[i].message \in redone
                                \/ main' = "settle" /\ turns[i].message = offset
    BY <2>3 DEF TgMessages
  <2> QED BY <2>1, <2>2, <2>3, <2>4, <2>5 DEF TgMessages
<1>10. \/ UserSends \/ TgTurn \/ TgHandle \/ TgConfirm \/ TgSettle \/ TgCancel
       \/ Gone /\ (main = "settle" => redone' = redone \cup {offset}) /\ redone \subseteq redone'
       \/ UNCHANGED <<arrived, offset, turns, failed, redone, tasks>> /\ (main' = main \/ {main, main'} \cap {"settle", "confirm"} = {})
  <2>1. CASE TgMain \/ TgCancel
    BY <2>1 DEF TgMain, TgBoot, TgPoll, TgUpdates, TgPollRaises, TgAgain, TgUnchanged, feishuVars, historyVars
  <2>2. ~(FsMain \/ FsPortTaken \/ FsCallback \/ FsCancel)
    BY DEF Telegram, Feishu, FsMain, FsBoot, FsSleep, FsAgain, FsAccept, FsHandle, FsPortTaken, FsCallback, FsCancel
  <2>3. CASE FlushWork \/ Dispatch \/ ToolEnqueues \/ Arrive
    BY <2>3 DEF FlushWork, Dispatch, ToolEnqueues, Arrive, gatewayVars
  <2>4. CASE Closed
    BY <2>4 DEF Closed
  <2>5. CASE Kill
    BY <2>5, AtWork DEF Kill, Working
  <2> QED BY <2>1, <2>2, <2>3, <2>4, <2>5 DEF GatewayNext
<1> QED BY <1>1, <1>2, <1>3, <1>4, <1>6, <1>7, <1>8, <1>9, <1>10

\* The tasks behind the first, and what a repetition in them would mean.
LEMMA DistinctTail ==
  ASSUME NEW S, NEW s \in Seq(S), s # <<>>, \A i, j \in DOMAIN s : s[i] = s[j] => i = j
  PROVE  /\ \A i, j \in DOMAIN Tail(s) : Tail(s)[i] = Tail(s)[j] => i = j
         /\ Head(s) \notin ToSet(Tail(s))
<1> DEFINE t == Tail(s)
<1>1. /\ \A i \in DOMAIN t : i \in Nat /\ i # 0 /\ i + 1 \in DOMAIN s /\ t[i] = s[i + 1]
      /\ Head(s) = s[1] /\ 1 \in DOMAIN s
  BY TailSet
<1> HIDE DEF t
<1>2. ASSUME NEW i \in DOMAIN t, NEW j \in DOMAIN t, t[i] = t[j] PROVE i = j
  <2>1. i + 1 = j + 1
    BY <1>1, <1>2
  <2> QED BY <1>1, <2>1
<1>3. ASSUME NEW i \in DOMAIN t PROVE t[i] # Head(s)
  <2>1. i + 1 # 1
    BY <1>1
  <2> QED BY <1>1, <2>1
<1> QED BY <1>2, <1>3 DEF ToSet, t

LEMMA DistinctAppend ==
  ASSUME NEW S, NEW s \in Seq(S), NEW x \in S, x \notin ToSet(s), \A i, j \in DOMAIN s : s[i] = s[j] => i = j
  PROVE  \A i, j \in DOMAIN Append(s, x) : Append(s, x)[i] = Append(s, x)[j] => i = j
<1> DEFINE t == Append(s, x)
           n == Len(s) + 1
<1>1. DOMAIN t = DOMAIN s \cup {n} /\ t[n] = x /\ \A i \in DOMAIN s : t[i] = s[i]
  BY AppendSet
<1>2. \A i \in DOMAIN s : s[i] # x
  BY DEF ToSet
<1> HIDE DEF t, n
<1>3. \A i, j \in DOMAIN t : t[i] = t[j] => i = j
  BY <1>1, <1>2
<1> QED BY <1>3 DEF t

LEMMA FsStep == Feishu /\ PlaceInv /\ FsMessages /\ GatewayNext => FsMessages'
<1> SUFFICES ASSUME Feishu, PlaceInv, FsMessages, GatewayNext PROVE FsMessages'
  OBVIOUS
<1>1. CASE UserSends
  <2>1. PICK k \in Kinds : arrived' = Append(arrived, k)
    BY <1>1 DEF UserSends
  <2>2. UNCHANGED <<seen, tasks, turns, failed>>
    BY <1>1 DEF UserSends, feishuVars, historyVars
  <2>3. DOMAIN arrived \subseteq DOMAIN arrived' /\ \A u \in DOMAIN arrived : arrived'[u] = arrived[u]
    BY <2>1, Placed
  <2> QED BY <2>2, <2>3 DEF FsMessages, Turned
<1>2. CASE FsAccept
  <2> DEFINE u == Head(calls)
  <2>1. /\ calls # <<>> /\ seen' = seen \cup {u} /\ UNCHANGED <<arrived, turns, failed>>
        /\ tasks' \in {IF u \in seen THEN tasks ELSE Append(tasks, u)} \cup (IF arrived[u] = "other" THEN {tasks} ELSE {})
    BY <1>2 DEF FsAccept, FsUnchanged, AlreadySeen, historyVars
  <2>2. u \in DOMAIN arrived /\ u \in Nat
    <3>1. calls \in Seq(Nat) /\ ToSet(calls) \subseteq DOMAIN arrived
      BY Placed
    <3> QED BY <2>1, <3>1, TailSet
  <2>3. tasks \in Seq(Nat)
    BY Placed
  <2> HIDE DEF u
  <2>4. CASE tasks' = tasks /\ (u \in seen \/ arrived[u] = "other")
    BY <2>1, <2>2, <2>4 DEF FsMessages, Turned
  <2>5. CASE tasks' = Append(tasks, u) /\ u \notin seen
    <3>1. ToSet(tasks') = ToSet(tasks) \cup {u}
      BY <2>2, <2>3, <2>5, AppendSet
    <3>2. u \notin ToSet(tasks) /\ u \notin Turned
      BY <2>5 DEF FsMessages
    <3>3. \A i, j \in DOMAIN tasks' : tasks'[i] = tasks'[j] => i = j
      <4>1. \A i, j \in DOMAIN tasks : tasks[i] = tasks[j] => i = j
        BY DEF FsMessages
      <4>2. \A i, j \in DOMAIN Append(tasks, u) : Append(tasks, u)[i] = Append(tasks, u)[j] => i = j
        BY <2>2, <2>3, <3>2, <4>1, DistinctAppend
      <4> QED BY <2>5, <4>2, Zenon
    <3>4. Turned' = Turned
      BY <2>1 DEF Turned
    <3> QED BY <2>1, <2>2, <3>1, <3>2, <3>3, <3>4 DEF FsMessages
  <2> QED BY <2>1, <2>4, <2>5
<1>3. CASE FsHandle
  <2> DEFINE u == Head(tasks)
  <2>1. /\ tasks # <<>> /\ tasks' = Tail(tasks) /\ UNCHANGED <<arrived, seen>>
        /\ \/ arrived[u] = "chat" /\ Turn(u)
           \/ arrived[u] # "chat" /\ UNCHANGED <<turns, failed>>
    BY <1>3 DEF FsHandle, FsUnchanged, historyVars
  <2>2. tasks \in Seq(Nat)
    BY Placed
  <2>3. u \in Nat /\ ToSet(tasks) = {u} \cup ToSet(tasks')
    BY <2>1, <2>2, TailSet
  <2>4. u \notin ToSet(tasks') /\ \A i, j \in DOMAIN tasks' : tasks'[i] = tasks'[j] => i = j
    <3>1. \A i, j \in DOMAIN tasks : tasks[i] = tasks[j] => i = j
      BY DEF FsMessages
    <3>2. /\ \A i, j \in DOMAIN Tail(tasks) : Tail(tasks)[i] = Tail(tasks)[j] => i = j
          /\ Head(tasks) \notin ToSet(Tail(tasks))
      BY <2>1, <2>2, <3>1, DistinctTail
    <3> QED BY <2>1, <3>2, Zenon
  <2>5. u \in seen /\ u \notin Turned
    BY <2>3 DEF FsMessages
  <2> HIDE DEF u
  <2>6. CASE UNCHANGED turns /\ ((arrived[u] # "chat" /\ failed' = failed) \/ failed' = failed \cup {u})
    <3>1. Turned' = Turned
      BY <2>6 DEF Turned
    <3> QED BY <2>1, <2>3, <2>4, <2>6, <3>1 DEF FsMessages
  <2>7. CASE turns' = Append(turns, [message |-> u, conv |-> conv]) /\ failed' = failed
    <3>1. /\ Turned' = Turned \cup {u}
          /\ \A i \in DOMAIN turns' : \/ i \in DOMAIN turns /\ turns'[i].message = turns[i].message
                                      \/ i = Len(turns) + 1 /\ turns'[i].message = u
      BY <2>3, <2>7, TurnedNext
    <3>2. \A i \in DOMAIN turns : turns[i].message # u
      BY <2>5 DEF Turned
    <3>3. \A i, j \in DOMAIN turns' : turns'[i].message = turns'[j].message => i = j
      BY <3>1, <3>2 DEF FsMessages
    <3> QED BY <2>1, <2>3, <2>4, <2>5, <2>7, <3>1, <3>3 DEF FsMessages
  <2>8. Turn(u) => \/ turns' = Append(turns, [message |-> u, conv |-> conv]) /\ failed' = failed
                   \/ UNCHANGED turns /\ failed' = failed \cup {u}
    BY <2>3, TurnStep
  <2> QED BY <2>1, <2>6, <2>7, <2>8
<1>4. CASE Gone
  <2>1. UNCHANGED <<arrived, seen, turns>> /\ tasks' = <<>> /\ failed' = failed \cup ToSet(tasks)
    BY <1>4 DEF Gone
  <2>2. ToSet(tasks') = {} /\ DOMAIN tasks' = {} /\ Turned' = Turned
    BY <2>1 DEF ToSet, Turned
  <2> QED BY <2>1, <2>2 DEF FsMessages
<1>5. CASE UNCHANGED <<arrived, seen, tasks, turns, failed>>
  BY <1>5 DEF FsMessages, Turned
<1>6. UserSends \/ FsAccept \/ FsHandle \/ Gone \/ UNCHANGED <<arrived, seen, tasks, turns, failed>>
  <2>1. ~(TgMain \/ TgCancel)
    BY DEF Telegram, Feishu, TgMain, TgBoot, TgPoll, TgUpdates, TgPollRaises, TgAgain, TgHandle, TgConfirm, TgTurn,
           TgSettle, TgCancel
  <2>2. CASE FsMain \/ FsPortTaken \/ FsCallback \/ FsCancel
    BY <2>2 DEF FsMain, FsBoot, FsSleep, FsAgain, FsPortTaken, FsCallback, FsCancel, FsUnchanged, feishuVars, historyVars
  <2>3. CASE FlushWork \/ Dispatch \/ Closed \/ ToolEnqueues \/ Arrive \/ Kill
    BY <2>3 DEF FlushWork, Dispatch, Closed, ToolEnqueues, Arrive, Kill, gatewayVars
  <2> QED BY <2>1, <2>2, <2>3 DEF GatewayNext
<1> QED BY <1>1, <1>2, <1>3, <1>4, <1>5, <1>6

-----------------------------------------------------------------------------
(* The gateways, whatever this process serves                               *)

RepliesKept == Telegram \/ Feishu => RepliesInv /\ OffInv

GatewayInv == PlaceInv /\ MessagesInv /\ OutboxInv /\ FlushOnly /\ RepliesKept

LEMMA InitGateway == Init => GatewayInv
<1> SUFFICES ASSUME BusInit, OutboxInit, GatewayInit PROVE GatewayInv
  BY DEF Init
<1>1. /\ outbound = <<>> /\ current = <<>> /\ shown = <<>> /\ dropped = {} /\ dispatcher = "none"
      /\ outbox = <<>> /\ toSend = <<>> /\ sending = "no" /\ arrivals = <<>>
      /\ main = "off" /\ arrived = <<>> /\ offset = 1 /\ batch = <<>> /\ seen = {} /\ calls = <<>> /\ tasks = <<>>
      /\ conv = 0 /\ turns = <<>> /\ failed = {}
  BY DEF BusInit, OutboxInit, GatewayInit
<1>2. ToSet(<<>>) = {} /\ Turned = {}
  BY <1>1 DEF ToSet, Turned
<1>3. PlaceInv
  BY <1>1, <1>2 DEF PlaceInv, Working
<1>4. MessagesInv
  BY <1>1, <1>2 DEF MessagesInv, TgMessages, FsMessages, TurnOncePerMessage
<1>5. OutboxInv /\ FlushOnly
  BY <1>1 DEF OutboxInv, OutboxRows, FlushInv, ArrivalsInv, OutboxTellsTruth, FlushOnly
<1>6. RepliesKept
  BY <1>1, <1>2 DEF RepliesKept, RepliesInv, OffInv, Holding
<1> QED BY <1>3, <1>4, <1>5, <1>6 DEF GatewayInv

LEMMA NextGateway == GatewayInv /\ [Next]_<<frontVars, channel>> => GatewayInv'
<1> SUFFICES ASSUME GatewayInv, [Next]_<<frontVars, channel>> PROVE GatewayInv'
  OBVIOUS
<1>1. channel' = channel /\ (Telegram' <=> Telegram) /\ (Feishu' <=> Feishu)
  BY DEF Next, Telegram, Feishu
<1>2. CASE GatewayNext /\ (Telegram \/ Feishu)
  <2>1. PlaceInv' /\ OutboxInv' /\ FlushOnly'
    BY <1>2, NextPlaceInv, NextOutboxInv DEF GatewayInv
  <2>2. RepliesKept'
    BY <1>1, <1>2, NextRepliesInv DEF GatewayInv, RepliesKept
  <2>3. MessagesInv'
    <3>1. ~(Telegram /\ Feishu)
      BY DEF Telegram, Feishu
    <3> QED BY <1>1, <1>2, <3>1, TgStep, FsStep DEF GatewayInv, MessagesInv
  <2> QED BY <2>1, <2>2, <2>3 DEF GatewayInv
<1>3. CASE UNCHANGED gateVars /\ (Telegram \/ Feishu => UNCHANGED busVars)
  <2>1. UNCHANGED <<outbox, toSend, sending, arrivals, doubtful>>
    BY <1>3 DEF gateVars, outboxVars
  <2>2. UNCHANGED <<main, arrived, offset, batch, seen, calls, tasks, conv, turns, failed, redone>>
    BY <1>3 DEF gateVars, gatewayVars
  <2>3. PlaceInv'
    BY <2>2 DEF GatewayInv, PlaceInv, Working
  <2>4. OutboxInv' /\ FlushOnly'
    BY <2>1, <2>2 DEF GatewayInv, OutboxInv, OutboxRows, FlushInv, ArrivalsInv, OutboxTellsTruth, Pending, FlushOnly
  <2>5. MessagesInv'
    BY <1>1, <2>2 DEF GatewayInv, MessagesInv, TgMessages, FsMessages, TurnOncePerMessage, Turned
  <2>6. RepliesKept'
    <3>1. CASE Telegram \/ Feishu
      <4>1. (Holding' <=> Holding) /\ UNCHANGED <<dispatcher, outbound, current, shown, dropped>>
        BY <1>3, <3>1 DEF busVars, Holding
      <4> QED BY <3>1, <4>1, <2>2 DEF GatewayInv, RepliesKept, RepliesInv, OffInv
    <3> QED BY <1>1, <3>1 DEF RepliesKept
  <2> QED BY <2>3, <2>4, <2>5, <2>6 DEF GatewayInv
<1>4. (GatewayNext /\ (Telegram \/ Feishu)) \/ (UNCHANGED gateVars /\ (Telegram \/ Feishu => UNCHANGED busVars))
  BY DEF Next, Telegram, Feishu, frontVars
<1> QED BY <1>2, <1>3, <1>4

LEMMA GatewayCorrect == Spec => []GatewayInv
BY InitGateway, NextGateway, PTL DEF Spec

\* A message of a user is answered by one turn, however often Feishu calls back
\* for it, Telegram hands it out, the process stops or a step of its batch raises
\* (only a kill between a turn and set_offset repeats it), and no chat message the
\* gateway counts as handled is without its turn unless its handling raised, was
\* cancelled or died with the process (gateway/telegram.py, gateway/feishu.py).
THEOREM MessagesHandledOnce == Spec => []EachMessageOneTurn
<1>1. GatewayInv => EachMessageOneTurn
  <2> SUFFICES ASSUME PlaceInv, MessagesInv PROVE TurnOncePerMessage /\ NoMessageSkipped
    BY DEF GatewayInv, EachMessageOneTurn
  <2>1. CASE Telegram
    BY <2>1 DEF MessagesInv, TgMessages, NoMessageSkipped
  <2>2. CASE ~Telegram
    BY <2>2 DEF MessagesInv, FsMessages, NoMessageSkipped, TurnOncePerMessage
  <2> QED BY <2>1, <2>2
<1> QED BY <1>1, GatewayCorrect, PTL

\* The reply of every turn is queued, being sent, shown or given up, and users see
\* replies in the order of the turns (bus/user_bus.py); the outbox tells of every
\* message of a tool what became of it (flush_outbox and the outbox tables).
THEOREM DeliveriesTold == Spec => []DeliveriesAreTrue
<1>1. GatewayInv => DeliveriesAreTrue
  <2>1. GatewayInv => OutboxTellsTruth
    BY DEF GatewayInv, OutboxInv
  <2>2. GatewayInv => RepliesAccounted
    BY DEF GatewayInv, RepliesKept, RepliesInv, RepliesAccounted
  <2> QED BY <2>1, <2>2 DEF DeliveriesAreTrue
<1> QED BY <1>1, GatewayCorrect, PTL

-----------------------------------------------------------------------------
(* The session cache of the web server                                      *)

\* A set of naturals with an upper bound has a greatest element.
Less == {p \in Nat \X Nat : p[1] < p[2]}

LEMMA LessIsWellFounded == IsWellFoundedOn(Less, Nat)
<1>1. OpToRel(<, Nat) = Less
  BY DEF OpToRel, Less
<1> QED BY <1>1, NatLessThanWellFounded

LEMMA MaxIs ==
  ASSUME NEW k \in Nat, NEW T \in SUBSET (0..k), T # {}
  PROVE  Max(T) \in T /\ \A n \in T : Max(T) >= n
<1> DEFINE U == {k - n : n \in T}
<1>1. U \subseteq Nat /\ U # {}
  <2>1. \A n \in T : n \in 0..k
    OBVIOUS
  <2>2. \A n \in 0..k : k - n \in Nat
    OBVIOUS
  <2> QED BY <2>1, <2>2
<1>2. \E x \in U : \A y \in U : ~(<<y, x>> \in Less)
  <2> HIDE DEF U
  <2> QED BY <1>1, LessIsWellFounded, WFMin
<1>3. PICK m \in T : \A n \in T : ~(<<k - n, k - m>> \in Less)
  BY <1>2
<1>4. \A n \in T : m >= n
  <2> SUFFICES ASSUME NEW n \in T PROVE m >= n
    OBVIOUS
  <2>1. m \in 0..k /\ n \in 0..k
    OBVIOUS
  <2>2. \A a, b \in Nat : a < b => <<a, b>> \in Less
    BY DEF Less
  <2>3. k - n \in Nat /\ k - m \in Nat /\ ~(<<k - n, k - m>> \in Less)
    BY <1>3, <2>1
  <2>4. ~(k - n < k - m)
    BY <2>2, <2>3
  <2> QED BY <2>1, <2>4
<1>5. Max(T) = CHOOSE x \in T : \A y \in T : x >= y
  BY DEF Max
<1> QED BY <1>3, <1>4, <1>5

Messages == Seq(SUBSET Asks)
Entry == [id : SessionIds, messages : Messages]
UniqueIds(c) == \A i, j \in DOMAIN c : c[i].id = c[j].id => i = j

LEMMA SubSet ==
  ASSUME NEW S, NEW s \in Seq(S), NEW m \in 1..Len(s) + 1, NEW n \in 0..Len(s)
  PROVE  /\ SubSeq(s, m, n) \in Seq(S) /\ ToSet(SubSeq(s, m, n)) \subseteq ToSet(s)
         /\ \A i \in DOMAIN SubSeq(s, m, n) : i \in Nat /\ m + i - 1 \in DOMAIN s /\ SubSeq(s, m, n)[i] = s[m + i - 1]
<1>1. \A i \in m..n : s[i] \in S
  OBVIOUS
<1>2. /\ SubSeq(s, m, n) \in Seq(S) /\ Len(SubSeq(s, m, n)) = (IF m <= n THEN n - m + 1 ELSE 0)
      /\ \A i \in 1..n - m + 1 : SubSeq(s, m, n)[i] = s[m + i - 1]
  BY <1>1, SubSeqProperties
<1> DEFINE t == SubSeq(s, m, n)
<1> HIDE DEF t
<1>3. \A i \in DOMAIN t : i \in Nat /\ m + i - 1 \in DOMAIN s /\ t[i] = s[m + i - 1]
  <2>1. t \in Seq(S) /\ DOMAIN t = 1..Len(t)
    BY <1>2 DEF t
  <2>2. \A i \in DOMAIN t : i \in 1..n - m + 1 /\ m <= n
    BY <1>2, <2>1 DEF t
  <2>3. \A i \in DOMAIN t : m + i - 1 \in 1..Len(s)
    BY <2>2
  <2> QED BY <1>2, <2>1, <2>2, <2>3 DEF t
<1>4. ToSet(t) \subseteq ToSet(s)
  BY <1>3 DEF ToSet
<1> QED BY <1>2, <1>3, <1>4 DEF t

LEMMA RemoveAtIs ==
  ASSUME NEW S, NEW c \in Seq(S), NEW k \in DOMAIN c
  PROVE  /\ RemoveAt(c, k) \in Seq(S) /\ DOMAIN RemoveAt(c, k) = 1..Len(c) - 1
         /\ \A j \in DOMAIN RemoveAt(c, k) : RemoveAt(c, k)[j] = IF j < k THEN c[j] ELSE c[j + 1]
<1> DEFINE a == SubSeq(c, 1, k - 1)
           b == SubSeq(c, k + 1, Len(c))
           r == a \o b
<1>1. Len(c) \in Nat /\ k \in 1..Len(c) /\ \A i \in 1..Len(c) : c[i] \in S
  OBVIOUS
<1>2. /\ a \in Seq(S) /\ Len(a) = k - 1
      /\ \A i \in 1..k - 1 : a[i] = c[i]
  <2>1. \A i \in 1..k - 1 : c[i] \in S
    BY <1>1
  <2>2. /\ a \in Seq(S) /\ Len(a) = (IF 1 <= k - 1 THEN (k - 1) - 1 + 1 ELSE 0)
        /\ \A i \in 1..(k - 1) - 1 + 1 : a[i] = c[1 + i - 1]
    BY <1>1, <2>1, SubSeqProperties
  <2>3. (k - 1) - 1 + 1 = k - 1 /\ \A i \in 1..k - 1 : 1 + i - 1 = i
    BY <1>1
  <2>4. (IF 1 <= k - 1 THEN (k - 1) - 1 + 1 ELSE 0) = k - 1
    BY <1>1
  <2> HIDE DEF a
  <2> QED BY <2>2, <2>3, <2>4
<1>3. /\ b \in Seq(S) /\ Len(b) = Len(c) - k
      /\ \A i \in 1..Len(c) - k : b[i] = c[k + i]
  <2>1. \A i \in k + 1..Len(c) : c[i] \in S
    BY <1>1
  <2>2. /\ b \in Seq(S) /\ Len(b) = (IF k + 1 <= Len(c) THEN Len(c) - (k + 1) + 1 ELSE 0)
        /\ \A i \in 1..Len(c) - (k + 1) + 1 : b[i] = c[(k + 1) + i - 1]
    BY <1>1, <2>1, SubSeqProperties
  <2> HIDE DEF b
  <2> QED BY <1>1, <2>2
<1> HIDE DEF a, b
<1>4. /\ r \in Seq(S) /\ Len(r) = Len(a) + Len(b)
      /\ \A i \in 1..Len(a) + Len(b) : r[i] = IF i <= Len(a) THEN a[i] ELSE b[i - Len(a)]
  BY <1>2, <1>3, ConcatProperties
<1> HIDE DEF r
<1>5. r \in Seq(S) /\ DOMAIN r = 1..Len(c) - 1
  BY <1>1, <1>2, <1>3, <1>4
<1>6. ASSUME NEW j \in 1..Len(c) - 1 PROVE r[j] = IF j < k THEN c[j] ELSE c[j + 1]
  <2>0. j \in 1..Len(a) + Len(b) /\ Len(a) = k - 1
    BY <1>1, <1>2, <1>3
  <2>1. r[j] = IF j <= k - 1 THEN a[j] ELSE b[j - (k - 1)]
    BY <1>4, <2>0
  <2>2. CASE j < k
    BY <1>1, <1>2, <2>1, <2>2
  <2>3. CASE ~(j < k)
    <3>1. j - (k - 1) \in 1..Len(c) - k /\ k + (j - (k - 1)) = j + 1
      BY <1>1, <2>3
    <3>2. ~(j <= k - 1)
      BY <1>1, <2>3
    <3>3. b[j - (k - 1)] = c[k + (j - (k - 1))]
      BY <1>3, <3>1
    <3>4. r[j] = b[j - (k - 1)]
      BY <2>1, <3>2
    <3> QED BY <2>3, <3>1, <3>3, <3>4
  <2> QED BY <2>2, <2>3
<1>7. RemoveAt(c, k) = r
  BY DEF RemoveAt, r, a, b
<1> QED BY <1>5, <1>6, <1>7

\* What leaves the cache, and what stays in it.
LEMMA WithoutIs ==
  ASSUME NEW c \in Seq(Entry), UniqueIds(c), NEW s
  PROVE  /\ Without(c, s) \in Seq(Entry) /\ UniqueIds(Without(c, s))
         /\ \A x \in ToSet(Without(c, s)) : x \in ToSet(c) /\ x.id # s
<1> DEFINE at == {i \in DOMAIN c : c[i].id = s}
<1>1. CASE at = {}
  <2>1. Without(c, s) = c
    BY <1>1 DEF Without
  <2> QED BY <1>1, <2>1 DEF ToSet
<1>2. CASE at # {}
  <2> DEFINE k == CHOOSE i \in at : TRUE
             r == RemoveAt(c, k)
             At(j) == IF j < k THEN j ELSE j + 1
  <2>1. k \in at
    BY <1>2
  <2>2. k \in 1..Len(c) /\ Len(c) \in Nat /\ c[k].id = s /\ k \in DOMAIN c /\ DOMAIN c = 1..Len(c)
    BY <2>1
  <2>3. Without(c, s) = r
    BY <1>2 DEF Without
  <2> HIDE DEF k
  <2>4. r \in Seq(Entry) /\ DOMAIN r = 1..Len(c) - 1 /\ \A j \in DOMAIN r : r[j] = IF j < k THEN c[j] ELSE c[j + 1]
    BY <2>2, RemoveAtIs
  <2> HIDE DEF r
  <2>5. \A j \in DOMAIN r : At(j) \in DOMAIN c /\ At(j) # k /\ r[j] = c[At(j)]
    BY <2>2, <2>4
  <2>6. \A i, j \in DOMAIN r : At(i) = At(j) => i = j
    BY <2>2, <2>4
  <2> HIDE DEF At
  <2>7. \A j \in DOMAIN r : r[j].id # s
    BY <2>2, <2>5 DEF UniqueIds
  <2>8. UniqueIds(r)
    BY <2>5, <2>6 DEF UniqueIds
  <2>9. \A x \in ToSet(r) : x \in ToSet(c) /\ x.id # s
    BY <2>5, <2>7 DEF ToSet
  <2> QED BY <2>3, <2>4, <2>8, <2>9
<1> QED BY <1>1, <1>2

LEMMA TouchedIs ==
  ASSUME cache \in Seq(Entry), UniqueIds(cache), NEW s \in SessionIds, NEW m \in Messages
  PROVE  /\ Touched(s, m) \in Seq(Entry) /\ UniqueIds(Touched(s, m))
         /\ \A x \in ToSet(Touched(s, m)) : \/ x.id = s /\ x.messages = m
                                            \/ x \in ToSet(cache) /\ x.id # s
<1> DEFINE w == Without(cache, s)
           e == [id |-> s, messages |-> m]
           a == Append(w, e)
           t == EvictIfNeeded(a)
<1>1. w \in Seq(Entry) /\ UniqueIds(w) /\ \A x \in ToSet(w) : x \in ToSet(cache) /\ x.id # s
  BY WithoutIs
<1>2. e \in Entry /\ e.id = s /\ e.messages = m
  BY DEF Entry
<1>3. Touched(s, m) = t
  BY DEF Touched
<1> HIDE DEF w, e
<1>4. /\ a \in Seq(Entry) /\ ToSet(a) = ToSet(w) \cup {e}
      /\ DOMAIN a = DOMAIN w \cup {Len(w) + 1} /\ a[Len(w) + 1] = e /\ \A i \in DOMAIN w : a[i] = w[i]
  BY <1>1, <1>2, AppendSet
<1>5. UniqueIds(a)
  <2>1. \A i \in DOMAIN w : w[i] \in ToSet(w)
    BY DEF ToSet
  <2> DEFINE n == Len(w) + 1
  <2>2. DOMAIN a = DOMAIN w \cup {n} /\ a[n] = e /\ \A i \in DOMAIN w : a[i] = w[i]
    BY <1>4
  <2> HIDE DEF n, a
  <2>3. \A i \in DOMAIN w : a[i].id # s
    BY <1>1, <2>1, <2>2
  <2> QED BY <1>1, <1>2, <2>2, <2>3 DEF UniqueIds
<1> HIDE DEF a
<1>6. CASE t = a
  BY <1>1, <1>2, <1>3, <1>4, <1>5, <1>6
<1>7. CASE t = SubSeq(a, Len(a) - MaxSessions + 1, Len(a)) /\ Len(a) > MaxSessions
  <2> DEFINE n == Len(a) - MaxSessions + 1
  <2>1. n \in 1..Len(a) + 1 /\ Len(a) \in 0..Len(a) /\ n \in Nat
    BY <1>4, <1>7, SessionsAssumption
  <2>2. t = SubSeq(a, n, Len(a))
    BY <1>7
  <2> HIDE DEF t, n
  <2>3. /\ t \in Seq(Entry) /\ ToSet(t) \subseteq ToSet(a)
        /\ \A i \in DOMAIN t : i \in Nat /\ n + i - 1 \in DOMAIN a /\ t[i] = a[n + i - 1]
    <3> PICK l \in 0..Len(a) : l = Len(a)
      BY <2>1
    <3>1. /\ SubSeq(a, n, l) \in Seq(Entry) /\ ToSet(SubSeq(a, n, l)) \subseteq ToSet(a)
          /\ \A i \in DOMAIN SubSeq(a, n, l) : i \in Nat /\ n + i - 1 \in DOMAIN a /\ SubSeq(a, n, l)[i] = a[n + i - 1]
      BY <1>4, <2>1, SubSet
    <3>2. t = SubSeq(a, n, l)
      BY <2>2
    <3> QED BY <3>1, <3>2
  <2>4. UniqueIds(t)
    <3> SUFFICES ASSUME NEW i \in DOMAIN t, NEW j \in DOMAIN t, t[i].id = t[j].id PROVE i = j
      BY DEF UniqueIds
    <3>1. n + i - 1 = n + j - 1
      BY <1>5, <2>3 DEF UniqueIds
    <3>2. n \in Nat /\ i \in Nat /\ j \in Nat
      BY <2>1, <2>3
    <3> QED BY <3>1, <3>2
  <2> QED BY <1>1, <1>2, <1>3, <1>4, <2>3, <2>4
<1> QED BY <1>6, <1>7 DEF EvictIfNeeded

\* save_session leaves in the table what the session object holds.
LEMMA RowsAre ==
  ASSUME NEW old \in Messages, NEW new \in Messages
  PROVE  RowsAfter(old, new) = new
<1> DEFINE T == {n \in 0..Len(new) : n <= Len(old) /\ SubSeq(old, 1, n) = SubSeq(new, 1, n)}
           same == Max(T)
<1>1. Len(old) \in Nat /\ Len(new) \in Nat
  BY DEF Messages
<1>2. SubSeq(old, 1, 0) = <<>> /\ SubSeq(new, 1, 0) = <<>>
  BY SubSeqEmpty
<1>3. 0 \in T /\ T \in SUBSET (0..Len(new))
  BY <1>1, <1>2
<1>4. same \in T
  <2> HIDE DEF T
  <2> QED BY <1>1, <1>3, MaxIs
<1>5. RowsAfter(old, new) = SubSeq(old, 1, same) \o SubSeq(new, same + 1, Len(new))
  BY DEF RowsAfter
<1> HIDE DEF same
<1>6. same \in 0..Len(new) /\ SubSeq(old, 1, same) = SubSeq(new, 1, same)
  BY <1>4
<1>7. SubSeq(new, 1, same) \o SubSeq(new, same + 1, Len(new)) = SubSeq(new, 1, Len(new))
  <2>1. 1 \in 1..Len(new) + 1 /\ same \in 1 - 1..Len(new) /\ Len(new) \in same..Len(new)
    BY <1>1, <1>6
  <2> QED BY <2>1, ConcatAdjacentSubSeq DEF Messages
<1>8. SubSeq(new, 1, Len(new)) = new
  BY SubSeqFull DEF Messages
<1> QED BY <1>5, <1>6, <1>7, <1>8

LEMMA LoadedIs ==
  ASSUME cache \in Seq(Entry), stored \in [SessionIds -> Messages], NEW s \in SessionIds
  PROVE  /\ Loaded(s) \in Messages
         /\ Loaded(s) = stored[s] \/ \E x \in ToSet(cache) : x.id = s /\ Loaded(s) = x.messages
<1>1. CASE Cached(s)
  <2>1. \E x \in ToSet(cache) : x.id = s
    BY <1>1 DEF Cached, ToSet
  <2> DEFINE x == CHOOSE x \in ToSet(cache) : x.id = s
  <2>2. x \in ToSet(cache) /\ x.id = s /\ Loaded(s) = x.messages
    BY <1>1, <2>1 DEF Loaded
  <2>3. \A y \in ToSet(cache) : y \in Entry
    BY DEF ToSet
  <2> HIDE DEF x
  <2>4. x.messages \in Messages
    BY <2>2, <2>3 DEF Entry
  <2> QED BY <2>2, <2>4
<1>2. CASE ~Cached(s)
  BY <1>2 DEF Loaded
<1> QED BY <1>1, <1>2

-----------------------------------------------------------------------------
(* The web server's chat: locks, stages, replies and what sessions remember *)

About(s) == {a \in Asks : session[a] = s}
Reply == [chat : SessionIds, reply : Asks]

ChatTypes ==
  /\ service \in {"none", "starting", "up", "failed"}
  /\ http \in [Requests -> {"idle", "checked", "direct", "starting", "waiting", "reply", "deleted", "error"}]
  /\ session \in [Requests -> SessionIds] /\ task \in [Requests -> {"none", "queued", "lock", "reply", "done"}]
  /\ locks \in [SessionIds -> Seq(Requests)]
  /\ pending \in [SessionIds -> Asks \cup {No}] /\ result \in [Asks -> Asks \cup {No}]
  /\ busy \in Asks \cup {No} /\ object \in Messages /\ removed \subseteq Asks
  /\ cache \in Seq(Entry) /\ UniqueIds(cache) /\ stored \in [SessionIds -> Messages]
  /\ outbound \in Seq(Reply) /\ current \in Seq(Reply)
  /\ Len(current) = (IF dispatcher = "handling" THEN 1 ELSE 0)
  /\ dispatcher \in {"none", "created", "waiting", "handling", "ended"}

\* Who asked for a session's lock waits or works for that session, once; only who
\* holds it waits for a reply or is in its turn.
LocksInv ==
  /\ \A s \in SessionIds : \A i, j \in DOMAIN locks[s] : locks[s][i] = locks[s][j] => i = j
  /\ \A s \in SessionIds : \A r \in ToSet(locks[s]) : session[r] = s /\ task[r] \in {"lock", "reply"}
  /\ \A r \in Requests : task[r] = "reply" => r \in Asks /\ Holds(r)
  /\ busy # No => task[busy] = "lock" /\ Holds(busy) /\ pending[session[busy]] = busy

StagesInv ==
  /\ \A r \in Requests : task[r] # "none" => http[r] \in {"waiting", "reply", "deleted", "error"}
  /\ service # "up" => cache = <<>> /\ busy = No
  /\ busy # No => dispatcher # "handling"

\* A message that tells of an ask, whoever holds it.
Told(a) == \/ a \in removed \/ a \in Tells(object)
           \/ \E s \in SessionIds : a \in Remembered(s)
           \/ \E x \in ToSet(cache) : a \in Tells(x.messages)

\* An ask whose turn has not ended has no reply, and nothing tells of it.
FreshInv == \A a \in Asks : http[a] \in {"idle", "starting"} \/ task[a] \in {"queued", "lock"} => result[a] = No /\ ~Told(a)

\* While the dispatcher may still hand it out, a reply is that of an ask that waits
\* for it, holds the lock of its chat and is the one its chat's future belongs to.
Live(x) == task[x.reply] = "reply" /\ x.chat = session[x.reply] /\ pending[x.chat] = x.reply /\ result[x.reply] = No
QueueIsLive == /\ \A x \in ToSet(current) \cup ToSet(outbound) : Live(x)
               /\ \A i, j \in DOMAIN outbound : outbound[i].reply = outbound[j].reply => i = j
               /\ \A x \in ToSet(current), y \in ToSet(outbound) : x.reply # y.reply
ResultsInv == OwnReply /\ \A a \in Asks : result[a] \in {No, a}
QueueInv == ResultsInv /\ (dispatcher # "ended" => QueueIsLive)

\* Cached objects, and the one a turn holds, know what the tables know of their session.
Knows == /\ \A s \in SessionIds : Remembered(s) \subseteq About(s)
         /\ \A x \in ToSet(cache) : Tells(x.messages) \subseteq About(x.id) /\ Remembered(x.id) \subseteq Tells(x.messages)
         /\ busy # No => Tells(object) \subseteq About(session[busy]) /\ Remembered(session[busy]) \subseteq Tells(object)
RepliedInv == \A a \in Asks : task[a] = "reply" \/ http[a] = "reply" => a \in Remembered(session[a]) \cup removed
StoredInv == Knows /\ RepliedInv

DeletedInv ==
  \A s \in SessionIds \ raced :
    /\ Remembered(s) \cap removed = {}
    /\ \A x \in ToSet(cache) : x.id = s => Tells(x.messages) \cap removed = {}
    /\ busy # No /\ session[busy] = s => Tells(object) \cap removed = {}

ChatInv == ChatTypes /\ LocksInv /\ StagesInv /\ FreshInv /\ QueueInv /\ StoredInv /\ DeletedInv

LEMMA Typed ==
  ASSUME ChatTypes
  PROVE  /\ session \in [Requests -> SessionIds] /\ Asks \subseteq Requests /\ No \notin Requests
         /\ \A s \in SessionIds : locks[s] \in Seq(Requests) /\ pending[s] \in Asks \cup {No} /\ stored[s] \in Messages
         /\ busy \in Asks \cup {No} /\ (busy # No => busy \in Asks /\ busy \in Requests /\ session[busy] \in SessionIds)
         /\ object \in Messages /\ cache \in Seq(Entry) /\ UniqueIds(cache) /\ stored \in [SessionIds -> Messages]
         /\ outbound \in Seq(Reply) /\ current \in Seq(Reply)
BY WebAssumption DEF ChatTypes, Requests

LEMMA ReplyHeld ==
  ASSUME ChatTypes, dispatcher = "handling"
  PROVE  current[1] \in Reply /\ current[1].chat \in SessionIds /\ current[1].reply \in Asks /\ ToSet(current) = {current[1]}
<1>1. current \in Seq(Reply) /\ Len(current) = 1
  BY DEF ChatTypes
<1> DEFINE x == current[1]
<1>2. x \in Reply /\ DOMAIN current = {1}
  BY <1>1
<1>3. ToSet(current) = {x}
  BY <1>2 DEF ToSet
<1> HIDE DEF x
<1>4. x.chat \in SessionIds /\ x.reply \in Asks
  BY <1>2 DEF Reply
<1> QED BY <1>2, <1>3, <1>4 DEF x

LEMMA NoneHeldNow == ASSUME ChatTypes, dispatcher # "handling" PROVE current = <<>> /\ ToSet(current) = {}
<1>1. current \in Seq(Reply) /\ Len(current) = 0
  BY DEF ChatTypes
<1>2. current = <<>>
  BY <1>1
<1> QED BY <1>2 DEF ToSet

\* What the compacted or the grown object of a turn tells of.
LEMMA MessagesNow ==
  ASSUME NEW m \in Messages, NEW a \in Asks
  PROVE  /\ Append(m, {a}) \in Messages /\ Tells(Append(m, {a})) = Tells(m) \cup {a}
         /\ <<Tells(m) \cup {a}>> \in Messages /\ Tells(<<Tells(m) \cup {a}>>) = Tells(m) \cup {a}
         /\ Tells(<<>>) = {} /\ <<>> \in Messages
<1>1. m \in Seq(SUBSET Asks) /\ {a} \in SUBSET Asks
  BY DEF Messages
<1>2. Append(m, {a}) \in Messages
  BY <1>1 DEF Messages
<1>3. ToSet(Append(m, {a})) = ToSet(m) \cup {{a}}
  <2>1. ASSUME NEW e \in SUBSET Asks PROVE ToSet(Append(m, e)) = ToSet(m) \cup {e}
    BY <1>1, AppendSet
  <2> QED BY <1>1, <2>1, Zenon
<1>4. Tells(m) \subseteq Asks
  BY <1>1 DEF Tells, ToSet
<1> DEFINE all == Tells(m) \cup {a}
<1>5. all \in SUBSET Asks
  BY <1>4
<1>6. Tells(Append(m, {a})) = all
  BY <1>3 DEF Tells
<1> HIDE DEF all
<1>7. <<all>> \in Messages /\ ToSet(<<all>>) = {all}
  BY <1>5 DEF Messages, ToSet
<1>8. Tells(<<all>>) = all
  BY <1>7 DEF Tells
<1>9. Tells(<<>>) = {} /\ <<>> \in Messages
  BY DEF Tells, ToSet, Messages
<1> QED BY <1>2, <1>6, <1>7, <1>8, <1>9 DEF all

LEMMA TurnSaves ==
  ASSUME EndTurn
  PROVE  \E new : /\ new = <<Tells(object) \cup {busy}>> \/ new = Append(object, {busy})
                  /\ cache' = Touched(session[busy], new)
                  /\ stored' = [stored EXCEPT ![session[busy]] = RowsAfter(stored[session[busy]], new)]
<1> DEFINE one == <<Tells(object) \cup {busy}>>
           more == Append(object, {busy})
<1>1. \E new \in {one, more} : Save(session[busy], new)
  BY DEF EndTurn
<1> HIDE DEF one, more
<1>2. PICK new : (new = one \/ new = more) /\ Save(session[busy], new)
  BY <1>1
<1> QED BY <1>2 DEF Save, one, more

LEMMA NextChatTypes == ChatTypes /\ LocksInv /\ WebNext => ChatTypes'
<1> SUFFICES ASSUME ChatTypes, LocksInv, WebNext PROVE ChatTypes'
  OBVIOUS
<1> USE DEF sessionVars, webVars, threadVars, historyWeb, busVars
<1>1. ASSUME NEW r \in Requests, EnsureStarted(r) \/ StartTimesOut(r) \/ Submit(r) \/ GivesUp(r) PROVE ChatTypes'
  <2>1. UNCHANGED <<session, locks, pending, result, busy, object, removed, cache, stored, outbound, current, dispatcher>>
    BY <1>1 DEF EnsureStarted, StartTimesOut, Submit, GivesUp
  <2>2. /\ service' \in {"none", "starting", "up", "failed"}
        /\ \E x \in {"error", "starting", "waiting"} : http' = [http EXCEPT ![r] = x]
        /\ task' = task \/ task' = [task EXCEPT ![r] = "queued"]
    BY <1>1 DEF EnsureStarted, StartTimesOut, Submit, GivesUp, ChatTypes
  <2> QED BY <2>1, <2>2 DEF ChatTypes
<1>2. ASSUME NEW d \in Dels, CheckRuntime(d) \/ DeleteDirect(d) PROVE ChatTypes'
  <2>0. d \in Requests
    BY DEF Requests
  <2>1. UNCHANGED <<service, session, task, locks, pending, result, busy, object, cache, outbound, current, dispatcher>>
    BY <1>2 DEF CheckRuntime, DeleteDirect, DeleteStored
  <2>2. \E x \in {"direct", "checked", "deleted"} : http' = [http EXCEPT ![d] = x]
    BY <1>2 DEF CheckRuntime, DeleteDirect
  <2>3. stored' = stored \/ stored' = [stored EXCEPT ![session[d]] = <<>>]
    BY <1>2 DEF CheckRuntime, DeleteDirect, DeleteStored
  <2>4. <<>> \in Messages /\ session[d] \in SessionIds
    BY <2>0, Typed DEF Messages
  <2>5. stored' \in [SessionIds -> Messages]
    BY <2>3, <2>4, Typed
  <2>6. Remembered(session[d]) \subseteq Asks
    <3>1. stored[session[d]] \in Seq(SUBSET Asks)
      BY <2>4, Typed DEF Messages
    <3> QED BY <3>1 DEF Remembered, Tells, ToSet
  <2>7. removed' \subseteq Asks
    BY <1>2, <2>6 DEF CheckRuntime, DeleteDirect, ChatTypes
  <2> QED BY <2>0, <2>1, <2>2, <2>5, <2>7 DEF ChatTypes
<1>3. ASSUME NEW s \in SessionIds, OpenChild(s) PROVE ChatTypes'
  <2>1. UNCHANGED <<service, http, session, task, locks, pending, result, busy, object, removed, stored, outbound, current, dispatcher>>
        /\ cache' = Touched(s, stored[s])
    BY <1>3 DEF OpenChild
  <2>2. cache' \in Seq(Entry) /\ UniqueIds(cache')
    BY <2>1, Typed, TouchedIs
  <2> QED BY <2>1, <2>2 DEF ChatTypes
<1>4. ASSUME NEW r \in Requests, Enter(r) PROVE ChatTypes'
  <2>1. UNCHANGED <<service, http, session, pending, result, busy, object, removed, cache, stored, outbound, current, dispatcher>>
        /\ task' = [task EXCEPT ![r] = "lock"]
    BY <1>4 DEF Enter
  <2>2. locks' \in [SessionIds -> Seq(Requests)]
    <3>1. locks' = [locks EXCEPT ![session[r]] = Append(locks[session[r]], r)]
      BY <1>4 DEF Enter
    <3>2. Append(locks[session[r]], r) \in Seq(Requests)
      BY Typed
    <3> QED BY <3>1, <3>2 DEF ChatTypes
  <2> QED BY <2>1, <2>2 DEF ChatTypes
<1>5. ASSUME NEW a \in Requests, BeginTurn(a) PROVE ChatTypes'
  <2>1. /\ UNCHANGED <<service, http, session, task, locks, result, removed, stored, outbound, current, dispatcher>>
        /\ a \in Asks /\ busy' = a /\ object' = Loaded(session[a]) /\ cache' = Touched(session[a], Loaded(session[a]))
        /\ pending' = [pending EXCEPT ![session[a]] = a]
    BY <1>5 DEF BeginTurn
  <2>2. session[a] \in SessionIds
    BY Typed
  <2>3. Loaded(session[a]) \in Messages
    BY <2>2, Typed, LoadedIs
  <2>4. cache' \in Seq(Entry) /\ UniqueIds(cache')
    BY <2>1, <2>2, <2>3, Typed, TouchedIs
  <2> QED BY <2>1, <2>2, <2>3, <2>4 DEF ChatTypes
<1>6. ASSUME NEW r \in Requests, Release(r), locks[session[r]] # <<>> PROVE locks' \in [SessionIds -> Seq(Requests)]
  <2>1. locks' = [locks EXCEPT ![session[r]] = Tail(locks[session[r]])]
    BY <1>6 DEF Release
  <2>2. Tail(locks[session[r]]) \in Seq(Requests)
    BY <1>6, Typed
  <2> QED BY <2>1, <2>2 DEF ChatTypes
<1>7. ASSUME NEW r \in Requests, NEW x \in {"error", "reply", "deleted"}, Finish(r, x)
      PROVE  http' \in [Requests -> {"idle", "checked", "direct", "starting", "waiting", "reply", "deleted", "error"}]
  BY <1>7 DEF Finish, ChatTypes
<1>8. ASSUME NEW d \in Requests, DeleteInLoop(d) PROVE ChatTypes'
  <2>1. /\ UNCHANGED <<service, session, pending, result, busy, object, outbound, current, dispatcher>>
        /\ stored' = [stored EXCEPT ![session[d]] = <<>>] /\ cache' = Without(cache, session[d])
        /\ removed' = removed \cup Remembered(session[d]) \cup Tells(Loaded(session[d]))
        /\ task' = [task EXCEPT ![d] = "done"] /\ Release(d) /\ Finish(d, "deleted") /\ locks[session[d]] # <<>>
    BY <1>8 DEF DeleteInLoop, Delete, Holds
  <2>2. session[d] \in SessionIds /\ <<>> \in Messages
    BY Typed DEF Messages
  <2>3. cache' \in Seq(Entry) /\ UniqueIds(cache')
    BY <2>1, Typed, WithoutIs
  <2>4. removed' \subseteq Asks
    <3>1. Loaded(session[d]) \in Seq(SUBSET Asks) /\ stored[session[d]] \in Seq(SUBSET Asks)
      BY <2>2, Typed, LoadedIs DEF Messages
    <3>2. Tells(Loaded(session[d])) \subseteq Asks /\ Remembered(session[d]) \subseteq Asks
      BY <3>1 DEF Remembered, Tells, ToSet
    <3> QED BY <2>1, <3>2 DEF ChatTypes
  <2>5. stored' \in [SessionIds -> Messages] /\ task' \in [Requests -> {"none", "queued", "lock", "reply", "done"}]
    BY <2>1, <2>2 DEF ChatTypes
  <2> QED BY <1>6, <1>7, <2>1, <2>3, <2>4, <2>5 DEF ChatTypes
<1>9. ASSUME NEW a \in Asks, AskReturns(a) \/ ReplyTimesOut(a), locks[session[a]] # <<>> PROVE ChatTypes'
  <2>0. a \in Requests
    BY Typed
  <2>1. /\ UNCHANGED <<service, session, result, busy, object, outbound, current, dispatcher, cache, stored, removed>>
        /\ task' = [task EXCEPT ![a] = "done"] /\ Release(a) /\ (Finish(a, "reply") \/ Finish(a, "error"))
        /\ pending' = [pending EXCEPT ![session[a]] = No]
    BY <1>9 DEF AskReturns, ReplyTimesOut
  <2>2. locks' \in [SessionIds -> Seq(Requests)]
    BY <1>6, <1>9, <2>0, <2>1
  <2>3. http' \in [Requests -> {"idle", "checked", "direct", "starting", "waiting", "reply", "deleted", "error"}]
    BY <1>7, <2>0, <2>1
  <2> QED BY <2>0, <2>1, <2>2, <2>3 DEF ChatTypes
<1>10. CASE EndTurn
  <2> DEFINE s == session[busy]
  <2>1. /\ UNCHANGED <<service, http, session, locks, pending, result, removed, current, dispatcher>>
        /\ outbound' = Append(outbound, [chat |-> s, reply |-> busy]) /\ busy # No
        /\ task' = [task EXCEPT ![busy] = "reply"] /\ busy' = No /\ object' = <<>>
    BY <1>10 DEF EndTurn
  <2>2. busy \in Asks /\ busy \in Requests /\ s \in SessionIds /\ object \in Messages
    BY <2>1, Typed
  <2>3. PICK new : (new = <<Tells(object) \cup {busy}>> \/ new = Append(object, {busy})) 
                    /\ cache' = Touched(s, new) /\ stored' = [stored EXCEPT ![s] = RowsAfter(stored[s], new)]
    BY <1>10, TurnSaves
  <2>4. new \in Messages
    BY <2>2, <2>3, MessagesNow
  <2>5. cache' = Touched(s, new) /\ stored' = [stored EXCEPT ![s] = RowsAfter(stored[s], new)]
    BY <2>3
  <2>6. cache' \in Seq(Entry) /\ UniqueIds(cache')
    BY <2>2, <2>4, <2>5, Typed, TouchedIs
  <2>7. stored' \in [SessionIds -> Messages]
    BY <2>2, <2>4, <2>5, Typed, RowsAre
  <2>8. outbound' \in Seq(Reply)
    <3> DEFINE x == [chat |-> s, reply |-> busy]
    <3>1. x \in Reply
      BY <2>2 DEF Reply
    <3>2. outbound' = Append(outbound, x)
      BY <2>1
    <3> HIDE DEF x
    <3> QED BY <3>1, <3>2, Typed
  <2>9. <<>> \in Messages
    BY DEF Messages
  <2> QED BY <2>1, <2>2, <2>6, <2>7, <2>8, <2>9 DEF ChatTypes
<1>11. ASSUME FailTurn, locks[session[busy]] # <<>> PROVE ChatTypes'
  <2>1. /\ UNCHANGED <<service, session, result, outbound, current, dispatcher, stored, removed>>
        /\ task' = [task EXCEPT ![busy] = "done"] /\ Release(busy) /\ Finish(busy, "error") /\ busy # No
        /\ pending' = [pending EXCEPT ![session[busy]] = No] /\ busy' = No /\ object' = <<>>
        /\ cache' = cache \/ cache' = Touched(session[busy], Append(object, {busy}))
    BY <1>11 DEF FailTurn
  <2>2. busy \in Asks /\ busy \in Requests /\ session[busy] \in SessionIds /\ object \in Messages
    BY <2>1, Typed
  <2>3. Append(object, {busy}) \in Messages /\ <<>> \in Messages
    BY <2>2, MessagesNow
  <2>4. cache' \in Seq(Entry) /\ UniqueIds(cache')
    BY <2>1, <2>2, <2>3, Typed, TouchedIs
  <2>5. locks' \in [SessionIds -> Seq(Requests)]
    BY <1>6, <1>11, <2>1, <2>2
  <2>6. http' \in [Requests -> {"idle", "checked", "direct", "starting", "waiting", "reply", "deleted", "error"}]
    BY <1>7, <2>1, <2>2
  <2> QED BY <2>1, <2>2, <2>3, <2>4, <2>5, <2>6 DEF ChatTypes
<1>12. CASE HandleOutbound
  <2>1. /\ UNCHANGED <<service, http, session, locks, task, busy, object, removed, cache, stored, outbound>>
        /\ current' = <<>> /\ dispatcher' \in {"waiting", "ended"} /\ dispatcher = "handling"
        /\ pending' = [pending EXCEPT ![current[1].chat] = No]
    BY <1>12 DEF HandleOutbound, NextReply
  <2>2. result' = result \/ result' = [result EXCEPT ![pending[current[1].chat]] = current[1].reply]
    BY <1>12 DEF HandleOutbound
  <2>3. current[1].chat \in SessionIds /\ current[1].reply \in Asks
    BY <2>1, ReplyHeld
  <2>4. result' \in [Asks -> Asks \cup {No}] /\ pending' \in [SessionIds -> Asks \cup {No}]
    BY <2>1, <2>2, <2>3 DEF ChatTypes
  <2> QED BY <2>1, <2>4 DEF ChatTypes
<1>13. CASE WebDispatch
  <2>1. UNCHANGED <<service, http, session, task, locks, pending, result, busy, object, removed, cache, stored>>
    BY <1>13 DEF WebDispatch
  <2>2. CASE DispatchTake
    <3>1. outbound # <<>> /\ current' = <<Head(outbound)>> /\ outbound' = Tail(outbound) /\ dispatcher' = "handling"
      BY <2>2 DEF DispatchTake
    <3>2. Head(outbound) \in Reply /\ Tail(outbound) \in Seq(Reply)
      BY <3>1, Typed, TailSet
    <3> DEFINE x == Head(outbound)
               t == Tail(outbound)
    <3> HIDE DEF x, t
    <3>3. x \in Reply /\ t \in Seq(Reply) /\ current' = <<x>> /\ outbound' = t
      BY <3>1, <3>2 DEF x, t
    <3>4. current' \in Seq(Reply) /\ Len(current') = 1
      BY <3>3
    <3> QED BY <2>1, <3>1, <3>3, <3>4 DEF ChatTypes
  <2>3. CASE DispatchBegin \/ DispatchNotices
    BY <2>1, <2>3 DEF DispatchBegin, DispatchNotices, ChatTypes
  <2> QED BY <1>13, <2>2, <2>3 DEF WebDispatch
<1>14. CASE StartRuntime \/ WebStop
  <2>1. UNCHANGED <<http, session, task, locks, pending, result, busy, object, removed, cache, stored, outbound, current>>
    BY <1>14 DEF StartRuntime, WebStop, Start, Stop
  <2>2. \/ dispatcher = "none" /\ dispatcher' = "created"
        \/ dispatcher' = dispatcher
    BY <1>14 DEF StartRuntime, WebStop, Start, Stop
  <2>3. service' = service \/ service' \in {"up", "failed"}
    BY <1>14 DEF StartRuntime, WebStop
  <2> QED BY <2>1, <2>2, <2>3 DEF ChatTypes
<1>15. CASE WebClosed
  <2>1. /\ UNCHANGED <<session, result, removed, stored>> /\ service' = "none" /\ cache' = <<>>
        /\ http' = [r \in Requests |-> IF http[r] \in {"idle", "reply", "deleted", "error"} THEN http[r] ELSE "error"]
        /\ locks' = [s \in SessionIds |-> <<>>] /\ task' = [r \in Requests |-> "none"]
        /\ pending' = [s \in SessionIds |-> No] /\ busy' = No /\ object' = <<>>
        /\ outbound' = <<>> /\ current' = <<>> /\ dispatcher' = "none"
    BY <1>15 DEF WebClosed, BusGone
  <2>2. <<>> \in Messages /\ <<>> \in Seq(Entry) /\ UniqueIds(<<>>) /\ <<>> \in Seq(Reply) /\ <<>> \in Seq(Requests) /\ Len(<<>>) = 0
    BY DEF Messages, UniqueIds
  <2>3. UniqueIds(cache')
    BY <2>1, <2>2
  <2>4. http' \in [Requests -> {"idle", "checked", "direct", "starting", "waiting", "reply", "deleted", "error"}]
    BY <2>1
  <2> QED BY <2>1, <2>2, <2>3, <2>4 DEF ChatTypes
<1>16. ASSUME NEW a \in Asks, AskReturns(a) \/ ReplyTimesOut(a) PROVE ChatTypes'
  <2>1. locks[session[a]] # <<>>
    BY <1>16, Typed DEF AskReturns, ReplyTimesOut, LocksInv, Holds
  <2> QED BY <1>9, <1>16, <2>1
<1>17. CASE FailTurn
  <2>1. locks[session[busy]] # <<>>
    BY <1>17 DEF FailTurn, LocksInv, Holds
  <2> QED BY <1>11, <1>17, <2>1
<1> QED BY <1>1, <1>2, <1>3, <1>4, <1>5, <1>8, <1>10, <1>12, <1>13, <1>14, <1>15, <1>16, <1>17 DEF WebNext, LoopStep

\* A request is done: it gives its lock to who waits next.
LEMMA DoneLocks ==
  ASSUME ChatTypes, LocksInv, NEW r \in Requests, Holds(r), Release(r), task' = [task EXCEPT ![r] = "done"], session' = session,
         busy' = No
  PROVE  LocksInv'
<1> DEFINE s == session[r]
           l == locks[s]
<1>1. s \in SessionIds /\ l \in Seq(Requests) /\ l # <<>> /\ Head(l) = r /\ locks' = [locks EXCEPT ![s] = Tail(l)]
  BY Typed DEF Holds, Release
<1>2. \A i, j \in DOMAIN l : l[i] = l[j] => i = j
  BY <1>1 DEF LocksInv
<1>3. /\ \A i, j \in DOMAIN Tail(l) : Tail(l)[i] = Tail(l)[j] => i = j
      /\ r \notin ToSet(Tail(l))
  BY <1>1, <1>2, DistinctTail
<1>4. ToSet(l) = {r} \cup ToSet(Tail(l))
  BY <1>1, TailSet
<1> DEFINE rest == Tail(l)
<1>5. locks'[s] = rest /\ \A z \in SessionIds : z # s => locks'[z] = locks[z]
  BY <1>1 DEF ChatTypes
<1>6. task'[r] = "done" /\ \A x \in Requests : x # r => task'[x] = task[x]
  BY DEF ChatTypes
<1>7. ToSet(l) = {r} \cup ToSet(rest) /\ r \notin ToSet(rest) /\ \A i, j \in DOMAIN rest : rest[i] = rest[j] => i = j
  BY <1>3, <1>4
<1> HIDE DEF rest
<1>8. \A z \in SessionIds : \A x \in ToSet(locks'[z]) : x \in ToSet(locks[z]) /\ x # r
  <2> SUFFICES ASSUME NEW z \in SessionIds, NEW x \in ToSet(locks'[z]) PROVE x \in ToSet(locks[z]) /\ x # r
    OBVIOUS
  <2>1. CASE z = s
    BY <1>5, <1>7, <2>1
  <2>2. CASE z # s
    BY <1>5, <2>2 DEF LocksInv
  <2> QED BY <2>1, <2>2
<1>9. \A z \in SessionIds : ToSet(locks[z]) \subseteq Requests
  BY Typed DEF ToSet
<1>10. \A z \in SessionIds : \A x \in ToSet(locks'[z]) : session[x] = z /\ task'[x] \in {"lock", "reply"}
  BY <1>6, <1>8, <1>9 DEF LocksInv
<1>11. \A z \in SessionIds : \A i, j \in DOMAIN locks'[z] : locks'[z][i] = locks'[z][j] => i = j
  BY <1>5, <1>7 DEF LocksInv
<1>12. ASSUME NEW x \in Requests, task'[x] = "reply" PROVE x \in Asks /\ Holds(x)'
  <2>1. x # r /\ task[x] = "reply"
    BY <1>6, <1>12
  <2>2. x \in Asks /\ Holds(x)
    BY <2>1 DEF LocksInv
  <2>3. session[x] # s /\ session[x] \in SessionIds
    BY <1>1, <2>1, <2>2, Typed DEF Holds
  <2> QED BY <1>5, <2>2, <2>3 DEF Holds
<1> QED BY <1>10, <1>11, <1>12 DEF LocksInv

LEMMA NextLocks == ChatTypes /\ LocksInv /\ StagesInv /\ WebNext => LocksInv'
<1> SUFFICES ASSUME ChatTypes, LocksInv, StagesInv, WebNext PROVE LocksInv'
  OBVIOUS
<1> USE DEF sessionVars, webVars, threadVars, historyWeb, busVars
<1>1. CASE UNCHANGED <<locks, task, session, busy>> /\ (busy # No => pending' = pending)
  <2>1. \A r : Holds(r)' <=> Holds(r)
    BY <1>1 DEF Holds
  <2> QED BY <1>1, <2>1 DEF LocksInv
<1>2. ASSUME NEW r \in Requests, task[r] = "none", task' = [task EXCEPT ![r] = "queued"], UNCHANGED <<locks, session, busy, pending>>
      PROVE  LocksInv'
  <2>1. task'[r] = "queued" /\ \A x \in Requests : x # r => task'[x] = task[x]
    BY <1>2 DEF ChatTypes
  <2>2. \A s \in SessionIds : ToSet(locks[s]) \subseteq Requests
    BY Typed DEF ToSet
  <2>3. \A x : Holds(x)' <=> Holds(x)
    BY <1>2 DEF Holds
  <2>4. busy # No => busy \in Requests /\ busy # r
    BY <1>2, Typed DEF LocksInv
  <2> QED BY <1>2, <2>1, <2>2, <2>3, <2>4 DEF LocksInv
<1>3. ASSUME NEW r \in Requests, Enter(r) PROVE LocksInv'
  <2> DEFINE s == session[r]
             l == locks[s]
             more == Append(l, r)
  <2>1. /\ task[r] = "queued" /\ task' = [task EXCEPT ![r] = "lock"] /\ locks' = [locks EXCEPT ![s] = more]
        /\ UNCHANGED <<session, busy, pending>> /\ s \in SessionIds /\ l \in Seq(Requests) /\ busy = No
    BY <1>3, Typed DEF Enter, LoopFree
  <2>2. r \notin ToSet(l) /\ \A i, j \in DOMAIN l : l[i] = l[j] => i = j
    BY <2>1 DEF LocksInv
  <2>3. ToSet(more) = ToSet(l) \cup {r} /\ \A i, j \in DOMAIN more : more[i] = more[j] => i = j
    <3>1. l \in Seq(Requests)
      BY <2>1
    <3> HIDE DEF l
    <3>2. ToSet(more) = ToSet(l) \cup {r}
      BY <3>1, AppendSet
    <3>3. \A i, j \in DOMAIN more : more[i] = more[j] => i = j
      BY <2>2, <3>1, DistinctAppend
    <3> QED BY <3>2, <3>3
  <2>4. more # <<>> /\ (l # <<>> => Head(more) = Head(l))
    <3>1. l \in Seq(Requests)
      BY <2>1
    <3> HIDE DEF l
    <3>2. more # <<>> /\ Head(more) = more[1]
      BY <3>1
    <3>3. l # <<>> => Head(l) = l[1] /\ more[1] = l[1]
      BY <3>1
    <3> QED BY <3>2, <3>3
  <2> HIDE DEF more
  <2>5. locks'[s] = more /\ \A z \in SessionIds : z # s => locks'[z] = locks[z]
    BY <2>1 DEF ChatTypes
  <2>6. task'[r] = "lock" /\ \A x \in Requests : x # r => task'[x] = task[x]
    BY <2>1 DEF ChatTypes
  <2>7. \A z \in SessionIds : ToSet(locks[z]) \subseteq Requests
    BY Typed DEF ToSet
  <2>8. \A z \in SessionIds : \A i, j \in DOMAIN locks'[z] : locks'[z][i] = locks'[z][j] => i = j
    BY <2>3, <2>5 DEF LocksInv
  <2>9. \A z \in SessionIds : \A x \in ToSet(locks'[z]) : session[x] = z /\ task'[x] \in {"lock", "reply"}
    BY <2>1, <2>3, <2>5, <2>6, <2>7 DEF LocksInv
  <2>10. ASSUME NEW x \in Requests, task'[x] = "reply" PROVE x \in Asks /\ Holds(x)'
    <3>1. x # r /\ x \in Asks /\ Holds(x) /\ session[x] \in SessionIds
      BY <2>1, <2>6, <2>10, Typed DEF LocksInv
    <3> QED BY <2>1, <2>4, <2>5, <3>1 DEF Holds
  <2> QED BY <2>1, <2>8, <2>9, <2>10 DEF LocksInv
<1>4. ASSUME NEW a \in Requests, BeginTurn(a) PROVE LocksInv'
  <2>1. /\ UNCHANGED <<locks, session, task>> /\ Holds(a) /\ task[a] = "lock" /\ a \in Asks /\ busy' = a
        /\ pending' = [pending EXCEPT ![session[a]] = a] /\ session[a] \in SessionIds
    BY <1>4, Typed DEF BeginTurn
  <2>2. \A r : Holds(r)' <=> Holds(r)
    BY <2>1 DEF Holds
  <2>3. pending'[session[a]] = a
    BY <2>1 DEF ChatTypes
  <2> QED BY <2>1, <2>2, <2>3 DEF LocksInv
<1>5. CASE EndTurn
  <2>1. /\ UNCHANGED <<locks, session, pending>> /\ task' = [task EXCEPT ![busy] = "reply"] /\ busy # No /\ busy' = No
        /\ busy \in Asks /\ busy \in Requests
    BY <1>5, Typed DEF EndTurn
  <2>2. \A r : Holds(r)' <=> Holds(r)
    BY <2>1 DEF Holds
  <2>3. task'[busy] = "reply" /\ \A x \in Requests : x # busy => task'[x] = task[x]
    BY <2>1 DEF ChatTypes
  <2>4. \A z \in SessionIds : ToSet(locks[z]) \subseteq Requests
    BY Typed DEF ToSet
  <2>5. \A z \in SessionIds : \A x \in ToSet(locks[z]) : session[x] = z /\ task'[x] \in {"lock", "reply"}
    BY <2>3, <2>4 DEF LocksInv
  <2>6. \A x \in Requests : task'[x] = "reply" => x \in Asks /\ Holds(x)
    BY <2>1, <2>3 DEF LocksInv
  <2> QED BY <2>1, <2>2, <2>5, <2>6 DEF LocksInv
<1>6. ASSUME NEW r \in Requests, DeleteInLoop(r) \/ (r \in Asks /\ (AskReturns(r) \/ ReplyTimesOut(r))) PROVE LocksInv'
  <2>1. Holds(r)
    BY <1>6 DEF DeleteInLoop, AskReturns, ReplyTimesOut, LocksInv
  <2>2. Release(r) /\ task' = [task EXCEPT ![r] = "done"] /\ session' = session /\ busy' = No
    BY <1>6 DEF DeleteInLoop, AskReturns, ReplyTimesOut, LoopFree
  <2> QED BY <2>1, <2>2, DoneLocks
<1>7. CASE FailTurn
  <2>1. Holds(busy) /\ Release(busy) /\ task' = [task EXCEPT ![busy] = "done"] /\ session' = session /\ busy' = No /\ busy \in Requests
    BY <1>7, Typed DEF FailTurn, LocksInv
  <2> QED BY <2>1, DoneLocks
<1>8. CASE WebClosed
  <2>1. locks' = [s \in SessionIds |-> <<>>] /\ task' = [r \in Requests |-> "none"] /\ busy' = No
    BY <1>8 DEF WebClosed
  <2>2. ToSet(<<>>) = {}
    BY DEF ToSet
  <2> QED BY <2>1, <2>2 DEF LocksInv
<1>9. ASSUME NEW r \in Requests, EnsureStarted(r) \/ StartTimesOut(r) \/ Submit(r) \/ GivesUp(r) PROVE LocksInv'
  <2>1. CASE Submit(r) /\ service = "up"
    <3>1. task[r] = "none"
      BY <2>1 DEF Submit, StagesInv
    <3> QED BY <1>2, <2>1, <3>1 DEF Submit
  <2>2. CASE ~(Submit(r) /\ service = "up")
    BY <1>1, <1>9, <2>2 DEF EnsureStarted, StartTimesOut, Submit, GivesUp
  <2> QED BY <2>1, <2>2
<1>10. CASE \/ \E d \in Dels : CheckRuntime(d) \/ DeleteDirect(d)
            \/ \E s \in SessionIds : OpenChild(s)
            \/ HandleOutbound \/ WebDispatch \/ StartRuntime \/ WebStop
  BY <1>1, <1>10 DEF CheckRuntime, DeleteDirect, OpenChild, HandleOutbound, WebDispatch, StartRuntime, WebStop, StagesInv
<1> QED BY <1>3, <1>4, <1>5, <1>6, <1>7, <1>8, <1>9, <1>10, Typed DEF WebNext, LoopStep

LEMMA NextStages == ChatTypes /\ LocksInv /\ StagesInv /\ WebNext => StagesInv'
<1> SUFFICES ASSUME ChatTypes, LocksInv, StagesInv, WebNext PROVE StagesInv'
  OBVIOUS
<1> USE DEF sessionVars, webVars, threadVars, historyWeb, busVars
<1> DEFINE Late == {"waiting", "reply", "deleted", "error"}
           Stage(r) == task[r] # "none" => http[r] \in Late
<1>1. ASSUME NEW r \in Requests, EnsureStarted(r) \/ StartTimesOut(r) \/ Submit(r) \/ GivesUp(r) PROVE StagesInv'
  <2>1. UNCHANGED <<cache, busy, dispatcher>> /\ (service' = service \/ service = "none")
    BY <1>1 DEF EnsureStarted, StartTimesOut, Submit, GivesUp
  <2>2. \A x \in Requests : task'[x] # "none" => http'[x] \in Late
    BY <1>1 DEF EnsureStarted, StartTimesOut, Submit, GivesUp, ChatTypes, StagesInv
  <2> QED BY <2>1, <2>2 DEF StagesInv
<1>2. ASSUME NEW d \in Dels, CheckRuntime(d) \/ DeleteDirect(d) PROVE StagesInv'
  <2>1. UNCHANGED <<cache, busy, dispatcher, service, task>> /\ d \in Requests
    BY <1>2 DEF CheckRuntime, DeleteDirect, DeleteStored, Requests
  <2>2. \A x \in Requests : task'[x] # "none" => http'[x] \in Late
    BY <1>2, <2>1 DEF CheckRuntime, DeleteDirect, ChatTypes, StagesInv
  <2> QED BY <2>1, <2>2 DEF StagesInv
<1>3. ASSUME NEW r \in Requests, task[r] # "none", NEW v, task' = [task EXCEPT ![r] = v],
             http' = http \/ \E x \in {"error", "reply", "deleted"} : Finish(r, x)
      PROVE  \A x \in Requests : task'[x] # "none" => http'[x] \in Late
  BY <1>3 DEF Finish, ChatTypes, StagesInv
<1>4. ASSUME NEW r \in Requests, Enter(r) \/ BeginTurn(r) \/ DeleteInLoop(r) \/ (r \in Asks /\ (AskReturns(r) \/ ReplyTimesOut(r)))
      PROVE  StagesInv'
  <2>1. service' = service /\ service = "up" /\ dispatcher' = dispatcher /\ dispatcher # "handling"
    BY <1>4 DEF Enter, BeginTurn, DeleteInLoop, AskReturns, ReplyTimesOut, LoopFree
  <2>2. task[r] # "none" /\ \/ task' = task /\ http' = http
                            \/ /\ \E v : task' = [task EXCEPT ![r] = v]
                               /\ http' = http \/ \E x \in {"error", "reply", "deleted"} : Finish(r, x)
    BY <1>4 DEF Enter, BeginTurn, DeleteInLoop, AskReturns, ReplyTimesOut
  <2>3. \A x \in Requests : task'[x] # "none" => http'[x] \in Late
    BY <1>3, <2>2 DEF StagesInv
  <2> QED BY <2>1, <2>3 DEF StagesInv
<1>5. CASE EndTurn \/ FailTurn
  <2>1. busy # No /\ busy' = No /\ service' = service /\ dispatcher' = dispatcher /\ busy \in Requests /\ service = "up"
    BY <1>5, Typed DEF EndTurn, FailTurn, StagesInv
  <2>2. task[busy] # "none" /\ \E v : task' = [task EXCEPT ![busy] = v]
    BY <1>5, <2>1 DEF EndTurn, FailTurn, LocksInv
  <2>3. http' = http \/ \E x \in {"error", "reply", "deleted"} : Finish(busy, x)
    BY <1>5 DEF EndTurn, FailTurn
  <2>4. \A x \in Requests : task'[x] # "none" => http'[x] \in Late
    BY <1>3, <2>1, <2>2, <2>3
  <2> QED BY <2>1, <2>4 DEF StagesInv
<1>6. CASE (\E s \in SessionIds : OpenChild(s)) \/ HandleOutbound \/ WebDispatch \/ StartRuntime \/ WebStop
  <2>1. UNCHANGED <<http, task, busy>>
    BY <1>6 DEF OpenChild, HandleOutbound, WebDispatch, StartRuntime, WebStop
  <2>2. (service' # "up" => cache' = <<>> /\ busy' = No) /\ (busy' # No => dispatcher' # "handling")
    BY <1>6 DEF OpenChild, HandleOutbound, NextReply, WebDispatch, StartRuntime, Start, WebStop, Stop, StagesInv
  <2> QED BY <2>1, <2>2 DEF StagesInv
<1>7. CASE WebClosed
  <2>1. cache' = <<>> /\ busy' = No /\ task' = [r \in Requests |-> "none"]
    BY <1>7 DEF WebClosed
  <2> QED BY <2>1 DEF StagesInv
<1> QED BY <1>1, <1>2, <1>4, <1>5, <1>6, <1>7, Typed DEF WebNext, LoopStep

-----------------------------------------------------------------------------
(* What sessions remember                                                   *)

\* Without is Touched without the touch: an object of the cache is gone.
LEMMA Loads ==
  ASSUME ChatTypes, NEW s \in SessionIds
  PROVE  /\ Loaded(s) \in Messages
         /\ Tells(Loaded(s)) = Remembered(s) \/ \E x \in ToSet(cache) : x.id = s /\ Tells(Loaded(s)) = Tells(x.messages)
BY Typed, LoadedIs DEF Remembered

\* After a step, whatever tells of an ask did so before, or the turn that ended was its own.
LEMMA ToldBefore ==
  ASSUME ChatTypes, LocksInv, WebNext, NEW a \in Asks, Told(a)'
  PROVE  Told(a) \/ (a = busy /\ (EndTurn \/ FailTurn))
<1> USE DEF sessionVars, webVars, threadVars, historyWeb, busVars
<1>1. CASE UNCHANGED <<stored, cache, object, removed>>
  BY <1>1 DEF Told, Remembered
<1>2. ASSUME NEW d \in Dels, DeleteDirect(d) PROVE Told(a)
  <2>1. /\ UNCHANGED <<cache, object>> /\ removed' = removed \cup Remembered(session[d])
        /\ stored' = [stored EXCEPT ![session[d]] = <<>>] /\ session[d] \in SessionIds
    BY <1>2, Typed DEF DeleteDirect, DeleteStored, Requests
  <2>2. \A s \in SessionIds : a \in Remembered(s)' => a \in Remembered(s)
    <3>1. Tells(<<>>) = {}
      BY MessagesNow, Typed
    <3> QED BY <2>1, <3>1 DEF Remembered, ChatTypes
  <2> QED BY <2>1, <2>2 DEF Told
<1>3. ASSUME NEW s \in SessionIds, OpenChild(s) PROVE Told(a)
  <2>1. UNCHANGED <<stored, object, removed>> /\ cache' = Touched(s, stored[s]) /\ stored[s] \in Messages
    BY <1>3, Typed DEF OpenChild
  <2>2. \A x \in ToSet(cache') : x.messages = stored[s] \/ x \in ToSet(cache)
    BY <2>1, Typed, TouchedIs
  <2>3. \A x \in ToSet(cache') : a \in Tells(x.messages) => a \in Remembered(s) \/ \E y \in ToSet(cache) : a \in Tells(y.messages)
    BY <2>2 DEF Remembered
  <2> QED BY <2>1, <2>3 DEF Told, Remembered
<1>4. ASSUME NEW b \in Requests, BeginTurn(b) PROVE Told(a)
  <2> DEFINE s == session[b]
  <2>1. UNCHANGED <<stored, removed>> /\ object' = Loaded(s) /\ cache' = Touched(s, Loaded(s)) /\ s \in SessionIds
    BY <1>4, Typed DEF BeginTurn
  <2>2. \A x \in ToSet(cache') : x.messages = Loaded(s) \/ x \in ToSet(cache)
    BY <2>1, Loads, Typed, TouchedIs
  <2>3. a \in Tells(Loaded(s)) => Told(a)
    BY <2>1, Loads DEF Told
  <2> QED BY <2>1, <2>2, <2>3 DEF Told, Remembered
<1>5. ASSUME EndTurn, a # busy PROVE Told(a)
  <2> DEFINE s == session[busy]
  <2>1. busy # No /\ UNCHANGED removed /\ object' = <<>>
    BY <1>5 DEF EndTurn
  <2>2. busy \in Asks /\ s \in SessionIds /\ object \in Messages
    BY <2>1, Typed
  <2>3. PICK new : (new = <<Tells(object) \cup {busy}>> \/ new = Append(object, {busy}))
                    /\ cache' = Touched(s, new) /\ stored' = [stored EXCEPT ![s] = RowsAfter(stored[s], new)]
    BY <1>5, TurnSaves
  <2>4. new \in Messages /\ Tells(new) = Tells(object) \cup {busy} /\ Tells(<<>>) = {}
    <3>1. /\ Append(object, {busy}) \in Messages /\ Tells(Append(object, {busy})) = Tells(object) \cup {busy}
          /\ <<Tells(object) \cup {busy}>> \in Messages /\ Tells(<<Tells(object) \cup {busy}>>) = Tells(object) \cup {busy}
          /\ Tells(<<>>) = {}
      BY <2>2, MessagesNow, Zenon
    <3> QED BY <2>3, <3>1, Zenon
  <2>5. \A x \in ToSet(cache') : x.messages = new \/ x \in ToSet(cache)
    BY <2>2, <2>3, <2>4, Typed, TouchedIs
  <2>6. stored' = [stored EXCEPT ![s] = new]
    BY <2>2, <2>3, <2>4, Typed, RowsAre
  <2>7. \A z \in SessionIds : a \in Remembered(z)' => a \in Remembered(z) \/ a \in Tells(new)
    BY <2>2, <2>6 DEF Remembered, ChatTypes
  <2>8. a \in Tells(new) => Told(a)
    BY <1>5, <2>4 DEF Told
  <2> QED BY <2>1, <2>4, <2>5, <2>7, <2>8 DEF Told
<1>6. ASSUME FailTurn, a # busy PROVE Told(a)
  <2> DEFINE s == session[busy]
             new == Append(object, {busy})
  <2>1. busy # No /\ UNCHANGED <<stored, removed>> /\ object' = <<>> /\ (cache' = cache \/ cache' = Touched(s, new))
    BY <1>6 DEF FailTurn
  <2>2. busy \in Asks /\ s \in SessionIds /\ object \in Messages
    BY <2>1, Typed
  <2>3. new \in Messages /\ Tells(new) = Tells(object) \cup {busy} /\ Tells(<<>>) = {}
    BY <2>2, MessagesNow
  <2> HIDE DEF new
  <2>4. \A x \in ToSet(cache') : x.messages = new \/ x \in ToSet(cache)
    BY <2>1, <2>2, <2>3, Typed, TouchedIs
  <2>5. a \in Tells(new) => Told(a)
    BY <1>6, <2>3 DEF Told
  <2> QED BY <2>1, <2>3, <2>4, <2>5 DEF Told, Remembered
<1>7. ASSUME NEW d \in Requests, DeleteInLoop(d) PROVE Told(a)
  <2> DEFINE s == session[d]
  <2>1. /\ UNCHANGED object /\ removed' = removed \cup Remembered(s) \cup Tells(Loaded(s)) /\ s \in SessionIds
        /\ stored' = [stored EXCEPT ![s] = <<>>] /\ cache' = Without(cache, s)
    BY <1>7, Typed DEF DeleteInLoop, Delete
  <2>2. \A x \in ToSet(cache') : x \in ToSet(cache)
    BY <2>1, Typed, WithoutIs
  <2>3. a \in Tells(Loaded(s)) => Told(a)
    BY <2>1, Loads DEF Told
  <2>4. \A z \in SessionIds : a \in Remembered(z)' => a \in Remembered(z)
    <3>1. Tells(<<>>) = {}
      BY MessagesNow, Typed
    <3> QED BY <2>1, <3>1 DEF Remembered, ChatTypes
  <2> QED BY <2>1, <2>2, <2>3, <2>4 DEF Told
<1>8. CASE WebClosed
  <2>1. UNCHANGED <<stored, removed>> /\ object' = <<>> /\ cache' = <<>>
    BY <1>8 DEF WebClosed
  <2>2. Tells(<<>>) = {} /\ ToSet(<<>>) = {}
    BY DEF Tells, ToSet
  <2> QED BY <2>1, <2>2 DEF Told, Remembered
<1>9. CASE \/ \E r \in Requests : EnsureStarted(r) \/ StartTimesOut(r) \/ Submit(r) \/ GivesUp(r) \/ Enter(r)
           \/ \E d \in Dels : CheckRuntime(d)
           \/ \E b \in Asks : AskReturns(b) \/ ReplyTimesOut(b)
           \/ HandleOutbound \/ WebDispatch \/ StartRuntime \/ WebStop
  BY <1>1, <1>9 DEF EnsureStarted, StartTimesOut, Submit, GivesUp, Enter, CheckRuntime, AskReturns, ReplyTimesOut,
                    HandleOutbound, WebDispatch, StartRuntime, WebStop
<1> QED BY <1>2, <1>3, <1>4, <1>5, <1>6, <1>7, <1>8, <1>9 DEF WebNext, LoopStep

Fresh(a) == http[a] \in {"idle", "starting"} \/ task[a] \in {"queued", "lock"}

LEMMA FreshBefore == ASSUME ChatTypes, WebNext, NEW a \in Asks, Fresh(a)' PROVE Fresh(a)
<1> USE DEF sessionVars, webVars, threadVars, historyWeb, busVars
<1>0. a \in Requests /\ busy \in Requests \cup {No}
  BY Typed
<1>1. CASE \E r \in Requests : EnsureStarted(r) \/ StartTimesOut(r) \/ Submit(r) \/ GivesUp(r) \/ Enter(r)
  BY <1>0, <1>1 DEF EnsureStarted, StartTimesOut, Submit, GivesUp, Enter, ChatTypes, Fresh
<1>2. ASSUME NEW r \in Requests, NEW v \in {"reply", "done"}, task' = [task EXCEPT ![r] = v],
             http' = http \/ \E x \in {"error", "reply", "deleted"} : Finish(r, x)
      PROVE  Fresh(a)
  BY <1>0, <1>2 DEF Finish, ChatTypes, Fresh
<1>3. CASE \E d \in Dels : CheckRuntime(d) \/ DeleteDirect(d)
  <2>1. Dels \subseteq Requests /\ a \notin Dels
    BY WebAssumption DEF Requests
  <2> QED BY <1>0, <1>3, <2>1 DEF CheckRuntime, DeleteDirect, ChatTypes, Fresh
<1>4. CASE EndTurn \/ FailTurn
  <2>1. busy \in Requests /\ \E v \in {"reply", "done"} : task' = [task EXCEPT ![busy] = v]
    BY <1>0, <1>4 DEF EndTurn, FailTurn
  <2>2. http' = http \/ \E x \in {"error", "reply", "deleted"} : Finish(busy, x)
    BY <1>4 DEF EndTurn, FailTurn
  <2> QED BY <1>2, <2>1, <2>2
<1>5. ASSUME NEW r \in Requests, DeleteInLoop(r) \/ (r \in Asks /\ (AskReturns(r) \/ ReplyTimesOut(r))) PROVE Fresh(a)
  <2>1. task' = [task EXCEPT ![r] = "done"] /\ \E x \in {"error", "reply", "deleted"} : Finish(r, x)
    BY <1>5 DEF DeleteInLoop, AskReturns, ReplyTimesOut
  <2> QED BY <1>2, <2>1
<1>6. CASE (\E r \in Requests : BeginTurn(r)) \/ (\E s \in SessionIds : OpenChild(s))
           \/ HandleOutbound \/ WebDispatch \/ StartRuntime \/ WebStop
  BY <1>6 DEF BeginTurn, OpenChild, HandleOutbound, WebDispatch, StartRuntime, WebStop, Fresh
<1>7. CASE WebClosed
  <2>1. task'[a] = "none" /\ http'[a] = IF http[a] \in {"idle", "reply", "deleted", "error"} THEN http[a] ELSE "error"
    BY <1>0, <1>7 DEF WebClosed
  <2> QED BY <2>1 DEF Fresh
<1> QED BY <1>1, <1>3, <1>4, <1>5, <1>6, <1>7, Typed DEF WebNext, LoopStep

LEMMA NextFresh == ChatTypes /\ LocksInv /\ StagesInv /\ FreshInv /\ QueueInv /\ WebNext => FreshInv'
<1> SUFFICES ASSUME ChatTypes, LocksInv, StagesInv, FreshInv, QueueInv, WebNext, NEW a \in Asks, Fresh(a)'
             PROVE  result'[a] = No /\ ~Told(a)'
  BY DEF FreshInv, Fresh
<1>1. Fresh(a) /\ result[a] = No /\ ~Told(a) /\ a \in Requests
  BY FreshBefore, Typed DEF FreshInv, Fresh
<1>2. EndTurn \/ FailTurn => a # busy
  <2> SUFFICES ASSUME EndTurn \/ FailTurn, a = busy PROVE FALSE
    OBVIOUS
  <2>1. task' = [task EXCEPT ![a] = "reply"] \/ task' = [task EXCEPT ![a] = "done"]
    BY DEF EndTurn, FailTurn
  <2>2. task'[a] \in {"reply", "done"}
    BY <1>1, <2>1 DEF ChatTypes
  <2>3. http'[a] \in {"waiting", "reply", "deleted", "error"}
    BY <1>1, <2>2, NextStages DEF StagesInv
  <2> QED BY <2>2, <2>3 DEF Fresh
<1>3. ~Told(a)'
  BY <1>1, <1>2, ToldBefore
<1>4. result'[a] = No
  <2>1. CASE HandleOutbound
    <3> DEFINE x == current[1]
    <3>1. x \in ToSet(current) /\ x.reply \in Asks /\ x.reply \in Requests /\ x.chat \in SessionIds /\ dispatcher = "handling"
      BY <2>1, ReplyHeld, Typed DEF HandleOutbound
    <3>2. task[x.reply] = "reply" /\ pending[x.chat] = x.reply
      BY <3>1 DEF QueueInv, QueueIsLive, Live
    <3>3. x.reply # a
      <4>1. http[x.reply] \in {"waiting", "reply", "deleted", "error"}
        BY <3>1, <3>2 DEF StagesInv
      <4> QED BY <1>1, <3>2, <4>1 DEF Fresh
    <3>4. result' = result \/ result' = [result EXCEPT ![x.reply] = x.reply]
      BY <2>1, <3>2 DEF HandleOutbound
    <3> HIDE DEF x
    <3> QED BY <1>1, <3>3, <3>4 DEF ChatTypes
  <2>2. CASE ~HandleOutbound
    <3>1. result' = result
      BY <2>2 DEF WebNext, LoopStep, EnsureStarted, StartTimesOut, Submit, GivesUp, CheckRuntime, DeleteDirect, OpenChild,
             Enter, BeginTurn, DeleteInLoop, AskReturns, ReplyTimesOut, EndTurn, FailTurn, WebDispatch, StartRuntime,
             WebStop, WebClosed, sessionVars, webVars, threadVars, historyWeb
    <3> QED BY <1>1, <3>1
  <2> QED BY <2>1, <2>2
<1> QED BY <1>3, <1>4

-----------------------------------------------------------------------------
(* The replies that wait for the dispatcher                                 *)

LEMMA QueueTyped ==
  ASSUME ChatTypes
  PROVE  \A x \in ToSet(current) \cup ToSet(outbound) : x \in Reply /\ x.reply \in Asks /\ x.reply \in Requests /\ x.chat \in SessionIds
<1>1. \A x \in ToSet(current) \cup ToSet(outbound) : x \in Reply
  BY Typed DEF ToSet
<1> QED BY <1>1, Typed DEF Reply

\* Only a reply that the dispatcher hands out sets a result, and it is the asker's own.
LEMMA Handled ==
  ASSUME ChatTypes, QueueInv, HandleOutbound
  PROVE  LET x == current[1]
         IN /\ x \in ToSet(current) /\ x.reply \in Asks /\ x.chat \in SessionIds /\ Live(x) /\ QueueIsLive
            /\ result' = [result EXCEPT ![x.reply] = x.reply] /\ pending' = [pending EXCEPT ![x.chat] = No]
<1> DEFINE x == current[1]
<1>1. dispatcher = "handling"
  BY DEF HandleOutbound
<1>2. x \in ToSet(current) /\ x.reply \in Asks /\ x.chat \in SessionIds
  BY <1>1, ReplyHeld
<1>3. QueueIsLive /\ Live(x)
  BY <1>1, <1>2 DEF QueueInv, QueueIsLive
<1>4. x.reply # No
  BY <1>2, Typed
<1>5. pending[x.chat] = x.reply /\ result[x.reply] = No
  BY <1>3 DEF Live
<1>6. result' = (IF pending[x.chat] # No /\ result[pending[x.chat]] = No
                 THEN [result EXCEPT ![pending[x.chat]] = x.reply] ELSE result)
      /\ pending' = [pending EXCEPT ![x.chat] = No]
  BY DEF HandleOutbound
<1> HIDE DEF x
<1>7. result' = [result EXCEPT ![x.reply] = x.reply]
  BY <1>4, <1>5, <1>6
<1> QED BY <1>2, <1>3, <1>6, <1>7 DEF x

LEMMA ResultsStay ==
  ASSUME WebNext, ~HandleOutbound
  PROVE  result' = result
BY DEF WebNext, LoopStep, EnsureStarted, StartTimesOut, Submit, GivesUp, CheckRuntime, DeleteDirect, OpenChild,
       Enter, BeginTurn, DeleteInLoop, AskReturns, ReplyTimesOut, EndTurn, FailTurn, WebDispatch, StartRuntime,
       WebStop, WebClosed, sessionVars, webVars, threadVars, historyWeb

LEMMA NextResults == ChatTypes /\ QueueInv /\ WebNext => ResultsInv'
<1> SUFFICES ASSUME ChatTypes, QueueInv, WebNext, NEW a \in Asks
             PROVE  result'[a] \in {No, a} /\ (http'[a] = "reply" => result'[a] = a)
  BY DEF ResultsInv, OwnReply
<1>1. a \in Requests /\ result[a] \in {No, a} /\ (http[a] = "reply" => result[a] = a) /\ a # No /\ No \notin Requests
  BY Typed DEF QueueInv, ResultsInv, OwnReply
<1>2. CASE HandleOutbound
  <2> DEFINE b == current[1].reply
  <2>1. b \in Asks /\ result' = [result EXCEPT ![b] = b]
    BY <1>2, Handled
  <2> HIDE DEF b
  <2>2. http' = http
    BY <1>2 DEF HandleOutbound
  <2> QED BY <1>1, <2>1, <2>2 DEF ChatTypes
<1>3. CASE ~HandleOutbound
  <2>1. result' = result
    BY <1>3, ResultsStay
  <2>2. http'[a] = "reply" => http[a] = "reply" \/ AskReturns(a)
    <3> USE DEF webVars
    <3> SUFFICES ASSUME http'[a] = "reply", http[a] # "reply" PROVE AskReturns(a)
      OBVIOUS
    <3>1. ASSUME NEW r \in Requests, NEW v \in {"error", "deleted"}, Finish(r, v) PROVE FALSE
      BY <1>1, <3>1 DEF Finish, ChatTypes
    <3>2. ASSUME NEW b \in Asks, AskReturns(b) PROVE b = a
      <4>1. b \in Requests /\ http' = [http EXCEPT ![b] = IF http[b] = "waiting" THEN "reply" ELSE http[b]]
        BY <3>2, Typed DEF AskReturns, Finish
      <4> QED BY <1>1, <4>1 DEF ChatTypes
    <3>3. ASSUME NEW r \in Requests, EnsureStarted(r) \/ StartTimesOut(r) \/ Submit(r) \/ GivesUp(r) PROVE FALSE
      <4>1. \E v \in {"error", "starting", "waiting"} : http' = [http EXCEPT ![r] = v]
        BY <3>3 DEF EnsureStarted, StartTimesOut, Submit, GivesUp
      <4> QED BY <1>1, <4>1 DEF ChatTypes
    <3>4. ASSUME NEW d \in Dels, CheckRuntime(d) \/ DeleteDirect(d) PROVE FALSE
      <4>1. \E v \in {"direct", "checked", "deleted"} : http' = [http EXCEPT ![d] = v]
        BY <3>4 DEF CheckRuntime, DeleteDirect
      <4> QED BY <1>1, <4>1 DEF ChatTypes
    <3>5. CASE (\E r \in Requests : DeleteInLoop(r)) \/ (\E b \in Asks : ReplyTimesOut(b)) \/ FailTurn
      <4>1. \E r \in Requests, v \in {"error", "deleted"} : Finish(r, v)
        BY <3>5, Typed DEF DeleteInLoop, ReplyTimesOut, FailTurn
      <4> QED BY <3>1, <4>1
    <3>6. CASE WebClosed
      <4>1. http' = [r \in Requests |-> IF http[r] \in {"idle", "reply", "deleted", "error"} THEN http[r] ELSE "error"]
        BY <3>6 DEF WebClosed
      <4> QED BY <1>1, <4>1
    <3>7. CASE (\E r \in Requests : Enter(r) \/ BeginTurn(r)) \/ (\E s \in SessionIds : OpenChild(s))
               \/ EndTurn \/ WebDispatch \/ StartRuntime \/ WebStop
      <4>1. http' = http
        BY <3>7 DEF Enter, BeginTurn, OpenChild, EndTurn, WebDispatch, StartRuntime, WebStop
      <4> QED BY <4>1
    <3> QED BY <1>3, <3>2, <3>3, <3>4, <3>5, <3>6, <3>7 DEF WebNext, LoopStep
  <2>3. AskReturns(a) => result[a] # No
    BY DEF AskReturns
  <2> QED BY <1>1, <2>1, <2>2, <2>3
<1> QED BY <1>2, <1>3

\* What a request does that has no reply in the queue leaves the others' replies live.
LEMMA LiveStays ==
  ASSUME ChatTypes, LocksInv, QueueIsLive, NEW r \in Requests, \A x \in ToSet(current) \cup ToSet(outbound) : x.reply # r,
         task' = task \/ \E v : task' = [task EXCEPT ![r] = v],
         pending' = pending \/ (Holds(r) /\ \E v : pending' = [pending EXCEPT ![session[r]] = v]),
         UNCHANGED <<session, result, outbound, current>>
  PROVE  QueueIsLive'
<1>1. ASSUME NEW x \in ToSet(current) \cup ToSet(outbound) PROVE Live(x)'
  <2>1. Live(x) /\ x.reply # r /\ x.reply \in Requests /\ x.chat \in SessionIds
    BY <1>1, QueueTyped DEF QueueIsLive
  <2>2. task'[x.reply] = task[x.reply]
    BY <2>1 DEF ChatTypes
  <2>3. Holds(x.reply)
    BY <2>1 DEF Live, LocksInv
  <2>4. Holds(r) => session[r] # x.chat
    BY <2>1, <2>3 DEF Holds, Live
  <2>5. pending'[x.chat] = pending[x.chat]
    BY <2>1, <2>4 DEF ChatTypes
  <2> QED BY <2>1, <2>2, <2>5 DEF Live
<1> QED BY <1>1 DEF QueueIsLive

\* The reply of the turn that ends: its asker now waits for it, and no one else has one.
LEMMA NextQueueEndTurn == ASSUME ChatTypes, LocksInv, FreshInv, QueueIsLive, EndTurn PROVE QueueIsLive'
<1> DEFINE more(e) == Append(outbound, e)
<1>0. PICK s, b, e : s = session[busy] /\ b = busy /\ e = [chat |-> s, reply |-> b]
  OBVIOUS
<1>1. /\ UNCHANGED <<session, pending, result, current>> /\ busy # No /\ outbound' = more(e)
      /\ task' = [task EXCEPT ![b] = "reply"]
  BY <1>0 DEF EndTurn
<1>2. b \in Asks /\ b \in Requests /\ s \in SessionIds /\ s = session[b] /\ task[b] = "lock" /\ pending[s] = b /\ outbound \in Seq(Reply)
  BY <1>0, <1>1, Typed DEF LocksInv
<1>3. result[b] = No
  BY <1>2 DEF FreshInv
<1>4. e.reply = b /\ e.chat = s /\ e \in Reply
  BY <1>0, <1>2 DEF Reply
<1>5. /\ ToSet(more(e)) = ToSet(outbound) \cup {e}
      /\ DOMAIN more(e) = DOMAIN outbound \cup {Len(outbound) + 1} /\ more(e)[Len(outbound) + 1] = e
      /\ \A i \in DOMAIN outbound : more(e)[i] = outbound[i] /\ i <= Len(outbound) /\ i \in Nat
  BY <1>2, AppendSet
<1> HIDE DEF more
<1>6. \A x \in ToSet(current) \cup ToSet(outbound) : x.reply # b /\ x.reply \in Requests
  BY <1>2, QueueTyped DEF QueueIsLive, Live
<1>7. task'[b] = "reply" /\ \A r \in Requests : r # b => task'[r] = task[r]
  BY <1>1, <1>2 DEF ChatTypes
<1>8. ASSUME NEW x \in ToSet(current) \cup ToSet(outbound) PROVE Live(x)'
  <2>1. Live(x) /\ x.reply # b /\ x.reply \in Requests
    BY <1>6 DEF QueueIsLive
  <2> QED BY <1>1, <1>7, <2>1 DEF Live
<1>9. Live(e)'
  BY <1>1, <1>2, <1>3, <1>4, <1>7 DEF Live
<1>10. \A x \in ToSet(current') \cup ToSet(outbound') : Live(x)'
  BY <1>1, <1>5, <1>8, <1>9
<1>11. \A i, j \in DOMAIN outbound' : outbound'[i].reply = outbound'[j].reply => i = j
  <2>1. \A i \in DOMAIN outbound : outbound[i] \in ToSet(outbound)
    BY DEF ToSet
  <2> DEFINE n == Len(outbound) + 1
  <2>2. DOMAIN more(e) = DOMAIN outbound \cup {n} /\ more(e)[n] = e /\ \A i \in DOMAIN outbound : more(e)[i] = outbound[i]
    BY <1>5
  <2> HIDE DEF n
  <2>3. \A i \in DOMAIN outbound : more(e)[i].reply # b
    BY <1>6, <2>1, <2>2
  <2> QED BY <1>1, <1>4, <2>2, <2>3 DEF QueueIsLive
<1>12. \A x \in ToSet(current'), y \in ToSet(outbound') : x.reply # y.reply
  BY <1>1, <1>4, <1>5, <1>6 DEF QueueIsLive
<1> QED BY <1>10, <1>11, <1>12 DEF QueueIsLive

LEMMA NextQueueTake == ASSUME ChatTypes, QueueIsLive, DispatchTake, UNCHANGED <<session, task, pending, result>>, dispatcher # "handling"
                       PROVE  QueueIsLive'
<1> DEFINE h == Head(outbound)
           t == Tail(outbound)
<1>1. outbound \in Seq(Reply) /\ outbound # <<>> /\ current' = <<h>> /\ outbound' = t
  BY Typed DEF DispatchTake
<1>2. /\ ToSet(outbound) = {h} \cup ToSet(t) /\ h = outbound[1] /\ 1 \in DOMAIN outbound
      /\ \A i \in DOMAIN t : i \in Nat /\ i + 1 \in DOMAIN outbound /\ t[i] = outbound[i + 1]
  BY <1>1, TailSet
<1> HIDE DEF h, t
<1>3. current' = <<h>> /\ ToSet(current') = {h}
  BY <1>1 DEF ToSet
<1>4. \A x \in ToSet(current') \cup ToSet(outbound') : Live(x)'
  BY <1>1, <1>2, <1>3 DEF QueueIsLive, Live
<1>5. \A i, j \in DOMAIN t : t[i].reply = t[j].reply => i = j
  <2> SUFFICES ASSUME NEW i \in DOMAIN t, NEW j \in DOMAIN t, t[i].reply = t[j].reply PROVE i = j
    OBVIOUS
  <2>1. i + 1 = j + 1
    BY <1>2 DEF QueueIsLive
  <2> QED BY <1>2, <2>1
<1>6. \A y \in ToSet(t) : h.reply # y.reply
  <2> SUFFICES ASSUME NEW i \in DOMAIN t, h.reply = t[i].reply PROVE FALSE
    BY DEF ToSet
  <2>1. i + 1 = 1 /\ i \in Nat
    BY <1>2 DEF QueueIsLive
  <2>2. i \in 1..Len(t)
    BY <1>1, TailSet DEF t
  <2> QED BY <2>1, <2>2
<1> QED BY <1>1, <1>3, <1>4, <1>5, <1>6 DEF QueueIsLive

LEMMA NextQueueHandled == ASSUME ChatTypes, QueueInv, HandleOutbound PROVE QueueIsLive'
<1> DEFINE x == current[1]
<1>1. /\ x \in ToSet(current) /\ x.reply \in Asks /\ x.chat \in SessionIds /\ Live(x) /\ QueueIsLive
      /\ result' = [result EXCEPT ![x.reply] = x.reply] /\ pending' = [pending EXCEPT ![x.chat] = No]
  BY Handled
<1>2. UNCHANGED <<session, task, outbound>> /\ current' = <<>>
  BY DEF HandleOutbound, NextReply
<1> HIDE DEF x
<1>3. ToSet(current') = {}
  BY <1>2 DEF ToSet
<1>4. ASSUME NEW y \in ToSet(outbound) PROVE Live(y)'
  <2>1. y.reply # x.reply /\ Live(y) /\ y.reply \in Asks /\ y.chat \in SessionIds
    BY <1>1, QueueTyped DEF QueueIsLive
  <2>2. y.chat # x.chat
    BY <1>1, <2>1 DEF Live
  <2> QED BY <1>1, <1>2, <2>1, <2>2 DEF Live, ChatTypes
<1> QED BY <1>1, <1>2, <1>3, <1>4 DEF QueueIsLive

LEMMA NextQueue == ChatTypes /\ LocksInv /\ StagesInv /\ FreshInv /\ QueueInv /\ WebNext => QueueInv'
<1> SUFFICES ASSUME ChatTypes, LocksInv, StagesInv, FreshInv, QueueInv, WebNext, dispatcher' # "ended" PROVE QueueIsLive'
  BY NextResults DEF QueueInv
<1> USE DEF sessionVars, webVars, threadVars, historyWeb, busVars
<1>1. CASE WebClosed
  <2>1. current' = <<>> /\ outbound' = <<>> /\ ToSet(<<>>) = {}
    BY <1>1 DEF WebClosed, BusGone, ToSet
  <2> QED BY <2>1 DEF QueueIsLive
<1>2. ~WebClosed => dispatcher # "ended" /\ QueueIsLive
  <2> SUFFICES ASSUME ~WebClosed, dispatcher = "ended" PROVE FALSE
    BY DEF QueueInv
  <2>1. dispatcher' = dispatcher
    BY DEF WebNext, LoopStep, EnsureStarted, StartTimesOut, Submit, GivesUp, CheckRuntime, DeleteDirect, OpenChild,
           Enter, BeginTurn, DeleteInLoop, AskReturns, ReplyTimesOut, EndTurn, FailTurn, HandleOutbound, WebDispatch,
           DispatchBegin, DispatchTake, DispatchNotices, StartRuntime, Start, WebStop, Stop
  <2> QED BY <2>1
<1>3. CASE HandleOutbound
  BY <1>3, NextQueueHandled
<1>4. CASE EndTurn /\ ~WebClosed
  BY <1>2, <1>4, NextQueueEndTurn
<1>5. CASE WebDispatch /\ ~WebClosed
  <2>1. CASE DispatchTake
    BY <1>2, <1>5, <2>1, NextQueueTake DEF WebDispatch, DispatchTake
  <2>2. CASE ~DispatchTake
    <3>1. UNCHANGED <<session, task, pending, result, outbound, current>>
      BY <1>5, <2>2 DEF WebDispatch, DispatchBegin, DispatchNotices
    <3> QED BY <1>2, <1>5, <3>1 DEF QueueIsLive, Live
  <2> QED BY <2>1, <2>2
<1> DEFINE Answered(r) == \E x \in ToSet(current) \cup ToSet(outbound) : x.reply = r
<1>6. ASSUME NEW r \in Requests, Answered(r), QueueIsLive PROVE task[r] = "reply" /\ r \in Asks /\ result[r] = No
  BY <1>6, QueueTyped DEF QueueIsLive, Live
<1>7. ASSUME ~WebClosed, NEW r \in Requests, ~Answered(r), task' = task \/ \E v : task' = [task EXCEPT ![r] = v],
             pending' = pending \/ (Holds(r) /\ \E v : pending' = [pending EXCEPT ![session[r]] = v]),
             UNCHANGED <<session, result, outbound, current>>
      PROVE  QueueIsLive'
  BY <1>2, <1>7, LiveStays
<1>8. ASSUME ~WebClosed, NEW r \in Requests, EnsureStarted(r) \/ StartTimesOut(r) \/ GivesUp(r) \/ (r \in Dels /\ (CheckRuntime(r) \/ DeleteDirect(r)))
      PROVE  QueueIsLive'
  <2>1. UNCHANGED <<session, task, pending, result, outbound, current>>
    BY <1>8 DEF EnsureStarted, StartTimesOut, GivesUp, CheckRuntime, DeleteDirect
  <2> QED BY <1>2, <1>8, <2>1 DEF QueueIsLive, Live
<1>9. ASSUME ~WebClosed, NEW r \in Requests, Submit(r) \/ Enter(r) PROVE QueueIsLive'
  <2>1. UNCHANGED <<session, pending, result, outbound, current>> /\ (task' = task \/ \E v : task' = [task EXCEPT ![r] = v])
    BY <1>9 DEF Submit, Enter
  <2>2. task[r] # "reply"
    BY <1>9 DEF Submit, Enter, StagesInv
  <2> QED BY <1>2, <1>6, <1>7, <1>9, <2>1, <2>2
<1>10. ASSUME ~WebClosed, NEW r \in Requests, BeginTurn(r) \/ DeleteInLoop(r) PROVE QueueIsLive'
  <2>1. UNCHANGED <<session, result, outbound, current>> /\ (task' = task \/ \E v : task' = [task EXCEPT ![r] = v])
        /\ (pending' = pending \/ (Holds(r) /\ \E v : pending' = [pending EXCEPT ![session[r]] = v]))
    BY <1>10 DEF BeginTurn, DeleteInLoop
  <2>2. task[r] # "reply"
    BY <1>10 DEF BeginTurn, DeleteInLoop
  <2> QED BY <1>2, <1>6, <1>7, <1>10, <2>1, <2>2
<1>11. CASE FailTurn /\ ~WebClosed
  <2>1. busy \in Requests /\ Holds(busy) /\ task[busy] = "lock"
    BY <1>11, Typed DEF FailTurn, LocksInv
  <2>2. UNCHANGED <<session, result, outbound, current>> /\ (\E v : task' = [task EXCEPT ![busy] = v])
        /\ \E v : pending' = [pending EXCEPT ![session[busy]] = v]
    BY <1>11 DEF FailTurn
  <2> QED BY <1>2, <1>6, <1>7, <1>11, <2>1, <2>2
<1>12. ASSUME ~WebClosed, NEW a \in Asks, AskReturns(a) \/ ReplyTimesOut(a) PROVE QueueIsLive'
  <2>1. a \in Requests /\ Holds(a) /\ dispatcher # "handling"
    BY <1>12, Typed DEF AskReturns, ReplyTimesOut, LocksInv, LoopFree
  <2>2. UNCHANGED <<session, result, outbound, current, dispatcher>> /\ (\E v : task' = [task EXCEPT ![a] = v])
        /\ \E v : pending' = [pending EXCEPT ![session[a]] = v]
    BY <1>12 DEF AskReturns, ReplyTimesOut
  <2>3. ~Answered(a)
    <3>1. CASE AskReturns(a)
      BY <1>2, <1>6, <1>12, <2>1, <3>1 DEF AskReturns
    <3>2. CASE ReplyTimesOut(a)
      <4>1. outbound = <<>> /\ ToSet(current) = {}
        BY <1>2, <1>12, <2>1, <2>2, <3>2, NoneHeldNow DEF ReplyTimesOut
      <4>2. ToSet(outbound) = {}
        BY <4>1 DEF ToSet
      <4> QED BY <4>1, <4>2
    <3> QED BY <1>12, <3>1, <3>2
  <2> QED BY <1>7, <1>12, <2>1, <2>2, <2>3
<1>13. CASE ((\E s \in SessionIds : OpenChild(s)) \/ StartRuntime \/ WebStop) /\ ~WebClosed
  <2>1. UNCHANGED <<session, task, pending, result, outbound, current>>
    BY <1>13 DEF OpenChild, StartRuntime, Start, WebStop, Stop
  <2> QED BY <1>2, <1>13, <2>1 DEF QueueIsLive, Live
<1>14. \A d \in Dels : d \in Requests
  BY DEF Requests
<1> QED BY <1>1, <1>3, <1>4, <1>5, <1>8, <1>9, <1>10, <1>11, <1>12, <1>13, <1>14 DEF WebNext, LoopStep

-----------------------------------------------------------------------------
(* A step touches one session: its rows, its objects and what is removed     *)

\* The rows of session s after a step, and what an object of it may hold then.
RowsTell(s) == Tells(stored'[s])
Sound(s, m) == Tells(m) \subseteq About(s) /\ RowsTell(s) \subseteq Tells(m) /\ (s \notin raced' => Tells(m) \cap removed' = {})

LEMMA KnowsAfter ==
  ASSUME ChatTypes, Knows, DeletedInv, session' = session, NEW s \in SessionIds,
         \A z \in SessionIds : z # s => RowsTell(z) = Remembered(z),
         RowsTell(s) \subseteq About(s), s \notin raced' => RowsTell(s) \cap removed' = {},
         removed \subseteq removed', removed' \subseteq removed \cup About(s), raced \subseteq raced',
         \A x \in ToSet(cache') : (x \in ToSet(cache) /\ x.id # s) \/ (x.id = s /\ Sound(s, x.messages)),
         busy' # No => \/ busy' = busy /\ object' = object /\ session[busy] # s
                       \/ session[busy'] = s /\ Sound(s, object')
  PROVE  Knows' /\ DeletedInv'
<1>2. \A z \in SessionIds : z # s => About(z) \cap About(s) = {}
  BY DEF About
<1>3. \A x \in ToSet(cache) : x.id \in SessionIds
  <2>1. \A x \in ToSet(cache) : x \in Entry
    BY Typed DEF ToSet
  <2> QED BY <2>1 DEF Entry
<1>4. busy # No => session[busy] \in SessionIds
  BY Typed
<1>5. ASSUME NEW z \in SessionIds PROVE RowsTell(z) \subseteq About(z) /\ (z \notin raced' => RowsTell(z) \cap removed' = {})
  <2>1. CASE z = s
    BY <2>1
  <2>2. CASE z # s
    <3>1. RowsTell(z) = Remembered(z) /\ Remembered(z) \subseteq About(z) /\ (z \notin raced => Remembered(z) \cap removed = {})
      BY <2>2 DEF Knows, DeletedInv
    <3> QED BY <1>2, <2>2, <3>1
  <2> QED BY <2>1, <2>2
<1>6. ASSUME NEW x \in ToSet(cache')
      PROVE  /\ x.id \in SessionIds /\ Tells(x.messages) \subseteq About(x.id) /\ RowsTell(x.id) \subseteq Tells(x.messages)
             /\ x.id \notin raced' => Tells(x.messages) \cap removed' = {}
  <2>1. CASE x \in ToSet(cache) /\ x.id # s
    <3>1. Tells(x.messages) \subseteq About(x.id) /\ Remembered(x.id) \subseteq Tells(x.messages) /\ x.id \in SessionIds
          /\ (x.id \notin raced => Tells(x.messages) \cap removed = {})
      BY <1>3, <2>1 DEF Knows, DeletedInv
    <3>2. RowsTell(x.id) = Remembered(x.id) /\ About(x.id) \cap About(s) = {}
      BY <1>2, <2>1, <3>1
    <3> QED BY <3>1, <3>2
  <2>2. CASE x.id = s /\ Sound(s, x.messages)
    BY <2>2 DEF Sound
  <2> QED BY <1>6, <2>1, <2>2
<1>7. ASSUME busy' # No
      PROVE  \E z \in SessionIds : /\ session[busy'] = z /\ Tells(object') \subseteq About(z) /\ RowsTell(z) \subseteq Tells(object')
                                   /\ z \notin raced' => Tells(object') \cap removed' = {}
  <2>1. CASE busy' = busy /\ object' = object /\ session[busy] # s
    <3>1. PICK z \in SessionIds : z = session[busy]
      BY <1>4, <1>7, <2>1
    <3>2. Tells(object) \subseteq About(z) /\ Remembered(z) \subseteq Tells(object)
          /\ (z \notin raced => Tells(object) \cap removed = {})
      BY <1>7, <2>1, <3>1 DEF Knows, DeletedInv
    <3>3. RowsTell(z) = Remembered(z) /\ About(z) \cap About(s) = {}
      BY <1>2, <2>1, <3>1
    <3> QED BY <2>1, <3>1, <3>2, <3>3
  <2>2. CASE session[busy'] = s /\ Sound(s, object')
    BY <2>2 DEF Sound
  <2> QED BY <1>7, <2>1, <2>2
<1>8. Knows'
  <2>1. \A x \in ToSet(cache') : Tells(x.messages) \subseteq About(x.id) /\ RowsTell(x.id) \subseteq Tells(x.messages)
    BY <1>6
  <2>2. busy' # No => Tells(object') \subseteq About(session[busy']) /\ RowsTell(session[busy']) \subseteq Tells(object')
    BY <1>7
  <2> QED BY <1>5, <2>1, <2>2 DEF Knows, Remembered, About, RowsTell
<1>9. DeletedInv'
  <2>1. \A z \in SessionIds \ raced' : \A x \in ToSet(cache') : x.id = z => Tells(x.messages) \cap removed' = {}
    BY <1>6
  <2>2. \A z \in SessionIds \ raced' : busy' # No /\ session'[busy'] = z => Tells(object') \cap removed' = {}
    BY <1>7
  <2> QED BY <1>5, <2>1, <2>2 DEF DeletedInv, Remembered, RowsTell
<1> QED BY <1>8, <1>9

\* get_or_create: the object it returns is as good as the rows.
LEMMA LoadedSound ==
  ASSUME ChatTypes, Knows, DeletedInv, NEW s \in SessionIds
  PROVE  /\ Tells(Loaded(s)) \subseteq About(s) /\ Remembered(s) \subseteq Tells(Loaded(s))
         /\ s \notin raced => Tells(Loaded(s)) \cap removed = {}
<1>1. CASE Tells(Loaded(s)) = Remembered(s)
  BY <1>1 DEF Knows, DeletedInv
<1>2. ASSUME NEW x \in ToSet(cache), x.id = s, Tells(Loaded(s)) = Tells(x.messages)
      PROVE  /\ Tells(Loaded(s)) \subseteq About(s) /\ Remembered(s) \subseteq Tells(Loaded(s))
             /\ s \notin raced => Tells(Loaded(s)) \cap removed = {}
  BY <1>2 DEF Knows, DeletedInv
<1> QED BY <1>1, <1>2, Loads

NothingForgot == removed \subseteq removed' /\ \A z \in SessionIds : Remembered(z) \subseteq RowsTell(z) \cup removed'

LEMMA StillKnows ==
  ASSUME Knows, DeletedInv, session' = session, UNCHANGED <<stored, removed, raced>>,
         cache' = cache \/ cache' = <<>>, busy' = No \/ (busy' = busy /\ object' = object)
  PROVE  Knows' /\ DeletedInv' /\ NothingForgot
<1>1. ToSet(<<>>) = {}
  BY DEF ToSet
<1> QED BY <1>1 DEF Knows, DeletedInv, NothingForgot, Remembered, RowsTell, About

LEMMA NextKnows ==
  ChatTypes /\ LocksInv /\ StagesInv /\ FreshInv /\ Knows /\ DeletedInv /\ WebNext => Knows' /\ DeletedInv' /\ NothingForgot
<1> SUFFICES ASSUME ChatTypes, LocksInv, StagesInv, FreshInv, Knows, DeletedInv, WebNext PROVE Knows' /\ DeletedInv' /\ NothingForgot
  OBVIOUS
<1> USE DEF sessionVars, webVars, threadVars, historyWeb, busVars
<1>0. Tells(<<>>) = {}
  BY DEF Tells, ToSet
<1>1. busy # No => busy \notin removed /\ busy \in About(session[busy]) /\ busy \in Asks /\ session[busy] \in SessionIds
  BY Typed DEF LocksInv, FreshInv, Told, About
<1>2. ASSUME NEW d \in Dels, DeleteDirect(d) PROVE Knows' /\ DeletedInv' /\ NothingForgot
  <2>1. PICK s \in SessionIds : s = session[d]
    BY Typed DEF Requests
  <2>2. /\ UNCHANGED <<session, cache, object, busy>> /\ removed' = removed \cup Remembered(s)
        /\ stored' = [stored EXCEPT ![s] = <<>>] /\ raced' = IF service = "none" THEN raced ELSE raced \cup {s}
    BY <1>2, <2>1 DEF DeleteDirect, DeleteStored
  <2>3. RowsTell(s) = {} /\ \A z \in SessionIds : z # s => RowsTell(z) = Remembered(z)
    BY <1>0, <2>2 DEF RowsTell, Remembered, ChatTypes
  <2>4. Remembered(s) \subseteq About(s)
    BY DEF Knows
  <2>5. NothingForgot
    BY <2>2, <2>3 DEF NothingForgot
  <2>6. \A x \in ToSet(cache) : x.id = s => Tells(x.messages) \subseteq About(s)
    BY DEF Knows
  <2>7. service = "none" => ToSet(cache) = {} /\ busy = No
    BY DEF StagesInv, ToSet
  <2>8. \A x \in ToSet(cache') : (x \in ToSet(cache) /\ x.id # s) \/ (x.id = s /\ Sound(s, x.messages))
    BY <2>2, <2>3, <2>6, <2>7 DEF Sound
  <2>9. busy' # No => (busy' = busy /\ object' = object /\ session[busy] # s) \/ (session[busy'] = s /\ Sound(s, object'))
    BY <2>2, <2>3, <2>7 DEF Sound, Knows
  <2> QED BY <2>2, <2>3, <2>4, <2>5, <2>8, <2>9, KnowsAfter
<1>3. ASSUME NEW s \in SessionIds, OpenChild(s) PROVE Knows' /\ DeletedInv' /\ NothingForgot
  <2>1. /\ UNCHANGED <<session, stored, object, busy, removed, raced>> /\ cache' = Touched(s, stored[s]) /\ stored[s] \in Messages
        /\ s # session[busy]
    BY <1>3, Typed DEF OpenChild
  <2>2. \A x \in ToSet(cache') : \/ x.id = s /\ x.messages = stored[s]
                                 \/ x \in ToSet(cache) /\ x.id # s
    BY <2>1, Typed, TouchedIs
  <2>3. \A z \in SessionIds : RowsTell(z) = Remembered(z)
    BY <2>1 DEF RowsTell, Remembered
  <2>4. Remembered(s) \subseteq About(s) /\ (s \notin raced => Remembered(s) \cap removed = {})
    BY DEF Knows, DeletedInv
  <2>5. Sound(s, stored[s])
    BY <2>1, <2>4 DEF Sound, RowsTell, Remembered
  <2>6. \A x \in ToSet(cache') : (x \in ToSet(cache) /\ x.id # s) \/ (x.id = s /\ Sound(s, x.messages))
    BY <2>2, <2>5
  <2> QED BY <2>1, <2>3, <2>4, <2>6, KnowsAfter DEF NothingForgot
<1>4. ASSUME NEW b \in Requests, BeginTurn(b) PROVE Knows' /\ DeletedInv' /\ NothingForgot
  <2>1. PICK s \in SessionIds : s = session[b]
    BY Typed
  <2> DEFINE m == Loaded(s)
  <2>2. /\ UNCHANGED <<session, stored, removed, raced>> /\ busy' = b /\ object' = m /\ cache' = Touched(s, m)
    BY <1>4, <2>1 DEF BeginTurn
  <2>3. /\ Tells(m) \subseteq About(s) /\ Remembered(s) \subseteq Tells(m) /\ m \in Messages
        /\ s \notin raced => Tells(m) \cap removed = {}
    BY LoadedSound, Loads
  <2> HIDE DEF m
  <2>4. \A x \in ToSet(cache') : \/ x.id = s /\ x.messages = m
                                 \/ x \in ToSet(cache) /\ x.id # s
    BY <2>2, <2>3, Typed, TouchedIs
  <2>5. \A z \in SessionIds : RowsTell(z) = Remembered(z)
    BY <2>2 DEF RowsTell, Remembered
  <2>6. Sound(s, m)
    BY <2>2, <2>3, <2>5 DEF Sound
  <2>7. \A x \in ToSet(cache') : (x \in ToSet(cache) /\ x.id # s) \/ (x.id = s /\ Sound(s, x.messages))
    BY <2>4, <2>6
  <2>8. Remembered(s) \subseteq About(s) /\ (s \notin raced => Remembered(s) \cap removed = {})
    BY DEF Knows, DeletedInv
  <2> QED BY <2>1, <2>2, <2>5, <2>6, <2>7, <2>8, KnowsAfter DEF NothingForgot
<1>5. ASSUME busy # No, NEW s \in SessionIds, s = session[busy], NEW new \in Messages, Tells(new) = Tells(object) \cup {busy},
             \A z \in SessionIds : RowsTell(z) = Remembered(z),
             UNCHANGED <<session, removed, raced>>, busy' = No, cache' = cache \/ cache' = Touched(s, new)
      PROVE  Knows' /\ DeletedInv' /\ NothingForgot
  <2>1. /\ Tells(object) \subseteq About(s) /\ Remembered(s) \subseteq Tells(object)
        /\ s \notin raced => Tells(object) \cap removed = {}
    BY <1>5 DEF Knows, DeletedInv
  <2>2. Sound(s, new)
    BY <1>1, <1>5, <2>1 DEF Sound
  <2>3. CASE cache' = Touched(s, new)
    <3>1. \A x \in ToSet(cache') : \/ x.id = s /\ x.messages = new
                                   \/ x \in ToSet(cache) /\ x.id # s
      BY <1>5, <2>3, Typed, TouchedIs
    <3>2. \A x \in ToSet(cache') : (x \in ToSet(cache) /\ x.id # s) \/ (x.id = s /\ Sound(s, x.messages))
      BY <2>2, <3>1
    <3>3. RowsTell(s) \subseteq About(s) /\ (s \notin raced' => RowsTell(s) \cap removed' = {})
      BY <2>2 DEF Sound
    <3>4. NothingForgot
      BY <1>5, <2>1 DEF NothingForgot
    <3> QED BY <1>5, <3>2, <3>3, <3>4, KnowsAfter
  <2>4. CASE cache' = cache
    <3>1. RowsTell(s) = Remembered(s)
      BY <1>5, <2>4
    <3>2. \A x \in ToSet(cache) : x.id = s => Sound(s, x.messages)
      BY <1>5, <3>1 DEF Sound, Knows, DeletedInv
    <3>3. RowsTell(s) \subseteq About(s) /\ (s \notin raced => RowsTell(s) \cap removed = {})
      BY <3>1 DEF Knows, DeletedInv
    <3>4. NothingForgot
      BY <1>5, <3>1 DEF NothingForgot
    <3> QED BY <1>5, <2>4, <3>2, <3>3, <3>4, KnowsAfter
  <2> QED BY <1>5, <2>3, <2>4
<1>6. CASE EndTurn
  <2>1. PICK s \in SessionIds : s = session[busy]
    BY <1>1, <1>6 DEF EndTurn
  <2>2. busy # No /\ UNCHANGED <<session, removed, raced>> /\ busy' = No /\ busy \in Asks /\ object \in Messages
    BY <1>1, <1>6, Typed DEF EndTurn
  <2>3. PICK new : (new = <<Tells(object) \cup {busy}>> \/ new = Append(object, {busy}))
                    /\ cache' = Touched(s, new) /\ stored' = [stored EXCEPT ![s] = RowsAfter(stored[s], new)]
    BY <1>6, <2>1, TurnSaves
  <2>4. new \in Messages /\ Tells(new) = Tells(object) \cup {busy}
    BY <2>2, <2>3, MessagesNow
  <2>5. stored' = [stored EXCEPT ![s] = new]
    BY <2>3, <2>4, Typed, RowsAre
  <2>6. RowsTell(s) = Tells(new) /\ \A z \in SessionIds : z # s => RowsTell(z) = Remembered(z)
    BY <2>5 DEF RowsTell, Remembered, ChatTypes
  <2>7. \A x \in ToSet(cache') : \/ x.id = s /\ x.messages = new
                                 \/ x \in ToSet(cache) /\ x.id # s
    BY <2>3, <2>4, Typed, TouchedIs
  <2>8. /\ Tells(object) \subseteq About(s) /\ Remembered(s) \subseteq Tells(object)
        /\ s \notin raced => Tells(object) \cap removed = {}
    BY <2>1, <2>2 DEF Knows, DeletedInv
  <2>9. Sound(s, new)
    BY <1>1, <2>1, <2>2, <2>4, <2>6, <2>8 DEF Sound
  <2>10. \A x \in ToSet(cache') : (x \in ToSet(cache) /\ x.id # s) \/ (x.id = s /\ Sound(s, x.messages))
    BY <2>7, <2>9
  <2>11. RowsTell(s) \subseteq About(s) /\ (s \notin raced' => RowsTell(s) \cap removed' = {})
    BY <2>6, <2>9 DEF Sound
  <2>12. NothingForgot
    BY <2>2, <2>4, <2>6, <2>8 DEF NothingForgot
  <2> QED BY <2>2, <2>6, <2>10, <2>11, <2>12, KnowsAfter
<1>7. CASE FailTurn
  <2>1. PICK s \in SessionIds : s = session[busy]
    BY <1>1, <1>7 DEF FailTurn
  <2> DEFINE new == Append(object, {busy})
  <2>2. /\ busy # No /\ UNCHANGED <<session, stored, removed, raced>> /\ busy' = No
        /\ cache' = cache \/ cache' = Touched(s, new)
    BY <1>7, <2>1 DEF FailTurn
  <2>3. new \in Messages /\ Tells(new) = Tells(object) \cup {busy}
    BY <1>1, <2>2, Typed, MessagesNow
  <2> HIDE DEF new
  <2>4. \A z \in SessionIds : RowsTell(z) = Remembered(z)
    BY <2>2 DEF RowsTell, Remembered
  <2> QED BY <1>5, <2>1, <2>2, <2>3, <2>4
<1>8. ASSUME NEW d \in Requests, DeleteInLoop(d) PROVE Knows' /\ DeletedInv' /\ NothingForgot
  <2>1. PICK s \in SessionIds : s = session[d]
    BY Typed
  <2>2. /\ UNCHANGED <<session, object, busy, raced>> /\ removed' = removed \cup Remembered(s) \cup Tells(Loaded(s))
        /\ stored' = [stored EXCEPT ![s] = <<>>] /\ cache' = Without(cache, s) /\ busy' = No
    BY <1>8, <2>1 DEF DeleteInLoop, Delete, LoopFree
  <2>3. RowsTell(s) = {} /\ \A z \in SessionIds : z # s => RowsTell(z) = Remembered(z)
    BY <1>0, <2>2 DEF RowsTell, Remembered, ChatTypes
  <2>4. Remembered(s) \subseteq About(s) /\ Tells(Loaded(s)) \subseteq About(s)
    BY LoadedSound DEF Knows
  <2>5. NothingForgot
    BY <2>2, <2>3 DEF NothingForgot
  <2>6. \A x \in ToSet(cache') : x \in ToSet(cache) /\ x.id # s
    BY <2>2, Typed, WithoutIs
  <2> QED BY <2>2, <2>3, <2>4, <2>5, <2>6, KnowsAfter
<1>9. CASE UNCHANGED <<session, stored, cache, object, busy, removed, raced>> \/ WebClosed
  <2>1. session' = session /\ UNCHANGED <<stored, removed, raced>> /\ (cache' = cache \/ cache' = <<>>)
        /\ (busy' = No \/ (busy' = busy /\ object' = object))
    BY <1>9 DEF WebClosed
  <2> QED BY <2>1, StillKnows
<1>10. CASE \/ \E r \in Requests : EnsureStarted(r) \/ StartTimesOut(r) \/ Submit(r) \/ GivesUp(r) \/ Enter(r)
            \/ \E d \in Dels : CheckRuntime(d)
            \/ \E b \in Asks : AskReturns(b) \/ ReplyTimesOut(b)
            \/ HandleOutbound \/ WebDispatch \/ StartRuntime \/ WebStop
  BY <1>9, <1>10 DEF EnsureStarted, StartTimesOut, Submit, GivesUp, Enter, CheckRuntime, AskReturns, ReplyTimesOut,
                    HandleOutbound, WebDispatch, StartRuntime, WebStop
<1> QED BY <1>2, <1>3, <1>4, <1>6, <1>7, <1>8, <1>9, <1>10 DEF WebNext, LoopStep

\* A request waits for its reply, or has it, only once its turn has been stored.
LEMMA NextReplied == ChatTypes /\ LocksInv /\ StagesInv /\ FreshInv /\ StoredInv /\ DeletedInv /\ WebNext => RepliedInv'
<1> SUFFICES ASSUME ChatTypes, LocksInv, StagesInv, FreshInv, StoredInv, DeletedInv, WebNext, NEW a \in Asks,
                    task'[a] = "reply" \/ http'[a] = "reply"
             PROVE  a \in Tells(stored'[session'[a]]) \cup removed'
  BY DEF RepliedInv, Remembered
<1> USE DEF sessionVars, webVars, threadVars, historyWeb, busVars
<1>1. NothingForgot
  BY NextKnows DEF StoredInv
<1>2. a \in Requests /\ session' = session /\ session[a] \in SessionIds
  BY Typed DEF WebNext, LoopStep, EnsureStarted, StartTimesOut, Submit, GivesUp, CheckRuntime, DeleteDirect, OpenChild,
         Enter, BeginTurn, DeleteInLoop, AskReturns, ReplyTimesOut, EndTurn, FailTurn, HandleOutbound, WebDispatch, StartRuntime,
         WebStop, WebClosed
<1>3. ASSUME task[a] = "reply" \/ http[a] = "reply" PROVE a \in Tells(stored'[session'[a]]) \cup removed'
  <2>1. a \in Remembered(session[a]) \cup removed
    BY <1>3 DEF StoredInv, RepliedInv
  <2>2. \A z \in SessionIds : Remembered(z) \subseteq Tells(stored'[z]) \cup removed'
    BY <1>1 DEF NothingForgot, RowsTell
  <2> QED BY <1>1, <1>2, <2>1, <2>2 DEF NothingForgot
<1>4. CASE EndTurn /\ a = busy
  <2>1. PICK s \in SessionIds : s = session[a]
    BY <1>2
  <2>2. PICK new : (new = <<Tells(object) \cup {a}>> \/ new = Append(object, {a}))
                    /\ stored' = [stored EXCEPT ![s] = RowsAfter(stored[s], new)]
    BY <1>4, <2>1, TurnSaves
  <2>3. object \in Messages /\ stored[s] \in Messages
    BY Typed
  <2>4. new \in Messages /\ Tells(new) = Tells(object) \cup {a}
    BY <2>2, <2>3, MessagesNow
  <2>5. stored' = [stored EXCEPT ![s] = new]
    BY <2>2, <2>3, <2>4, RowsAre
  <2>6. stored'[s] = new
    BY <2>5 DEF ChatTypes
  <2> QED BY <1>2, <2>1, <2>4, <2>6
<1>5. ASSUME task[a] # "reply", http[a] # "reply", ~(EndTurn /\ a = busy) PROVE FALSE
  <2>1. ASSUME NEW r \in Requests, task' = task \/ \E v \in {"queued", "lock", "done"} : task' = [task EXCEPT ![r] = v],
               http' = http \/ (\E v \in {"error", "starting", "waiting", "direct", "checked", "deleted"} : http' = [http EXCEPT ![r] = v])
                            \/ (\E v \in {"error", "deleted"} : Finish(r, v))
        PROVE  FALSE
    BY <1>2, <1>5, <2>1 DEF Finish, ChatTypes
  <2>2. ASSUME NEW r \in Requests, EnsureStarted(r) \/ StartTimesOut(r) \/ Submit(r) \/ GivesUp(r) PROVE FALSE
    <3>1. (task' = task \/ task' = [task EXCEPT ![r] = "queued"])
          /\ \E v \in {"error", "starting", "waiting"} : http' = [http EXCEPT ![r] = v]
      BY <2>2 DEF EnsureStarted, StartTimesOut, Submit, GivesUp
    <3> QED BY <2>1, <3>1
  <2>3. ASSUME NEW d \in Dels, CheckRuntime(d) \/ DeleteDirect(d) PROVE FALSE
    <3>1. task' = task /\ d \in Requests /\ \E v \in {"direct", "checked", "deleted"} : http' = [http EXCEPT ![d] = v]
      BY <2>3 DEF CheckRuntime, DeleteDirect, Requests
    <3> QED BY <2>1, <3>1
  <2>4. ASSUME NEW r \in Requests, Enter(r) \/ DeleteInLoop(r) \/ (r \in Asks /\ ReplyTimesOut(r)) \/ (r = busy /\ FailTurn) PROVE FALSE
    <3>1. (\E v \in {"queued", "lock", "done"} : task' = [task EXCEPT ![r] = v])
          /\ (http' = http \/ (\E v \in {"error", "deleted"} : Finish(r, v)))
      BY <2>4 DEF Enter, DeleteInLoop, ReplyTimesOut, FailTurn
    <3> QED BY <2>1, <3>1
  <2>5. ASSUME NEW b \in Asks, AskReturns(b) PROVE FALSE
    <3>1. b # a /\ b \in Requests /\ task' = [task EXCEPT ![b] = "done"]
          /\ http' = [http EXCEPT ![b] = IF http[b] = "waiting" THEN "reply" ELSE http[b]]
      BY <1>5, <2>5, Typed DEF AskReturns, Finish
    <3> QED BY <1>2, <1>5, <3>1 DEF ChatTypes
  <2>6. CASE EndTurn
    <3>1. busy \in Requests /\ busy # a /\ http' = http /\ task' = [task EXCEPT ![busy] = "reply"]
      BY <1>5, <2>6, Typed DEF EndTurn
    <3> QED BY <1>2, <1>5, <3>1 DEF ChatTypes
  <2>7. CASE WebClosed
    <3>1. task'[a] = "none" /\ http'[a] = IF http[a] \in {"idle", "reply", "deleted", "error"} THEN http[a] ELSE "error"
      BY <1>2, <2>7 DEF WebClosed
    <3> QED BY <1>5, <3>1
  <2>8. CASE (\E r \in Requests : BeginTurn(r)) \/ (\E s \in SessionIds : OpenChild(s))
             \/ HandleOutbound \/ WebDispatch \/ StartRuntime \/ WebStop
    <3>1. task' = task /\ http' = http
      BY <2>8 DEF BeginTurn, OpenChild, HandleOutbound, WebDispatch, StartRuntime, WebStop
    <3> QED BY <1>5, <3>1
  <2>9. (FailTurn => busy \in Requests) /\ Asks \subseteq Requests
    BY Typed DEF FailTurn
  <2> QED BY <2>2, <2>3, <2>4, <2>5, <2>6, <2>7, <2>8, <2>9 DEF WebNext, LoopStep
<1> QED BY <1>3, <1>4, <1>5

-----------------------------------------------------------------------------
(* The web server                                                           *)

\* Only the web server's chat uses the sessions and the requests.
WebInv == IF channel = "web chat" THEN ChatInv ELSE http = [r \in Requests |-> "idle"] /\ removed = {}

LEMMA InitWeb == Init => WebInv
<1> SUFFICES ASSUME Init PROVE WebInv
  OBVIOUS
<1>1. /\ outbound = <<>> /\ dispatcher = "none" /\ current = <<>> /\ cache = <<>> /\ stored = [s \in SessionIds |-> <<>>]
      /\ service = "none" /\ http = [r \in Requests |-> "idle"] /\ session \in [Requests -> SessionIds]
      /\ locks = [s \in SessionIds |-> <<>>] /\ task = [r \in Requests |-> "none"]
      /\ pending = [s \in SessionIds |-> No] /\ result = [a \in Asks |-> No]
      /\ busy = No /\ object = <<>> /\ removed = {} /\ raced = {}
  BY DEF Init, BusInit, SessionsInit, WebInit
<1>2. ToSet(<<>>) = {} /\ Tells(<<>>) = {} /\ DOMAIN <<>> = {} /\ <<>> \in Messages /\ UniqueIds(<<>>)
  BY DEF ToSet, Tells, Messages, UniqueIds
<1>3. ChatTypes
  <2>1. <<>> \in Seq(Entry) /\ <<>> \in Seq(Reply) /\ <<>> \in Seq(Requests) /\ Len(<<>>) = 0
    OBVIOUS
  <2> QED BY <1>1, <1>2, <2>1 DEF ChatTypes
<1>4. LocksInv
  BY <1>1, <1>2 DEF LocksInv
<1>5. StagesInv
  BY <1>1 DEF StagesInv
<1>6. \A s \in SessionIds : Remembered(s) = {}
  BY <1>1, <1>2 DEF Remembered
<1>7. FreshInv
  BY <1>1, <1>2, <1>6 DEF FreshInv, Told
<1>8. \A a \in Asks : http[a] = "idle" /\ task[a] = "none"
  BY <1>1 DEF Requests
<1>9. QueueInv
  BY <1>1, <1>2, <1>8 DEF QueueInv, ResultsInv, OwnReply, QueueIsLive
<1>10. StoredInv /\ DeletedInv
  BY <1>1, <1>2, <1>6, <1>8 DEF StoredInv, Knows, RepliedInv, DeletedInv
<1> QED BY <1>1, <1>3, <1>4, <1>5, <1>7, <1>9, <1>10 DEF WebInv, ChatInv

LEMMA NextWeb == WebInv /\ [Next]_<<frontVars, channel>> => WebInv'
<1> SUFFICES ASSUME WebInv, [Next]_<<frontVars, channel>> PROVE WebInv'
  OBVIOUS
<1>1. channel' = channel
  BY DEF Next
<1>2. CASE channel = "web chat" /\ WebNext
  <2>1. ChatInv
    BY <1>2 DEF WebInv
  <2>2. ChatTypes' /\ LocksInv' /\ StagesInv' /\ FreshInv' /\ QueueInv'
    BY <1>2, <2>1, NextChatTypes, NextLocks, NextStages, NextFresh, NextQueue DEF ChatInv
  <2>3. Knows' /\ DeletedInv' /\ RepliedInv'
    BY <1>2, <2>1, NextKnows, NextReplied DEF ChatInv, StoredInv
  <2>4. ChatInv'
    BY <2>2, <2>3 DEF ChatInv, StoredInv
  <2> QED BY <1>1, <1>2, <2>4 DEF WebInv
<1>3. CASE channel = "web chat" /\ ~WebNext
  <2>1. UNCHANGED <<busVars, chatVars>>
    BY <1>3 DEF Next, frontVars
  <2>2. ChatInv
    BY <1>3 DEF WebInv
  <2>3. UNCHANGED <<outbound, dispatcher, current, cache, stored, service, http, session, locks, task, pending, result, busy, object, removed, raced>>
    BY <2>1 DEF busVars, chatVars, sessionVars, webVars
  <2>4. ChatTypes' /\ LocksInv' /\ StagesInv'
    BY <2>2, <2>3 DEF ChatInv, ChatTypes, LocksInv, StagesInv, Holds
  <2>5. FreshInv' /\ QueueInv'
    BY <2>2, <2>3 DEF ChatInv, FreshInv, Told, Remembered, QueueInv, ResultsInv, OwnReply, QueueIsLive, Live
  <2>6. StoredInv' /\ DeletedInv'
    BY <2>2, <2>3 DEF ChatInv, StoredInv, Knows, RepliedInv, DeletedInv, Remembered, About
  <2>7. ChatInv'
    BY <2>4, <2>5, <2>6 DEF ChatInv
  <2> QED BY <1>1, <1>3, <2>7 DEF WebInv
<1>4. CASE channel # "web chat"
  <2>1. http' = http /\ removed' = removed
    BY <1>4 DEF Next, frontVars, chatVars, webVars
  <2> QED BY <1>1, <1>4, <2>1 DEF WebInv
<1> QED BY <1>2, <1>3, <1>4

LEMMA WebCorrect == Spec => []WebInv
<1>1. Init => WebInv
  BY InitWeb
<1>2. WebInv /\ [Next]_<<frontVars, channel>> => WebInv'
  BY NextWeb
<1> QED BY <1>1, <1>2, PTL DEF Spec

\* The reply that AgentService.ask gives a user is that of the user's own turn,
\* and the turn is in the stored session, or a deletion removed it.
THEOREM AnswersAreKept == Spec => []AnswersHold
<1>1. WebInv => AnswersHold
  <2>1. CASE channel = "web chat"
    BY <2>1 DEF WebInv, ChatInv, QueueInv, ResultsInv, StoredInv, RepliedInv, AnswersHold, AnsweredIsStored
  <2>2. CASE channel # "web chat"
    <3>1. WebInv => \A a \in Asks : http[a] = "idle"
      BY <2>2 DEF WebInv, Requests
    <3> QED BY <3>1 DEF AnswersHold, OwnReply, AnsweredIsStored
  <2> QED BY <2>1, <2>2
<1> QED BY <1>1, WebCorrect, PTL

\* Whatever turns, evictions and reloads follow, what delete_session removed from a
\* session is not stored there again, unless it deleted the rows without the runtime
\* while a runtime was being started.
THEOREM DeletionsLast == Spec => []DeletedStaysDeleted
<1>1. WebInv => DeletedStaysDeleted
  BY DEF WebInv, ChatInv, DeletedInv, DeletedStaysDeleted
<1> QED BY <1>1, WebCorrect, PTL
=============================================================================
