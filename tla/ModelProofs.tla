---------------------------- MODULE ModelProofs ----------------------------
(***************************************************************************)
(* Proofs about what stands between the reasoning loop and the models: the *)
(* pool (ModelPool), for any callers, profiles, routes, threshold and      *)
(* cool-down, and the context of a call (ModelContext), for any lengths of *)
(* texts, budgets, limits, numbers of calls in a response and sessions.    *)
(***************************************************************************)
EXTENDS ModelPool, ModelContext, Recursion, FiniteSetTheorems, SequenceTheorems, TLAPS

---------------------------------------------------------------------------
(* The pool *)

\* Nothing has been shown by a call while its profile is being asked: text that a failed profile
\* has shown ends the call.
SilentInv == \A c \in Callers : pc[c] = "asked" => shown[c] = {}

\* A model name that is not that of the primary was given out while the primary was disabled.
GivenInv ==
    \A c \in Callers :
        /\ given[c] # NoProfile /\ ~down[c] => given[c] = Primary(PurposeOf[c])
        /\ pc[c] # "idle" /\ kind[c] # "check" => given[c] # NoProfile

\* What a call has tried and what it has still to try is what it may try.
TriesInv ==
    \A c \in Callers :
        pc[c] # "idle" /\ kind[c] # "check" =>
            /\ up[c] \subseteq tried[c] \cup todo[c]
            /\ up[c] = {} => DOMAIN route[PurposeOf[c]] \subseteq tried[c] \cup todo[c]

ResultInv == \A c \in Callers : pc[c] # "idle" => result[c] = "none"

\* A record counts no more failures than there were, and disables for a cause.
Founded(record, n) ==
    /\ record.failures <= since[n]
    /\ record.until > 0 => since[n] >= Threshold \/ n \in forced

RecordsInv ==
    \A n \in Profiles \ raced :
        /\ Founded(health[n], n)
        /\ \A c \in Callers : pc[c] = "mark" /\ Current(c) = n => Founded(copy[c], n)

CallsInv ==
    SilentInv /\ OneVoice /\ GivenInv /\ TriesInv /\ ResultInv /\ FailedMeansTried

-----------------------------------------------------------------------------
LEMMA RoutesAreLists ==
    ASSUME TypeOK, NEW p \in Purposes
    PROVE  /\ route[p] \in Seq(Profiles)
           /\ 1 \in DOMAIN route[p]
           /\ Primary(p) = route[p][1]
           /\ DOMAIN route[p] \subseteq Nat \ {0}
           /\ \A i \in DOMAIN route[p] : route[p][i] \in Profiles
  BY DEF TypeOK, Primary

LEMMA CurrentIsProfile ==
    ASSUME TypeOK, NEW c \in Callers
    PROVE  Current(c) \in Profiles
<1>1. PurposeOf[c] \in Purposes
  BY PoolAssumption
<1> QED BY <1>1, RoutesAreLists DEF Current, TypeOK

LEMMA PlacesAreInRoute ==
    ASSUME NEW p \in Purposes
    PROVE  /\ Free(p) \subseteq ForCall(p)
           /\ ForCall(p) \subseteq DOMAIN route[p]
           /\ Free(p) = {} => ForCall(p) = DOMAIN route[p]
  BY DEF Free, ForCall

LEMMA FailedIsRecord ==
    ASSUME TypeOK, NEW n \in Profiles, NEW force \in BOOLEAN
    PROVE  Failed(n, force) \in Records
  BY PoolAssumption DEF TypeOK, Failed, Records

LEMMA InitTypeOK == Init => TypeOK
<1> SUFFICES ASSUME Init PROVE TypeOK
  OBVIOUS
<1>1. route \in [Purposes -> Seq(Profiles) \ {<<>>}]
  BY PoolAssumption DEF Init
<1>2. ASSUME NEW c \in Callers PROVE 1 \in DOMAIN route[PurposeOf[c]]
  BY <1>1, PoolAssumption
<1>3. Healthy \in Records
  BY DEF Healthy, Records
<1> QED BY <1>1, <1>2, <1>3, PoolAssumption DEF Init, TypeOK

LEMMA BeginTypeOK ==
    ASSUME TypeOK, NEW c \in Callers, NEW k \in {"chat", "stream", "check"},
           NEW places \in SUBSET DOMAIN route[PurposeOf[c]], Begin(c, k, places)
    PROVE  TypeOK'
<1>1. PurposeOf[c] \in Purposes
  BY PoolAssumption
<1>2. Free(PurposeOf[c]) \subseteq DOMAIN route[PurposeOf[c]]
  BY DEF Free
<1>3. places \in SUBSET Nat /\ Free(PurposeOf[c]) \in SUBSET Nat
  BY <1>1, <1>2, RoutesAreLists
<1>4. PICK i \in places : /\ at' = [at EXCEPT ![c] = i]
                          /\ todo' = [todo EXCEPT ![c] = places \ {i}]
                          /\ tried' = [tried EXCEPT ![c] = {i}]
  BY DEF Begin, Set
<1>5. /\ at' \in [Callers -> Nat]
      /\ todo' \in [Callers -> SUBSET Nat]
      /\ tried' \in [Callers -> SUBSET Nat]
      /\ up' \in [Callers -> SUBSET Nat]
  BY <1>3, <1>4 DEF TypeOK, Begin, Set
<1>6. ASSUME NEW d \in Callers
      PROVE  /\ at'[d] \in DOMAIN route[PurposeOf[d]]
             /\ todo'[d] \subseteq DOMAIN route[PurposeOf[d]]
             /\ tried'[d] \subseteq DOMAIN route[PurposeOf[d]]
             /\ up'[d] \subseteq DOMAIN route[PurposeOf[d]]
  <2>1. CASE d = c
    BY <2>1, <1>2, <1>4 DEF TypeOK, Begin, Set
  <2>2. CASE d # c
    BY <2>2, <1>4 DEF TypeOK, Begin, Set
  <2> QED BY <2>1, <2>2
<1>7. /\ pc' \in [Callers -> {"idle", "asked", "mark"}]
      /\ kind' \in [Callers -> {"chat", "stream", "check"}]
      /\ result' \in [Callers -> {"none", "ok", "raised", "failed"}]
      /\ shown' \in [Callers -> SUBSET Profiles]
      /\ calls' \in 0..MaxCalls
  BY PoolAssumption DEF TypeOK, Begin, Set
<1>8. UNCHANGED <<route, now, health, given, copy, down, since, forced, raced>>
  BY DEF Begin, history
<1> QED BY <1>5, <1>6, <1>7, <1>8 DEF TypeOK

\* Every step keeps the types.
LEMMA NextTypeOK == TypeOK /\ [Next]_vars => TypeOK'
<1> SUFFICES ASSUME TypeOK, [Next]_vars PROVE TypeOK'
  OBVIOUS
<1> USE PoolAssumption DEF Set, call, history
<1>1. CASE UNCHANGED vars
  BY <1>1 DEF vars, TypeOK
<1>2. CASE Tick
  BY <1>2 DEF Tick, TypeOK
<1>3. ASSUME NEW c \in Callers, Resolve(c) PROVE TypeOK'
  <2>1. PurposeOf[c] \in Purposes
    OBVIOUS
  <2>2. ForCall(PurposeOf[c]) \subseteq DOMAIN route[PurposeOf[c]]
    BY <2>1, PlacesAreInRoute
  <2> QED BY <1>3, <2>1, <2>2, RoutesAreLists DEF Resolve, TypeOK, IsFirst, Available
<1>4. ASSUME NEW c \in Callers, NEW k \in {"chat", "stream"}, Call(c, k) PROVE TypeOK'
  BY <1>4, BeginTypeOK, PlacesAreInRoute DEF Call
<1>5. ASSUME NEW c \in Callers, Check(c) PROVE TypeOK'
  BY <1>5, BeginTypeOK, RoutesAreLists DEF Check
<1>6. ASSUME NEW c \in Callers, Succeed(c) PROVE TypeOK'
  <2>1. Current(c) \in Profiles
    BY CurrentIsProfile
  <2>2. shown' \in [Callers -> SUBSET Profiles]
    BY <1>6, <2>1 DEF Succeed, TypeOK
  <2>3. /\ health' \in [Profiles -> Records]
        /\ since' \in [Profiles -> Nat]
        /\ forced' \in SUBSET Profiles /\ raced' \in SUBSET Profiles
    BY <1>6, <2>1 DEF Succeed, TypeOK, Healthy, Records
  <2>4. /\ pc' \in [Callers -> {"idle", "asked", "mark"}]
        /\ result' \in [Callers -> {"none", "ok", "raised", "failed"}]
    BY <1>6 DEF Succeed, TypeOK
  <2> QED BY <1>6, <2>2, <2>3, <2>4 DEF Succeed, TypeOK
<1>7. ASSUME NEW c \in Callers, Break(c) PROVE TypeOK'
  <2>1. Current(c) \in Profiles
    BY CurrentIsProfile
  <2>2. Failed(Current(c), kind[c] = "check") \in Records
    BY <2>1, FailedIsRecord
  <2>3. shown' \in [Callers -> SUBSET Profiles]
    BY <1>7, <2>1 DEF Break, TypeOK
  <2>4. /\ copy' \in [Callers -> Records]
        /\ since' \in [Profiles -> Nat]
        /\ forced' \in SUBSET Profiles
        /\ pc' \in [Callers -> {"idle", "asked", "mark"}]
    BY <1>7, <2>1, <2>2 DEF Break, TypeOK
  <2> QED BY <1>7, <2>3, <2>4 DEF Break, TypeOK
<1>8. ASSUME NEW c \in Callers, Mark(c)
      PROVE  health' \in [Profiles -> Records] /\ copy' \in [Callers -> Records]
  BY <1>8, CurrentIsProfile DEF Mark, TypeOK, Healthy, Records
<1>9. ASSUME NEW c \in Callers, Raise(c) PROVE TypeOK'
  BY <1>8, <1>9 DEF Raise, TypeOK
<1>10. ASSUME NEW c \in Callers, TryNext(c) PROVE TypeOK'
  BY <1>8, <1>10 DEF TryNext, Ask, TypeOK, IsFirst
<1>11. ASSUME NEW c \in Callers, GiveUp(c) PROVE TypeOK'
  BY <1>8, <1>11 DEF GiveUp, TypeOK
<1> QED BY <1>1, <1>2, <1>3, <1>4, <1>5, <1>6, <1>7, <1>9, <1>10, <1>11 DEF Next, Running

\* The state of the pool is well typed, and a call only ever tries places of its route: the choice
\* of profiles by route_profiles_for_call and _call_with_fallbacks.
THEOREM TypeCorrect == Spec => []TypeOK
  BY InitTypeOK, NextTypeOK, PTL DEF Spec

-----------------------------------------------------------------------------
LEMMA InitCallsInv == Init => CallsInv
  BY DEF Init, CallsInv, SilentInv, OneVoice, GivenInv, TriesInv, ResultInv, FailedMeansTried

\* A name that model_for gives out while the primary is available is the primary's.
LEMMA ResolveStep ==
    ASSUME TypeOK, CallsInv, NEW c \in Callers, Resolve(c)
    PROVE  CallsInv'
<1> USE PoolAssumption DEF Resolve, Set, call, TypeOK, CallsInv
<1>1. GivenInv'
  <2>1. PurposeOf[c] \in Purposes
    OBVIOUS
  <2>2. PICK i \in DOMAIN route[PurposeOf[c]] :
            /\ IsFirst(i, ForCall(PurposeOf[c]))
            /\ given' = [given EXCEPT ![c] = route[PurposeOf[c]][i]]
    OBVIOUS
  <2>3. ASSUME Available(Primary(PurposeOf[c])) PROVE i = 1
    <3>1. 1 \in Free(PurposeOf[c])
      BY <2>1, <2>3, RoutesAreLists DEF Free
    <3>2. 1 \in ForCall(PurposeOf[c])
      BY <2>1, <3>1, PlacesAreInRoute
    <3> QED BY <2>1, <2>2, <3>2, RoutesAreLists DEF IsFirst
  <2>4. ~down'[c] => given'[c] = Primary(PurposeOf[c])
    BY <2>1, <2>2, <2>3, RoutesAreLists
  <2> QED BY <2>2, <2>4 DEF GivenInv, Primary
<1>2. SilentInv' /\ OneVoice' /\ ResultInv'
  BY DEF SilentInv, OneVoice, ResultInv
<1>3. FailedMeansTried' /\ TriesInv'
  BY DEF FailedMeansTried, TriesInv
<1> QED BY <1>1, <1>2, <1>3

\* A call starts with all the profiles that it may try.
LEMMA BeginStep ==
    ASSUME TypeOK, CallsInv, NEW c \in Callers, NEW k \in {"chat", "stream", "check"},
           NEW places, Begin(c, k, places),
           k # "check" => places = ForCall(PurposeOf[c]) /\ given[c] # NoProfile
    PROVE  CallsInv'
<1> USE DEF Begin, Set, history, TypeOK, CallsInv
<1>1. SilentInv' /\ OneVoice'
  BY DEF SilentInv, OneVoice
<1>4. ResultInv'
  BY DEF ResultInv
<1>5. FailedMeansTried'
  <2>1. ASSUME NEW d \in Callers, result'[d] = "failed"
        PROVE  /\ d # c /\ result[d] = "failed"
               /\ up'[d] = up[d] /\ tried'[d] = tried[d] /\ route' = route
    BY <2>1
  <2> QED BY <2>1 DEF FailedMeansTried
<1>2. GivenInv'
  BY DEF GivenInv, Primary
<1>3. TriesInv'
  <2>1. PurposeOf[c] \in Purposes
    BY PoolAssumption
  <2>2. todo'[c] \cup tried'[c] = places
    BY DEF IsFirst
  <2>3. up'[c] = Free(PurposeOf[c]) /\ route' = route
    OBVIOUS
  <2>4. ASSUME k # "check"
        PROVE  /\ up'[c] \subseteq places
               /\ up'[c] = {} => DOMAIN route'[PurposeOf[c]] \subseteq places
    <3> HIDE DEF Begin, TypeOK, CallsInv
    <3> QED BY <2>1, <2>3, <2>4, PlacesAreInRoute
  <2> QED BY <2>2, <2>4 DEF TriesInv
<1> QED BY <1>1, <1>2, <1>3, <1>4, <1>5

\* What a provider shows is the text of one profile.
LEMMA AnswerStep ==
    ASSUME TypeOK, CallsInv, NEW c \in Callers, Succeed(c) \/ Break(c)
    PROVE  CallsInv'
<1>1. /\ shown' = [shown EXCEPT ![c] = shown'[c]]
      /\ shown'[c] \subseteq shown[c] \cup {Current(c)}
      /\ pc[c] = "asked" /\ pc' = [pc EXCEPT ![c] = pc'[c]] /\ pc'[c] \in {"idle", "mark"}
  <2>1. CASE Succeed(c)
    BY <2>1 DEF Succeed, Set, TypeOK
  <2>2. CASE Break(c)
    BY <2>2 DEF Break, Set, TypeOK
  <2> QED BY <2>1, <2>2
<1>2. SilentInv' /\ OneVoice'
  <2>1. shown[c] = {} /\ DOMAIN shown = Callers /\ DOMAIN pc = Callers
    BY <1>1 DEF SilentInv, TypeOK, CallsInv
  <2>2. \A d \in Callers \ {c} : shown'[d] = shown[d] /\ pc'[d] = pc[d]
    BY <1>1, <2>1
  <2>3. shown'[c] \subseteq {Current(c)}
    BY <1>1, <2>1
  <2> QED BY <1>1, <2>2, <2>3 DEF SilentInv, OneVoice, CallsInv
<1>3. UNCHANGED <<route, kind, given, todo, tried, up, down>>
  BY DEF Succeed, Break
<1>4. GivenInv' /\ TriesInv'
  BY <1>1, <1>3 DEF GivenInv, Primary, TriesInv, TypeOK, CallsInv
<1>5. ResultInv' /\ FailedMeansTried'
  <2>1. CASE Succeed(c)
    BY <1>1, <1>3, <2>1 DEF Succeed, Set, ResultInv, FailedMeansTried, TypeOK, CallsInv
  <2>2. CASE Break(c)
    BY <1>1, <1>3, <2>2 DEF Break, ResultInv, FailedMeansTried, TypeOK, CallsInv
  <2> QED BY <2>1, <2>2
<1> QED BY <1>2, <1>4, <1>5 DEF CallsInv

\* After a failure the call ends, or goes on with the profiles that are left.
LEMMA FailureStep ==
    ASSUME TypeOK, CallsInv, NEW c \in Callers, Raise(c) \/ TryNext(c) \/ GiveUp(c)
    PROVE  CallsInv'
<1> USE DEF Mark, Set, history, TypeOK, CallsInv
<1>1. CASE Raise(c)
  <2>1. SilentInv' /\ OneVoice' /\ ResultInv'
    BY <1>1 DEF Raise, SilentInv, OneVoice, ResultInv
  <2>2. GivenInv' /\ TriesInv'
    BY <1>1 DEF Raise, GivenInv, Primary, TriesInv
  <2>3. FailedMeansTried'
    BY <1>1 DEF Raise, FailedMeansTried
  <2> QED BY <2>1, <2>2, <2>3
<1>2. CASE TryNext(c)
  <2>1. todo'[c] \cup tried'[c] = todo[c] \cup tried[c]
    BY <1>2 DEF TryNext, Ask, IsFirst
  <2>2. TriesInv'
    BY <1>2, <2>1 DEF TryNext, Ask, TriesInv
  <2>3. FailedMeansTried'
    BY <1>2 DEF TryNext, Ask, ResultInv, FailedMeansTried
  <2>4. SilentInv' /\ OneVoice' /\ GivenInv' /\ ResultInv'
    BY <1>2 DEF TryNext, Ask, SilentInv, OneVoice, GivenInv, Primary, ResultInv
  <2> QED BY <2>2, <2>3, <2>4
<1>3. CASE GiveUp(c)
  <2>1. FailedMeansTried'
    BY <1>3 DEF GiveUp, TriesInv, FailedMeansTried
  <2>2. SilentInv' /\ OneVoice' /\ ResultInv'
    BY <1>3 DEF GiveUp, SilentInv, OneVoice, ResultInv
  <2>3. GivenInv' /\ TriesInv'
    BY <1>3 DEF GiveUp, GivenInv, Primary, TriesInv
  <2> QED BY <2>1, <2>2, <2>3
<1> QED BY <1>1, <1>2, <1>3

LEMMA NextCallsInv == TypeOK /\ CallsInv /\ [Next]_vars => CallsInv'
<1> SUFFICES ASSUME TypeOK, CallsInv, [Next]_vars PROVE CallsInv'
  OBVIOUS
<1>1. CASE Tick \/ UNCHANGED vars
  BY <1>1 DEF Tick, vars, call, history, CallsInv, SilentInv, OneVoice, GivenInv, Primary,
              TriesInv, ResultInv, FailedMeansTried
<1>2. ASSUME NEW c \in Callers, NEW k \in {"chat", "stream"}, Call(c, k) PROVE CallsInv'
  BY <1>2, BeginStep DEF Call
<1>3. ASSUME NEW c \in Callers, Check(c) PROVE CallsInv'
  BY <1>3, BeginStep DEF Check
<1> QED BY <1>1, <1>2, <1>3, ResolveStep, AnswerStep, FailureStep DEF Next, Running

LEMMA SpecCallsInv == Spec => [](TypeOK /\ CallsInv)
  BY InitTypeOK, NextTypeOK, InitCallsInv, NextCallsInv, PTL DEF Spec

\* The text of one stream_chat comes from one profile, however often profiles fail.
THEOREM StreamsHaveOneVoice == Spec => []OneVoice
  BY SpecCallsInv, PTL DEF CallsInv

\* ModelRouteError means that all the available profiles, or else all profiles, were tried.
THEOREM FailureIsExhaustive == Spec => []FailedMeansTried
  BY SpecCallsInv, PTL DEF CallsInv

\* A profile is asked for another's model only after the primary was disabled and came back.
THEOREM ModelFitsProfile == Spec => []WrongModelOnlyAfterSwitch
<1>1. TypeOK /\ CallsInv => WrongModelOnlyAfterSwitch
  BY DEF TypeOK, CallsInv, GivenInv, WrongModelOnlyAfterSwitch, Selected
<1> QED BY <1>1, SpecCallsInv, PTL

-----------------------------------------------------------------------------
\* One more failure leaves the record of a profile founded.
LEMMA FailedIsFounded ==
    ASSUME TypeOK, NEW n \in Profiles, NEW force \in BOOLEAN, Founded(health[n], n),
           since'[n] = since[n] + 1, forced \subseteq forced', force => n \in forced'
    PROVE  /\ Failed(n, force).failures <= since'[n]
           /\ Failed(n, force).until > 0 => since'[n] >= Threshold \/ n \in forced'
  BY PoolAssumption DEF Failed, Founded, TypeOK, Records

\* Every step keeps the records founded of the profiles that no success has raced with.
LEMMA NextRecordsInv == TypeOK /\ RecordsInv /\ [Next]_vars => RecordsInv'
<1> SUFFICES ASSUME TypeOK, RecordsInv, [Next]_vars PROVE RecordsInv'
  OBVIOUS
<1> USE DEF TypeOK, RecordsInv
<1>1. CASE Tick \/ UNCHANGED vars
  BY <1>1 DEF Tick, vars, call, history, Current, Founded
<1>2. ASSUME NEW c \in Callers, Resolve(c) PROVE RecordsInv'
  BY <1>2 DEF Resolve, Set, call, history, Current, Founded
<1>3. ASSUME NEW c \in Callers, NEW k, NEW places, Begin(c, k, places) PROVE RecordsInv'
  BY <1>3 DEF Begin, Set, history, Current, Founded
<1>4. ASSUME NEW c \in Callers, Succeed(c) PROVE RecordsInv'
  <2>1. Current(c) \in Profiles
    BY CurrentIsProfile
  <2>2. \A d \in Callers : pc'[d] = "mark" => d # c /\ pc[d] = "mark" /\ Current(d)' = Current(d)
    BY <1>4 DEF Succeed, Set, Current
  <2>3. ASSUME NEW n \in Profiles \ raced', n # Current(c)
        PROVE  n \notin raced /\ UNCHANGED <<health[n], since[n], n \in forced>>
    BY <1>4, <2>1, <2>3 DEF Succeed, Set
  <2>4. Current(c) \notin raced' =>
            \A d \in Callers \ {c} : pc[d] = "mark" => Current(d) # Current(c)
    BY <1>4, <2>1 DEF Succeed
  <2>5. health'[Current(c)] = Healthy /\ since'[Current(c)] = 0
    BY <1>4, <2>1 DEF Succeed, Set
  <2>6. copy' = copy
    BY <1>4 DEF Succeed
  <2>7. ASSUME NEW n \in Profiles \ raced' PROVE Founded(health[n], n)'
    <3>1. CASE n = Current(c)
      BY <2>5, <3>1 DEF Founded, Healthy
    <3>2. CASE n # Current(c)
      BY <2>3, <3>2 DEF Founded
    <3> QED BY <3>1, <3>2
  <2>8. ASSUME NEW n \in Profiles \ raced', NEW d \in Callers,
               pc'[d] = "mark", Current(d)' = n
        PROVE  Founded(copy[d], n)'
    <3>1. d # c /\ pc[d] = "mark" /\ Current(d) = n
      BY <2>2, <2>8
    <3>2. n # Current(c)
      BY <2>4, <3>1
    <3> QED BY <2>3, <2>6, <3>1, <3>2 DEF Founded
  <2> QED BY <2>7, <2>8
<1>5. ASSUME NEW c \in Callers, Break(c) PROVE RecordsInv'
  <2>1. PICK n \in Profiles : n = Current(c)
    BY CurrentIsProfile
  <2>2. /\ since' = [since EXCEPT ![n] = since[n] + 1]
        /\ copy' = [copy EXCEPT ![c] = Failed(n, kind[c] = "check")]
        /\ pc' = [pc EXCEPT ![c] = "mark"]
        /\ forced \subseteq forced' /\ (kind[c] = "check" => n \in forced')
        /\ UNCHANGED <<health, raced>>
        /\ \A d \in Callers : Current(d)' = Current(d)
    BY <1>5, <2>1 DEF Break, Set, Current
  <2>3. ASSUME NEW m \in Profiles
        PROVE  /\ since[m] <= since'[m] /\ since[m] \in Nat /\ since'[m] \in Nat
               /\ m \in forced => m \in forced'
    BY <2>1, <2>2
  <2>4. ASSUME n \notin raced PROVE Founded(copy[c], n)'
    <3>1. since'[n] = since[n] + 1 /\ copy'[c] = Failed(n, kind[c] = "check")
      BY <2>1, <2>2
    <3>2. Founded(health[n], n)
      BY <2>1, <2>4
    <3>3. (kind[c] = "check") \in BOOLEAN
      OBVIOUS
    <3>4. /\ Failed(n, kind[c] = "check").failures <= since'[n]
          /\ Failed(n, kind[c] = "check").until > 0 => since'[n] >= Threshold \/ n \in forced'
      BY <2>1, <2>2, <3>1, <3>2, <3>3, FailedIsFounded
    <3> QED BY <3>1, <3>4 DEF Founded
  <2>5. ASSUME NEW m \in Profiles \ raced, NEW d \in Callers, pc'[d] = "mark", Current(d) = m
        PROVE  Founded(copy[d], m)'
    <3>1. CASE d = c
      BY <2>1, <2>4, <2>5, <3>1
    <3>2. CASE d # c
      <4>1. copy'[d] = copy[d] /\ pc[d] = "mark" /\ copy[d] \in Records
        BY <2>2, <2>5, <3>2
      <4>2. Founded(copy[d], m)
        BY <2>5, <4>1
      <4>3. copy[d].failures \in Nat
        BY <4>1 DEF Records
      <4> HIDE DEF TypeOK, RecordsInv
      <4> QED BY <2>3, <4>1, <4>2, <4>3, PoolAssumption DEF Founded
    <3> QED BY <3>1, <3>2
  <2>6. ASSUME NEW m \in Profiles \ raced PROVE Founded(health[m], m)'
    <3>1. Founded(health[m], m) /\ health'[m] = health[m]
      BY <2>2, <2>6
    <3>2. health[m].failures \in Nat /\ health[m].until \in Nat
      BY <2>6 DEF Records
    <3> HIDE DEF TypeOK, RecordsInv
    <3> QED BY <2>3, <3>1, <3>2, PoolAssumption DEF Founded
  <2> QED BY <2>2, <2>5, <2>6
<1>6. ASSUME NEW c \in Callers, Raise(c) \/ TryNext(c) \/ GiveUp(c) PROVE RecordsInv'
  <2>1. Mark(c) /\ UNCHANGED <<route, since, forced, raced>>
    BY <1>6 DEF Raise, TryNext, GiveUp, history
  <2>2. \A d \in Callers : pc'[d] = "mark" =>
            d # c /\ pc[d] = "mark" /\ Current(d)' = Current(d) /\ copy'[d] = copy[d]
    BY <1>6, <2>1 DEF Raise, TryNext, GiveUp, Ask, Mark, Set, Current
  <2> QED BY <2>1, <2>2, CurrentIsProfile DEF Mark, Set, Founded
<1> QED BY <1>1, <1>2, <1>3, <1>4, <1>5, <1>6 DEF Next, Running, Call, Check

\* Success and failure of calls that overlap on one profile are the only way in which it is disabled
\* without the failures for it.
THEOREM DisablingIsFounded == Spec => []DisabledForCause
<1>1. Init => RecordsInv
  BY DEF Init, RecordsInv, Founded, Healthy
<1>2. TypeOK /\ RecordsInv => DisabledForCause
  BY DEF TypeOK, RecordsInv, Founded, Records, DisabledForCause, Available
<1> QED BY <1>1, <1>2, InitTypeOK, NextTypeOK, NextRecordsInv, PTL DEF Spec

---------------------------------------------------------------------------
(* The context: places in a sequence of messages *)

Places(n) == SUBSET (1..n)

\* How many of the places are not behind i.
Rank(K, i) == Cardinality({j \in K : j <= i})

LEMMA RankIs ==
  ASSUME NEW n \in Nat, NEW K \in Places(n), NEW i \in Nat
  PROVE  /\ IsFiniteSet(K) /\ Cardinality(K) \in Nat
         /\ Rank(K, i) \in Nat /\ Rank(K, i) <= Cardinality(K) /\ (n <= i => Rank(K, i) = Cardinality(K))
         /\ Rank(K, 0) = 0
         /\ Rank(K, i + 1) = IF i + 1 \in K THEN Rank(K, i) + 1 ELSE Rank(K, i)
<1> \A j \in K : j \in 1..n
  BY DEF Places
<1> DEFINE S == {j \in K : j <= i}
<1>1. IsFiniteSet(K) /\ Cardinality(K) \in Nat
  <2>1. IsFiniteSet(1..n)
    BY FS_Interval
  <2> QED BY <2>1, FS_Subset, FS_CardinalityType
<1>2. S \in SUBSET K
  OBVIOUS
<1>3. IsFiniteSet(S) /\ Cardinality(S) \in Nat /\ Cardinality(S) <= Cardinality(K)
  BY <1>1, <1>2, FS_Subset, FS_CardinalityType
<1>4. ASSUME n <= i PROVE S = K
  <2>1. \A j \in K : j <= i
    BY <1>4
  <2> QED BY <2>1, Zenon
<1>5. {j \in K : j <= 0} = {}
  <2>1. \A j \in K : ~(j <= 0)
    OBVIOUS
  <2> QED BY <2>1, Zenon
<1>6. CASE i + 1 \in K
  <2>0. (\A j \in K : j <= i + 1 <=> j <= i \/ j = i + 1) /\ ~(i + 1 <= i)
    OBVIOUS
  <2>1. {j \in K : j <= i + 1} = S \cup {i + 1} /\ i + 1 \notin S
    BY <1>6, <2>0, Zenon
  <2>2. Cardinality(S \cup {i + 1}) = Cardinality(S) + 1
    BY <1>3, <2>1, FS_AddElement
  <2> QED BY <1>1, <1>3, <1>4, <1>5, <1>6, <2>1, <2>2, FS_EmptySet DEF Rank
<1>7. CASE i + 1 \notin K
  <2>0. \A j \in K : j <= i + 1 <=> j <= i \/ j = i + 1
    OBVIOUS
  <2>1. {j \in K : j <= i + 1} = S
    BY <1>7, <2>0, Zenon
  <2> QED BY <1>1, <1>3, <1>4, <1>5, <1>7, <2>1, FS_EmptySet DEF Rank
<1> QED BY <1>6, <1>7

LEMMA RankGrows ==
  ASSUME NEW n \in Nat, NEW K \in Places(n), NEW i \in Nat, NEW j \in Nat, i <= j
  PROVE  Rank(K, i) <= Rank(K, j) /\ (i < j /\ j \in K => Rank(K, i) < Rank(K, j))
<1> \A k \in K : k \in 1..n
  BY DEF Places
<1>r. \A a \in Nat : Rank(K, a) \in Nat /\ Rank(K, a + 1) = IF a + 1 \in K THEN Rank(K, a) + 1 ELSE Rank(K, a)
  BY RankIs
<1> DEFINE P == {d \in Nat : Rank(K, i) <= Rank(K, i + d)}
<1>1. 0 \in P
  BY <1>r
<1>2. ASSUME NEW d \in Nat, d \in P PROVE d + 1 \in P
  <2>1. i + d \in Nat /\ i + (d + 1) = (i + d) + 1
    OBVIOUS
  <2>2. Rank(K, i) \in Nat /\ Rank(K, i + d) \in Nat
    BY <1>r, <2>1
  <2>3. Rank(K, (i + d) + 1) = IF (i + d) + 1 \in K THEN Rank(K, i + d) + 1 ELSE Rank(K, i + d)
    BY <1>r, <2>1
  <2>4. Rank(K, i) <= Rank(K, i + (d + 1))
    BY <1>2, <2>1, <2>2, <2>3
  <2> QED BY <2>4
<1> HIDE DEF P
<1>3. Nat \subseteq P
  BY <1>1, <1>2, SetInduction
<1>4. ASSUME NEW k \in Nat, i <= k PROVE Rank(K, i) <= Rank(K, k)
  <2>1. k - i \in Nat /\ i + (k - i) = k
    BY <1>4
  <2> QED BY <1>3, <2>1 DEF P
<1>5. ASSUME i < j, j \in K PROVE Rank(K, i) < Rank(K, j)
  <2>1. j - 1 \in Nat /\ i <= j - 1 /\ j - 1 + 1 = j
    BY <1>5
  <2>2. Rank(K, j) = Rank(K, j - 1) + 1 /\ Rank(K, i) <= Rank(K, j - 1)
    BY <1>4, <1>5, <2>1, <1>r
  <2> QED BY <2>1, <2>2, <1>r
<1> QED BY <1>4, <1>5

LEMMA NthIs ==
  ASSUME NEW n \in Nat, NEW K \in Places(n), NEW k \in 1..Cardinality(K)
  PROVE  Nth(K, k) \in K /\ Rank(K, Nth(K, k)) = k
<1> \A j \in K : j \in 1..n
  BY DEF Places
<1>r. \A a \in Nat : Rank(K, a) \in Nat /\ Rank(K, a + 1) = IF a + 1 \in K THEN Rank(K, a) + 1 ELSE Rank(K, a)
  BY RankIs
<1>z. Rank(K, 0) = 0
  BY RankIs
<1> DEFINE P == {i \in Nat : \A r \in 1..Rank(K, i) : \E x \in K : Rank(K, x) = r}
<1>1. 0 \in P
  BY <1>z
<1>2. ASSUME NEW i \in Nat, i \in P PROVE i + 1 \in P
  <2> SUFFICES ASSUME NEW r \in 1..Rank(K, i + 1) PROVE \E x \in K : Rank(K, x) = r
    OBVIOUS
  <2>1. Rank(K, i) \in Nat /\ Rank(K, i + 1) = IF i + 1 \in K THEN Rank(K, i) + 1 ELSE Rank(K, i)
    BY <1>r
  <2>2. CASE r \in 1..Rank(K, i)
    BY <1>2, <2>2
  <2>3. CASE r \notin 1..Rank(K, i)
    <3>1. i + 1 \in K /\ r = Rank(K, i + 1)
      BY <2>1, <2>3
    <3> QED BY <3>1
  <2> QED BY <2>2, <2>3
<1> HIDE DEF P
<1>3. Nat \subseteq P
  BY <1>1, <1>2, SetInduction
<1>4. Rank(K, n) = Cardinality(K)
  <2>1. n <= n
    OBVIOUS
  <2> QED BY <2>1, RankIs
<1>5. \E x \in K : Rank(K, x) = k
  BY <1>3, <1>4 DEF P
<1> QED BY <1>5 DEF Nth, Rank

LEMMA NthRank ==
  ASSUME NEW n \in Nat, NEW K \in Places(n), NEW i \in K
  PROVE  Rank(K, i) \in 1..Cardinality(K) /\ Nth(K, Rank(K, i)) = i
<1> \A j \in K : j \in 1..n
  BY DEF Places
<1>r. \A a \in Nat : Rank(K, a) \in Nat /\ Rank(K, a) <= Cardinality(K)
  BY RankIs
<1>g. \A a, b \in Nat : a < b /\ b \in K => Rank(K, a) < Rank(K, b)
  <2> TAKE a, b \in Nat
  <2> HAVE a < b /\ b \in K
  <2>1. a <= b
    OBVIOUS
  <2> QED BY <2>1, RankGrows
<1> DEFINE r == Rank(K, i)
<1>1. r \in Nat /\ Cardinality(K) \in Nat /\ r <= Cardinality(K) /\ Rank(K, 0) = 0
  <2>1. i \in Nat /\ 0 \in Nat
    OBVIOUS
  <2> QED BY <2>1, RankIs
<1>2. r > 0
  BY <1>1, <1>g
<1>3. r \in 1..Cardinality(K)
  BY <1>1, <1>2
<1> HIDE DEF r
<1>4. Nth(K, r) \in K /\ Rank(K, Nth(K, r)) = r
  BY <1>3, NthIs
<1>5. ASSUME NEW a \in K, NEW b \in K, a < b PROVE Rank(K, a) # Rank(K, b)
  <2>1. Rank(K, a) < Rank(K, b)
    BY <1>5, <1>g
  <2> QED BY <2>1, <1>r
<1>6. Nth(K, r) = i
  <2>1. Nth(K, r) \in 1..n /\ i \in 1..n
    BY <1>4
  <2> QED BY <1>4, <1>5, <2>1 DEF r
<1> QED BY <1>3, <1>6 DEF r

\* Places that follow each other without a gap are chosen without a gap.
LEMMA NthRun ==
  ASSUME NEW n \in Nat, NEW K \in Places(n), NEW i \in Nat, NEW e \in Nat, \A j \in i..i + e : j \in K
  PROVE  \A d \in 0..e : Rank(K, i) + d \in 1..Cardinality(K) /\ Nth(K, Rank(K, i) + d) = i + d
<1> \A j \in K : j \in 1..n
  BY DEF Places
<1>r. \A a \in Nat : Rank(K, a) \in Nat /\ Rank(K, a + 1) = IF a + 1 \in K THEN Rank(K, a) + 1 ELSE Rank(K, a)
  BY RankIs
<1> DEFINE P == {d \in Nat : d <= e => Rank(K, i + d) = Rank(K, i) + d}
<1>1. 0 \in P
  BY <1>r
<1>2. ASSUME NEW d \in Nat, d \in P PROVE d + 1 \in P
  <2> SUFFICES ASSUME d + 1 <= e PROVE Rank(K, i + (d + 1)) = Rank(K, i) + (d + 1)
    OBVIOUS
  <2>1. i + d \in Nat /\ i + (d + 1) = (i + d) + 1 /\ (i + d) + 1 \in i..i + e
    OBVIOUS
  <2>2. Rank(K, i) \in Nat /\ Rank(K, (i + d) + 1) = Rank(K, i + d) + 1
    BY <1>r, <2>1
  <2> QED BY <1>2, <2>1, <2>2
<1> HIDE DEF P
<1>3. Nat \subseteq P
  BY <1>1, <1>2, SetInduction
<1> QED
  <2> TAKE d \in 0..e
  <2>1. i + d \in K /\ Rank(K, i + d) = Rank(K, i) + d
    BY <1>3 DEF P
  <2> QED BY <2>1, NthRank

LEMMA LargestIs ==
  ASSUME NEW n \in Nat, NEW K \in Places(n)
  PROVE  /\ Largest(K) \in 0..n /\ (Largest(K) = 0 <=> K = {})
         /\ Largest(K) # 0 => Largest(K) \in K
         /\ \A k \in K : k <= Largest(K)
<1> \A j \in K : j \in 1..n
  BY DEF Places
<1> DEFINE T == {n - k : k \in K \cup {0}}
<1>1. T \subseteq Nat /\ T # {}
  <2>1. \A k \in K \cup {0} : n - k \in Nat
    OBVIOUS
  <2>2. n - 0 \in T
    OBVIOUS
  <2> QED BY <2>1, <2>2
<1>2. PICK m \in T : \A k \in T : m <= k
  BY <1>1, LeastNatural
<1>3. PICK x \in K \cup {0} : m = n - x
  BY <1>2
<1>4. \A k \in K \cup {0} : x >= k
  <2> TAKE k \in K \cup {0}
  <2>1. n - k \in T
    OBVIOUS
  <2>2. n - x <= n - k
    BY <1>2, <1>3, <2>1
  <2> HIDE DEF T
  <2> QED BY <2>2
<1>5. Largest(K) \in K \cup {0} /\ \A k \in K \cup {0} : Largest(K) >= k
  BY <1>4 DEF Largest, Max
<1> PICK l : l = Largest(K)
  OBVIOUS
<1>6. l \in K \cup {0} /\ \A k \in K : l >= k
  BY <1>5
<1> QED BY <1>6

---------------------------------------------------------------------------
(* Calls and results in a sequence of messages *)

LEMMA SeqIs == ASSUME NEW ms \in Seq(Message) PROVE Len(ms) \in Nat /\ DOMAIN ms = 1..Len(ms) /\ \A i \in 1..Len(ms) : ms[i] \in Message
OBVIOUS

LEMMA MessageIs ==
  ASSUME NEW m \in Message
  PROVE  /\ m.role \in Roles /\ m.text \in Int /\ m.calls \subseteq CallIds
         /\ (m.calls # {} => m.role = "assistant")
         /\ (m.role # "assistant" => m.calls = {})
BY DEF Message

LEMMA SummaryIs == Summary \in Message /\ Summary.role = "user" /\ Summary.calls = {} /\ Summary.at = 0 /\ Summary.text = Note
BY ContextAssumption DEF Summary, Msg, Message, Roles

LEMMA ExtentIs ==
  ASSUME NEW ms \in Seq(Message), NEW i \in 1..Len(ms)
  PROVE  /\ Extent(ms, i) \in 0..(Len(ms) - i) /\ Answers(ms, i, Extent(ms, i))
         /\ \A n \in 1..(Len(ms) - i) : Answers(ms, i, n) /\ Ids(ms, i, n - 1) # ms[i].calls => n <= Extent(ms, i)
<1> DEFINE l == Len(ms) - i
           K == {n \in 1..l : Answers(ms, i, n) /\ Ids(ms, i, n - 1) # ms[i].calls}
<1>1. l \in Nat /\ i + 0 <= Len(ms)
  OBVIOUS
<1>2. K \in Places(l)
  BY DEF Places
<1>3. Extent(ms, i) = Largest(K)
  BY DEF Extent
<1>4. Answers(ms, i, 0)
  BY <1>1 DEF Answers
<1> HIDE DEF l
<1>5. /\ Largest(K) \in 0..l /\ (Largest(K) # 0 => Largest(K) \in K)
      /\ \A k \in K : k <= Largest(K)
  <2> HIDE DEF K
  <2> QED BY <1>1, <1>2, LargestIs
<1>6. Answers(ms, i, Extent(ms, i))
  <2>1. CASE Largest(K) = 0
    BY <1>3, <1>4, <2>1
  <2>2. CASE Largest(K) # 0
    BY <1>3, <1>5, <2>2
  <2> QED BY <2>1, <2>2
<1> QED BY <1>3, <1>5, <1>6 DEF l

\* A run of messages that is chosen whole stays a run.
LEMMA RunChosen ==
  ASSUME NEW rs \in Seq(Message), NEW K \in Places(Len(rs)), NEW i \in 1..Len(rs), NEW n \in Nat,
         \A j \in i..i + n : j \in K, Answers(rs, i, n)
  PROVE  LET out == Chosen(rs, K) r == Rank(K, i)
         IN  /\ r \in 1..Cardinality(K) /\ r + n <= Cardinality(K)
             /\ \A d \in 0..n : out[r + d] = rs[i + d] /\ Nth(K, r + d) = i + d
             /\ Answers(out, r, n) /\ Ids(out, r, n) = Ids(rs, i, n)
<1> PICK r : r = Rank(K, i)
  OBVIOUS
<1> PICK out : out = Chosen(rs, K)
  OBVIOUS
<1>1. Len(rs) \in Nat /\ i \in Nat
  OBVIOUS
<1>2. \A d \in 0..n : r + d \in 1..Cardinality(K) /\ Nth(K, r + d) = i + d
  BY <1>1, NthRun
<1>3. Cardinality(K) \in Nat /\ r \in Nat
  BY <1>1, RankIs
<1>4. r \in 1..Cardinality(K) /\ r + n <= Cardinality(K)
  <2>1. 0 \in 0..n /\ n \in 0..n
    OBVIOUS
  <2> QED BY <1>2, <1>3, <2>1
<1>5. \A d \in 0..n : out[r + d] = rs[i + d]
  BY <1>2 DEF Chosen
<1>6. Len(out) = Cardinality(K)
  BY <1>3 DEF Chosen
<1>7. out[r] = rs[i]
  <2>1. 0 \in 0..n /\ r + 0 = r /\ i + 0 = i
    BY <1>3
  <2> QED BY <1>5, <2>1
<1>8. ASSUME NEW j \in r + 1..r + n PROVE j - r \in 1..n /\ i + (j - r) \in i + 1..i + n /\ out[j] = rs[i + (j - r)]
  <2>1. j - r \in 0..n /\ r + (j - r) = j /\ j - r >= 1
    BY <1>3
  <2> QED BY <1>5, <2>1
<1>9. ASSUME NEW j \in i + 1..i + n PROVE r + (j - i) \in r + 1..r + n /\ out[r + (j - i)] = rs[j]
  <2>1. j - i \in 0..n /\ i + (j - i) = j /\ j - i >= 1
    OBVIOUS
  <2> QED BY <1>3, <1>5, <2>1
<1>10. Answers(out, r, n)
  <2>1. \A j \in i + 1..i + n : rs[j].role = "tool" /\ rs[j].id \in rs[i].calls
    BY DEF Answers
  <2>2. \A j \in r + 1..r + n : out[j].role = "tool" /\ out[j].id \in out[r].calls
    BY <1>7, <1>8, <2>1
  <2> QED BY <1>4, <1>6, <2>2 DEF Answers
<1>11. Ids(out, r, n) = Ids(rs, i, n)
  <2>1. \A x \in Ids(out, r, n) : x \in Ids(rs, i, n)
    BY <1>8 DEF Ids
  <2>2. \A x \in Ids(rs, i, n) : x \in Ids(out, r, n)
    <3> SUFFICES ASSUME NEW j \in i + 1..i + n PROVE rs[j].id \in Ids(out, r, n)
      BY DEF Ids
    <3> QED BY <1>9 DEF Ids
  <2> QED BY <2>1, <2>2
<1> QED BY <1>2, <1>4, <1>5, <1>10, <1>11

LEMMA ChosenIs ==
  ASSUME NEW rs \in Seq(Message), NEW K \in Places(Len(rs))
  PROVE  /\ Chosen(rs, K) \in Seq(Message) /\ Len(Chosen(rs, K)) = Cardinality(K) /\ Cardinality(K) \in Nat
         /\ \A k \in 1..Cardinality(K) : /\ Nth(K, k) \in K /\ Rank(K, Nth(K, k)) = k
                                         /\ Chosen(rs, K)[k] = rs[Nth(K, k)]
<1>1. Len(rs) \in Nat
  OBVIOUS
<1>2. Cardinality(K) \in Nat
  BY <1>1, RankIs
<1>3. \A k \in 1..Cardinality(K) : Nth(K, k) \in K /\ Rank(K, Nth(K, k)) = k
  BY <1>1, NthIs
<1>4. \A k \in 1..Cardinality(K) : rs[Nth(K, k)] \in Message
  <2>1. \A k \in 1..Cardinality(K) : Nth(K, k) \in 1..Len(rs)
    BY <1>3 DEF Places
  <2> QED BY <2>1
<1>5. Chosen(rs, K) \in [1..Cardinality(K) -> Message]
  BY <1>4 DEF Chosen
<1>6. Chosen(rs, K) \in Seq(Message) /\ Len(Chosen(rs, K)) = Cardinality(K)
  BY <1>2, <1>5
<1> QED BY <1>2, <1>3, <1>6 DEF Chosen

\* When every call is chosen with all its results and every result with its call and the
\* results between them, what is chosen is paired.
LEMMA ChosenPairs ==
  ASSUME NEW rs \in Seq(Message), NEW K \in Places(Len(rs)),
         \A i \in K : rs[i].calls # {} =>
            \E n \in Nat \ {0} : Answers(rs, i, n) /\ Ids(rs, i, n) = rs[i].calls /\ \A j \in i..i + n : j \in K,
         \A i \in K : rs[i].role = "tool" =>
            \E g \in 1..i - 1 : rs[i].id \in rs[g].calls /\ Answers(rs, g, i - g) /\ \A j \in g..i : j \in K
  PROVE  Paired(Chosen(rs, K))
<1> PICK out : out = Chosen(rs, K)
  OBVIOUS
<1>1. /\ out \in Seq(Message) /\ Len(out) = Cardinality(K) /\ Cardinality(K) \in Nat
      /\ \A k \in 1..Len(out) : Nth(K, k) \in K /\ Rank(K, Nth(K, k)) = k /\ out[k] = rs[Nth(K, k)]
  BY ChosenIs
<1>2. Len(rs) \in Nat /\ DOMAIN out = 1..Len(out) /\ \A i \in K : i \in 1..Len(rs)
  BY <1>1 DEF Places
<1>3. ASSUME NEW k \in 1..Len(out), out[k].calls # {}
      PROVE  \E n \in 1..Len(out) - k : Answers(out, k, n) /\ Ids(out, k, n) = out[k].calls
  <2> PICK i : i = Nth(K, k)
    OBVIOUS
  <2>1. i \in K /\ i \in 1..Len(rs) /\ Rank(K, i) = k /\ out[k] = rs[i]
    BY <1>1, <1>2
  <2>2. PICK n \in Nat \ {0} : Answers(rs, i, n) /\ Ids(rs, i, n) = rs[i].calls /\ \A j \in i..i + n : j \in K
    BY <1>3, <2>1
  <2>3. /\ k + n <= Cardinality(K) /\ Answers(out, k, n) /\ Ids(out, k, n) = Ids(rs, i, n)
    BY <2>1, <2>2, RunChosen
  <2>4. n \in 1..Len(out) - k
    BY <1>1, <2>3
  <2> QED BY <2>1, <2>2, <2>3, <2>4
<1>4. ASSUME NEW k \in 1..Len(out), out[k].role = "tool"
      PROVE  \E g \in 1..k - 1 : out[k].id \in out[g].calls /\ Answers(out, g, k - g)
  <2> PICK i : i = Nth(K, k)
    OBVIOUS
  <2>1. i \in K /\ i \in 1..Len(rs) /\ Rank(K, i) = k /\ out[k] = rs[i]
    BY <1>1, <1>2
  <2>2. PICK g \in 1..i - 1 : rs[i].id \in rs[g].calls /\ Answers(rs, g, i - g) /\ \A j \in g..i : j \in K
    BY <1>4, <2>1
  <2> PICK n : n = i - g
    OBVIOUS
  <2>3. g \in 1..Len(rs) /\ n \in Nat \ {0} /\ g + n = i /\ n \in 0..n /\ 0 \in 0..n /\ g + 0 = g
    BY <2>1
  <2> PICK r : r = Rank(K, g)
    OBVIOUS
  <2>a. Answers(rs, g, n) /\ \A j \in g..g + n : j \in K
    BY <2>2, <2>3
  <2>4. /\ r \in 1..Cardinality(K) /\ r + n <= Cardinality(K)
        /\ \A d \in 0..n : out[r + d] = rs[g + d] /\ Nth(K, r + d) = g + d
        /\ Answers(out, r, n)
    BY <2>3, <2>a, RunChosen
  <2>5. r + n = k
    <3>1. r + n \in 1..Cardinality(K) /\ Nth(K, r + n) = i
      BY <2>3, <2>4
    <3> QED BY <1>1, <2>1, <3>1
  <2>6. out[r] = rs[g]
    <3>1. r + 0 = r
      BY <2>4
    <3> QED BY <2>3, <2>4, <3>1
  <2>7. r \in 1..k - 1 /\ k - r = n
    <3>1. Cardinality(K) \in Nat /\ r \in 1..Cardinality(K) /\ n \in Nat \ {0} /\ r + n = k
      BY <1>1, <2>3, <2>4, <2>5
    <3> QED BY ONLY <3>1
  <2> QED BY <2>1, <2>2, <2>4, <2>6, <2>7
<1> QED BY <1>2, <1>3, <1>4 DEF Paired

---------------------------------------------------------------------------
(* The sanitizer *)

\* A call whose results are all there is kept, and so are they.
LEMMA GroupKept ==
  ASSUME NEW ms \in Seq(Message), NEW g \in 1..Len(ms), ms[g].calls # {}, Complete(ms, g)
  PROVE  /\ Extent(ms, g) \in Nat \ {0} /\ g + Extent(ms, g) <= Len(ms)
         /\ \A j \in g..g + Extent(ms, g) : ~Dropped(ms, j) /\ Repaired(ms, j) = ms[j]
<1> PICK e : e = Extent(ms, g)
  OBVIOUS
<1>1. \A i \in 1..Len(ms) : /\ Extent(ms, i) \in 0..(Len(ms) - i) /\ Answers(ms, i, Extent(ms, i))
                            /\ ms[i] \in Message
  BY ExtentIs, SeqIs
<1>2. e \in Nat \ {0} /\ g + e <= Len(ms)
  <2>1. e \in Nat /\ g + e <= Len(ms)
    BY <1>1
  <2>2. e # 0
    <3>1. Ids(ms, g, 0) = {}
      BY DEF Ids
    <3> QED BY <3>1 DEF Complete
  <2> QED BY <2>1, <2>2
<1>3. \A i \in 1..Len(ms) : ms[i].calls # {} => ms[i].role = "assistant"
  BY <1>1, MessageIs
<1>4. \A i \in 1..Len(ms) : \A j \in i + 1..i + Extent(ms, i) : ms[j].role = "tool"
  BY <1>1 DEF Answers
<1>5. ASSUME NEW j \in g + 1..g + e PROVE ~Dropped(ms, j) /\ Repaired(ms, j) = ms[j]
  <2>1. j \in 1..Len(ms) /\ ms[j].role = "tool" /\ ms[j].calls = {}
    <3>1. ms[j].role = "tool"
      BY <1>4
    <3>2. j \in 1..Len(ms)
      BY <1>2
    <3> QED BY <1>3, <3>1, <3>2
  <2>2. g \in Owners(ms, j)
    BY <1>2, <2>1 DEF Owners
  <2>3. ASSUME NEW h \in Owners(ms, j) PROVE h = g
    <3>1. h \in 1..j - 1 /\ ms[h].calls # {} /\ j <= h + Extent(ms, h) /\ h \in 1..Len(ms)
      BY <2>1 DEF Owners
    <3>2. CASE h < g
      <4>1. g \in h + 1..h + Extent(ms, h)
        BY <1>1, <3>1, <3>2
      <4> QED BY <1>3, <1>4, <3>1, <4>1
    <3>3. CASE h > g
      <4>1. h \in g + 1..g + e
        BY <1>2, <3>1, <3>3
      <4> QED BY <1>3, <1>4, <3>1, <4>1
    <3> QED BY <3>1, <3>2, <3>3
  <2> QED BY <2>1, <2>2, <2>3 DEF Dropped, Empty, Repaired, Alone
<1>6. ~Dropped(ms, g) /\ Repaired(ms, g) = ms[g]
  BY <1>3 DEF Dropped, Empty, Repaired, Alone
<1>7. \A j \in g..g + e : j = g \/ j \in g + 1..g + e
  BY <1>2
<1> QED BY <1>2, <1>5, <1>6, <1>7

\* Whatever it is given, the sanitizer pairs calls with results.
LEMMA SanitizedIsPaired == ASSUME NEW ms \in Seq(Message) PROVE Sanitized(ms) \in Seq(Message) /\ Paired(Sanitized(ms))
<1> DEFINE rs == [i \in DOMAIN ms |-> Repaired(ms, i)]
           K == {i \in DOMAIN ms : ~Dropped(ms, i)}
<1>1. Len(ms) \in Nat /\ DOMAIN ms = 1..Len(ms) /\ \A i \in 1..Len(ms) : ms[i] \in Message
  BY SeqIs
<1>2. \A i \in 1..Len(ms) : rs[i] = Repaired(ms, i) /\ (rs[i] = Summary \/ rs[i] = ms[i])
  BY <1>1 DEF Repaired
<1>3. rs \in Seq(Message) /\ Len(rs) = Len(ms)
  <2>1. \A i \in 1..Len(ms) : Repaired(ms, i) \in Message
    BY <1>1, SummaryIs DEF Repaired
  <2> QED BY <1>1, <2>1
<1>4. K \in Places(Len(rs)) /\ \A i \in 1..Len(ms) : i \in K <=> ~Dropped(ms, i)
  BY <1>1, <1>3 DEF Places
<1>5. Sanitized(ms) = Chosen(rs, K)
  BY DEF Sanitized
<1>k. \A i \in K : i \in 1..Len(ms)
  BY <1>1
<1> HIDE DEF rs, K
<1>6. ASSUME NEW g \in 1..Len(ms), ms[g].calls # {}, Complete(ms, g)
      PROVE  LET e == Extent(ms, g)
             IN  /\ e \in Nat \ {0} /\ g + e <= Len(ms) /\ \A j \in g..g + e : j \in K /\ rs[j] = ms[j]
                 /\ Answers(rs, g, e) /\ Ids(rs, g, e) = ms[g].calls
  <2> PICK e : e = Extent(ms, g)
    OBVIOUS
  <2>1. e \in Nat \ {0} /\ g + e <= Len(ms) /\ \A j \in g..g + e : ~Dropped(ms, j) /\ Repaired(ms, j) = ms[j]
    BY <1>6, GroupKept
  <2>2. \A j \in g..g + e : j \in 1..Len(ms)
    BY <2>1
  <2>3. \A j \in g..g + e : j \in K /\ rs[j] = ms[j]
    BY <1>2, <1>4, <2>1, <2>2
  <2>4. (\A j \in g + 1..g + e : j \in g..g + e) /\ g \in g..g + e
    BY <2>1
  <2>5. Answers(ms, g, e) /\ Ids(ms, g, e) = ms[g].calls
    BY <1>6, ExtentIs DEF Complete
  <2>6. Answers(rs, g, e) /\ Ids(rs, g, e) = Ids(ms, g, e)
    BY <1>3, <2>3, <2>4, <2>5 DEF Answers, Ids
  <2> QED BY <2>1, <2>3, <2>5, <2>6
<1>7. ASSUME NEW i \in K, rs[i].calls # {}
      PROVE  \E n \in Nat \ {0} : Answers(rs, i, n) /\ Ids(rs, i, n) = rs[i].calls /\ \A j \in i..i + n : j \in K
  <2>1. i \in 1..Len(ms) /\ rs[i] = ms[i] /\ ms[i].calls # {}
    BY <1>2, <1>7, <1>k, SummaryIs
  <2>2. Complete(ms, i)
    <3>1. rs[i] # Summary
      BY <1>7, SummaryIs
    <3> QED BY <1>2, <2>1, <3>1 DEF Repaired
  <2> QED BY <1>6, <2>1, <2>2
<1>8. ASSUME NEW i \in K, rs[i].role = "tool"
      PROVE  \E g \in 1..i - 1 : rs[i].id \in rs[g].calls /\ Answers(rs, g, i - g) /\ \A j \in g..i : j \in K
  <2>1. i \in 1..Len(ms) /\ rs[i] = ms[i] /\ rs[i] # Summary
    BY <1>2, <1>8, <1>k, SummaryIs
  <2>2. Owners(ms, i) # {} /\ \A g \in Owners(ms, i) : Complete(ms, g)
    BY <1>2, <1>4, <1>8, <2>1 DEF Repaired, Alone, Dropped
  <2>3. PICK g \in Owners(ms, i) : Complete(ms, g)
    BY <2>2
  <2>4. g \in 1..i - 1 /\ g \in 1..Len(ms) /\ ms[g].calls # {} /\ i <= g + Extent(ms, g)
    BY <2>1 DEF Owners
  <2> PICK e : e = Extent(ms, g)
    OBVIOUS
  <2>5. /\ e \in Nat \ {0} /\ g + e <= Len(ms) /\ \A j \in g..g + e : j \in K /\ rs[j] = ms[j]
        /\ Answers(rs, g, e)
    BY <1>6, <2>3, <2>4
  <2>6. g + (i - g) = i /\ (\A j \in g..i : j \in g..g + e) /\ (\A j \in g + 1..i : j \in g + 1..g + e) /\ i \in g + 1..g + e
    <3>1. g \in Nat /\ i \in Nat /\ g < i /\ i <= g + e /\ e \in Nat
      BY <2>1, <2>4, <2>5
    <3> HIDE <2>4, <2>5
    <3> QED BY ONLY <3>1
  <2>7. Answers(rs, g, i - g) /\ rs[i].id \in rs[g].calls
    <3>1. i <= Len(rs)
      BY <1>3, <2>1
    <3> QED BY <2>5, <2>6, <3>1 DEF Answers
  <2> QED BY <2>4, <2>5, <2>6, <2>7
<1>9. Paired(Chosen(rs, K))
  BY <1>3, <1>4, <1>7, <1>8, ChosenPairs
<1> QED BY <1>3, <1>4, <1>5, <1>9, ChosenIs

---------------------------------------------------------------------------
(* Groups *)

LEMMA HeadsAre == ASSUME NEW ms \in Seq(Message) PROVE Len(ms) \in Nat /\ Heads(ms) \in Places(Len(ms))
<1>1. DOMAIN ms = 1..Len(ms)
  BY SeqIs
<1> QED BY <1>1 DEF Heads, Places

LEMMA RankStep ==
  ASSUME NEW n \in Nat, NEW K \in Places(n)
  PROVE  \A a \in Nat : Rank(K, a + 1) = IF a + 1 \in K THEN Rank(K, a) + 1 ELSE Rank(K, a)
BY RankIs

\* A call and its results are in one group.
LEMMA GroupOfRun ==
  ASSUME NEW ms \in Seq(Message), NEW i \in 1..Len(ms), NEW n \in Nat, Answers(ms, i, n)
  PROVE  \A d \in 0..n : Rank(Heads(ms), i + d) = Rank(Heads(ms), i)
<1> PICK H : H = Heads(ms)
  OBVIOUS
<1>1. Len(ms) \in Nat /\ H \in Places(Len(ms))
  BY HeadsAre
<1>2. \A a \in Nat : Rank(H, a + 1) = IF a + 1 \in H THEN Rank(H, a) + 1 ELSE Rank(H, a)
  BY <1>1, RankStep
<1> DEFINE P == {d \in Nat : d <= n => Rank(H, i + d) = Rank(H, i)}
<1>3. 0 \in P
  OBVIOUS
<1>4. ASSUME NEW d \in Nat, d \in P PROVE d + 1 \in P
  <2> SUFFICES ASSUME d + 1 <= n PROVE Rank(H, i + (d + 1)) = Rank(H, i)
    OBVIOUS
  <2>1. i + d \in Nat /\ i + (d + 1) = (i + d) + 1 /\ (i + d) + 1 \in i + 1..i + n /\ (i + d) + 1 # 1
    OBVIOUS
  <2>2. ms[(i + d) + 1].role = "tool"
    BY <2>1 DEF Answers
  <2>3. (i + d) + 1 \notin H
    BY <2>1, <2>2 DEF Heads
  <2>4. Rank(H, (i + d) + 1) = Rank(H, i + d)
    BY <1>2, <2>1, <2>3
  <2> QED BY <1>4, <2>1, <2>4
<1> HIDE DEF P
<1>5. Nat \subseteq P
  BY <1>3, <1>4, SetInduction
<1> QED
  <2> TAKE d \in 0..n
  <2>1. d \in P
    BY <1>5
  <2> QED BY <2>1 DEF P

LEMMA InGroupsPairs ==
  ASSUME NEW ms \in Seq(Message), Paired(ms), NEW G
  PROVE  InGroups(ms, G) \in Seq(Message) /\ Paired(InGroups(ms, G))
<1> DEFINE K == {i \in DOMAIN ms : Rank(Heads(ms), i) \in G}
<1>1. DOMAIN ms = 1..Len(ms) /\ Len(ms) \in Nat
  BY SeqIs
<1>2. K \in Places(Len(ms)) /\ \A i \in 1..Len(ms) : i \in K <=> Rank(Heads(ms), i) \in G
  BY <1>1 DEF Places
<1>3. InGroups(ms, G) = Chosen(ms, K)
  BY DEF InGroups, Rank
<1>k. \A i \in K : i \in 1..Len(ms)
  BY <1>1
<1> HIDE DEF K
<1>4. ASSUME NEW i \in 1..Len(ms), NEW n \in Nat, Answers(ms, i, n), NEW a \in i..i + n, a \in K PROVE \A j \in i..i + n : j \in K
  <2> TAKE j \in i..i + n
  <2>1. \A d \in 0..n : Rank(Heads(ms), i + d) = Rank(Heads(ms), i)
    BY <1>4, GroupOfRun
  <2>2. j - i \in 0..n /\ i + (j - i) = j /\ a - i \in 0..n /\ i + (a - i) = a
    OBVIOUS
  <2>3. Rank(Heads(ms), j) = Rank(Heads(ms), a)
    BY <2>1, <2>2
  <2>4. j \in 1..Len(ms) /\ a \in 1..Len(ms)
    BY <1>1, <1>4 DEF Answers
  <2> QED BY <1>2, <1>4, <2>3, <2>4
<1>5. ASSUME NEW i \in K, ms[i].calls # {}
      PROVE  \E n \in Nat \ {0} : Answers(ms, i, n) /\ Ids(ms, i, n) = ms[i].calls /\ \A j \in i..i + n : j \in K
  <2>1. PICK n \in 1..Len(ms) - i : Answers(ms, i, n) /\ Ids(ms, i, n) = ms[i].calls
    BY <1>1, <1>5, <1>k DEF Paired
  <2>2. n \in Nat \ {0} /\ i \in i..i + n /\ i \in 1..Len(ms)
    BY <1>k
  <2>3. \A j \in i..i + n : j \in K
    BY <1>4, <2>1, <2>2
  <2> QED BY <2>1, <2>2, <2>3
<1>6. ASSUME NEW i \in K, ms[i].role = "tool"
      PROVE  \E g \in 1..i - 1 : ms[i].id \in ms[g].calls /\ Answers(ms, g, i - g) /\ \A j \in g..i : j \in K
  <2>1. PICK g \in 1..i - 1 : ms[i].id \in ms[g].calls /\ Answers(ms, g, i - g)
    BY <1>1, <1>6, <1>k DEF Paired
  <2>2. i - g \in Nat /\ g + (i - g) = i /\ i \in g..g + (i - g) /\ g \in 1..Len(ms)
    BY <1>1, <1>k
  <2>3. \A j \in g..g + (i - g) : j \in K
    BY <1>4, <2>1, <2>2
  <2> QED BY <2>1, <2>2, <2>3
<1>7. Paired(Chosen(ms, K))
  BY <1>2, <1>5, <1>6, ChosenPairs
<1> QED BY <1>2, <1>3, <1>7, ChosenIs

LEMMA RolePairs ==
  ASSUME NEW ms \in Seq(Message), Paired(ms), NEW system \in BOOLEAN
  PROVE  Role(ms, system) \in Seq(Message) /\ Paired(Role(ms, system))
<1> DEFINE K == {i \in DOMAIN ms : (ms[i].role = "system") = system}
<1>1. DOMAIN ms = 1..Len(ms) /\ Len(ms) \in Nat /\ \A i \in 1..Len(ms) : ms[i] \in Message
  BY SeqIs
<1>2. K \in Places(Len(ms)) /\ \A i \in 1..Len(ms) : i \in K <=> (ms[i].role = "system") = system
  BY <1>1 DEF Places
<1>3. Role(ms, system) = Chosen(ms, K)
  BY DEF Role
<1>k. \A i \in K : i \in 1..Len(ms) /\ (ms[i].role = "system") = system
  BY <1>1
<1> HIDE DEF K
<1>c. \A i \in 1..Len(ms) : ms[i].calls # {} => ms[i].role = "assistant"
  BY <1>1, MessageIs
<1>4. ASSUME NEW i \in 1..Len(ms), NEW n \in Nat, Answers(ms, i, n), ms[i].calls # {}, ~system PROVE \A j \in i..i + n : j \in K
  <2> TAKE j \in i..i + n
  <2>1. j \in 1..Len(ms) /\ (j = i \/ j \in i + 1..i + n)
    BY <1>1, <1>4 DEF Answers
  <2>2. ms[j].role # "system"
    BY <1>4, <1>c, <2>1 DEF Answers
  <2> QED BY <1>2, <1>4, <2>1, <2>2
<1>5. ASSUME NEW i \in K, ms[i].calls # {}
      PROVE  \E n \in Nat \ {0} : Answers(ms, i, n) /\ Ids(ms, i, n) = ms[i].calls /\ \A j \in i..i + n : j \in K
  <2>1. PICK n \in 1..Len(ms) - i : Answers(ms, i, n) /\ Ids(ms, i, n) = ms[i].calls
    BY <1>1, <1>5, <1>k DEF Paired
  <2>2. n \in Nat \ {0} /\ i \in 1..Len(ms)
    BY <1>k
  <2>3. ~system
    BY <1>5, <1>c, <1>k
  <2>4. \A j \in i..i + n : j \in K
    BY <1>4, <1>5, <2>1, <2>2, <2>3
  <2> QED BY <2>1, <2>2, <2>4
<1>6. ASSUME NEW i \in K, ms[i].role = "tool"
      PROVE  \E g \in 1..i - 1 : ms[i].id \in ms[g].calls /\ Answers(ms, g, i - g) /\ \A j \in g..i : j \in K
  <2>1. PICK g \in 1..i - 1 : ms[i].id \in ms[g].calls /\ Answers(ms, g, i - g)
    BY <1>1, <1>6, <1>k DEF Paired
  <2>2. i - g \in Nat /\ g + (i - g) = i /\ g \in 1..Len(ms)
    BY <1>1, <1>k
  <2>3. ~system
    BY <1>6, <1>k
  <2>4. \A j \in g..g + (i - g) : j \in K
    BY <1>4, <2>1, <2>2, <2>3
  <2> QED BY <2>1, <2>2, <2>4
<1>7. Paired(Chosen(ms, K))
  BY <1>2, <1>5, <1>6, ChosenPairs
<1> QED BY <1>2, <1>3, <1>7, ChosenIs

LEMMA PairedSum ==
  ASSUME NEW a \in Seq(Message), NEW b \in Seq(Message), Paired(a), Paired(b)
  PROVE  a \o b \in Seq(Message) /\ Paired(a \o b)
<1> PICK s : s = a \o b
  OBVIOUS
<1> PICK l : l = Len(a)
  OBVIOUS
<1> PICK m : m = Len(b)
  OBVIOUS
<1>1. /\ s \in Seq(Message) /\ Len(s) = l + m /\ l \in Nat /\ m \in Nat
      /\ DOMAIN s = 1..l + m /\ DOMAIN a = 1..l /\ DOMAIN b = 1..m
      /\ (\A i \in 1..l : s[i] = a[i]) /\ \A i \in 1..m : s[l + i] = b[i]
  BY ConcatProperties, SeqIs
<1>2. ASSUME NEW i \in 1..l, NEW n \in Nat, Answers(a, i, n) PROVE Answers(s, i, n) /\ Ids(s, i, n) = Ids(a, i, n)
  <2>1. i + n <= l /\ i + n <= l + m /\ \A j \in i + 1..i + n : j \in 1..l
    BY <1>1, <1>2 DEF Answers
  <2>2. \A j \in i + 1..i + n : s[j] = a[j]
    BY <1>1, <2>1
  <2>3. s[i] = a[i]
    BY <1>1
  <2>4. Answers(s, i, n)
    BY <1>1, <1>2, <2>1, <2>2, <2>3 DEF Answers
  <2>5. Ids(s, i, n) = Ids(a, i, n)
    BY <2>2, Zenon DEF Ids
  <2> QED BY <2>4, <2>5
<1>3. ASSUME NEW i \in 1..m, NEW n \in Nat, Answers(b, i, n) PROVE Answers(s, l + i, n) /\ Ids(s, l + i, n) = Ids(b, i, n)
  <2>1. i + n <= m /\ (l + i) + n <= l + m
    BY <1>1, <1>3 DEF Answers
  <2>2. ASSUME NEW j \in l + i + 1..l + i + n PROVE j - l \in i + 1..i + n /\ s[j] = b[j - l]
    <3>1. j - l \in i + 1..i + n /\ j - l \in 1..m /\ l + (j - l) = j
      BY <1>1, <2>1
    <3> QED BY <1>1, <3>1
  <2>3. ASSUME NEW j \in i + 1..i + n PROVE l + j \in l + i + 1..l + i + n /\ s[l + j] = b[j]
    <3>1. l + j \in l + i + 1..l + i + n /\ j \in 1..m
      BY <1>1, <2>1
    <3> QED BY <1>1, <3>1
  <2>4. Answers(s, l + i, n)
    <3>1. \A j \in l + i + 1..l + i + n : s[j].role = "tool" /\ s[j].id \in s[l + i].calls
      BY <1>1, <1>3, <2>2 DEF Answers
    <3> QED BY <1>1, <2>1, <3>1 DEF Answers
  <2>5. Ids(s, l + i, n) = Ids(b, i, n)
    <3>1. \A x \in Ids(s, l + i, n) : x \in Ids(b, i, n)
      <4> SUFFICES ASSUME NEW j \in l + i + 1..l + i + n PROVE s[j].id \in Ids(b, i, n)
        BY DEF Ids
      <4> QED BY <2>2 DEF Ids
    <3>2. \A x \in Ids(b, i, n) : x \in Ids(s, l + i, n)
      <4> SUFFICES ASSUME NEW j \in i + 1..i + n PROVE b[j].id \in Ids(s, l + i, n)
        BY DEF Ids
      <4> QED BY <2>3 DEF Ids
    <3> QED BY <3>1, <3>2
  <2> QED BY <2>4, <2>5
<1>4. ASSUME NEW i \in 1..l + m, i > l PROVE i - l \in 1..m /\ s[i] = b[i - l] /\ l + (i - l) = i
  BY <1>1, <1>4
<1>5. ASSUME NEW i \in DOMAIN s, s[i].calls # {} PROVE \E n \in 1..Len(s) - i : Answers(s, i, n) /\ Ids(s, i, n) = s[i].calls
  <2> i \in 1..l + m
    BY <1>1
  <2>1. CASE i <= l
    <3>1. i \in 1..l /\ s[i] = a[i]
      BY <1>1, <2>1
    <3>2. PICK n \in 1..l - i : Answers(a, i, n) /\ Ids(a, i, n) = a[i].calls
      BY <1>1, <1>5, <3>1 DEF Paired
    <3>3. n \in Nat /\ n \in 1..Len(s) - i
      BY <1>1, <3>1
    <3> QED BY <1>2, <3>1, <3>2, <3>3
  <2>2. CASE i > l
    <3> PICK k : k = i - l
      OBVIOUS
    <3>1. k \in 1..m /\ s[i] = b[k] /\ l + k = i
      BY <1>4, <2>2
    <3>2. PICK n \in 1..m - k : Answers(b, k, n) /\ Ids(b, k, n) = b[k].calls
      BY <1>1, <1>5, <3>1 DEF Paired
    <3>3. n \in Nat /\ n \in 1..Len(s) - i
      BY <1>1, <3>1
    <3> QED BY <1>3, <3>1, <3>2, <3>3
  <2> QED BY <1>1, <2>1, <2>2
<1>6. ASSUME NEW i \in DOMAIN s, s[i].role = "tool" PROVE \E g \in 1..i - 1 : s[i].id \in s[g].calls /\ Answers(s, g, i - g)
  <2> i \in 1..l + m
    BY <1>1
  <2>1. CASE i <= l
    <3>1. i \in 1..l /\ s[i] = a[i]
      BY <1>1, <2>1
    <3>2. PICK g \in 1..i - 1 : a[i].id \in a[g].calls /\ Answers(a, g, i - g)
      BY <1>1, <1>6, <3>1 DEF Paired
    <3>3. g \in 1..l /\ i - g \in Nat /\ s[g] = a[g]
      BY <1>1, <3>1
    <3> QED BY <1>2, <3>1, <3>2, <3>3
  <2>2. CASE i > l
    <3> PICK k : k = i - l
      OBVIOUS
    <3>1. k \in 1..m /\ s[i] = b[k] /\ l + k = i
      BY <1>4, <2>2
    <3>2. PICK g \in 1..k - 1 : b[k].id \in b[g].calls /\ Answers(b, g, k - g)
      BY <1>1, <1>6, <3>1 DEF Paired
    <3>0. l \in Nat /\ k \in Nat /\ k <= m /\ m \in Nat /\ i = l + k
      BY <1>1, <3>1
    <3>3. g \in 1..m /\ k - g \in Nat /\ i - (l + g) = k - g /\ l + g \in 1..i - 1
      BY ONLY <3>0, g \in 1..k - 1
    <3>4. s[l + g] = b[g]
      BY <1>1, <3>3
    <3>5. Answers(s, l + g, k - g)
      BY <1>3, <3>2, <3>3
    <3>6. s[i].id \in s[l + g].calls
      BY <3>1, <3>2, <3>4
    <3>7. Answers(s, l + g, i - (l + g))
      BY <3>3, <3>5, Zenon
    <3> QED BY <3>3, <3>6, <3>7, Zenon
  <2>3. i <= l \/ i > l
    BY <1>1
  <2> QED BY <2>1, <2>2, <2>3
<1>7. Paired(s)
  BY <1>5, <1>6, Zenon DEF Paired
<1> QED BY <1>1, <1>7

\* The trim by groups keeps calls and results together.
LEMMA GroupTrimPairs ==
  ASSUME NEW ms \in Seq(Message), Paired(ms), EndsFit(ms, 0)
  PROVE  Trimmed(ms) \in Seq(Message) /\ Paired(Trimmed(ms))
<1>1. ASSUME NEW k PROVE Ends(ms, k) \in Seq(Message) /\ Paired(Ends(ms, k))
  <2>1. Role(ms, FALSE) \in Seq(Message) /\ Paired(Role(ms, FALSE))
    BY RolePairs
  <2>2. Role(ms, TRUE) \in Seq(Message) /\ Paired(Role(ms, TRUE))
    BY RolePairs
  <2> DEFINE b == InGroups(Role(ms, FALSE), 1..2 \cup LastOnes(Role(ms, FALSE), k))
  <2>3. b \in Seq(Message) /\ Paired(b)
    BY <2>1, InGroupsPairs
  <2>4. Ends(ms, k) = Role(ms, TRUE) \o b
    BY DEF Ends
  <2> HIDE DEF b
  <2> QED BY <2>2, <2>3, <2>4, PairedSum
<1> QED BY <1>1 DEF Trimmed

---------------------------------------------------------------------------
(* What is sent is made of messages *)

LEMMA PartsAre ==
  ASSUME NEW ms \in Seq(Message), NEW m \in Nat, m <= Len(ms)
  PROVE  /\ SubSeq(ms, m + 1, Len(ms)) \in Seq(Message) /\ Len(SubSeq(ms, m + 1, Len(ms))) = Len(ms) - m
         /\ \A i \in 1..Len(ms) - m : SubSeq(ms, m + 1, Len(ms))[i] = ms[m + i]
         /\ SubSeq(ms, 1, m) \in Seq(Message)
<1>1. Len(ms) \in Nat /\ \A i \in 1..Len(ms) : ms[i] \in Message
  BY SeqIs
<1>2. m + 1 \in Int /\ Len(ms) \in Int /\ \A i \in m + 1..Len(ms) : ms[i] \in Message
  BY <1>1
<1>3. \A i \in 1..m : ms[i] \in Message
  BY <1>1
<1>4. /\ SubSeq(ms, m + 1, Len(ms)) \in Seq(Message)
      /\ Len(SubSeq(ms, m + 1, Len(ms))) = IF m + 1 <= Len(ms) THEN Len(ms) - (m + 1) + 1 ELSE 0
      /\ \A i \in 1..Len(ms) - (m + 1) + 1 : SubSeq(ms, m + 1, Len(ms))[i] = ms[m + 1 + i - 1]
  BY <1>2, SubSeqProperties
<1>5. SubSeq(ms, 1, m) \in Seq(Message)
  BY <1>3, SubSeqProperties
<1> PICK s : s = SubSeq(ms, m + 1, Len(ms))
  OBVIOUS
<1>7. Len(s) = Len(ms) - m
  BY <1>1, <1>4
<1>8. \A i \in 1..Len(ms) - m : s[i] = ms[m + i]
  <2> TAKE i \in 1..Len(ms) - m
  <2>1. i \in 1..Len(ms) - (m + 1) + 1 /\ m + 1 + i - 1 = m + i
    BY <1>1
  <2> QED BY <1>4, <2>1
<1> QED BY <1>4, <1>5, <1>7, <1>8

LEMMA InGroupsAre == ASSUME NEW ms \in Seq(Message), NEW G PROVE InGroups(ms, G) \in Seq(Message)
<1> DEFINE K == {i \in DOMAIN ms : Cardinality({h \in Heads(ms) : h <= i}) \in G}
<1>1. DOMAIN ms = 1..Len(ms)
  BY SeqIs
<1>2. K \in Places(Len(ms))
  BY <1>1 DEF Places
<1>3. InGroups(ms, G) = Chosen(ms, K)
  BY DEF InGroups
<1> HIDE DEF K
<1> QED BY <1>2, <1>3, ChosenIs

LEMMA NotesAre ==
  /\ <<Summary>> \in Seq(Message) /\ <<Msg("system", Note)>> \in Seq(Message)
  /\ <<Msg("user", Note), Msg("user", Note)>> \in Seq(Message) /\ <<>> \in Seq(Message)
<1>1. Summary \in Message /\ Msg("system", Note) \in Message /\ Msg("user", Note) \in Message
  BY ContextAssumption DEF Summary, Msg, Message, Roles
<1> QED BY <1>1

LEMMA HistoryIs == ASSUME NEW ms \in Seq(Message) PROVE BudgetHistory(ms) \in Seq(Message)
<1>1. \A a \in Seq(Message), b \in Seq(Message) : a \o b \in Seq(Message)
  BY ConcatProperties
<1>2. ASSUME NEW s \in Seq(Message), NEW l PROVE TailTrim(s, l) \in Seq(Message)
  BY <1>1, NotesAre, InGroupsAre DEF TailTrim
<1>3. Reduced(ms) \in Seq(Message)
  BY <1>1, NotesAre, InGroupsAre DEF Reduced
<1> QED BY <1>2, <1>3 DEF BudgetHistory

\* Only texts are changed.
SameBut(rs, ms) ==
    /\ rs \in Seq(Message) /\ Len(rs) = Len(ms)
    /\ \A i \in 1..Len(ms) : /\ rs[i].role = ms[i].role /\ rs[i].calls = ms[i].calls
                             /\ rs[i].id = ms[i].id /\ rs[i].at = ms[i].at

LEMMA RetextedIs ==
  ASSUME NEW m \in Message
  PROVE  LET r == [m EXCEPT !.text = Note]
         IN  r \in Message /\ r.role = m.role /\ r.calls = m.calls /\ r.id = m.id /\ r.at = m.at
<1> DEFINE Fields == [role : Roles, text : Int, calls : SUBSET CallIds, id : CallIds \cup {<<>>}, at : Nat]
           r == [m EXCEPT !.text = Note]
<1>1. m \in Fields /\ (m.calls # {} => m.role = "assistant")
  BY DEF Message
<1>2. Note \in Int
  BY ContextAssumption
<1>3. r \in Fields /\ r.role = m.role /\ r.calls = m.calls /\ r.id = m.id /\ r.at = m.at
  BY <1>1, <1>2
<1>4. r \in Message
  BY <1>1, <1>3 DEF Message
<1> QED BY <1>3, <1>4

LEMMA CompressIs == ASSUME NEW ms \in Seq(Message) PROVE SameBut(Compress(ms), ms)
<1> DEFINE tools == {i \in DOMAIN ms : ms[i].role = "tool"}
           old == {i \in tools : Cardinality({j \in tools : j >= i}) > KeepRecent}
<1>1. Len(ms) \in Nat /\ DOMAIN ms = 1..Len(ms) /\ \A i \in 1..Len(ms) : ms[i] \in Message
  BY SeqIs
<1>2. Compress(ms) = [i \in DOMAIN ms |-> IF i \in old THEN [ms[i] EXCEPT !.text = Note] ELSE ms[i]]
  BY DEF Compress
<1> HIDE DEF tools, old
<1>3. \A i \in 1..Len(ms) : Compress(ms)[i] = [ms[i] EXCEPT !.text = Note] \/ Compress(ms)[i] = ms[i]
  BY <1>1, <1>2
<1>4. \A i \in 1..Len(ms) : /\ Compress(ms)[i] \in Message /\ Compress(ms)[i].role = ms[i].role
                            /\ Compress(ms)[i].calls = ms[i].calls
                            /\ Compress(ms)[i].id = ms[i].id /\ Compress(ms)[i].at = ms[i].at
  BY <1>1, <1>3, RetextedIs
<1>5. Compress(ms) \in Seq(Message) /\ Len(Compress(ms)) = Len(ms)
  BY <1>1, <1>2, <1>4
<1> QED BY <1>4, <1>5 DEF SameBut

LEMMA ShortenedIs == ASSUME NEW ms \in Seq(Message) PROVE SameBut([i \in DOMAIN ms |-> Shortened(ms[i])], ms)
<1> DEFINE rs == [i \in DOMAIN ms |-> Shortened(ms[i])]
<1>1. Len(ms) \in Nat /\ DOMAIN ms = 1..Len(ms) /\ \A i \in 1..Len(ms) : ms[i] \in Message
  BY SeqIs
<1>3. \A i \in 1..Len(ms) : rs[i] = [ms[i] EXCEPT !.text = Note] \/ rs[i] = ms[i]
  BY <1>1 DEF Shortened
<1>4. \A i \in 1..Len(ms) : /\ rs[i] \in Message /\ rs[i].role = ms[i].role /\ rs[i].calls = ms[i].calls
                            /\ rs[i].id = ms[i].id /\ rs[i].at = ms[i].at
  BY <1>1, <1>3, RetextedIs
<1>5. rs \in Seq(Message) /\ Len(rs) = Len(ms)
  BY <1>1, <1>4
<1> QED BY <1>4, <1>5 DEF SameBut

LEMMA LastCallIs ==
  ASSUME NEW ms \in Seq(Message)
  PROVE  /\ LastCall(ms) \in 0..Len(ms) /\ (LastCall(ms) # 0 => ms[LastCall(ms)].calls # {})
         /\ \A i \in 1..Len(ms) : ms[i].calls # {} => i <= LastCall(ms) /\ LastCall(ms) # 0
<1> DEFINE K == {i \in DOMAIN ms : ms[i].calls # {}}
<1>1. Len(ms) \in Nat /\ DOMAIN ms = 1..Len(ms)
  BY SeqIs
<1>2. K \in Places(Len(ms)) /\ (\A i \in 1..Len(ms) : i \in K <=> ms[i].calls # {}) /\ \A i \in K : ms[i].calls # {}
  BY <1>1 DEF Places
<1>3. LastCall(ms) = Largest(K)
  BY DEF LastCall
<1> HIDE DEF K
<1>4. /\ Largest(K) \in 0..Len(ms) /\ (Largest(K) = 0 <=> K = {}) /\ (Largest(K) # 0 => Largest(K) \in K)
      /\ \A k \in K : k <= Largest(K)
  BY <1>1, <1>2, LargestIs
<1> QED BY <1>2, <1>3, <1>4

LEMMA SummarisedIs == ASSUME NEW ms PROVE Summarised(ms) \in Seq(Message)
BY NotesAre DEF Summarised

LEMMA ReduceIs ==
  ASSUME NEW ms \in Seq(Message), Len(ms) >= 1
  PROVE  /\ ReduceActive(ms) \in Seq(Message)
         /\ LastCall(ms) > 1 => \E a \in Seq(Message) : ReduceActive(ms) = a \o SubSeq(ms, LastCall(ms), Len(ms))
<1>1. \A a \in Seq(Message), b \in Seq(Message) : a \o b \in Seq(Message)
  BY ConcatProperties
<1>2. Len(ms) \in Nat /\ ms[1] \in Message /\ <<ms[1]>> \in Seq(Message)
  BY SeqIs
<1> PICK last : last = LastCall(ms)
  OBVIOUS
<1>3. last \in 0..Len(ms)
  BY LastCallIs
<1>4. CASE last <= 1
  <2>1. ReduceActive(ms) = <<ms[1]>> \o Summarised(Tail(ms))
    BY <1>4 DEF ReduceActive
  <2> QED BY <1>1, <1>2, <1>3, <1>4, <2>1, SummarisedIs
<1>5. CASE ~(last <= 1)
  <2> DEFINE a == <<ms[1]>> \o Summarised(SubSeq(ms, 2, last - 1))
  <2>1. ReduceActive(ms) = a \o SubSeq(ms, last, Len(ms))
    BY <1>5 DEF ReduceActive
  <2>2. a \in Seq(Message)
    BY <1>1, <1>2, SummarisedIs
  <2>3. SubSeq(ms, last, Len(ms)) \in Seq(Message)
    <3>1. last - 1 \in Nat /\ last - 1 <= Len(ms) /\ last - 1 + 1 = last
      BY <1>2, <1>3, <1>5
    <3> QED BY <3>1, PartsAre
  <2> HIDE DEF a
  <2> QED BY <1>1, <2>1, <2>2, <2>3
<1> QED BY <1>4, <1>5

LEMMA TailTrimIs == ASSUME NEW ms \in Seq(Message), NEW l PROVE TailTrim(ms, l) \in Seq(Message)
<1>1. \A a \in Seq(Message), b \in Seq(Message) : a \o b \in Seq(Message)
  BY ConcatProperties
<1> QED BY <1>1, NotesAre, InGroupsAre DEF TailTrim

LEMMA ActiveIs == ASSUME NEW ms \in Seq(Message), Len(ms) >= 1 PROVE BudgetActive(ms) \in Seq(Message)
<1>1. Compress(ms) \in Seq(Message) /\ Len(Compress(ms)) >= 1
  BY CompressIs DEF SameBut
<1>2. ReduceActive(Compress(ms)) \in Seq(Message)
  BY <1>1, ReduceIs
<1>3. ASSUME NEW s \in Seq(Message) PROVE CompactActive(s) \in Seq(Message)
  BY TailTrimIs, ShortenedIs DEF CompactActive, SameBut
<1> QED BY <1>1, <1>2, <1>3 DEF BudgetActive

---------------------------------------------------------------------------
(* The session *)

SessionInv ==
    /\ messages \in Seq(Message) /\ start \in 1..Len(messages) + 1 /\ Len(messages) <= MaxMessages
    /\ open \in Seq(CallIds) /\ phase \in {"idle", "model", "tools"}
    /\ (phase = "tools") = (open # <<>>)
    /\ phase # "idle" => start <= Len(messages)
    /\ \A i \in 1..Len(messages) : messages[i].at = i

LEMMA BuiltIs == ASSUME SessionInv, phase = "model" PROVE Built \in Seq(Message)
<1>1. \A a \in Seq(Message), b \in Seq(Message) : a \o b \in Seq(Message)
  BY ConcatProperties
<1> PICK m : m = start - 1
  OBVIOUS
<1>2. m \in Nat /\ m <= Len(messages) /\ Len(messages) - m >= 1 /\ m + 1 = start /\ messages \in Seq(Message)
  BY DEF SessionInv
<1>3. History \in Seq(Message) /\ ActiveTurn \in Seq(Message) /\ Len(ActiveTurn) >= 1
  BY <1>2, PartsAre DEF History, ActiveTurn
<1>4. BudgetHistory(History) \in Seq(Message) /\ BudgetActive(ActiveTurn) \in Seq(Message)
  BY <1>3, HistoryIs, ActiveIs
<1> QED BY <1>1, <1>4, NotesAre DEF Built

LEMMA PairedFromInv == SessionInv => ContextIsPaired /\ GroupTrimKeepsPairs
<1> SUFFICES ASSUME SessionInv, phase = "model"
             PROVE  LET ms == Sanitized(Built) IN Paired(ms) /\ (EndsFit(ms, 0) => Paired(Trimmed(ms)))
  BY DEF ContextIsPaired, GroupTrimKeepsPairs
<1>1. Sanitized(Built) \in Seq(Message) /\ Paired(Sanitized(Built))
  BY BuiltIs, SanitizedIsPaired
<1> QED BY <1>1, GroupTrimPairs

CallSet(c, n) == {<<c, k>> : k \in 1..n}
Filled(ms, c, f) ==
    c + f <= Len(ms) /\ \A k \in 1..f : ms[c + k].role = "tool" /\ ms[c + k].id = <<c, k>>

\* A response's calls and all their results follow each other; they do as far as they have come.
Whole(ms, c) == \E n \in Nat \ {0} : ms[c].calls = CallSet(c, n) /\ Filled(ms, c, n)
Waiting(ms, ids, c) ==
    \E n \in Nat \ {0} :
        /\ ms[c].calls = CallSet(c, n) /\ Len(ids) \in 1..n /\ Filled(ms, c, n - Len(ids))
        /\ Len(ms) = c + (n - Len(ids))
        /\ \A k \in 1..Len(ids) : ids[k] = <<c, n - Len(ids) + k>>

\* In the active turn, the calls of every response but the last have all their results, and the
\* last one's have when the model is asked again.
AnsweredInv ==
    /\ phase # "idle" => messages[start].role = "user"
    /\ phase = "model" => \A c \in start..Len(messages) : messages[c].calls # {} => Whole(messages, c)
    /\ phase = "tools" => \E c \in start..Len(messages) :
                          /\ messages[c].calls # {} /\ Waiting(messages, open, c)
                          /\ \A d \in start..Len(messages) : d # c /\ messages[d].calls # {} => Whole(messages, d)

ContextInv == SessionInv /\ AnsweredInv

\* One message more.
Grows(m) ==
    /\ messages' \in Seq(Message) /\ Len(messages') = Len(messages) + 1 /\ Len(messages) + 1 <= MaxMessages
    /\ \A i \in 1..Len(messages) : messages'[i] = messages[i]
    /\ LET new == messages'[Len(messages) + 1]
       IN  new.role = m.role /\ new.calls = m.calls /\ new.id = m.id /\ new.at = Len(messages) + 1

LEMMA AppendGrows == ASSUME SessionInv, Room, NEW m \in Message, Append1(m) PROVE Grows(m)
<1> PICK n : n = [m EXCEPT !.at = Len(messages) + 1]
  OBVIOUS
<1>1. messages \in Seq(Message) /\ Len(messages) \in Nat /\ MaxMessages \in Nat
  BY ContextAssumption DEF SessionInv
<1>2. n \in Message /\ n.role = m.role /\ n.calls = m.calls /\ n.id = m.id /\ n.at = Len(messages) + 1
  BY <1>1 DEF Message
<1>3. messages' = Append(messages, n)
  BY DEF Append1
<1>4. /\ messages' \in Seq(Message) /\ Len(messages') = Len(messages) + 1 /\ messages'[Len(messages) + 1] = n
      /\ \A i \in 1..Len(messages) : messages'[i] = messages[i]
  BY <1>1, <1>2, <1>3, AppendProperties
<1>5. Len(messages) + 1 <= MaxMessages
  BY <1>1 DEF Room
<1> QED BY <1>2, <1>4, <1>5 DEF Grows

LEMMA GrowsKeeps ==
  ASSUME SessionInv, NEW m, Grows(m)
  PROVE  /\ \A i \in 1..Len(messages') : messages'[i].at = i
         /\ \A c \in 1..Len(messages) : Whole(messages, c) => Whole(messages', c)
<1>1. Len(messages) \in Nat /\ Len(messages') = Len(messages) + 1 /\ \A i \in 1..Len(messages) : messages'[i] = messages[i]
  BY DEF SessionInv, Grows
<1>2. ASSUME NEW i \in 1..Len(messages') PROVE messages'[i].at = i
  <2>1. i \in 1..Len(messages) \/ i = Len(messages) + 1
    BY <1>1
  <2> QED BY <1>1, <2>1 DEF SessionInv, Grows
<1>3. ASSUME NEW c \in 1..Len(messages), Whole(messages, c) PROVE Whole(messages', c)
  <2>1. PICK n \in Nat \ {0} : messages[c].calls = CallSet(c, n) /\ Filled(messages, c, n)
    BY <1>3 DEF Whole
  <2>2. c + n <= Len(messages) /\ \A k \in 1..n : c + k \in 1..Len(messages)
    BY <1>1, <2>1 DEF Filled
  <2>3. Filled(messages', c, n)
    <3>1. \A k \in 1..n : messages'[c + k] = messages[c + k]
      BY <1>1, <2>2
    <3>2. c + n <= Len(messages')
      BY <1>1, <2>1, <2>2
    <3> QED BY <2>1, <3>1, <3>2 DEF Filled
  <2>4. messages'[c].calls = CallSet(c, n)
    BY <1>1, <2>1
  <2> QED BY <2>3, <2>4 DEF Whole, CallSet
<1> QED BY <1>2, <1>3

LEMMA MsgIs ==
  ASSUME NEW role \in Roles, NEW text \in Int
  PROVE  Msg(role, text) \in Message /\ Msg(role, text).role = role /\ Msg(role, text).calls = {}
BY DEF Msg, Message

LEMMA ContextStart == ContextInit => ContextInv
<1> SUFFICES ASSUME ContextInit PROVE ContextInv
  OBVIOUS
<1>1. SessionInv
  BY ContextAssumption DEF ContextInit, SessionInv
<1>2. AnsweredInv
  BY DEF ContextInit, AnsweredInv
<1> QED BY <1>1, <1>2 DEF ContextInv

LEMMA ContextStutters == ContextInv /\ UNCHANGED contextVars => ContextInv'
BY DEF ContextInv, SessionInv, AnsweredInv, contextVars

LEMMA UserAsksKeeps == ASSUME ContextInv, UserAsks PROVE ContextInv'
<1>1. PICK n \in Lengths : Append1(Msg("user", n))
  BY DEF UserAsks
<1>2. Msg("user", n) \in Message /\ Msg("user", n).role = "user" /\ Msg("user", n).calls = {}
  BY ContextAssumption, MsgIs DEF Roles
<1>3. SessionInv /\ phase = "idle" /\ start' = Len(messages) + 1 /\ phase' = "model" /\ open' = open /\ Room
  BY DEF UserAsks, ContextInv
<1>4. Grows(Msg("user", n))
  BY <1>1, <1>2, <1>3, AppendGrows
<1>5. Len(messages) \in Nat /\ start' \in 1..Len(messages')
  BY <1>3, <1>4 DEF SessionInv, Grows
<1>6. SessionInv'
  BY <1>3, <1>4, <1>5, GrowsKeeps DEF SessionInv, Grows
<1>7. AnsweredInv'
  <2>1. messages'[start'].role = "user" /\ messages'[start'].calls = {}
    BY <1>2, <1>3, <1>4 DEF Grows
  <2>2. \A c \in start'..Len(messages') : c = start'
    BY <1>3, <1>4, <1>5 DEF Grows
  <2> QED BY <1>3, <2>1, <2>2 DEF AnsweredInv
<1> QED BY <1>6, <1>7 DEF ContextInv

\* A message without calls, in the model's place.
LEMMA PlainKeeps ==
  ASSUME ContextInv, phase = "model", NEW m \in Message, m.calls = {}, Grows(m), start' = start, open' = open, phase' \in {"model", "idle"}
  PROVE  ContextInv'
<1>1. SessionInv /\ Len(messages) \in Nat /\ start \in 1..Len(messages) /\ open = <<>>
  BY DEF ContextInv, SessionInv
<1>2. SessionInv'
  BY <1>1, GrowsKeeps DEF SessionInv, Grows
<1>3. ASSUME NEW c \in start..Len(messages'), messages'[c].calls # {} PROVE Whole(messages', c)
  <2>1. c # Len(messages) + 1
    BY <1>3 DEF Grows
  <2>2. c \in start..Len(messages) /\ c \in 1..Len(messages)
    BY <1>1, <2>1 DEF Grows
  <2>3. messages[c].calls # {}
    BY <1>3, <2>2 DEF Grows
  <2>4. Whole(messages, c)
    BY <2>2, <2>3 DEF ContextInv, AnsweredInv
  <2> QED BY <1>1, <2>2, <2>4, GrowsKeeps
<1>4. messages'[start].role = "user"
  BY <1>1 DEF ContextInv, AnsweredInv, Grows
<1>5. AnsweredInv'
  BY <1>3, <1>4 DEF AnsweredInv
<1> QED BY <1>2, <1>5 DEF ContextInv

LEMMA LoopAddsKeeps == ASSUME ContextInv, LoopAdds PROVE ContextInv'
<1>1. PICK role \in {"system", "user"} : Append1(Msg(role, Note))
  BY DEF LoopAdds
<1>2. Msg(role, Note) \in Message /\ Msg(role, Note).calls = {}
  BY ContextAssumption, MsgIs DEF Roles
<1>3. SessionInv /\ Room
  BY DEF ContextInv, LoopAdds
<1>4. Grows(Msg(role, Note))
  BY <1>1, <1>2, <1>3, AppendGrows
<1> QED BY <1>2, <1>4, PlainKeeps DEF LoopAdds

LEMMA AnswersKeep == ASSUME ContextInv, ModelAnswers PROVE ContextInv'
<1>1. PICK n \in Lengths : Append1(Msg("assistant", n))
  BY DEF ModelAnswers
<1>2. Msg("assistant", n) \in Message /\ Msg("assistant", n).calls = {}
  BY ContextAssumption, MsgIs DEF Roles
<1>3. SessionInv /\ Room
  BY DEF ContextInv, ModelAnswers
<1>4. Grows(Msg("assistant", n))
  BY <1>1, <1>2, <1>3, AppendGrows
<1> QED BY <1>2, <1>4, PlainKeeps DEF ModelAnswers

LEMMA TurnFailsKeeps == ASSUME ContextInv, TurnFails PROVE ContextInv'
BY DEF TurnFails, ContextInv, SessionInv, AnsweredInv

LEMMA CallsKeep == ASSUME ContextInv, ModelCalls PROVE ContextInv'
<1> PICK c : c = Len(messages) + 1
  OBVIOUS
<1>0. SessionInv /\ Room /\ phase = "model" /\ Len(messages) \in Nat /\ start \in 1..Len(messages) /\ c \in Nat \ {0}
  BY DEF ContextInv, SessionInv, ModelCalls
<1>1. PICK n \in 1..MaxIds, text \in {NoText, Note} :
        /\ Append1([Msg("assistant", text) EXCEPT !.calls = ToSet([k \in 1..n |-> <<c, k>>])])
        /\ open' = [k \in 1..n |-> <<c, k>>]
  BY DEF ModelCalls
<1>2. phase' = "tools" /\ start' = start
  BY DEF ModelCalls
<1>3. n \in Nat \ {0} /\ text \in Int
  BY ContextAssumption DEF NoText
<1>4. open' \in Seq(CallIds) /\ Len(open') = n /\ open' # <<>> /\ \A k \in 1..n : open'[k] = <<c, k>>
  <2>1. \A k \in 1..n : <<c, k>> \in CallIds
    BY <1>0, <1>3 DEF CallIds
  <2>2. open' \in [1..n -> CallIds] /\ \A k \in 1..n : open'[k] = <<c, k>>
    BY <1>1, <2>1
  <2>3. open' \in Seq(CallIds) /\ Len(open') = n
    BY <1>3, <2>2
  <2> QED BY <1>3, <2>2, <2>3
<1>5. ToSet([k \in 1..n |-> <<c, k>>]) = CallSet(c, n)
  BY <1>3 DEF ToSet, CallSet
<1> PICK m : m = [Msg("assistant", text) EXCEPT !.calls = CallSet(c, n)]
  OBVIOUS
<1>6. m \in Message /\ m.calls = CallSet(c, n)
  <2>1. CallSet(c, n) \subseteq CallIds
    BY <1>0, <1>3 DEF CallSet, CallIds
  <2> QED BY <1>3, <2>1 DEF Message, Msg, Roles
<1>7. Grows(m)
  BY <1>0, <1>1, <1>5, <1>6, AppendGrows
<1>8. SessionInv'
  BY <1>0, <1>2, <1>4, <1>7, GrowsKeeps DEF SessionInv, Grows
<1>9. messages'[c].calls = CallSet(c, n) /\ CallSet(c, n) # {} /\ c \in start..Len(messages')
  <2>1. <<c, 1>> \in CallSet(c, n)
    BY <1>3 DEF CallSet
  <2> QED BY <1>0, <1>6, <1>7, <2>1 DEF Grows
<1>10. Waiting(messages', open', c)
  <2>1. n - Len(open') = 0 /\ Len(open') \in 1..n /\ Len(messages') = c + (n - Len(open'))
    BY <1>0, <1>3, <1>4, <1>7 DEF Grows
  <2>2. Filled(messages', c, n - Len(open'))
    <3>1. c + 0 <= Len(messages') /\ n - Len(open') = 0
      BY <1>0, <1>7, <2>1 DEF Grows
    <3> QED BY <3>1 DEF Filled
  <2>3. \A k \in 1..Len(open') : open'[k] = <<c, n - Len(open') + k>>
    BY <1>4, <2>1
  <2>4. messages'[c].calls = CallSet(c, n)
    BY <1>9 DEF CallSet
  <2> QED BY <1>3, <2>1, <2>2, <2>3, <2>4 DEF Waiting
<1>11. ASSUME NEW d \in start..Len(messages'), d # c, messages'[d].calls # {} PROVE Whole(messages', d)
  <2>1. d \in start..Len(messages) /\ d \in 1..Len(messages)
    BY <1>0, <1>11, <1>7 DEF Grows
  <2>2. Whole(messages, d)
    BY <1>0, <1>7, <1>11, <2>1 DEF ContextInv, AnsweredInv, Grows
  <2> QED BY <1>0, <1>7, <2>1, <2>2, GrowsKeeps
<1>12. messages'[start].role = "user"
  BY <1>0, <1>7 DEF ContextInv, AnsweredInv, Grows
<1>13. AnsweredInv'
  BY <1>2, <1>9, <1>10, <1>11, <1>12 DEF AnsweredInv
<1> QED BY <1>8, <1>13 DEF ContextInv

LEMMA ToolReturnsKeeps == ASSUME ContextInv, ToolReturns PROVE ContextInv'
<1>0. /\ SessionInv /\ Room /\ phase = "tools" /\ Len(messages) \in Nat /\ start \in 1..Len(messages)
      /\ open \in Seq(CallIds) /\ open # <<>> /\ start' = start /\ open' = Tail(open)
      /\ phase' = IF Tail(open) = <<>> THEN "model" ELSE "tools"
  BY DEF ContextInv, SessionInv, ToolReturns
<1> PICK l : l = Len(open)
  OBVIOUS
<1>1. /\ l \in Nat \ {0} /\ Head(open) = open[1] /\ open[1] \in CallIds
      /\ Tail(open) \in Seq(CallIds) /\ Len(Tail(open)) = l - 1 /\ \A k \in 1..l - 1 : Tail(open)[k] = open[k + 1]
  BY <1>0, HeadTailProperties
<1>2. PICK t \in Lengths : Append1([Msg("tool", t) EXCEPT !.id = Head(open)])
  BY DEF ToolReturns
<1> PICK m : m = [Msg("tool", t) EXCEPT !.id = open[1]]
  OBVIOUS
<1>3. m \in Message /\ m.calls = {} /\ m.role = "tool" /\ m.id = open[1]
  <2>1. Msg("tool", t) \in Message /\ Msg("tool", t).role = "tool" /\ Msg("tool", t).calls = {}
    BY ContextAssumption, MsgIs DEF Roles
  <2>2. Msg("tool", t).id = <<>>
    BY DEF Msg
  <2> QED BY <1>1, <2>1 DEF Message
<1>4. Grows(m)
  BY <1>0, <1>1, <1>2, <1>3, AppendGrows
<1>5. /\ Len(messages') = Len(messages) + 1 /\ \A i \in 1..Len(messages) : messages'[i] = messages[i]
      /\ messages'[Len(messages) + 1].role = "tool" /\ messages'[Len(messages) + 1].calls = {}
      /\ messages'[Len(messages) + 1].id = open[1]
  BY <1>3, <1>4 DEF Grows
<1>6. SessionInv'
  <2>1. (phase' = "tools") = (open' # <<>>) /\ phase' \in {"idle", "model", "tools"}
    BY <1>0
  <2> QED BY <1>0, <1>1, <1>4, <2>1, GrowsKeeps DEF SessionInv, Grows
<1>7. PICK c \in start..Len(messages) :
        /\ messages[c].calls # {} /\ Waiting(messages, open, c)
        /\ \A d \in start..Len(messages) : d # c /\ messages[d].calls # {} => Whole(messages, d)
  BY <1>0 DEF ContextInv, AnsweredInv
<1>8. PICK n \in Nat \ {0} :
        /\ messages[c].calls = CallSet(c, n) /\ l \in 1..n /\ Filled(messages, c, n - l)
        /\ Len(messages) = c + (n - l)
        /\ \A k \in 1..l : open[k] = <<c, n - l + k>>
  BY <1>7 DEF Waiting
<1> PICK f : f = n - l
  OBVIOUS
<1>9. f \in Nat /\ Len(messages) + 1 = c + (f + 1) /\ c \in 1..Len(messages) /\ f + 1 <= n
  <2>1. l \in Nat \ {0} /\ n \in Nat /\ l <= n /\ f = n - l
    BY <1>1, <1>8
  <2>2. f \in Nat /\ f + 1 <= n
    BY ONLY <2>1
  <2>3. c \in 1..Len(messages) /\ Len(messages) = c + f
    BY <1>0, <1>8
  <2> QED BY <1>0, <2>2, <2>3
<1>10. messages'[c].calls = CallSet(c, n)
  BY <1>5, <1>8, <1>9 DEF CallSet
<1>11. Filled(messages', c, f + 1)
  <2>1. c + f <= Len(messages) /\ \A k \in 1..f : messages[c + k].role = "tool" /\ messages[c + k].id = <<c, k>>
    BY <1>8 DEF Filled
  <2>2. ASSUME NEW k \in 1..f + 1 PROVE messages'[c + k].role = "tool" /\ messages'[c + k].id = <<c, k>>
    <3>1. CASE k = f + 1
      <4>1. open[1] = <<c, f + 1>>
        BY <1>1, <1>8
      <4> QED BY <1>5, <1>9, <3>1, <4>1
    <3>2. CASE k # f + 1
      <4>1. k \in 1..f
        BY ONLY <1>9, <3>2, k \in 1..f + 1
      <4>2. c + k \in 1..Len(messages)
        <5> PICK z : z = Len(messages)
          OBVIOUS
        <5>1. z \in Nat /\ c \in 1..z /\ f \in Nat /\ z + 1 = c + (f + 1)
          BY <1>0, <1>9
        <5>2. c + k \in 1..z
          BY ONLY <4>1, <5>1
        <5> QED BY <5>2
      <4> QED BY <1>5, <2>1, <4>1, <4>2
    <3> QED BY <3>1, <3>2
  <2>3. c + (f + 1) <= Len(messages')
    BY <1>5, <1>9
  <2> QED BY <2>2, <2>3 DEF Filled
<1>12. ASSUME NEW d \in start..Len(messages'), d # c, messages'[d].calls # {} PROVE Whole(messages', d)
  <2> PICK z : z = Len(messages)
    OBVIOUS
  <2>1. d # z + 1 /\ z \in Nat /\ start \in 1..z /\ d \in start..z + 1
    BY <1>0, <1>5, <1>12
  <2>2. d \in start..z /\ d \in 1..z
    BY ONLY <2>1
  <2>3. messages[d].calls # {}
    BY <1>5, <1>12, <2>2
  <2>4. Whole(messages, d)
    BY <1>7, <1>12, <2>2, <2>3
  <2> QED BY <1>0, <1>4, <2>2, <2>4, GrowsKeeps
<1>13. messages'[start].role = "user" /\ c \in start..Len(messages')
  <2>1. messages[start].role = "user"
    BY <1>0 DEF ContextInv, AnsweredInv
  <2> QED BY <1>0, <1>5, <2>1
<1>14. CASE Tail(open) = <<>>
  <2>1. l = 1 /\ f + 1 = n
    <3>1. l - 1 = 0
      BY <1>1, <1>14
    <3>2. l \in Nat /\ n \in Nat /\ f = n - l
      BY <1>1, <1>8
    <3> QED BY ONLY <3>1, <3>2
  <2>2. Whole(messages', c)
    BY <1>10, <1>11, <2>1 DEF Whole
  <2>3. phase' = "model"
    BY <1>0, <1>14
  <2> QED BY <1>0, <1>6, <1>12, <1>13, <2>2, <2>3 DEF ContextInv, AnsweredInv
<1>15. CASE Tail(open) # <<>>
  <2>1. l - 1 \in 1..n /\ n - (l - 1) = f + 1 /\ Len(open') = l - 1
    <3>1. l - 1 # 0
      BY <1>1, <1>15, EmptySeq
    <3>2. l \in 1..n /\ n \in Nat /\ f = n - l
      BY <1>8
    <3>3. l - 1 \in 1..n /\ n - (l - 1) = f + 1
      BY ONLY <3>1, <3>2
    <3> QED BY <1>0, <1>1, <3>3
  <2>2. \A k \in 1..l - 1 : open'[k] = <<c, n - (l - 1) + k>>
    <3> TAKE k \in 1..l - 1
    <3>0. l \in Nat /\ n \in Nat /\ k \in 1..l - 1
      BY <1>1
    <3>1. k + 1 \in 1..l /\ n - l + (k + 1) = n - (l - 1) + k
      BY ONLY <3>0
    <3>2. open'[k] = open[k + 1]
      BY <1>0, <1>1
    <3> QED BY <1>8, <3>1, <3>2
  <2>3. Waiting(messages', open', c)
    <3>1. Filled(messages', c, n - Len(open'))
      BY <1>11, <2>1
    <3>2. Len(messages') = c + (n - Len(open'))
      BY <1>5, <1>9, <2>1
    <3>3. Len(open') \in 1..n /\ \A k \in 1..Len(open') : open'[k] = <<c, n - Len(open') + k>>
      BY <2>1, <2>2
    <3> QED BY <1>10, <3>1, <3>2, <3>3 DEF Waiting
  <2>4. messages'[c].calls # {} /\ phase' = "tools"
    BY <1>0, <1>5, <1>7, <1>9, <1>15
  <2> QED BY <1>0, <1>6, <1>12, <1>13, <2>3, <2>4 DEF ContextInv, AnsweredInv
<1> QED BY <1>14, <1>15

LEMMA ContextStep == ASSUME ContextInv, [ContextNext]_contextVars PROVE ContextInv'
BY ContextStutters, UserAsksKeeps, LoopAddsKeeps, AnswersKeep, CallsKeep, ToolReturnsKeeps, TurnFailsKeeps DEF ContextNext

---------------------------------------------------------------------------
(* The latest results *)

\* At p there are the response with the calls that the session has at c, and the n results.
Carried(ms, c, n, p) ==
    /\ p \in 1..Len(ms) /\ p + n <= Len(ms) /\ ms[p].calls = CallSet(c, n) /\ ms[p].at = c
    /\ \A k \in 1..n : ms[p + k].role = "tool" /\ ms[p + k].id = <<c, k>> /\ ms[p + k].at = c + k

LEMMA SameCarries ==
  ASSUME NEW ms \in Seq(Message), NEW rs, SameBut(rs, ms), NEW c \in Nat, NEW n \in Nat, NEW p, Carried(ms, c, n, p)
  PROVE  Carried(rs, c, n, p) /\ LastCall(rs) = LastCall(ms)
<1>1. Len(ms) \in Nat /\ p \in 1..Len(ms) /\ p + n <= Len(ms) /\ Len(rs) = Len(ms) /\ rs \in Seq(Message)
  BY SeqIs DEF SameBut, Carried
<1>2. \A k \in 1..n : p + k \in 1..Len(ms)
  BY <1>1
<1>3. Carried(rs, c, n, p)
  BY <1>1, <1>2 DEF SameBut, Carried
<1>4. DOMAIN rs = 1..Len(ms) /\ DOMAIN ms = 1..Len(ms) /\ \A i \in 1..Len(ms) : rs[i].calls = ms[i].calls
  BY <1>1, SeqIs DEF SameBut
<1>5. {i \in DOMAIN rs : rs[i].calls # {}} = {i \in DOMAIN ms : ms[i].calls # {}}
  BY <1>4
<1> QED BY <1>3, <1>5 DEF LastCall

LEMMA TailCarries ==
  ASSUME NEW a \in Seq(Message), NEW b \in Seq(Message), NEW c \in Nat, NEW n \in Nat, NEW p, Carried(b, c, n, p)
  PROVE  Carried(a \o b, c, n, Len(a) + p)
<1> PICK s : s = a \o b
  OBVIOUS
<1> PICK l : l = Len(a)
  OBVIOUS
<1>1. /\ Len(s) = l + Len(b) /\ l \in Nat /\ Len(b) \in Nat /\ \A i \in 1..Len(b) : s[l + i] = b[i]
  BY ConcatProperties, SeqIs
<1>2. p \in 1..Len(b) /\ p + n <= Len(b) /\ \A k \in 1..n : p + k \in 1..Len(b) /\ (l + p) + k = l + (p + k)
  BY <1>1 DEF Carried
<1>3. l + p \in 1..Len(s) /\ (l + p) + n <= Len(s) /\ s[l + p] = b[p]
  <2>1. l + p \in 1..l + Len(b) /\ (l + p) + n <= l + Len(b)
    BY ONLY <1>1, <1>2, n \in Nat
  <2>2. s[l + p] = b[p]
    BY <1>1, <1>2
  <2> QED BY <1>1, <2>1, <2>2
<1>4. \A k \in 1..n : s[(l + p) + k] = b[p + k]
  <2> TAKE k \in 1..n
  <2>1. p + k \in 1..Len(b) /\ (l + p) + k = l + (p + k)
    BY <1>2
  <2>2. s[l + (p + k)] = b[p + k]
    BY <1>1, <2>1
  <2> QED BY <2>1, <2>2
<1>5. Carried(s, c, n, l + p)
  BY <1>3, <1>4 DEF Carried
<1> QED BY <1>5

\* The part from m + 1 on still has what is behind m.
LEMMA PartCarries ==
  ASSUME NEW ms \in Seq(Message), NEW m \in Nat, m <= Len(ms), NEW c \in Nat, NEW n \in Nat, NEW p, m < p, Carried(ms, c, n, p)
  PROVE  SubSeq(ms, m + 1, Len(ms)) \in Seq(Message) /\ Carried(SubSeq(ms, m + 1, Len(ms)), c, n, p - m)
<1> PICK s : s = SubSeq(ms, m + 1, Len(ms))
  OBVIOUS
<1>1. /\ s \in Seq(Message) /\ Len(s) = Len(ms) - m /\ Len(ms) \in Nat
      /\ \A i \in 1..Len(ms) - m : s[i] = ms[m + i]
  BY PartsAre, SeqIs
<1>2. p \in 1..Len(ms) /\ p + n <= Len(ms)
  BY DEF Carried
<1>3. p - m \in 1..Len(s) /\ (p - m) + n <= Len(s) /\ m + (p - m) = p
  BY <1>1, <1>2
<1>4. \A k \in 1..n : (p - m) + k \in 1..Len(ms) - m /\ m + ((p - m) + k) = p + k
  BY <1>1, <1>2
<1>5. s[p - m] = ms[p] /\ \A k \in 1..n : s[(p - m) + k] = ms[p + k]
  BY <1>1, <1>3, <1>4
<1>6. Carried(s, c, n, p - m)
  BY <1>3, <1>5 DEF Carried
<1> QED BY <1>1, <1>6

LEMMA CallSetIs == ASSUME NEW c \in Nat, NEW n \in Nat \ {0} PROVE CallSet(c, n) # {} /\ <<c, n>> \in CallSet(c, n) /\ Cardinality(CallSet(c, n)) = n
<1>1. <<c, n>> \in CallSet(c, n)
  BY DEF CallSet
<1> DEFINE f == [k \in 1..n |-> <<c, k>>]
<1>2. f \in Bijection(1..n, CallSet(c, n))
  <2>1. f \in [1..n -> CallSet(c, n)]
    BY DEF CallSet
  <2>2. \A a, b \in 1..n : f[a] = f[b] => a = b
    OBVIOUS
  <2>3. \A x \in CallSet(c, n) : \E a \in 1..n : f[a] = x
    BY DEF CallSet
  <2> QED BY <2>1, <2>2, <2>3 DEF Bijection, Injection, Surjection, IsInjective
<1>3. IsFiniteSet(1..n) /\ Cardinality(1..n) = n
  BY FS_Interval
<1>4. ExistsBijection(1..n, CallSet(c, n))
  BY <1>2 DEF ExistsBijection
<1> QED BY <1>1, <1>3, <1>4, FS_Bijection

\* The budgets keep the latest response and its results.
LEMMA ActiveCarries ==
  ASSUME NEW ms \in Seq(Message), NEW c \in Nat, NEW n \in Nat \ {0}, LastCall(ms) > 1, Carried(ms, c, n, LastCall(ms))
  PROVE  BudgetActive(ms) \in Seq(Message) /\ \E p : Carried(BudgetActive(ms), c, n, p)
<1> PICK w : w = Compress(ms)
  OBVIOUS
<1> PICK last : last = LastCall(ms)
  OBVIOUS
<1>1. SameBut(w, ms) /\ w \in Seq(Message) /\ Carried(w, c, n, last) /\ LastCall(w) = last
  BY CompressIs, SameCarries DEF SameBut
<1>2. last \in 2..Len(w) /\ Len(w) \in Nat /\ Len(w) >= 1
  BY <1>1 DEF Carried
<1>3. PICK a \in Seq(Message) : ReduceActive(w) = a \o SubSeq(w, last, Len(w))
  BY <1>1, <1>2, ReduceIs
<1> PICK r : r = ReduceActive(w)
  OBVIOUS
<1>4. r \in Seq(Message)
  BY <1>1, <1>2, ReduceIs
<1>5. \E p : Carried(r, c, n, p)
  <2> PICK m : m = last - 1
    OBVIOUS
  <2>1. m \in Nat /\ m <= Len(w) /\ m < last /\ m + 1 = last
    BY <1>2
  <2>2. SubSeq(w, last, Len(w)) \in Seq(Message) /\ Carried(SubSeq(w, last, Len(w)), c, n, last - m)
    BY <1>1, <2>1, PartCarries
  <2>3. Carried(r, c, n, Len(a) + (last - m))
    BY <1>3, <2>2, TailCarries
  <2> QED BY <2>3
<1>6. CompactActive(r) \in Seq(Message) /\ \E p : Carried(CompactActive(r), c, n, p)
  <2>1. PICK p : Carried(r, c, n, p)
    BY <1>5
  <2>2. LastCall(r) # 0
    <3>1. p \in 1..Len(r) /\ r[p].calls # {}
      BY <2>1, CallSetIs DEF Carried
    <3> QED BY <1>4, <3>1, LastCallIs
  <2> PICK q : q = [i \in DOMAIN r |-> Shortened(r[i])]
    OBVIOUS
  <2>3. SameBut(q, r) /\ q \in Seq(Message) /\ Carried(q, c, n, p)
    BY <1>4, <2>1, ShortenedIs, SameCarries DEF SameBut
  <2>4. CompactActive(r) = r \/ CompactActive(r) = q
    BY <2>2 DEF CompactActive
  <2> QED BY <1>4, <2>1, <2>3, <2>4
<1> QED BY <1>1, <1>6 DEF BudgetActive

\* The sanitizer leaves them alone.
LEMMA SanitizedHas ==
  ASSUME NEW ms \in Seq(Message), NEW c \in Nat, NEW n \in Nat \ {0}, NEW p, Carried(ms, c, n, p)
  PROVE  \A i \in c..c + n : Has(Sanitized(ms), i)
<1> DEFINE rs == [i \in DOMAIN ms |-> Repaired(ms, i)]
           K == {i \in DOMAIN ms : ~Dropped(ms, i)}
<1>1. Len(ms) \in Nat /\ DOMAIN ms = 1..Len(ms)
  BY SeqIs
<1>2. /\ p \in 1..Len(ms) /\ p + n <= Len(ms) /\ ms[p].calls = CallSet(c, n) /\ ms[p].at = c
      /\ \A k \in 1..n : ms[p + k].role = "tool" /\ ms[p + k].id = <<c, k>> /\ ms[p + k].at = c + k
  BY DEF Carried
<1> PICK e : e = Extent(ms, p)
  OBVIOUS
<1>3. Answers(ms, p, n)
  <2>2. ASSUME NEW j \in p + 1..p + n PROVE ms[j].role = "tool" /\ ms[j].id \in CallSet(c, n)
    <3> PICK k : k = j - p
      OBVIOUS
    <3>1. k \in 1..n /\ j = p + k
      BY <1>1, <1>2
    <3>2. ms[p + k].role = "tool" /\ ms[p + k].id = <<c, k>>
      BY <1>2, <3>1
    <3> QED BY <3>1, <3>2 DEF CallSet
  <2> QED BY <1>2, <2>2 DEF Answers
<1>4. Ids(ms, p, n - 1) # ms[p].calls
  <2>2. ASSUME NEW j \in p + 1..p + (n - 1) PROVE ms[j].id # <<c, n>>
    <3> PICK k : k = j - p
      OBVIOUS
    <3>1. p \in Nat /\ j \in p + 1..p + (n - 1)
      BY <1>1, <1>2
    <3>2. k \in 1..n /\ j = p + k /\ k < n
      BY ONLY <3>1, n \in Nat \ {0}, k = j - p
    <3>3. ms[p + k].id = <<c, k>>
      BY <1>2, <3>2
    <3>4. <<c, k>> # <<c, n>>
      BY ONLY <3>2, n \in Nat \ {0}
    <3> QED BY <3>2, <3>3, <3>4
  <2>3. <<c, n>> \notin Ids(ms, p, n - 1)
    BY <2>2 DEF Ids
  <2> QED BY <1>2, <2>3, CallSetIs
<1>5. e \in 0..(Len(ms) - p) /\ Answers(ms, p, e) /\ n <= e
  <2>1. n \in 1..(Len(ms) - p)
    BY <1>1, <1>2
  <2> QED BY <1>2, <1>3, <1>4, <2>1, ExtentIs
<1>6. Complete(ms, p)
  <2>1. \A x \in Ids(ms, p, e) : x \in ms[p].calls
    BY <1>5 DEF Ids, Answers
  <2>2. ASSUME NEW k \in 1..n PROVE <<c, k>> \in Ids(ms, p, e)
    <3>1. p \in Nat /\ e \in Nat /\ n <= e
      BY <1>1, <1>2, <1>5
    <3>2. p + k \in p + 1..p + e
      BY <3>1
    <3>3. ms[p + k].id = <<c, k>>
      BY <1>2
    <3> QED BY <3>2, <3>3 DEF Ids
  <2>3. \A x \in ms[p].calls : x \in Ids(ms, p, e)
    BY <1>2, <2>2 DEF CallSet
  <2> QED BY <2>1, <2>3 DEF Complete
<1>7. ms[p].calls # {}
  BY <1>2, CallSetIs
<1>8. p + e <= Len(ms) /\ \A j \in p..p + e : ~Dropped(ms, j) /\ Repaired(ms, j) = ms[j]
  BY <1>2, <1>6, <1>7, GroupKept
<1>9. \A i \in 1..Len(ms) : Repaired(ms, i) \in Message
  BY <1>1, SeqIs, SummaryIs DEF Repaired
<1>10. rs \in Seq(Message) /\ Len(rs) = Len(ms) /\ \A i \in 1..Len(ms) : rs[i] = Repaired(ms, i)
  BY <1>1, <1>9
<1>11. K \in Places(Len(rs)) /\ \A i \in 1..Len(ms) : ~Dropped(ms, i) => i \in K
  BY <1>1, <1>10 DEF Places
<1>12. Sanitized(ms) = Chosen(rs, K)
  BY DEF Sanitized
<1> HIDE DEF rs, K
<1>13. ASSUME NEW d \in 0..n PROVE Has(Sanitized(ms), c + d)
  <2>1. p + d \in p..p + e /\ p + d \in 1..Len(ms)
    BY <1>1, <1>2, <1>5
  <2>2. p + d \in K /\ rs[p + d] = ms[p + d]
    BY <1>8, <1>10, <1>11, <2>1
  <2>3. ms[p + d].at = c + d
    <3>1. CASE d = 0
      <4>1. p + d = p /\ c + d = c
        BY <1>2, <3>1
      <4> QED BY <1>2, <4>1
    <3>2. CASE d # 0
      <4>1. d \in 1..n
        BY <3>2
      <4> QED BY <1>2, <4>1
    <3> QED BY <3>1, <3>2
  <2> PICK r : r = Rank(K, p + d)
    OBVIOUS
  <2>4. r \in 1..Cardinality(K) /\ Nth(K, r) = p + d
    BY <1>1, <1>10, <1>11, <2>2, NthRank
  <2>5. Chosen(rs, K)[r] = rs[p + d] /\ r \in DOMAIN Chosen(rs, K)
    BY <2>4 DEF Chosen
  <2> QED BY <1>12, <2>2, <2>3, <2>5 DEF Has
<1> QED
  <2> TAKE i \in c..c + n
  <2>1. i - c \in 0..n /\ c + (i - c) = i
    OBVIOUS
  <2> QED BY <1>13, <2>1

LEMMA LatestFromInv == ContextInv => LatestResultsAreSeen
<1> SUFFICES ASSUME ContextInv, phase = "model", Tokens(Sanitized(Built)) <= Limit,
                    NEW last, last = LastCall(ActiveTurn) + start - 1, last >= start
             PROVE  \A i \in last..last + Cardinality(messages[last].calls) : Has(Sent, i)
  BY DEF LatestResultsAreSeen
<1>1. Sent = Sanitized(Built)
  BY DEF Sent, Trimmed
<1> PICK m : m = start - 1
  OBVIOUS
<1>2. /\ SessionInv /\ messages \in Seq(Message) /\ Len(messages) \in Nat /\ start \in 1..Len(messages)
      /\ m \in Nat /\ m <= Len(messages) /\ m + 1 = start /\ Len(messages) - m >= 1
  BY DEF ContextInv, SessionInv
<1> PICK turn : turn = ActiveTurn
  OBVIOUS
<1>3. /\ turn \in Seq(Message) /\ Len(turn) = Len(messages) - m /\ \A i \in 1..Len(messages) - m : turn[i] = messages[m + i]
  BY <1>2, PartsAre DEF ActiveTurn
<1> PICK p : p = LastCall(turn)
  OBVIOUS
<1>4. p \in 1..Len(turn) /\ last = m + p /\ turn[p].calls # {} /\ messages[last] = turn[p]
  <2>1. p \in 0..Len(turn) /\ (p # 0 => turn[p].calls # {})
    BY <1>3, LastCallIs
  <2>2. last = m + p /\ p \in 1..Len(turn)
    BY <1>2, <2>1
  <2> QED BY <1>2, <1>3, <2>1, <2>2
<1>5. last \in start..Len(messages) /\ last \in Nat /\ messages[last].calls # {}
  BY <1>2, <1>3, <1>4
<1>6. PICK n \in Nat \ {0} : messages[last].calls = CallSet(last, n) /\ Filled(messages, last, n)
  BY <1>5 DEF ContextInv, AnsweredInv, Whole
<1>7. Carried(messages, last, n, last)
  <2>1. last + n <= Len(messages) /\ \A k \in 1..n : messages[last + k].role = "tool" /\ messages[last + k].id = <<last, k>>
    BY <1>6 DEF Filled
  <2>2. \A k \in 1..n : last + k \in 1..Len(messages)
    BY <1>2, <1>5, <2>1
  <2>3. last \in 1..Len(messages)
    BY <1>2, <1>5
  <2> QED BY <1>2, <1>6, <2>1, <2>2, <2>3 DEF Carried, SessionInv
<1>8. Carried(turn, last, n, p)
  <2>1. m < last /\ last - m = p
    BY <1>2, <1>4
  <2>2. Carried(SubSeq(messages, m + 1, Len(messages)), last, n, last - m)
    BY <1>2, <1>5, <1>7, <2>1, PartCarries
  <2>3. turn = SubSeq(messages, m + 1, Len(messages))
    BY <1>2 DEF ActiveTurn
  <2> QED BY <2>1, <2>2, <2>3
<1>9. p > 1
  <2>1. messages[start].role = "user" /\ messages[start] \in Message
    BY <1>2, SeqIs DEF ContextInv, AnsweredInv
  <2>2. messages[start].calls = {}
    BY <2>1, MessageIs
  <2>3. turn[1] = messages[start]
    <3>1. 1 \in 1..Len(messages) - m
      BY <1>2
    <3> QED BY <1>2, <1>3, <3>1
  <2> QED BY <1>4, <2>2, <2>3
<1>10. BudgetActive(turn) \in Seq(Message) /\ \E q : Carried(BudgetActive(turn), last, n, q)
  BY <1>3, <1>5, <1>8, <1>9, ActiveCarries
<1>11. PICK q : Carried(Built, last, n, q)
  <2>1. PICK q : Carried(BudgetActive(turn), last, n, q)
    BY <1>10
  <2> DEFINE a == <<Msg("system", Note)>> \o BudgetHistory(History) \o <<Msg("user", Note), Msg("user", Note)>>
  <2>2. a \in Seq(Message)
    <3>1. History \in Seq(Message)
      BY <1>2, PartsAre DEF History
    <3>2. \A x \in Seq(Message), y \in Seq(Message) : x \o y \in Seq(Message)
      BY ConcatProperties
    <3> QED BY <3>1, <3>2, HistoryIs, NotesAre
  <2>3. Built = a \o BudgetActive(turn)
    BY DEF Built
  <2> HIDE DEF a
  <2>4. Carried(a \o BudgetActive(turn), last, n, Len(a) + q)
    BY <1>5, <1>10, <2>1, <2>2, TailCarries
  <2> QED BY <2>3, <2>4
<1>12. Built \in Seq(Message)
  BY <1>2, BuiltIs
<1>13. \A i \in last..last + n : Has(Sanitized(Built), i)
  BY <1>5, <1>11, <1>12, SanitizedHas
<1>14. Cardinality(messages[last].calls) = n
  <2>1. Cardinality(CallSet(last, n)) = n
    BY <1>5, CallSetIs
  <2> QED BY <1>6, <2>1
<1>15. \A i \in last..last + n : Has(Sent, i)
  BY <1>1, <1>13
<1> QED BY <1>14, <1>15

LEMMA ContextHolds == ContextSpec => []ContextInv
<1>1. ContextInv /\ [ContextNext]_contextVars => ContextInv'
  BY ContextStep
<1> QED BY <1>1, ContextStart, PTL DEF ContextSpec

\* Every message of a session knows its place, the active turn starts in the session, and
\* calls are open exactly while their results are still to come.
THEOREM ContextTypesCorrect == ContextSpec => []ContextTypeOK
<1>1. ContextInv => ContextTypeOK
  BY ContextAssumption DEF ContextInv, SessionInv, ContextTypeOK
<1> QED BY <1>1, ContextHolds, PTL

\* Under the token limit, the latest response with tool calls and all of its results are in
\* what is sent, whatever budget_active_turn and the sanitizer have cut.
THEOREM LatestResultsReachModel == ContextSpec => []LatestResultsAreSeen
BY LatestFromInv, ContextHolds, PTL

\* Whatever turns failed half way and whatever the budgets cut (context_history.py), what leaves
\* _sanitize_context_messages pairs every tool call with its results, emergency_trim keeps it
\* so wherever it trims by groups, and the latest results are in it.
THEOREM SentUsable == ContextSpec => []SentIsUsable
<1>1. ContextInv => SentIsUsable
  BY PairedFromInv, LatestFromInv DEF ContextInv, SentIsUsable
<1> QED BY <1>1, ContextHolds, PTL
=============================================================================
