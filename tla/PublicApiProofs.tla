--------------------------- MODULE PublicApiProofs ---------------------------
(***************************************************************************)
(* Theorems about PublicApi and the breaker its requests share, for any    *)
(* parcels, clients, times to live and numbers of requests and faults.     *)
(***************************************************************************)
EXTENDS PublicApi, TLAPS

-----------------------------------------------------------------------------
(* The breaker *)

\* The counter and the state together: each is what the other needs to stay
\* right, because a late failure adds to the counter in every state.
IInv == TypeOK /\ ClosedIffBelowThreshold

\* A new breaker is closed and has counted no failure.
LEMMA InitInv == Init => IInv
  BY ThresholdAssumption, TimeoutAssumption
     DEF Init, IInv, TypeOK, ClosedIffBelowThreshold

\* Every step keeps the counter and the state together.
LEMMA NextInv == IInv /\ [Next]_vars => IInv'
<1> SUFFICES ASSUME IInv, [Next]_vars
             PROVE  IInv'
  OBVIOUS
<1> USE ThresholdAssumption, TimeoutAssumption, BoundAssumption
    DEF IInv, TypeOK, ClosedIffBelowThreshold
<1>1. ASSUME NEW r \in Calls, Admit(r)
      PROVE  IInv'
  BY <1>1 DEF Admit
<1>2. ASSUME NEW r \in Calls, Refuse(r)
      PROVE  IInv'
  BY <1>2 DEF Refuse, vars
<1>3. ASSUME NEW r \in Calls, CallSucceeds(r)
      PROVE  IInv'
  BY <1>3 DEF CallSucceeds, record_success
<1>4. ASSUME NEW r \in Calls, CallFails(r)
      PROVE  IInv'
  <2>1. CASE failures + 1 >= Threshold
    BY <1>4, <2>1 DEF CallFails, record_failure
  <2>2. CASE failures + 1 < Threshold
    \* The counter was below the threshold, so the breaker is closed.
    BY <1>4, <2>2 DEF CallFails, record_failure
  <2> QED  BY <2>1, <2>2
<1>5. ASSUME NEW r \in Calls, CallCancelled(r)
      PROVE  IInv'
  BY <1>5 DEF CallCancelled
<1>6. CASE Tick
  BY <1>6 DEF Tick, Recovered
<1>7. CASE ServiceChanges
  BY <1>7 DEF ServiceChanges
<1>8. CASE UNCHANGED vars
  BY <1>8 DEF vars
<1> QED  BY <1>1, <1>2, <1>3, <1>4, <1>5, <1>6, <1>7, <1>8
            DEF Next, Request, CallEnds

\* The breaker is closed exactly while fewer than Threshold failures followed
\* the last success, whatever calls end in whatever state of the breaker.
THEOREM ClosedBelowThreshold == Spec => []ClosedIffBelowThreshold
<1>1. IInv => ClosedIffBelowThreshold
  BY DEF IInv
<1> QED  BY <1>1, InitInv, NextInv, PTL DEF Spec

-----------------------------------------------------------------------------
(* The requests and the cache *)

\* What answer a may be stored and sent for key k of the cache.
Fits(a, k) == a \in Answers /\ a.for = k /\ a.status = 200

\* A request stores and sends answers that fit its own parcel and tier.
RequestInv(q) ==
    /\ q \in Requests
    /\ q.pc \in {"get", "setex"} => q.parcel \in Parcels
    /\ q.pc \in {"setex", "reply"} => Fits(q.answer, <<q.parcel, q.tier>>)
    /\ q.pc = "setex" => q.answer.age <= MaxDelay
    /\ q.pc = "reply" => q.answer.age < TTL + MaxDelay

\* The answer under a key of the cache fits it; its age is the time it waited to
\* be stored and the part of its life that is over.
EntryInv(e, k) ==
    \/ e = None
    \/ e \in Entries /\ Fits(e.answer, k) /\ e.answer.age + e.life <= TTL + MaxDelay

RequestsInv == api \in [Calls -> Requests] /\ \A r \in Calls : RequestInv(api[r])
CacheInv ==
    cache \in [Keys -> Entries \cup {None}] /\ \A k \in Keys : EntryInv(cache[k], k)
CallInv == inFlight = {r \in Calls : api[r].pc = "call"}

ApiInv == IInv /\ RequestsInv /\ CacheInv /\ CallInv /\ faults \in 0..MaxFaults

USE ThresholdAssumption, TimeoutAssumption, BoundAssumption, CacheAssumption,
    FaultAssumption, ClientAssumption, NoneAssumption

-----------------------------------------------------------------------------
(* The breaker in the composition *)

\* The steps of the endpoints change the breaker as its own module says, and a
\* restart makes a new one.
LEMMA BreakerSteps == ApiNext => [Next]_vars \/ Restart
<1>1. ASSUME NEW r \in Calls, Progress(r)
      PROVE  UNCHANGED vars \/ Admit(r) \/ Refuse(r) \/ CallSucceeds(r) \/ CallFails(r)
  BY <1>1 DEF Progress, CacheHit, CacheMiss, StartCall, RefuseCall, CallAnswers,
              CallRaises, StoreAnswer, Reply
<1>2. ASSUME NEW r \in Calls, RequestFails(r)
      PROVE  UNCHANGED vars \/ CallCancelled(r)
  BY <1>2 DEF RequestFails, CacheFails, StoreFails, Cancel
<1>3. Entered => UNCHANGED vars
  BY DEF Entered, Enter
<1>4. Time => Tick
  BY DEF Time
<1> QED  BY <1>1, <1>2, <1>3, <1>4 DEF ApiNext, Next, Request, CallEnds

\* Both keep the invariant of the breaker.
LEMMA BreakerKept ==
    ASSUME IInv, ApiNext
    PROVE  IInv'
<1>1. CASE Restart
  BY <1>1 DEF Restart, IInv, TypeOK, ClosedIffBelowThreshold
<1> QED  BY <1>1, BreakerSteps, NextInv

-----------------------------------------------------------------------------
(* The requests *)

\* One request changes.
LEMMA OneRequest ==
    ASSUME RequestsInv, NEW r \in Calls, NEW q, RequestInv(q),
           api' = [api EXCEPT ![r] = q]
    PROVE  RequestsInv'
  BY DEF RequestsInv, RequestInv

\* The idle request satisfies the invariant.
LEMMA IdleRequest == RequestInv(IdleApi)
  BY DEF IdleApi, RequestInv, Requests, UserTier

\* A request goes on with an answer that fits.
LEMMA FitsRequest ==
    ASSUME NEW q, RequestInv(q), NEW a, NEW pc \in {"setex", "reply"},
           q.parcel \in Parcels, Fits(a, <<q.parcel, q.tier>>),
           pc = "setex" => a.age <= MaxDelay,
           pc = "reply" => a.age < TTL + MaxDelay
    PROVE  RequestInv(Holding(q, pc, a))
<1> DEFINE w == Holding(q, pc, a)
<1>1. q \in Requests
  BY DEF RequestInv
<1>2. a \in Answers
  BY DEF Fits
<1>3. w \in Requests
  BY <1>1, <1>2 DEF Requests, Holding
<1>4. w.pc = pc /\ w.parcel = q.parcel /\ w.tier = q.tier /\ w.answer = a
  BY DEF Holding
<1> HIDE DEF w
<1>5. RequestInv(w)
  BY <1>3, <1>4 DEF RequestInv
<1> QED  BY <1>5 DEF w

\* The tiers of authentication are members of UserTier.
LEMMA TierType == \A cr : Tier(cr) \in UserTier
  BY DEF Tier, UserTier

\* Every key of the cache is made of a parcel and a tier.
LEMMA KeyType ==
    ASSUME RequestsInv, NEW r \in Calls, api[r].pc \in {"get", "setex"}
    PROVE  KeyOf(r) \in Keys /\ KeyOf(r) = <<api[r].parcel, api[r].tier>>
<1>1. api[r] \in Requests /\ api[r].parcel \in Parcels
  BY DEF RequestsInv, RequestInv
<1>2. api[r].tier \in UserTier
  BY <1>1 DEF Requests
<1> QED  BY <1>1, <1>2 DEF KeyOf, Keys, cache_key

\* Every step leaves requests that satisfy the invariant.
LEMMA RequestSteps ==
    ASSUME RequestsInv, CacheInv, ApiNext
    PROVE  RequestsInv'
<1>1. ASSUME NEW r \in Calls, Done(r)
      PROVE  RequestsInv'
  BY <1>1, OneRequest, IdleRequest DEF Done
<1>2. CASE UNCHANGED api
  BY <1>2 DEF RequestsInv
<1>3. ASSUME NEW r \in Calls, NEW p \in Parcels \cup {None}, NEW cr \in Clients,
             Enter(r, p, cr)
      PROVE  RequestsInv'
  <2> DEFINE q == [pc |-> IF p = None THEN "request" ELSE "get",
                   parcel |-> p, tier |-> Tier(cr), answer |-> None]
  <2>2. q \in Requests
    BY TierType DEF Requests
  <2>3. q.pc \in {"request", "get"} /\ q.parcel = p /\ (q.pc = "get" => p # None)
    OBVIOUS
  <2> HIDE DEF q
  <2>4. RequestInv(q)
    BY <2>2, <2>3 DEF RequestInv
  <2>5. api' = [api EXCEPT ![r] = q]
    BY <1>3 DEF Enter, q
  <2> QED  BY <2>4, <2>5, OneRequest
<1>4. ASSUME NEW r \in Calls, CacheHit(r)
      PROVE  RequestsInv'
  <2> DEFINE q == Holding(api[r], "reply", cache[KeyOf(r)].answer)
  <2>1. EntryInv(cache[KeyOf(r)], KeyOf(r)) /\ cache[KeyOf(r)] # None
    BY <1>4, KeyType DEF CacheHit, CacheInv
  <2>2. /\ Fits(cache[KeyOf(r)].answer, <<api[r].parcel, api[r].tier>>)
        /\ cache[KeyOf(r)].answer.age < TTL + MaxDelay
    BY <1>4, <2>1, KeyType DEF CacheHit, EntryInv, Entries, Answers, Fits
  <2>3. RequestInv(api[r]) /\ api[r].parcel \in Parcels
    BY <1>4 DEF CacheHit, RequestsInv, RequestInv
  <2>4. RequestInv(q)
    BY <2>2, <2>3, FitsRequest
  <2> QED  BY <1>4, <2>4, OneRequest DEF CacheHit, Serve
<1>5. ASSUME NEW r \in Calls, CacheMiss(r)
      PROVE  RequestsInv'
  <2>1. RequestInv([api[r] EXCEPT !.pc = "request"])
    BY <1>5 DEF CacheMiss, RequestsInv, RequestInv, Requests
  <2> QED  BY <1>5, <2>1, OneRequest DEF CacheMiss
<1>6. ASSUME NEW r \in Calls, StartCall(r)
      PROVE  RequestsInv'
  <2>1. RequestInv([api[r] EXCEPT !.pc = "call"])
    BY <1>6 DEF StartCall, RequestsInv, RequestInv, Requests
  <2> QED  BY <1>6, <2>1, OneRequest DEF StartCall
<1>7. ASSUME NEW r \in Calls, NEW status \in {200, 404}, CallAnswers(r, status)
      PROVE  RequestsInv'
  <2>1. CASE Cacheable(r, status)
    <3> DEFINE q == Holding(api[r], "setex", Answer(r, status))
    <3>1. Fits(Answer(r, status), <<api[r].parcel, api[r].tier>>)
      BY <2>1 DEF Cacheable, Answer, Answers, Fits, RequestsInv, RequestInv, Requests
    <3>2. Answer(r, status).age <= MaxDelay
      BY DEF Answer
    <3>3. RequestInv(api[r]) /\ api[r].parcel \in Parcels
      BY <2>1 DEF Cacheable, RequestsInv, RequestInv, Requests
    <3>4. RequestInv(q)
      BY <3>1, <3>2, <3>3, FitsRequest
    <3> QED  BY <1>7, <2>1, <3>4, OneRequest DEF CallAnswers
  <2>2. CASE ~Cacheable(r, status)
    BY <1>1, <1>7, <2>2 DEF CallAnswers
  <2> QED  BY <2>1, <2>2
<1>8. ASSUME NEW r \in Calls, StoreAnswer(r)
      PROVE  RequestsInv'
  <2>1. /\ RequestInv(api[r]) /\ api[r].parcel \in Parcels
        /\ Fits(api[r].answer, <<api[r].parcel, api[r].tier>>)
        /\ api[r].answer.age <= MaxDelay
    BY <1>8 DEF StoreAnswer, RequestsInv, RequestInv
  <2>2. api[r].answer.age < TTL + MaxDelay
    BY <2>1 DEF Fits, Answers
  <2>3. RequestInv(Holding(api[r], "reply", api[r].answer))
    BY <2>1, <2>2, FitsRequest
  <2> QED  BY <1>8, <2>3, OneRequest DEF StoreAnswer, Serve
<1>9. CASE Time
  <2>1. ASSUME NEW r \in Calls, api[r].pc = "setex"
        PROVE  RequestInv([api[r] EXCEPT !.answer = Older(api[r].answer)])
    <3> DEFINE a == api[r].answer
    <3>1. a \in Answers /\ a.age < MaxDelay
      BY <1>9, <2>1 DEF Time, RequestsInv, RequestInv, Fits
    <3>2. Older(a) \in Answers /\ Older(a).for = a.for /\ Older(a).status = a.status
          /\ Older(a).age <= MaxDelay
      BY <3>1 DEF Older, Answers
    <3> QED  BY <2>1, <3>2 DEF RequestsInv, RequestInv, Requests, Fits
  <2>2. ASSUME NEW r \in Calls
        PROVE  RequestInv(api'[r])
    <3>1. CASE api[r].pc = "setex"
      BY <1>9, <2>1, <3>1 DEF Time
    <3>2. CASE api[r].pc # "setex"
      BY <1>9, <3>2 DEF Time, RequestsInv
    <3> QED  BY <3>1, <3>2
  <2>3. DOMAIN api' = Calls /\ \E f : api' = [r \in Calls |-> f[r]]
    BY <1>9 DEF Time
  <2> QED  BY <1>9, <2>2, <2>3 DEF Time, RequestsInv, RequestInv
<1>10. CASE Restart
  BY <1>10, IdleRequest DEF Restart, RequestsInv, RequestInv
<1>11. ASSUME NEW r \in Calls, Progress(r)
       PROVE  RequestsInv'
  BY <1>1, <1>4, <1>5, <1>6, <1>7, <1>8, <1>11
     DEF Progress, RefuseCall, CallRaises, Reply, Done
<1>12. ASSUME NEW r \in Calls, RequestFails(r)
       PROVE  RequestsInv'
  BY <1>1, <1>12 DEF RequestFails, CacheFails, StoreFails, Cancel, Done
<1>13. Entered => RequestsInv'
  BY <1>3 DEF Entered
<1> QED  BY <1>2, <1>9, <1>10, <1>11, <1>12, <1>13 DEF ApiNext

-----------------------------------------------------------------------------
(* The cache *)

\* SETEX by a request that is about to store its answer.
LEMMA StoreKeepsCache ==
    ASSUME RequestsInv, CacheInv, NEW r \in Calls, api[r].pc = "setex",
           SetEx(KeyOf(r), api[r].answer)
    PROVE  CacheInv'
<1> DEFINE e == [answer |-> api[r].answer, life |-> TTL]
<1>1. Fits(api[r].answer, KeyOf(r)) /\ api[r].answer.age <= MaxDelay
  BY KeyType DEF RequestsInv, RequestInv
<1>2. e \in Entries /\ EntryInv(e, KeyOf(r))
  BY <1>1 DEF Entries, EntryInv, Fits, Answers
<1>3. KeyOf(r) \in Keys
  BY KeyType
<1> HIDE DEF e
<1>4. cache' = [cache EXCEPT ![KeyOf(r)] = e]
  BY DEF SetEx, e
<1> QED  BY <1>2, <1>3, <1>4 DEF CacheInv

\* Every step leaves answers in the cache that fit their keys.
LEMMA CacheSteps ==
    ASSUME RequestsInv, CacheInv, ApiNext
    PROVE  CacheInv'
<1>1. CASE UNCHANGED cache
  BY <1>1 DEF CacheInv
<1>2. CASE Time
  <2>1. ASSUME NEW k \in Keys
        PROVE  cache'[k] \in Entries \cup {None} /\ EntryInv(cache'[k], k)
    <3>1. CASE cache[k] = None \/ cache[k].life = 1
      BY <1>2, <3>1 DEF Time, EntryInv
    <3>2. CASE cache[k] # None /\ cache[k].life # 1
      <4> DEFINE e == cache[k]
                 o == [answer |-> Older(e.answer), life |-> e.life - 1]
      <4>1. e \in Entries /\ Fits(e.answer, k)
            /\ e.answer.age + e.life <= TTL + MaxDelay
        BY <3>2 DEF CacheInv, EntryInv
      <4>2. /\ Older(e.answer) \in Answers
            /\ Older(e.answer).for = k /\ Older(e.answer).status = 200
            /\ Older(e.answer).age = e.answer.age + 1
            /\ e.answer.age \in Nat
        BY <4>1 DEF Older, Answers, Fits
      <4>3. e.life \in 2..TTL
        BY <3>2, <4>1 DEF Entries
      <4>4. o \in Entries /\ EntryInv(o, k)
        BY <4>1, <4>2, <4>3 DEF Entries, EntryInv, Fits
      <4>5. cache'[k] = o
        BY <1>2, <3>2 DEF Time
      <4> QED  BY <4>4, <4>5
    <3> QED  BY <3>1, <3>2
  <2>2. cache' = [k \in Keys |-> cache'[k]]
    BY <1>2 DEF Time
  <2> QED  BY <2>1, <2>2 DEF CacheInv
<1>3. CASE Restart
  BY <1>3 DEF Restart, CacheInv
<1>4. ASSUME NEW r \in Calls, Progress(r)
      PROVE  CacheInv'
  BY <1>1, <1>4, StoreKeepsCache
     DEF Progress, CacheHit, CacheMiss, StartCall, RefuseCall, CallAnswers,
         CallRaises, StoreAnswer, Reply
<1>5. ASSUME NEW r \in Calls, RequestFails(r)
      PROVE  CacheInv'
  BY <1>1, <1>5, StoreKeepsCache DEF RequestFails, CacheFails, StoreFails, Cancel
<1>6. Entered => UNCHANGED cache
  BY DEF Entered, Enter
<1> QED  BY <1>1, <1>2, <1>3, <1>4, <1>5, <1>6 DEF ApiNext

-----------------------------------------------------------------------------
(* The calls *)

\* A request that does not call goes on to another step than its call.
LEMMA SameCalls ==
    ASSUME RequestsInv, CallInv, NEW r \in Calls, NEW q,
           api[r].pc # "call", q.pc # "call",
           api' = [api EXCEPT ![r] = q], inFlight' = inFlight
    PROVE  CallInv'
  BY DEF CallInv, RequestsInv

\* A call ends.
LEMMA LessCalls ==
    ASSUME RequestsInv, CallInv, NEW r \in Calls, NEW q, q.pc # "call",
           api' = [api EXCEPT ![r] = q], inFlight' = inFlight \ {r}
    PROVE  CallInv'
  BY DEF CallInv, RequestsInv

\* The breaker counts as calls in flight those the requests wait for.
LEMMA CallSteps ==
    ASSUME RequestsInv, CallInv, ApiNext
    PROVE  CallInv'
<1>1. IdleApi.pc # "call"
  BY DEF IdleApi
<1>2. \A q, a : /\ Holding(q, "reply", a).pc # "call"
               /\ Holding(q, "setex", a).pc # "call"
  BY DEF Holding
<1>3. ASSUME NEW r \in Calls, CacheHit(r)
      PROVE  CallInv'
  BY <1>2, <1>3, SameCalls DEF CacheHit, Serve, vars
<1>4. ASSUME NEW r \in Calls, CacheMiss(r)
      PROVE  CallInv'
  <2>1. [api[r] EXCEPT !.pc = "request"].pc # "call"
    BY DEF RequestsInv, Requests
  <2> QED  BY <1>4, <2>1, SameCalls DEF CacheMiss, vars
<1>5. ASSUME NEW r \in Calls, StartCall(r)
      PROVE  CallInv'
  BY <1>5 DEF StartCall, Admit, CallInv, RequestsInv, Requests
<1>6. ASSUME NEW r \in Calls, RefuseCall(r)
      PROVE  CallInv'
  BY <1>1, <1>6, SameCalls DEF RefuseCall, Refuse, Done, vars
<1>7. ASSUME NEW r \in Calls, NEW status \in {200, 404}, CallAnswers(r, status)
      PROVE  CallInv'
  BY <1>1, <1>2, <1>7, LessCalls DEF CallAnswers, CallSucceeds, Done
<1>8. ASSUME NEW r \in Calls, CallRaises(r)
      PROVE  CallInv'
  BY <1>1, <1>8, LessCalls DEF CallRaises, CallFails, Done
<1>9. ASSUME NEW r \in Calls, StoreAnswer(r)
      PROVE  CallInv'
  BY <1>2, <1>9, SameCalls DEF StoreAnswer, Serve, vars
<1>10. ASSUME NEW r \in Calls, Reply(r)
       PROVE  CallInv'
  BY <1>1, <1>10, SameCalls DEF Reply, vars
<1>11. ASSUME NEW r \in Calls, CacheFails(r) \/ StoreFails(r)
       PROVE  CallInv'
  BY <1>1, <1>11, SameCalls DEF CacheFails, StoreFails, Done, vars
<1>12. ASSUME NEW r \in Calls, Cancel(r)
       PROVE  CallInv'
  BY <1>1, <1>12, SameCalls, LessCalls DEF Cancel, CallCancelled, vars
<1>13. ASSUME NEW r \in Calls, NEW p \in Parcels \cup {None}, NEW cr \in Clients,
              Enter(r, p, cr)
       PROVE  CallInv'
  <2> DEFINE q == [pc |-> IF p = None THEN "request" ELSE "get",
                   parcel |-> p, tier |-> Tier(cr), answer |-> None]
  <2>1. q.pc # "call"
    OBVIOUS
  <2> QED  BY <1>13, <2>1, SameCalls DEF Enter, vars
<1>14. CASE Time
  <2>1. ASSUME NEW r \in Calls
        PROVE  api'[r].pc = api[r].pc
    <3>1. [api[r] EXCEPT !.answer = Older(api[r].answer)].pc = api[r].pc
      BY DEF RequestsInv, Requests
    <3> QED  BY <1>14, <3>1 DEF Time
  <2> QED  BY <1>14, <2>1 DEF Time, Tick, CallInv
<1>15. CASE Restart
  BY <1>1, <1>15 DEF Restart, CallInv
<1>16. CASE ServiceChanges /\ UNCHANGED <<api, cache, faults>>
  BY <1>16 DEF ServiceChanges, CallInv
<1>17. ASSUME NEW r \in Calls, Progress(r) \/ RequestFails(r)
       PROVE  CallInv'
  BY <1>3, <1>4, <1>5, <1>6, <1>7, <1>8, <1>9, <1>10, <1>11, <1>12, <1>17
     DEF Progress, RequestFails
<1>18. Entered => CallInv'
  BY <1>13 DEF Entered
<1> QED  BY <1>14, <1>15, <1>16, <1>17, <1>18 DEF ApiNext

-----------------------------------------------------------------------------
\* The first state: an empty cache, no request, a closed breaker.
LEMMA ApiInitInv == ApiInit => ApiInv
<1> SUFFICES ASSUME ApiInit
             PROVE  ApiInv
  OBVIOUS
<1>1. IInv
  BY InitInv DEF ApiInit
<1>2. RequestsInv
  BY IdleRequest DEF ApiInit, RequestsInv, RequestInv
<1>3. CacheInv
  BY DEF ApiInit, CacheInv, EntryInv
<1>4. CallInv /\ faults \in 0..MaxFaults
  BY DEF ApiInit, Init, CallInv, IdleApi
<1> QED  BY <1>1, <1>2, <1>3, <1>4 DEF ApiInv

\* Every fault is counted, up to the bound.
LEMMA FaultSteps ==
    ASSUME faults \in 0..MaxFaults, ApiNext
    PROVE  faults' \in 0..MaxFaults
<1>1. CASE UNCHANGED faults
  BY <1>1
<1>2. CASE Fault
  BY <1>2 DEF Fault
<1>3. ASSUME NEW r \in Calls, Progress(r) \/ RequestFails(r)
      PROVE  UNCHANGED faults \/ Fault
  BY <1>3 DEF Progress, RequestFails, CacheHit, CacheMiss, StartCall, RefuseCall,
              CallAnswers, CallRaises, StoreAnswer, Reply, CacheFails, StoreFails,
              Cancel
<1>4. (Entered \/ Time \/ Restart) => (UNCHANGED faults \/ Fault)
  BY DEF Entered, Enter, Time, Restart
<1> QED  BY <1>1, <1>2, <1>3, <1>4 DEF ApiNext

\* The invariant holds in every state of every behaviour.
LEMMA Invariance == ApiSpec => []ApiInv
<1>1. ApiInv /\ [ApiNext]_apiVars => ApiInv'
  <2> SUFFICES ASSUME ApiInv, [ApiNext]_apiVars
               PROVE  ApiInv'
    OBVIOUS
  <2>1. CASE ApiNext
    BY <2>1, BreakerKept, RequestSteps, CacheSteps, CallSteps, FaultSteps DEF ApiInv
  <2>2. CASE UNCHANGED apiVars
    BY <2>2 DEF apiVars, vars, ApiInv, IInv, TypeOK, ClosedIffBelowThreshold,
                RequestsInv, CacheInv, CallInv
  <2> QED  BY <2>1, <2>2
<1> QED  BY ApiInitInv, <1>1, PTL DEF ApiSpec

\* The cache, the requests and the breaker keep the form the endpoints give them,
\* and the breaker counts as in flight exactly the calls of the requests, for any
\* number of requests and of faults.
THEOREM ApiTypeCorrect == ApiSpec => []ApiTypeOK
<1>1. ApiInv => ApiTypeOK
  <2> SUFFICES ASSUME ApiInv
               PROVE  ApiTypeOK
    OBVIOUS
  <2>1. \A r \in Calls :
          /\ api[r].pc \in {"get", "setex"} => api[r].parcel \in Parcels
          /\ api[r].pc \in {"setex", "reply"} => api[r].answer \in Answers
    BY DEF ApiInv, RequestsInv, RequestInv, Fits
  <2> QED  BY <2>1 DEF ApiInv, IInv, RequestsInv, CacheInv, CallInv, ApiTypeOK
<1> QED  BY <1>1, Invariance, PTL

\* A breaker shared by the calls of all endpoints, with cancelled calls and
\* restarts, is closed exactly below Threshold failures since the last success.
THEOREM ApiBreaker == ApiSpec => []ClosedIffBelowThreshold
<1>1. ApiInv => ClosedIffBelowThreshold
  BY DEF ApiInv, IInv
<1> QED  BY <1>1, Invariance, PTL

\* Property details, from the parser or from the cache, are those found for the
\* parcel and the tier of the request that gets them.
THEOREM AnswersFit == ApiSpec => []ServedAsAsked
<1>1. ApiInv => ServedAsAsked
  BY DEF ApiInv, RequestsInv, RequestInv, Fits, ServedAsAsked
<1> QED  BY <1>1, Invariance, PTL

\* Property details are never older than the time to live of the cache and the
\* time an answer waits to be stored.
THEOREM AnswersFresh == ApiSpec => []ServedFresh
<1>1. ApiInv => ServedFresh
  BY DEF ApiInv, RequestsInv, RequestInv, ServedFresh
<1> QED  BY <1>1, Invariance, PTL
=============================================================================
