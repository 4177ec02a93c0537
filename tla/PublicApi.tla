----------------------------- MODULE PublicApi -----------------------------
(***************************************************************************)
(* The property endpoints of the legacy public API: authentication, the    *)
(* limits, the cache of property details in Redis and the call of the      *)
(* parser service through its circuit breaker                              *)
(* (legacy/app/core/auth.py, legacy/app/api/v1/properties.py).  They are   *)
(* the only endpoints that reach the parser: the search endpoints refuse   *)
(* every tier.                                                             *)
(*                                                                         *)
(* A step is the code between two awaits, or one Redis command.  What the  *)
(* limits answer is left open here (see TokenBucket and UsageTracker); a   *)
(* request they refuse, or that answers an error, leaves no trace.         *)
(***************************************************************************)
EXTENDS CircuitBreaker, Sequences

CONSTANTS
    Parcels,             \* values of parcel_id
    TokenTiers,          \* values of the tier claim of a token
    Clients,             \* the credentials requests come with
    FIREBASE_PROJECT_ID, \* whether Firebase is configured
    TTL,                 \* 3600 seconds in the code
    MaxDelay,            \* how long an answer may wait for SETEX
    MaxFaults,           \* bound on the number of faults in a behaviour
    None                 \* no parcel, no claim, no answer

\* The headers X-Worker-Token and Authorization, and the claim of the token.
Credentials == [worker : {"none", "wrong", "right"},
                bearer : {"none", "invalid", "valid"},
                claim  : TokenTiers \cup {None}]

ASSUME CacheAssumption == TTL \in Nat \ {0} /\ MaxDelay \in Nat
ASSUME FaultAssumption == MaxFaults \in Nat
ASSUME ClientAssumption == Clients \subseteq Credentials
ASSUME NoneAssumption == None \notin Parcels \cup TokenTiers

VARIABLES
    api,   \* state of the request of each member of Calls
    cache, \* the answers in Redis
    faults \* number of faults so far

apiVars == <<vars, api, cache, faults>>

\* The members of UserTier that authentication assigns.
UserTier == {"anonymous", "free", "internal"}

\* Variant: one answer for all tiers.
CacheKeyNoTier(parcel, tier) == <<parcel, "free">>

cache_key(parcel, tier) == <<parcel, tier>>

Keys == {cache_key(p, t) : p \in Parcels, t \in UserTier}

IdleApi == [pc |-> "idle", parcel |-> None, tier |-> "anonymous",
            answer |-> None]

ApiInit ==
    /\ Init
    /\ api = [r \in Calls |-> IdleApi]
    /\ cache = [k \in Keys |-> None]
    /\ faults = 0

Fault == faults < MaxFaults /\ faults' = faults + 1

-----------------------------------------------------------------------------
(* Authentication *)

\* AuthMiddleware answers 401.
Unauthorized(cr) ==
    \/ cr.worker = "wrong"
    \/ /\ cr.worker # "right"
       /\ cr.bearer = "invalid" /\ FIREBASE_PROJECT_ID

\* The tier comes from the claim of the token, as a string: it is no member
\* of UserTier, and has no value attribute.
ClaimedTier(cr) ==
    /\ cr.worker # "right"
    /\ cr.bearer = "valid" /\ FIREBASE_PROJECT_ID
    /\ cr.claim # None

Tier(cr) ==
    CASE cr.worker = "right" -> "internal"
      [] cr.worker # "right" /\ cr.bearer # "none" -> "free"
      [] OTHER -> "anonymous"

-----------------------------------------------------------------------------
(* A request up to its first Redis command or its call *)

Done(r) == api' = [api EXCEPT ![r] = IdleApi]

\* Request q goes on to pc with an answer.
Holding(q, pc, answer) ==
    [pc |-> pc, parcel |-> q.parcel, tier |-> q.tier, answer |-> answer]

Serve(r, answer) == api' = [api EXCEPT ![r] = Holding(@, "reply", answer)]

\* The request passes authentication and the limits and reaches the endpoint;
\* parcel None is the search.  On a claimed tier the endpoint fails (500).
Enter(r, parcel, cr) ==
    /\ api[r].pc = "idle"
    /\ ~Unauthorized(cr) /\ ~ClaimedTier(cr)
    /\ api' = [api EXCEPT ![r] =
            [pc |-> IF parcel = None THEN "request" ELSE "get",
             parcel |-> parcel, tier |-> Tier(cr), answer |-> None]]
    /\ UNCHANGED <<vars, cache, faults>>

KeyOf(r) == cache_key(api[r].parcel, api[r].tier)

\* Variant: a hit renews the time to live.
CacheHitRenews(r) ==
    /\ api[r].pc = "get" /\ cache[KeyOf(r)] # None
    /\ cache' = [cache EXCEPT ![KeyOf(r)].life = TTL]
    /\ Serve(r, cache[KeyOf(r)].answer)
    /\ UNCHANGED <<vars, faults>>

\* GET finds an answer.
CacheHit(r) ==
    /\ api[r].pc = "get" /\ cache[KeyOf(r)] # None
    /\ Serve(r, cache[KeyOf(r)].answer)
    /\ UNCHANGED <<vars, cache, faults>>

\* GET finds none.
CacheMiss(r) ==
    /\ api[r].pc = "get" /\ cache[KeyOf(r)] = None
    /\ api' = [api EXCEPT ![r].pc = "request"]
    /\ UNCHANGED <<vars, cache, faults>>

\* GET fails: the request answers 500.
CacheFails(r) ==
    /\ api[r].pc = "get"
    /\ Fault
    /\ Done(r)
    /\ UNCHANGED <<vars, cache>>

-----------------------------------------------------------------------------
(* The call of the parser *)

\* The breaker lets the call through.
StartCall(r) ==
    /\ api[r].pc = "request"
    /\ Admit(r)
    /\ api' = [api EXCEPT ![r].pc = "call"]
    /\ UNCHANGED <<cache, faults>>

\* The breaker refuses the call: the request answers 502.
RefuseCall(r) ==
    /\ api[r].pc = "request"
    /\ Refuse(r)
    /\ Done(r)
    /\ UNCHANGED <<cache, faults>>

\* What the parser answers for the parcel and the tier of request r.
Answer(r, status) ==
    [for |-> <<api[r].parcel, api[r].tier>>, status |-> status, age |-> 0]

\* Details of a parcel that the parser found are cached.
Cacheable(r, status) == api[r].parcel # None /\ status = 200

\* The parser answers below 500.
CallAnswers(r, status) ==
    /\ api[r].pc = "call"
    /\ CallSucceeds(r)
    /\ IF Cacheable(r, status)
       THEN api' = [api EXCEPT ![r] =
                            Holding(@, "setex", Answer(r, status))]
       ELSE Done(r)
    /\ UNCHANGED <<cache, faults>>

\* The parser answers 500 or more, which is passed on, or the call raises: 502.
CallRaises(r) ==
    /\ api[r].pc = "call"
    /\ CallFails(r)
    /\ Done(r)
    /\ UNCHANGED <<cache, faults>>

\* SETEX.
SetEx(k, a) == cache' = [cache EXCEPT ![k] = [answer |-> a, life |-> TTL]]

StoreAnswer(r) ==
    /\ api[r].pc = "setex"
    /\ SetEx(KeyOf(r), api[r].answer)
    /\ Serve(r, api[r].answer)
    /\ UNCHANGED <<vars, faults>>

\* SETEX fails, executed or not: the good answer becomes a 502.
StoreFails(r) ==
    /\ api[r].pc = "setex"
    /\ Fault
    /\ SetEx(KeyOf(r), api[r].answer) \/ UNCHANGED cache
    /\ Done(r)
    /\ UNCHANGED vars

\* The details of the parcel are sent, received or not.
Reply(r) ==
    /\ api[r].pc = "reply"
    /\ api' = [api EXCEPT ![r] = IdleApi]
    /\ UNCHANGED <<vars, cache, faults>>

\* The client is gone and its request is cancelled at an await; the command it
\* waits for may be executed all the same.
Cancel(r) ==
    /\ Fault
    /\ \/ api[r].pc \in {"get", "request"} /\ UNCHANGED <<vars, cache>>
       \/ api[r].pc = "call" /\ CallCancelled(r) /\ UNCHANGED cache
       \/ /\ api[r].pc = "setex"
          /\ SetEx(KeyOf(r), api[r].answer) \/ UNCHANGED cache
          /\ UNCHANGED vars
    /\ api' = [api EXCEPT ![r] = IdleApi]

-----------------------------------------------------------------------------
(* The environment *)

Older(a) == [a EXCEPT !.age = @ + 1]

\* Time passes: the breaker, the answers in Redis and those about to be
\* stored grow older, and Redis deletes a key whose time is over.
Time ==
    /\ \A r \in Calls : api[r].pc = "setex" => api[r].answer.age < MaxDelay
    /\ Tick
    /\ cache' = [k \in Keys |->
            IF cache[k] = None \/ cache[k].life = 1 THEN None
            ELSE [answer |-> Older(cache[k].answer), life |-> cache[k].life - 1]]
    /\ api' = [r \in Calls |->
            IF api[r].pc = "setex" THEN [api[r] EXCEPT !.answer = Older(@)]
                                  ELSE api[r]]
    /\ UNCHANGED faults

\* The gateway stops and starts again with a new breaker.
Restart ==
    /\ Fault
    /\ state' = "CLOSED" /\ failures' = 0
    /\ quiet' = RecoveryTimeout + 1 /\ inFlight' = {}
    /\ api' = [r \in Calls |-> IdleApi]
    /\ UNCHANGED <<serviceUp, cache>>

Progress(r) ==
    \/ CacheHit(r) \/ CacheMiss(r) \/ StartCall(r) \/ RefuseCall(r)
    \/ (\E status \in {200, 404} : CallAnswers(r, status))
    \/ CallRaises(r) \/ StoreAnswer(r) \/ Reply(r)

RequestFails(r) == CacheFails(r) \/ StoreFails(r) \/ Cancel(r)

Entered ==
    \E r \in Calls, p \in Parcels \cup {None}, cr \in Clients : Enter(r, p, cr)

ApiNext ==
    \/ Entered
    \/ \E r \in Calls : Progress(r) \/ RequestFails(r)
    \/ Time
    \/ Restart
    \/ ServiceChanges /\ UNCHANGED <<api, cache, faults>>

ApiSpec == ApiInit /\ [][ApiNext]_apiVars

(***************************************************************************)
(* Fairness: time passes, the event loop runs every request, a call ends   *)
(* (its timeout is 30 seconds), and requests keep passing authentication   *)
(* and the limits, for whatever parcel.                                    *)
(***************************************************************************)
ApiFairness ==
    /\ WF_apiVars(Time)
    /\ \A r \in Calls : WF_apiVars(Progress(r))
    /\ SF_apiVars(Entered)

ApiFairSpec == ApiSpec /\ ApiFairness

-----------------------------------------------------------------------------
(* Properties *)

Answers == [for : Parcels \X UserTier, status : {200, 404}, age : Nat]
Entries == [answer : Answers, life : 1..TTL]
Requests == [pc : {"idle", "get", "request", "call", "setex", "reply"},
             parcel : Parcels \cup {None}, tier : UserTier,
             answer : Answers \cup {None}]

\* The cache holds answers with a time to live, the requests that use it name a
\* parcel, and the calls the breaker has admitted are those of the endpoints.
ApiTypeOK ==
    /\ TypeOK
    /\ api \in [Calls -> Requests]
    /\ cache \in [Keys -> Entries \cup {None}]
    /\ faults \in 0..MaxFaults
    /\ \A r \in Calls : api[r].pc \in {"get", "setex"} => api[r].parcel \in Parcels
    /\ \A r \in Calls : api[r].pc \in {"setex", "reply"} => api[r].answer \in Answers
    /\ inFlight = {r \in Calls : api[r].pc = "call"}

\* The details a request gets were found by the parser for its parcel and for
\* its tier ("Cache key includes user tier (different results)"), also when
\* another request, which may have failed or been cancelled, stored them.
ServedAsAsked ==
    \A r \in Calls :
        api[r].pc = "reply" =>
            /\ api[r].answer.for = <<api[r].parcel, api[r].tier>>
            /\ api[r].answer.status = 200

\* No request gets details that are older than the hour of the cache and the
\* time the answer waited to be stored, whatever requests for one parcel
\* overtake each other: an answer is never stored a second time.
ServedFresh ==
    \A r \in Calls :
        api[r].pc = "reply" =>
            api[r].answer.age < TTL + MaxDelay
=============================================================================
