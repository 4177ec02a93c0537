------------------------- MODULE UsageTrackerProofs -------------------------
(***************************************************************************)
(* Theorems about UsageTracker: what the counters grant and refuse, for    *)
(* any users, tiers, features and limits and any number of requests.       *)
(***************************************************************************)
EXTENDS UsageTracker, TLAPS

Records == [pc : {"idle", "incr", "expire", "granted", "refused"},
            key : Keys \cup {None}, tier : Tiers \cup {None},
            current : Nat, onTime : BOOLEAN]

\* What a request knows of its limit.
RequestOK(r) ==
    r.pc # "idle" => /\ r.key \in Keys /\ r.tier \in Tiers
                     /\ r.pc \in {"incr", "expire"} => Limit(r.tier, r.key[2]) > 0
                     /\ r.pc = "expire" => r.current = 1

\* Request c found its counter new on its date, and has no answer yet.
Found(c, k) == req[c].pc = "expire" /\ req[c].key = k /\ req[c].onTime

\* The date of a request is no later day, and a counter outlives its date.
Dates ==
    /\ \A c \in Conns : req[c].pc # "idle" => req[c].key[3] <= Today
    /\ \A k \in Keys : expireAt[k] # None => expireAt[k] >= DayLength * (k[3] + 1)

\* One request at most finds a counter new on its date.
FoundOnce ==
    /\ \A c, d \in Conns, k \in Keys : Found(c, k) /\ Found(d, k) => c = d
    /\ \A k \in Keys : Today <= k[3] /\ counter[k] = 0 => ~Pending(k)

\* A request of a tier with a limit of at most n is about to be granted.
PendingTo(k, n) ==
    \E c \in Conns : Found(c, k) /\ Limit(req[c].tier, k[2]) <= n

GrantedTo(k, n) == granted[k][n] + (IF PendingTo(k, n) THEN 1 ELSE 0)

\* What is granted is within the limit, and was counted.
Counted ==
    \A k \in Keys, n \in 0..MaxCount :
        /\ GrantedTo(k, n) <= n
        /\ Today <= k[3] => GrantedTo(k, n) <= counter[k]

Types == TypeOK /\ \A c \in Conns : RequestOK(req[c])

Inv == Types /\ Dates /\ FoundOnce /\ Counted

-----------------------------------------------------------------------------
(* Time *)

LEMMA TodayType ==
    ASSUME clock \in 0..MaxTime
    PROVE  /\ Today \in 0..MaxDate /\ DayLength * Today <= clock
           /\ clock < DayLength * (Today + 1)
<1>1. /\ clock \in Nat /\ DayLength \in Nat \ {0} /\ MaxDate \in Nat
      /\ clock < DayLength * (MaxDate + 1)
  BY TimeAssumption DEF MaxTime
<1> DEFINE q == clock \div DayLength
<1>2. q \in Nat /\ DayLength * q <= clock /\ clock < DayLength * (q + 1)
  BY <1>1
<1> HIDE DEF q
<1>3. q <= MaxDate
  <2> SUFFICES ASSUME q > MaxDate PROVE FALSE
    BY <1>1, <1>2
  <2>1. PICK z \in Nat : q = (MaxDate + 1) + z
    <3>1. q - (MaxDate + 1) \in Nat /\ q = (MaxDate + 1) + (q - (MaxDate + 1))
      BY <1>1, <1>2
    <3> QED  BY <3>1
  <2>2. DayLength * q = DayLength * (MaxDate + 1) + DayLength * z /\ DayLength * z \in Nat
        /\ DayLength * (MaxDate + 1) \in Nat
    BY <1>1, <2>1
  <2> QED  BY <1>1, <1>2, <2>2
<1> QED  BY <1>1, <1>2, <1>3 DEF Today, q

\* The date of a key is over when the time to live of the key is.
LEMMA DateOver ==
    ASSUME Inv, NEW k \in Keys, expireAt[k] # None, clock >= expireAt[k]
    PROVE  k[3] < Today
<1>1. /\ Today \in Nat /\ clock \in Nat /\ clock < DayLength * (Today + 1)
      /\ k[3] \in Nat /\ DayLength \in Nat \ {0}
  BY TodayType, TimeAssumption DEF Inv, Types, TypeOK, Keys, MaxTime
<1>2. DayLength * (k[3] + 1) <= clock /\ DayLength * (k[3] + 1) \in Nat
  <2>1. expireAt[k] \in Nat /\ expireAt[k] >= DayLength * (k[3] + 1)
    BY DEF Inv, Types, Dates, TypeOK
  <2>2. DayLength * (k[3] + 1) \in Nat
    BY <1>1
  <2> QED  BY <1>1, <2>1, <2>2
<1> SUFFICES ASSUME k[3] >= Today PROVE FALSE
  BY <1>1
<1> DEFINE a == Today
           b == k[3]
<1>3. PICK z \in Nat : b + 1 = (a + 1) + z
  <2>1. b - a \in Nat /\ b + 1 = (a + 1) + (b - a)
    BY <1>1
  <2> QED  BY <2>1
<1>4. a \in Nat /\ b \in Nat
  BY <1>1
<1> HIDE DEF a, b
<1>5. DayLength * (b + 1) = DayLength * (a + 1) + DayLength * z
      /\ DayLength * z \in Nat /\ DayLength * (a + 1) \in Nat
  BY <1>1, <1>3, <1>4
<1> QED  BY <1>1, <1>2, <1>5 DEF a, b

-----------------------------------------------------------------------------
(* Types *)

LEMMA IdleType == IdleReq \in Records /\ RequestOK(IdleReq)
  BY DEF IdleReq, Records, RequestOK

LEMMA RequestType ==
    ASSUME Types, NEW c \in Conns
    PROVE  req[c] \in Records /\ RequestOK(req[c])
  BY DEF Types, TypeOK, Records

\* What the history becomes when r is granted on its date.
Granted(r) ==
    [granted EXCEPT ![r.key] = [n \in 0..MaxCount |->
        granted[r.key][n] + IF Limit(r.tier, r.key[2]) <= n THEN 1 ELSE 0]]

LEMMA DecideFacts ==
    ASSUME Types, NEW c \in Conns, NEW r \in Records, RequestOK(r), r.pc # "idle",
           Decide(c, r)
    PROVE  LET v == [r EXCEPT !.pc = Answer(r)]
           IN  /\ req' = [req EXCEPT ![c] = v]
               /\ v \in Records /\ RequestOK(v) /\ v.pc = Answer(r)
               /\ v.pc \in {"granted", "refused"}
               /\ v.key = r.key /\ v.onTime = r.onTime /\ v.tier = r.tier
               /\ v.current = r.current
               /\ granted' = IF v.pc = "granted" /\ r.onTime THEN Granted(r) ELSE granted
               /\ granted' \in [Keys -> [0..MaxCount -> Nat]]
<1> DEFINE v == [r EXCEPT !.pc = Answer(r)]
<1>1. req' = [req EXCEPT ![c] = v] /\ Answer(r) \in {"granted", "refused"}
  BY DEF Decide, Answer
<1>2. /\ v \in Records /\ v.pc = Answer(r) /\ v.key = r.key /\ v.onTime = r.onTime
      /\ v.tier = r.tier /\ v.current = r.current
  BY <1>1 DEF Records
<1>3. granted' = IF Answer(r) = "granted" /\ r.onTime THEN Granted(r) ELSE granted
  BY DEF Decide, Granted
<1>4. Granted(r) \in [Keys -> [0..MaxCount -> Nat]]
  <2>1. r.key \in Keys /\ granted \in [Keys -> [0..MaxCount -> Nat]]
    BY DEF RequestOK, Types, TypeOK
  <2>2. ASSUME NEW n \in 0..MaxCount
        PROVE  granted[r.key][n] + (IF Limit(r.tier, r.key[2]) <= n THEN 1 ELSE 0) \in Nat
    <3>1. granted[r.key][n] \in Nat
      BY <2>1
    <3> QED  BY <3>1
  <2>3. [n \in 0..MaxCount |->
            granted[r.key][n] + IF Limit(r.tier, r.key[2]) <= n THEN 1 ELSE 0]
           \in [0..MaxCount -> Nat]
    BY <2>2
  <2> QED  BY <2>1, <2>3 DEF Granted
<1>5. granted \in [Keys -> [0..MaxCount -> Nat]]
  BY DEF Types, TypeOK
<1> HIDE DEF v
<1>6. RequestOK(v)
  BY <1>1, <1>2 DEF RequestOK
<1>7. granted' = IF v.pc = "granted" /\ r.onTime THEN Granted(r) ELSE granted
  BY <1>2, <1>3
<1>8. granted' \in [Keys -> [0..MaxCount -> Nat]]
  BY <1>4, <1>5, <1>7
<1> QED  BY <1>1, <1>2, <1>6, <1>7, <1>8 DEF v

\* A step that writes the record of one request.
LEMMA OneRequest ==
    ASSUME Types, NEW c \in Conns, NEW v \in Records, RequestOK(v),
           req' = [req EXCEPT ![c] = v],
           clock' \in 0..MaxTime, counter' \in [Keys -> Nat],
           expireAt' \in [Keys -> Nat \cup {None}],
           granted' \in [Keys -> [0..MaxCount -> Nat]], faults' \in 0..MaxFaults
    PROVE  Types' /\ \A d \in Conns : req'[d] = IF d = c THEN v ELSE req[d]
<1>1. \A d \in Conns : req'[d] = IF d = c THEN v ELSE req[d]
  BY DEF Types, TypeOK
<1>2. \A d \in Conns : RequestOK(req'[d])
  BY <1>1 DEF Types
<1>3. req' \in [Conns -> Records]
  BY DEF Types, TypeOK, Records
<1>4. \A d \in Conns : req'[d].pc # "idle" => req'[d].key \in Keys
  BY <1>2 DEF RequestOK
<1>5. TypeOK'
  BY <1>3, <1>4 DEF TypeOK, Records
<1>6. \A d \in Conns : RequestOK(req[d])'
  BY <1>2 DEF RequestOK, Keys, Users, Tiers, Limit
<1> QED  BY <1>1, <1>5, <1>6 DEF Types

LEMMA FaultType == TypeOK /\ Fault => faults' \in 0..MaxFaults /\ faults' # 0
  BY FaultAssumption DEF TypeOK, Fault

LEMMA CheckFacts ==
    ASSUME Types, NEW c \in Conns, NEW a \in Accounts, NEW f \in Features,
           Check(c, a[1], a[2], f)
    PROVE  /\ \E v \in Records :
                 /\ req' = [req EXCEPT ![c] = v] /\ RequestOK(v)
                 /\ v.pc \in {"incr", "granted", "refused"} /\ ~v.onTime
                 /\ v.key[3] = Today
           /\ UNCHANGED <<clock, counter, expireAt, granted, faults>>
<1> DEFINE k == <<a[1], f, Today>>
           n == Limit(a[2], f)
           p == CASE n = -1 -> "granted" [] n = 0  -> "refused" [] OTHER -> "incr"
           v == [IdleReq EXCEPT !.key = k, !.tier = a[2], !.pc = p]
<1>1. req' = [req EXCEPT ![c] = v] /\ UNCHANGED <<clock, counter, expireAt, granted, faults>>
  BY DEF Check
<1>2. k \in Keys /\ k[2] = f /\ k[3] = Today /\ a[2] \in Tiers
  <2>1. a[1] \in Users /\ a[2] \in Tiers
    BY DEF Users, Tiers
  <2> QED  BY <2>1, TodayType DEF Keys, Types, TypeOK
<1>3. n \in Nat \cup {-1}
  BY LimitAssumption DEF Limit
<1>4. p \in {"incr", "granted", "refused"} /\ (p = "incr" => n > 0)
  BY <1>3
<1> HIDE DEF k, p
<1>5. /\ v \in Records /\ v.key = k /\ v.tier = a[2] /\ v.pc = p /\ ~v.onTime
  BY <1>2, <1>4 DEF Records, IdleReq
<1> HIDE DEF v
<1>6. RequestOK(v)
  BY <1>2, <1>4, <1>5 DEF RequestOK
<1> QED  BY <1>1, <1>2, <1>4, <1>5, <1>6

LEMMA IncrFacts ==
    ASSUME Types, NEW c \in Conns, Incr(c)
    PROVE  LET k == req[c].key
           IN  /\ k \in Keys /\ UNCHANGED <<clock, expireAt, faults>>
               /\ counter' = [counter EXCEPT ![k] = counter[k] + 1]
               /\ granted' \in [Keys -> [0..MaxCount -> Nat]]
               /\ \E v \in Records :
                     /\ req' = [req EXCEPT ![c] = v] /\ RequestOK(v)
                     /\ v.key = k /\ v.onTime = (Today = k[3]) /\ v.tier = req[c].tier
                     /\ v.current = counter[k] + 1 /\ Limit(v.tier, k[2]) > 0
                     /\ \/ v.pc = "expire" /\ v.current = 1 /\ granted' = granted
                        \/ /\ v.pc = Answer(v) /\ v.pc \in {"granted", "refused"}
                           /\ v.current # 1
                           /\ granted' = IF v.pc = "granted" /\ v.onTime
                                         THEN Granted(v) ELSE granted
<1> DEFINE k   == req[c].key
           cur == counter[k] + 1
           now == (Today = k[3])
           r   == [req[c] EXCEPT !.current = cur, !.onTime = now]
<1>1. req[c] \in Records /\ RequestOK(req[c]) /\ req[c].pc = "incr"
  BY RequestType DEF Incr
<1>2. k \in Keys /\ counter[k] \in Nat /\ cur \in Nat /\ now \in BOOLEAN
  <2>1. k \in Keys
    BY <1>1 DEF RequestOK
  <2>2. counter[k] \in Nat
    BY <2>1 DEF Types, TypeOK
  <2> QED  BY <2>1, <2>2
<1>3. /\ UNCHANGED <<clock, expireAt, faults>> /\ CountOne(r.key)
      /\ \/ /\ r.current = 1
            /\ req' = [req EXCEPT ![c] = [r EXCEPT !.pc = "expire"]]
            /\ granted' = granted
         \/ r.current # 1 /\ Decide(c, r)
  BY DEF Incr
<1> HIDE DEF cur, now
<1>4. /\ r \in Records /\ r.key = k /\ r.tier = req[c].tier /\ r.pc = "incr"
      /\ r.current = cur /\ r.onTime = now
  BY <1>1, <1>2 DEF Records
<1> HIDE DEF k, r
<1>5. RequestOK(r) /\ Limit(r.tier, k[2]) > 0
  BY <1>1, <1>4 DEF RequestOK, k
<1>6. counter' = [counter EXCEPT ![k] = counter[k] + 1] /\ UNCHANGED <<clock, expireAt, faults>>
  BY <1>3, <1>4 DEF CountOne
<1>7. CASE r.current = 1 /\ req' = [req EXCEPT ![c] = [r EXCEPT !.pc = "expire"]]
           /\ granted' = granted
  <2> DEFINE v == [r EXCEPT !.pc = "expire"]
  <2>1. /\ v \in Records /\ v.key = k /\ v.tier = req[c].tier /\ v.pc = "expire"
        /\ v.current = cur /\ v.onTime = now
    BY <1>4 DEF Records
  <2>2. req' = [req EXCEPT ![c] = v]
    BY <1>7
  <2> HIDE DEF v
  <2>3. RequestOK(v) /\ Limit(v.tier, k[2]) > 0
    BY <1>4, <1>5, <1>7, <2>1 DEF RequestOK
  <2>4. granted' \in [Keys -> [0..MaxCount -> Nat]]
    BY <1>7 DEF Types, TypeOK
  <2>5. v.current = counter[k] + 1 /\ v.onTime = (Today = k[3]) /\ v.current = 1
    BY <1>4, <1>7, <2>1 DEF cur, now
  <2> QED  BY <1>2, <1>6, <1>7, <2>1, <2>2, <2>3, <2>4, <2>5 DEF k
<1>8. CASE r.current # 1 /\ Decide(c, r)
  <2> DEFINE v == [r EXCEPT !.pc = Answer(r)]
  <2>1. /\ req' = [req EXCEPT ![c] = v]
        /\ v \in Records /\ RequestOK(v) /\ v.pc = Answer(r)
        /\ v.pc \in {"granted", "refused"}
        /\ v.key = r.key /\ v.onTime = r.onTime /\ v.tier = r.tier
        /\ v.current = r.current
        /\ granted' = IF v.pc = "granted" /\ r.onTime THEN Granted(r) ELSE granted
        /\ granted' \in [Keys -> [0..MaxCount -> Nat]]
    BY <1>4, <1>5, <1>8, DecideFacts
  <2> HIDE DEF v
  <2>2. Answer(v) = Answer(r) /\ Granted(v) = Granted(r)
    BY <2>1 DEF Answer, Granted
  <2>3. v.current = counter[k] + 1 /\ v.onTime = (Today = k[3]) /\ v.current # 1
    BY <1>4, <1>8, <2>1 DEF cur, now
  <2>4. /\ v.pc = Answer(v) /\ v.key = k /\ v.tier = req[c].tier
        /\ Limit(v.tier, k[2]) > 0
        /\ granted' = IF v.pc = "granted" /\ v.onTime THEN Granted(v) ELSE granted
    BY <1>4, <1>5, <2>1, <2>2
  <2> QED  BY <1>2, <1>6, <2>1, <2>3, <2>4 DEF k
<1> QED  BY <1>3, <1>7, <1>8

LEMMA ExpireFacts ==
    ASSUME Types, NEW c \in Conns, Expire(c)
    PROVE  LET k == req[c].key
           IN  /\ k \in Keys /\ SetExpiry(k) /\ UNCHANGED <<clock, counter, faults>>
               /\ req[c].pc = "expire" /\ req[c].current = 1
               /\ Limit(req[c].tier, k[2]) > 0
               /\ granted' = IF req[c].onTime THEN Granted(req[c]) ELSE granted
               /\ granted' \in [Keys -> [0..MaxCount -> Nat]]
               /\ \E v \in Records :
                     /\ req' = [req EXCEPT ![c] = v] /\ RequestOK(v)
                     /\ v.key = k /\ v.pc = "granted"
<1>1. req[c] \in Records /\ RequestOK(req[c]) /\ req[c].pc = "expire" /\ Decide(c, req[c])
      /\ SetExpiry(req[c].key) /\ UNCHANGED <<clock, counter, faults>>
  BY RequestType DEF Expire
<1>2. /\ req[c].key \in Keys /\ req[c].current = 1
      /\ Limit(req[c].tier, req[c].key[2]) > 0
  BY <1>1 DEF RequestOK
<1>3. Answer(req[c]) = "granted"
  <2>1. Limit(req[c].tier, req[c].key[2]) \in Nat \cup {-1}
    BY LimitAssumption DEF Limit
  <2> QED  BY <1>2, <2>1 DEF Answer
<1> DEFINE v == [req[c] EXCEPT !.pc = Answer(req[c])]
<1>4. /\ req' = [req EXCEPT ![c] = v]
      /\ v \in Records /\ RequestOK(v) /\ v.pc = Answer(req[c]) /\ v.key = req[c].key
      /\ granted' = IF v.pc = "granted" /\ req[c].onTime THEN Granted(req[c]) ELSE granted
      /\ granted' \in [Keys -> [0..MaxCount -> Nat]]
  BY <1>1, DecideFacts
<1> HIDE DEF v
<1> QED  BY <1>1, <1>2, <1>3, <1>4

LEMMA ExpiryType ==
    ASSUME Types, NEW k \in Keys, SetExpiry(k)
    PROVE  expireAt' \in [Keys -> Nat \cup {None}]
<1>1. clock + DayLength \in Nat
  BY TimeAssumption DEF Types, TypeOK, MaxTime
<1> QED  BY <1>1 DEF SetExpiry, Types, TypeOK

\* A request that ends without an answer, or after it.
LEMMA EndFacts ==
    ASSUME Types, NEW c \in Conns, IncrFails(c) \/ ExpireFails(c) \/ Answered(c)
    PROVE  /\ req' = [req EXCEPT ![c] = IdleReq] /\ UNCHANGED <<clock, granted>>
           /\ counter' \in [Keys -> Nat] /\ \A k \in Keys : counter'[k] >= counter[k]
           /\ \/ expireAt' = expireAt
              \/ req[c].pc = "expire" /\ req[c].key \in Keys /\ SetExpiry(req[c].key)
           /\ \/ faults' = faults /\ Answered(c)
              \/ faults' \in 0..MaxFaults /\ faults' # 0
<1>1. req[c] \in Records /\ RequestOK(req[c])
  BY RequestType
<1>2. CASE IncrFails(c)
  <2>1. req[c].key \in Keys /\ \A k \in Keys : counter[k] \in Nat
    BY <1>1, <1>2 DEF IncrFails, RequestOK, Types, TypeOK
  <2>2. counter' \in [Keys -> Nat] /\ \A k \in Keys : counter'[k] >= counter[k]
    <3> DEFINE k == req[c].key
    <3>1. counter \in [Keys -> Nat]
      BY DEF Types, TypeOK
    <3>2. CASE counter' = [counter EXCEPT ![k] = counter[k] + 1]
      <4> HIDE DEF k
      <4>1. k \in Keys
        BY <2>1 DEF k
      <4> QED  BY <2>1, <3>1, <3>2, <4>1
    <3>3. CASE counter' = counter
      BY <2>1, <3>1, <3>3
    <3> QED  BY <1>2, <3>2, <3>3 DEF IncrFails, CountOne
  <2> QED  BY <1>2, <2>2, FaultType DEF IncrFails, Types
<1>3. CASE ExpireFails(c)
  <2>1. req[c].key \in Keys
    BY <1>1, <1>3 DEF ExpireFails, RequestOK
  <2>2. counter' = counter /\ counter \in [Keys -> Nat]
    BY <1>3 DEF ExpireFails, Types, TypeOK
  <2>3. \A k \in Keys : counter'[k] >= counter[k]
    BY <2>2
  <2> QED  BY <1>3, <2>1, <2>2, <2>3, FaultType DEF ExpireFails, Types
<1>4. CASE Answered(c)
  <2>1. counter' = counter /\ counter \in [Keys -> Nat]
    BY <1>4 DEF Answered, Types, TypeOK
  <2>2. \A k \in Keys : counter'[k] >= counter[k]
    BY <2>1
  <2> QED  BY <1>4, <2>1, <2>2 DEF Answered
<1> QED  BY <1>2, <1>3, <1>4

LEMMA NextTypes == Types /\ [Next]_vars => Types'
<1> SUFFICES ASSUME Types, [Next]_vars PROVE Types'
  OBVIOUS
<1>t. /\ clock \in 0..MaxTime /\ counter \in [Keys -> Nat]
      /\ expireAt \in [Keys -> Nat \cup {None}]
      /\ granted \in [Keys -> [0..MaxCount -> Nat]] /\ faults \in 0..MaxFaults
  BY DEF Types, TypeOK
<1>1. ASSUME NEW c \in Conns, NEW a \in Accounts, NEW f \in Features,
             Check(c, a[1], a[2], f)
      PROVE  Types'
  BY <1>t, <1>1, CheckFacts, OneRequest
<1>2. ASSUME NEW c \in Conns, Incr(c)
      PROVE  Types'
  <2>1. PICK v \in Records : req' = [req EXCEPT ![c] = v] /\ RequestOK(v)
    BY <1>2, IncrFacts
  <2>2. counter' \in [Keys -> Nat]
    <3>1. req[c].key \in Keys /\ counter' = [counter EXCEPT ![req[c].key] = counter[req[c].key] + 1]
      BY <1>2, IncrFacts
    <3> QED  BY <1>t, <3>1
  <2>3. granted' \in [Keys -> [0..MaxCount -> Nat]] /\ UNCHANGED <<clock, expireAt, faults>>
    BY <1>2, IncrFacts
  <2> QED  BY <1>t, <2>1, <2>2, <2>3, OneRequest
<1>3. ASSUME NEW c \in Conns, Expire(c)
      PROVE  Types'
  <2>1. PICK v \in Records : req' = [req EXCEPT ![c] = v] /\ RequestOK(v)
    BY <1>3, ExpireFacts
  <2>2. /\ granted' \in [Keys -> [0..MaxCount -> Nat]] /\ UNCHANGED <<clock, counter, faults>>
        /\ expireAt' \in [Keys -> Nat \cup {None}]
    BY <1>3, ExpireFacts, ExpiryType
  <2> QED  BY <1>t, <2>1, <2>2, OneRequest
<1>4. ASSUME NEW c \in Conns, IncrFails(c) \/ ExpireFails(c) \/ Answered(c)
      PROVE  Types'
  <2>1. /\ req' = [req EXCEPT ![c] = IdleReq] /\ UNCHANGED <<clock, granted>>
        /\ counter' \in [Keys -> Nat] /\ faults' \in 0..MaxFaults
    BY <1>t, <1>4, EndFacts
  <2>2. expireAt' \in [Keys -> Nat \cup {None}]
    BY <1>t, <1>4, EndFacts, ExpiryType
  <2> QED  BY <1>t, <2>1, <2>2, IdleType, OneRequest
<1>5. CASE Crash
  <2>1. req' = [c \in Conns |-> IdleReq] /\ faults' \in 0..MaxFaults
        /\ UNCHANGED <<clock, counter, expireAt, granted>>
    BY <1>5, FaultType DEF Crash, Types
  <2>2. TypeOK'
    BY <1>t, <2>1, IdleType DEF TypeOK, IdleReq, Records
  <2>3. \A c \in Conns : RequestOK(req[c])'
    BY <2>1 DEF RequestOK, IdleReq
  <2> QED  BY <2>2, <2>3 DEF Types
<1>6. ASSUME NEW k \in Keys, KeyExpires(k)
      PROVE  Types'
  BY <1>6 DEF KeyExpires, Types, TypeOK, RequestOK
<1>7. CASE Tick
  <2>1. clock' \in 0..MaxTime /\ UNCHANGED <<counter, expireAt, req, granted, faults>>
    <3>1. MaxTime \in Int
      BY TimeAssumption DEF MaxTime
    <3> QED  BY <1>t, <1>7, <3>1 DEF Tick
  <2> QED  BY <2>1 DEF Types, TypeOK, RequestOK
<1>8. CASE UNCHANGED vars
  BY <1>8 DEF vars, Types, TypeOK, RequestOK
<1> QED  BY <1>1, <1>2, <1>3, <1>4, <1>5, <1>6, <1>7, <1>8 DEF Next, Step

-----------------------------------------------------------------------------
(* Dates *)

LEMMA DayOf ==
    ASSUME NEW x \in Nat
    PROVE  /\ x \div DayLength \in Nat /\ DayLength * (x \div DayLength) <= x
           /\ x < DayLength * (x \div DayLength + 1)
  BY TimeAssumption

LEMMA LaterDay ==
    ASSUME NEW a \in Nat, NEW b \in Nat, a < b
    PROVE  DayLength * (a + 1) \in Nat /\ DayLength * b \in Nat
           /\ DayLength * (a + 1) <= DayLength * b
<1>1. PICK z \in Nat : b = (a + 1) + z
  <2>1. b - (a + 1) \in Nat /\ b = (a + 1) + (b - (a + 1))
    OBVIOUS
  <2> QED  BY <2>1
<1>2. /\ DayLength * b = DayLength * (a + 1) + DayLength * z
      /\ DayLength * (a + 1) \in Nat /\ DayLength * z \in Nat
  BY <1>1, TimeAssumption
<1> QED  BY <1>2

\* A day that has begun does not begin again.
LEMMA TodayGrows ==
    ASSUME Types, Types', [Next]_vars
    PROVE  /\ Today \in Nat /\ Today' \in Nat /\ Today <= Today'
           /\ clock' = clock => Today' = Today
<1>1. clock \in Nat /\ clock' \in Nat
  BY TimeAssumption DEF Types, TypeOK, MaxTime
<1>2. Today \in Nat /\ DayLength * Today <= clock
  BY <1>1, DayOf DEF Today
<1>3. Today' \in Nat /\ clock' < DayLength * (Today' + 1)
  BY <1>1, DayOf DEF Today
<1>4. clock' = clock => Today' = Today
  BY DEF Today
<1>5. clock' = clock \/ clock' = clock + 1
  BY DEF Next, Check, Step, Incr, IncrFails, Expire, ExpireFails, Answered, Crash,
         KeyExpires, Tick, vars
<1>6. ASSUME Today' < Today PROVE FALSE
  <2>1. /\ DayLength * (Today' + 1) \in Nat /\ DayLength * Today \in Nat
        /\ DayLength * (Today' + 1) <= DayLength * Today
    BY <1>2, <1>3, <1>6, LaterDay
  <2> QED  BY <1>1, <1>2, <1>3, <1>5, <2>1
<1> QED  BY <1>2, <1>3, <1>4, <1>6

\* EXPIRE gives a counter a time to live that ends after its date.
LEMMA ExpiryAfterDate ==
    ASSUME Types, Dates, NEW k \in Keys, SetExpiry(k), k[3] <= Today
    PROVE  \A l \in Keys : expireAt'[l] # None => expireAt'[l] >= DayLength * (l[3] + 1)
<1>1. /\ DayLength * Today <= clock /\ Today \in Nat /\ clock \in Nat
      /\ DayLength \in Nat \ {0} /\ k[3] \in Nat
  BY TodayType, TimeAssumption DEF Types, TypeOK, MaxTime, Keys
<1>2. clock + DayLength >= DayLength * (k[3] + 1)
  <2> DEFINE a == k[3]
             b == Today
  <2>1. PICK z \in Nat : b = a + z
    <3>1. b - a \in Nat /\ b = a + (b - a)
      BY <1>1
    <3> QED  BY <3>1
  <2>2. a \in Nat /\ DayLength * b <= clock
    BY <1>1
  <2> HIDE DEF a, b
  <2>3. /\ DayLength * b = DayLength * a + DayLength * z
        /\ DayLength * (a + 1) = DayLength * a + DayLength
        /\ DayLength * a \in Nat /\ DayLength * z \in Nat
    BY <1>1, <2>1, <2>2
  <2> QED  BY <1>1, <2>2, <2>3 DEF a
<1>3. expireAt \in [Keys -> Nat \cup {None}]
  BY DEF Types, TypeOK
<1>4. \A l \in Keys : expireAt[l] # None => expireAt[l] >= DayLength * (l[3] + 1)
  BY DEF Dates
<1>5. expireAt' = expireAt \/ expireAt' = [expireAt EXCEPT ![k] = clock + DayLength]
  BY DEF SetExpiry
<1> QED  BY <1>2, <1>3, <1>4, <1>5

LEMMA NextDates == ASSUME Types, Types', Dates, [Next]_vars  PROVE Dates'
<1>1. Today \in Nat /\ Today' \in Nat /\ Today <= Today' /\ (clock' = clock => Today' = Today)
  BY TodayGrows
<1>2. \A k \in Keys : k[3] \in Nat
  BY TimeAssumption DEF Keys
<1>3. \A c \in Conns : req[c].pc # "idle" => req[c].key \in Keys /\ req[c].key[3] <= Today
  BY DEF Types, TypeOK, Dates
<1>s. ASSUME \A c \in Conns : req'[c].pc # "idle" =>
                \/ req'[c].key[3] = Today
                \/ req[c].pc # "idle" /\ req'[c].key = req[c].key,
             \A k \in Keys : expireAt'[k] # None => expireAt'[k] >= DayLength * (k[3] + 1)
      PROVE  Dates'
  <2>1. ASSUME NEW c \in Conns, req'[c].pc # "idle"
        PROVE  req'[c].key[3] <= Today'
    <3>1. CASE req'[c].key[3] = Today
      BY <1>1, <3>1
    <3>2. CASE req[c].pc # "idle" /\ req'[c].key = req[c].key
      BY <1>1, <1>2, <1>3, <3>2
    <3> QED  BY <1>s, <2>1, <3>1, <3>2
  <2> QED  BY <1>s, <2>1 DEF Dates
<1>e. \A k \in Keys : expireAt[k] # None => expireAt[k] >= DayLength * (k[3] + 1)
  BY DEF Dates
<1>4. ASSUME NEW c \in Conns, NEW a \in Accounts, NEW f \in Features,
             Check(c, a[1], a[2], f)
      PROVE  Dates'
  <2>1. PICK v \in Records : req' = [req EXCEPT ![c] = v] /\ v.key[3] = Today
    BY <1>4, CheckFacts
  <2>2. \A d \in Conns : req'[d] = IF d = c THEN v ELSE req[d]
    BY <2>1 DEF Types, TypeOK
  <2>3. expireAt' = expireAt
    BY <1>4 DEF Check
  <2> QED  BY <1>s, <1>e, <2>1, <2>2, <2>3
<1>5. ASSUME NEW c \in Conns, Incr(c)
      PROVE  Dates'
  <2>1. PICK v \in Records : req' = [req EXCEPT ![c] = v] /\ v.key = req[c].key
    BY <1>5, IncrFacts
  <2>2. \A d \in Conns : req'[d] = IF d = c THEN v ELSE req[d]
    BY <2>1 DEF Types, TypeOK
  <2>3. expireAt' = expireAt /\ req[c].pc # "idle"
    BY <1>5 DEF Incr
  <2> QED  BY <1>s, <1>e, <2>1, <2>2, <2>3
<1>6. ASSUME NEW c \in Conns, Expire(c)
      PROVE  Dates'
  <2>1. PICK v \in Records : req' = [req EXCEPT ![c] = v] /\ v.key = req[c].key
    BY <1>6, ExpireFacts
  <2>2. \A d \in Conns : req'[d] = IF d = c THEN v ELSE req[d]
    BY <2>1 DEF Types, TypeOK
  <2>3. SetExpiry(req[c].key) /\ req[c].pc # "idle"
    BY <1>6 DEF Expire
  <2>4. \A k \in Keys : expireAt'[k] # None => expireAt'[k] >= DayLength * (k[3] + 1)
    BY <1>3, <2>3, ExpiryAfterDate
  <2> QED  BY <1>s, <2>1, <2>2, <2>3, <2>4
<1>7. ASSUME NEW c \in Conns, IncrFails(c) \/ ExpireFails(c) \/ Answered(c)
      PROVE  Dates'
  <2>1. \A d \in Conns : req'[d] = IF d = c THEN IdleReq ELSE req[d]
    BY <1>7, EndFacts DEF Types, TypeOK
  <2>2. \A k \in Keys : expireAt'[k] # None => expireAt'[k] >= DayLength * (k[3] + 1)
    <3>1. CASE expireAt' = expireAt
      BY <1>e, <3>1
    <3>2. CASE req[c].pc = "expire" /\ SetExpiry(req[c].key)
      BY <1>3, <3>2, ExpiryAfterDate
    <3> QED  BY <1>7, <3>1, <3>2, EndFacts
  <2> QED  BY <1>s, <2>1, <2>2 DEF IdleReq
<1>8. CASE Crash
  BY <1>8, <1>s, <1>e DEF Crash, IdleReq
<1>9. ASSUME NEW k \in Keys, KeyExpires(k)
      PROVE  Dates'
  <2>1. expireAt' = [expireAt EXCEPT ![k] = None] /\ req' = req
    BY <1>9 DEF KeyExpires
  <2>2. \A l \in Keys : expireAt'[l] # None => expireAt'[l] >= DayLength * (l[3] + 1)
    BY <1>e, <2>1 DEF Types, TypeOK
  <2> QED  BY <1>s, <2>1, <2>2
<1>10. CASE Tick
  BY <1>10, <1>s, <1>e DEF Tick
<1>11. CASE UNCHANGED vars
  BY <1>11, <1>s, <1>e DEF vars
<1> QED  BY <1>4, <1>5, <1>6, <1>7, <1>8, <1>9, <1>10, <1>11 DEF Next, Step

-----------------------------------------------------------------------------
(* Requests that found a counter new *)

LEMMA InitInv == Init => Inv
<1> SUFFICES ASSUME Init PROVE Inv
  OBVIOUS
<1>1. 0 \in Nat /\ 0 \in 0..MaxTime /\ 0 \in 0..MaxFaults
  <2>1. DayLength * (MaxDate + 1) >= 1 /\ DayLength * (MaxDate + 1) \in Nat
    <3>1. DayLength * 1 \in Nat /\ DayLength * MaxDate \in Nat
          /\ DayLength * (MaxDate + 1) = DayLength * 1 + DayLength * MaxDate
      BY TimeAssumption
    <3> QED  BY <3>1, TimeAssumption
  <2> QED  BY <2>1, FaultAssumption DEF MaxTime
<1>2. TypeOK
  BY <1>1, IdleType DEF Init, TypeOK, Records, IdleReq
<1>3. \A c \in Conns : req[c] = IdleReq /\ req[c].pc = "idle"
  BY DEF Init, IdleReq
<1>4. Types /\ Dates /\ FoundOnce
  BY <1>2, <1>3, IdleType DEF Types, Dates, FoundOnce, Found, Pending, Init
<1>5. Counted
  BY <1>3, TimeAssumption DEF Counted, GrantedTo, PendingTo, Found, Init
<1> QED  BY <1>4, <1>5 DEF Inv

\* A request found waiting after a step either waited before it, or has just
\* found its counter new on its date.
LEMMA FoundStep ==
    ASSUME Types, Types', [Next]_vars, NEW c \in Conns, NEW k \in Keys, Found(c, k)'
    PROVE  \/ Found(c, k) /\ req'[c].tier = req[c].tier
           \/ Incr(c) /\ req[c].key = k /\ counter[k] = 0 /\ Today = k[3]
<1>r. ASSUME req' = req
      PROVE  Found(c, k) /\ req'[c].tier = req[c].tier
  BY <1>r DEF Found, Keys, Users
<1>o. ASSUME NEW d \in Conns, NEW v \in Records, req' = [req EXCEPT ![d] = v],
             v.pc # "expire"
      PROVE  Found(c, k) /\ req'[c].tier = req[c].tier
  <2>1. req'[c] = IF c = d THEN v ELSE req[c]
    BY <1>o DEF Types, TypeOK
  <2> QED  BY <1>o, <2>1 DEF Found, Keys, Users
<1>1. ASSUME NEW d \in Conns, NEW a \in Accounts, NEW f \in Features,
             Check(d, a[1], a[2], f)
      PROVE  Found(c, k) /\ req'[c].tier = req[c].tier
  <2>1. PICK v \in Records : req' = [req EXCEPT ![d] = v] /\ v.pc # "expire"
    BY <1>1, CheckFacts
  <2> QED  BY <1>o, <2>1
<1>2. ASSUME NEW d \in Conns, Incr(d)
      PROVE  \/ Found(c, k) /\ req'[c].tier = req[c].tier
             \/ Incr(c) /\ req[c].key = k /\ counter[k] = 0 /\ Today = k[3]
  <2>1. PICK v \in Records :
            /\ req' = [req EXCEPT ![d] = v] /\ v.key = req[d].key
            /\ v.onTime = (Today = req[d].key[3])
            /\ v.current = counter[req[d].key] + 1 /\ req[d].key \in Keys
            /\ v.pc = "expire" => v.current = 1
    BY <1>2, IncrFacts
  <2>2. req'[c] = IF c = d THEN v ELSE req[c]
    BY <2>1 DEF Types, TypeOK
  <2>3. CASE c = d
    <3>1. v.pc = "expire" /\ v.key = k /\ v.onTime
      BY <2>2, <2>3 DEF Found, Keys, Users
    <3>2. counter[k] \in Nat
      BY DEF Types, TypeOK
    <3>3. req[d].key = k /\ v.current = 1 /\ v.current = counter[req[d].key] + 1
      BY <2>1, <3>1
    <3>4. counter[k] = 0
      BY <3>2, <3>3
    <3>5. Today = k[3]
      BY <2>1, <3>1, Zenon
    <3> QED  BY <1>2, <2>3, <3>3, <3>4, <3>5, Zenon
  <2>4. CASE c # d
    BY <2>2, <2>4 DEF Found, Keys, Users
  <2> QED  BY <2>3, <2>4
<1>3. ASSUME NEW d \in Conns, Expire(d)
      PROVE  Found(c, k) /\ req'[c].tier = req[c].tier
  <2>1. PICK v \in Records : req' = [req EXCEPT ![d] = v] /\ v.pc # "expire"
    BY <1>3, ExpireFacts
  <2> QED  BY <1>o, <2>1
<1>4. ASSUME NEW d \in Conns, IncrFails(d) \/ ExpireFails(d) \/ Answered(d)
      PROVE  Found(c, k) /\ req'[c].tier = req[c].tier
  <2>1. req' = [req EXCEPT ![d] = IdleReq]
    BY <1>4, EndFacts
  <2>2. IdleReq.pc # "expire"
    BY DEF IdleReq
  <2> QED  BY <1>o, <2>1, <2>2, IdleType
<1>5. ~Crash
  BY DEF Crash, IdleReq, Found, Keys, Users
<1>6. ASSUME NEW l \in Keys, KeyExpires(l)
      PROVE  Found(c, k) /\ req'[c].tier = req[c].tier
  BY <1>r, <1>6 DEF KeyExpires
<1>7. CASE Tick \/ UNCHANGED vars
  BY <1>r, <1>7 DEF Tick, vars
<1> QED  BY <1>1, <1>2, <1>3, <1>4, <1>5, <1>6, <1>7 DEF Next, Step

\* Until its date is over, no counter falls.
LEMMA CounterGrows ==
    ASSUME Inv, Types', [Next]_vars, NEW k \in Keys, Today' <= k[3]
    PROVE  /\ counter[k] \in Nat /\ counter'[k] \in Nat /\ counter'[k] >= counter[k]
           /\ Today <= k[3]
<1>1. Types /\ counter \in [Keys -> Nat] /\ counter' \in [Keys -> Nat] /\ k[3] \in Nat
  BY TimeAssumption DEF Inv, Types, TypeOK, Keys, Users
<1>2. Today <= k[3]
  BY <1>1, TodayGrows
<1>3. ASSUME NEW c \in Conns, Incr(c)
      PROVE  counter'[k] >= counter[k]
  <2> DEFINE l == req[c].key
  <2>1. l \in Keys /\ counter' = [counter EXCEPT ![l] = counter[l] + 1]
    BY <1>1, <1>3, IncrFacts
  <2> HIDE DEF l
  <2> QED  BY <1>1, <2>1
<1>4. ASSUME NEW c \in Conns, IncrFails(c) \/ ExpireFails(c) \/ Answered(c)
      PROVE  counter'[k] >= counter[k]
  BY <1>1, <1>4, EndFacts
<1>5. ASSUME NEW l \in Keys, KeyExpires(l)
      PROVE  counter'[k] >= counter[k]
  <2>1. counter' = [counter EXCEPT ![l] = 0] /\ expireAt[l] # None /\ clock >= expireAt[l]
    BY <1>5 DEF KeyExpires
  <2>2. l # k
    <3>1. l[3] < Today
      BY <2>1, DateOver
    <3>2. Today \in Nat
      BY <1>1, TodayGrows
    <3> QED  BY <1>1, <1>2, <3>1, <3>2
  <2> QED  BY <1>1, <2>1, <2>2
<1>6. ASSUME counter' = counter
      PROVE  counter'[k] >= counter[k]
  BY <1>1, <1>6
<1>7. counter'[k] >= counter[k]
  BY <1>3, <1>4, <1>5, <1>6 DEF Next, Step, Check, Expire, Crash, Tick, vars
<1> QED  BY <1>1, <1>2, <1>7

LEMMA NextFoundOnce == ASSUME Inv, Types', [Next]_vars  PROVE FoundOnce'
<1>t. Types /\ FoundOnce
  BY DEF Inv
<1>i. ASSUME NEW c \in Conns, Incr(c)
      PROVE  /\ req[c].key \in Keys /\ counter'[req[c].key] # 0
             /\ \A d \in Conns : Incr(d) /\ req[d].key = req[c].key /\ d # c =>
                    req'[d] = req[d]
  <2> DEFINE k == req[c].key
  <2>1. k \in Keys /\ counter' = [counter EXCEPT ![k] = counter[k] + 1]
    BY <1>t, <1>i, IncrFacts
  <2>2. \E v \in Records : req' = [req EXCEPT ![c] = v]
    BY <1>t, <1>i, IncrFacts
  <2>3. counter[k] \in Nat /\ counter'[k] = counter[k] + 1
    BY <1>t, <2>1 DEF Types, TypeOK
  <2> QED  BY <1>t, <2>1, <2>2, <2>3 DEF Types, TypeOK
<1>1. ASSUME NEW c \in Conns, NEW d \in Conns, NEW k \in Keys, Found(c, k)', Found(d, k)'
      PROVE  c = d
  <2>1. CASE Found(c, k) /\ Found(d, k)
    BY <1>t, <2>1 DEF FoundOnce
  <2>2. ASSUME NEW e \in Conns, Incr(e), req[e].key = k, counter[k] = 0, Today = k[3]
        PROVE  ~Found(c, k) /\ ~Found(d, k)
    <3>1. Today <= k[3]
      BY <1>t, <2>2, TodayGrows
    <3> QED  BY <1>t, <2>2, <3>1 DEF FoundOnce, Pending, Found
  <2>3. CASE Incr(c) /\ req[c].key = k /\ counter[k] = 0 /\ Today = k[3]
    <3>1. Incr(d) /\ req[d].key = k
      BY <1>t, <1>1, <2>2, <2>3, FoundStep
    <3>2. ASSUME d # c PROVE FALSE
      <4>1. req'[d] = req[d] /\ req[d].pc = "incr"
        BY <1>i, <2>3, <3>1, <3>2 DEF Incr
      <4> QED  BY <1>1, <4>1 DEF Found, Keys, Users
    <3> QED  BY <3>2
  <2>4. CASE Incr(d) /\ req[d].key = k /\ counter[k] = 0 /\ Today = k[3]
    <3>1. Incr(c) /\ req[c].key = k
      BY <1>t, <1>1, <2>2, <2>4, FoundStep
    <3>2. ASSUME d # c PROVE FALSE
      <4>1. req'[c] = req[c] /\ req[c].pc = "incr"
        BY <1>i, <2>4, <3>1, <3>2 DEF Incr
      <4> QED  BY <1>1, <4>1 DEF Found, Keys, Users
    <3> QED  BY <3>2
  <2> QED  BY <1>t, <1>1, <2>1, <2>3, <2>4, FoundStep
<1>2. ASSUME NEW k \in Keys, Today' <= k[3], counter'[k] = 0
      PROVE  ~Pending(k)'
  <2>1. Today <= k[3] /\ counter[k] = 0
    BY <1>2, CounterGrows
  <2>2. ~Pending(k)
    BY <1>t, <2>1 DEF FoundOnce
  <2>3. ASSUME NEW c \in Conns, Found(c, k)' PROVE FALSE
    <3>1. Incr(c) /\ req[c].key = k
      BY <1>t, <2>2, <2>3, FoundStep DEF Pending, Found
    <3> QED  BY <1>2, <1>i, <3>1
  <2> QED  BY <2>3 DEF Pending, Found, Keys, Users
<1> QED  BY <1>1, <1>2 DEF FoundOnce, Found, Keys, Users

-----------------------------------------------------------------------------
(* What is granted *)

LEMMA GrantedType ==
    ASSUME Types, NEW k \in Keys, NEW n \in 0..MaxCount
    PROVE  granted[k][n] \in Nat /\ GrantedTo(k, n) \in Nat /\ granted[k][n] <= GrantedTo(k, n)
<1>1. granted[k][n] \in Nat
  BY DEF Types, TypeOK
<1> QED  BY <1>1 DEF GrantedTo

LEMMA LimitType == \A t, f : Limit(t, f) \in Nat \cup {-1}
  BY LimitAssumption DEF Limit

\* A step after which no more is granted or about to be.
LEMMA KeepsCounted ==
    ASSUME Inv, Types', [Next]_vars, NEW k \in Keys, NEW n \in 0..MaxCount,
           granted'[k][n] = granted[k][n], PendingTo(k, n)' => PendingTo(k, n)
    PROVE  /\ GrantedTo(k, n)' <= n
           /\ Today' <= k[3] => GrantedTo(k, n)' <= counter'[k]
<1>1. granted[k][n] \in Nat /\ n \in Nat
  BY GrantedType, TimeAssumption DEF Inv
<1>2. GrantedTo(k, n) \in Nat /\ GrantedTo(k, n)' \in Nat /\ GrantedTo(k, n)' <= GrantedTo(k, n)
  BY <1>1 DEF GrantedTo
<1>3. GrantedTo(k, n) <= n /\ (Today <= k[3] => GrantedTo(k, n) <= counter[k])
  BY DEF Inv, Counted
<1>4. GrantedTo(k, n)' <= n
  BY <1>1, <1>2, <1>3
<1>5. ASSUME Today' <= k[3] PROVE GrantedTo(k, n)' <= counter'[k]
  <2>1. /\ counter[k] \in Nat /\ counter'[k] \in Nat /\ counter'[k] >= counter[k]
        /\ Today <= k[3]
    BY <1>5, CounterGrows
  <2> QED  BY <1>2, <1>3, <2>1
<1> QED  BY <1>4, <1>5

\* A step after which at most one more is granted, the counter below the limit.
LEMMA AddsCounted ==
    ASSUME Inv, Types', NEW k \in Keys, NEW n \in 0..MaxCount, Today = k[3],
           Today' = Today, counter'[k] = counter[k] + 1, counter[k] + 1 <= n,
           GrantedTo(k, n)' <= GrantedTo(k, n) + 1
    PROVE  /\ GrantedTo(k, n)' <= n
           /\ Today' <= k[3] => GrantedTo(k, n)' <= counter'[k]
<1>1. GrantedTo(k, n) \in Nat /\ n \in Nat /\ counter[k] \in Nat
  <2>1. Types
    BY DEF Inv
  <2>2. counter[k] \in Nat
    BY <2>1 DEF Types, TypeOK
  <2> QED  BY <2>1, <2>2, GrantedType, TimeAssumption
<1>2. GrantedTo(k, n)' \in Nat
  <2>1. granted'[k][n] \in Nat
    BY DEF Types, TypeOK, Keys, Users
  <2> QED  BY <2>1 DEF GrantedTo
<1>3. k[3] \in Nat
  BY TimeAssumption DEF Keys
<1>4. GrantedTo(k, n) <= counter[k]
  <2>1. Today <= k[3]
    BY <1>3
  <2> QED  BY <2>1 DEF Inv, Counted
<1> QED  BY <1>1, <1>2, <1>4

LEMMA GrantedAt ==
    ASSUME Types, NEW r, r.key \in Keys, granted' = Granted(r),
           NEW k \in Keys, NEW n \in 0..MaxCount
    PROVE  granted'[k][n] = granted[k][n] +
               (IF k = r.key /\ Limit(r.tier, k[2]) <= n THEN 1 ELSE 0)
<1>1. granted \in [Keys -> [0..MaxCount -> Nat]]
  BY DEF Types, TypeOK
<1>2. granted[k][n] \in Nat
  BY <1>1
<1>3. CASE k = r.key
  BY <1>1, <1>2, <1>3 DEF Granted
<1>4. CASE k # r.key
  <2>1. granted'[k] = granted[k]
    BY <1>1, <1>4 DEF Granted
  <2> QED  BY <1>2, <1>4, <2>1
<1> QED  BY <1>3, <1>4

\* PendingTo only grows by an INCR that finds the counter new on its date.
LEMMA PendingStep ==
    ASSUME Types, Types', [Next]_vars, NEW k \in Keys, NEW n \in 0..MaxCount,
           \A c \in Conns : Incr(c) /\ req[c].key = k => counter[k] # 0 \/ Today # k[3]
    PROVE  PendingTo(k, n)' => PendingTo(k, n)
<1> SUFFICES ASSUME NEW c \in Conns, Found(c, k)', Limit(req'[c].tier, k[2]) <= n
             PROVE  PendingTo(k, n)
  BY DEF PendingTo, Found, Limit, Keys, Users
<1>1. Found(c, k) /\ req'[c].tier = req[c].tier
  BY FoundStep
<1> QED  BY <1>1 DEF PendingTo

LEMMA NextCounted == ASSUME Inv, Types', [Next]_vars  PROVE Counted'
<1>t. Types /\ FoundOnce /\ FoundOnce'
  BY NextFoundOnce DEF Inv
<1> DEFINE Within(k, n) == /\ GrantedTo(k, n)' <= n
                           /\ Today' <= k[3] => GrantedTo(k, n)' <= counter'[k]
<1> SUFFICES ASSUME NEW k \in Keys, NEW n \in 0..MaxCount
             PROVE  Within(k, n)
  BY DEF Counted, Keys, Users
<1>g. granted[k][n] \in Nat /\ GrantedTo(k, n) \in Nat /\ n \in Nat /\ counter[k] \in Nat
  <2>1. counter[k] \in Nat
    BY <1>t DEF Types, TypeOK
  <2> QED  BY <1>t, <2>1, GrantedType, TimeAssumption
<1>n. ASSUME \A c \in Conns : ~Incr(c), granted' = granted
      PROVE  Within(k, n)
  <2>1. PendingTo(k, n)' => PendingTo(k, n)
    BY <1>t, <1>n, PendingStep
  <2> QED  BY <1>n, <2>1, KeepsCounted
<1>1. ASSUME NEW c \in Conns, Incr(c)
      PROVE  Within(k, n)
  <2>1. PICK v \in Records :
            /\ req' = [req EXCEPT ![c] = v] /\ v.key = req[c].key
            /\ v.onTime = (Today = v.key[3]) /\ v.current = counter[v.key] + 1
            /\ v.key \in Keys /\ Limit(v.tier, v.key[2]) > 0
            /\ \/ v.pc = "expire" /\ v.current = 1 /\ granted' = granted
               \/ /\ v.pc = Answer(v) /\ v.pc \in {"granted", "refused"}
                  /\ v.current # 1
                  /\ granted' = IF v.pc = "granted" /\ v.onTime THEN Granted(v) ELSE granted
    BY <1>t, <1>1, IncrFacts
  <2>2. /\ counter' = [counter EXCEPT ![v.key] = counter[v.key] + 1]
        /\ UNCHANGED <<clock, expireAt, faults>>
    BY <1>t, <1>1, <2>1, IncrFacts
  <2>3. Today' = Today /\ Today \in Nat
    BY <1>t, <2>2, TodayGrows DEF Inv
  <2>4. \A d \in Conns : d # c => req'[d] = req[d]
    BY <1>t, <2>1 DEF Types, TypeOK
  <2>5. req'[c] = v
    BY <1>t, <2>1 DEF Types, TypeOK
  <2>6. \A d \in Conns : Found(d, k)' /\ d # c => Found(d, k) /\ req'[d].tier = req[d].tier
    BY <2>4 DEF Found, Keys, Users
  <2>7. PendingTo(k, n)' => PendingTo(k, n) \/ (Found(c, k)' /\ Limit(v.tier, k[2]) <= n)
    <3> SUFFICES ASSUME NEW d \in Conns, Found(d, k)', Limit(req'[d].tier, k[2]) <= n
                 PROVE  PendingTo(k, n) \/ (Found(c, k)' /\ Limit(v.tier, k[2]) <= n)
      BY DEF PendingTo, Found, Limit, Keys, Users
    <3> QED  BY <2>5, <2>6 DEF PendingTo
  <2>8. CASE k = v.key /\ Today = k[3] /\ v.pc = "expire" /\ Limit(v.tier, k[2]) <= n
    <3>1. granted' = granted /\ counter[k] = 0
      BY <1>g, <2>1, <2>8
    <3>2. counter'[k] = counter[k] + 1
      BY <1>t, <2>2, <2>8 DEF Types, TypeOK
    <3>3. n >= 1
      <4>1. Limit(v.tier, k[2]) > 0
        BY <2>1, <2>8
      <4> QED  BY <1>g, <2>8, <4>1, LimitType
    <3>4. ~PendingTo(k, n)
      <4>1. Today <= k[3]
        BY <2>3, <2>8
      <4> QED  BY <1>t, <3>1, <4>1 DEF FoundOnce, Pending, PendingTo, Found
    <3>5. GrantedTo(k, n)' <= GrantedTo(k, n) + 1
      BY <1>g, <3>1, <3>4 DEF GrantedTo
    <3> QED  BY <1>g, <2>3, <2>8, <3>1, <3>2, <3>3, <3>5, AddsCounted
  <2>9. CASE k = v.key /\ v.pc = "granted" /\ v.onTime /\ Limit(v.tier, k[2]) <= n
    <3>1. Today = k[3]
      BY <2>1, <2>9, Zenon
    <3>2. counter'[k] = counter[k] + 1
      BY <1>t, <2>2, <2>9 DEF Types, TypeOK
    <3>3. counter[k] + 1 <= n
      <4>1. v.current <= Limit(v.tier, k[2])
        <5>1. ~(v.current > Limit(v.tier, v.key[2]))
          BY <2>1, <2>9 DEF Answer
        <5>2. v.current \in Nat
          BY DEF Records
        <5> QED  BY <2>9, <5>1, <5>2, LimitType
      <4>2. v.current = counter[k] + 1
        BY <2>1, <2>9
      <4> QED  BY <1>g, <2>9, <4>1, <4>2, LimitType
    <3>4. granted'[k][n] = granted[k][n] + 1
      <4>1. granted' = Granted(v)
        BY <2>1, <2>9
      <4> QED  BY <1>t, <2>1, <2>9, <4>1, GrantedAt
    <3>5. PendingTo(k, n)' => PendingTo(k, n)
      <4>1. ~Found(c, k)'
        BY <2>5, <2>9 DEF Found, Keys, Users
      <4> QED  BY <2>7, <4>1
    <3>6. GrantedTo(k, n)' <= GrantedTo(k, n) + 1
      BY <1>g, <3>4, <3>5 DEF GrantedTo
    <3> QED  BY <1>g, <2>3, <3>1, <3>2, <3>3, <3>6, AddsCounted
  <2>10. CASE /\ ~(k = v.key /\ Today = k[3] /\ v.pc = "expire" /\ Limit(v.tier, k[2]) <= n)
              /\ ~(k = v.key /\ v.pc = "granted" /\ v.onTime /\ Limit(v.tier, k[2]) <= n)
    <3>1. PendingTo(k, n)' => PendingTo(k, n)
      <4> SUFFICES ASSUME Found(c, k)', Limit(v.tier, k[2]) <= n PROVE FALSE
        BY <2>7
      <4>1. v.pc = "expire" /\ v.key = k /\ v.onTime
        BY <2>5 DEF Found, Keys, Users
      <4>2. Today = v.key[3]
        BY <2>1, <4>1, Zenon
      <4> QED  BY <2>10, <4>1, <4>2
    <3>2. granted'[k][n] = granted[k][n]
      <4>1. CASE granted' = granted
        BY <4>1
      <4>2. CASE v.pc = "granted" /\ v.onTime /\ granted' = Granted(v)
        <5>1. ~(k = v.key /\ Limit(v.tier, k[2]) <= n)
          BY <2>10, <4>2
        <5>2. granted'[k][n] = granted[k][n] + 0
          BY <1>t, <2>1, <4>2, <5>1, GrantedAt
        <5> QED  BY <1>g, <5>2
      <4> QED  BY <2>1, <4>1, <4>2
    <3> QED  BY <3>1, <3>2, KeepsCounted
  <2> QED  BY <2>8, <2>9, <2>10
<1>2. ASSUME NEW c \in Conns, Expire(c)
      PROVE  Within(k, n)
  <2>1. /\ req[c].key \in Keys /\ req[c].pc = "expire" /\ Limit(req[c].tier, req[c].key[2]) > 0
        /\ granted' = IF req[c].onTime THEN Granted(req[c]) ELSE granted
    BY <1>t, <1>2, ExpireFacts
  <2>2. PICK v \in Records : req' = [req EXCEPT ![c] = v] /\ v.pc = "granted"
    BY <1>t, <1>2, ExpireFacts
  <2>3. \A d \in Conns : req'[d] = IF d = c THEN v ELSE req[d]
    BY <1>t, <2>2 DEF Types, TypeOK
  <2>4. PendingTo(k, n)' => PendingTo(k, n)
    <3> SUFFICES ASSUME NEW d \in Conns, Found(d, k)', Limit(req'[d].tier, k[2]) <= n
                 PROVE  PendingTo(k, n)
      BY DEF PendingTo, Found, Limit, Keys, Users
    <3> QED  BY <2>2, <2>3 DEF PendingTo, Found, Keys, Users
  <2>5. CASE granted'[k][n] = granted[k][n]
    BY <2>4, <2>5, KeepsCounted
  <2>6. CASE granted'[k][n] # granted[k][n]
    <3>1. req[c].onTime /\ granted' = Granted(req[c])
      BY <2>1, <2>6
    <3>2. k = req[c].key /\ Limit(req[c].tier, k[2]) <= n /\ granted'[k][n] = granted[k][n] + 1
      <4>1. granted'[k][n] = granted[k][n] +
                (IF k = req[c].key /\ Limit(req[c].tier, k[2]) <= n THEN 1 ELSE 0)
        BY <1>t, <2>1, <3>1, GrantedAt
      <4> QED  BY <1>g, <2>6, <4>1
    <3>3. Found(c, k) /\ PendingTo(k, n)
      BY <2>1, <3>1, <3>2 DEF PendingTo, Found
    <3>4. ~PendingTo(k, n)'
      <4> SUFFICES ASSUME NEW d \in Conns, Found(d, k)' PROVE FALSE
        BY DEF PendingTo, Found, Limit, Keys, Users
      <4>1. d # c /\ Found(d, k)
        BY <2>2, <2>3 DEF Found, Keys, Users
      <4> QED  BY <1>t, <3>3, <4>1 DEF FoundOnce
    <3>5. GrantedTo(k, n) = granted[k][n] + 1 /\ GrantedTo(k, n)' = granted'[k][n]
      BY <1>g, <3>2, <3>3, <3>4 DEF GrantedTo
    <3>6. GrantedTo(k, n)' = GrantedTo(k, n)
      BY <3>2, <3>5
    <3>7. counter' = counter /\ Today' = Today
      BY <1>2 DEF Expire, Today
    <3>8. GrantedTo(k, n) <= n /\ (Today <= k[3] => GrantedTo(k, n) <= counter[k])
      BY DEF Inv, Counted
    <3> QED  BY <3>6, <3>7, <3>8
  <2> QED  BY <2>5, <2>6
<1>3. CASE (\E c \in Conns : Incr(c)) \/ \E c \in Conns : Expire(c)
  BY <1>1, <1>2, <1>3
<1>4. CASE (\A c \in Conns : ~Incr(c)) /\ \A c \in Conns : ~Expire(c)
  <2>1. granted' = granted
    BY <1>4 DEF Next, Step, Check, IncrFails, ExpireFails, Answered, Crash, KeyExpires,
                Tick, vars
  <2> QED  BY <1>4, <1>n, <2>1
<1> QED  BY <1>3, <1>4

LEMMA NextInv == Inv /\ [Next]_vars => Inv'
<1> SUFFICES ASSUME Inv, [Next]_vars PROVE Inv'
  OBVIOUS
<1>1. Types'
  BY NextTypes DEF Inv
<1>2. Dates'
  BY <1>1, NextDates DEF Inv
<1>3. FoundOnce' /\ Counted'
  BY <1>1, NextFoundOnce, NextCounted
<1> QED  BY <1>1, <1>2, <1>3 DEF Inv

LEMMA SpecInv == Spec => []Inv
  BY InitInv, NextInv, PTL DEF Spec

\* Requests wait with a key of the table, and counters are numbers.
THEOREM UsageTyped == Spec => []TypeOK
<1>1. Inv => TypeOK
  BY DEF Inv, Types
<1> QED  BY <1>1, SpecInv, PTL

\* No user gets more of a feature on a day than the limit of the tier.
THEOREM LimitKept == Spec => []WithinLimit
<1>1. Inv => WithinLimit
  <2> SUFFICES ASSUME Inv, NEW k \in Keys, NEW n \in 0..MaxCount
               PROVE  granted[k][n] <= n
    BY DEF WithinLimit
  <2>1. /\ granted[k][n] \in Nat /\ GrantedTo(k, n) \in Nat /\ n \in Nat
        /\ granted[k][n] <= GrantedTo(k, n)
    BY GrantedType, TimeAssumption DEF Inv
  <2>2. GrantedTo(k, n) <= n
    BY DEF Inv, Counted
  <2> QED  BY <2>1, <2>2
<1> QED  BY <1>1, SpecInv, PTL

-----------------------------------------------------------------------------
(* Behaviours without a fault *)

LEMMA NextFaults ==
    ASSUME Types, [Next]_vars, faults' = 0
    PROVE  /\ faults = 0 /\ ~Crash
           /\ \A c \in Conns : ~IncrFails(c) /\ ~ExpireFails(c)
<1>1. ~Fault
  BY FaultType DEF Types
<1>2. ~Crash /\ \A c \in Conns : ~IncrFails(c) /\ ~ExpireFails(c)
  BY <1>1 DEF Crash, IncrFails, ExpireFails
<1> QED  BY <1>2 DEF Next, Step, Check, Incr, Expire, Answered, KeyExpires, Tick, vars

LEMMA NextExpires ==
    ASSUME Types, EveryCounterExpires, [Next]_vars
    PROVE  EveryCounterExpires'
<1> SUFFICES ASSUME faults' = 0, NEW k \in Keys, counter'[k] > 0, expireAt'[k] = None
             PROVE  \E c \in Conns : req'[c].pc = "expire" /\ req'[c].key = k
  BY DEF EveryCounterExpires, Keys, Users
<1>1. counter[k] \in Nat /\ counter \in [Keys -> Nat] /\ expireAt \in [Keys -> Nat \cup {None}]
  BY DEF Types, TypeOK
<1> DEFINE Waits(d) == req[d].pc = "expire" /\ req[d].key = k
<1>2. counter[k] > 0 /\ expireAt[k] = None => \E d \in Conns : Waits(d)
  BY NextFaults DEF EveryCounterExpires
<1>3. ASSUME NEW c \in Conns, NEW v \in Records, req' = [req EXCEPT ![c] = v],
             req[c].pc # "expire" \/ req[c].key # k,
             counter[k] > 0, expireAt[k] = None
      PROVE  \E d \in Conns : req'[d].pc = "expire" /\ req'[d].key = k
  BY <1>2, <1>3 DEF Types, TypeOK
<1>4. ASSUME NEW c \in Conns, NEW a \in Accounts, NEW f \in Features,
             Check(c, a[1], a[2], f)
      PROVE  \E d \in Conns : req'[d].pc = "expire" /\ req'[d].key = k
  <2>1. PICK v \in Records : req' = [req EXCEPT ![c] = v]
    BY <1>4, CheckFacts
  <2>2. counter' = counter /\ expireAt' = expireAt /\ req[c].pc # "expire"
    BY <1>4 DEF Check
  <2> QED  BY <1>3, <2>1, <2>2
<1>5. ASSUME NEW c \in Conns, Incr(c)
      PROVE  \E d \in Conns : req'[d].pc = "expire" /\ req'[d].key = k
  <2>1. PICK v \in Records :
            /\ req' = [req EXCEPT ![c] = v] /\ v.key = req[c].key
            /\ v.current = counter[v.key] + 1 /\ v.key \in Keys
            /\ v.pc = "expire" \/ v.current # 1
    BY <1>5, IncrFacts
  <2>2. /\ counter' = [counter EXCEPT ![v.key] = counter[v.key] + 1] /\ expireAt' = expireAt
        /\ req[c].pc # "expire"
    BY <1>5, <2>1, IncrFacts DEF Incr
  <2>3. CASE counter[k] > 0
    BY <1>3, <2>1, <2>2, <2>3
  <2>4. CASE counter[k] = 0
    <3>1. v.key = k
      BY <1>1, <2>1, <2>2, <2>4
    <3>2. v.pc = "expire"
      BY <2>1, <2>4, <3>1
    <3> QED  BY <2>1, <3>1, <3>2 DEF Types, TypeOK
  <2> QED  BY <1>1, <2>3, <2>4
<1>6. ASSUME NEW c \in Conns, Expire(c)
      PROVE  \E d \in Conns : req'[d].pc = "expire" /\ req'[d].key = k
  <2>1. PICK v \in Records : req' = [req EXCEPT ![c] = v]
    BY <1>6, ExpireFacts
  <2>2. counter' = counter /\ SetExpiry(req[c].key) /\ req[c].key \in Keys
    BY <1>6, ExpireFacts
  <2>3. clock + DayLength # None
    <3>1. clock + DayLength \in Nat
      BY TimeAssumption DEF Types, TypeOK, MaxTime
    <3> QED  BY <3>1, TimeAssumption
  <2>4. req[c].key # k /\ expireAt[k] = None
    BY <1>1, <2>2, <2>3 DEF SetExpiry
  <2> QED  BY <1>3, <2>1, <2>2, <2>4
<1>7. ASSUME NEW c \in Conns, Answered(c)
      PROVE  \E d \in Conns : req'[d].pc = "expire" /\ req'[d].key = k
  <2>1. /\ req' = [req EXCEPT ![c] = IdleReq] /\ req[c].pc # "expire"
        /\ counter' = counter /\ expireAt' = expireAt
    BY <1>7 DEF Answered
  <2> QED  BY <1>3, <2>1, IdleType
<1>8. ASSUME NEW l \in Keys, KeyExpires(l)
      PROVE  \E d \in Conns : req'[d].pc = "expire" /\ req'[d].key = k
  <2>1. /\ counter' = [counter EXCEPT ![l] = 0] /\ expireAt' = [expireAt EXCEPT ![l] = None]
        /\ req' = req
    BY <1>8 DEF KeyExpires
  <2>2. l # k
    BY <1>1, <2>1
  <2> QED  BY <1>1, <1>2, <2>1, <2>2
<1>9. CASE Tick \/ UNCHANGED vars
  <2>1. counter' = counter /\ expireAt' = expireAt /\ req' = req
    BY <1>9 DEF Tick, vars
  <2> QED  BY <1>2, <2>1
<1> QED  BY <1>4, <1>5, <1>6, <1>7, <1>8, <1>9, NextFaults DEF Next, Step

\* While no command fails, every counter gets a time to live.
THEOREM CountersExpire == Spec => []EveryCounterExpires
<1>1. Init => EveryCounterExpires
  BY DEF Init, EveryCounterExpires
<1>2. Inv /\ EveryCounterExpires /\ [Next]_vars => EveryCounterExpires'
  BY NextExpires DEF Inv
<1> QED  BY <1>1, <1>2, SpecInv, PTL DEF Spec

-----------------------------------------------------------------------------
(* What is refused *)

\* No account has a limit below n, or above MaxCount, for the feature of k.
Least(k, n) == \A a \in Accounts : Limit(a[2], k[2]) \in {-1} \cup (n..MaxCount)

Given(k) == granted[k][MaxCount] + (IF Pending(k) THEN 1 ELSE 0)

\* What a counter counts was granted, or the limit is reached.
CountedGiven ==
    faults = 0 =>
        \A k \in Keys, n \in Nat :
            Least(k, n) /\ Today <= k[3] => counter[k] <= Given(k) \/ n <= Given(k)

\* RefusedOnlyAtLimit, for a given key.
RefusedGiven ==
    faults = 0 =>
        \A c \in Conns, k \in Keys, n \in Nat :
            /\ req[c].pc = "refused" /\ req[c].onTime /\ req[c].key = k
            /\ n = Limit(req[c].tier, k[2]) /\ Least(k, n)
            => n <= Given(k)

LEMMA GivenType == Types => \A k \in Keys : granted[k][MaxCount] \in Nat /\ Given(k) \in Nat
<1> SUFFICES ASSUME Types, NEW k \in Keys
             PROVE  granted[k][MaxCount] \in Nat /\ Given(k) \in Nat
  OBVIOUS
<1>1. granted[k][MaxCount] \in Nat
  BY TimeAssumption DEF Types, TypeOK
<1> QED  BY <1>1 DEF Given

\* A request that waits for Redis has a limit of some account.
LEMMA LeastLimit ==
    ASSUME Types, NEW c \in Conns, NEW k \in Keys, NEW n \in Nat, Least(k, n),
           req[c].pc \in {"incr", "expire"}, req[c].key = k
    PROVE  n <= Limit(req[c].tier, k[2]) /\ Limit(req[c].tier, k[2]) <= MaxCount
<1>1. req[c].tier \in Tiers /\ Limit(req[c].tier, k[2]) > 0
  BY RequestType DEF RequestOK
<1>2. PICK a \in Accounts : a[2] = req[c].tier
  BY <1>1 DEF Tiers
<1>3. Limit(req[c].tier, k[2]) \in {-1} \cup (n..MaxCount)
  BY <1>2 DEF Least
<1> QED  BY <1>1, <1>3, TimeAssumption

LEMMA FoundStays ==
    ASSUME Types, [Next]_vars, faults' = 0, NEW c \in Conns, NEW k \in Keys,
           Found(c, k), ~Expire(c)
    PROVE  Found(c, k)'
<1>r. ASSUME req' = req
      PROVE  Found(c, k)'
  BY <1>r DEF Found, Keys, Users
<1>o. ASSUME NEW d \in Conns, NEW v \in Records, req' = [req EXCEPT ![d] = v], c # d
      PROVE  Found(c, k)'
  BY <1>o DEF Found, Keys, Users, Types, TypeOK
<1>1. ASSUME NEW d \in Conns, NEW a \in Accounts, NEW f \in Features,
             Check(d, a[1], a[2], f)
      PROVE  Found(c, k)'
  <2>1. c # d
    BY <1>1 DEF Check, Found
  <2> QED  BY <1>o, <1>1, <2>1, CheckFacts
<1>2. ASSUME NEW d \in Conns, Incr(d)
      PROVE  Found(c, k)'
  <2>1. c # d
    BY <1>2 DEF Incr, Found
  <2> QED  BY <1>o, <1>2, <2>1, IncrFacts
<1>3. ASSUME NEW d \in Conns, Expire(d)
      PROVE  Found(c, k)'
  <2>1. c # d
    BY <1>3
  <2> QED  BY <1>o, <1>3, <2>1, ExpireFacts
<1>4. ASSUME NEW d \in Conns, Answered(d)
      PROVE  Found(c, k)'
  <2>1. c # d /\ req' = [req EXCEPT ![d] = IdleReq]
    BY <1>4 DEF Answered, Found
  <2> QED  BY <1>o, <2>1, IdleType
<1>5. CASE (\E l \in Keys : KeyExpires(l)) \/ Tick \/ UNCHANGED vars
  BY <1>r, <1>5 DEF KeyExpires, Tick, vars
<1> QED  BY <1>1, <1>2, <1>3, <1>4, <1>5, NextFaults DEF Next, Step

LEMMA GrantedGrows ==
    ASSUME Types, [Next]_vars, NEW k \in Keys, NEW n \in 0..MaxCount
    PROVE  granted'[k][n] \in Nat /\ granted'[k][n] >= granted[k][n]
<1>1. granted[k][n] \in Nat
  BY GrantedType
<1>2. ASSUME NEW r, r.key \in Keys, granted' = Granted(r)
      PROVE  granted'[k][n] \in Nat /\ granted'[k][n] >= granted[k][n]
  <2>1. granted'[k][n] = granted[k][n] +
            (IF k = r.key /\ Limit(r.tier, k[2]) <= n THEN 1 ELSE 0)
    BY <1>2, GrantedAt
  <2> QED  BY <1>1, <2>1
<1>3. ASSUME granted' = granted
      PROVE  granted'[k][n] \in Nat /\ granted'[k][n] >= granted[k][n]
  BY <1>1, <1>3
<1>4. ASSUME NEW c \in Conns, Incr(c)
      PROVE  granted'[k][n] \in Nat /\ granted'[k][n] >= granted[k][n]
  <2>1. PICK v \in Records : v.key \in Keys /\ (granted' = granted \/ granted' = Granted(v))
    BY <1>4, IncrFacts
  <2> QED  BY <1>2, <1>3, <2>1
<1>5. ASSUME NEW c \in Conns, Expire(c)
      PROVE  granted'[k][n] \in Nat /\ granted'[k][n] >= granted[k][n]
  <2>1. req[c].key \in Keys /\ (granted' = granted \/ granted' = Granted(req[c]))
    BY <1>5, ExpireFacts
  <2> QED  BY <1>2, <1>3, <2>1
<1> QED  BY <1>3, <1>4, <1>5 DEF Next, Step, Check, IncrFails, ExpireFails, Answered,
            Crash, KeyExpires, Tick, vars

\* What was granted or is about to be, stays so.
LEMMA GivenGrows ==
    ASSUME Types, [Next]_vars, faults' = 0, NEW k \in Keys, NEW n \in Nat, Least(k, n)
    PROVE  Given(k) \in Nat /\ Given(k)' \in Nat /\ Given(k)' >= Given(k)
<1> DEFINE g == granted[k][MaxCount]
<1>1. g \in Nat /\ g' \in Nat /\ g' >= g
  BY GivenType, GrantedGrows, TimeAssumption
<1>2. ASSUME Pending(k)
      PROVE  Pending(k)' \/ g' = g + 1
  <2>1. PICK c \in Conns : Found(c, k)
    BY <1>2 DEF Pending, Found
  <2>2. CASE Expire(c)
    <3>1. req[c].key = k /\ granted' = Granted(req[c])
      BY <2>1, <2>2, ExpireFacts DEF Found
    <3>2. Limit(req[c].tier, k[2]) <= MaxCount
      BY <2>1, LeastLimit DEF Found
    <3>3. g' = g + (IF k = req[c].key /\ Limit(req[c].tier, k[2]) <= MaxCount THEN 1 ELSE 0)
      BY <3>1, GrantedAt, TimeAssumption
    <3> QED  BY <3>1, <3>2, <3>3
  <2>3. CASE ~Expire(c)
    <3>1. Found(c, k)'
      BY <2>1, <2>3, FoundStays
    <3> QED  BY <3>1 DEF Pending, Found, Keys, Users
  <2> QED  BY <2>2, <2>3
<1>3. CASE ~Pending(k)
  <2>1. Given(k) = g
    BY <1>1, <1>3 DEF Given
  <2>2. Given(k)' = g' \/ Given(k)' = g' + 1
    BY <1>1 DEF Given
  <2> HIDE DEF g
  <2> QED  BY <1>1, <2>1, <2>2
<1>4. CASE Pending(k)
  <2>1. Given(k) = g + 1
    BY <1>4 DEF Given
  <2>2. CASE Pending(k)'
    <3>1. Given(k)' = g' + 1
      BY <2>2 DEF Given
    <3> QED  BY <1>1, <2>1, <3>1
  <2>3. CASE g' = g + 1
    <3>1. Given(k)' = g' \/ Given(k)' = g' + 1
      BY <1>1 DEF Given
    <3> HIDE DEF g
    <3> QED  BY <1>1, <2>1, <2>3, <3>1
  <2> QED  BY <1>2, <1>4, <2>2, <2>3
<1> QED  BY <1>3, <1>4

LEMMA NextGiven ==
    ASSUME Inv, Types', [Next]_vars, CountedGiven
    PROVE  CountedGiven'
<1>t. Types /\ FoundOnce /\ Dates
  BY DEF Inv
<1> SUFFICES ASSUME faults' = 0, NEW k \in Keys, NEW n \in Nat, Least(k, n), Today' <= k[3]
             PROVE  counter'[k] <= Given(k)' \/ n <= Given(k)'
  BY DEF CountedGiven, Least, Limit, Keys, Users
<1>1. Given(k) \in Nat /\ Given(k)' \in Nat /\ Given(k)' >= Given(k)
  BY <1>t, GivenGrows
<1>2. /\ counter[k] \in Nat /\ counter'[k] \in Nat /\ counter'[k] >= counter[k]
      /\ Today <= k[3]
  BY CounterGrows
<1>3. counter[k] <= Given(k) \/ n <= Given(k)
  BY <1>t, <1>2, NextFaults DEF CountedGiven
<1>4. CASE counter'[k] <= counter[k]
  BY <1>1, <1>2, <1>3, <1>4
<1>5. CASE n <= Given(k)
  BY <1>1, <1>5
<1>6. ASSUME NEW c \in Conns, Incr(c), counter'[k] > counter[k], counter[k] <= Given(k)
      PROVE  counter'[k] <= Given(k)' \/ n <= Given(k)'
  <2>1. PICK v \in Records :
            /\ req' = [req EXCEPT ![c] = v] /\ v.key = req[c].key /\ v.tier = req[c].tier
            /\ v.onTime = (Today = v.key[3]) /\ v.current = counter[v.key] + 1
            /\ v.key \in Keys
            /\ \/ v.pc = "expire" /\ v.current = 1 /\ granted' = granted
               \/ /\ v.pc = Answer(v) /\ v.pc \in {"granted", "refused"}
                  /\ v.current # 1
                  /\ granted' = IF v.pc = "granted" /\ v.onTime THEN Granted(v) ELSE granted
    BY <1>t, <1>6, IncrFacts
  <2>2. counter' = [counter EXCEPT ![v.key] = counter[v.key] + 1]
    BY <1>t, <1>6, <2>1, IncrFacts
  <2>3. v.key = k /\ counter'[k] = counter[k] + 1 /\ v.current = counter[k] + 1
    BY <1>t, <1>2, <1>6, <2>1, <2>2 DEF Types, TypeOK
  <2>4. v.onTime
    <3>1. k[3] <= Today
      BY <1>6, <2>1, <2>3, <1>t DEF Dates, Incr
    <3>2. Today = k[3]
      <4>1. Today \in Nat /\ k[3] \in Nat
        BY <1>t, TodayGrows, TimeAssumption DEF Keys
      <4> QED  BY <1>2, <3>1, <4>1
    <3> QED  BY <2>1, <2>3, <3>2, Zenon
  <2>5. n <= Limit(v.tier, k[2]) /\ Limit(v.tier, k[2]) <= MaxCount
    BY <1>t, <1>6, <2>1, <2>3, LeastLimit DEF Incr
  <2>6. granted[k][MaxCount] \in Nat
    BY <1>t, GivenType
  <2>7. CASE v.pc = "expire" /\ v.current = 1 /\ granted' = granted
    <3>1. Pending(k)'
      <4>1. Found(c, k)'
        BY <1>t, <2>1, <2>3, <2>4, <2>7 DEF Found, Keys, Users, Types, TypeOK
      <4> QED  BY <4>1 DEF Pending, Found, Keys, Users
    <3>2. Given(k)' = granted[k][MaxCount] + 1
      BY <2>7, <3>1 DEF Given
    <3> QED  BY <2>3, <2>6, <2>7, <3>2
  <2>8. CASE v.pc = "granted" /\ granted' = Granted(v)
    <3>1. granted'[k][MaxCount] = granted[k][MaxCount] +
              (IF k = v.key /\ Limit(v.tier, k[2]) <= MaxCount THEN 1 ELSE 0)
      BY <1>t, <2>1, <2>8, GrantedAt, TimeAssumption
    <3>2. granted'[k][MaxCount] = granted[k][MaxCount] + 1
      BY <2>3, <2>5, <3>1
    <3>3. Pending(k) => Pending(k)'
      <4>1. ASSUME NEW d \in Conns, Found(d, k)
            PROVE  Found(d, k)'
        <5>1. ~Expire(d)
          <6>1. d # c
            BY <1>6, <4>1 DEF Incr, Found
          <6>2. req'[d] = req[d] /\ req[d].pc = "expire"
            BY <1>t, <2>1, <4>1, <6>1 DEF Found, Types, TypeOK
          <6>3. Expire(d) => req'[d].pc = "granted"
            <7>1. Expire(d) => \E w \in Records : req' = [req EXCEPT ![d] = w] /\ w.pc = "granted"
              BY <1>t, ExpireFacts
            <7> QED  BY <1>t, <7>1 DEF Types, TypeOK
          <6> QED  BY <6>2, <6>3
        <5> QED  BY <1>t, <4>1, <5>1, FoundStays
      <4> QED  BY <4>1 DEF Pending, Found, Keys, Users
    <3>4. CASE Pending(k)
      <4>1. Given(k) = granted[k][MaxCount] + 1 /\ Given(k)' = granted'[k][MaxCount] + 1
        BY <3>3, <3>4 DEF Given
      <4> QED  BY <1>2, <1>6, <2>3, <2>6, <3>2, <4>1
    <3>5. CASE ~Pending(k)
      <4>1. Given(k) = granted[k][MaxCount]
        BY <2>6, <3>5 DEF Given
      <4>2. Given(k)' \in {granted'[k][MaxCount], granted'[k][MaxCount] + 1}
        BY <2>6, <3>2 DEF Given
      <4> QED  BY <1>2, <1>6, <2>3, <2>6, <3>2, <4>1, <4>2
    <3> QED  BY <3>4, <3>5
  <2>9. CASE v.pc = Answer(v) /\ v.pc = "refused"
    <3>1. counter[k] + 1 > Limit(v.tier, k[2])
      <4>1. v.current > Limit(v.tier, v.key[2])
        BY <2>9 DEF Answer
      <4> QED  BY <2>3, <4>1
    <3>2. n <= counter[k]
      BY <1>2, <2>5, <3>1, LimitType
    <3> QED  BY <1>1, <1>2, <1>6, <3>2
  <2> QED  BY <2>1, <2>4, <2>7, <2>8, <2>9
<1>7. CASE \A c \in Conns : ~Incr(c)
  <2>1. ASSUME NEW l \in Keys, KeyExpires(l) PROVE counter'[k] <= counter[k]
    BY <1>2, <1>t, <2>1 DEF KeyExpires, Types, TypeOK
  <2>2. ASSUME counter' = counter PROVE counter'[k] <= counter[k]
    BY <1>2, <2>2
  <2>3. counter'[k] <= counter[k]
    BY <1>t, <1>7, <2>1, <2>2, NextFaults DEF Next, Step, Check, Expire, Answered, Tick, vars
  <2> QED  BY <1>4, <2>3
<1> QED  BY <1>2, <1>3, <1>4, <1>5, <1>6, <1>7

\* A request refused on its date was refused before, or has just counted
\* beyond its limit.
LEMMA RefusedStep ==
    ASSUME Types, Types', [Next]_vars, faults' = 0, NEW c \in Conns,
           req'[c].pc = "refused", req'[c].onTime
    PROVE  \/ req'[c] = req[c]
           \/ /\ Incr(c) /\ req'[c].key = req[c].key /\ req'[c].tier = req[c].tier
              /\ req[c].key \in Keys /\ Today = req[c].key[3]
              /\ counter[req[c].key] + 1 > Limit(req[c].tier, req[c].key[2])
<1>o. ASSUME NEW d \in Conns, NEW v \in Records, req' = [req EXCEPT ![d] = v],
             ~(v.pc = "refused" /\ v.onTime)
      PROVE  req'[c] = req[c]
  <2>1. req'[c] = IF c = d THEN v ELSE req[c]
    BY <1>o DEF Types, TypeOK
  <2> QED  BY <1>o, <2>1
<1>1. ASSUME NEW d \in Conns, NEW a \in Accounts, NEW f \in Features,
             Check(d, a[1], a[2], f)
      PROVE  req'[c] = req[c]
  <2>1. PICK v \in Records : req' = [req EXCEPT ![d] = v] /\ ~v.onTime
    BY <1>1, CheckFacts
  <2> QED  BY <1>o, <2>1
<1>2. ASSUME NEW d \in Conns, Incr(d)
      PROVE  \/ req'[c] = req[c]
             \/ /\ Incr(c) /\ req'[c].key = req[c].key /\ req'[c].tier = req[c].tier
                /\ req[c].key \in Keys /\ Today = req[c].key[3]
                /\ counter[req[c].key] + 1 > Limit(req[c].tier, req[c].key[2])
  <2>1. PICK v \in Records :
            /\ req' = [req EXCEPT ![d] = v] /\ v.key = req[d].key /\ v.tier = req[d].tier
            /\ v.onTime = (Today = v.key[3]) /\ v.current = counter[v.key] + 1
            /\ v.key \in Keys
            /\ v.pc = "expire" \/ v.pc = Answer(v)
    BY <1>2, IncrFacts
  <2>2. req'[c] = IF c = d THEN v ELSE req[c]
    BY <2>1 DEF Types, TypeOK
  <2>3. CASE c = d
    <3>1. v.pc = "refused" /\ v.onTime /\ req'[c] = v
      BY <2>2, <2>3
    <3>2. Today = v.key[3]
      BY <2>1, <3>1, Zenon
    <3>3. v.current > Limit(v.tier, v.key[2])
      BY <2>1, <3>1 DEF Answer
    <3> QED  BY <1>2, <2>1, <2>3, <3>1, <3>2, <3>3
  <2> QED  BY <2>2, <2>3
<1>3. ASSUME NEW d \in Conns, Expire(d)
      PROVE  req'[c] = req[c]
  <2>1. PICK v \in Records : req' = [req EXCEPT ![d] = v] /\ v.pc = "granted"
    BY <1>3, ExpireFacts
  <2> QED  BY <1>o, <2>1
<1>4. ASSUME NEW d \in Conns, Answered(d)
      PROVE  req'[c] = req[c]
  <2>1. req' = [req EXCEPT ![d] = IdleReq] /\ IdleReq.pc # "refused"
    BY <1>4 DEF Answered, IdleReq
  <2> QED  BY <1>o, <2>1, IdleType
<1>5. CASE (\E l \in Keys : KeyExpires(l)) \/ Tick \/ UNCHANGED vars
  BY <1>5 DEF KeyExpires, Tick, vars
<1> QED  BY <1>1, <1>2, <1>3, <1>4, <1>5, NextFaults DEF Next, Step

LEMMA NextRefused ==
    ASSUME Inv, Types', [Next]_vars, CountedGiven, RefusedGiven
    PROVE  RefusedGiven'
<1>t. Types
  BY DEF Inv
<1> SUFFICES ASSUME faults' = 0, NEW c \in Conns, NEW k \in Keys, NEW n \in Nat,
                    req'[c].pc = "refused", req'[c].onTime, req'[c].key = k,
                    n = Limit(req'[c].tier, k[2]), Least(k, n)
             PROVE  n <= Given(k)'
  BY DEF RefusedGiven, Least, Limit, Keys, Users
<1>1. Given(k) \in Nat /\ Given(k)' \in Nat /\ Given(k)' >= Given(k)
  BY <1>t, GivenGrows
<1>2. faults = 0
  BY <1>t, NextFaults
<1>3. CASE req'[c] = req[c]
  <2>1. n <= Given(k)
    BY <1>2, <1>3 DEF RefusedGiven
  <2> QED  BY <1>1, <2>1
<1>4. CASE /\ Incr(c) /\ req[c].key = k /\ req'[c].tier = req[c].tier /\ Today = k[3]
           /\ counter[k] + 1 > Limit(req[c].tier, k[2])
  <2>1. counter[k] \in Nat /\ k[3] \in Nat
    BY <1>t, TimeAssumption DEF Types, TypeOK, Keys
  <2>2. counter[k] <= Given(k) \/ n <= Given(k)
    BY <1>2, <1>4, <2>1 DEF CountedGiven
  <2>3. n <= counter[k]
    BY <1>4, <2>1
  <2> QED  BY <1>1, <2>1, <2>2, <2>3
<1> QED  BY <1>t, <1>3, <1>4, RefusedStep

\* While no command fails, a request of a user's lowest tier is refused only
\* when as many as its limit were granted or are about to be.
THEOREM RefusedAtLimit == Spec => []RefusedOnlyAtLimit
<1>1. Init => CountedGiven /\ RefusedGiven
  <2> SUFFICES ASSUME Init PROVE CountedGiven /\ RefusedGiven
    OBVIOUS
  <2>1. \A k \in Keys : counter[k] = 0 /\ Given(k) \in Nat
    BY InitInv, GivenType DEF Inv, Init
  <2>2. \A c \in Conns : req[c].pc = "idle"
    BY DEF Init, IdleReq
  <2> QED  BY <2>1, <2>2 DEF CountedGiven, RefusedGiven
<1>2. Inv /\ Inv' /\ CountedGiven /\ RefusedGiven /\ [Next]_vars => (CountedGiven /\ RefusedGiven)'
  BY NextGiven, NextRefused DEF Inv
<1>3. Inv /\ RefusedGiven => RefusedOnlyAtLimit
  <2> SUFFICES ASSUME Inv, RefusedGiven, faults = 0, NEW c \in Conns,
                      req[c].pc = "refused", req[c].onTime,
                      \A a \in Accounts : Limit(a[2], req[c].key[2])
                          \in {-1} \cup (Limit(req[c].tier, req[c].key[2])..MaxCount)
               PROVE  Given(req[c].key) >= Limit(req[c].tier, req[c].key[2])
    BY DEF RefusedOnlyAtLimit, Given
  <2> DEFINE k == req[c].key
             n == Limit(req[c].tier, k[2])
  <2>1. k \in Keys
    BY RequestType DEF Inv, RequestOK
  <2>2. Given(k) \in Nat /\ n \in Nat \cup {-1}
    BY <2>1, GivenType, LimitType DEF Inv
  <2>3. CASE n \in Nat
    <3>1. Least(k, n)
      BY DEF Least
    <3>2. n <= Given(k)
      BY <2>1, <2>3, <3>1 DEF RefusedGiven
    <3> QED  BY <2>2, <3>2
  <2>4. CASE n = -1
    BY <2>2, <2>4
  <2> QED  BY <2>2, <2>3, <2>4
<1> QED  BY <1>1, <1>2, <1>3, SpecInv, PTL DEF Spec

=============================================================================
