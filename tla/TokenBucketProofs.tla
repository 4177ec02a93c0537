------------------------- MODULE TokenBucketProofs -------------------------
(***************************************************************************)
(* Theorems about TokenBucket, for any rate, burst, cost, delay and number *)
(* of requests: what the scripts grant and reject in every order in which  *)
(* they may run.                                                           *)
(***************************************************************************)
EXTENDS TokenBucket, TLAPS

\* The timestamps a script may still have, and those that are not late.
Nows == {clock} \cup {stamp[r] : r \in {q \in Requests : stamp[q] # NotSent}}
Prompt == {now \in Nows : ~Late(now)}

\* Counts of granted scripts grow with the timestamp.
Growing == \A t \in Times : t > 0 => total[t - 1] <= total[t]

\* No script waits for longer than MaxDelay, and a key lives for Expiry.
Lives ==
    /\ \A now \in Nows : now <= clock /\ clock - now <= MaxDelay
    /\ updated_at # NotSent => updated_at <= clock /\ updated_at + Expiry <= expireAt

Base == TypeOK /\ Growing /\ Lives

\* No script was granted with a later timestamp than one that is not late.
NoneAfter == \A now \in Prompt, t \in Times : t >= now => total[t] = total[now]

\* A script that runs with timestamp now finds at most what the rate leaves of
\* every interval, and it finds all of that of some interval.
AtMost(now) ==
    \A a \in Times :
        a <= now => Cost * GrantedIn(a, now) + Refill(now) <= Burst + Rate * (now - a)
AtLeast(now) ==
    \E a \in Times :
        a <= now /\ Cost * GrantedIn(a, now) + Refill(now) >= Burst + Rate * (now - a)

Level == \A now \in Prompt : AtMost(now) /\ AtLeast(now)

\* What holds until the first late script is granted.
OrderInv == InOrder => NoneAfter /\ Level /\ WithinRate

\* The time up to which the rate has been paid out when a script runs.
Top(now) == IF Late(now) THEN updated_at ELSE now

\* The delays that the scripts granted since a may have been paid for twice.
Delays(a) == MaxDelay * (lateSince[a] + 1)

\* What was granted since a and what the next script finds.
Bounded(a, now) ==
    Cost * since[a] + Refill(now) <= Burst + Rate * ((Top(now) - a) + Delays(a))

DelayInv ==
    \A a \in Times :
        since[a] > 0 => a <= clock /\ \A now \in Nows : Bounded(a, now)

-----------------------------------------------------------------------------
(* Types *)

LEMMA RefillType ==
    ASSUME TypeOK, NEW now \in Times
    PROVE  Refill(now) \in 0..Burst
<1>1. CASE updated_at = NotSent
  BY <1>1, AmountAssumption DEF Refill
<1>2. CASE updated_at \in Times /\ now > updated_at
  <2>1. now - updated_at \in Nat /\ updated_at # NotSent
    BY <1>2, TimeAssumption DEF Times
  <2>2. (now - updated_at) * Rate \in Nat
    BY <2>1, AmountAssumption
  <2>3. tokens \in 0..Burst
    BY DEF TypeOK
  <2> DEFINE d == (now - updated_at) * Rate
  <2> HIDE DEF d
  <2>4. Refill(now) = IF Burst <= tokens + d THEN Burst ELSE tokens + d
    BY <1>2, <2>1 DEF Refill, Smaller, d
  <2> QED  BY <2>2, <2>3, <2>4, AmountAssumption DEF d
<1>3. CASE updated_at # NotSent /\ ~(now > updated_at)
  BY <1>3, AmountAssumption DEF Refill, Smaller, TypeOK
<1> QED  BY <1>1, <1>2, <1>3 DEF TypeOK

LEMMA NextType == TypeOK /\ [Next]_vars => TypeOK'
<1> SUFFICES ASSUME TypeOK, [Next]_vars PROVE TypeOK'
  OBVIOUS
<1>1. ASSUME NEW r \in Requests, Send(r)
      PROVE  TypeOK'
  BY <1>1 DEF Send, history, TypeOK
<1>2. ASSUME NEW r \in Requests, RunScript(r)
      PROVE  TypeOK'
  <2>1. stamp[r] \in Times /\ stamp' \in [Requests -> Times \cup {NotSent}]
    BY <1>2 DEF RunScript, TypeOK
  <2>2. CASE Grant(stamp[r])
    <3>1. Refill(stamp[r]) \in 0..Burst /\ Refill(stamp[r]) >= Cost
      BY <2>1, <2>2, RefillType DEF Grant
    <3>2. tokens' \in 0..Burst
      BY <2>2, <3>1, AmountAssumption DEF Grant
    <3>3. /\ total' \in [Times -> Nat] /\ since' \in [Times -> Nat]
          /\ lateSince' \in [Times -> Nat]
      BY <2>2 DEF Grant, Count, TypeOK
    <3>4. expireAt' \in Nat /\ clock' = clock
      BY <1>2, <2>2, ExpiryAssumption, TimeAssumption DEF Grant, RunScript, TypeOK, Times
    <3> QED  BY <2>1, <2>2, <3>2, <3>3, <3>4 DEF Grant, TypeOK
  <2>3. CASE Reject(stamp[r])
    BY <1>2, <2>1, <2>3 DEF Reject, RunScript, history, TypeOK
  <2> QED  BY <1>2, <2>2, <2>3 DEF RunScript
<1>3. ASSUME NEW r \in Requests, SendFails(r)
      PROVE  TypeOK'
  BY <1>3 DEF SendFails, history, TypeOK
<1>4. CASE Expire
  BY <1>4 DEF Expire, history, TypeOK
<1>5. CASE Tick
  BY <1>5, TimeAssumption DEF Tick, history, TypeOK, Times
<1>6. CASE UNCHANGED vars
  BY <1>6 DEF vars, history, TypeOK
<1> QED  BY <1>1, <1>2, <1>3, <1>4, <1>5, <1>6 DEF Next

LEMMA InitType == Init => TypeOK
  BY AmountAssumption, TimeAssumption DEF Init, TypeOK, Times

\* The bucket holds between no unit and Burst units, in every order of runs.
THEOREM BucketTyped == Spec => []TypeOK
  BY InitType, NextType, PTL DEF Spec

-----------------------------------------------------------------------------
(* Timestamps *)

LEMMA NowsType ==
    ASSUME TypeOK
    PROVE  /\ clock \in Nows /\ Nows \subseteq Times
           /\ \A r \in Requests : stamp[r] # NotSent => stamp[r] \in Nows
  BY DEF TypeOK, Nows

\* The timestamps scripts may still have are those of before, or the new time.
LEMMA NowsSteps ==
    ASSUME TypeOK, [Next]_vars
    PROVE  \/ clock' = clock /\ Nows' \subseteq Nows
           \/ Tick /\ Nows' \subseteq Nows \cup {clock'}
<1>1. ASSUME NEW r \in Requests, Send(r)
      PROVE  clock' = clock /\ Nows' \subseteq Nows
  <2>1. /\ clock' = clock
        /\ \A q \in Requests : stamp'[q] = stamp[q] \/ stamp'[q] = clock
    BY <1>1 DEF Send, TypeOK
  <2> QED  BY <2>1 DEF Nows
<1>2. ASSUME NEW r \in Requests, RunScript(r) \/ SendFails(r)
      PROVE  clock' = clock /\ Nows' \subseteq Nows
  <2>1. /\ clock' = clock
        /\ \A q \in Requests : stamp'[q] = stamp[q] \/ stamp'[q] = NotSent
    BY <1>2 DEF RunScript, SendFails, TypeOK
  <2> QED  BY <2>1 DEF Nows
<1>3. CASE Tick
  BY <1>3 DEF Tick, Nows
<1>4. CASE Expire \/ UNCHANGED vars
  BY <1>4 DEF Expire, vars, Nows
<1> QED  BY <1>1, <1>2, <1>3, <1>4 DEF Next

-----------------------------------------------------------------------------
(* Order *)

\* Once a late script was granted, the order stays lost.
LEMMA OrderStays ==
    ASSUME TypeOK, [Next]_vars, InOrder'
    PROVE  /\ InOrder
           /\ \A r \in Requests : RunScript(r) /\ Grant(stamp[r]) => ~Late(stamp[r])
<1>1. 0 \in Times /\ lateSince[0] \in Nat /\ clock >= 0
  BY TimeAssumption DEF TypeOK, Times
<1>2. ASSUME NEW r \in Requests, RunScript(r), Grant(stamp[r])
      PROVE  InOrder /\ ~Late(stamp[r])
  <2>1. lateSince'[0] = lateSince[0] + IF Late(stamp[r]) THEN 1 ELSE 0
    BY <1>1, <1>2 DEF Grant, Count
  <2> QED  BY <1>1, <2>1 DEF InOrder
<1>3. ASSUME NEW r \in Requests, RunScript(r), Reject(stamp[r])
      PROVE  InOrder
  BY <1>3 DEF Reject, history, InOrder
<1>4. ASSUME NEW r \in Requests, Send(r) \/ SendFails(r)
      PROVE  InOrder
  BY <1>4 DEF Send, SendFails, history, InOrder
<1>5. ASSUME Expire \/ Tick \/ UNCHANGED vars
      PROVE  InOrder
  BY <1>5 DEF Expire, Tick, vars, history, InOrder
<1>6. InOrder
  <2>1. ASSUME NEW r \in Requests, RunScript(r)
        PROVE  Grant(stamp[r]) \/ Reject(stamp[r])
    BY <2>1 DEF RunScript
  <2>2. ASSUME NEW r \in Requests, RunScript(r)
        PROVE  InOrder
    BY <1>2, <1>3, <2>1, <2>2
  <2> QED  BY <1>4, <1>5, <2>2 DEF Next
<1> QED  BY <1>2, <1>6

\* An expired key would be full again for every script that may still run.
LEMMA ExpireFull ==
    ASSUME Base, Expire, NEW now \in Nows
    PROVE  Refill(now) = Burst /\ ~Late(now)
<1> DEFINE u == updated_at
<1>1. updated_at # NotSent /\ clock >= expireAt
  BY DEF Expire
<1>2. /\ now \in Nat /\ u \in Nat /\ clock \in Nat /\ expireAt \in Nat
      /\ tokens \in Nat /\ tokens <= Burst
  BY <1>1, NowsType, TimeAssumption, AmountAssumption DEF Base, TypeOK, Times
<1>3. now <= clock /\ clock - now <= MaxDelay /\ u + Expiry <= expireAt
  BY <1>1 DEF Base, Lives
<1>4. Burst <= Rate * (Expiry - MaxDelay) /\ MaxDelay \in Nat /\ Expiry \in Nat
      /\ MaxDelay <= Expiry
  BY ExpiryAssumption
<1>5. Rate \in Nat \ {0} /\ Burst \in Nat
  BY AmountAssumption
<1>6. now - u >= Expiry - MaxDelay /\ u <= now
  BY <1>1, <1>2, <1>3, <1>4
<1> HIDE DEF u
<1>7. Rate * (Expiry - MaxDelay) <= (now - u) * Rate
  <2> DEFINE x == Expiry - MaxDelay
             y == now - u
  <2>1. x \in Nat /\ y \in Nat /\ x <= y
    BY <1>2, <1>4, <1>6
  <2> HIDE DEF x, y
  <2>2. PICK z \in Nat : y = x + z
    <3>1. y - x \in Nat /\ y = x + (y - x)
      BY <2>1
    <3> QED  BY <3>1
  <2>3. y * Rate = Rate * x + Rate * z /\ Rate * z \in Nat /\ Rate * x \in Nat
    BY <1>5, <2>1, <2>2
  <2> QED  BY <2>3 DEF x, y
<1> DEFINE d == (now - u) * Rate
<1>8. d \in Int /\ Burst <= d
  BY <1>2, <1>4, <1>5, <1>7
<1>9. now > u => Refill(now) = IF Burst <= tokens + d THEN Burst ELSE tokens + d
  BY <1>1 DEF Refill, Smaller, u
<1>10. ~(now > u) => d <= 0 /\ Refill(now) = IF Burst <= tokens THEN Burst ELSE tokens
  <2>1. ~(now > u) => now - u = 0
    BY <1>2, <1>6
  <2>2. 0 * Rate = 0
    BY <1>5
  <2> QED  BY <1>1, <2>1, <2>2 DEF Refill, Smaller, u
<1>11. ~Late(now)
  BY <1>2, <1>6 DEF Late, u
<1> HIDE DEF d
<1> QED  BY <1>2, <1>5, <1>8, <1>9, <1>10, <1>11

-----------------------------------------------------------------------------
(* The counts grow, and nothing lives longer than it should *)

LEMMA GrowingNext == ASSUME TypeOK, Growing, [Next]_vars  PROVE Growing'
<1>1. CASE total' = total
  BY <1>1 DEF Growing
<1>2. ASSUME NEW r \in Requests, RunScript(r), Grant(stamp[r])
      PROVE  Growing'
  <2>1. PICK n \in Times : n = stamp[r]
    BY <1>2 DEF TypeOK, RunScript
  <2>2. total' = [t \in Times |-> total[t] + IF t >= n THEN 1 ELSE 0]
    BY <1>2, <2>1 DEF Grant, Count
  <2>3. ASSUME NEW t \in Times, t > 0
        PROVE  total'[t - 1] <= total'[t]
    <3>1. t - 1 \in Times /\ total[t - 1] <= total[t] /\ total[t - 1] \in Nat
          /\ total[t] \in Nat /\ t \in Nat /\ n \in Nat
      BY <2>3, TimeAssumption DEF Times, TypeOK, Growing
    <3> QED  BY <2>2, <2>3, <3>1
  <2> QED  BY <2>3 DEF Growing
<1>3. \/ total' = total
      \/ \E r \in Requests : RunScript(r) /\ Grant(stamp[r])
  BY DEF Next, RunScript, Reject, Send, SendFails, Expire, Tick, vars, history
<1> QED  BY <1>1, <1>2, <1>3

LEMMA LivesNext == ASSUME TypeOK, Lives, [Next]_vars  PROVE Lives'
<1>1. /\ Nows \subseteq Times /\ Times \subseteq Nat
      /\ clock \in Nows /\ clock \in Nat /\ MaxDelay \in Nat /\ Expiry \in Nat
  BY NowsType, TimeAssumption, ExpiryAssumption DEF TypeOK, Times
<1>2. CASE Tick
  <2>1. /\ clock' = clock + 1
        /\ \A r \in Requests : stamp[r] # NotSent => clock - stamp[r] < MaxDelay
        /\ UNCHANGED <<updated_at, expireAt, stamp>>
    BY <1>2 DEF Tick
  <2>2. ASSUME NEW now \in Nows'
        PROVE  now <= clock' /\ clock' - now <= MaxDelay
    <3>1. CASE now = clock + 1
      BY <1>1, <2>1, <3>1
    <3>2. CASE \E r \in Requests : stamp[r] # NotSent /\ now = stamp[r]
      <4>1. now \in Nat /\ now <= clock /\ clock - now < MaxDelay
        BY <1>1, <2>1, <3>2, NowsType DEF Lives
      <4> QED  BY <1>1, <2>1, <4>1
    <3> QED  BY <2>1, <3>1, <3>2 DEF Nows
  <2>3. updated_at # NotSent => updated_at <= clock + 1
    BY <1>1, TimeAssumption DEF Lives, TypeOK, Times
  <2>4. updated_at' # NotSent => updated_at' <= clock' /\ updated_at' + Expiry <= expireAt'
    BY <2>1, <2>3 DEF Lives
  <2> QED  BY <2>2, <2>4 DEF Lives
<1>3. CASE clock' = clock /\ Nows' \subseteq Nows
  <2>1. \A now \in Nows' : now <= clock' /\ clock' - now <= MaxDelay
    BY <1>3 DEF Lives
  <2>2. ASSUME NEW r \in Requests, RunScript(r), Grant(stamp[r])
        PROVE  Lives'
    <3>1. PICK n \in Nows : n = stamp[r]
      BY <2>2, NowsType DEF RunScript
    <3>2. updated_at' = n /\ expireAt' = clock + Expiry /\ n <= clock /\ n \in Nat
      BY <1>1, <2>2, <3>1 DEF Grant, Lives
    <3>3. updated_at' <= clock' /\ updated_at' + Expiry <= expireAt'
      BY <1>1, <1>3, <3>2
    <3> QED  BY <2>1, <3>3 DEF Lives
  <2>3. CASE updated_at' \in {updated_at, NotSent} /\ expireAt' = expireAt
    BY <1>3, <2>1, <2>3 DEF Lives
  <2>4. \/ updated_at' \in {updated_at, NotSent} /\ expireAt' = expireAt
        \/ \E r \in Requests : RunScript(r) /\ Grant(stamp[r])
        \/ Tick
    BY DEF Next, RunScript, Reject, Send, SendFails, Expire, vars
  <2> QED  BY <1>2, <2>2, <2>3, <2>4
<1> QED  BY <1>2, <1>3, NowsSteps

LEMMA BaseNext == Base /\ [Next]_vars => Base'
  BY NextType, GrowingNext, LivesNext DEF Base

-----------------------------------------------------------------------------
(* Scripts that are granted in the order in which they were sent *)

\* Steps that write nothing to the bucket and send no later script.
LEMMA SameOrder ==
    ASSUME OrderInv, clock' = clock, Nows' \subseteq Nows,
           UNCHANGED <<tokens, updated_at, total, lateSince>>
    PROVE  OrderInv'
<1>1. \A t : Refill(t)' = Refill(t) /\ Late(t)' = Late(t)
  BY DEF Refill, Late
<1>2. \A a, b : GrantedIn(a, b)' = GrantedIn(a, b)
  BY DEF GrantedIn, GrantedBefore
<1>3. Prompt' \subseteq Prompt
  BY <1>1 DEF Prompt
<1>4. InOrder' = InOrder
  BY DEF InOrder
<1>5. NoneAfter => NoneAfter'
  BY <1>3 DEF NoneAfter
<1>6. Level => Level'
  BY <1>1, <1>2, <1>3 DEF Level, AtMost, AtLeast
<1>7. WithinRate => WithinRate'
  BY <1>2 DEF WithinRate
<1> QED  BY <1>4, <1>5, <1>6, <1>7 DEF OrderInv

LEMMA ExpireOrder == ASSUME Base, OrderInv, Expire  PROVE OrderInv'
<1>1. updated_at' = NotSent /\ UNCHANGED <<clock, tokens, expireAt, stamp, history>>
  BY DEF Expire
<1>2. Nows' = Nows
  BY <1>1 DEF Nows
<1>3. Prompt = Nows /\ Prompt' = Nows
  BY <1>1, <1>2, ExpireFull DEF Prompt, Late
<1>4. \A now \in Nows : Refill(now)' = Refill(now)
  BY <1>1, ExpireFull DEF Refill
<1>5. \A a, b : GrantedIn(a, b)' = GrantedIn(a, b)
  BY <1>1 DEF GrantedIn, GrantedBefore, history
<1>6. InOrder' = InOrder
  BY <1>1 DEF InOrder, history
<1>7. NoneAfter => NoneAfter'
  BY <1>1, <1>3 DEF NoneAfter, history
<1>8. Level => Level'
  BY <1>3, <1>4, <1>5 DEF Level, AtMost, AtLeast
<1>9. WithinRate => WithinRate'
  BY <1>5 DEF WithinRate
<1> QED  BY <1>6, <1>7, <1>8, <1>9 DEF OrderInv

\* A tick adds Rate units, or fills the bucket.
LEMMA RefillTick ==
    ASSUME TypeOK, updated_at # NotSent => updated_at <= clock, clock + 1 \in Times
    PROVE  /\ Refill(clock) \in 0..Burst /\ Refill(clock + 1) \in 0..Burst
           /\ Refill(clock + 1) <= Refill(clock) + Rate
           /\ Refill(clock + 1) = Burst \/ Refill(clock + 1) = Refill(clock) + Rate
<1>1. /\ clock \in Times /\ clock \in Nat /\ Rate \in Nat \ {0} /\ Burst \in Nat
      /\ tokens \in Nat /\ tokens <= Burst
  BY AmountAssumption, TimeAssumption DEF TypeOK, Times
<1>2. Refill(clock) \in 0..Burst /\ Refill(clock + 1) \in 0..Burst
  BY <1>1, RefillType
<1>3. CASE updated_at = NotSent
  BY <1>1, <1>2, <1>3 DEF Refill
<1>4. CASE updated_at # NotSent
  <2> DEFINE d == (clock - updated_at) * Rate
  <2>1. updated_at \in Nat /\ updated_at <= clock
    BY <1>4, TimeAssumption DEF TypeOK, Times
  <2>2. d \in Nat /\ ((clock + 1) - updated_at) * Rate = d + Rate
    <3> DEFINE x == clock - updated_at
    <3>1. x \in Nat /\ (clock + 1) - updated_at = x + 1
      BY <1>1, <2>1
    <3> HIDE DEF x
    <3>2. x * Rate \in Nat /\ (x + 1) * Rate = x * Rate + Rate
      BY <1>1, <3>1
    <3> QED  BY <3>1, <3>2 DEF x
  <2>3. Refill(clock + 1) = Smaller(Burst, tokens + (d + Rate))
    BY <1>1, <1>4, <2>1, <2>2 DEF Refill
  <2>4. Refill(clock) = Smaller(Burst, tokens + d)
    <3>1. CASE clock > updated_at
      BY <1>4, <3>1 DEF Refill
    <3>2. CASE clock = updated_at
      <4>1. clock - updated_at = 0
        BY <1>1, <3>2
      <4>2. d = 0 /\ tokens + 0 = tokens
        BY <1>1, <4>1
      <4>3. Refill(clock) = Smaller(Burst, tokens)
        BY <1>1, <1>4, <3>2 DEF Refill
      <4> QED  BY <4>2, <4>3
    <3> QED  BY <1>1, <2>1, <3>1, <3>2
  <2> HIDE DEF d
  <2> QED  BY <1>1, <1>2, <2>2, <2>3, <2>4 DEF Smaller
<1> QED  BY <1>3, <1>4

LEMMA TickOrder == ASSUME Base, TypeOK', OrderInv, Tick  PROVE OrderInv'
<1> SUFFICES ASSUME InOrder  PROVE NoneAfter' /\ Level' /\ WithinRate'
  BY DEF OrderInv, InOrder, Tick, history
<1>0. NoneAfter /\ Level /\ WithinRate
  BY DEF OrderInv
<1>1. /\ clock' = clock + 1
      /\ \A r \in Requests : stamp[r] # NotSent => clock - stamp[r] < MaxDelay
      /\ UNCHANGED <<tokens, updated_at, expireAt, stamp, total>>
  BY DEF Tick, history
<1>2. /\ clock \in Nows /\ Nows \subseteq Times /\ Times \subseteq Nat
      /\ clock + 1 \in Times /\ clock \in Times
      /\ \A t \in Times : total[t] \in Nat
  BY <1>1, NowsType DEF Base, TypeOK, Times
<1>3. Prompt' \subseteq Prompt \cup {clock + 1} /\ clock \in Prompt
  <2>1. Nows' \subseteq Nows \cup {clock + 1} /\ \A s : Late(s)' = Late(s)
    BY <1>1 DEF Nows, Late
  <2>2. ~Late(clock)
    BY <1>2, TimeAssumption DEF Late, Base, Lives, TypeOK, Times
  <2> QED  BY <1>2, <2>1, <2>2 DEF Prompt
<1>4. /\ Rate \in Nat /\ Cost \in Nat /\ Burst \in Nat
  BY AmountAssumption
<1>5. \A t : Refill(t)' = Refill(t)
  BY <1>1 DEF Refill
<1>6. \A a, b : GrantedIn(a, b)' = GrantedIn(a, b)
  BY <1>1 DEF GrantedIn, GrantedBefore
<1>7. \A t \in Times : t >= clock => total[t] = total[clock]
  BY <1>0, <1>3 DEF NoneAfter
<1>8. /\ GrantedIn(clock + 1, clock + 1) = 0
      /\ \A a \in Times : GrantedIn(a, clock + 1) = GrantedIn(a, clock)
  <2>1. total[clock + 1] = total[clock]
    BY <1>2, <1>7
  <2>2. clock + 1 # 0 /\ (clock + 1) - 1 = clock
    BY <1>2
  <2> QED  BY <1>2, <2>1, <2>2 DEF GrantedIn, GrantedBefore
<1>9. /\ Refill(clock) \in 0..Burst /\ Refill(clock + 1) \in 0..Burst
      /\ Refill(clock + 1) <= Refill(clock) + Rate
      /\ Refill(clock + 1) = Burst \/ Refill(clock + 1) = Refill(clock) + Rate
  BY <1>2, RefillTick DEF Base, Lives
<1>10. NoneAfter'
  <2>1. ASSUME NEW now \in Prompt', NEW t \in Times, t >= now
        PROVE  total[t] = total[now]
    <3>1. CASE now \in Prompt
      BY <1>0, <2>1, <3>1 DEF NoneAfter
    <3>2. CASE now = clock + 1
      <4>1. t >= clock /\ clock + 1 >= clock
        BY <1>2, <2>1, <3>2
      <4> QED  BY <1>2, <1>7, <3>2, <4>1
    <3> QED  BY <1>3, <3>1, <3>2
  <2> QED  BY <1>1, <2>1 DEF NoneAfter
<1>12. \A a \in Times : a <= clock =>
           /\ clock - a \in Nat /\ (clock + 1) - a = (clock - a) + 1
           /\ Rate * ((clock + 1) - a) = Rate * (clock - a) + Rate
           /\ Rate * (clock - a) \in Nat
           /\ Cost * GrantedIn(a, clock) \in Int
  <2> SUFFICES ASSUME NEW a \in Times, a <= clock
               PROVE  /\ clock - a \in Nat /\ (clock + 1) - a = (clock - a) + 1
                      /\ Rate * ((clock + 1) - a) = Rate * (clock - a) + Rate
                      /\ Rate * (clock - a) \in Nat
                      /\ Cost * GrantedIn(a, clock) \in Int
    OBVIOUS
  <2> DEFINE x == clock - a
             g == GrantedIn(a, clock)
  <2>1. x \in Nat /\ (clock + 1) - a = x + 1
    BY <1>2
  <2>2. g \in Int
    <3>1. a # 0 => a - 1 \in Times
      BY <1>2, TimeAssumption DEF Times
    <3> QED  BY <1>2, <3>1 DEF GrantedIn, GrantedBefore
  <2> HIDE DEF x, g
  <2>3. Rate * (x + 1) = Rate * x + Rate /\ Rate * x \in Nat /\ Cost * g \in Int
    BY <1>4, <2>1, <2>2
  <2> QED  BY <2>1, <2>3 DEF x, g
<1>13. AtMost(clock + 1)
  <2> SUFFICES ASSUME NEW a \in Times, a <= clock + 1
               PROVE  Cost * GrantedIn(a, clock + 1) + Refill(clock + 1)
                         <= Burst + Rate * ((clock + 1) - a)
    BY DEF AtMost
  <2>1. CASE a <= clock
    <3>1. Cost * GrantedIn(a, clock) + Refill(clock) <= Burst + Rate * (clock - a)
      BY <1>0, <1>3, <2>1 DEF Level, AtMost
    <3> QED  BY <1>4, <1>8, <1>9, <1>12, <2>1, <3>1
  <2>2. CASE a = clock + 1
    <3>1. Cost * 0 = 0 /\ Rate * ((clock + 1) - a) = 0
      <4>1. (clock + 1) - a = 0
        BY <1>2, <2>2
      <4> QED  BY <1>4, <4>1
    <3> QED  BY <1>4, <1>8, <1>9, <2>2, <3>1
  <2> QED  BY <1>2, <2>1, <2>2
<1>14. AtLeast(clock + 1)
  <2>1. CASE Refill(clock + 1) = Burst
    <3>1. Cost * 0 = 0 /\ Rate * ((clock + 1) - (clock + 1)) = 0
      <4>1. (clock + 1) - (clock + 1) = 0
        BY <1>2
      <4> QED  BY <1>4, <4>1
    <3>2. clock + 1 <= clock + 1
      BY <1>2
    <3>3. Cost * GrantedIn(clock + 1, clock + 1) + Refill(clock + 1)
             >= Burst + Rate * ((clock + 1) - (clock + 1))
      BY <1>4, <1>8, <2>1, <3>1
    <3> QED  BY <1>2, <3>2, <3>3 DEF AtLeast
  <2>2. CASE Refill(clock + 1) = Refill(clock) + Rate
    <3>1. PICK a \in Times :
             /\ a <= clock
             /\ Cost * GrantedIn(a, clock) + Refill(clock) >= Burst + Rate * (clock - a)
      BY <1>0, <1>3 DEF Level, AtLeast
    <3>2. Cost * GrantedIn(a, clock + 1) + Refill(clock + 1)
             >= Burst + Rate * ((clock + 1) - a)
      BY <1>4, <1>8, <1>9, <1>12, <2>2, <3>1
    <3>3. a <= clock + 1
      BY <1>2, <3>1
    <3> QED  BY <3>1, <3>2, <3>3 DEF AtLeast
  <2> QED  BY <1>9, <2>1, <2>2
<1>15. Level'
  <2>1. ASSUME NEW now \in Prompt'
        PROVE  AtMost(now) /\ AtLeast(now)
    <3>1. CASE now \in Prompt
      BY <1>0, <3>1 DEF Level
    <3>2. CASE now = clock + 1
      BY <1>13, <1>14, <3>2
    <3> QED  BY <1>3, <3>1, <3>2
  <2>2. ASSUME NEW now \in Prompt'
        PROVE  AtMost(now)' /\ AtLeast(now)'
    BY <1>5, <1>6, <2>1 DEF AtMost, AtLeast
  <2> QED  BY <2>2 DEF Level
<1>16. WithinRate'
  BY <1>0, <1>6 DEF WithinRate
<1> QED  BY <1>10, <1>15, <1>16

\* What the rate adds over two intervals that meet.
LEMMA RateAdds ==
    ASSUME NEW a \in Times, NEW n \in Times, NEW b \in Times, a <= n, n <= b
    PROVE  /\ Rate * (b - a) = Rate * (n - a) + Rate * (b - n)
           /\ Rate * (n - a) \in Nat /\ Rate * (b - n) \in Nat
<1> DEFINE x == n - a
           y == b - n
<1>1. x \in Nat /\ y \in Nat /\ b - a = x + y
  BY TimeAssumption DEF Times
<1> HIDE DEF x, y
<1>2. Rate * (x + y) = Rate * x + Rate * y /\ Rate * x \in Nat /\ Rate * y \in Nat
  BY <1>1, AmountAssumption
<1> QED  BY <1>1, <1>2 DEF x, y

\* A script that is not late takes one token out of what every later script
\* will find.
LEMMA GrantOrder ==
    ASSUME Base, Base', OrderInv, NEW r \in Requests,
           RunScript(r), Grant(stamp[r]), InOrder, ~Late(stamp[r])
    PROVE  NoneAfter' /\ Level' /\ WithinRate'
<1>0. NoneAfter /\ Level /\ WithinRate
  BY DEF OrderInv
<1>1. PICK n \in Times : n = stamp[r]
  BY DEF Base, TypeOK, RunScript
<1>2. /\ Refill(n) >= Cost /\ tokens' = Refill(n) - Cost
      /\ updated_at' = n /\ expireAt' = clock + Expiry /\ clock' = clock
      /\ total' = [t \in Times |-> total[t] + IF t >= n THEN 1 ELSE 0]
  BY <1>1 DEF Grant, Count, RunScript
<1>3. /\ n \in Prompt /\ n \in Nat /\ Times \subseteq Nat
  BY <1>1, NowsType, TimeAssumption DEF Base, Times, RunScript, Prompt
<1>4. Prompt' \subseteq Times /\ \A s \in Prompt' : n <= s
  <2>1. Nows' \subseteq Times
    BY DEF Base, TypeOK, Nows
  <2>2. n # NotSent
    BY <1>3, TimeAssumption
  <2>3. Prompt' \subseteq Nows' /\ \A s \in Prompt' : ~(s < n)
    BY <1>2, <2>2 DEF Prompt, Late
  <2> QED  BY <1>3, <2>1, <2>3
<1>6. Rate \in Nat /\ Cost \in Nat /\ Burst \in Nat
  BY AmountAssumption
<1>7. Refill(n) \in 0..Burst
  BY RefillType DEF Base
<1>8. \A t \in Times : /\ total[t] \in Nat
                       /\ t >= n => total'[t] = total[n] + 1
                       /\ t < n => total'[t] = total[t]
  <2>1. \A t \in Times : total[t] \in Nat /\ (t >= n => total[t] = total[n])
    BY <1>0, <1>3 DEF Base, TypeOK, NoneAfter
  <2> QED  BY <1>2, <1>3, <2>1
<1>9. ASSUME NEW a \in Times, NEW b \in Times, a <= b
      PROVE  /\ GrantedIn(a, b) \in Int
             /\ b < n => GrantedIn(a, b)' = GrantedIn(a, b)
             /\ a <= n /\ n <= b => GrantedIn(a, b)' = GrantedIn(a, n) + 1
             /\ n < a => GrantedIn(a, b)' = 0
  <2>1. a # 0 => a - 1 \in Times
    BY <1>3, TimeAssumption DEF Times
  <2> QED  BY <1>3, <1>8, <1>9, <2>1 DEF GrantedIn, GrantedBefore
<1>10. ASSUME NEW s \in Times, n <= s
       PROVE  LET left == (Refill(n) - Cost) + Rate * (s - n)
              IN  /\ Refill(s)' \in 0..Burst /\ Refill(s)' <= left
                  /\ Refill(s)' = Burst \/ Refill(s)' = left
  <2> DEFINE d == Rate * (s - n)
  <2>1. /\ d \in Nat /\ (s - n) * Rate = d /\ (s = n => d = 0)
    <3> DEFINE x == s - n
    <3>1. x \in Nat /\ (s = n => x = 0)
      BY <1>3, <1>10
    <3> HIDE DEF x
    <3> QED  BY <1>6, <3>1 DEF x
  <2>2. n # NotSent
    BY <1>3, TimeAssumption
  <2>3. Refill(s)' = IF s > n THEN Smaller(Burst, (Refill(n) - Cost) + d)
                              ELSE Smaller(Burst, Refill(n) - Cost)
    BY <1>2, <2>1, <2>2 DEF Refill
  <2> HIDE DEF d
  <2> DEFINE e == Refill(n)
  <2>4. e \in Int /\ Cost <= e /\ e <= Burst
    BY <1>2, <1>6, <1>7
  <2> HIDE DEF e
  <2>5. LET left == (e - Cost) + d
        IN  /\ Refill(s)' \in 0..Burst /\ Refill(s)' <= left
            /\ Refill(s)' = Burst \/ Refill(s)' = left
    BY <1>3, <1>6, <1>10, <2>1, <2>3, <2>4 DEF Smaller, e
  <2> QED  BY <2>5 DEF d, e
<1>11. NoneAfter'
  <2>1. ASSUME NEW now \in Prompt', NEW t \in Times, t >= now
        PROVE  total'[t] = total'[now]
    <3>1. now \in Times /\ n <= now /\ now \in Nat /\ t \in Nat
      BY <1>3, <1>4
    <3> QED  BY <1>3, <1>8, <2>1, <3>1
  <2> QED  BY <2>1 DEF NoneAfter
<1>13. ASSUME NEW a \in Times, a <= n
       PROVE  /\ GrantedIn(a, n) \in Int
              /\ Cost * (GrantedIn(a, n) + 1) = Cost * GrantedIn(a, n) + Cost
              /\ Cost * GrantedIn(a, n) \in Int
              /\ Cost * GrantedIn(a, n) + Refill(n) <= Burst + Rate * (n - a)
  <2>1. GrantedIn(a, n) \in Int
    BY <1>9, <1>13
  <2> DEFINE g == GrantedIn(a, n)
  <2> HIDE DEF g
  <2>2. g \in Int
    BY <2>1 DEF g
  <2>3. Cost * (g + 1) = Cost * g + Cost /\ Cost * g \in Int
    BY <1>6, <2>2
  <2>4. Cost * GrantedIn(a, n) + Refill(n) <= Burst + Rate * (n - a)
    BY <1>0, <1>3, <1>13 DEF Level, AtMost
  <2> QED  BY <2>1, <2>3, <2>4 DEF g
<1>14. ASSUME NEW s \in Times, n <= s
       PROVE  AtMost(s)' /\ AtLeast(s)'
  <2>1. ASSUME NEW a \in Times, a <= s
        PROVE  Cost * GrantedIn(a, s)' + Refill(s)' <= Burst + Rate * (s - a)
    <3>1. CASE a <= n
      <4>1. Rate * (s - a) = Rate * (n - a) + Rate * (s - n)
            /\ Rate * (n - a) \in Nat /\ Rate * (s - n) \in Nat
        BY <1>14, <3>1, RateAdds, Zenon
      <4>2. Cost * GrantedIn(a, s)' = Cost * GrantedIn(a, n) + Cost
        BY <1>9, <1>13, <1>14, <2>1, <3>1
      <4>3. Refill(s)' <= (Refill(n) - Cost) + Rate * (s - n) /\ Refill(s)' \in Nat
        BY <1>6, <1>10, <1>14
      <4> QED  BY <1>6, <1>7, <1>13, <3>1, <4>1, <4>2, <4>3
    <3>2. CASE n < a
      <4>1. Cost * GrantedIn(a, s)' = 0
        BY <1>6, <1>9, <2>1, <3>2
      <4>2. Rate * (s - a) \in Nat
        <5>1. a <= a
          BY <1>3
        <5> QED  BY <2>1, <5>1, RateAdds, Zenon
      <4> QED  BY <1>6, <1>10, <1>14, <4>1, <4>2
    <3> QED  BY <1>3, <3>1, <3>2
  <2>2. CASE Refill(s)' = Burst
    <3>1. Cost * GrantedIn(s, s)' + Refill(s)' >= Burst + Rate * (s - s)
      <4>1. GrantedIn(s, s)' \in Nat
        <5>1. s # 0 => s - 1 \in Times
          BY <1>3, TimeAssumption DEF Times
        <5> QED  BY <1>3, <5>1 DEF GrantedIn, GrantedBefore, Base, TypeOK, Growing
      <4>2. Cost * GrantedIn(s, s)' \in Nat
        BY <1>6, <4>1
      <4>3. Rate * (s - s) = 0
        <5>1. s - s = 0
          BY <1>3
        <5> QED  BY <1>6, <5>1
      <4> QED  BY <1>6, <2>2, <4>2, <4>3
    <3>2. s <= s
      BY <1>3
    <3>3. AtLeast(s)'
      BY <3>1, <3>2 DEF AtLeast
    <3> QED  BY <2>1, <3>3 DEF AtMost
  <2>3. CASE Refill(s)' = (Refill(n) - Cost) + Rate * (s - n)
    <3>1. PICK a \in Times :
             a <= n /\ Cost * GrantedIn(a, n) + Refill(n) >= Burst + Rate * (n - a)
      BY <1>0, <1>3 DEF Level, AtLeast
    <3>2. a <= s
      BY <1>3, <1>14, <3>1
    <3>3. Rate * (s - a) = Rate * (n - a) + Rate * (s - n)
          /\ Rate * (n - a) \in Nat /\ Rate * (s - n) \in Nat
      BY <1>14, <3>1, RateAdds, Zenon
    <3>4. Cost * GrantedIn(a, s)' = Cost * GrantedIn(a, n) + Cost
      BY <1>9, <1>13, <1>14, <3>1, <3>2
    <3>5. Cost * GrantedIn(a, s)' + Refill(s)' >= Burst + Rate * (s - a)
      BY <1>6, <1>7, <1>13, <2>3, <3>1, <3>3, <3>4
    <3>6. AtLeast(s)'
      BY <3>2, <3>5 DEF AtLeast
    <3> QED  BY <2>1, <3>6 DEF AtMost
  <2> QED  BY <1>10, <1>14, <2>2, <2>3
<1>15. Level'
  BY <1>4, <1>14 DEF Level
<1>16. ASSUME NEW a \in Times, NEW b \in Times, a <= b
       PROVE  Cost * GrantedIn(a, b)' <= Burst + Rate * (b - a)
  <2>1. CASE b < n
    BY <1>0, <1>9, <1>16, <2>1 DEF WithinRate
  <2>2. CASE a <= n /\ n <= b
    <3>1. Rate * (b - a) = Rate * (n - a) + Rate * (b - n)
          /\ Rate * (n - a) \in Nat /\ Rate * (b - n) \in Nat
      BY <2>2, RateAdds, Zenon
    <3>2. Cost * GrantedIn(a, b)' = Cost * GrantedIn(a, n) + Cost
      BY <1>9, <1>13, <1>16, <2>2
    <3> QED  BY <1>2, <1>6, <1>7, <1>13, <2>2, <3>1, <3>2
  <2>3. CASE n < a
    <3>1. Cost * GrantedIn(a, b)' = 0
      BY <1>6, <1>9, <1>16, <2>3
    <3>2. Rate * (b - a) \in Nat
      <4>1. a <= a
        BY <1>3
      <4> QED  BY <1>16, <4>1, RateAdds, Zenon
    <3> QED  BY <1>6, <3>1, <3>2
  <2> QED  BY <1>3, <2>1, <2>2, <2>3
<1>17. WithinRate'
  BY <1>16 DEF WithinRate
<1> QED  BY <1>11, <1>15, <1>17

LEMMA OrderNext == ASSUME Base, OrderInv, [Next]_vars, Base'  PROVE OrderInv'
<1>1. TypeOK /\ TypeOK'
  BY DEF Base
<1>2. clock' = clock => Nows' \subseteq Nows
  <2>1. Tick => clock' # clock
    BY <1>1, TimeAssumption DEF Tick, TypeOK, Times
  <2> QED  BY <1>1, <2>1, NowsSteps
<1>3. ASSUME NEW r \in Requests, RunScript(r), Grant(stamp[r])
      PROVE  OrderInv'
  <2>1. InOrder' => InOrder /\ ~Late(stamp[r])
    BY <1>1, <1>3, OrderStays
  <2>2. InOrder' => NoneAfter' /\ Level' /\ WithinRate'
    BY <1>3, <2>1, GrantOrder
  <2> QED  BY <2>2 DEF OrderInv
<1>4. ASSUME NEW r \in Requests, RunScript(r), Reject(stamp[r])
      PROVE  OrderInv'
  BY <1>2, <1>4, SameOrder DEF RunScript, Reject, history
<1>5. ASSUME NEW r \in Requests, Send(r) \/ SendFails(r)
      PROVE  OrderInv'
  BY <1>2, <1>5, SameOrder DEF Send, SendFails, history
<1>6. CASE Expire
  BY <1>6, ExpireOrder
<1>7. CASE Tick
  BY <1>1, <1>7, TickOrder
<1>8. CASE UNCHANGED vars
  BY <1>2, <1>8, SameOrder DEF vars, history
<1> QED  BY <1>3, <1>4, <1>5, <1>6, <1>7, <1>8 DEF Next, RunScript

-----------------------------------------------------------------------------
(* Scripts that are granted in any order *)

\* The rate over sums and over longer times.
LEMMA RateSum ==
    ASSUME NEW x \in Int, NEW y \in Int
    PROVE  /\ Rate * (x + y) = Rate * x + Rate * y
           /\ Rate * x \in Int /\ Rate * y \in Int
  BY AmountAssumption

LEMMA RateGrows ==
    ASSUME NEW x \in Int, NEW y \in Int, x <= y
    PROVE  Rate * x <= Rate * y /\ Rate * x \in Int /\ Rate * y \in Int
<1> DEFINE z == y - x
<1>1. z \in Nat /\ y = x + z
  OBVIOUS
<1> HIDE DEF z
<1>2. Rate * (x + z) = Rate * x + Rate * z /\ Rate * x \in Int
  BY <1>1, RateSum
<1>3. Rate * z \in Nat
  BY <1>1, AmountAssumption
<1> QED  BY <1>1, <1>2, <1>3

LEMMA DelaysType ==
    ASSUME TypeOK, NEW a \in Times
    PROVE  Delays(a) \in Nat /\ Delays(a) >= MaxDelay
<1> DEFINE k == lateSince[a]
<1>1. k \in Nat /\ MaxDelay \in Nat
  BY ExpiryAssumption DEF TypeOK
<1> HIDE DEF k
<1>2. MaxDelay * (k + 1) = MaxDelay * k + MaxDelay /\ MaxDelay * k \in Nat
  BY <1>1
<1> QED  BY <1>1, <1>2 DEF Delays, k

\* Steps that write nothing to the bucket and send no later script.
LEMMA SameDelay ==
    ASSUME DelayInv, clock' = clock, Nows' \subseteq Nows,
           UNCHANGED <<tokens, updated_at, since, lateSince>>
    PROVE  DelayInv'
<1>1. \A t : Refill(t)' = Refill(t) /\ Top(t)' = Top(t)
  BY DEF Refill, Top, Late
<1>2. \A a, s : Bounded(a, s)' <=> Bounded(a, s)
  BY <1>1 DEF Bounded, Delays
<1> QED  BY <1>2 DEF DelayInv

LEMMA ExpireDelay == ASSUME Base, DelayInv, Expire  PROVE DelayInv'
<1>1. updated_at' = NotSent /\ UNCHANGED <<clock, tokens, expireAt, stamp, history>>
  BY DEF Expire
<1>2. Nows' = Nows
  BY <1>1 DEF Nows
<1>3. \A now \in Nows : Refill(now)' = Refill(now) /\ Top(now)' = Top(now)
  BY <1>1, ExpireFull DEF Refill, Top, Late
<1>4. \A a \in Times, now \in Nows : Bounded(a, now)' <=> Bounded(a, now)
  BY <1>1, <1>3 DEF Bounded, Delays, history
<1> QED  BY <1>1, <1>2, <1>4 DEF DelayInv, history

\* A tick adds what the rate adds to the bound.
LEMMA TickDelay == ASSUME Base, TypeOK', DelayInv, Tick  PROVE DelayInv'
<1>1. clock' = clock + 1 /\ UNCHANGED <<tokens, updated_at, expireAt, stamp, history>>
  BY DEF Tick
<1>2. /\ TypeOK /\ clock \in Times /\ clock + 1 \in Times /\ Times \subseteq Nat
      /\ clock \in Nows
  BY <1>1, NowsType DEF Base, TypeOK, Times
<1>3. Nows' \subseteq Nows \cup {clock + 1}
  BY <1>1 DEF Nows
<1>4. \A t : Refill(t)' = Refill(t) /\ Top(t)' = Top(t)
  BY <1>1 DEF Refill, Top, Late
<1>5. \A a, s : Bounded(a, s)' <=> Bounded(a, s)
  BY <1>1, <1>4 DEF Bounded, Delays, history
<1>6. Top(clock) = clock /\ Top(clock + 1) = clock + 1
  <2>1. updated_at # NotSent => updated_at \in Nat /\ updated_at <= clock
    BY <1>2 DEF Base, Lives, TypeOK
  <2> QED  BY <1>2, <2>1 DEF Top, Late
<1>7. /\ Refill(clock) \in 0..Burst /\ Refill(clock + 1) \in 0..Burst
      /\ Refill(clock + 1) <= Refill(clock) + Rate
  BY <1>2, RefillTick DEF Base, Lives
<1>8. ASSUME NEW a \in Times, since[a] > 0
      PROVE  a <= clock + 1 /\ \A now \in Nows' : Bounded(a, now)
  <2>1. a <= clock /\ \A now \in Nows : Bounded(a, now)
    BY <1>8 DEF DelayInv
  <2> DEFINE x == (clock - a) + Delays(a)
             g == Cost * since[a]
             e == Refill(clock)
             f == Refill(clock + 1)
             y == Rate * x
  <2>2. x \in Int /\ ((clock + 1) - a) + Delays(a) = x + 1
    BY <1>2, DelaysType
  <2>3. g + e <= Burst + y
    BY <1>2, <1>6, <2>1 DEF Bounded
  <2>4. Rate * (x + 1) = y + Rate /\ y \in Int
    <3> HIDE DEF x
    <3>1. x \in Int /\ 1 \in Int
      BY <2>2
    <3>2. Rate * (x + 1) = Rate * x + Rate * 1 /\ Rate * x \in Int
      BY <3>1, RateSum, Zenon
    <3> QED  BY <3>2, AmountAssumption
  <2>5. g \in Int /\ e \in Int /\ f \in Int /\ f <= e + Rate
    <3>1. since[a] \in Nat
      BY <1>2 DEF TypeOK
    <3> QED  BY <1>7, <3>1, AmountAssumption
  <2> HIDE DEF g, e, f, y
  <2>6. g + f <= Burst + (y + Rate)
    BY <2>3, <2>4, <2>5, AmountAssumption
  <2>7. Bounded(a, clock + 1)
    BY <1>6, <2>2, <2>4, <2>6 DEF Bounded, g, f
  <2>8. a <= clock + 1
    BY <1>2, <2>1
  <2> QED  BY <1>3, <2>1, <2>7, <2>8
<1> QED  BY <1>1, <1>5, <1>8 DEF DelayInv, history

\* What a script that is granted now leaves room for: a late script pays for
\* one more delay.
LEMMA GrantRoom ==
    ASSUME Base, DelayInv, NEW n \in Nows, NEW a \in Times, a <= clock,
           NEW k \in Nat, k = lateSince[a] + IF Late(n) THEN 1 ELSE 0
    PROVE  Cost * since[a] + Refill(n) <= Burst + Rate * ((n - a) + MaxDelay * (k + 1))
<1>1. /\ TypeOK /\ n \in Times /\ clock \in Times /\ Times \subseteq Nat
      /\ Refill(n) \in 0..Burst /\ since[a] \in Nat /\ lateSince[a] \in Nat
      /\ n <= clock /\ clock - n <= MaxDelay
  <2>1. TypeOK /\ n \in Times /\ n <= clock /\ clock - n <= MaxDelay
    BY NowsType DEF Base, Lives
  <2>2. Refill(n) \in 0..Burst
    BY <2>1, RefillType
  <2>3. Times \subseteq Nat
    BY TimeAssumption DEF Times
  <2> QED  BY <2>1, <2>2, <2>3, TimeAssumption DEF TypeOK
<1>2. Rate \in Nat /\ Cost \in Nat /\ Burst \in Nat /\ MaxDelay \in Nat
  BY AmountAssumption, ExpiryAssumption
<1> DEFINE m == MaxDelay * (k + 1)
           x == (n - a) + m
           g == Cost * since[a]
           e == Refill(n)
<1>3. m \in Nat /\ m >= MaxDelay /\ x \in Int
  <2>1. MaxDelay * (k + 1) = MaxDelay * k + MaxDelay /\ MaxDelay * k \in Nat
    BY <1>2
  <2>2. m \in Nat /\ m >= MaxDelay
    BY <1>2, <2>1
  <2> QED  BY <1>1, <2>2
<1>4. g \in Nat /\ e \in Nat /\ e <= Burst
  BY <1>1, <1>2
<1>5. CASE since[a] = 0
  <2>1. g = 0
    BY <1>2, <1>5
  <2>2. x >= 0
    <3> HIDE DEF m
    <3> QED  BY <1>1, <1>2, <1>3 DEF x
  <2> HIDE DEF x, g, e
  <2>3. Rate * x \in Nat
    BY <1>2, <1>3, <2>2
  <2>4. g + e <= Burst + Rate * x
    BY <1>2, <1>4, <2>1, <2>3
  <2> QED  BY <2>4 DEF x, g, e, m
<1>6. CASE since[a] > 0
  <2> DEFINE y == (Top(n) - a) + Delays(a)
  <2>1. g + e <= Burst + Rate * y
    BY <1>6 DEF DelayInv, Bounded
  <2>2. Delays(a) \in Nat
    BY <1>1, DelaysType
  <2>3. y \in Int /\ y <= x
    <3>1. CASE ~Late(n)
      <4>1. k = lateSince[a] /\ Top(n) = n
        BY <1>1, <3>1 DEF Top
      <4>2. m = Delays(a)
        BY <4>1 DEF Delays
      <4> HIDE DEF m
      <4> QED  BY <1>1, <2>2, <4>1, <4>2
    <3>2. CASE Late(n)
      <4>1. k = lateSince[a] + 1 /\ Top(n) = updated_at
        BY <3>2 DEF Top
      <4>2. updated_at \in Nat /\ updated_at <= clock
        BY <1>1, <3>2 DEF Late, Base, Lives, TypeOK
      <4>3. m = Delays(a) + MaxDelay
        <5> HIDE DEF m
        <5>1. m = MaxDelay * (k + 1)
          BY DEF m
        <5>2. MaxDelay * (k + 1) = MaxDelay * k + MaxDelay
          BY <1>2
        <5> QED  BY <4>1, <5>1, <5>2 DEF Delays
      <4> HIDE DEF m
      <4> QED  BY <1>1, <1>2, <2>2, <4>1, <4>2, <4>3
    <3> QED  BY <3>1, <3>2
  <2> HIDE DEF x, y, g, e
  <2>4. Rate * y <= Rate * x /\ Rate * y \in Int /\ Rate * x \in Int
    BY <1>3, <2>3, RateGrows
  <2>5. g + e <= Burst + Rate * x
    BY <1>2, <1>4, <2>1, <2>4
  <2> QED  BY <2>5 DEF x, g, e, m
<1> QED  BY <1>1, <1>5, <1>6

\* The next script finds what this one left and what the rate adds from then on.
LEMMA GrantDelay ==
    ASSUME Base, TypeOK', DelayInv, NEW r \in Requests, RunScript(r), Grant(stamp[r]),
           clock' = clock, Nows' \subseteq Nows
    PROVE  DelayInv'
<1>1. PICK n \in Nows : n = stamp[r]
  BY NowsType DEF Base, RunScript
<1>2. /\ Refill(n) >= Cost /\ tokens' = Refill(n) - Cost /\ updated_at' = n
      /\ since' = [t \in Times |-> since[t] + IF t <= clock THEN 1 ELSE 0]
      /\ lateSince' = [t \in Times |->
            lateSince[t] + IF t <= clock /\ Late(n) THEN 1 ELSE 0]
  BY <1>1 DEF Grant, Count
<1>3. /\ TypeOK /\ n \in Times /\ n \in Nat /\ clock \in Nat /\ Times \subseteq Nat
      /\ Nows \subseteq Times /\ Refill(n) \in 0..Burst /\ n # NotSent
  <2>1. TypeOK /\ Nows \subseteq Times /\ n \in Times
    BY NowsType DEF Base
  <2>2. Refill(n) \in 0..Burst
    BY <2>1, RefillType
  <2>3. Times \subseteq Nat
    BY TimeAssumption DEF Times
  <2> QED  BY <2>1, <2>2, <2>3, TimeAssumption DEF TypeOK
<1>4. Rate \in Nat /\ Cost \in Nat /\ Burst \in Nat
  BY AmountAssumption
<1>5. ASSUME NEW s \in Nows
      PROVE  /\ Top(s)' \in Nat /\ Top(s)' - n \in Nat
             /\ Refill(s)' \in Int
             /\ Refill(s)' <= (Refill(n) - Cost) + Rate * (Top(s)' - n)
  <2>1. s \in Nat
    BY <1>3
  <2>2. Top(s)' = IF s < n THEN n ELSE s
    BY <1>2, <1>3 DEF Top, Late
  <2>3. CASE s > n
    <3> DEFINE d == (s - n) * Rate
    <3>1. d = Rate * (Top(s)' - n) /\ d \in Nat
      <4> DEFINE z == s - n
      <4>1. z \in Nat /\ Top(s)' - n = z
        BY <1>3, <2>1, <2>2, <2>3
      <4> HIDE DEF z
      <4> QED  BY <1>4, <4>1 DEF z
    <3>2. Refill(s)' = Smaller(Burst, (Refill(n) - Cost) + d)
      BY <1>2, <1>3, <2>3 DEF Refill
    <3> HIDE DEF d
    <3>3. Refill(s)' \in Int /\ Refill(s)' <= (Refill(n) - Cost) + d
      BY <1>3, <1>4, <3>1, <3>2 DEF Smaller
    <3> QED  BY <1>3, <2>1, <2>2, <2>3, <3>1, <3>3
  <2>4. CASE ~(s > n)
    <3>1. Top(s)' = n /\ Top(s)' - n = 0
      BY <1>3, <2>1, <2>2, <2>4
    <3>2. Rate * (Top(s)' - n) = 0
      BY <1>4, <3>1
    <3>3. Refill(s)' = Smaller(Burst, Refill(n) - Cost)
      BY <1>2, <1>3, <2>4 DEF Refill
    <3>4. Refill(s)' \in Int /\ Refill(s)' <= Refill(n) - Cost
      BY <1>3, <1>4, <3>3 DEF Smaller
    <3> QED  BY <1>3, <1>4, <3>1, <3>2, <3>4
  <2> QED  BY <2>3, <2>4
<1>6. ASSUME NEW a \in Times, since'[a] > 0
      PROVE  a <= clock
  <2>1. a > clock => since'[a] = since[a] /\ ~(since[a] > 0)
    BY <1>2, <1>3 DEF DelayInv, TypeOK
  <2> QED  BY <1>3, <1>6, <2>1
<1>7. ASSUME NEW a \in Times, a <= clock, NEW s \in Nows
      PROVE  Bounded(a, s)'
  <2> DEFINE k == lateSince'[a]
             g == since[a]
             e == Refill(n)
             x == (n - a) + MaxDelay * (k + 1)
             z == Top(s)' - n
             f == Refill(s)'
  <2>1. /\ k \in Nat /\ k = lateSince[a] + IF Late(n) THEN 1 ELSE 0
        /\ g \in Nat /\ since'[a] = g + 1
    BY <1>2, <1>3, <1>7 DEF TypeOK
  <2>2. Cost * g + e <= Burst + Rate * x
    BY <1>7, <2>1, GrantRoom
  <2>3. x \in Int
    BY <1>3, <2>1, ExpiryAssumption
  <2>4. z \in Nat /\ f \in Int /\ f <= (e - Cost) + Rate * z
    BY <1>5
  <2>5. e \in Int
    BY <1>3, <1>4
  <2>6. (Top(s)' - a) + Delays(a)' = x + z
    <3> DEFINE m == MaxDelay * (k + 1)
    <3>1. m \in Int /\ Delays(a)' = m /\ Top(s)' \in Nat
      BY <1>5, <2>1, ExpiryAssumption DEF Delays
    <3> HIDE DEF m
    <3>2. (Top(s)' - a) + m = ((n - a) + m) + (Top(s)' - n)
      BY <1>3, <3>1
    <3> QED  BY <3>1, <3>2 DEF m
  <2> HIDE DEF k, g, e, x, z, f
  <2>7. Rate * (x + z) = Rate * x + Rate * z /\ Rate * x \in Int /\ Rate * z \in Int
    <3>1. x \in Int /\ z \in Int
      BY <2>3, <2>4
    <3> QED  BY <3>1, RateSum, Zenon
  <2>8. Cost * (g + 1) = Cost * g + Cost /\ Cost * g \in Int
    BY <1>4, <2>1
  <2>9. Cost * (g + 1) + f <= Burst + Rate * (x + z)
    BY <1>4, <2>2, <2>4, <2>5, <2>7, <2>8
  <2> QED  BY <2>1, <2>6, <2>9 DEF Bounded, f
<1>8. ASSUME NEW a \in Times, since'[a] > 0
      PROVE  a <= clock' /\ \A s \in Nows' : Bounded(a, s)'
  BY <1>6, <1>7, <1>8
<1> QED  BY <1>8 DEF DelayInv

LEMMA DelayNext == ASSUME Base, DelayInv, [Next]_vars, Base'  PROVE DelayInv'
<1>1. TypeOK /\ TypeOK'
  BY DEF Base
<1>2. clock' = clock => Nows' \subseteq Nows
  <2>1. Tick => clock' # clock
    BY <1>1, TimeAssumption DEF Tick, TypeOK, Times
  <2> QED  BY <1>1, <2>1, NowsSteps
<1>3. ASSUME NEW r \in Requests, RunScript(r), Grant(stamp[r])
      PROVE  DelayInv'
  BY <1>1, <1>2, <1>3, GrantDelay DEF RunScript
<1>4. ASSUME NEW r \in Requests, RunScript(r), Reject(stamp[r])
      PROVE  DelayInv'
  BY <1>2, <1>4, SameDelay DEF RunScript, Reject, history
<1>5. ASSUME NEW r \in Requests, Send(r) \/ SendFails(r)
      PROVE  DelayInv'
  BY <1>2, <1>5, SameDelay DEF Send, SendFails, history
<1>6. CASE Expire
  BY <1>6, ExpireDelay
<1>7. CASE Tick
  BY <1>1, <1>7, TickDelay
<1>8. CASE UNCHANGED vars
  BY <1>2, <1>8, SameDelay DEF vars, history
<1> QED  BY <1>3, <1>4, <1>5, <1>6, <1>7, <1>8 DEF Next, RunScript

LEMMA DelayBound == Base /\ DelayInv => LateCostsADelay
<1> SUFFICES ASSUME Base, DelayInv, NEW a \in Times, a <= clock
             PROVE  Cost * since[a] <= Burst + Rate * ((clock - a) + Delays(a))
  BY DEF LateCostsADelay, Delays
<1>1. /\ TypeOK /\ clock \in Nows /\ clock \in Times /\ Times \subseteq Nat
      /\ since[a] \in Nat /\ Delays(a) \in Nat /\ Refill(clock) \in 0..Burst
  <2>1. TypeOK /\ clock \in Nows /\ clock \in Times
    BY NowsType DEF Base, TypeOK
  <2>2. Refill(clock) \in 0..Burst /\ Delays(a) \in Nat
    BY <2>1, RefillType, DelaysType
  <2>3. Times \subseteq Nat
    BY TimeAssumption DEF Times
  <2> QED  BY <2>1, <2>2, <2>3, TimeAssumption DEF TypeOK
<1>2. Rate \in Nat /\ Cost \in Nat /\ Burst \in Nat
  BY AmountAssumption
<1> DEFINE x == (clock - a) + Delays(a)
           g == Cost * since[a]
<1>3. x \in Nat /\ g \in Nat
  BY <1>1, <1>2
<1>4. CASE since[a] > 0
  <2>1. Top(clock) = clock
    BY <1>1, TimeAssumption DEF Top, Late, Base, Lives, TypeOK, Times
  <2>2. g + Refill(clock) <= Burst + Rate * x
    BY <1>1, <1>4, <2>1 DEF DelayInv, Bounded
  <2> HIDE DEF x, g
  <2>3. Rate * x \in Nat
    BY <1>2, <1>3
  <2>4. g <= Burst + Rate * x
    BY <1>1, <1>2, <1>3, <2>2, <2>3
  <2> QED  BY <2>4 DEF x, g
<1>5. CASE since[a] = 0
  <2>1. g = 0
    BY <1>2, <1>5
  <2> HIDE DEF x, g
  <2>2. Rate * x \in Nat
    BY <1>2, <1>3
  <2>3. g <= Burst + Rate * x
    BY <1>2, <2>1, <2>2
  <2> QED  BY <2>3 DEF x, g
<1> QED  BY <1>1, <1>4, <1>5

-----------------------------------------------------------------------------
(* Theorems *)

LEMMA InitBase == Init => Base /\ OrderInv /\ DelayInv
<1> SUFFICES ASSUME Init PROVE Base /\ OrderInv /\ DelayInv
  OBVIOUS
<1>1. TypeOK
  BY InitType
<1>2. /\ clock = 0 /\ updated_at = NotSent /\ Nows = {0} /\ 0 \in Times
      /\ Times \subseteq Nat /\ \A t \in Times : total[t] = 0 /\ since[t] = 0
  BY TimeAssumption DEF Init, Nows, Times
<1>3. /\ Rate \in Nat /\ Cost \in Nat /\ Burst \in Nat
  BY AmountAssumption
<1>4. Growing
  BY <1>2, TimeAssumption DEF Growing, Times
<1>5. NoneAfter /\ Lives /\ Prompt \subseteq {0}
  BY <1>2, ExpiryAssumption DEF NoneAfter, Lives, Prompt
<1>6. \A a, b \in Times : GrantedIn(a, b) = 0
  BY <1>2, TimeAssumption DEF GrantedIn, GrantedBefore, Times
<1>7. Cost * 0 = 0 /\ Rate * 0 = 0 /\ Refill(0) = Burst
  BY <1>2, <1>3 DEF Refill
<1>8. \A a \in Times : a <= 0 => a = 0 /\ 0 - a = 0
  BY <1>2
<1>9. AtMost(0) /\ AtLeast(0)
  BY <1>2, <1>3, <1>6, <1>7, <1>8 DEF AtMost, AtLeast
<1>10. WithinRate
  <2> SUFFICES ASSUME NEW a \in Times, NEW b \in Times, a <= b
               PROVE  Cost * GrantedIn(a, b) <= Burst + Rate * (b - a)
    BY DEF WithinRate
  <2>1. Rate * (b - a) \in Nat
    <3>1. a <= a
      BY <1>2
    <3> QED  BY <3>1, RateAdds, Zenon
  <2> QED  BY <1>3, <1>6, <1>7, <2>1
<1>11. Base /\ OrderInv
  BY <1>1, <1>4, <1>5, <1>9, <1>10 DEF Base, OrderInv, Level
<1>12. DelayInv
  BY <1>2 DEF DelayInv
<1> QED  BY <1>11, <1>12

LEMMA NextBase ==
    Base /\ OrderInv /\ DelayInv /\ [Next]_vars => (Base /\ OrderInv /\ DelayInv)'
  BY BaseNext, OrderNext, DelayNext

LEMMA SpecInv == Spec => [](Base /\ OrderInv /\ DelayInv)
  BY InitBase, NextBase, PTL DEF Spec

\* In every interval the client gets at most the burst and what the rate adds
\* during it, as long as no late script was granted.
THEOREM RateKept == Spec => []RateKeptInOrder
<1>1. OrderInv => RateKeptInOrder
  BY DEF OrderInv, RateKeptInOrder
<1> QED  BY <1>1, SpecInv, PTL

\* In whatever order scripts run, a late one costs the rate of one more delay.
THEOREM DelayBounded == Spec => []LateCostsADelay
  BY DelayBound, SpecInv, PTL

\* As long as no late script was granted, one that is not late is rejected only
\* when granting it would exceed the rate.
THEOREM NoStricter == Spec => RejectsOnlyAtLimit
<1> DEFINE Rejected(r) ==
        RunScript(r) /\ UNCHANGED total /\ InOrder /\ ~Late(stamp[r]) =>
            \E a \in Times :
                /\ a <= stamp[r]
                /\ Cost * (GrantedIn(a, stamp[r]) + 1) > Burst + Rate * (stamp[r] - a)
<1>1. ASSUME Base, OrderInv, NEW r \in Requests, RunScript(r), UNCHANGED total,
             InOrder, ~Late(stamp[r])
      PROVE  \E a \in Times :
                /\ a <= stamp[r]
                /\ Cost * (GrantedIn(a, stamp[r]) + 1) > Burst + Rate * (stamp[r] - a)
  <2>1. PICK n \in Times : n = stamp[r]
    BY <1>1 DEF Base, TypeOK, RunScript
  <2>2. ~Grant(n)
    <3>1. SUFFICES ASSUME Grant(n) PROVE FALSE
      OBVIOUS
    <3>2. total'[n] = total[n] + 1 /\ total[n] \in Nat
      <4>1. n >= n /\ total \in [Times -> Nat]
        BY <1>1, TimeAssumption DEF Base, TypeOK, Times
      <4> QED  BY <3>1, <4>1 DEF Grant, Count
    <3> QED  BY <1>1, <3>2
  <2>3. Refill(n) < Cost /\ n \in Prompt
    BY <1>1, <2>1, <2>2, NowsType DEF RunScript, Reject, Base, Prompt
  <2>4. PICK a \in Times :
           a <= n /\ Cost * GrantedIn(a, n) + Refill(n) >= Burst + Rate * (n - a)
    BY <1>1, <2>3 DEF OrderInv, Level, AtLeast
  <2> DEFINE g == GrantedIn(a, n)
             d == Rate * (n - a)
  <2>5. g \in Int
    <3>1. a # 0 => a - 1 \in Times
      BY TimeAssumption DEF Times
    <3> QED  BY <1>1, <3>1 DEF GrantedIn, GrantedBefore, Base, TypeOK
  <2>6. d \in Int
    <3>1. n - a \in Int
      BY TimeAssumption DEF Times
    <3> QED  BY <3>1, AmountAssumption
  <2>7. Refill(n) \in Int
    BY <1>1, RefillType, AmountAssumption DEF Base
  <2>8. Cost * g + Refill(n) >= Burst + d
    BY <2>4
  <2> HIDE DEF g, d
  <2>9. Cost * (g + 1) > Burst + d
    <3>1. Cost * (g + 1) = Cost * g + Cost /\ Cost * g \in Int
      BY <2>5, AmountAssumption
    <3> QED  BY <2>3, <2>6, <2>7, <2>8, <3>1, AmountAssumption
  <2>10. a <= n /\ Cost * (GrantedIn(a, n) + 1) > Burst + Rate * (n - a)
    BY <2>4, <2>9 DEF g, d
  <2> QED  BY <2>1, <2>10
<1>2. Base /\ OrderInv => [\A r \in Requests : Rejected(r)]_vars
  BY <1>1
<1> HIDE DEF Rejected
<1>3. [][\A r \in Requests : Rejected(r)]_vars <=> RejectsOnlyAtLimit
  BY PTL DEF RejectsOnlyAtLimit, Rejected
<1> QED  BY <1>2, <1>3, SpecInv, PTL

=============================================================================
