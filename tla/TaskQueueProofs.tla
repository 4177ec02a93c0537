-------------------------- MODULE TaskQueueProofs --------------------------
(***************************************************************************)
(* Theorems about the queue, for every set of workers, platforms, payloads *)
(* and requests and every bound: what its steps do to the lists, the       *)
(* ledger it implements, what an acknowledgement removes, to whom payloads *)
(* are handed out, how often and how many, what is stranded, and that this *)
(* holds while both gateways serve the lists.                              *)
(***************************************************************************)
EXTENDS LegacyQueue, SequenceTheorems, TLAPS

(* Lemmas on the operators of SequencesExt that the model uses. *)

\* Taking the last element of a list leaves the others where they are.
LEMMA FrontLemma ==
    ASSUME NEW S, NEW s \in Seq(S), s # <<>>
    PROVE  /\ Front(s) \in Seq(S)
           /\ Len(Front(s)) = Len(s) - 1
           /\ \A i \in 1..(Len(s) - 1) : Front(s)[i] = s[i]
           /\ Len(s) \in DOMAIN s
           /\ Last(s) = s[Len(s)]
           /\ Last(s) \in S
<1>1. Len(s) \in Nat \ {0} /\ DOMAIN s = 1..Len(s)
  BY EmptySeq, LenProperties
<1> QED  BY <1>1, SubSeqProperties, ElementOfSeq DEF Front, Last

\* Adding an element at the head moves the others by one place.
LEMMA ConsLemma ==
    ASSUME NEW S, NEW s \in Seq(S), NEW e \in S
    PROVE  /\ Cons(e, s) \in Seq(S)
           /\ Len(Cons(e, s)) = Len(s) + 1
           /\ Cons(e, s)[1] = e
           /\ \A i \in 2..(Len(s) + 1) : Cons(e, s)[i] = s[i - 1]
  BY DEF Cons

\* Removing the element at place i moves those behind it by one place.
LEMMA RemoveAtLemma ==
    ASSUME NEW S, NEW s \in Seq(S), NEW i \in 1..Len(s)
    PROVE  /\ RemoveAt(s, i) \in Seq(S)
           /\ Len(RemoveAt(s, i)) = Len(s) - 1
           /\ \A j \in 1..(Len(s) - 1) :
                 RemoveAt(s, i)[j] = IF j < i THEN s[j] ELSE s[j + 1]
<1> DEFINE a == SubSeq(s, 1, i - 1)
           b == SubSeq(s, i + 1, Len(s))
<1>1. a \in Seq(S) /\ Len(a) = i - 1 /\ \A j \in 1..(i - 1) : a[j] = s[j]
  BY SubSeqProperties
<1>2. b \in Seq(S) /\ Len(b) = Len(s) - i
        /\ \A j \in 1..(Len(s) - i) : b[j] = s[i + j]
  BY SubSeqProperties
<1>3. RemoveAt(s, i) = a \o b
  BY DEF RemoveAt
<1> HIDE DEF a, b
<1>4. /\ a \o b \in Seq(S)
      /\ Len(a \o b) = Len(a) + Len(b)
      /\ \A j \in 1..(Len(a) + Len(b)) :
            (a \o b)[j] = IF j <= Len(a) THEN a[j] ELSE b[j - Len(a)]
  BY <1>1, <1>2, ConcatProperties
<1>5. Len(s) \in Nat
  BY LenProperties
<1>6. ASSUME NEW j \in 1..(Len(s) - 1)
      PROVE  (a \o b)[j] = IF j < i THEN s[j] ELSE s[j + 1]
  <2>1. CASE j < i
    BY <2>1, <1>1, <1>2, <1>4, <1>5
  <2>2. CASE ~(j < i)
    <3>1. /\ j - (i - 1) \in 1..(Len(s) - i) /\ ~(j <= Len(a))
          /\ i + (j - (i - 1)) = j + 1
      BY <2>2, <1>1, <1>5
    <3>2. b[j - Len(a)] = s[j + 1]
      BY <3>1, <1>1, <1>2
    <3> QED  BY <3>1, <3>2, <2>2, <1>1, <1>2, <1>4, <1>5
  <2> QED  BY <2>1, <2>2
<1> QED  BY <1>1, <1>2, <1>3, <1>4, <1>5, <1>6

\* The elements of a list with a new head.
LEMMA ConsSet ==
    ASSUME NEW S, NEW s \in Seq(S), NEW e \in S
    PROVE  ToSet(Cons(e, s)) = ToSet(s) \cup {e}
<1> DEFINE t == Cons(e, s)
<1>1. /\ t \in Seq(S) /\ Len(t) = Len(s) + 1 /\ t[1] = e
      /\ \A i \in 2..(Len(s) + 1) : t[i] = s[i - 1]
  BY DEF t, Cons
<1> HIDE DEF t
<1>2. /\ Len(s) \in Nat /\ DOMAIN s = 1..Len(s) /\ DOMAIN t = 1..(Len(s) + 1)
  BY <1>1
<1>3. ASSUME NEW x \in ToSet(t) PROVE x \in ToSet(s) \cup {e}
  BY <1>1, <1>2 DEF ToSet
<1>4. ASSUME NEW x \in ToSet(s) PROVE x \in ToSet(t)
  <2>1. PICK i \in 1..Len(s) : s[i] = x
    BY <1>2 DEF ToSet
  <2>2. i + 1 \in 2..(Len(s) + 1) /\ i + 1 \in DOMAIN t /\ (i + 1) - 1 = i
    BY <1>2
  <2>3. t[i + 1] = x
    BY <1>1, <2>1, <2>2
  <2> QED  BY <2>2, <2>3 DEF ToSet
<1>5. e \in ToSet(t)
  BY <1>1, <1>2 DEF ToSet
<1> QED  BY <1>3, <1>4, <1>5 DEF t

\* The elements of a list without its last element, when none occurs twice.
LEMMA FrontSet ==
    ASSUME NEW S, NEW s \in Seq(S), s # <<>>,
           \A i, j \in DOMAIN s : s[i] = s[j] => i = j
    PROVE  ToSet(Front(s)) = ToSet(s) \ {Last(s)}
<1> DEFINE t == Front(s)
<1>1. /\ t \in Seq(S) /\ Len(t) = Len(s) - 1
      /\ \A i \in 1..(Len(s) - 1) : t[i] = s[i]
      /\ Len(s) \in DOMAIN s /\ Last(s) = s[Len(s)]
  BY FrontLemma
<1> HIDE DEF t
<1>2. /\ Len(s) \in Nat /\ DOMAIN s = 1..Len(s) /\ DOMAIN t = 1..(Len(s) - 1)
  BY <1>1
<1>3. ASSUME NEW x \in ToSet(t) PROVE x \in ToSet(s) \ {Last(s)}
  BY <1>1, <1>2 DEF ToSet
<1>4. ASSUME NEW x \in ToSet(s) \ {Last(s)} PROVE x \in ToSet(t)
  BY <1>1, <1>2 DEF ToSet
<1> QED  BY <1>3, <1>4 DEF t

\* The elements of a list without the element at place i, when none occurs
\* twice.
LEMMA RemoveAtSet ==
    ASSUME NEW S, NEW s \in Seq(S), NEW i \in 1..Len(s),
           \A j, k \in DOMAIN s : s[j] = s[k] => j = k
    PROVE  ToSet(RemoveAt(s, i)) = ToSet(s) \ {s[i]}
<1> DEFINE t == RemoveAt(s, i)
<1>1. /\ t \in Seq(S) /\ Len(t) = Len(s) - 1
      /\ \A j \in 1..(Len(s) - 1) : t[j] = IF j < i THEN s[j] ELSE s[j + 1]
  BY RemoveAtLemma
<1> HIDE DEF t
<1>2. /\ Len(s) \in Nat /\ DOMAIN s = 1..Len(s) /\ DOMAIN t = 1..(Len(s) - 1)
  BY <1>1
<1>3. ASSUME NEW x \in ToSet(t) PROVE x \in ToSet(s) \ {s[i]}
  <2>1. PICK j \in 1..(Len(s) - 1) : t[j] = x
    BY <1>2 DEF ToSet
  <2>2. CASE j < i
    BY <1>1, <1>2, <2>1, <2>2 DEF ToSet
  <2>3. CASE ~(j < i)
    BY <1>1, <1>2, <2>1, <2>3 DEF ToSet
  <2> QED  BY <2>2, <2>3
<1>4. ASSUME NEW x \in ToSet(s) \ {s[i]} PROVE x \in ToSet(t)
  <2>1. PICK j \in 1..Len(s) : s[j] = x /\ j # i
    BY <1>2 DEF ToSet
  <2>2. CASE j < i
    BY <1>1, <1>2, <2>1, <2>2 DEF ToSet
  <2>3. CASE j > i
    <3>1. j - 1 \in 1..(Len(s) - 1) /\ ~(j - 1 < i) /\ (j - 1) + 1 = j
      BY <1>2, <2>3
    <3>2. t[j - 1] = x
      BY <1>1, <2>1, <3>1
    <3> QED  BY <1>2, <3>1, <3>2 DEF ToSet
  <2> QED  BY <2>1, <2>2, <2>3
<1> QED  BY <1>3, <1>4 DEF t

(* The keys of the lists. *)

\* A queue key is no processing key, and the two kinds of keys name what they
\* are made from.
LEMMA KeyLemma ==
    /\ QueueKeys \cap ProcessingKeys = {}
    /\ \A w1, w2 \in Workers : processingKey(w1) = processingKey(w2) => w1 = w2
    /\ \A w \in Workers : processingKey(w) \in ProcessingKeys
    /\ \A p \in Platforms, n \in Priorities : queueKey(p, n) \in QueueKeys
  BY DEF QueueKeys, ProcessingKeys, queueKey, processingKey

(* What a request knows when it sends RPOPLPUSH. *)

\* The two keys of RPOPLPUSH are those of two different lists.
LEMMA PopKeys ==
    ASSUME TypeOK, NEW c \in GetConns, Popping(c)
    PROVE  /\ getReq[c] \in GetRequests
           /\ getReq[c].worker \in Workers
           /\ SourceKey(getReq[c]) \in QueueKeys
           /\ processingKey(getReq[c].worker) \in ProcessingKeys
           /\ SourceKey(getReq[c]) # processingKey(getReq[c].worker)
<1> DEFINE r == getReq[c]
<1>1. r \in GetRequests /\ r.worker \in Workers
  BY DEF TypeOK, Popping
<1>2. r.at \in 1..Len(r.platforms) /\ r.platforms \in Seq(Platforms)
  BY <1>1 DEF Popping, PopDone, GetRequests
<1>3. r.platforms[r.at] \in Platforms /\ r.priority \in Priorities
  BY <1>1, <1>2, ElementOfSeq DEF GetRequests
<1> QED  BY <1>1, <1>3, KeyLemma DEF SourceKey

\* RPOPLPUSH, seen from the lists: src loses its last element to the head of
\* dst, and the other lists stay.
LEMMA MoveLemma ==
    ASSUME redis \in [Keys -> Seq(Entries)],
           NEW src \in Keys, NEW dst \in Keys, src # dst,
           redis[src] # <<>>, RPopLPush(src, dst)
    PROVE  /\ redis' \in [Keys -> Seq(Entries)]
           /\ redis'[src] = Front(redis[src])
           /\ redis'[dst] = Cons(Last(redis[src]), redis[dst])
           /\ \A k \in Keys \ {src, dst} : redis'[k] = redis[k]
           /\ Last(redis[src]) \in Entries
<1>1. Front(redis[src]) \in Seq(Entries) /\ Last(redis[src]) \in Entries
  BY FrontLemma
<1>2. Cons(Last(redis[src]), redis[dst]) \in Seq(Entries)
  BY <1>1, ConsLemma
<1> QED  BY <1>1, <1>2 DEF RPopLPush

\* LREM, seen from the lists: nothing changes, or one place of one list goes.
LEMMA RemLemma ==
    ASSUME redis \in [Keys -> Seq(Entries)],
           NEW key \in Keys, NEW raw, LRemOne(key, raw)
    PROVE  \/ /\ redis' = redis
              /\ raw \notin ToSet(redis[key])
           \/ \E i \in 1..Len(redis[key]) :
                 /\ redis[key][i] = raw
                 /\ redis' \in [Keys -> Seq(Entries)]
                 /\ redis'[key] = RemoveAt(redis[key], i)
                 /\ \A k \in Keys \ {key} : redis'[k] = redis[k]
<1>1. CASE raw \notin ToSet(redis[key]) /\ UNCHANGED redis
  BY <1>1
<1>2. ASSUME NEW i \in DOMAIN redis[key],
             redis[key][i] = raw,
             redis' = [redis EXCEPT ![key] = RemoveAt(@, i)]
      PROVE  /\ i \in 1..Len(redis[key])
             /\ redis' \in [Keys -> Seq(Entries)]
             /\ redis'[key] = RemoveAt(redis[key], i)
             /\ \A k \in Keys \ {key} : redis'[k] = redis[k]
  <2>1. redis[key] \in Seq(Entries) /\ i \in 1..Len(redis[key])
    OBVIOUS
  <2>2. RemoveAt(redis[key], i) \in Seq(Entries)
    BY <2>1, RemoveAtLemma
  <2> QED  BY <2>1, <2>2, <1>2
<1> QED  BY <1>1, <1>2 DEF LRemOne

-----------------------------------------------------------------------------
(* Type correctness *)

\* A request stays a request of its type when its fields are assigned as the
\* actions assign them.
LEMMA RequestTypes ==
    /\ IdleGet \in GetRequests
    /\ IdleAck \in AckRequests
    /\ \A q \in CapacityQueries : ClampCapacity(q) \in Nat \ {0}
    /\ \A p \in PlatformQueries : RequestedPlatforms(p) \in Seq(Platforms)
    /\ \A r \in GetRequests : /\ NextList(r) \in GetRequests
                              /\ NextList(r).pc = r.pc
                              /\ NextList(r).worker = r.worker
                              /\ NextList(r).capacity = r.capacity
                              /\ NextList(r).platforms = r.platforms
                              /\ NextList(r).tasks = r.tasks
<1>1. IdleGet \in GetRequests
  BY MaxPriorityAssumption DEF IdleGet, GetRequests, Priorities
<1>2. IdleAck \in AckRequests
  BY DEF IdleAck, AckRequests
<1>3. \A q \in CapacityQueries : ClampCapacity(q) \in Nat \ {0}
  BY CapacityAssumption DEF ClampCapacity
<1>4. \A p \in PlatformQueries : RequestedPlatforms(p) \in Seq(Platforms)
  BY PlatformAssumption DEF RequestedPlatforms
<1>5. ASSUME NEW r \in GetRequests
      PROVE  NextList(r) \in GetRequests
  <2>1. r.priority \in 1..MaxPriority /\ r.at \in Nat \ {0}
    BY DEF GetRequests, Priorities
  <2>2. CASE r.priority < MaxPriority
    <3>1. r.priority + 1 \in Priorities
      BY <2>1, <2>2, MaxPriorityAssumption DEF Priorities
    <3>2. NextList(r) = [r EXCEPT !.priority = r.priority + 1]
      BY <2>2 DEF NextList
    <3> QED  BY <3>1, <3>2 DEF GetRequests
  <2>3. CASE ~(r.priority < MaxPriority)
    <3>1. r.at + 1 \in Nat \ {0} /\ 1 \in Priorities
      BY <2>1, MaxPriorityAssumption DEF Priorities
    <3>2. NextList(r) = [[r EXCEPT !.at = r.at + 1] EXCEPT !.priority = 1]
      BY <2>3 DEF NextList, GetRequests
    <3>3. [r EXCEPT !.at = r.at + 1] \in GetRequests
      BY <3>1 DEF GetRequests
    <3> QED  BY <3>1, <3>2, <3>3 DEF GetRequests
  <2> QED  BY <2>2, <2>3
<1>6. ASSUME NEW r \in GetRequests
      PROVE  /\ NextList(r).pc = r.pc
             /\ NextList(r).worker = r.worker
             /\ NextList(r).capacity = r.capacity
             /\ NextList(r).platforms = r.platforms
             /\ NextList(r).tasks = r.tasks
  BY DEF NextList, GetRequests
<1> QED  BY <1>1, <1>2, <1>3, <1>4, <1>5, <1>6

\* RPOPLPUSH by a request in progress: an entry of a queue moves to the
\* processing list of the request's worker.
LEMMA PopMoves ==
    ASSUME TypeOK, NEW c \in GetConns, Popping(c), MoveOldest(getReq[c])
    PROVE  LET src == SourceKey(getReq[c])
               dst == processingKey(getReq[c].worker)
           IN  /\ src \in QueueKeys /\ dst \in ProcessingKeys /\ src # dst
               /\ redis[src] # <<>>
               /\ RPopLPush(src, dst)
               /\ redis' \in [Keys -> Seq(Entries)]
               /\ redis'[src] = Front(redis[src])
               /\ redis'[dst] = Cons(Last(redis[src]), redis[dst])
               /\ \A k \in Keys \ {src, dst} : redis'[k] = redis[k]
               /\ Last(redis[src]) \in Entries
  BY PopKeys, MoveLemma DEF MoveOldest, TypeOK, Keys

\* LREM by an acknowledgement in progress.
LEMMA RemMoves ==
    ASSUME TypeOK, NEW c \in AckConns, ackReq[c].pc = "lrem",
           LRemOne(processingKey(ackReq[c].worker), ackReq[c].raw)
    PROVE  /\ processingKey(ackReq[c].worker) \in ProcessingKeys
           /\ redis' \in [Keys -> Seq(Entries)]
<1>1. ackReq[c].worker \in Workers
  BY DEF TypeOK
<1>2. processingKey(ackReq[c].worker) \in ProcessingKeys
  BY <1>1, KeyLemma
<1> QED  BY <1>2, RemLemma DEF TypeOK, Keys

\* The initial state has the right type.
LEMMA InitType == Init => TypeOK
<1> SUFFICES ASSUME Init PROVE TypeOK
  OBVIOUS
<1>1. redis \in [Keys -> Seq(Entries)]
  BY DEF Init
<1>2. getReq \in [GetConns -> GetRequests] /\ ackReq \in [AckConns -> AckRequests]
  BY RequestTypes DEF Init
<1>3. received \in [Workers -> SUBSET Entries] /\ faults \in 0..MaxFaults
  BY FaultAssumption DEF Init
<1>4. /\ \A c \in GetConns : getReq[c].pc = "idle"
      /\ \A c \in AckConns : ackReq[c].pc = "idle"
  BY DEF Init, IdleGet, IdleAck
<1> QED  BY <1>1, <1>2, <1>3, <1>4 DEF TypeOK

\* The step both gateways take with a payload they can read.
PopAppends(c) ==
    LET r == getReq[c]
        e == Last(redis[SourceKey(r)])
    IN  /\ Popping(c) /\ MoveOldest(r)
        /\ getReq' = [getReq EXCEPT ![c] =
                [NextList(r) EXCEPT !.tasks = Append(@, e)]]
        /\ ackReq' = ackReq /\ received' = received /\ faults' = faults

LEMMA PopTaskAppends ==
    ASSUME NEW c \in GetConns, PopTask(c) \/ LegacyPopTask(c)
    PROVE  PopAppends(c)
  BY DEF PopTask, LegacyPopTask, PopAppends

LEMMA AppendsType ==
    ASSUME TypeOK, NEW c \in GetConns, PopAppends(c)
    PROVE  TypeOK'
<1> USE DEF TypeOK
<1> DEFINE e == Last(redis[SourceKey(getReq[c])])
           n == NextList(getReq[c])
<1>1. redis' \in [Keys -> Seq(Entries)] /\ e \in Entries
  BY PopMoves DEF PopAppends
<1>2. n \in GetRequests /\ n.worker = getReq[c].worker
  BY RequestTypes
<1>3. Append(n.tasks, e) \in Seq(Entries)
  BY <1>1, <1>2, AppendProperties DEF GetRequests
<1>4. getReq' = [getReq EXCEPT ![c] = [n EXCEPT !.tasks = Append(n.tasks, e)]]
  BY DEF PopAppends
<1> HIDE DEF e, n
<1>5. /\ [n EXCEPT !.tasks = Append(n.tasks, e)] \in GetRequests
      /\ [n EXCEPT !.tasks = Append(n.tasks, e)].worker = getReq[c].worker
  BY <1>2, <1>3 DEF GetRequests
<1> QED  BY <1>1, <1>4, <1>5 DEF PopAppends, Popping

\* Every step keeps the types.
LEMMA NextType == TypeOK /\ [Next]_vars => TypeOK'
<1> SUFFICES ASSUME TypeOK, [Next]_vars PROVE TypeOK'
  OBVIOUS
<1> USE DEF TypeOK
<1>f. Fault => faults' \in 0..MaxFaults
  BY FaultAssumption DEF Fault
<1>1. ASSUME NEW e \in Entries, NEW k \in QueueKeys, PushTask(e, k)
      PROVE  TypeOK'
  <2>1. redis' \in [Keys -> Seq(Entries)]
    BY <1>1, ConsLemma DEF PushTask, Keys
  <2>2. received' \in [Workers -> SUBSET Entries]
    BY <1>1 DEF PushTask
  <2> QED  BY <1>1, <2>1, <2>2 DEF PushTask
<1>2. ASSUME NEW c \in GetConns, NEW w \in Workers, NEW q \in CapacityQueries,
             NEW p \in PlatformQueries, GetWork(c, w, q, p)
      PROVE  TypeOK'
  <2>1. getReq'[c] \in GetRequests /\ getReq'[c].worker = w
    <3>1. getReq'[c] =
            [pc |-> "pop", worker |-> w, capacity |-> ClampCapacity(q),
             platforms |-> RequestedPlatforms(p), at |-> 1, priority |-> 1,
             tasks |-> <<>>]
      BY <1>2 DEF GetWork, IdleGet
    <3>2. 1 \in Priorities
      BY MaxPriorityAssumption DEF Priorities
    <3> QED  BY <3>1, <3>2, RequestTypes DEF GetRequests
  <2> QED  BY <1>2, <2>1 DEF GetWork
<1>3. ASSUME NEW c \in GetConns, GetStep(c)
      PROVE  TypeOK'
  <2>i. IdleGet \in GetRequests /\ IdleGet.pc = "idle"
    BY RequestTypes DEF IdleGet
  <2>1. CASE PopEmpty(c)
    BY <2>1, RequestTypes DEF PopEmpty, Popping
  <2>2. CASE PopTask(c)
    BY <2>2, PopTaskAppends, AppendsType
  <2>3. CASE PopUndecodable(c)
    BY <2>3, <2>i, PopMoves DEF PopUndecodable
  <2>4. CASE PopFails(c)
    BY <2>4, <2>i, <1>f, PopMoves DEF PopFails
  <2>5. CASE PopResent(c)
    BY <2>5, <1>f, PopMoves DEF PopResent
  <2>6. CASE SendWork(c)
    <3>1. getReq[c].worker \in Workers /\ getReq[c].tasks \in Seq(Entries)
      BY <2>6 DEF SendWork, GetRequests
    <3>2. ToSet(getReq[c].tasks) \subseteq Entries
      BY <3>1 DEF ToSet
    <3> QED  BY <2>6, <2>i, <3>1, <3>2 DEF SendWork
  <2>7. CASE LoseWork(c)
    BY <2>7, <2>i, <1>f DEF LoseWork
  <2> QED  BY <1>3, <2>1, <2>2, <2>3, <2>4, <2>5, <2>6, <2>7 DEF GetStep
<1>4. ASSUME NEW c \in AckConns, NEW w \in Workers, NEW id \in TaskIds,
             AckRequest(c, w, id)
      PROVE  TypeOK'
  <2>1. /\ ackReq'[c] \in AckRequests
        /\ ackReq'[c].worker = w /\ ackReq'[c].pc = "lrange"
    BY <1>4 DEF AckRequest, IdleAck, AckRequests
  <2> QED  BY <1>4, <2>1 DEF AckRequest
<1>5. ASSUME NEW c \in AckConns, AckStep(c)
      PROVE  TypeOK'
  <2>i. IdleAck \in AckRequests /\ IdleAck.pc = "idle"
    BY RequestTypes DEF IdleAck
  <2>1. CASE AckLRange(c)
    <3> DEFINE list == redis[processingKey(ackReq[c].worker)]
    <3>1. ackReq[c].worker \in Workers /\ list \in Seq(Entries)
      BY <2>1, KeyLemma DEF AckLRange, Keys
    <3>2. ASSUME NEW i \in DOMAIN list,
                 ackReq' = [ackReq EXCEPT ![c] =
                        [ackReq[c] EXCEPT !.pc = "lrem", !.raw = list[i]]]
          PROVE  TypeOK'
      <4>1. list[i] \in Entries
        BY <3>1
      <4> HIDE DEF list
      <4>2. /\ ackReq'[c] \in AckRequests
            /\ ackReq'[c].worker = ackReq[c].worker
            /\ ackReq'[c].raw \in Entries
        BY <3>2, <4>1 DEF AckRequests
      <4> QED  BY <2>1, <3>1, <3>2, <4>2 DEF AckLRange
    <3>3. CASE ackReq' = [ackReq EXCEPT ![c] = [ackReq[c] EXCEPT !.pc = "reply"]]
      <4>1. /\ ackReq'[c] \in AckRequests
            /\ ackReq'[c].worker = ackReq[c].worker
            /\ ackReq'[c].pc = "reply"
        BY <3>3 DEF AckRequests
      <4> QED  BY <2>1, <3>1, <3>3, <4>1 DEF AckLRange
    <3> QED  BY <2>1, <3>2, <3>3 DEF AckLRange, FirstHolding
  <2>2. CASE AckLRangeFails(c)
    BY <2>2, <2>i, <1>f DEF AckLRangeFails
  <2>3. CASE AckLRem(c)
    <3>1. /\ ackReq'[c] \in AckRequests
          /\ ackReq'[c].worker = ackReq[c].worker
          /\ ackReq'[c].pc = "reply"
      BY <2>3 DEF AckLRem, AckRequests
    <3> QED  BY <2>3, <3>1, RemMoves DEF AckLRem
  <2>4. CASE AckLRemFails(c)
    <3>1. /\ ackReq'[c] \in AckRequests
          /\ ackReq'[c].worker = ackReq[c].worker
          /\ ackReq'[c].pc = "reply"
      BY <2>4 DEF AckLRemFails, AckRequests
    <3> QED  BY <2>4, <3>1, <1>f, RemMoves DEF AckLRemFails
  <2>5. CASE AckReply(c)
    BY <2>5, <2>i DEF AckReply
  <2> QED  BY <1>5, <2>1, <2>2, <2>3, <2>4, <2>5 DEF AckStep
<1>6. CASE Crash
  BY <1>6, <1>f, RequestTypes DEF Crash, IdleGet, IdleAck
<1>7. ASSUME NEW w \in Workers, WorkerRestart(w)
      PROVE  TypeOK'
  BY <1>7, <1>f DEF WorkerRestart
<1>8. CASE UNCHANGED vars
  BY <1>8 DEF vars
<1> QED  BY <1>1, <1>2, <1>3, <1>4, <1>5, <1>6, <1>7, <1>8 DEF Next

\* In every behaviour the lists hold payloads and each request in progress
\* names a worker, whatever the number of workers, lists and requests.
THEOREM TypeCorrect == Spec => []TypeOK
  BY InitType, NextType, PTL DEF Spec

-----------------------------------------------------------------------------
(* One place for each payload *)

\* The lists change in three ways only: a push of a payload in no list, a move
\* from a queue to a processing list, and LREM of an acknowledgement.
LEMMA ListSteps ==
    ASSUME TypeOK, [Next]_vars
    PROVE  \/ redis' = redis
           \/ \E e \in Entries, k \in QueueKeys : PushTask(e, k)
           \/ \E c \in GetConns : Popping(c) /\ MoveOldest(getReq[c])
           \/ \E c \in AckConns :
                 /\ ackReq[c].pc = "lrem"
                 /\ LRemOne(processingKey(ackReq[c].worker), ackReq[c].raw)
<1>1. ASSUME NEW c \in GetConns, GetStep(c)
      PROVE  redis' = redis \/ (Popping(c) /\ MoveOldest(getReq[c]))
  BY <1>1 DEF GetStep, PopEmpty, PopTask, PopUndecodable, PopFails, PopResent,
              SendWork, LoseWork
<1>2. ASSUME NEW c \in AckConns, AckStep(c)
      PROVE  \/ redis' = redis
             \/ /\ ackReq[c].pc = "lrem"
                /\ LRemOne(processingKey(ackReq[c].worker), ackReq[c].raw)
  BY <1>2 DEF AckStep, AckLRange, AckLRangeFails, AckLRem, AckLRemFails, AckReply
<1> QED  BY <1>1, <1>2 DEF Next, vars, GetWork, AckRequest, Crash, WorkerRestart

\* A pushed payload was in no list.
LEMMA PushKeepsOnePlace ==
    ASSUME TypeOK, OnePlace, NEW e \in Entries, NEW key \in QueueKeys,
           PushTask(e, key)
    PROVE  OnePlace'
<1>1. /\ redis \in [Keys -> Seq(Entries)]
      /\ key \in Keys
      /\ redis' = [redis EXCEPT ![key] = Cons(e, redis[key])]
      /\ \A k \in Keys : e \notin ToSet(redis[k])
  BY DEF TypeOK, PushTask, Mentioned, Stored, Keys
<1>2. /\ redis'[key] \in Seq(Entries)
      /\ Len(redis'[key]) = Len(redis[key]) + 1
      /\ redis'[key][1] = e
      /\ \A i \in 2..(Len(redis[key]) + 1) : redis'[key][i] = redis[key][i - 1]
  <2>1. redis[key] \in Seq(Entries) /\ redis'[key] = Cons(e, redis[key])
    BY <1>1
  <2> DEFINE s == redis[key]
             t == redis'[key]
  <2> HIDE DEF s, t
  <2>2. s \in Seq(Entries) /\ t = Cons(e, s)
    BY <2>1 DEF s, t
  <2>3. /\ t \in Seq(Entries) /\ Len(t) = Len(s) + 1 /\ t[1] = e
        /\ \A i \in 2..(Len(s) + 1) : t[i] = s[i - 1]
    BY <2>2, ConsLemma
  <2> QED  BY <2>3 DEF s, t
<1>3. \A k \in Keys : \A i \in DOMAIN redis[k] : redis[k][i] # e
  BY <1>1 DEF ToSet
<1>4. SUFFICES ASSUME NEW k1 \in Keys, NEW k2 \in Keys,
                      NEW i \in DOMAIN redis'[k1], NEW j \in DOMAIN redis'[k2],
                      redis'[k1][i] = redis'[k2][j]
               PROVE  k1 = k2 /\ i = j
  BY <1>1 DEF OnePlace
<1>5. ASSUME NEW k \in Keys, NEW x \in DOMAIN redis'[k]
      PROVE  \/ k = key /\ x = 1 /\ redis'[k][x] = e
             \/ /\ k = key /\ x \in 2..(Len(redis[k]) + 1)
                /\ x - 1 \in DOMAIN redis[k] /\ redis'[k][x] = redis[k][x - 1]
             \/ k # key /\ x \in DOMAIN redis[k] /\ redis'[k][x] = redis[k][x]
  BY <1>1, <1>2
<1>6. /\ \A k \in Keys : DOMAIN redis[k] \subseteq Int
      /\ \A k, l \in Keys : \A x \in DOMAIN redis[k], y \in DOMAIN redis[l] :
            redis[k][x] = redis[l][y] => k = l /\ x = y
  BY <1>1 DEF OnePlace
<1> QED  BY <1>3, <1>4, <1>5, <1>6

\* RPOPLPUSH removes the payload it adds to the processing list: each place
\* after the move is one place before it.
LEMMA MoveKeepsOnePlace ==
    ASSUME TypeOK, OnePlace, NEW c \in GetConns, Popping(c),
           MoveOldest(getReq[c])
    PROVE  OnePlace'
<1> DEFINE src == SourceKey(getReq[c])
           dst == processingKey(getReq[c].worker)
<1>1. /\ redis \in [Keys -> Seq(Entries)] /\ redis' \in [Keys -> Seq(Entries)]
      /\ src \in Keys /\ dst \in Keys /\ src # dst /\ redis[src] # <<>>
      /\ redis'[src] = Front(redis[src])
      /\ redis'[dst] = Cons(Last(redis[src]), redis[dst])
      /\ \A k \in Keys \ {src, dst} : redis'[k] = redis[k]
      /\ Last(redis[src]) \in Entries
  BY PopMoves DEF TypeOK, Keys
<1> DEFINE s == redis[src]
           d == redis[dst]
           s2 == redis'[src]
           d2 == redis'[dst]
<1> HIDE DEF src, dst
<1>2. /\ s \in Seq(Entries) /\ d \in Seq(Entries)
      /\ s # <<>> /\ s2 = Front(s) /\ d2 = Cons(Last(s), d)
      /\ Last(s) \in Entries
  BY <1>1
<1> HIDE DEF s, d, s2, d2
<1>3. /\ Len(s) \in DOMAIN s /\ Len(s) \in Nat
      /\ \A x \in DOMAIN s2 : x \in DOMAIN s /\ x < Len(s) /\ s2[x] = s[x]
  BY <1>2, FrontLemma
<1>4. \A x \in DOMAIN d2 :
         \/ x = 1 /\ d2[x] = s[Len(s)]
         \/ x # 1 /\ x \in Nat /\ x - 1 \in DOMAIN d /\ d2[x] = d[x - 1]
  <2>1. /\ d2 \in Seq(Entries) /\ Len(d2) = Len(d) + 1
        /\ d2[1] = s[Len(s)]
        /\ \A i \in 2..(Len(d) + 1) : d2[i] = d[i - 1]
    <3>1. Last(s) = s[Len(s)]
      BY <1>2, FrontLemma
    <3> QED  BY <1>2, <3>1, ConsLemma
  <2>2. Len(d) \in Nat /\ DOMAIN d = 1..Len(d) /\ DOMAIN d2 = 1..(Len(d) + 1)
    BY <1>2, <2>1
  <2> QED  BY <2>1, <2>2
\* Where the element at place x of list k was before the move.
<1> DEFINE From(k, x, o, y) ==
              \/ k = dst /\ x = 1 /\ o = src /\ y = Len(s)
              \/ k = dst /\ x # 1 /\ o = dst /\ y = x - 1 /\ x \in Nat
              \/ k = src /\ o = src /\ y = x /\ x < Len(s)
              \/ k \notin {src, dst} /\ o = k /\ y = x
<1>5. ASSUME NEW k \in Keys, NEW x \in DOMAIN redis'[k]
      PROVE  \E o \in Keys : \E y \in DOMAIN redis[o] :
                redis'[k][x] = redis[o][y] /\ From(k, x, o, y)
  <2>1. CASE k = dst /\ x = 1
    <3>1. Len(s) \in DOMAIN redis[src] /\ redis'[k][x] = redis[src][Len(s)]
      BY <1>3, <1>4, <2>1 DEF s, d2
    <3> QED  BY <1>1, <2>1, <3>1
  <2>2. CASE k = dst /\ x # 1
    <3>1. x \in Nat /\ x - 1 \in DOMAIN redis[dst] /\ redis'[k][x] = redis[dst][x - 1]
      BY <1>4, <2>2 DEF d, d2
    <3> QED  BY <1>1, <2>2, <3>1
  <2>3. CASE k = src
    <3>1. x \in DOMAIN redis[src] /\ x < Len(s) /\ redis'[k][x] = redis[src][x]
      BY <1>3, <2>3 DEF s, s2
    <3> QED  BY <1>1, <2>3, <3>1
  <2>4. CASE k \notin {src, dst}
    BY <1>1, <2>4
  <2> QED  BY <2>1, <2>2, <2>3, <2>4
<1> SUFFICES ASSUME NEW k1 \in Keys, NEW k2 \in Keys,
                    NEW i \in DOMAIN redis'[k1], NEW j \in DOMAIN redis'[k2],
                    redis'[k1][i] = redis'[k2][j]
             PROVE  k1 = k2 /\ i = j
  BY <1>1 DEF OnePlace
<1>6. PICK o1 \in Keys : \E y \in DOMAIN redis[o1] :
              redis'[k1][i] = redis[o1][y] /\ From(k1, i, o1, y)
  BY <1>5
<1>7. PICK y1 \in DOMAIN redis[o1] :
              redis'[k1][i] = redis[o1][y1] /\ From(k1, i, o1, y1)
  BY <1>6
<1>8. PICK o2 \in Keys : \E y \in DOMAIN redis[o2] :
              redis'[k2][j] = redis[o2][y] /\ From(k2, j, o2, y)
  BY <1>5
<1>9. PICK y2 \in DOMAIN redis[o2] :
              redis'[k2][j] = redis[o2][y2] /\ From(k2, j, o2, y2)
  BY <1>8
<1>10. o1 = o2 /\ y1 = y2
  <2>1. redis[o1][y1] = redis[o2][y2]
    BY <1>7, <1>9
  <2>2. DOMAIN redis = Keys
    BY <1>1
  <2> QED  BY <2>1, <2>2 DEF OnePlace
<1> QED  BY <1>1, <1>3, <1>7, <1>9, <1>10

\* LREM adds no payload.
LEMMA RemovalKeepsOnePlace ==
    ASSUME TypeOK, OnePlace, NEW key \in Keys, NEW raw, LRemOne(key, raw)
    PROVE  OnePlace'
<1>1. redis \in [Keys -> Seq(Entries)] /\ key \in Keys
  BY DEF TypeOK
<1>2. CASE redis' = redis
  BY <1>2 DEF OnePlace
<1>3. ASSUME NEW i \in 1..Len(redis[key]),
             redis' \in [Keys -> Seq(Entries)],
             redis'[key] = RemoveAt(redis[key], i),
             \A k \in Keys \ {key} : redis'[k] = redis[k]
      PROVE  OnePlace'
  <2>1. /\ Len(redis'[key]) = Len(redis[key]) - 1
        /\ \A j \in 1..(Len(redis[key]) - 1) :
              redis'[key][j] = IF j < i THEN redis[key][j] ELSE redis[key][j + 1]
    BY <1>1, <1>3, RemoveAtLemma
  <2>2. SUFFICES ASSUME NEW k1 \in Keys, NEW k2 \in Keys,
                        NEW x \in DOMAIN redis'[k1], NEW y \in DOMAIN redis'[k2],
                        redis'[k1][x] = redis'[k2][y]
                 PROVE  k1 = k2 /\ x = y
    BY <1>3 DEF OnePlace
  <2>3. ASSUME NEW k \in Keys, NEW z \in DOMAIN redis'[k]
        PROVE  /\ z \in Nat
               /\ \/ /\ k = key /\ z < i
                     /\ z \in DOMAIN redis[k] /\ redis'[k][z] = redis[k][z]
                  \/ /\ k = key /\ z >= i
                     /\ z + 1 \in DOMAIN redis[k] /\ redis'[k][z] = redis[k][z + 1]
                  \/ /\ k # key
                     /\ z \in DOMAIN redis[k] /\ redis'[k][z] = redis[k][z]
    <3>1. /\ DOMAIN redis'[k] = 1..Len(redis'[k])
          /\ DOMAIN redis[k] = 1..Len(redis[k])
          /\ Len(redis[k]) \in Nat /\ Len(redis'[k]) \in Nat
      BY <1>1, <1>3
    <3>2. CASE k = key
      BY <2>1, <3>1, <3>2
    <3>3. CASE k # key
      BY <1>3, <3>1, <3>3
    <3> QED  BY <3>2, <3>3
  <2>4. \A k, l \in Keys : \A a \in DOMAIN redis[k], b \in DOMAIN redis[l] :
            redis[k][a] = redis[l][b] => k = l /\ a = b
    BY <1>1 DEF OnePlace
  <2> QED  BY <2>2, <2>3, <2>4
<1> QED  BY <1>1, <1>2, <1>3, RemLemma

LEMMA RemKeepsOnePlace ==
    ASSUME TypeOK, OnePlace, NEW c \in AckConns, ackReq[c].pc = "lrem",
           LRemOne(processingKey(ackReq[c].worker), ackReq[c].raw)
    PROVE  OnePlace'
<1>1. processingKey(ackReq[c].worker) \in Keys
  BY RemMoves DEF Keys
<1> QED  BY <1>1, RemovalKeepsOnePlace

\* Every step keeps each payload in one place.
LEMMA NextOnePlace == TypeOK /\ OnePlace /\ [Next]_vars => OnePlace'
<1> SUFFICES ASSUME TypeOK, OnePlace, [Next]_vars
             PROVE  OnePlace'
  OBVIOUS
<1>1. CASE redis' = redis
  BY <1>1 DEF OnePlace
<1> QED  BY <1>1, ListSteps, PushKeepsOnePlace, MoveKeepsOnePlace, RemKeepsOnePlace

\* No interleaving of pops, acknowledgements, failed commands and crashes
\* copies a payload: it is in one place of one list.
THEOREM PayloadsInOnePlace == Spec => []OnePlace
<1>1. Init => OnePlace
  BY DEF Init, OnePlace
<1>2. TypeOK /\ OnePlace /\ [Next]_vars => OnePlace'
  BY NextOnePlace
<1> QED  BY <1>1, <1>2, TypeCorrect, PTL DEF Spec

\* LREM of one value leaves the others.
LEMMA RemKeepsOthers ==
    ASSUME redis \in [Keys -> Seq(Entries)], NEW key \in Keys, NEW raw,
           LRemOne(key, raw), NEW k \in Keys, NEW e \in ToSet(redis[k])
    PROVE  e \in ToSet(redis'[k]) \/ (k = key /\ e = raw)
<1>1. CASE redis' = redis
  BY <1>1
<1>2. ASSUME NEW i \in 1..Len(redis[key]), redis[key][i] = raw,
             redis'[key] = RemoveAt(redis[key], i), k = key, e # raw
      PROVE  e \in ToSet(redis'[k])
  <2> DEFINE s == redis[key]
             t == RemoveAt(s, i)
  <2>1. /\ t \in Seq(Entries) /\ Len(t) = Len(s) - 1 /\ Len(s) \in Nat
        /\ \A j \in 1..(Len(s) - 1) : t[j] = IF j < i THEN s[j] ELSE s[j + 1]
    BY <1>2, RemoveAtLemma
  <2>2. PICK n \in 1..Len(s) : s[n] = e
    BY <1>2 DEF ToSet
  <2>3. n # i
    BY <1>2, <2>2
  <2> HIDE DEF s, t
  <2>4. \E j \in 1..Len(t) : t[j] = e
    <3>1. CASE n < i
      <4>1. n \in 1..Len(t) /\ t[n] = s[n]
        BY <1>2, <2>1, <2>2, <3>1 DEF s
      <4> QED  BY <2>2, <4>1
    <3>2. CASE n > i
      <4>1. n - 1 \in 1..Len(t) /\ t[n - 1] = s[n]
        BY <1>2, <2>1, <2>2, <3>2 DEF s
      <4> QED  BY <2>2, <4>1
    <3> QED  BY <1>2, <2>2, <2>3, <3>1, <3>2
  <2>5. e \in ToSet(t)
    BY <2>1, <2>4 DEF ToSet
  <2> QED  BY <1>2, <2>5 DEF s, t
<1> QED  BY <1>1, <1>2, RemLemma

-----------------------------------------------------------------------------
(* The queue implements the ledger *)

\* No list holds a payload twice, and no two lists hold one payload.
LEMMA OnePlaceSets ==
    ASSUME TypeOK, OnePlace
    PROVE  /\ \A k \in Keys : /\ redis[k] \in Seq(Entries)
                              /\ \A i, j \in DOMAIN redis[k] :
                                    redis[k][i] = redis[k][j] => i = j
           /\ \A k, l \in Keys : \A e :
                 e \in ToSet(redis[k]) /\ e \in ToSet(redis[l]) => k = l
<1>1. DOMAIN redis = Keys /\ \A k \in Keys : redis[k] \in Seq(Entries)
  BY DEF TypeOK
<1> QED  BY <1>1 DEF OnePlace, ToSet

\* The contents of the lists after each of the three steps.
LEMMA PushSets ==
    ASSUME TypeOK, NEW e \in Entries, NEW key \in QueueKeys, PushTask(e, key)
    PROVE  /\ ToSet(redis'[key]) = ToSet(redis[key]) \cup {e}
           /\ \A k \in Keys \ {key} : redis'[k] = redis[k]
           /\ \A k \in Keys : e \notin ToSet(redis[k])
<1>1. redis[key] \in Seq(Entries) /\ redis'[key] = Cons(e, redis[key])
  BY DEF TypeOK, PushTask, Keys
<1>2. ToSet(Cons(e, redis[key])) = ToSet(redis[key]) \cup {e}
  BY <1>1, ConsSet
<1> QED  BY <1>1, <1>2 DEF TypeOK, PushTask, Mentioned, Stored, Keys

\* RPOPLPUSH: the last payload of the queue goes to the processing list.
LEMMA MoveSets ==
    ASSUME TypeOK, OnePlace, NEW c \in GetConns, Popping(c),
           MoveOldest(getReq[c])
    PROVE  LET src == SourceKey(getReq[c])
               dst == processingKey(getReq[c].worker)
               e   == Last(redis[src])
           IN  /\ src \in QueueKeys /\ dst \in ProcessingKeys
               /\ e \in ToSet(redis[src]) /\ e \in Entries
               /\ ToSet(redis'[src]) = ToSet(redis[src]) \ {e}
               /\ ToSet(redis'[dst]) = ToSet(redis[dst]) \cup {e}
               /\ \A k \in Keys \ {src, dst} : redis'[k] = redis[k]
<1> DEFINE src == SourceKey(getReq[c])
           dst == processingKey(getReq[c].worker)
           s == redis[src]
           d == redis[dst]
<1>1. /\ src \in QueueKeys /\ dst \in ProcessingKeys
      /\ src \in Keys /\ dst \in Keys
      /\ s # <<>> /\ Last(s) \in Entries
      /\ redis'[src] = Front(s)
      /\ redis'[dst] = Cons(Last(s), d)
      /\ \A k \in Keys \ {src, dst} : redis'[k] = redis[k]
  BY PopMoves DEF Keys
<1>2. /\ s \in Seq(Entries) /\ d \in Seq(Entries)
      /\ \A i, j \in DOMAIN s : s[i] = s[j] => i = j
  BY <1>1, OnePlaceSets
<1> HIDE DEF s, d
<1>3. /\ ToSet(Front(s)) = ToSet(s) \ {Last(s)}
      /\ ToSet(Cons(Last(s), d)) = ToSet(d) \cup {Last(s)}
      /\ Last(s) \in ToSet(s)
  <2>1. ToSet(Front(s)) = ToSet(s) \ {Last(s)}
    BY <1>1, <1>2, FrontSet
  <2>2. ToSet(Cons(Last(s), d)) = ToSet(d) \cup {Last(s)}
    BY <1>1, <1>2, ConsSet
  <2>3. Len(s) \in DOMAIN s /\ Last(s) = s[Len(s)]
    BY <1>1, <1>2, FrontLemma
  <2> QED  BY <2>1, <2>2, <2>3 DEF ToSet
<1> QED  BY <1>1, <1>3 DEF s, d

\* LREM: the payload is gone from the list.
LEMMA RemovalSets ==
    ASSUME TypeOK, OnePlace, NEW key \in Keys, NEW raw, LRemOne(key, raw)
    PROVE  /\ ToSet(redis'[key]) = ToSet(redis[key]) \ {raw}
           /\ \A k \in Keys \ {key} : redis'[k] = redis[k]
<1>1. redis \in [Keys -> Seq(Entries)]
  BY DEF TypeOK
<1>3. CASE redis' = redis /\ raw \notin ToSet(redis[key])
  BY <1>1, <1>3
<1>4. ASSUME NEW i \in 1..Len(redis[key]), redis[key][i] = raw,
             redis'[key] = RemoveAt(redis[key], i),
             \A k \in Keys \ {key} : redis'[k] = redis[k]
      PROVE  ToSet(redis'[key]) = ToSet(redis[key]) \ {raw}
  BY <1>1, <1>4, OnePlaceSets, RemoveAtSet
<1> QED  BY <1>1, <1>3, <1>4, RemLemma

LEMMA RemSets ==
    ASSUME TypeOK, OnePlace, NEW c \in AckConns, ackReq[c].pc = "lrem",
           LRemOne(processingKey(ackReq[c].worker), ackReq[c].raw)
    PROVE  LET key == processingKey(ackReq[c].worker)
               raw == ackReq[c].raw
           IN  /\ key \in ProcessingKeys /\ raw \in Entries
               /\ ToSet(redis'[key]) = ToSet(redis[key]) \ {raw}
               /\ \A k \in Keys \ {key} : redis'[k] = redis[k]
<1>1. /\ processingKey(ackReq[c].worker) \in ProcessingKeys
      /\ processingKey(ackReq[c].worker) \in Keys /\ ackReq[c].raw \in Entries
  BY RemMoves DEF TypeOK, Keys
<1> QED  BY <1>1, RemovalSets

\* The ledger starts empty.
LEMMA InitLedger == Init => Ledger!Init
<1> SUFFICES ASSUME Init PROVE Ledger!Init
  OBVIOUS
<1>1. \A k \in Keys : ToSet(redis[k]) = {}
  BY DEF Init, ToSet
<1>2. \A w \in Workers : processingKey(w) \in Keys
  BY KeyLemma DEF Keys
<1> QED  BY <1>1, <1>2 DEF Ledger!Init, Waiting, Claimed, Keys

\* A move from a queue is a claim of the ledger.
LEMMA MoveClaims ==
    ASSUME TypeOK, OnePlace, NEW c \in GetConns, Popping(c), MoveOldest(getReq[c])
    PROVE  \E w \in Workers, e \in Entries : Ledger!Claim(w, e)
<1>k. /\ \A w \in Workers : processingKey(w) \in Keys
      /\ QueueKeys \subseteq Keys /\ ProcessingKeys \subseteq Keys
  BY KeyLemma DEF Keys
<1> DEFINE src == SourceKey(getReq[c])
           w == getReq[c].worker
           dst == processingKey(w)
           e == Last(redis[src])
<1>1. /\ src \in QueueKeys /\ dst \in ProcessingKeys
      /\ e \in ToSet(redis[src]) /\ e \in Entries
      /\ ToSet(redis'[src]) = ToSet(redis[src]) \ {e}
      /\ ToSet(redis'[dst]) = ToSet(redis[dst]) \cup {e}
      /\ \A k \in Keys \ {src, dst} : redis'[k] = redis[k]
  BY MoveSets
<1>2. w \in Workers
  BY PopKeys
<1> HIDE DEF src, w, e
<1>3. Waiting' = Waiting \ {e} /\ e \in Waiting
  <2>1. \A k \in QueueKeys : k # dst
    BY <1>1, KeyLemma
  <2>2. \A k \in QueueKeys : k # src => e \notin ToSet(redis[k])
    BY <1>k, <1>1, OnePlaceSets
  <2> QED  BY <1>k, <1>1, <2>1, <2>2 DEF Waiting
<1>4. Claimed' = [Claimed EXCEPT ![w] = @ \cup {e}]
  <2>1. \A v \in Workers : processingKey(v) # src
    BY <1>1, KeyLemma
  <2>2. \A v \in Workers \ {w} :
           redis'[processingKey(v)] = redis[processingKey(v)]
    BY <1>k, <1>1, <1>2, <2>1, KeyLemma
  <2> QED  BY <1>1, <1>2, <2>2 DEF Claimed
<1> QED  BY <1>1, <1>2, <1>3, <1>4 DEF Ledger!Claim

\* LREM of one value from a processing list settles it, or finds it settled.
LEMMA RemovalSettles ==
    ASSUME TypeOK, OnePlace, NEW w \in Workers, NEW e,
           LRemOne(processingKey(w), e)
    PROVE  UNCHANGED <<Waiting, Claimed>> \/ Ledger!Settle(w, e)
<1>k. /\ \A v \in Workers : processingKey(v) \in Keys
      /\ QueueKeys \subseteq Keys
  BY KeyLemma DEF Keys
<1> DEFINE key == processingKey(w)
<1>1. /\ key \in ProcessingKeys
      /\ ToSet(redis'[key]) = ToSet(redis[key]) \ {e}
      /\ \A k \in Keys \ {key} : redis'[k] = redis[k]
  BY <1>k, RemovalSets, KeyLemma
<1>2. Waiting' = Waiting
  <2>1. \A k \in QueueKeys : redis'[k] = redis[k]
    BY <1>k, <1>1, KeyLemma
  <2> QED  BY <2>1 DEF Waiting
<1>3. Claimed' = [Claimed EXCEPT ![w] = @ \ {e}]
  <2>1. \A v \in Workers \ {w} :
           redis'[processingKey(v)] = redis[processingKey(v)]
    BY <1>k, <1>1, KeyLemma
  <2> QED  BY <1>1, <2>1 DEF Claimed
<1>4. CASE e \in Claimed[w]
  BY <1>2, <1>3, <1>4 DEF Ledger!Settle
<1>5. CASE e \notin Claimed[w]
  BY <1>2, <1>3, <1>5 DEF Claimed
<1> QED  BY <1>4, <1>5

\* Each step is a step of the ledger or changes nothing there.
LEMMA NextLedger ==
    TypeOK /\ OnePlace /\ [Next]_vars => [Ledger!Next]_<<Waiting, Claimed>>
<1> SUFFICES ASSUME TypeOK, OnePlace, [Next]_vars
             PROVE  Ledger!Next \/ UNCHANGED <<Waiting, Claimed>>
  OBVIOUS
<1>k. /\ \A w \in Workers : processingKey(w) \in Keys
      /\ QueueKeys \subseteq Keys /\ ProcessingKeys \subseteq Keys
  BY KeyLemma DEF Keys
<1>1. CASE redis' = redis
  BY <1>1 DEF Waiting, Claimed
<1>2. ASSUME NEW e \in Entries, NEW key \in QueueKeys, PushTask(e, key)
      PROVE  Ledger!Submit(e)
  <2>1. /\ ToSet(redis'[key]) = ToSet(redis[key]) \cup {e}
        /\ \A k \in Keys \ {key} : redis'[k] = redis[k]
        /\ \A k \in Keys : e \notin ToSet(redis[k])
    BY <1>2, PushSets
  <2>2. Waiting' = Waiting \cup {e} /\ e \notin Waiting
    BY <1>k, <2>1 DEF Waiting
  <2>3. \A w \in Workers : redis'[processingKey(w)] = redis[processingKey(w)]
    BY <1>k, <2>1, KeyLemma
  <2>4. Claimed' = Claimed /\ \A w \in Workers : e \notin Claimed[w]
    BY <1>k, <2>1, <2>3 DEF Claimed
  <2> QED  BY <2>2, <2>4 DEF Ledger!Submit
<1>3. ASSUME NEW c \in GetConns, Popping(c), MoveOldest(getReq[c])
      PROVE  \E w \in Workers, e \in Entries : Ledger!Claim(w, e)
  BY <1>3, MoveClaims
<1>4. ASSUME NEW c \in AckConns, ackReq[c].pc = "lrem",
             LRemOne(processingKey(ackReq[c].worker), ackReq[c].raw)
      PROVE  UNCHANGED <<Waiting, Claimed>> \/ Ledger!Next
  <2>1. ackReq[c].worker \in Workers /\ ackReq[c].raw \in Entries
    BY <1>4 DEF TypeOK
  <2> QED  BY <1>4, <2>1, RemovalSettles DEF Ledger!Next
<1> QED  BY <1>1, <1>2, <1>3, <1>4, ListSteps DEF Ledger!Next

\* The gateway keeps the ledger's promise: a payload waits, is claimed by one
\* worker, and stays claimed by it until it is settled.
THEOREM QueueImplementsLedger == Spec => ImplementsLedger
<1>1. Spec => [](TypeOK /\ OnePlace)
  BY TypeCorrect, PayloadsInOnePlace, PTL
<1> QED  BY <1>1, InitLedger, NextLedger, PTL DEF Spec, ImplementsLedger, Ledger!Spec

-----------------------------------------------------------------------------
(* Acknowledgements: LRANGE and LREM are two commands, and others run between *)
(* them.                                                                    *)

\* Between its LRANGE and its LREM, a request knows an entry that is in the
\* processing list of its worker or in no list; after a LREM that did not
\* fail, the entry is in no list.
AckInv ==
    \A c \in AckConns :
        LET r == ackReq[c]
        IN  /\ r.ok => r.pc = "reply"
            /\ r.pc = "lrem" => \A k \in Keys : r.raw \in ToSet(redis[k])
                                   => k = processingKey(r.worker)
            /\ r.ok => \A k \in Keys : r.raw \notin ToSet(redis[k])

\* The entry a request of the Go gateway knows holds its task id.
ChosenHeld ==
    \A c \in AckConns :
        ackReq[c].pc = "lrem" => Holds(ackReq[c].raw, ackReq[c].id)

\* A payload comes to a list from a producer that never saw it mentioned, or
\* to a processing list from a queue.
LEMMA NewPlaces ==
    ASSUME TypeOK, OnePlace, [Next]_vars,
           NEW k \in Keys, NEW e \in ToSet(redis'[k])
    PROVE  \/ e \in ToSet(redis[k])
           \/ ~Mentioned(e) /\ UNCHANGED ackReq
           \/ k \in ProcessingKeys /\ \E q \in QueueKeys : e \in ToSet(redis[q])
<1>1. CASE redis' = redis
  BY <1>1
<1>2. ASSUME NEW f \in Entries, NEW key \in QueueKeys, PushTask(f, key)
      PROVE  e \in ToSet(redis[k]) \/ (~Mentioned(e) /\ UNCHANGED ackReq)
  <2>1. ~Mentioned(f) /\ UNCHANGED ackReq
    BY <1>2 DEF PushTask
  <2>2. /\ ToSet(redis'[key]) = ToSet(redis[key]) \cup {f}
        /\ \A l \in Keys \ {key} : redis'[l] = redis[l]
    BY <1>2, PushSets
  <2> QED  BY <2>1, <2>2
<1>3. ASSUME NEW c \in GetConns, Popping(c), MoveOldest(getReq[c])
      PROVE  \/ e \in ToSet(redis[k])
             \/ /\ k \in ProcessingKeys
                /\ \E q \in QueueKeys : e \in ToSet(redis[q])
  <2> DEFINE src == SourceKey(getReq[c])
             dst == processingKey(getReq[c].worker)
             f   == Last(redis[src])
  <2>1. /\ src \in QueueKeys /\ dst \in ProcessingKeys
        /\ f \in ToSet(redis[src])
        /\ ToSet(redis'[src]) = ToSet(redis[src]) \ {f}
        /\ ToSet(redis'[dst]) = ToSet(redis[dst]) \cup {f}
        /\ \A l \in Keys \ {src, dst} : redis'[l] = redis[l]
    BY <1>3, MoveSets
  <2> HIDE DEF src, dst, f
  <2> QED  BY <2>1
<1>4. ASSUME NEW c \in AckConns, ackReq[c].pc = "lrem",
             LRemOne(processingKey(ackReq[c].worker), ackReq[c].raw)
      PROVE  e \in ToSet(redis[k])
  <2> DEFINE key == processingKey(ackReq[c].worker)
  <2>1. /\ ToSet(redis'[key]) = ToSet(redis[key]) \ {ackReq[c].raw}
        /\ \A l \in Keys \ {key} : redis'[l] = redis[l]
    BY <1>4, RemSets
  <2> HIDE DEF key
  <2> QED  BY <2>1
<1> QED  BY <1>1, <1>2, <1>3, <1>4, ListSteps

\* A payload a request chose, or removed, comes back to no list.
LEMMA ChosenStaysAway ==
    ASSUME TypeOK, OnePlace, [Next]_vars, NEW c \in AckConns, NEW k \in Keys,
           ackReq[c].raw \in ToSet(redis'[k]),
           \A q \in QueueKeys : ackReq[c].raw \notin ToSet(redis[q])
    PROVE  ackReq[c].raw \in ToSet(redis[k])
<1>1. Mentioned(ackReq[c].raw)
  BY DEF Mentioned
<1> QED  BY <1>1, NewPlaces

\* What a step may do to an acknowledgement.
LEMMA AckSteps ==
    ASSUME TypeOK, [Next]_vars, NEW c \in AckConns
    PROVE  LET r  == ackReq[c]
               r2 == ackReq'[c]
               list == redis[processingKey(r.worker)]
           IN  \/ r2 = r
               \/ r2.pc \in {"idle", "lrange"} /\ ~r2.ok
               \/ r.pc \in {"lrange", "lrem"} /\ r2.pc = "reply" /\ r2.ok = r.ok
               \/ /\ r.pc = "lrange" /\ redis' = redis
                  /\ r2.pc = "lrem" /\ r2.ok = r.ok /\ r2.worker = r.worker
                  /\ \E i \in DOMAIN list : r2.raw = list[i] /\ Holds(r2.raw, r2.id)
               \/ /\ r.pc = "lrem" /\ LRemOne(processingKey(r.worker), r.raw)
                  /\ r2.pc = "reply" /\ r2.raw = r.raw /\ r2.worker = r.worker
<1> DEFINE list(w) == redis[processingKey(w)]
           Changes(r, r2) ==
               \/ r2 = r
               \/ r2.pc \in {"idle", "lrange"} /\ ~r2.ok
               \/ r.pc \in {"lrange", "lrem"} /\ r2.pc = "reply" /\ r2.ok = r.ok
               \/ /\ r.pc = "lrange" /\ redis' = redis
                  /\ r2.pc = "lrem" /\ r2.ok = r.ok /\ r2.worker = r.worker
                  /\ \E i \in DOMAIN list(r.worker) :
                        r2.raw = list(r.worker)[i] /\ Holds(r2.raw, r2.id)
               \/ /\ r.pc = "lrem" /\ LRemOne(processingKey(r.worker), r.raw)
                  /\ r2.pc = "reply" /\ r2.raw = r.raw /\ r2.worker = r.worker
<1> SUFFICES Changes(ackReq[c], ackReq'[c])
  OBVIOUS
<1>1. ackReq \in [AckConns -> AckRequests]
  BY DEF TypeOK
<1>2. ASSUME NEW d \in AckConns, AckLRange(d)
      PROVE  Changes(ackReq[c], ackReq'[c])
  <2>1. CASE d # c
    BY <1>1, <1>2, <2>1 DEF AckLRange
  <2>2. CASE d = c
    <3>1. ASSUME NEW i \in DOMAIN list(ackReq[c].worker),
                 FirstHolding(list(ackReq[c].worker), ackReq[c].id, i),
                 ackReq' = [ackReq EXCEPT ![c] =
                     [ackReq[c] EXCEPT !.pc = "lrem",
                                       !.raw = list(ackReq[c].worker)[i]]]
          PROVE  Changes(ackReq[c], ackReq'[c])
      <4>1. Holds(list(ackReq[c].worker)[i], ackReq[c].id)
        BY <3>1 DEF FirstHolding
      <4>2. ackReq'[c] = [ackReq[c] EXCEPT !.pc = "lrem",
                                           !.raw = list(ackReq[c].worker)[i]]
        BY <1>1, <3>1
      <4>3. ackReq[c].pc = "lrange" /\ redis' = redis
        BY <1>2, <2>2 DEF AckLRange
      <4> QED  BY <1>1, <4>1, <4>2, <4>3 DEF AckRequests
    <3>2. CASE ackReq' = [ackReq EXCEPT ![c] = [ackReq[c] EXCEPT !.pc = "reply"]]
      BY <1>1, <1>2, <2>2, <3>2 DEF AckLRange, AckRequests
    <3> QED  BY <1>2, <2>2, <3>1, <3>2 DEF AckLRange
  <2> QED  BY <2>1, <2>2
<1>3. ASSUME NEW d \in AckConns, AckLRem(d)
      PROVE  Changes(ackReq[c], ackReq'[c])
  BY <1>1, <1>3 DEF AckLRem, AckRequests
<1>4. ASSUME NEW d \in AckConns, AckLRemFails(d)
      PROVE  Changes(ackReq[c], ackReq'[c])
  BY <1>1, <1>4 DEF AckLRemFails, AckRequests
<1>5. ASSUME NEW d \in AckConns, AckLRangeFails(d) \/ AckReply(d)
      PROVE  Changes(ackReq[c], ackReq'[c])
  BY <1>1, <1>5 DEF AckLRangeFails, AckReply, IdleAck
<1>6. ASSUME NEW d \in AckConns, NEW w \in Workers, NEW id \in TaskIds,
             AckRequest(d, w, id)
      PROVE  Changes(ackReq[c], ackReq'[c])
  BY <1>1, <1>6 DEF AckRequest, IdleAck
<1>7. CASE Crash
  BY <1>7 DEF Crash, IdleAck
<1>8. CASE ackReq' = ackReq
  BY <1>8
<1>9. ASSUME NEW d \in GetConns, GetStep(d)
      PROVE  ackReq' = ackReq
  BY <1>9 DEF GetStep, PopEmpty, PopTask, PopUndecodable, PopFails, PopResent,
              SendWork, LoseWork
<1> QED  BY <1>2, <1>3, <1>4, <1>5, <1>6, <1>7, <1>8, <1>9
            DEF Next, AckStep, vars, PushTask, GetWork, WorkerRestart

\* Every step keeps what requests know about the entries they chose.
LEMMA NextAckInv == TypeOK /\ OnePlace /\ AckInv /\ [Next]_vars => AckInv'
<1> SUFFICES ASSUME TypeOK, OnePlace, AckInv, [Next]_vars, NEW c \in AckConns
             PROVE  LET r == ackReq'[c]
                    IN  /\ r.ok => r.pc = "reply"
                        /\ r.pc = "lrem" =>
                              \A k \in Keys : r.raw \in ToSet(redis'[k])
                                  => k = processingKey(r.worker)
                        /\ r.ok => \A k \in Keys : r.raw \notin ToSet(redis'[k])
  BY DEF AckInv
<1> DEFINE r  == ackReq[c]
           r2 == ackReq'[c]
           pk == processingKey(r.worker)
<1>1. /\ r.ok => r.pc = "reply"
      /\ r.pc = "lrem" => \A k \in Keys : r.raw \in ToSet(redis[k]) => k = pk
      /\ r.ok => \A k \in Keys : r.raw \notin ToSet(redis[k])
  BY DEF AckInv
<1>2. r \in AckRequests /\ r2 \in AckRequests
  BY NextType DEF TypeOK
<1>3. \A q \in QueueKeys : q \in Keys /\ (r.worker \in Workers => q # pk)
  BY KeyLemma DEF Keys, ProcessingKeys
<1>4. r.pc # "idle" => r.worker \in Workers /\ pk \in Keys
  BY DEF TypeOK, Keys, ProcessingKeys
<1>5. CASE r2 = r
  <2>1. ASSUME r.pc = "lrem" \/ r.ok
        PROVE  \A q \in QueueKeys : r.raw \notin ToSet(redis[q])
    BY <1>1, <1>3, <1>4, <2>1
  <2>2. ASSUME r.pc = "lrem" \/ r.ok, NEW k \in Keys, r.raw \in ToSet(redis'[k])
        PROVE  r.raw \in ToSet(redis[k])
    BY <2>1, <2>2, ChosenStaysAway
  <2> HIDE DEF r, r2, pk
  <2> QED  BY <1>1, <1>5, <2>2 DEF pk, r, r2
<1>6. CASE r2.pc \in {"idle", "lrange"} /\ ~r2.ok
  BY <1>6
<1>7. CASE r.pc \in {"lrange", "lrem"} /\ r2.pc = "reply" /\ r2.ok = r.ok
  BY <1>1, <1>7
<1>8. CASE /\ r.pc = "lrange" /\ redis' = redis
           /\ r2.pc = "lrem" /\ r2.ok = r.ok /\ r2.worker = r.worker
           /\ \E i \in DOMAIN redis[pk] : r2.raw = redis[pk][i] /\ Holds(r2.raw, r2.id)
  <2>1. ~r2.ok
    BY <1>1, <1>8
  <2>2. PICK i \in DOMAIN redis[pk] : r2.raw = redis[pk][i] /\ Holds(r2.raw, r2.id)
    BY <1>8
  <2>3. r2.raw \in ToSet(redis[pk]) /\ pk \in Keys
    BY <1>4, <1>8, <2>2 DEF ToSet
  <2>4. \A k \in Keys : r2.raw \in ToSet(redis[k]) => k = pk
    BY <2>3, OnePlaceSets
  <2> HIDE DEF r, r2
  <2> QED  BY <1>8, <2>1, <2>2, <2>4 DEF r, r2
<1>9. CASE /\ r.pc = "lrem" /\ LRemOne(pk, r.raw)
           /\ r2.pc = "reply" /\ r2.raw = r.raw /\ r2.worker = r.worker
  <2>1. /\ ToSet(redis'[pk]) = ToSet(redis[pk]) \ {r.raw}
        /\ \A k \in Keys \ {pk} : redis'[k] = redis[k]
    BY <1>9, RemSets
  <2> HIDE DEF r, r2, pk
  <2> QED  BY <1>1, <1>9, <2>1 DEF r, r2, pk
<1> HIDE DEF r2
<1> QED  BY <1>5, <1>6, <1>7, <1>8, <1>9, AckSteps DEF r2

\* No request has chosen an entry at first.
LEMMA InitAckInv == Init => AckInv /\ ChosenHeld
  BY DEF Init, IdleAck, AckInv, ChosenHeld

LEMMA NextChosenHeld == TypeOK /\ ChosenHeld /\ [Next]_vars => ChosenHeld'
<1> SUFFICES ASSUME TypeOK, ChosenHeld, [Next]_vars,
                    NEW c \in AckConns, ackReq'[c].pc = "lrem"
             PROVE  Holds(ackReq'[c].raw, ackReq'[c].id)
  BY DEF ChosenHeld, Holds
<1> QED  BY AckSteps DEF ChosenHeld

\* The invariant holds of the specification.
LEMMA AcksKnowTheirEntries == Spec => [](TypeOK /\ OnePlace /\ AckInv /\ ChosenHeld)
<1>1. Spec => [](TypeOK /\ OnePlace)
  BY TypeCorrect, PayloadsInOnePlace, PTL
<1> QED  BY <1>1, InitAckInv, NextAckInv, NextChosenHeld, PTL DEF Spec

\* A request that answers success has left no trace of its entry, although
\* anything may run between its LRANGE and its LREM, and after.
THEOREM SuccessIsFinal == Spec => []SuccessMeansGone
<1>1. TypeOK /\ OnePlace /\ AckInv => SuccessMeansGone
  BY DEF TypeOK, AckInv, SuccessMeansGone, Stored
<1> QED  BY <1>1, AcksKnowTheirEntries, PTL

\* A move takes nothing from a processing list.
LEMMA MoveRemovesNone ==
    ASSUME TypeOK, OnePlace, NEW c \in GetConns, Popping(c), MoveOldest(getReq[c]),
           NEW w \in Workers, NEW e \in ToSet(redis[processingKey(w)])
    PROVE  e \in ToSet(redis'[processingKey(w)])
<1> DEFINE src == SourceKey(getReq[c])
           dst == processingKey(getReq[c].worker)
           key == processingKey(w)
<1>1. /\ src \in QueueKeys
      /\ ToSet(redis'[dst]) = ToSet(redis[dst]) \cup {Last(redis[src])}
      /\ \A l \in Keys \ {src, dst} : redis'[l] = redis[l]
  BY MoveSets
<1>2. key \in Keys /\ key \notin QueueKeys
  BY KeyLemma DEF Keys
<1> HIDE DEF src, dst, key
<1>3. e \in ToSet(redis[key])
  BY DEF key
<1>4. e \in ToSet(redis'[key])
  BY <1>1, <1>2, <1>3
<1> QED  BY <1>4 DEF key

\* What a step takes from the processing lists is what a request chose.
Removal ==
    \A w \in Workers :
        \A e \in ToSet(redis[processingKey(w)]) :
            \/ e \in ToSet(redis'[processingKey(w)])
            \/ \E c \in AckConns : /\ ackReq[c].pc = "lrem"
                                   /\ ackReq[c].worker = w /\ ackReq[c].raw = e

LEMMA NextRemoval == TypeOK /\ OnePlace /\ [Next]_vars => Removal
<1> SUFFICES ASSUME TypeOK, OnePlace, [Next]_vars,
                    NEW w \in Workers, NEW e \in ToSet(redis[processingKey(w)])
             PROVE  \/ e \in ToSet(redis'[processingKey(w)])
                    \/ \E c \in AckConns : /\ ackReq[c].pc = "lrem"
                                           /\ ackReq[c].worker = w
                                           /\ ackReq[c].raw = e
  BY DEF Removal
<1> DEFINE key == processingKey(w)
<1>1. key \in Keys /\ key \notin QueueKeys
  BY KeyLemma DEF Keys
<1>2. ASSUME NEW f \in Entries, NEW k \in QueueKeys, PushTask(f, k)
      PROVE  redis'[key] = redis[key]
  BY <1>1, <1>2, PushSets
<1>3. ASSUME NEW c \in GetConns, Popping(c), MoveOldest(getReq[c])
      PROVE  e \in ToSet(redis'[key])
  BY <1>3, MoveRemovesNone
<1>4. ASSUME NEW c \in AckConns, ackReq[c].pc = "lrem",
             LRemOne(processingKey(ackReq[c].worker), ackReq[c].raw)
      PROVE  \/ e \in ToSet(redis'[key])
             \/ ackReq[c].worker = w /\ ackReq[c].raw = e
  <2> DEFINE pk == processingKey(ackReq[c].worker)
  <2>1. /\ ToSet(redis'[pk]) = ToSet(redis[pk]) \ {ackReq[c].raw}
        /\ \A l \in Keys \ {pk} : redis'[l] = redis[l]
    BY <1>4, RemSets
  <2>2. pk = key => ackReq[c].worker = w
    BY DEF processingKey
  <2> HIDE DEF pk
  <2> QED  BY <1>1, <2>1, <2>2
<1>5. redis' = redis \/ redis'[key] = redis[key] => e \in ToSet(redis'[key])
  OBVIOUS
<1> HIDE DEF key
<1> QED  BY <1>2, <1>3, <1>4, <1>5, ListSteps DEF key

\* An entry leaves a processing list only by a request that names this worker
\* and the task id of the entry.
THEOREM EntriesAwaitTheirAck == Spec => RemovedOnlyByItsAck
<1> DEFINE Acked == \A w \in Workers :
                       \A e \in ToSet(redis[processingKey(w)]) :
                          \/ e \in ToSet(redis'[processingKey(w)])
                          \/ \E c \in AckConns : /\ ackReq[c].worker = w
                                                 /\ Holds(e, ackReq[c].id)
<1>1. TypeOK /\ OnePlace /\ ChosenHeld /\ [Next]_vars => [Acked]_vars
  BY NextRemoval DEF Removal, ChosenHeld
<1>2. Spec => [][Acked]_vars
  <2> HIDE DEF Acked
  <2> QED  BY <1>1, AcksKnowTheirEntries, PTL DEF Spec
<1> QED  BY <1>2 DEF RemovedOnlyByItsAck

-----------------------------------------------------------------------------
(* What is handed out *)

Carried(c) == ToSet(getReq[c].tasks)
Held(w) == ToSet(redis[processingKey(w)])

\* What was handed out, or is about to be, is in no queue: a payload that could
\* be popped again would be handed out twice.
HandedOut ==
    \A e \in Waiting : /\ \A w \in Workers : e \notin received[w]
                       /\ \A c \in GetConns : e \notin Carried(c)

HandInv == HandedOut /\ DeliveredOnce

-----------------------------------------------------------------------------
(* To whom, and how often *)

\* A popped payload waits in no queue any more.
LEMMA PoppedLeaves ==
    ASSUME TypeOK, OnePlace, NEW c \in GetConns, Popping(c), MoveOldest(getReq[c])
    PROVE  LET e == Last(redis[SourceKey(getReq[c])])
           IN  /\ e \in Waiting /\ e \in Entries
               /\ Waiting' \subseteq Waiting \ {e}
<1> DEFINE src == SourceKey(getReq[c])
           dst == processingKey(getReq[c].worker)
           e   == Last(redis[src])
<1>1. /\ src \in QueueKeys /\ dst \in ProcessingKeys
      /\ e \in ToSet(redis[src]) /\ e \in Entries
      /\ ToSet(redis'[src]) = ToSet(redis[src]) \ {e}
      /\ \A l \in Keys \ {src, dst} : redis'[l] = redis[l]
  BY MoveSets
<1>2. \A k \in QueueKeys : k \in Keys /\ k # dst
  BY <1>1, KeyLemma DEF Keys
<1>3. \A k \in QueueKeys : e \in ToSet(redis[k]) => k = src
  BY <1>1, <1>2, OnePlaceSets
<1> HIDE DEF src, dst, e
<1>4. \A k \in QueueKeys : ToSet(redis'[k]) \subseteq ToSet(redis[k]) \ {e}
  BY <1>1, <1>2, <1>3
<1> QED  BY <1>1, <1>4 DEF Waiting, src, dst, e

\* Payloads come to the queues by a push only.
LEMMA WaitingSteps ==
    ASSUME TypeOK, OnePlace, [Next]_vars
    PROVE  \/ Waiting' \subseteq Waiting
           \/ \E e \in Entries, k \in QueueKeys :
                 PushTask(e, k) /\ Waiting' \subseteq Waiting \cup {e}
<1>k. /\ QueueKeys \subseteq Keys /\ ProcessingKeys \subseteq Keys
      /\ QueueKeys \cap ProcessingKeys = {}
  BY KeyLemma DEF Keys
<1>1. CASE redis' = redis
  BY <1>1 DEF Waiting
<1>2. ASSUME NEW e \in Entries, NEW k \in QueueKeys, PushTask(e, k)
      PROVE  Waiting' \subseteq Waiting \cup {e}
  <2>1. /\ ToSet(redis'[k]) = ToSet(redis[k]) \cup {e}
        /\ \A l \in Keys \ {k} : redis'[l] = redis[l]
    BY <1>2, PushSets
  <2> QED  BY <1>k, <2>1 DEF Waiting
<1>3. ASSUME NEW c \in GetConns, Popping(c), MoveOldest(getReq[c])
      PROVE  Waiting' \subseteq Waiting
  BY <1>3, PoppedLeaves
<1>4. ASSUME NEW c \in AckConns, ackReq[c].pc = "lrem",
             LRemOne(processingKey(ackReq[c].worker), ackReq[c].raw)
      PROVE  Waiting' \subseteq Waiting
  <2> DEFINE key == processingKey(ackReq[c].worker)
  <2>1. /\ key \in ProcessingKeys
        /\ \A l \in Keys \ {key} : redis'[l] = redis[l]
    BY <1>4, RemSets
  <2> HIDE DEF key
  <2> QED  BY <1>k, <2>1 DEF Waiting
<1> QED  BY <1>1, <1>2, <1>3, <1>4, ListSteps

\* Steps that hand out nothing new.
LEMMA HandKept ==
    ASSUME HandInv, Waiting' \subseteq Waiting,
           \A w \in Workers : received'[w] \subseteq received[w],
           \A c \in GetConns : Carried(c)' \subseteq Carried(c)
    PROVE  HandInv'
<1>1. HandedOut'
  BY DEF HandInv, HandedOut
<1>2. DeliveredOnce'
  BY DEF HandInv, DeliveredOnce, Carried
<1> QED  BY <1>1, <1>2 DEF HandInv

\* The popped payload was handed to nobody.
LEMMA PopTaskHands ==
    ASSUME TypeOK, OnePlace, HandInv, NEW c \in GetConns, PopAppends(c)
    PROVE  LET e == Last(redis[SourceKey(getReq[c])])
           IN  /\ getReq'[c].tasks = Append(getReq[c].tasks, e)
               /\ e \notin Carried(c)
               /\ HandInv'
<1> DEFINE e == Last(redis[SourceKey(getReq[c])])
           n == NextList(getReq[c])
<1>1. e \in Waiting /\ e \in Entries /\ Waiting' \subseteq Waiting \ {e}
  BY PoppedLeaves DEF PopAppends
<1>2. n \in GetRequests /\ n.tasks = getReq[c].tasks
  BY RequestTypes DEF TypeOK
<1>3. getReq' = [getReq EXCEPT ![c] = [n EXCEPT !.tasks = Append(n.tasks, e)]]
  BY DEF PopAppends
<1>4. received' = received
  BY DEF PopAppends
<1> HIDE DEF e, n
<1>5. /\ getReq'[c].tasks = Append(getReq[c].tasks, e)
      /\ \A d \in GetConns : d # c => getReq'[d] = getReq[d]
  BY <1>2, <1>3 DEF TypeOK, GetRequests
<1>6. getReq[c].tasks \in Seq(Entries)
  BY DEF TypeOK, GetRequests
<1>7. Carried(c)' = Carried(c) \cup {e}
  <2>1. ToSet(Append(getReq[c].tasks, e)) = ToSet(getReq[c].tasks) \cup {e}
    BY <1>1, <1>6 DEF ToSet
  <2> QED  BY <1>5, <2>1 DEF Carried
<1>8. /\ \A w \in Workers : e \notin received[w]
      /\ \A d \in GetConns : e \notin Carried(d)
  BY <1>1 DEF HandInv, HandedOut
<1>9. \A d \in GetConns : d # c => Carried(d)' = Carried(d)
  BY <1>5 DEF Carried
<1>10. HandedOut'
  BY <1>1, <1>4, <1>7, <1>9 DEF HandInv, HandedOut
<1>11. DeliveredOnce'
  <2> USE DEF DeliveredOnce
  <2>1. /\ \A w1, w2 \in Workers : w1 # w2 => received[w1] \cap received[w2] = {}
        /\ \A d \in GetConns, w \in Workers : Carried(d) \cap received[w] = {}
        /\ \A d1, d2 \in GetConns : d1 # d2 => Carried(d1) \cap Carried(d2) = {}
    BY DEF HandInv, Carried
  <2>2. /\ \A d \in GetConns, w \in Workers : Carried(d)' \cap received'[w] = {}
        /\ \A d1, d2 \in GetConns : d1 # d2 => Carried(d1)' \cap Carried(d2)' = {}
    BY <1>4, <1>7, <1>8, <1>9, <2>1
  <2> QED  BY <1>4, <2>1, <2>2 DEF Carried
<1> QED  BY <1>5, <1>8, <1>10, <1>11 DEF HandInv, e

\* A response hands to its worker what the request carried.
LEMMA SendWorkHands ==
    ASSUME TypeOK, HandInv, NEW c \in GetConns, SendWork(c)
    PROVE  HandInv'
<1> DEFINE w == getReq[c].worker
<1>1. /\ w \in Workers /\ redis' = redis
      /\ received' = [received EXCEPT ![w] = @ \cup Carried(c)]
      /\ getReq' = [getReq EXCEPT ![c] = IdleGet]
  BY DEF SendWork, TypeOK, Carried
<1> HIDE DEF w
<1>2. /\ received'[w] = received[w] \cup Carried(c)
      /\ \A v \in Workers : v # w => received'[v] = received[v]
  BY <1>1 DEF TypeOK
<1>3. /\ Carried(c)' = {}
      /\ \A d \in GetConns : d # c => Carried(d)' = Carried(d)
  BY <1>1 DEF Carried, TypeOK, IdleGet, ToSet
<1>4. Waiting' = Waiting
  BY <1>1 DEF Waiting
<1>5. HandedOut'
  BY <1>2, <1>3, <1>4 DEF HandInv, HandedOut
<1>6. DeliveredOnce'
  <2>1. /\ \A w1, w2 \in Workers : w1 # w2 => received[w1] \cap received[w2] = {}
        /\ \A d \in GetConns, v \in Workers : Carried(d) \cap received[v] = {}
        /\ \A d1, d2 \in GetConns : d1 # d2 => Carried(d1) \cap Carried(d2) = {}
    BY DEF HandInv, DeliveredOnce, Carried
  <2>2. /\ \A w1, w2 \in Workers : w1 # w2 => received'[w1] \cap received'[w2] = {}
        /\ \A d \in GetConns, v \in Workers : Carried(d)' \cap received'[v] = {}
        /\ \A d1, d2 \in GetConns : d1 # d2 => Carried(d1)' \cap Carried(d2)' = {}
    BY <1>2, <1>3, <2>1
  <2> QED  BY <2>2 DEF DeliveredOnce, Carried
<1> QED  BY <1>5, <1>6 DEF HandInv

\* Every step keeps the invariant.
LEMMA NextHand == TypeOK /\ OnePlace /\ HandInv /\ [Next]_vars => HandInv'
<1> SUFFICES ASSUME TypeOK, OnePlace, HandInv, [Next]_vars
             PROVE  HandInv'
  OBVIOUS
<1>1. ASSUME NEW e \in Entries, NEW k \in QueueKeys, PushTask(e, k),
             Waiting' \subseteq Waiting \cup {e}
      PROVE  HandInv'
  <2>1. /\ \A c \in GetConns : e \notin Carried(c)
        /\ \A c \in GetConns : Carried(c)' = Carried(c)
        /\ \A w \in Workers : received'[w] = received[w] \ {e}
    BY <1>1 DEF PushTask, Mentioned, Carried
  <2>2. HandedOut'
    BY <1>1, <2>1 DEF HandInv, HandedOut
  <2>3. DeliveredOnce'
    BY <2>1 DEF HandInv, DeliveredOnce, Carried
  <2> QED  BY <2>2, <2>3 DEF HandInv
<1>2. ASSUME NEW c \in GetConns, PopTask(c) \/ SendWork(c)
      PROVE  HandInv'
  BY <1>2, PopTaskAppends, PopTaskHands, SendWorkHands
<1>3. ASSUME \A c \in GetConns : ~PopTask(c) /\ ~SendWork(c),
             Waiting' \subseteq Waiting
      PROVE  HandInv'
  <2> DEFINE Less == /\ \A w \in Workers : received'[w] \subseteq received[w]
                     /\ \A d \in GetConns :
                           \/ getReq'[d].tasks = getReq[d].tasks
                           \/ getReq'[d].tasks = <<>>
  <2>1. ASSUME NEW e \in Entries, NEW k \in QueueKeys, PushTask(e, k)
        PROVE  Less
    BY <2>1 DEF PushTask
  <2>2. ASSUME NEW c \in GetConns, NEW w \in Workers, NEW q \in CapacityQueries,
               NEW p \in PlatformQueries, GetWork(c, w, q, p)
        PROVE  Less
    BY <2>2 DEF GetWork, IdleGet, TypeOK
  <2>3. ASSUME NEW c \in GetConns, PopEmpty(c)
        PROVE  Less
    BY <2>3, RequestTypes DEF PopEmpty, TypeOK
  <2>4. ASSUME NEW c \in GetConns, PopUndecodable(c) \/ PopFails(c) \/ LoseWork(c)
        PROVE  Less
    BY <2>4 DEF PopUndecodable, PopFails, LoseWork, IdleGet, TypeOK
  <2>5. ASSUME NEW c \in GetConns, PopResent(c)
        PROVE  Less
    BY <2>5 DEF PopResent
  <2>6. ASSUME NEW c \in AckConns, AckStep(c)
        PROVE  Less
    BY <2>6 DEF AckStep, AckLRange, AckLRangeFails, AckLRem, AckLRemFails, AckReply
  <2>7. ASSUME Crash  PROVE Less
    BY <2>7 DEF Crash, IdleGet
  <2>8. ASSUME NEW w \in Workers, WorkerRestart(w)
        PROVE  Less
    BY <2>8 DEF WorkerRestart, TypeOK
  <2>9. ASSUME NEW c \in AckConns, NEW w \in Workers, NEW id \in TaskIds,
               AckRequest(c, w, id)
        PROVE  Less
    BY <2>9 DEF AckRequest
  <2>10. ASSUME UNCHANGED vars  PROVE Less
    BY <2>10 DEF vars
  <2>11. Less
    BY <1>3, <2>1, <2>2, <2>3, <2>4, <2>5, <2>6, <2>7, <2>8, <2>9, <2>10
       DEF Next, GetStep
  <2>12. \A c \in GetConns : Carried(c)' \subseteq Carried(c)
    BY <2>11 DEF Carried, ToSet
  <2> QED  BY <1>3, <2>11, <2>12, HandKept
<1> QED  BY <1>1, <1>2, <1>3, WaitingSteps

LEMMA InitHand == Init => HandInv
  BY DEF Init, HandInv, HandedOut, DeliveredOnce, Waiting, Carried, IdleGet, ToSet

\* A payload is handed to one worker in one response, whatever pops, crashes,
\* lost responses and acknowledgements interleave.
THEOREM HandedOutOnce == Spec => []DeliveredOnce
<1>1. Spec => [](TypeOK /\ OnePlace)
  BY TypeCorrect, PayloadsInOnePlace, PTL
<1>2. HandInv => DeliveredOnce
  BY DEF HandInv
<1> QED  BY <1>1, <1>2, InitHand, NextHand, PTL DEF Spec

-----------------------------------------------------------------------------
(* How much *)

\* A request that is accepted.
Asked(w, q, p) ==
    [IdleGet EXCEPT !.pc = "pop", !.worker = w, !.capacity = ClampCapacity(q),
                    !.platforms = RequestedPlatforms(p)]

\* What a step may do to a request.
LEMMA GetSteps ==
    ASSUME TypeOK, [Next]_vars, NEW c \in GetConns
    PROVE  \/ getReq'[c] = getReq[c]
           \/ getReq'[c] = IdleGet
           \/ \E w \in Workers, q \in CapacityQueries, p \in PlatformQueries :
                 getReq'[c] = Asked(w, q, p)
           \/ Popping(c) /\ getReq'[c] = NextList(getReq[c])
           \/ PopTask(c)
<1>1. ASSUME NEW d \in GetConns, NEW w \in Workers, NEW q \in CapacityQueries,
             NEW p \in PlatformQueries, GetWork(d, w, q, p)
      PROVE  \/ getReq'[c] = getReq[c]
             \/ getReq'[c] = Asked(w, q, p)
  BY <1>1 DEF GetWork, TypeOK, Asked
<1>2. ASSUME NEW d \in GetConns, GetStep(d), ~PopTask(c)
      PROVE  \/ getReq'[c] = getReq[c]
             \/ getReq'[c] = IdleGet
             \/ Popping(c) /\ getReq'[c] = NextList(getReq[c])
  <2>1. CASE PopEmpty(d)
    BY <2>1 DEF PopEmpty, TypeOK
  <2>2. CASE PopTask(d)
    <3>1. d # c
      BY <1>2, <2>2
    <3> QED  BY <2>2, <3>1 DEF PopTask, TypeOK
  <2> QED  BY <1>2, <2>1, <2>2 DEF GetStep, PopUndecodable, PopFails, PopResent,
                                   SendWork, LoseWork, TypeOK
<1>3. Crash => getReq'[c] = IdleGet
  BY DEF Crash
<1>4. ASSUME NEW d \in AckConns, AckStep(d)
      PROVE  getReq' = getReq
  BY <1>4 DEF AckStep, AckLRange, AckLRangeFails, AckLRem, AckLRemFails, AckReply
<1>5. ASSUME NEW d \in AckConns, NEW w \in Workers, NEW id \in TaskIds,
             AckRequest(d, w, id)
      PROVE  getReq' = getReq
  BY <1>5 DEF AckRequest
<1>6. ASSUME NEW e \in Entries, NEW k \in QueueKeys, PushTask(e, k)
      PROVE  getReq' = getReq
  BY <1>6 DEF PushTask
<1>7. ASSUME NEW w \in Workers, WorkerRestart(w)
      PROVE  getReq' = getReq
  BY <1>7 DEF WorkerRestart
<1>8. UNCHANGED vars => getReq' = getReq
  BY DEF vars
<1>9. CASE \E d \in GetConns, w \in Workers, q \in CapacityQueries, p \in PlatformQueries :
              GetWork(d, w, q, p)
  BY <1>1, <1>9
<1>10. CASE \E d \in GetConns : GetStep(d)
  BY <1>2, <1>10
<1>11. CASE getReq' = getReq
  BY <1>11
<1> QED  BY <1>3, <1>4, <1>5, <1>6, <1>7, <1>8, <1>9, <1>10, <1>11 DEF Next

\* The number of lists the loops of a request are past.
Past(r) == MaxPriority * (r.at - 1) + (r.priority - 1)

Distinct(s) == \A i, j \in DOMAIN s : s[i] = s[j] => i = j

\* The loops took at most one task from each list they are past, all different,
\* and stay within the platforms and the capacity.
Bounded(r) ==
    /\ Len(r.tasks) <= r.capacity
    /\ Len(r.tasks) <= Past(r)
    /\ r.at <= Len(r.platforms) + 1
    /\ r.at = Len(r.platforms) + 1 => r.priority = 1
    /\ Distinct(r.tasks)

LEMMA IdleBounded ==
    /\ Bounded(IdleGet)
    /\ \A w \in Workers, q \in CapacityQueries, p \in PlatformQueries :
          Bounded(Asked(w, q, p))
<1>1. \A q \in CapacityQueries : ClampCapacity(q) \in Nat \ {0}
  BY RequestTypes
<1>2. \A p \in PlatformQueries : Len(RequestedPlatforms(p)) \in Nat
  BY RequestTypes
<1>3. Distinct(<<>>) /\ Len(<<>>) = 0
  BY DEF Distinct
<1>4. MaxPriority * 0 = 0
  BY MaxPriorityAssumption
<1> QED  BY <1>1, <1>2, <1>3, <1>4 DEF Bounded, Past, IdleGet, Asked

\* The loops move on by one list.
LEMMA NextListPlace ==
    ASSUME NEW r \in GetRequests, Bounded(r), r.at <= Len(r.platforms)
    PROVE  /\ Past(NextList(r)) = Past(r) + 1 /\ Past(r) \in Nat
           /\ NextList(r).at <= Len(r.platforms) + 1
           /\ NextList(r).at = Len(r.platforms) + 1 => NextList(r).priority = 1
<1>1. /\ r.at \in Nat \ {0} /\ r.priority \in 1..MaxPriority
      /\ MaxPriority \in Nat \ {0} /\ Len(r.platforms) \in Nat
  BY MaxPriorityAssumption DEF GetRequests, Priorities
<1>2. CASE r.priority < MaxPriority
  <2>1. NextList(r).at = r.at /\ NextList(r).priority = r.priority + 1
    BY <1>2 DEF NextList, GetRequests
  <2> DEFINE m == MaxPriority * (r.at - 1)
  <2>2. m \in Nat
    BY <1>1
  <2>3. Past(r) = m + (r.priority - 1) /\ Past(NextList(r)) = m + r.priority
    BY <1>1, <2>1, <2>2 DEF Past
  <2> HIDE DEF m
  <2> QED  BY <1>1, <2>1, <2>2, <2>3
<1>3. CASE ~(r.priority < MaxPriority)
  <2>1. NextList(r).at = r.at + 1 /\ NextList(r).priority = 1
    BY <1>3 DEF NextList, GetRequests
  <2>2. r.priority = MaxPriority
    BY <1>1, <1>3
  <2> DEFINE m == MaxPriority * (r.at - 1)
  <2>3. m \in Nat /\ MaxPriority * ((r.at + 1) - 1) = m + MaxPriority
    BY <1>1
  <2>4. Past(r) = m + (r.priority - 1) /\ Past(NextList(r)) = m + MaxPriority
    BY <1>1, <2>1, <2>3 DEF Past
  <2> HIDE DEF m
  <2> QED  BY <1>1, <2>1, <2>2, <2>3, <2>4
<1> QED  BY <1>2, <1>3

\* A popped task that is not in a response keeps the response injective.
LEMMA AppendDistinct ==
    ASSUME NEW s \in Seq(Entries), NEW e \in Entries, Distinct(s), e \notin ToSet(s),
           NEW t, t = Append(s, e)
    PROVE  Distinct(t) /\ Len(t) = Len(s) + 1
<1>1. Len(s) \in Nat /\ DOMAIN s = 1..Len(s) /\ Len(t) = Len(s) + 1
  OBVIOUS
<1>2. DOMAIN t = 1..(Len(s) + 1) /\ t[Len(s) + 1] = e
  OBVIOUS
<1>3. \A i \in 1..Len(s) : t[i] = s[i] /\ s[i] # e
  BY <1>1 DEF ToSet
<1>4. \A i, j \in 1..Len(s) : s[i] = s[j] => i = j
  BY <1>1 DEF Distinct
<1>5. \A i, j \in 1..(Len(s) + 1) : t[i] = t[j] => i = j
  BY <1>1, <1>2, <1>3, <1>4
<1> QED  BY <1>1, <1>2, <1>5 DEF Distinct

\* A request that goes on is past one more list, within its platforms.
LEMMA NextPlace ==
    ASSUME TypeOK, NEW c \in GetConns, Popping(c), Bounded(getReq[c])
    PROVE  LET r == getReq[c]
               n == NextList(r)
           IN  /\ n \in GetRequests
               /\ n.capacity = r.capacity /\ n.platforms = r.platforms
               /\ n.tasks = r.tasks
               /\ Past(n) = Past(r) + 1 /\ Past(r) \in Nat
               /\ n.at <= Len(r.platforms) + 1
               /\ n.at = Len(r.platforms) + 1 => n.priority = 1
               /\ Len(r.tasks) < r.capacity
<1> DEFINE r == getReq[c]
<1>1. r \in GetRequests
  BY DEF TypeOK
<1>2. /\ r.at \in Nat /\ Len(r.platforms) \in Nat /\ Len(r.tasks) \in Nat
      /\ r.capacity \in Nat
  BY <1>1 DEF GetRequests
<1>3. r.at <= Len(r.platforms) /\ Len(r.tasks) < r.capacity
  BY <1>2 DEF Popping, PopDone
<1> QED  BY <1>1, <1>3, NextListPlace, RequestTypes

\* A popped task keeps its response within its bounds.
LEMMA AppendsBounded ==
    ASSUME TypeOK, OnePlace, HandInv, NEW c \in GetConns, PopAppends(c),
           Bounded(getReq[c])
    PROVE  Bounded(getReq'[c])
<1> DEFINE r == getReq[c]
           n == NextList(r)
           e == Last(redis[SourceKey(r)])
<1>1. r \in GetRequests
  BY DEF TypeOK
<1>2. /\ n \in GetRequests
      /\ n.capacity = r.capacity /\ n.platforms = r.platforms /\ n.tasks = r.tasks
      /\ Past(n) = Past(r) + 1 /\ Past(r) \in Nat
      /\ n.at <= Len(r.platforms) + 1
      /\ n.at = Len(r.platforms) + 1 => n.priority = 1
      /\ Len(r.tasks) < r.capacity
  BY NextPlace DEF PopAppends
<1>3. /\ Popping(c) /\ MoveOldest(r)
      /\ getReq' = [getReq EXCEPT ![c] = [n EXCEPT !.tasks = Append(@, e)]]
  BY DEF PopAppends
<1>4. e \in Waiting /\ e \in Entries
  BY <1>3, PoppedLeaves
<1>5. e \notin ToSet(r.tasks)
  BY <1>4 DEF HandInv, HandedOut, Carried
<1> HIDE DEF e, n
<1>6. /\ getReq'[c].tasks = Append(r.tasks, e)
      /\ getReq'[c].capacity = r.capacity /\ getReq'[c].platforms = r.platforms
      /\ getReq'[c].at = n.at /\ getReq'[c].priority = n.priority
  BY <1>2, <1>3 DEF TypeOK, GetRequests
<1>7. /\ r.tasks \in Seq(Entries) /\ e \in Entries
      /\ Distinct(r.tasks) /\ Len(r.tasks) \in Nat /\ r.capacity \in Nat
  BY <1>1, <1>4 DEF GetRequests, Bounded
<1>8. /\ Distinct(getReq'[c].tasks)
      /\ Len(getReq'[c].tasks) = Len(r.tasks) + 1
  BY <1>5, <1>6, <1>7, AppendDistinct
<1>9. Past(getReq'[c]) = Past(n)
  BY <1>6 DEF Past
<1>10. Len(getReq'[c].tasks) <= Past(getReq'[c])
  <2>1. Len(r.tasks) <= Past(r)
    BY DEF Bounded
  <2> QED  BY <1>2, <1>7, <1>8, <1>9, <2>1
<1>11. Len(getReq'[c].tasks) <= getReq'[c].capacity
  BY <1>2, <1>6, <1>7, <1>8
<1> HIDE DEF r
<1> QED  BY <1>2, <1>6, <1>8, <1>10, <1>11 DEF Bounded

\* Every step keeps each response within its bounds.
LEMMA NextBounded ==
    TypeOK /\ OnePlace /\ HandInv /\ [Next]_vars /\ (\A c \in GetConns : Bounded(getReq[c]))
        => (\A c \in GetConns : Bounded(getReq[c]))'
<1> SUFFICES ASSUME TypeOK, OnePlace, HandInv, [Next]_vars, NEW c \in GetConns,
                    Bounded(getReq[c])
             PROVE  Bounded(getReq'[c])
  OBVIOUS
<1>1. CASE Popping(c) /\ getReq'[c] = NextList(getReq[c])
  <2> DEFINE r == getReq[c]
             n == NextList(r)
  <2>1. Len(r.tasks) \in Nat
    BY DEF TypeOK, GetRequests
  <2>2. /\ n.capacity = r.capacity /\ n.platforms = r.platforms /\ n.tasks = r.tasks
        /\ Past(n) = Past(r) + 1 /\ Past(r) \in Nat
        /\ n.at <= Len(r.platforms) + 1
        /\ n.at = Len(r.platforms) + 1 => n.priority = 1
    BY <1>1, NextPlace
  <2>3. getReq'[c] = n
    BY <1>1
  <2> HIDE DEF n
  <2> QED  BY <2>1, <2>2, <2>3 DEF Bounded
<1>2. CASE PopTask(c)
  BY <1>2, PopTaskAppends, AppendsBounded
<1> QED  BY <1>1, <1>2, GetSteps, IdleBounded

\* At the end of the loops the lists passed are all that were asked for.
LEMMA BoundedResponses ==
    TypeOK /\ (\A c \in GetConns : Bounded(getReq[c])) => ResponseBounded
<1> SUFFICES ASSUME TypeOK, \A d \in GetConns : Bounded(getReq[d]), NEW c \in GetConns
             PROVE  Len(getReq[c].tasks) <= MaxPriority * Len(getReq[c].platforms)
  BY DEF ResponseBounded, Bounded, Distinct, IsInjective
<1> DEFINE r == getReq[c]
           n == Len(r.platforms)
<1>1. /\ r.at \in Nat \ {0} /\ r.priority \in 1..MaxPriority /\ n \in Nat
      /\ MaxPriority \in Nat \ {0} /\ Len(r.tasks) \in Nat
  BY MaxPriorityAssumption DEF TypeOK, GetRequests, Priorities
<1>2. /\ Len(r.tasks) <= MaxPriority * (r.at - 1) + (r.priority - 1)
      /\ r.at <= n + 1
      /\ r.at = n + 1 => r.priority = 1
  BY DEF Bounded, Past
<1> HIDE DEF r, n
<1>3. CASE r.at = n + 1
  BY <1>1, <1>2, <1>3 DEF r, n
<1>4. CASE r.at <= n
  <2> DEFINE d == n - r.at
             a == MaxPriority * (r.at - 1)
             b == MaxPriority * d
  <2>1. d \in Nat /\ n = r.at + d
    BY <1>1, <1>4
  <2>2. a \in Nat /\ b \in Nat /\ MaxPriority * n = a + MaxPriority + b
    <3>1. n = (r.at - 1) + 1 + d /\ r.at - 1 \in Nat
      BY <1>1, <2>1
    <3> HIDE DEF d
    <3>2. a \in Nat /\ b \in Nat
      BY <1>1, <2>1, <3>1
    <3>3. MaxPriority * ((r.at - 1) + 1 + d) = a + MaxPriority + b
      BY <1>1, <2>1, <3>1
    <3> QED  BY <3>1, <3>2, <3>3
  <2>3. Len(r.tasks) <= a + (r.priority - 1)
    BY <1>2
  <2> HIDE DEF a, b, d
  <2>4. Len(r.tasks) <= a + MaxPriority + b
    BY <1>1, <2>2, <2>3
  <2> QED  BY <2>2, <2>4 DEF r, n
<1> QED  BY <1>1, <1>2, <1>3, <1>4

\* A response holds at most capacity tasks, all different, and at most one from
\* each list its request names.
THEOREM ResponsesBounded == Spec => []ResponseBounded
<1> DEFINE Inv == \A c \in GetConns : Bounded(getReq[c])
<1>1. Spec => [](TypeOK /\ OnePlace)
  BY TypeCorrect, PayloadsInOnePlace, PTL
<1>2. Init => Inv
  BY IdleBounded DEF Init
<1>3. TypeOK /\ OnePlace /\ HandInv /\ Inv /\ [Next]_vars => Inv'
  BY NextBounded
<1>4. TypeOK /\ Inv => ResponseBounded
  BY BoundedResponses
<1> HIDE DEF Inv
<1> QED  BY <1>1, <1>2, <1>3, <1>4, InitHand, NextHand, PTL DEF Spec

-----------------------------------------------------------------------------
(* What a worker never learns of *)

\* Worker w has entry e or is about to be sent it.
Knows(w, e) == e \in received[w] \/ OnItsWayTo(w, e)

IdleCarriesNothing ==
    \A c \in GetConns : getReq[c].pc = "idle" => getReq[c].tasks = <<>>

\* What an acknowledgement is about to remove decodes.
AcksDecode == \A c \in AckConns : ackReq[c].pc = "lrem" => ackReq[c].raw \notin Undecodable

StrandInv == IdleCarriesNothing /\ StrandedOnlyByFault

\* Without a fault, entries stay known and lists lose no payload that does not
\* decode: no entry is stranded.
LEMMA StrandKept ==
    ASSUME StrandedOnlyByFault, faults' = faults,
           \A w \in Workers :
              \/ Held(w)' \cap Undecodable # {}
              \/ /\ Held(w) \cap Undecodable \subseteq Held(w)'
                 /\ \A e \in Held(w)' : \/ e \in Held(w) /\ (Knows(w, e) => Knows(w, e)')
                                        \/ Knows(w, e)'
    PROVE  StrandedOnlyByFault'
<1> SUFFICES ASSUME NEW w \in Workers, faults' = 0, Held(w)' \cap Undecodable = {},
                    NEW e \in Held(w)'
             PROVE  Knows(w, e)'
  BY DEF StrandedOnlyByFault, Held, Knows
<1>1. /\ Held(w) \cap Undecodable \subseteq Held(w)'
      /\ \/ e \in Held(w) /\ (Knows(w, e) => Knows(w, e)')
         \/ Knows(w, e)'
  OBVIOUS
<1>2. Held(w) \cap Undecodable = {}
  BY <1>1
<1>3. faults = 0 /\ Held(w) \cap Undecodable = {} => \A d \in Held(w) : Knows(w, d)
  BY DEF StrandedOnlyByFault, Held, Knows
<1> QED  BY <1>1, <1>2, <1>3

\* LREM takes one entry that decodes from one processing list.
LEMMA StrandRem ==
    ASSUME TypeOK, StrandedOnlyByFault, faults' = faults, received' = received,
           getReq' = getReq, NEW v \in Workers, NEW raw,
           LRemOne(processingKey(v), raw), raw \notin Undecodable
    PROVE  StrandedOnlyByFault'
<1>1. \A w \in Workers : processingKey(w) \in Keys
  BY KeyLemma DEF Keys
<1>2. redis \in [Keys -> Seq(Entries)]
  BY DEF TypeOK
<1>3. ASSUME NEW w \in Workers
      PROVE  Held(w)' \subseteq Held(w)
  <2>1. CASE redis' = redis
    BY <2>1 DEF Held
  <2>2. ASSUME NEW i \in 1..Len(redis[processingKey(v)]),
               redis'[processingKey(v)] = RemoveAt(redis[processingKey(v)], i),
               \A k \in Keys \ {processingKey(v)} : redis'[k] = redis[k]
        PROVE  Held(w)' \subseteq Held(w)
    <3> DEFINE s == redis[processingKey(v)]
               t == RemoveAt(s, i)
    <3>0. s \in Seq(Entries)
      BY <1>1, <1>2
    <3> HIDE DEF s
    <3>1. /\ t \in Seq(Entries) /\ Len(t) = Len(s) - 1 /\ Len(s) \in Nat
          /\ \A j \in 1..(Len(s) - 1) : t[j] = IF j < i THEN s[j] ELSE s[j + 1]
          /\ s \in Seq(Entries)
      <4>1. i \in 1..Len(s)
        BY DEF s
      <4> QED  BY <3>0, <4>1, RemoveAtLemma
    <3> HIDE DEF t
    <3>2. \A j \in 1..Len(t) : t[j] \in ToSet(s)
      <4> SUFFICES ASSUME NEW j \in 1..Len(t)
                   PROVE  \E n \in 1..Len(s) : s[n] = t[j]
        BY <3>1 DEF ToSet
      <4>1. CASE j < i
        BY <3>1, <4>1
      <4>2. CASE ~(j < i)
        <5>1. t[j] = s[j + 1] /\ j + 1 \in 1..Len(s)
          BY <3>1, <4>2
        <5> QED  BY <5>1
      <4> QED  BY <4>1, <4>2
    <3>3. ToSet(t) \subseteq ToSet(s)
      BY <3>1, <3>2 DEF ToSet
    <3> QED  BY <1>1, <2>2, <3>3 DEF Held, s, t
  <2> QED  BY <1>1, <1>2, <2>1, <2>2, RemLemma
<1>4. ASSUME NEW w \in Workers
      PROVE  Held(w) \cap Undecodable \subseteq Held(w)'
  BY <1>1, <1>2, RemKeepsOthers DEF Held
<1>5. \A w \in Workers, e \in Entries : Knows(w, e)' <=> Knows(w, e)
  BY DEF Knows, OnItsWayTo
<1>6. \A w \in Workers : Held(w) \subseteq Entries
  BY <1>1, <1>2 DEF Held, ToSet
<1> QED  BY <1>3, <1>4, <1>5, <1>6, StrandKept

\* Without a change of the lists and of what anyone has, nothing is stranded.
LEMMA StrandSame ==
    ASSUME StrandedOnlyByFault, faults' = faults, redis' = redis,
           received' = received, \A c \in GetConns :
               \/ getReq'[c].worker = getReq[c].worker /\ getReq'[c].tasks = getReq[c].tasks
               \/ getReq[c].tasks = <<>>
    PROVE  StrandedOnlyByFault'
<1>1. \A w \in Workers : Held(w)' = Held(w)
  BY DEF Held
<1>2. ASSUME NEW w \in Workers, NEW e, Knows(w, e)
      PROVE  Knows(w, e)'
  <2>1. CASE e \in received[w]
    BY <2>1 DEF Knows
  <2>2. ASSUME NEW c \in GetConns, getReq[c].worker = w, e \in ToSet(getReq[c].tasks)
        PROVE  Knows(w, e)'
    <3>1. getReq[c].tasks # <<>>
      BY <2>2 DEF ToSet
    <3> QED  BY <2>2, <3>1 DEF Knows, OnItsWayTo
  <2> QED  BY <1>2, <2>1, <2>2 DEF Knows, OnItsWayTo
<1> QED  BY <1>1, <1>2, StrandKept
\* RPOPLPUSH gives the worker of the request an entry, and no other worker.
LEMMA MoveHeld ==
    ASSUME TypeOK, NEW c \in GetConns, Popping(c), MoveOldest(getReq[c])
    PROVE  \E w \in Workers, e \in Entries :
              /\ w = getReq[c].worker /\ e = Last(redis[SourceKey(getReq[c])])
              /\ Held(w)' = Held(w) \cup {e}
              /\ \A v \in Workers : v # w => Held(v)' = Held(v)
<1>1. PICK w \in Workers : w = getReq[c].worker
  BY PopKeys
<1>2. PICK src \in QueueKeys : src = SourceKey(getReq[c])
  BY PopKeys
<1>3. PICK e \in Entries : e = Last(redis[src])
  BY <1>2, PopMoves
<1> DEFINE dst == processingKey(w)
<1>4. /\ dst \in ProcessingKeys /\ redis'[dst] = Cons(e, redis[dst])
      /\ \A k \in Keys \ {src, dst} : redis'[k] = redis[k]
  BY <1>1, <1>2, <1>3, PopMoves
<1>5. redis[dst] \in Seq(Entries)
  BY <1>4 DEF TypeOK, Keys
<1>6. Held(w)' = Held(w) \cup {e}
  BY <1>4, <1>5, ConsSet DEF Held
<1>7. ASSUME NEW v \in Workers, v # w
      PROVE  Held(v)' = Held(v)
  <2>1. processingKey(v) \in Keys \ {src, dst}
    BY <1>7, KeyLemma DEF Keys
  <2> QED  BY <1>4, <2>1 DEF Held
<1> QED  BY <1>1, <1>2, <1>3, <1>6, <1>7

LEMMA StrandPush ==
    ASSUME TypeOK, StrandedOnlyByFault, NEW e \in Entries, NEW k \in QueueKeys,
           PushTask(e, k)
    PROVE  StrandedOnlyByFault'
<1>1. \A w \in Workers : /\ processingKey(w) \in Keys
                         /\ processingKey(w) # k
  BY KeyLemma DEF Keys
<1>2. \A w \in Workers : Held(w)' = Held(w) /\ e \notin Held(w)
  BY <1>1, PushSets DEF Held
<1>3. /\ getReq' = getReq /\ faults' = faults
      /\ \A w \in Workers : received'[w] = received[w] \ {e}
  BY DEF PushTask
<1>4. \A w \in Workers : \A d \in Held(w) : Knows(w, d) => Knows(w, d)'
  BY <1>2, <1>3 DEF Knows, OnItsWayTo
<1> QED  BY <1>2, <1>3, <1>4, StrandKept

LEMMA StrandPop ==
    ASSUME TypeOK, StrandedOnlyByFault, NEW c \in GetConns,
           PopTask(c) \/ PopUndecodable(c)
    PROVE  StrandedOnlyByFault'
<1>1. PICK w \in Workers, e \in Entries :
      /\ w = getReq[c].worker /\ e = Last(redis[SourceKey(getReq[c])])
      /\ Held(w)' = Held(w) \cup {e}
      /\ \A v \in Workers : v # w => Held(v)' = Held(v)
  BY MoveHeld DEF PopTask, PopUndecodable
<1>2. /\ received' = received /\ faults' = faults
      /\ \A d \in GetConns : d # c => getReq'[d] = getReq[d]
  BY DEF PopTask, PopUndecodable, TypeOK
<1>3. ASSUME NEW v \in Workers, v # w, NEW d, Knows(v, d)
      PROVE  Knows(v, d)'
  BY <1>1, <1>2, <1>3 DEF Knows, OnItsWayTo
<1>4. CASE PopUndecodable(c)
  <2>1. e \in Undecodable
    BY <1>1, <1>4 DEF PopUndecodable
  <2> QED  BY <1>1, <1>2, <1>3, <2>1, StrandKept
<1>5. CASE PopTask(c)
  <2>1. /\ getReq[c] \in GetRequests
        /\ NextList(getReq[c]) \in GetRequests
        /\ NextList(getReq[c]).worker = w
        /\ NextList(getReq[c]).tasks = getReq[c].tasks
    BY <1>1, RequestTypes DEF TypeOK
  <2>2. /\ getReq' = [getReq EXCEPT ![c] =
                [NextList(getReq[c]) EXCEPT !.tasks = Append(@, e)]]
        /\ e \notin Undecodable
    BY <1>1, <1>5 DEF PopTask
  <2>4. getReq[c].tasks \in Seq(Entries)
    BY <2>1 DEF GetRequests
  <2>5. /\ getReq'[c].worker = w
        /\ getReq'[c].tasks = Append(getReq[c].tasks, e)
    BY <2>1, <2>2 DEF TypeOK, GetRequests
  <2>6. /\ ToSet(getReq[c].tasks) \subseteq ToSet(getReq'[c].tasks)
        /\ e \in ToSet(getReq'[c].tasks)
    <3>1. /\ Len(getReq[c].tasks) \in Nat
          /\ Len(getReq'[c].tasks) = Len(getReq[c].tasks) + 1
          /\ DOMAIN getReq[c].tasks = 1..Len(getReq[c].tasks)
      BY <2>4, <2>5
    <3>2. /\ DOMAIN getReq'[c].tasks = 1..(Len(getReq[c].tasks) + 1)
          /\ getReq'[c].tasks[Len(getReq[c].tasks) + 1] = e
          /\ \A i \in 1..Len(getReq[c].tasks) : getReq'[c].tasks[i] = getReq[c].tasks[i]
      BY <2>4, <2>5
    <3> QED  BY <3>1, <3>2 DEF ToSet
  <2>8. ASSUME NEW d, Knows(w, d)
        PROVE  Knows(w, d)'
    BY <1>1, <1>2, <2>5, <2>6, <2>8 DEF Knows, OnItsWayTo
  <2>9. Knows(w, e)'
    BY <2>5, <2>6 DEF Knows, OnItsWayTo
  <2> QED  BY <1>1, <1>2, <1>3, <2>8, <2>9, StrandKept
<1> QED  BY <1>4, <1>5

LEMMA StrandSend ==
    ASSUME TypeOK, StrandedOnlyByFault, NEW c \in GetConns, SendWork(c)
    PROVE  StrandedOnlyByFault'
<1> DEFINE w == getReq[c].worker
<1>1. /\ w \in Workers /\ redis' = redis /\ faults' = faults
      /\ received' = [received EXCEPT ![w] = @ \cup ToSet(getReq[c].tasks)]
      /\ getReq' = [getReq EXCEPT ![c] = IdleGet]
  BY DEF SendWork, TypeOK
<1>2. /\ received'[w] = received[w] \cup ToSet(getReq[c].tasks)
      /\ \A v \in Workers : v # w => received'[v] = received[v]
      /\ \A d \in GetConns : d # c => getReq'[d] = getReq[d]
  BY <1>1 DEF TypeOK
<1>3. \A v \in Workers : Held(v)' = Held(v)
  BY <1>1 DEF Held
<1>4. ASSUME NEW v \in Workers, NEW e, Knows(v, e)
      PROVE  Knows(v, e)'
  <2>1. CASE e \in received[v]
    BY <1>2, <2>1 DEF Knows
  <2>2. ASSUME NEW d \in GetConns, getReq[d].worker = v, e \in ToSet(getReq[d].tasks)
        PROVE  Knows(v, e)'
    BY <1>2, <2>2 DEF Knows, OnItsWayTo
  <2> QED  BY <1>4, <2>1, <2>2 DEF Knows, OnItsWayTo
<1> QED  BY <1>1, <1>3, <1>4, StrandKept

\* Every step without a fault keeps every entry known.
LEMMA NextStrand ==
    ASSUME TypeOK, AcksDecode, StrandInv, [Next]_vars
    PROVE  StrandInv'
<1>1. IdleCarriesNothing'
  <2> SUFFICES ASSUME NEW c \in GetConns, getReq'[c].pc = "idle"
               PROVE  getReq'[c].tasks = <<>>
    BY DEF IdleCarriesNothing
  <2>1. NextList(getReq[c]).pc = getReq[c].pc /\ NextList(getReq[c]) \in GetRequests
    BY RequestTypes DEF TypeOK
  <2>2. Popping(c) => NextList(getReq[c]).pc = "pop"
    BY <2>1 DEF Popping
  <2>3. PopTask(c) => getReq'[c].pc = "pop"
    BY <2>1, <2>2 DEF PopTask, TypeOK, GetRequests
  <2>4. \A w, q, p : Asked(w, q, p).pc = "pop"
    BY DEF Asked, IdleGet
  <2>5. IdleGet.tasks = <<>>
    BY DEF IdleGet
  <2> QED  BY <2>2, <2>3, <2>4, <2>5, GetSteps DEF StrandInv, IdleCarriesNothing
<1>2. StrandedOnlyByFault'
  <2>i. StrandedOnlyByFault /\ faults \in Nat
    BY FaultAssumption DEF StrandInv, TypeOK
  <2>f. ASSUME Fault PROVE StrandedOnlyByFault'
    BY <2>i, <2>f DEF Fault, StrandedOnlyByFault
  <2>1. ASSUME NEW c \in GetConns, GetStep(c)
        PROVE  StrandedOnlyByFault'
    <3>1. CASE PopEmpty(c)
      <4>1. /\ redis' = redis /\ received' = received /\ faults' = faults
            /\ getReq' = [getReq EXCEPT ![c] = NextList(getReq[c])]
        BY <3>1 DEF PopEmpty
      <4>2. /\ NextList(getReq[c]).worker = getReq[c].worker
            /\ NextList(getReq[c]).tasks = getReq[c].tasks
        BY RequestTypes DEF TypeOK
      <4> QED  BY <2>i, <4>1, <4>2, StrandSame DEF TypeOK
    <3>2. CASE PopFails(c) \/ PopResent(c) \/ LoseWork(c)
      BY <2>f, <3>2 DEF PopFails, PopResent, LoseWork
    <3> QED  BY <2>i, <2>1, <3>1, <3>2, StrandPop, StrandSend DEF GetStep
  <2>2. ASSUME NEW c \in GetConns, NEW w \in Workers, NEW q \in CapacityQueries,
               NEW p \in PlatformQueries, GetWork(c, w, q, p)
        PROVE  StrandedOnlyByFault'
    <3>1. /\ redis' = redis /\ received' = received /\ faults' = faults
          /\ getReq[c].tasks = <<>>
          /\ \A d \in GetConns : d # c => getReq'[d] = getReq[d]
      BY <2>2 DEF GetWork, StrandInv, IdleCarriesNothing, TypeOK
    <3> QED  BY <2>i, <3>1, StrandSame
  <2>3. ASSUME NEW c \in AckConns, AckStep(c)
        PROVE  StrandedOnlyByFault'
    <3>1. CASE AckLRem(c)
      BY <2>i, <3>1, StrandRem DEF AckLRem, AcksDecode, TypeOK
    <3>2. CASE AckLRange(c) \/ AckReply(c)
      BY <2>i, <3>2, StrandSame DEF AckLRange, AckReply
    <3> QED  BY <2>f, <2>3, <3>1, <3>2 DEF AckStep, AckLRangeFails, AckLRemFails
  <2>4. ASSUME NEW c \in AckConns, NEW w \in Workers, NEW id \in TaskIds,
               AckRequest(c, w, id)
        PROVE  StrandedOnlyByFault'
    BY <2>i, <2>4, StrandSame DEF AckRequest
  <2>5. UNCHANGED vars => StrandedOnlyByFault'
    BY <2>i, StrandSame DEF vars
  <2>6. Crash \/ (\E w \in Workers : WorkerRestart(w)) => StrandedOnlyByFault'
    BY <2>f DEF Crash, WorkerRestart
  <2> QED  BY <2>i, <2>1, <2>2, <2>3, <2>4, <2>5, <2>6, StrandPush DEF Next
<1> QED  BY <1>1, <1>2 DEF StrandInv

LEMMA InitStrand == Init => StrandInv
  BY KeyLemma DEF Init, StrandInv, IdleCarriesNothing, IdleGet, StrandedOnlyByFault, Keys,
                  ToSet

\* As long as no fault happens, every entry of a processing list without a
\* payload that does not decode is known to its worker or on its way to it.
THEOREM NothingStranded == Spec => []StrandedOnlyByFault
<1>1. ChosenHeld => AcksDecode
  BY DEF ChosenHeld, AcksDecode, Holds
<1>2. TypeOK /\ ChosenHeld /\ StrandInv /\ [Next]_vars => StrandInv'
  BY <1>1, NextStrand
<1>3. StrandInv => StrandedOnlyByFault
  BY DEF StrandInv
<1> QED  BY <1>2, <1>3, InitStrand, AcksKnowTheirEntries, PTL DEF Spec

-----------------------------------------------------------------------------
(* Both gateways *)

AllBounded == \A c \in GetConns : Bounded(getReq[c])

\* What the theorems about the queue rest on.
QueueOK == TypeOK /\ OnePlace /\ HandInv /\ AllBounded /\ AckInv

LEMMA InitQueueOK == Init => QueueOK
  BY InitType, InitHand, InitAckInv, IdleBounded
     DEF QueueOK, OnePlace, Init, AllBounded

LEMMA NextQueueOK == QueueOK /\ [Next]_vars => QueueOK'
  BY NextType, NextOnePlace, NextHand, NextBounded, NextAckInv
     DEF QueueOK, AllBounded

\* What acknowledgements know of the entries they chose stays true when any
\* entry moves.
LEMMA MoveAckInv ==
    ASSUME TypeOK, OnePlace, AckInv, NEW c \in GetConns, Popping(c),
           MoveOldest(getReq[c]), ackReq' = ackReq
    PROVE  AckInv'
<1> DEFINE src == SourceKey(getReq[c])
           dst == processingKey(getReq[c].worker)
           e   == Last(redis[src])
<1>1. /\ src \in QueueKeys /\ dst \in ProcessingKeys
      /\ e \in ToSet(redis[src])
      /\ ToSet(redis'[src]) = ToSet(redis[src]) \ {e}
      /\ ToSet(redis'[dst]) = ToSet(redis[dst]) \cup {e}
      /\ \A l \in Keys \ {src, dst} : redis'[l] = redis[l]
  BY MoveSets
<1> HIDE DEF src, dst, e
<1>2. src \in Keys /\ src \notin ProcessingKeys
  BY <1>1, KeyLemma DEF Keys
<1>3. \A k \in Keys : ToSet(redis'[k]) \subseteq ToSet(redis[k]) \cup {e}
  BY <1>1
<1>4. ASSUME NEW a \in AckConns, ackReq[a].pc = "lrem" \/ ackReq[a].ok
      PROVE  ackReq[a].raw # e
  <2>1. ackReq[a].pc = "lrem" => processingKey(ackReq[a].worker) \in ProcessingKeys
    BY KeyLemma DEF TypeOK
  <2> QED  BY <1>1, <1>2, <1>4, <2>1 DEF AckInv
<1> SUFFICES ASSUME NEW a \in AckConns
             PROVE  LET r == ackReq[a]
                    IN  /\ r.ok => r.pc = "reply"
                        /\ r.pc = "lrem" =>
                              \A k \in Keys : r.raw \in ToSet(redis'[k])
                                  => k = processingKey(r.worker)
                        /\ r.ok => \A k \in Keys : r.raw \notin ToSet(redis'[k])
  BY DEF AckInv
<1> QED  BY <1>3, <1>4 DEF AckInv

\* A payload either gateway hands out: the step of the queue, whoever can read
\* the payload.
LEMMA AppendsOK ==
    ASSUME QueueOK, NEW c \in GetConns, PopAppends(c)
    PROVE  QueueOK'
<1> USE DEF QueueOK
<1>1. TypeOK'
  BY AppendsType
<1>2. OnePlace'
  BY MoveKeepsOnePlace DEF PopAppends
<1>3. HandInv'
  BY PopTaskHands
<1>4. AllBounded'
  <2>1. \A d \in GetConns : d # c => getReq'[d] = getReq[d]
    BY DEF PopAppends, TypeOK
  <2> QED  BY <2>1, AppendsBounded DEF AllBounded
<1>5. AckInv'
  BY MoveAckInv DEF PopAppends
<1> QED  BY <1>1, <1>2, <1>3, <1>4, <1>5

\* A payload the Python gateway rejects moves like one it hands out, and its
\* request ends.
LEMMA RejectedOK ==
    ASSUME QueueOK, NEW c \in GetConns, PopRejected(c)
    PROVE  QueueOK'
<1>1. /\ Popping(c) /\ MoveOldest(getReq[c])
      /\ getReq' = [getReq EXCEPT ![c] = IdleGet]
      /\ ackReq' = ackReq /\ received' = received /\ faults' = faults
  BY DEF PopRejected
<1>2. TypeOK'
  <2>1. redis' \in [Keys -> Seq(Entries)]
    BY <1>1, PopMoves DEF QueueOK
  <2>2. IdleGet \in GetRequests /\ IdleGet.pc = "idle"
    BY RequestTypes DEF IdleGet
  <2> QED  BY <1>1, <2>1, <2>2 DEF QueueOK, TypeOK
<1>3. OnePlace'
  BY <1>1, MoveKeepsOnePlace DEF QueueOK
<1>4. \A d \in GetConns : getReq'[d] = getReq[d] \/ getReq'[d] = IdleGet
  BY <1>1 DEF QueueOK, TypeOK
<1>5. HandInv'
  <2>1. Waiting' \subseteq Waiting
    BY <1>1, PoppedLeaves DEF QueueOK
  <2>2. \A d \in GetConns : Carried(d)' \subseteq Carried(d)
    BY <1>4 DEF Carried, IdleGet, ToSet
  <2> QED  BY <1>1, <2>1, <2>2, HandKept DEF QueueOK
<1>6. AllBounded'
  BY <1>4, IdleBounded DEF QueueOK, AllBounded
<1>7. AckInv'
  BY <1>1, MoveAckInv DEF QueueOK
<1> QED  BY <1>2, <1>3, <1>5, <1>6, <1>7 DEF QueueOK

\* Steps that end requests, and remove at most one entry from a processing
\* list for a request that the queue does not know.
LEMMA EndingOK ==
    ASSUME QueueOK, TypeOK', received' = received,
           \A c \in GetConns : getReq'[c] \in {getReq[c], IdleGet},
           \A c \in AckConns : ackReq'[c] = ackReq[c] \/
                               (ackReq'[c].pc \in {"idle", "reply"} /\ ~ackReq'[c].ok),
           \/ redis' = redis
           \/ \E w \in Workers : \E e \in Entries : LRemOne(processingKey(w), e)
    PROVE  QueueOK'
<1>1. /\ OnePlace'
      /\ \A k \in Keys : ToSet(redis'[k]) \subseteq ToSet(redis[k])
  <2>1. CASE redis' = redis
    BY <2>1 DEF QueueOK, OnePlace
  <2>2. ASSUME NEW w \in Workers, NEW e \in Entries, LRemOne(processingKey(w), e)
        PROVE  /\ OnePlace'
               /\ \A k \in Keys : ToSet(redis'[k]) \subseteq ToSet(redis[k])
    <3>1. processingKey(w) \in Keys
      BY KeyLemma DEF Keys
    <3>2. OnePlace'
      BY <2>2, <3>1, RemovalKeepsOnePlace DEF QueueOK
    <3>3. /\ ToSet(redis'[processingKey(w)]) = ToSet(redis[processingKey(w)]) \ {e}
          /\ \A k \in Keys \ {processingKey(w)} : redis'[k] = redis[k]
      BY <2>2, <3>1, RemovalSets DEF QueueOK
    <3> QED  BY <3>2, <3>3
  <2> QED  BY <2>1, <2>2
<1>2. HandInv'
  <2>1. Waiting' \subseteq Waiting
    BY <1>1 DEF Waiting, Keys
  <2>2. \A d \in GetConns : Carried(d)' \subseteq Carried(d)
    BY DEF Carried, IdleGet, ToSet
  <2> QED  BY <2>1, <2>2, HandKept DEF QueueOK
<1>3. AllBounded'
  BY IdleBounded DEF QueueOK, AllBounded
<1>4. AckInv'
  BY <1>1 DEF QueueOK, AckInv
<1> QED  BY <1>1, <1>2, <1>3, <1>4 DEF QueueOK

\* A search that raises only ends its request.
LEMMA RaisedOK ==
    ASSUME QueueOK, NEW c \in AckConns, SearchRaises(c)
    PROVE  QueueOK'
<1>1. /\ ackReq' = [ackReq EXCEPT ![c] = IdleAck]
      /\ redis' = redis /\ getReq' = getReq /\ received' = received
      /\ faults' = faults
  BY DEF SearchRaises
<1>2. IdleAck \in AckRequests /\ IdleAck.pc = "idle" /\ ~IdleAck.ok
  BY RequestTypes DEF IdleAck
<1>3. TypeOK'
  BY <1>1, <1>2 DEF QueueOK, TypeOK
<1>4. \A d \in AckConns : ackReq'[d] \in {ackReq[d], IdleAck}
  BY <1>1 DEF QueueOK, TypeOK
<1> QED  BY <1>1, <1>2, <1>3, <1>4, EndingOK

\* A search that ends only chooses its entry, or none.
LEMMA SearchedOK ==
    ASSUME QueueOK, NEW c \in AckConns, LegacyLRange(c)
    PROVE  QueueOK'
<1> DEFINE r == ackReq[c]
           list == redis[processingKey(r.worker)]
<1>1. /\ redis' = redis /\ getReq' = getReq /\ received' = received
      /\ faults' = faults /\ r.pc = "lrange"
  BY DEF LegacyLRange
<1>2. /\ r \in AckRequests /\ r.worker \in Workers /\ ~r.ok
      /\ processingKey(r.worker) \in Keys /\ list \in Seq(Entries)
  BY <1>1, KeyLemma DEF QueueOK, TypeOK, AckInv, Keys
<1>3. ASSUME NEW i \in DOMAIN list,
             ackReq' = [ackReq EXCEPT ![c] = [r EXCEPT !.pc = "lrem", !.raw = list[i]]]
      PROVE  QueueOK'
  <2> DEFINE e == list[i]
  <2>1. e \in Entries /\ e \in ToSet(list)
    BY <1>2 DEF ToSet
  <2>2. \A k \in Keys : e \in ToSet(redis[k]) => k = processingKey(r.worker)
    BY <1>2, <2>1, OnePlaceSets DEF QueueOK
  <2> HIDE DEF e
  <2>3. ackReq' = [ackReq EXCEPT ![c] = [r EXCEPT !.pc = "lrem", !.raw = e]]
    BY <1>3 DEF e
  <2> HIDE DEF list
  <2>4. /\ ackReq'[c] \in AckRequests /\ ackReq'[c].pc = "lrem" /\ ~ackReq'[c].ok
        /\ ackReq'[c].raw = e /\ ackReq'[c].worker = r.worker
        /\ \A d \in AckConns : d # c => ackReq'[d] = ackReq[d]
    BY <1>2, <2>1, <2>3 DEF QueueOK, TypeOK, AckRequests
  <2> HIDE DEF r
  <2>5. TypeOK'
    BY <1>1, <1>2, <2>1, <2>3, <2>4 DEF QueueOK, TypeOK
  <2>6. OnePlace' /\ AllBounded'
    BY <1>1 DEF QueueOK, OnePlace, AllBounded
  <2>7. HandInv'
    BY <1>1 DEF QueueOK, HandInv, HandedOut, DeliveredOnce, Waiting, Carried
  <2>8. AckInv'
    BY <1>1, <2>2, <2>4 DEF QueueOK, AckInv
  <2> QED  BY <2>5, <2>6, <2>7, <2>8 DEF QueueOK
<1>4. CASE ackReq' = [ackReq EXCEPT ![c] = [r EXCEPT !.pc = "reply"]]
  <2>1. /\ ackReq'[c] \in AckRequests /\ ackReq'[c].pc = "reply" /\ ~ackReq'[c].ok
        /\ ackReq'[c].worker = r.worker
        /\ \A d \in AckConns : d # c => ackReq'[d] = ackReq[d]
    BY <1>2, <1>4 DEF QueueOK, TypeOK, AckRequests
  <2> HIDE DEF r
  <2>2. TypeOK'
    BY <1>1, <1>2, <1>4, <2>1 DEF QueueOK, TypeOK
  <2> QED  BY <1>1, <2>1, <2>2, EndingOK
<1> QED  BY <1>3, <1>4 DEF LegacyLRange

\* The steps of both gateways are those of the queue and four of the Python
\* gateway.
LEMMA LegacySteps ==
    ASSUME [LegacyNext]_vars
    PROVE  \/ [Next]_vars
           \/ \E c \in GetConns : LegacyPopTask(c) \/ PopRejected(c)
           \/ \E c \in AckConns : LegacyLRange(c) \/ SearchRaises(c)
<1>1. ASSUME NEW c \in GetConns, NEW w \in Workers,
             NEW q \in CapacityQueries, NEW p \in PlatformQueries,
             GetWork(c, w, q, p) \/ LegacyGetWork(c, w, q, p)
      PROVE  Next
  BY <1>1 DEF LegacyGetWork, Next
<1>2. ASSUME NEW c \in GetConns, GetStepOfEither(c)
      PROVE  Next \/ LegacyPopTask(c) \/ PopRejected(c)
  <2>1. GetStep(c) \/ LegacyPopTask(c) \/ PopRejected(c)
    BY <1>2 DEF GetStepOfEither, GetStep
  <2> QED  BY <2>1 DEF Next
<1>3. ASSUME NEW c \in AckConns, AckStepOfEither(c)
      PROVE  Next \/ LegacyLRange(c) \/ SearchRaises(c)
  BY <1>3 DEF AckStepOfEither, Next
<1>4. ASSUME \/ \E e \in Entries, k \in QueueKeys : PushTask(e, k)
             \/ \E c \in AckConns, w \in Workers, id \in TaskIds : AckRequest(c, w, id)
             \/ Crash
             \/ \E w \in Workers : WorkerRestart(w)
      PROVE  Next
  BY <1>4 DEF Next
<1> QED  BY <1>1, <1>2, <1>3, <1>4 DEF LegacyNext

LEMMA LegacyQueueOK == LegacySpec => []QueueOK
<1>1. QueueOK /\ [LegacyNext]_vars => QueueOK'
  BY LegacySteps, NextQueueOK, PopTaskAppends, AppendsOK, RejectedOK, SearchedOK,
     RaisedOK
<1> QED  BY <1>1, InitQueueOK, PTL DEF LegacySpec

\* The lists hold payloads and the requests are requests, whichever gateway
\* serves them.
THEOREM BothTypesCorrect == LegacySpec => []TypeOK
<1>1. QueueOK => TypeOK
  BY DEF QueueOK
<1> QED  BY <1>1, LegacyQueueOK, PTL

\* No payload is copied while both gateways move and remove entries of the
\* same lists.
THEOREM BothKeepOnePlace == LegacySpec => []OnePlace
<1>1. QueueOK => OnePlace
  BY DEF QueueOK
<1> QED  BY <1>1, LegacyQueueOK, PTL

\* The entry a request knows holds its task id for the gateway that serves it.
ChosenByEither ==
    \A c \in AckConns :
        ackReq[c].pc = "lrem" =>
            \/ Holds(ackReq[c].raw, ackReq[c].id)
            \/ LegacyHolds(ackReq[c].raw, ackReq[c].id)

LEMMA NextChosenByEither == TypeOK /\ ChosenByEither /\ [LegacyNext]_vars => ChosenByEither'
<1> SUFFICES ASSUME TypeOK, ChosenByEither, [LegacyNext]_vars,
                    NEW c \in AckConns, ackReq'[c].pc = "lrem"
             PROVE  \/ Holds(ackReq'[c].raw, ackReq'[c].id)
                    \/ LegacyHolds(ackReq'[c].raw, ackReq'[c].id)
  BY DEF ChosenByEither, Holds, LegacyHolds
<1>1. CASE [Next]_vars
  BY <1>1, AckSteps DEF ChosenByEither
<1>2. CASE ackReq'[c] = ackReq[c]
  BY <1>2 DEF ChosenByEither
<1>3. ASSUME NEW d \in GetConns, LegacyPopTask(d) \/ PopRejected(d)
      PROVE  ackReq'[c] = ackReq[c]
  BY <1>3 DEF LegacyPopTask, PopRejected
<1>4. ASSUME NEW d \in AckConns, SearchRaises(d)
      PROVE  ackReq'[c] = ackReq[c]
  BY <1>4 DEF SearchRaises, TypeOK, IdleAck
<1>5. ASSUME NEW d \in AckConns, LegacyLRange(d)
      PROVE  \/ ackReq'[c] = ackReq[c]
             \/ LegacyHolds(ackReq'[c].raw, ackReq'[c].id)
  <2> DEFINE r == ackReq[d]
             list == redis[processingKey(r.worker)]
  <2>1. CASE d # c
    BY <1>5, <2>1 DEF LegacyLRange, TypeOK
  <2>2. ASSUME d = c, NEW i \in DOMAIN list, LegacyHolds(list[i], r.id),
               ackReq' = [ackReq EXCEPT ![d] = [r EXCEPT !.pc = "lrem", !.raw = list[i]]]
        PROVE  LegacyHolds(ackReq'[c].raw, ackReq'[c].id)
    <3> HIDE DEF list
    <3>1. ackReq'[c].raw = list[i] /\ ackReq'[c].id = r.id
      BY <2>2 DEF TypeOK, AckRequests
    <3> QED  BY <2>2, <3>1
  <2>3. CASE d = c /\ ackReq' = [ackReq EXCEPT ![d] = [r EXCEPT !.pc = "reply"]]
    BY <2>3 DEF TypeOK, AckRequests
  <2> QED  BY <1>5, <2>1, <2>2, <2>3 DEF LegacyLRange
<1> QED  BY <1>1, <1>2, <1>3, <1>4, <1>5, LegacySteps

\* An entry leaves a processing list only by a request that names this worker
\* and the task id one of the gateways reads in the entry, for any payloads
\* either of them cannot read: none that one passes over, rejects or stops at
\* is removed in the place of another.
THEOREM BothAwaitTheirAck == LegacySpec => RemovedOnlyByAnAck
<1> DEFINE Acked == \A w \in Workers :
                       \A e \in ToSet(redis[processingKey(w)]) :
                          \/ e \in ToSet(redis'[processingKey(w)])
                          \/ \E c \in AckConns :
                                /\ ackReq[c].worker = w
                                /\ Holds(e, ackReq[c].id) \/ LegacyHolds(e, ackReq[c].id)
<1>1. QueueOK /\ [LegacyNext]_vars => [Removal]_vars
  <2> SUFFICES ASSUME QueueOK, [LegacyNext]_vars
               PROVE  Removal
    OBVIOUS
  <2>1. CASE [Next]_vars
    BY <2>1, NextRemoval DEF QueueOK
  <2>2. ASSUME NEW c \in GetConns, LegacyPopTask(c) \/ PopRejected(c)
        PROVE  Removal
    BY <2>2, MoveRemovesNone DEF QueueOK, LegacyPopTask, PopRejected, Removal
  <2>3. ASSUME NEW c \in AckConns, LegacyLRange(c) \/ SearchRaises(c)
        PROVE  Removal
    BY <2>3 DEF LegacyLRange, SearchRaises, Removal
  <2> QED  BY <2>1, <2>2, <2>3, LegacySteps
<1>2. ChosenByEither /\ [Removal]_vars => [Acked]_vars
  BY DEF ChosenByEither, Removal
<1>3. Init => ChosenByEither
  BY DEF Init, IdleAck, ChosenByEither
<1>4. QueueOK => TypeOK
  BY DEF QueueOK
<1>5. LegacySpec => [][Acked]_vars
  <2> HIDE DEF Acked
  <2> QED  BY <1>1, <1>2, <1>3, <1>4, LegacyQueueOK, NextChosenByEither, PTL
              DEF LegacySpec
<1> QED  BY <1>5 DEF RemovedOnlyByAnAck

\* Both gateways together hand a payload to one worker, in one response.
THEOREM BothHandOutOnce == LegacySpec => []DeliveredOnce
<1>1. QueueOK => DeliveredOnce
  BY DEF QueueOK, HandInv
<1> QED  BY <1>1, LegacyQueueOK, PTL

\* A success of either gateway leaves no trace of the entry it chose, while
\* the other one pops and removes entries of the same list.
THEOREM BothSuccessesFinal == LegacySpec => []SuccessMeansGone
<1>1. QueueOK => SuccessMeansGone
  BY DEF QueueOK, TypeOK, AckInv, SuccessMeansGone, Stored
<1> QED  BY <1>1, LegacyQueueOK, PTL

\* The responses of both gateways are within capacity and the lists asked for.
THEOREM BothResponsesBounded == LegacySpec => []ResponseBounded
<1>1. QueueOK => ResponseBounded
  BY BoundedResponses DEF QueueOK, AllBounded
<1> QED  BY <1>1, LegacyQueueOK, PTL

\* Both gateways together keep the promise of the ledger: what either does with
\* payloads it cannot read is a claim, or no change.
THEOREM BothImplementLedger == LegacySpec => ImplementsLedger
<1>1. QueueOK /\ [LegacyNext]_vars => [Ledger!Next]_<<Waiting, Claimed>>
  <2> SUFFICES ASSUME QueueOK, [LegacyNext]_vars
               PROVE  [Ledger!Next]_<<Waiting, Claimed>>
    OBVIOUS
  <2>1. CASE [Next]_vars
    BY <2>1, NextLedger DEF QueueOK
  <2>2. ASSUME NEW c \in GetConns, LegacyPopTask(c) \/ PopRejected(c)
        PROVE  Ledger!Next
    BY <2>2, MoveClaims DEF QueueOK, LegacyPopTask, PopRejected, Ledger!Next
  <2>3. ASSUME NEW c \in AckConns, LegacyLRange(c) \/ SearchRaises(c)
        PROVE  UNCHANGED <<Waiting, Claimed>>
    BY <2>3 DEF LegacyLRange, SearchRaises, Waiting, Claimed
  <2> QED  BY <2>1, <2>2, <2>3, LegacySteps
<1> QED  BY <1>1, LegacyQueueOK, InitLedger, PTL DEF LegacySpec, ImplementsLedger, Ledger!Spec
=============================================================================
