------------------------ MODULE WorkerRegistryProofs ------------------------
(***************************************************************************)
(* Theorems about WorkerRegistry, for any workers, any number of requests, *)
(* any time to live and any delay of the requests.                         *)
(***************************************************************************)
EXTENDS WorkerRegistry, TLAPS

\* A request between HSET and EXPIRE knows how old last_seen can be: its own
\* heartbeat wrote it or a later HSET did, and no HSET writes a time that is
\* more than MaxDelay old.
PendingFresh ==
    \A c \in Conns :
        beat[c].pc = "expire" => seen[beat[c].worker] <= beat[c].age + MaxDelay

\* What holds while nothing fails.
Faultless ==
    faults = 0 => PendingFresh /\ ForeverOnlyByFault /\ StatusFresh

IInv == TypeOK /\ Faultless

LEMMA InitInv == Init => IInv
  BY TTLAssumption, BoundAssumption
     DEF Init, IInv, TypeOK, IdleBeat, Forever, Old, Faultless, PendingFresh,
         ForeverOnlyByFault, StatusFresh

-----------------------------------------------------------------------------
(* Types *)

\* What HSET writes fits the table.
LEMMA WriteStatusType ==
    ASSUME TypeOK, NEW w \in Workers, NEW age \in 0..MaxDelay, WriteStatus(w, age)
    PROVE  /\ seen' \in [Workers -> 0..Old]
           /\ life' \in [Workers -> 0..Forever]
  BY TTLAssumption, BoundAssumption DEF TypeOK, WriteStatus, Forever, Old

LEMMA ExpireType ==
    ASSUME TypeOK, NEW w \in Workers, Expire(w)
    PROVE  life' \in [Workers -> 0..Forever]
  BY TTLAssumption DEF TypeOK, Expire, Forever

\* Every step keeps the types.
LEMMA NextType == TypeOK /\ [Next]_vars => TypeOK'
<1> SUFFICES ASSUME TypeOK, [Next]_vars
             PROVE  TypeOK'
  OBVIOUS
<1> USE TTLAssumption, BoundAssumption
<1>1. ASSUME NEW c \in Conns, NEW w \in Workers, Heartbeat(c, w)
      PROVE  TypeOK'
  BY <1>1 DEF Heartbeat, TypeOK
<1>2. ASSUME NEW c \in Conns, HSet(c)
      PROVE  TypeOK'
  BY <1>2, WriteStatusType DEF HSet, TypeOK
<1>3. ASSUME NEW c \in Conns, HSetFails(c)
      PROVE  TypeOK'
  <2>1. /\ seen' \in [Workers -> 0..Old]
        /\ life' \in [Workers -> 0..Forever]
    BY <1>3, WriteStatusType DEF HSetFails, TypeOK
  <2> QED  BY <1>3, <2>1 DEF HSetFails, TypeOK, Fault, IdleBeat
<1>4. ASSUME NEW c \in Conns, Acknowledge(c)
      PROVE  TypeOK'
  <2>1. beat[c].worker \in Workers /\ life' \in [Workers -> 0..Forever]
    BY <1>4, ExpireType DEF Acknowledge, TypeOK
  <2> DEFINE Beats == [Conns -> [pc : {"idle", "hset", "expire", "reply"},
                                 worker : Workers \cup {None}, age : 0..MaxDelay]]
             replied == [beat EXCEPT ![c].pc = "reply"]
  <2>2. replied \in Beats /\ replied[c].worker = beat[c].worker
    BY DEF TypeOK
  <2>3. beat' = [replied EXCEPT ![c].age = 0]
    BY <1>4, Zenon DEF Acknowledge
  <2> HIDE DEF replied
  <2>4. [replied EXCEPT ![c].age = 0] \in Beats
    BY <2>2
  <2>5. beat' \in Beats
    BY <2>3, <2>4
  <2>6. ASSUME NEW d \in Conns
        PROVE  beat'[d].pc # "idle" => beat'[d].worker \in Workers
    BY <1>4, <2>1 DEF Acknowledge, TypeOK
  <2> QED  BY <1>4, <2>1, <2>5, <2>6 DEF Acknowledge, TypeOK
<1>5. ASSUME NEW c \in Conns, ExpireFails(c)
      PROVE  TypeOK'
  <2>1. life' \in [Workers -> 0..Forever]
    BY <1>5, ExpireType DEF ExpireFails, TypeOK
  <2> QED  BY <1>5, <2>1 DEF ExpireFails, TypeOK, Fault, IdleBeat
<1>6. ASSUME NEW c \in Conns, Reply(c)
      PROVE  TypeOK'
  BY <1>6 DEF Reply, TypeOK, IdleBeat
<1>7. CASE Crash
  BY <1>7 DEF Crash, TypeOK, Fault, IdleBeat
<1>8. CASE Tick
  <2>1. /\ seen' \in [Workers -> 0..Old]
        /\ life' \in [Workers -> 0..Forever]
    BY <1>8 DEF Tick, TypeOK, Forever, Old
  <2>2. ASSUME NEW c \in Conns
        PROVE  /\ beat'[c] \in [pc : {"idle", "hset", "expire", "reply"},
                                worker : Workers \cup {None}, age : 0..MaxDelay]
               /\ beat'[c].pc = beat[c].pc
               /\ beat'[c].worker = beat[c].worker
    BY <1>8, <2>2 DEF Tick, TypeOK, Waiting
  <2>3. beat' = [c \in Conns |-> beat'[c]]
    BY <1>8 DEF Tick
  <2>4. beat' \in [Conns -> [pc : {"idle", "hset", "expire", "reply"},
                             worker : Workers \cup {None}, age : 0..MaxDelay]]
    BY <2>2, <2>3
  <2> QED  BY <1>8, <2>1, <2>2, <2>4 DEF Tick, TypeOK
<1>9. ASSUME NEW w \in Workers, WorkerChanges(w)
      PROVE  TypeOK'
  BY <1>9 DEF WorkerChanges, TypeOK
<1>10. CASE UNCHANGED vars
  BY <1>10 DEF vars, TypeOK
<1> QED  BY <1>1, <1>2, <1>3, <1>4, <1>5, <1>6, <1>7, <1>8, <1>9, <1>10
            DEF Next, Step

-----------------------------------------------------------------------------
(* What holds while nothing fails *)

\* HSET makes a new status, for which its own request stands, or makes an old
\* one as young as its request.
LEMMA HSetKeeps ==
    ASSUME IInv, TypeOK', faults = 0, NEW c \in Conns, HSet(c)
    PROVE  PendingFresh' /\ ForeverOnlyByFault' /\ StatusFresh'
<1> USE TTLAssumption, BoundAssumption
<1> DEFINE w == beat[c].worker
<1>1. w \in Workers /\ beat[c].age \in 0..MaxDelay
  BY DEF IInv, TypeOK, HSet
<1>2. /\ seen' = [seen EXCEPT ![w] = beat[c].age]
      /\ life' = [life EXCEPT ![w] = IF @ = 0 THEN Forever ELSE @]
      /\ beat' = [beat EXCEPT ![c].pc = "expire"]
      /\ faults' = 0
  BY DEF HSet, WriteStatus
<1>3. PendingFresh'
  BY <1>1, <1>2 DEF IInv, TypeOK, Faultless, PendingFresh
<1>4. ForeverOnlyByFault'
  BY <1>1, <1>2 DEF IInv, TypeOK, Faultless, ForeverOnlyByFault, Forever
<1>5. StatusFresh'
  <2> SUFFICES ASSUME NEW v \in Workers
               PROVE  /\ life'[v] \in 1..heartbeatTTL =>
                             seen'[v] <= heartbeatTTL - life'[v] + 2 * MaxDelay
                      /\ life'[v] = Forever => seen'[v] <= 2 * MaxDelay
    BY DEF StatusFresh, Forever
  <2>1. CASE v = w
    BY <1>1, <1>2, <2>1 DEF IInv, TypeOK, Forever
  <2>2. CASE v # w
    BY <1>1, <1>2, <2>2 DEF IInv, TypeOK, Faultless, StatusFresh, Forever
  <2> QED  BY <2>1, <2>2
<1> QED  BY <1>3, <1>4, <1>5

\* EXPIRE starts a life with what PendingFresh says of its request.
LEMMA ExpireKeeps ==
    ASSUME IInv, TypeOK', faults = 0, NEW c \in Conns, Acknowledge(c)
    PROVE  PendingFresh' /\ ForeverOnlyByFault' /\ StatusFresh'
<1> USE TTLAssumption, BoundAssumption
<1> DEFINE w == beat[c].worker
<1>1. /\ w \in Workers /\ beat[c].age \in 0..MaxDelay
      /\ seen[w] <= beat[c].age + MaxDelay
  BY DEF IInv, TypeOK, Acknowledge, Faultless, PendingFresh
<1>2. /\ life' = [life EXCEPT ![w] = IF @ = 0 THEN 0 ELSE heartbeatTTL]
      /\ beat' = [beat EXCEPT ![c].pc = "reply", ![c].age = 0]
      /\ seen' = seen /\ faults' = 0
  BY DEF Acknowledge, Expire
<1>3. PendingFresh'
  BY <1>2 DEF IInv, TypeOK, Faultless, PendingFresh
<1>4. ForeverOnlyByFault'
  <2> SUFFICES ASSUME NEW v \in Workers, life'[v] = Forever
               PROVE  \E d \in Conns : beat'[d].pc = "expire" /\ beat'[d].worker = v
    BY DEF ForeverOnlyByFault, Forever
  <2>1. v # w /\ life[v] = Forever
    BY <1>1, <1>2 DEF IInv, TypeOK, Forever
  <2>2. PICK d \in Conns : beat[d].pc = "expire" /\ beat[d].worker = v
    BY <2>1 DEF IInv, Faultless, ForeverOnlyByFault
  <2> QED  BY <1>2, <2>1, <2>2 DEF IInv, TypeOK
<1>5. StatusFresh'
  <2> SUFFICES ASSUME NEW v \in Workers
               PROVE  /\ life'[v] \in 1..heartbeatTTL =>
                             seen'[v] <= heartbeatTTL - life'[v] + 2 * MaxDelay
                      /\ life'[v] = Forever => seen'[v] <= 2 * MaxDelay
    BY DEF StatusFresh, Forever
  <2>1. CASE v = w
    BY <1>1, <1>2, <2>1 DEF IInv, TypeOK, Forever
  <2>2. CASE v # w
    BY <1>1, <1>2, <2>2 DEF IInv, TypeOK, Faultless, StatusFresh, Forever
  <2> QED  BY <2>1, <2>2
<1> QED  BY <1>3, <1>4, <1>5

\* Time adds to last_seen at most what it takes from the life of a status, or,
\* if the status has no time to live, what it adds to the request that stands
\* for it.
LEMMA TickKeeps ==
    ASSUME IInv, TypeOK', faults = 0, Tick
    PROVE  PendingFresh' /\ ForeverOnlyByFault' /\ StatusFresh'
<1> USE TTLAssumption, BoundAssumption
<1>1. ASSUME NEW v \in Workers
      PROVE  /\ seen[v] \in Nat /\ life[v] \in 0..Forever
             /\ seen'[v] \in Nat /\ seen'[v] <= seen[v] + 1
             /\ life'[v] = IF life[v] \in {0, Forever} THEN life[v] ELSE life[v] - 1
  BY <1>1 DEF IInv, TypeOK, Tick, Old
<1>2. ASSUME NEW c \in Conns, beat[c].pc = "expire" \/ beat'[c].pc = "expire"
      PROVE  /\ beat[c].pc = "expire" /\ beat'[c].pc = "expire"
             /\ beat'[c].worker = beat[c].worker /\ beat[c].worker \in Workers
             /\ beat[c].age \in Nat /\ beat'[c].age = beat[c].age + 1
             /\ beat'[c].age <= MaxDelay
  BY <1>2 DEF IInv, TypeOK, Tick, Waiting
<1>3. faults' = 0
  BY DEF Tick
<1>4. PendingFresh'
  BY <1>1, <1>2 DEF IInv, Faultless, PendingFresh
<1>5. ForeverOnlyByFault'
  <2> SUFFICES ASSUME NEW v \in Workers, life'[v] = Forever
               PROVE  \E d \in Conns : beat'[d].pc = "expire" /\ beat'[d].worker = v
    BY DEF ForeverOnlyByFault, Forever
  <2>1. life[v] = Forever
    BY <1>1 DEF Forever
  <2> QED  BY <1>2, <2>1 DEF IInv, Faultless, ForeverOnlyByFault
<1>6. ASSUME NEW v \in Workers, life'[v] = Forever
      PROVE  seen'[v] <= 2 * MaxDelay
  <2>1. PICK d \in Conns : beat'[d].pc = "expire" /\ beat'[d].worker = v
    BY <1>3, <1>5, <1>6 DEF ForeverOnlyByFault, Forever
  <2>2. seen'[v] <= beat'[d].age + MaxDelay
    BY <1>4, <2>1 DEF PendingFresh
  <2> QED  BY <1>1, <1>2, <2>1, <2>2
<1>7. ASSUME NEW v \in Workers, life'[v] \in 1..heartbeatTTL
      PROVE  seen'[v] <= heartbeatTTL - life'[v] + 2 * MaxDelay
  <2>1. life[v] \in 1..heartbeatTTL /\ life'[v] = life[v] - 1
    BY <1>1, <1>7 DEF Forever
  <2>2. seen[v] <= heartbeatTTL - life[v] + 2 * MaxDelay
    BY <2>1 DEF IInv, Faultless, StatusFresh
  <2> QED  BY <1>1, <2>1, <2>2
<1>8. StatusFresh'
  BY <1>6, <1>7 DEF StatusFresh, Forever
<1> QED  BY <1>4, <1>5, <1>8

\* Every step keeps the invariant.
LEMMA NextInv == IInv /\ [Next]_vars => IInv'
<1> SUFFICES ASSUME IInv, [Next]_vars
             PROVE  IInv'
  OBVIOUS
<1>1. TypeOK'
  BY NextType DEF IInv
<1> SUFFICES ASSUME faults' = 0
             PROVE  PendingFresh' /\ ForeverOnlyByFault' /\ StatusFresh'
  BY <1>1 DEF IInv, Faultless
<1>2. ASSUME Fault
      PROVE  FALSE
  BY <1>2 DEF Fault, IInv, TypeOK
<1>3. faults = 0
  BY <1>2 DEF Next, Step, Heartbeat, HSet, HSetFails, Acknowledge, ExpireFails,
              Reply, Crash, Tick, WorkerChanges, vars
<1>4. PendingFresh /\ ForeverOnlyByFault /\ StatusFresh
  BY <1>3 DEF IInv, Faultless
<1>5. ASSUME NEW c \in Conns, NEW w \in Workers, Heartbeat(c, w)
      PROVE  PendingFresh' /\ ForeverOnlyByFault' /\ StatusFresh'
  BY <1>4, <1>5 DEF IInv, TypeOK, Heartbeat, PendingFresh, ForeverOnlyByFault,
                    StatusFresh, Forever
<1>6. ASSUME NEW c \in Conns, Reply(c)
      PROVE  PendingFresh' /\ ForeverOnlyByFault' /\ StatusFresh'
  BY <1>4, <1>6 DEF IInv, TypeOK, Reply, IdleBeat, PendingFresh,
                    ForeverOnlyByFault, StatusFresh, Forever
<1>7. ASSUME NEW w \in Workers, WorkerChanges(w)
      PROVE  PendingFresh' /\ ForeverOnlyByFault' /\ StatusFresh'
  BY <1>4, <1>7 DEF WorkerChanges, PendingFresh, ForeverOnlyByFault, StatusFresh,
                    Forever
<1>8. CASE UNCHANGED vars
  BY <1>4, <1>8 DEF vars, PendingFresh, ForeverOnlyByFault, StatusFresh, Forever
<1>9. ASSUME NEW c \in Conns, HSetFails(c) \/ ExpireFails(c)
      PROVE  FALSE
  BY <1>2, <1>9 DEF HSetFails, ExpireFails
<1>10. CASE Crash
  BY <1>2, <1>10 DEF Crash
<1> QED  BY <1>1, <1>3, <1>5, <1>6, <1>7, <1>8, <1>9, <1>10, HSetKeeps,
            ExpireKeeps, TickKeeps DEF Next, Step

-----------------------------------------------------------------------------

LEMMA Invariant == Spec => []IInv
  BY InitInv, NextInv, PTL DEF Spec

\* The registry keeps its types: a status lives at most heartbeatTTL ticks, or
\* for ever, and every request in progress names a worker.
THEOREM RegistryTypeCorrect == Spec => []TypeOK
<1>1. IInv => TypeOK
  BY DEF IInv
<1> QED  BY <1>1, Invariant, PTL

\* While nothing fails, a status without a time to live has a request between
\* its HSET and its EXPIRE, whatever heartbeats and expiries interleave.
THEOREM NoStatusLeftForever == Spec => []ForeverOnlyByFault
<1>1. IInv => ForeverOnlyByFault
  BY DEF IInv, Faultless, ForeverOnlyByFault
<1> QED  BY <1>1, Invariant, PTL

\* While nothing fails, last_seen is at most as old as the time to live the
\* status has used up and twice the longest request.
THEOREM LastSeenFresh == Spec => []StatusFresh
<1>1. IInv => StatusFresh
  BY DEF IInv, Faultless, StatusFresh
<1> QED  BY <1>1, Invariant, PTL
=============================================================================
