----------------------------- MODULE TaskLedger -----------------------------
(***************************************************************************)
(* What the task queue promises its producer and its workers, without      *)
(* requests, lists or Redis: a submitted payload waits, is claimed by one  *)
(* worker, and stays claimed by this worker until it is settled under the  *)
(* task id it holds.  TaskQueue implements it.                             *)
(***************************************************************************)
CONSTANTS Workers, Entries

VARIABLES
    waiting, \* payloads in the queues
    claimed  \* payloads claimed by each worker

Init ==
    /\ waiting = {}
    /\ claimed = [w \in Workers |-> {}]

Submit(e) ==
    /\ e \notin waiting
    /\ \A w \in Workers : e \notin claimed[w]
    /\ waiting' = waiting \cup {e}
    /\ UNCHANGED claimed

Claim(w, e) ==
    /\ e \in waiting
    /\ waiting' = waiting \ {e}
    /\ claimed' = [claimed EXCEPT ![w] = @ \cup {e}]

Settle(w, e) ==
    /\ e \in claimed[w]
    /\ claimed' = [claimed EXCEPT ![w] = @ \ {e}]
    /\ UNCHANGED waiting

Next ==
    \/ \E e \in Entries : Submit(e)
    \/ \E w \in Workers, e \in Entries : Claim(w, e) \/ Settle(w, e)

Spec == Init /\ [][Next]_<<waiting, claimed>>
=============================================================================
