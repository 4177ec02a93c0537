---------------------------- MODULE MCTaskQueue ----------------------------
(* Instances of TaskQueue and LegacyQueue: e1 and e2 are payloads of one   *)
(* task id.  In some runs only the Python gateway reads e2 (its created_at  *)
(* has no zone) and only the Go gateway reads e3 (it has no task_id, which  *)
(* Go takes for an empty one).                                              *)
EXTENDS LegacyQueue

CONSTANTS e1, e2, e3, t1, t2, p1, p2

MCTaskIdOf == [e \in Entries \ Undecodable |-> IF e = e3 THEN None ELSE t1]
MCLegacyIdOf == [e \in Entries \ Unreadable |-> t1]

\* The default list, one platform, and the same platform twice.
MCPlatformQueries == {<<>>, <<p1>>, <<p1, p1>>}
OnePlatform == <<p1>>
TwoPlatforms == <<p1, p2>>
JustDefault == {<<>>}

\* Below, at and above the bounds of the handler.
MCCapacityQueries == {-1, 1, 4}
FullCapacity == {0, 1}

Symmetric ==
    Permutations(GetConns) \cup Permutations(AckConns) \cup Permutations(Workers)
=============================================================================
