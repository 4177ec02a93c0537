---------------------------- MODULE MCPublicApi ----------------------------
(* An instance of PublicApi: enough requests to open the breaker while     *)
(* others wait for the cache.                                              *)
EXTENDS PublicApi

CONSTANT premium

Client(worker, bearer, claim) == [worker |-> worker, bearer |-> bearer, claim |-> claim]

\* A worker and a user, and two that are refused.
MCClients == {Client("right", "none", None), Client("none", "valid", None),
              Client("wrong", "none", None), Client("none", "valid", premium)}
=============================================================================
