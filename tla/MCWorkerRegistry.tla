-------------------------- MODULE MCWorkerRegistry --------------------------
(* Instances of WorkerRegistry: two workers over three connections.        *)
EXTENDS WorkerRegistry
=============================================================================
