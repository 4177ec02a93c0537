--------------------------- MODULE MCTokenBucket ---------------------------
(* An instance of TokenBucket: two tokens of two units, one unit per tick. *)
EXTENDS TokenBucket, TLC

Symmetric == Permutations(Requests)
=============================================================================
