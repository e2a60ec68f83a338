---------------------------- MODULE MCFetchCache ----------------------------
(* Instances of FetchCache for TLC. *)
EXTENDS FetchCache, TLC

CONSTANTS p1, p2, p3, k1

SameKey == [p \in Procs |-> <<k1>>]
=============================================================================
