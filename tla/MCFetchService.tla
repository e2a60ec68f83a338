--------------------------- MODULE MCFetchService ---------------------------
(* Instances of FetchService for TLC: two jobs want the same secrets in opposite
   orders, and one of them has a reference that is rejected. *)
EXTENDS FetchService, TLC

CONSTANTS p1, p2, k1, k2, k3

Crossed == (p1 :> <<k1, k2>>) @@ (p2 :> <<k2, k1, k3>>)
=============================================================================
