---------------------------- MODULE MCOpLookup -----------------------------
(* Instances of OpLookup for TLC: two vaults and two items, a name in two
   cases, and a name that is the ID of something else. *)
EXTENDS OpLookup

CONSTANTS v1, v2, i1, i2, prod, PROD

MCFold(n) == IF n = PROD THEN prod ELSE n

MCRefs ==
  {[vault |-> prod, item |-> prod], [vault |-> v1, item |-> i1], [vault |-> prod, item |-> i1]}
=============================================================================
