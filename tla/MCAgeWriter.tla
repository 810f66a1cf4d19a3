------------------------------ MODULE MCAgeWriter ------------------------------
(* Values of the constants of AgeWriter for TLC: three batches and a       *)
(* re-extraction of the first.  b1 and b2 name entity e1 by different      *)
(* aliases, b2 and b3 disagree about entity e2, and b1x has the key of b1. *)
EXTENDS AgeWriter, TLC

CONSTANTS w1, w2, b1, b2, b3, b1x, k1, k2, k3, e1, e2

MCKeyOf == b1 :> k1 @@ b2 :> k2 @@ b3 :> k3 @@ b1x :> k1

MCContent ==
  LET entity(core, aliases) == [core |-> core, aliases |-> aliases] IN
     b1  :> (e1 :> entity("alloy", {"A1"}))
  @@ b2  :> (e1 :> entity("alloy", {"A2"}) @@ e2 :> entity("steel", {}))
  @@ b3  :> (e1 :> entity("alloy", {}) @@ e2 :> entity("polymer", {"A1"}))
  @@ b1x :> (e1 :> entity("alloy", {"A1", "A2"}))

MCLockRank == k1 :> 1 @@ k2 :> 2 @@ k3 :> 3 @@ e1 :> 4 @@ e2 :> 5
===============================================================================
