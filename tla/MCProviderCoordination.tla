------------------------- MODULE MCProviderCoordination -------------------------
(* Values of the constants of ProviderCoordination for TLC.                *)
EXTENDS ProviderCoordination, TLC

CONSTANTS c1, c2, i1, i2, i3, i4

MCEstimate == [c \in Caller |-> 1]

Ids == Permutations(Id)
===============================================================================
