----------------------------- MODULE MCGraphWrites -----------------------------
(* Values of the constants of GraphWrites for TLC.                         *)
EXTENDS GraphWritesProps, TLC

CONSTANTS b1, b2, r1, r2

MCIdOf == [r \in Runner |-> "worker-a"]

(* The two batches disagree about an entity they share.                    *)
MCClash == {<<b1, b2>>, <<b2, b1>>}

MCCode == GraphCode

Symmetry == Permutations({b1, b2}) \cup Permutations({r1, r2})

(* The answers given so far decide nothing and no property here names them. *)
View == <<job, lease, settled, graphVars>>
===============================================================================
