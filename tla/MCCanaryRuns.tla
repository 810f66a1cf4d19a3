------------------------------ MODULE MCCanaryRuns ------------------------------
(* Bounds for TLC: of the canary runs two callers, so that every pair of   *)
(* calls interleaves, two requests and two attempts per stage; and of the  *)
(* ingestion that a canary runs, two workers on a version of which a parse *)
(* retains nothing, one fragment or both, with two retries.  The parts     *)
(* never touch each other's state: a behaviour is one of either.           *)
EXTENDS CanaryRuns, Ingestion, TLC

CONSTANTS c1, c2, q1, q2, w1, w2, f1, f2

VARIABLE part   \* which of the two this behaviour is of

Symmetry == Permutations({c1, c2}) \cup Permutations({q1, q2}) \cup Permutations({w1, w2})

MCParses == {{}, {f1}, {f1, f2}}

CanaryInit == part \in {"runs", "ingest"} /\ Init /\ IngestInit
RunStep == part = "runs" /\ Next /\ UNCHANGED <<part, ingestVars>>
IngestStep == part = "ingest" /\ IngestNext /\ UNCHANGED <<part, vars>>
CanaryNext == RunStep \/ IngestStep
CanarySpec == CanaryInit /\ [][CanaryNext]_<<part, vars, ingestVars>>
===============================================================================
