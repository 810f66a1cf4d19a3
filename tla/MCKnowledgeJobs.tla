---------------------------- MODULE MCKnowledgeJobs ----------------------------
(* Values of the constants of KnowledgeJobs for TLC.                       *)
EXTENDS KnowledgeJobsProps

CONSTANTS j1, j2, r1, r2, res1

(* Every runner presents the same worker id: a process restarted under its *)
(* old name, or replicas that share one.  Only the token tells their       *)
(* leases apart.                                                           *)
MCSharedId == [r \in Runner |-> "worker-a"]
===============================================================================
