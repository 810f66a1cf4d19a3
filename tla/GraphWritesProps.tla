---------------------------- MODULE GraphWritesProps ----------------------------
(***************************************************************************)
(* Correctness properties of reviewed graph writes.                        *)
(***************************************************************************)
EXTENDS GraphWrites

(* "Pending or rejected batches cannot create graph mutations": whatever   *)
(* is in the graph was approved, its approval stands, and it agrees with   *)
(* everything else in the graph.                                           *)
ReviewGate ==
  \A e \in graph :
    /\ review[e.batch].status = "approved"
    /\ ~Conflicts(e.batch)

(* A batch is written by one execution only, however many runners execute  *)
(* its job, at the same time or after one another.                         *)
WrittenOnce == \A e, f \in graph : e.batch = f.batch => e = f

(* The outcome of a job tells the truth about the graph.  Success means    *)
(* that the batch is there, and "written" that this generation put it      *)
(* there.  A refusal means that it is not.  Every other failure leaves it  *)
(* open, because the commit that was lost may have taken place.            *)
OutcomeTruthful ==
  \A b \in Job :
    /\ job[b].status = "succeeded" =>
         /\ Written(b)
         /\ job[b].result = "written" =>
              [batch |-> b, token |-> job[b].token] \in graph
    /\ job[b].code \in Refusal => ~Written(b)

(* What happened to a batch: written once, and told as it was.             *)
WritesTruthful == WrittenOnce /\ OutcomeTruthful

(* The audit trail records each claim and each settlement of a job, and    *)
(* nothing else: it follows from it who was given the job when, and how    *)
(* each lease ended.  (A job that the claim's sweep fails leaves no row.)  *)
EventOf(s) ==
  CASE s.call.op = "complete" -> "succeeded"
    [] s.call.op = "fail" /\ s.call.retryable /\ s.token < MaxAttempts -> "retry_scheduled"
    [] OTHER -> "failed_permanent"

AuditExact ==
  \A b \in Job :
    /\ {a.token : a \in {x \in audit : x.batch = b /\ x.event = "claimed"}}
         = 1..job[b].token
    /\ {a \in audit : a.batch = b /\ a.event \in {"succeeded", "retry_scheduled",
                                                  "failed_permanent"}}
         = {[batch |-> b, event |-> EventOf(s), token |-> s.token, code |-> s.call.code] :
              s \in {x \in settled : x.job = b}}

===============================================================================
