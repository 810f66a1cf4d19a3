------------------------------ MODULE GraphWrites ------------------------------
(***************************************************************************)
(* Reviewed graph writes: the human decision on a fact batch, its outbox   *)
(* job in the knowledge worker queue, the execution of that job by         *)
(* GraphWriteJobExecutor (load the batch, check the approval, write the    *)
(* graph: three transactions of their own) and the audit rows written with *)
(* every decision and every transition of the job.                         *)
(*                                                                         *)
(* A batch and its job are one element of Job: the job's key is derived    *)
(* from the batch and its approval, and the deferred triggers of           *)
(* knowledge_0005.sql refuse a graph_write row that no approved review     *)
(* names.  The queue holds graph_write jobs only.                          *)
(*                                                                         *)
(* An operator whose name ends in _Swallowed or the like is a faulty       *)
(* variant of the one below it; no action uses it.                         *)
(***************************************************************************)
EXTENDS KnowledgeJobs

CONSTANTS
  Clash,        \* pairs of batches whose projections disagree on a node or edge
  ApprovalTtl   \* lifetime of an approval

(* The stable codes GraphWriteJobExecutor raises here, and the refusals    *)
(* among them.                                                             *)
Refusal == {"graph_write.review_pending", "graph_write.review_rejected",
            "knowledge_graph_approval_missing", "knowledge_graph_approval_rejected",
            "graph_write.conflict"}
GraphCode == Refusal \cup
  {"graph_write.review_unavailable", "knowledge_graph_approval_expired",
   "knowledge_graph_approval_unavailable", "graph_write.persistence_failed"}

ASSUME GraphAssumption ==
  /\ Clash \subseteq Job \X Job
  /\ \A b \in Job : <<b, b>> \notin Clash
  /\ \A p \in Clash : <<p[2], p[1]>> \in Clash
  /\ ApprovalTtl \in Nat \ {0}
  /\ Result = {"written", "already_present"}
  /\ Code = GraphCode

VARIABLES
  review,   \* review[b]: knowledge_fact_reviews, and the approval's time left
  stage,    \* stage[r]: what the execution of runner r does next
  graph,    \* knowledge_graph_batches, with the lease token that wrote each
  audit     \* knowledge_graph_write_audit

graphVars == <<review, stage, graph, audit>>
allVars == <<vars, graphVars>>

Decision == {"approved", "rejected"}
Review == [status : {"pending"} \cup Decision, left : Nat]
Stage == {"idle", "load", "approve", "write", "settle"}
Event == {"review_approved", "review_rejected", "claimed", "succeeded",
          "retry_scheduled", "failed_permanent"}
AuditRow == [batch : Job, event : Event, token : Nat, code : Code \cup {Nil}]
Entry == [batch : Job, token : Nat]

GraphTypeOK ==
  /\ TypeOK
  /\ review \in [Job -> Review]
  /\ stage \in [Runner -> Stage]
  /\ \A r \in Runner : stage[r] = "idle" <=> ~Holds(r)
  /\ graph \subseteq Entry
  /\ audit \subseteq AuditRow

GraphInit ==
  /\ Init
  /\ review = [b \in Job |-> [status |-> "pending", left |-> 0]]
  /\ stage = [r \in Runner |-> "idle"]
  /\ graph = {}
  /\ audit = {}

Written(b) == \E e \in graph : e.batch = b

Noted(b, event, token, code) ==
  audit' = audit \cup {[batch |-> b, event |-> event, token |-> token, code |-> code]}

-------------------------------------------------------------------------------
(* The decision.  The batch row is locked, so the decisions on one batch   *)
(* are serial: the first one stands, the same one again returns it, and    *)
(* the opposite one raises FactReviewConflict.                             *)
Undecided_NotRejected(b) == review[b].status # "rejected"
Undecided(b) == review[b].status = "pending"

Decide(b, decision) ==
  /\ Undecided(b)
  /\ review' = [review EXCEPT ![b] = [status |-> decision, left |-> ApprovalTtl]]
  /\ \/ decision = "approved" /\ Enqueue(b) /\ Noted(b, "review_approved", 0, Nil)
     \/ decision = "rejected" /\ Noted(b, "review_rejected", 0, Nil) /\ UNCHANGED vars
  /\ UNCHANGED <<stage, graph>>

-------------------------------------------------------------------------------
(* The queue's transitions with what they add.  The claim audits the row   *)
(* it leases, not the rows it fails.                                       *)
GraphClaim(r, b) ==
  /\ Claim(r, b)
  /\ stage' = [stage EXCEPT ![r] = "load"]
  /\ Noted(b, "claimed", job'[b].token, Nil)
  /\ UNCHANGED <<review, graph>>

(* A runner that has lost its lease drops the execution.                   *)
Drops(r) == stage' = [stage EXCEPT ![r] = IF lease'[r] = NoLease THEN "idle" ELSE @]

GraphRenew(r) ==
  /\ Renew(r)
  /\ Drops(r)
  /\ UNCHANGED <<review, graph, audit>>

GraphCrash(r) ==
  /\ Crash(r)
  /\ Drops(r)
  /\ UNCHANGED <<review, graph, audit>>

GraphComplete(r) ==
  /\ Complete(r)
  /\ Drops(r)
  /\ IF Fenced(r) \/ CompletedBefore(r)
       THEN Noted(lease[r].job, "succeeded", lease[r].token, Nil)
       ELSE UNCHANGED audit
  /\ UNCHANGED <<review, graph>>

FailEvent_Requested(r) ==
  IF lease[r].call.retryable THEN "retry_scheduled" ELSE "failed_permanent"
FailEvent(r) ==
  IF FailStatus(r) = "retry_wait" THEN "retry_scheduled" ELSE "failed_permanent"

GraphFail(r, delay) ==
  /\ Fail(r, delay)
  /\ Drops(r)
  /\ IF Fenced(r) \/ FailedBefore(r)
       THEN Noted(lease[r].job, FailEvent(r), lease[r].token, lease[r].call.code)
       ELSE UNCHANGED audit
  /\ UNCHANGED <<review, graph>>

GraphTick ==
  /\ Tick
  /\ review' = [b \in Job |-> [review[b] EXCEPT !.left = Sooner(@)]]
  /\ UNCHANGED <<stage, graph, audit>>

-------------------------------------------------------------------------------
(* The execution.  It goes on whatever has become of the lease.            *)
Doing(r, s) == Holds(r) /\ lease[r].call = Executing /\ stage[r] = s

Goes(r, s) == stage' = [stage EXCEPT ![r] = s] /\ UNCHANGED vars

Ends(r, call) == Finish(r, call) /\ stage' = [stage EXCEPT ![r] = "settle"]

(* load_approved_batch: the digests of payload, review and batch agree, as *)
(* the triggers made sure, so only the review's status decides.            *)
LoadApprovedBatch(r) ==
  /\ Doing(r, "load")
  /\ LET status == review[lease[r].job].status IN
     \/ status = "approved" /\ Goes(r, "approve")
     \/ status = "rejected" /\ Ends(r, Failure("graph_write.review_rejected", FALSE))
     \/ status = "pending" /\ Ends(r, Failure("graph_write.review_pending", FALSE))
     \/ Ends(r, Failure("graph_write.review_unavailable", TRUE))
  /\ UNCHANGED <<review, graph, audit>>

(* _require_approval: approval.expires_at <= now() means expired.          *)
Expired(b) == review[b].left = 0

RequireApproval(r) ==
  /\ Doing(r, "approve")
  /\ LET b == lease[r].job IN
     \/ /\ review[b].status = "approved"
        /\ ~Expired(b)
        /\ Goes(r, "write")
     \/ /\ review[b].status = "pending"
        /\ Ends(r, Failure("knowledge_graph_approval_missing", FALSE))
     \/ /\ review[b].status = "rejected"
        /\ Ends(r, Failure("knowledge_graph_approval_rejected", FALSE))
     \/ /\ review[b].status = "approved"
        /\ Expired(b)
        /\ Ends(r, Failure("knowledge_graph_approval_expired", FALSE))
     \/ Ends(r, Failure("knowledge_graph_approval_unavailable", TRUE))
  /\ UNCHANGED <<review, graph, audit>>

(* The write transaction, under the advisory locks of everything it        *)
(* touches.  When the connection is lost the runner reports a persistence  *)
(* failure, whether or not the transaction was committed.                  *)
AlreadyPresent(b) == Written(b)

Conflicts(b) == \E e \in graph : <<b, e.batch>> \in Clash

Lost_Swallowed(r) == Ends(r, Completion("written"))
Lost(r) == Ends(r, Failure("graph_write.persistence_failed", TRUE))

WriteBatch(r) ==
  /\ Doing(r, "write")
  /\ LET b == lease[r].job
         insert == graph' = graph \cup {[batch |-> b, token |-> lease[r].token]}
     IN
     \/ /\ AlreadyPresent(b)
        /\ Ends(r, Completion("already_present"))
        /\ UNCHANGED graph
     \/ /\ ~AlreadyPresent(b)
        /\ Conflicts(b)
        /\ Ends(r, Failure("graph_write.conflict", FALSE))
        /\ UNCHANGED graph
     \/ /\ ~AlreadyPresent(b)
        /\ ~Conflicts(b)
        /\ insert
        /\ Ends(r, Completion("written")) \/ Lost(r)
     \/ Lost(r) /\ UNCHANGED graph
  /\ UNCHANGED <<review, audit>>

GraphNext ==
  \/ \E b \in Job, d \in Decision : Decide(b, d)
  \/ \E r \in Runner, b \in Job : GraphClaim(r, b)
  \/ \E r \in Runner : ClaimNothing(r) /\ UNCHANGED graphVars
  \/ \E r \in Runner : GraphRenew(r)
  \/ \E r \in Runner : LoadApprovedBatch(r)
  \/ \E r \in Runner : RequireApproval(r)
  \/ \E r \in Runner : WriteBatch(r)
  \/ \E r \in Runner : GraphComplete(r)
  \/ \E r \in Runner, d \in 0..MaxRetryDelay : GraphFail(r, d)
  \/ \E r \in Runner : GraphCrash(r)
  \/ GraphTick

GraphSpec == GraphInit /\ [][GraphNext]_allVars
===============================================================================
