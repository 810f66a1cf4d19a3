-------------------------- MODULE KnowledgeJobsProps --------------------------
(***************************************************************************)
(* Correctness properties of the knowledge worker queue.                   *)
(***************************************************************************)
EXTENDS KnowledgeJobs

(* Every row satisfies the CHECK constraints of knowledge_0003.sql and     *)
(* KnowledgeJobRecord.validate_state.  A transition that broke one would   *)
(* abort its transaction at run time and leave the job stuck where it is.  *)
RowCheck(row) ==
  /\ row.attempt <= MaxAttempts
  /\ row.status = "queued" => row.attempt = 0
  /\ row.status = "retry_wait" => row.attempt < MaxAttempts
  /\ (row.status = "running") <=> (row.owner # Nil)
  /\ row.status = "running" => row.attempt >= 1 /\ row.token >= 1
  /\ (row.status = "succeeded") <=> (row.result # Nil)
  /\ (row.status \in {"retry_wait", "failed_permanent"}) <=> (row.code # Nil)

RowValid == \A j \in Job : RowCheck(job[j])
TypeInvariant == TypeOK /\ RowValid

(* A runner is entitled to act while its own copy of the lease has not run *)
(* out and it has not settled the job.                                     *)
Entitled(r) == Holds(r) /\ lease[r].left > 0 /\ Request(r) \notin settled

(* Two runners never both believe, each by its own countdown, that they    *)
(* hold a live lease of one job: not after a lost answer, a renewal, an    *)
(* expiry, a takeover or a restart under the same worker id.               *)
LeaseExclusive ==
  \A r, s \in Runner :
    Entitled(r) /\ Entitled(s) /\ lease[r].job = lease[s].job => r = s

(* A runner that still believes in its lease is not refused: no sweep,     *)
(* takeover or late call of another runner has changed the row under it.   *)
LeaseHonoured == \A r \in Runner : Entitled(r) => Fenced(r)

WasRetry(a) == a.call.op = "fail" /\ a.call.retryable /\ a.token < MaxAttempts

(* What complete and fail answer is true.  "Done" is only said of a        *)
(* settlement that was committed, by this call or by one whose answer was  *)
(* lost; "lease lost" is only said of one that was not, except for a retry *)
(* that another runner has already claimed again.                          *)
AnswersTruthful ==
  \A a \in told :
    LET request == [job |-> a.job, token |-> a.token, call |-> a.call] IN
    /\ a.ok => request \in settled
    /\ ~a.ok /\ request \in settled => WasRetry(a) /\ job[a.job].token > a.token

(* An acknowledged result, or an acknowledged permanent failure, is the    *)
(* job's outcome for ever after: no expiry sweep, takeover or late call of *)
(* a stale runner replaces it.                                             *)
AckDurable ==
  \A a \in told : a.ok /\ ~WasRetry(a) =>
    LET row == job[a.job] IN
    /\ row.token = a.token
    /\ a.call.op = "complete" =>
         row.status = "succeeded" /\ row.result = a.call.result
    /\ a.call.op = "fail" =>
         row.status = "failed_permanent" /\ row.code = a.call.code

(* A lease is exclusive and honoured.                                      *)
LeasesHold == LeaseExclusive /\ LeaseHonoured

(* What a settlement was answered is true, and stays so.                   *)
AnswersHold == AnswersTruthful /\ AckDurable

(* The service gives up on a job only when its attempts are used up or a   *)
(* runner reported a failure that retrying cannot cure; each lease handed  *)
(* out costs exactly one attempt.                                          *)
NoEarlyGiveUp ==
  \A j \in Job :
    /\ job[j].attempt = job[j].token
    /\ job[j].status = "failed_permanent" /\ job[j].attempt < MaxAttempts =>
         \E a \in settled : /\ a.job = j /\ a.token = job[j].token
                            /\ a.call.op = "fail" /\ ~a.call.retryable

(* The queue implements JobService: queued, running and retry_wait are one *)
(* pending phase, and the attempts are the deliveries.                     *)
PhaseOf(status) ==
  CASE status = "absent" -> "absent"
    [] status \in {"queued", "running", "retry_wait"} -> "pending"
    [] status = "succeeded" -> "succeeded"
    [] status \in {"failed_permanent", "cancelled"} -> "failed"

EntryOf(row) == [phase |-> PhaseOf(row.status), deliveries |-> row.attempt,
                 result |-> row.result]

Ledger == [j \in Job |-> EntryOf(job[j])]

Service == INSTANCE JobService WITH ledger <- Ledger

(* The refinement TLC checks and KnowledgeJobsProofs proves: every call of *)
(* the repository is a step of JobService, or changes no promise.          *)
ImplementsJobService == Service!Spec

(* A job that was accepted is resolved, although runners crash, leases run *)
(* out and answers are lost: the attempt budget bounds the takeovers.      *)
EventuallyResolved ==
  \A j \in Job : job[j].status = "queued" ~> job[j].status \in Terminal

===============================================================================
