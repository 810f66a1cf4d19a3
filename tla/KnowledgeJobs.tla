----------------------------- MODULE KnowledgeJobs -----------------------------
(***************************************************************************)
(* The durable knowledge worker queue: table knowledge_worker_jobs and     *)
(* PostgresKnowledgeJobRepository, together with the claim loops (runners) *)
(* that call it.  One action is one repository call: one transaction, plus *)
(* what its caller learns of it.  Times are countdowns: a row's `left' is  *)
(* lease_until - now() and its `wait' is available_at - now(), both        *)
(* floored at 0, so "lease_until > now()" is left > 0.                     *)
(*                                                                         *)
(* The worker loop itself is not part of the repository; it is modelled    *)
(* from the contract of KnowledgeJobRepository.                            *)
(*                                                                         *)
(* An operator whose name ends in _WithoutToken or the like is a faulty    *)
(* variant of the one below it; no action uses it.                         *)
(***************************************************************************)
EXTENDS Naturals

CONSTANTS
  Job,            \* idempotency keys; enqueue stores at most one row per key
  Runner,         \* claim loops, over all worker processes
  WorkerId,       \* lease_owner values
  IdOf,           \* the worker id each runner presents
  Result,         \* KnowledgeJobResult values
  Code,           \* error codes a runner may report
  MaxAttempts,    \* max_attempts of every row
  LeaseSeconds,   \* lease_seconds of every claim and renewal
  MaxRetryDelay,  \* largest retry_delay_seconds
  Nil             \* SQL NULL, Python None

LeaseExpired == "worker.lease_expired"

ASSUME JobsAssumption ==
  /\ IdOf \in [Runner -> WorkerId]
  /\ MaxAttempts \in 1..8
  /\ LeaseSeconds \in Nat \ {0}
  /\ MaxRetryDelay \in Nat
  /\ Nil \notin WorkerId \cup Result \cup Code \cup Job \cup {LeaseExpired}
  /\ LeaseExpired \notin Code   \* only the sweep writes it: no executor raises it

VARIABLES
  job,      \* the table: one row per key, status "absent" before enqueue
  lease,    \* lease[r]: the KnowledgeJobLease runner r holds, and its call
  settled,  \* history: settlements (complete, fail) that were committed
  told      \* history: answers given to settlements

vars == <<job, lease, settled, told>>

Status == {"absent", "queued", "running", "retry_wait", "succeeded",
           "failed_permanent", "cancelled"}
Terminal == {"succeeded", "failed_permanent", "cancelled"}

Row == [status : Status, attempt : Nat, token : Nat,
        owner : WorkerId \cup {Nil}, left : Nat, wait : Nat,
        result : Result \cup {Nil},
        code : Code \cup {LeaseExpired, Nil}]

NoRow == [status |-> "absent", attempt |-> 0, token |-> 0, owner |-> Nil,
          left |-> 0, wait |-> 0, result |-> Nil, code |-> Nil]

(* What a runner is doing with its lease: still executing the payload, or  *)
(* calling complete(result) or fail(code, retryable) until it is answered. *)
MakeCall(op, result, code, retryable) ==
  [op |-> op, result |-> result, code |-> code, retryable |-> retryable]
Executing == MakeCall("execute", Nil, Nil, FALSE)
Completion(r) == MakeCall("complete", r, Nil, FALSE)
Failure(c, b) == MakeCall("fail", Nil, c, b)
Settlement == {Completion(r) : r \in Result}
              \cup {Failure(c, b) : c \in Code, b \in BOOLEAN}
Call == {Executing} \cup Settlement

Lease == [job : Job, token : Nat, attempt : Nat, left : Nat, call : Call]
NoLease == [job |-> Nil, token |-> 0, attempt |-> 0, left |-> 0, call |-> Executing]

Settled == [job : Job, token : Nat, call : Call]
Answer == [job : Job, token : Nat, call : Call, ok : BOOLEAN]

Holds(r) == lease[r] # NoLease
Request(r) == [job |-> lease[r].job, token |-> lease[r].token, call |-> lease[r].call]

TypeOK ==
  /\ job \in [Job -> Row]
  /\ lease \in [Runner -> Lease \cup {NoLease}]
  /\ settled \subseteq Settled
  /\ told \subseteq Answer

Init ==
  /\ job = [j \in Job |-> NoRow]
  /\ lease = [r \in Runner |-> NoLease]
  /\ settled = {}
  /\ told = {}

-------------------------------------------------------------------------------
(* Enqueue inserts a queued row; for a key already present it returns the  *)
(* row it finds, which changes nothing.                                    *)
Enqueue(j) ==
  /\ job[j].status = "absent"
  /\ job' = [job EXCEPT ![j].status = "queued"]
  /\ UNCHANGED <<lease, settled, told>>

(* The two halves of the claim statement: rows whose last lease ran out    *)
(* are failed, and one row that may run is leased.                         *)
Exhausted_AnyStatus(row) ==
  /\ row.left = 0
  /\ row.attempt >= MaxAttempts

Exhausted_OneLate(row) ==
  /\ row.status = "running"
  /\ row.left = 0
  /\ row.attempt > MaxAttempts

Exhausted(row) ==
  /\ row.status = "running"
  /\ row.left = 0
  /\ row.attempt >= MaxAttempts

Claimable(row) ==
  /\ row.attempt < MaxAttempts
  /\ \/ row.status \in {"queued", "retry_wait"} /\ row.wait = 0
     \/ row.status = "running" /\ row.left = 0

(* A row whose lease has ended: owner and lease_until are NULL again.      *)
AtRest(row, status, result, code, wait) ==
  [status |-> status, attempt |-> row.attempt, token |-> row.token,
   owner |-> Nil, left |-> 0, wait |-> wait, result |-> result, code |-> code]

Swept(row) ==
  IF Exhausted(row)
    THEN AtRest(row, "failed_permanent", Nil, LeaseExpired, row.wait)
    ELSE row

Leased(row, r) ==
  [status |-> "running", attempt |-> row.attempt + 1, token |-> row.token + 1,
   owner |-> IdOf[r], left |-> LeaseSeconds, wait |-> row.wait,
   result |-> Nil, code |-> Nil]

(* ORDER BY picks the oldest candidate, but SKIP LOCKED passes over rows   *)
(* another claim has locked and may yet roll back: any candidate may win.  *)
Claim(r, j) ==
  /\ ~Holds(r)
  /\ Claimable(job[j])
  /\ job' = [k \in Job |-> IF k = j THEN Leased(job[j], r) ELSE Swept(job[k])]
  /\ lease' = [lease EXCEPT ![r] =
       [job |-> j, token |-> job'[j].token, attempt |-> job'[j].attempt,
        left |-> LeaseSeconds, call |-> Executing]]
  /\ UNCHANGED <<settled, told>>

ClaimNothing(r) ==
  /\ ~Holds(r)
  /\ \A j \in Job : ~Claimable(job[j])
  /\ job' = [j \in Job |-> Swept(job[j])]
  /\ UNCHANGED <<lease, settled, told>>

-------------------------------------------------------------------------------
(* The fence every lease operation carries in its WHERE clause.            *)
Fenced_WithoutToken(r) ==
  LET row == job[lease[r].job] IN
  /\ row.status = "running"
  /\ row.owner = IdOf[r]
  /\ row.left > 0

Fenced(r) ==
  LET row == job[lease[r].job] IN
  /\ row.status = "running"
  /\ row.owner = IdOf[r]
  /\ row.token = lease[r].token
  /\ row.left > 0

Release(r) == lease' = [lease EXCEPT ![r] = NoLease]

(* The transaction committed; its answer arrives and ends the lease, or is *)
(* lost with the connection and the runner still holds its request.        *)
Answered(r, ok) ==
  /\ Release(r)
  /\ told' = told \cup {[job |-> lease[r].job, token |-> lease[r].token,
                         call |-> lease[r].call, ok |-> ok]}

AnsweredOrLost(r) == Answered(r, TRUE) \/ UNCHANGED <<lease, told>>

Renew(r) ==
  /\ Holds(r)
  /\ lease[r].call = Executing
  /\ \/ /\ Fenced(r)
        /\ job' = [job EXCEPT ![lease[r].job].left = LeaseSeconds]
        /\ \/ lease' = [lease EXCEPT ![r].left = LeaseSeconds]
           \/ UNCHANGED lease
     \/ /\ ~Fenced(r)
        /\ Release(r)
        /\ UNCHANGED job
  /\ UNCHANGED <<settled, told>>

(* Execution of the payload ends with a result or an execution error.      *)
Finish(r, c) ==
  /\ Holds(r)
  /\ lease[r].call = Executing
  /\ lease' = [lease EXCEPT ![r].call = c]
  /\ UNCHANGED <<job, settled, told>>

(* Complete and Fail: the fenced update; or, when it matches no row, the   *)
(* replay of a settlement already stored; or KnowledgeJobLeaseLost.        *)
CompletedBefore_WithoutToken(r) ==
  LET row == job[lease[r].job] IN
  /\ row.status = "succeeded"
  /\ row.result = lease[r].call.result

CompletedBefore(r) ==
  LET row == job[lease[r].job] IN
  /\ row.status = "succeeded"
  /\ row.token = lease[r].token
  /\ row.result = lease[r].call.result

Complete(r) ==
  /\ Holds(r)
  /\ lease[r].call.op = "complete"
  /\ \/ /\ Fenced(r)
        /\ job' = [job EXCEPT ![lease[r].job] =
             AtRest(@, "succeeded", lease[r].call.result, Nil, @.wait)]
        /\ settled' = settled \cup {Request(r)}
        /\ AnsweredOrLost(r)
     \/ /\ ~Fenced(r)
        /\ Answered(r, CompletedBefore(r))
        /\ UNCHANGED <<job, settled>>

FailStatus(r) ==
  IF lease[r].call.retryable /\ lease[r].attempt < MaxAttempts
    THEN "retry_wait" ELSE "failed_permanent"

FailedBefore(r) ==
  LET row == job[lease[r].job] IN
  /\ row.status = FailStatus(r)
  /\ row.token = lease[r].token
  /\ row.code = lease[r].call.code

Fail(r, delay) ==
  /\ Holds(r)
  /\ lease[r].call.op = "fail"
  /\ \/ /\ Fenced(r)
        /\ job' = [job EXCEPT ![lease[r].job] =
             AtRest(@, FailStatus(r), Nil, lease[r].call.code,
                    IF FailStatus(r) = "retry_wait" THEN delay ELSE 0)]
        /\ settled' = settled \cup {Request(r)}
        /\ AnsweredOrLost(r)
     \/ /\ ~Fenced(r)
        /\ Answered(r, FailedBefore(r))
        /\ UNCHANGED <<job, settled>>

(* A runner dies, or gives up on a call that was never answered: whatever  *)
(* it knew is gone, the row stays as the last transaction left it.         *)
Crash(r) ==
  /\ Holds(r)
  /\ Release(r)
  /\ UNCHANGED <<job, settled, told>>

Sooner(n) == IF n = 0 THEN 0 ELSE n - 1

Aged(row) ==
  [status |-> row.status, attempt |-> row.attempt, token |-> row.token,
   owner |-> row.owner, left |-> Sooner(row.left), wait |-> Sooner(row.wait),
   result |-> row.result, code |-> row.code]

Tick ==
  /\ job' = [j \in Job |-> Aged(job[j])]
  /\ lease' = [r \in Runner |-> [lease[r] EXCEPT !.left = Sooner(@)]]
  /\ UNCHANGED <<settled, told>>

Settle(r) == Complete(r) \/ \E d \in 0..MaxRetryDelay : Fail(r, d)
Poll(r) == ClaimNothing(r) \/ \E j \in Job : Claim(r, j)

Next ==
  \/ \E j \in Job : Enqueue(j)
  \/ \E r \in Runner, j \in Job : Claim(r, j)
  \/ \E r \in Runner : ClaimNothing(r)
  \/ \E r \in Runner : Renew(r)
  \/ \E r \in Runner, c \in Settlement : Finish(r, c)
  \/ \E r \in Runner : Complete(r)
  \/ \E r \in Runner, d \in 0..MaxRetryDelay : Fail(r, d)
  \/ \E r \in Runner : Crash(r)
  \/ Tick

Spec == Init /\ [][Next]_vars

(* Time passes, every runner keeps polling, an execution ends, and a       *)
(* settlement is repeated until it is answered.  Nothing is assumed of     *)
(* Enqueue, Renew or Crash.                                                *)
Fairness ==
  /\ WF_vars(Tick)
  /\ \A r \in Runner :
       /\ WF_vars(Poll(r))
       /\ WF_vars(\E c \in Settlement : Finish(r, c))
       /\ WF_vars(Settle(r))

FairSpec == Spec /\ Fairness
===============================================================================
