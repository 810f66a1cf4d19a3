-------------------------- MODULE KnowledgeJobsProofs --------------------------
(***************************************************************************)
(* Proofs about the knowledge worker queue, for every set of jobs, runners *)
(* and worker ids, every attempt budget, lease length and retry delay.     *)
(***************************************************************************)
EXTENDS KnowledgeJobsProps, TLAPS

(* The inductive invariant, part by part.                                  *)

(* A held lease was handed out for a row that has existed since: its token *)
(* is at most the row's, and counts the attempt it was handed out for.     *)
LeaseHistory ==
  \A r \in Runner : Holds(r) =>
    /\ lease[r].token >= 1
    /\ lease[r].attempt = lease[r].token
    /\ lease[r].token <= job[lease[r].job].token

(* No lease is longer than the lease length.                               *)
LeaseBounded == \A r \in Runner : lease[r].left <= LeaseSeconds

(* No two runners hold the same generation of one job's lease.             *)
TokenUnique ==
  \A r, s \in Runner :
    /\ Holds(r) /\ Holds(s)
    /\ lease[r].job = lease[s].job /\ lease[r].token = lease[s].token
    => r = s

(* A runner that believes in its lease is right, and never expects it to   *)
(* last longer than the row does.                                          *)
Outlives(row, r) ==
  /\ row.status = "running"
  /\ row.owner = IdOf[r]
  /\ row.token = lease[r].token
  /\ row.left >= lease[r].left

LeaseSound == \A r \in Runner : Entitled(r) => Outlives(job[lease[r].job], r)

(* The status and code a settlement of generation `token' leaves behind.   *)
FailOutcome(a) == IF WasRetry(a) THEN "retry_wait" ELSE "failed_permanent"

Shows(row, a) ==
  /\ a.call.op = "complete" =>
       row.status = "succeeded" /\ row.result = a.call.result
  /\ a.call.op = "fail" =>
       row.status = FailOutcome(a) /\ row.code = a.call.code

(* A settlement stands in its row until the next generation, and only a    *)
(* scheduled retry is ever followed by one.                                *)
Stands(row, a) ==
  /\ a.call.op \in {"complete", "fail"}
  /\ a.token <= row.token
  /\ a.token = row.token => Shows(row, a)
  /\ a.token < row.token => WasRetry(a)

SettledStands == \A a \in settled : Stands(job[a.job], a)

(* One lease generation settles a job at most once, with one outcome.      *)
SettledOnce ==
  \A a, b \in settled : a.job = b.job /\ a.token = b.token => a = b

(* Only the holder of a generation settles it, and it keeps its request.   *)
SettledByHolder ==
  \A r \in Runner, a \in settled :
    Holds(r) /\ a.job = lease[r].job /\ a.token = lease[r].token
      => a.call = lease[r].call

(* Conversely, a row at rest shows a settlement of its own generation, or  *)
(* was swept with its attempts used up.                                    *)
RestingSettled ==
  \A j \in Job :
    job[j].status \in {"retry_wait", "succeeded", "failed_permanent"} =>
      \/ \E a \in settled : a.job = j /\ a.token = job[j].token
      \/ /\ job[j].status = "failed_permanent"
         /\ job[j].code = LeaseExpired
         /\ job[j].attempt >= MaxAttempts

(* The row shapes the code never leaves, beyond the CHECK constraints.     *)
RowShape ==
  \A j \in Job :
    /\ job[j].status # "cancelled"
    /\ job[j].attempt = job[j].token
    /\ job[j].status = "absent" => job[j] = NoRow

(* An answered lease is gone.                                              *)
ToldReleased ==
  \A r \in Runner, a \in told :
    Holds(r) => ~(a.job = lease[r].job /\ a.token = lease[r].token)

(* An answer is about a generation that was handed out.                    *)
ToldPast == \A a \in told : a.token <= job[a.job].token

IInv ==
  /\ TypeOK
  /\ RowValid
  /\ RowShape
  /\ LeaseHistory
  /\ LeaseBounded
  /\ TokenUnique
  /\ LeaseSound
  /\ SettledStands
  /\ SettledByHolder
  /\ SettledOnce
  /\ RestingSettled
  /\ ToldReleased
  /\ ToldPast
  /\ AnswersTruthful

-------------------------------------------------------------------------------
(* Type correctness.                                                       *)

LEMMA CallTypes ==
  /\ Executing \in Call /\ Executing.op = "execute"
  /\ Settlement \subseteq Call
  /\ \A c \in Settlement : c.op \in {"complete", "fail"}
  /\ \A c \in Call :
       /\ c.op = "complete" => c.result \in Result
       /\ c.op = "fail" => c.code \in Code /\ c.retryable \in BOOLEAN
<1>1. Executing \in Call /\ Executing.op = "execute"
  BY DEF MakeCall, Executing, Call
<1>2. \A r \in Result : /\ Completion(r).op = "complete"
                       /\ Completion(r).result = r
  BY DEF MakeCall, Completion
<1>3. \A c \in Code, b \in BOOLEAN :
        /\ Failure(c, b).op = "fail"
        /\ Failure(c, b).code = c /\ Failure(c, b).retryable = b
  BY DEF MakeCall, Failure
<1>4. \A c \in Settlement : \/ \E r \in Result : c = Completion(r)
                            \/ \E k \in Code, b \in BOOLEAN : c = Failure(k, b)
  BY DEF Settlement
<1>5. \A c \in Settlement :
        /\ c.op \in {"complete", "fail"}
        /\ c.op = "complete" => c.result \in Result
        /\ c.op = "fail" => c.code \in Code /\ c.retryable \in BOOLEAN
  BY <1>2, <1>3, <1>4
<1> QED BY <1>1, <1>5 DEF Call

LEMMA HeldLease ==
  ASSUME TypeOK, NEW r \in Runner, Holds(r)
  PROVE  lease[r] \in Lease
BY DEF TypeOK, Holds

LEMMA NilLease == NoLease \notin Lease
BY JobsAssumption DEF NoLease, Lease

(* The lease of any runner, held or not, has the fields of a lease.        *)
LEMMA LeaseFields ==
  ASSUME TypeOK, NEW r \in Runner
  PROVE  /\ lease[r].left \in Nat
         /\ lease[r].token \in Nat
         /\ lease[r].call \in Call
BY CallTypes DEF TypeOK, Lease, NoLease

LEMMA InitType == Init => TypeOK
BY JobsAssumption DEF Init, TypeOK, Row, NoRow, Status

(* Every step keeps every variable in its type.                            *)
LEMMA NextType ==
  ASSUME TypeOK, [Next]_vars
  PROVE  TypeOK'
<1> USE JobsAssumption
<1>1. ASSUME NEW j \in Job, Enqueue(j) PROVE TypeOK'
  BY <1>1 DEF Enqueue, TypeOK, Row, Status
<1>2. ASSUME NEW r \in Runner, NEW j \in Job, Claim(r, j) PROVE TypeOK'
  <2>1. \A k \in Job : Swept(job[k]) \in Row
    BY DEF TypeOK, Swept, AtRest, Row, Status
  <2>2. Leased(job[j], r) \in Row
    BY DEF TypeOK, Leased, Row, Status
  <2>3. job' \in [Job -> Row]
    BY <1>2, <2>1, <2>2 DEF Claim
  <2>4. lease' \in [Runner -> Lease \cup {NoLease}]
    <3>1. job'[j].token \in Nat /\ job'[j].attempt \in Nat
      BY <2>3 DEF Row
    <3>2. [job |-> j, token |-> job'[j].token, attempt |-> job'[j].attempt,
           left |-> LeaseSeconds, call |-> Executing] \in Lease
      BY <3>1, CallTypes DEF Lease
    <3> QED BY <1>2, <3>2 DEF Claim, TypeOK
  <2> QED BY <1>2, <2>3, <2>4 DEF Claim, TypeOK
<1>3. ASSUME NEW r \in Runner, ClaimNothing(r) PROVE TypeOK'
  <2>1. \A k \in Job : Swept(job[k]) \in Row
    BY DEF TypeOK, Swept, AtRest, Row, Status
  <2> QED BY <1>3, <2>1 DEF ClaimNothing, TypeOK
<1>4. ASSUME NEW r \in Runner, Renew(r) PROVE TypeOK'
  <2>1. lease[r] \in Lease
    BY <1>4, HeldLease DEF Renew
  <2>2. job' \in [Job -> Row]
    BY <1>4, <2>1 DEF Renew, TypeOK, Row, Lease
  <2>3. [lease[r] EXCEPT !.left = LeaseSeconds] \in Lease
    BY <2>1 DEF Lease
  <2>4. lease' \in [Runner -> Lease \cup {NoLease}]
    BY <1>4, <2>3 DEF Renew, TypeOK, Release
  <2> QED BY <1>4, <2>2, <2>4 DEF Renew, TypeOK
<1>5. ASSUME NEW r \in Runner, NEW c \in Settlement, Finish(r, c) PROVE TypeOK'
  <2>1. [lease[r] EXCEPT !.call = c] \in Lease
    BY <1>5, HeldLease, CallTypes DEF Finish, Lease
  <2> QED BY <1>5, <2>1 DEF Finish, TypeOK
<1>6. ASSUME NEW r \in Runner, Holds(r),
             job' \in [Job -> Row],
             settled' = settled \/ settled' = settled \cup {Request(r)},
             \/ \E ok \in BOOLEAN : Answered(r, ok)
             \/ UNCHANGED <<lease, told>>
      PROVE  TypeOK'
  <2>1. lease[r] \in Lease
    BY <1>6, HeldLease
  <2>2. Request(r) \in Settled
    BY <2>1 DEF Request, Lease, Settled
  <2>3. \A ok \in BOOLEAN :
          [job |-> lease[r].job, token |-> lease[r].token,
           call |-> lease[r].call, ok |-> ok] \in Answer
    BY <2>1 DEF Lease, Answer
  <2>4. lease' \in [Runner -> Lease \cup {NoLease}] /\ told' \subseteq Answer
    BY <1>6, <2>3 DEF Answered, Release, TypeOK
  <2> QED BY <1>6, <2>2, <2>4 DEF TypeOK
<1>7. ASSUME NEW r \in Runner, Complete(r) PROVE TypeOK'
  <2>1. lease[r] \in Lease /\ lease[r].call.op = "complete"
    BY <1>7, HeldLease DEF Complete
  <2>2. job' \in [Job -> Row]
    BY <1>7, <2>1, CallTypes DEF Complete, AtRest, TypeOK, Row, Lease, Status
  <2>3. CompletedBefore(r) \in BOOLEAN
    BY DEF CompletedBefore
  <2> QED BY <1>6, <1>7, <2>2, <2>3 DEF Complete, AnsweredOrLost
<1>8. ASSUME NEW r \in Runner, NEW d \in 0..MaxRetryDelay, Fail(r, d) PROVE TypeOK'
  <2>1. lease[r] \in Lease /\ lease[r].call.op = "fail"
    BY <1>8, HeldLease DEF Fail
  <2>2. FailStatus(r) \in Status
    BY DEF FailStatus, Status
  <2>3. job' \in [Job -> Row]
    BY <1>8, <2>1, <2>2, CallTypes DEF Fail, AtRest, TypeOK, Row, Lease
  <2>4. FailedBefore(r) \in BOOLEAN
    BY DEF FailedBefore
  <2> QED BY <1>6, <1>8, <2>3, <2>4 DEF Fail, AnsweredOrLost
<1>9. ASSUME NEW r \in Runner, Crash(r) PROVE TypeOK'
  BY <1>9 DEF Crash, Release, TypeOK
<1>10. ASSUME Tick PROVE TypeOK'
  <2>1. \A n \in Nat : Sooner(n) \in Nat
    BY DEF Sooner
  <2>2. \A j \in Job : Aged(job[j]) \in Row
    BY <2>1 DEF TypeOK, Row, Aged
  <2>3. \A r \in Runner :
          [lease[r] EXCEPT !.left = Sooner(@)] \in Lease \cup {NoLease}
    BY <2>1 DEF TypeOK, Lease, NoLease, Sooner
  <2> QED BY <1>10, <2>2, <2>3 DEF Tick, TypeOK
<1>11. ASSUME UNCHANGED vars PROVE TypeOK'
  BY <1>11 DEF vars, TypeOK
<1> QED
  BY <1>1, <1>2, <1>3, <1>4, <1>5, <1>7, <1>8, <1>9, <1>10, <1>11 DEF Next

(* Type correctness: every row and every lease stays well formed.          *)
THEOREM TypeCorrect == Spec => []TypeOK
BY InitType, NextType, PTL DEF Spec

-------------------------------------------------------------------------------
(* The inductive invariant is inductive: one lemma per kind of step.       *)

(* Complete and Fail have the same shape.  Either the fence holds and the  *)
(* row comes to rest showing the request, or it does not and the answer    *)
(* says whether the row shows the request already.                         *)
Rest == {"retry_wait", "succeeded", "failed_permanent"}

CommitStep(r) ==
  /\ Holds(r)
  /\ Fenced(r)
  /\ lease[r].call.op \in {"complete", "fail"}
  /\ \A k \in Job : k # lease[r].job => job'[k] = job[k]
  /\ job'[lease[r].job].status \in Rest
  /\ job'[lease[r].job].attempt = job[lease[r].job].attempt
  /\ job'[lease[r].job].token = job[lease[r].job].token
  /\ job'[lease[r].job].owner = Nil
  /\ RowCheck(job'[lease[r].job])
  /\ Shows(job'[lease[r].job], Request(r))
  /\ settled' = settled \cup {Request(r)}
  /\ AnsweredOrLost(r)

ReplayStep(r) ==
  /\ Holds(r)
  /\ ~Fenced(r)
  /\ lease[r].call.op \in {"complete", "fail"}
  /\ \E ok \in BOOLEAN :
       /\ ok <=> /\ job[lease[r].job].token = lease[r].token
                 /\ Shows(job[lease[r].job], Request(r))
       /\ Answered(r, ok)
  /\ UNCHANGED <<job, settled>>

LEMMA CompleteShape ==
  ASSUME IInv, NEW r \in Runner, Complete(r)
  PROVE  CommitStep(r) \/ ReplayStep(r)
<1>1. lease[r] \in Lease /\ lease[r].job \in Job /\ lease[r].call.op = "complete"
  BY HeldLease DEF IInv, Complete, Lease
<1>2. CASE Fenced(r)
  <2>1. Shows(job'[lease[r].job], Request(r))
    BY <1>1, <1>2 DEF Complete, IInv, TypeOK, AtRest, Shows, Request
  <2>2. lease[r].call.result # Nil
    BY <1>1, CallTypes, JobsAssumption DEF Lease
  <2>3. RowCheck(job'[lease[r].job])
    BY <1>1, <1>2, <2>2 DEF Complete, IInv, TypeOK, AtRest, RowValid, RowCheck
  <2> QED BY <1>1, <1>2, <2>1, <2>3 DEF Complete, CommitStep, IInv, TypeOK, AtRest, Rest
<1>3. CASE ~Fenced(r)
  <2>1. CompletedBefore(r) <=> /\ job[lease[r].job].token = lease[r].token
                               /\ Shows(job[lease[r].job], Request(r))
    BY <1>1 DEF CompletedBefore, Shows, Request
  <2>2. CompletedBefore(r) \in BOOLEAN
    BY DEF CompletedBefore
  <2> QED BY <1>1, <1>3, <2>1, <2>2 DEF Complete, ReplayStep
<1> QED BY <1>2, <1>3

LEMMA FailShape ==
  ASSUME IInv, NEW r \in Runner, NEW d \in 0..MaxRetryDelay, Fail(r, d)
  PROVE  CommitStep(r) \/ ReplayStep(r)
<1>1. lease[r] \in Lease /\ lease[r].job \in Job /\ lease[r].call.op = "fail"
  BY HeldLease DEF IInv, Fail, Lease
<1>2. FailStatus(r) = FailOutcome(Request(r))
  BY <1>1 DEF FailStatus, FailOutcome, WasRetry, Request, IInv, LeaseHistory, Fail
<1>3. CASE Fenced(r)
  <2>1. Shows(job'[lease[r].job], Request(r))
    BY <1>1, <1>2, <1>3 DEF Fail, IInv, TypeOK, AtRest, Shows, Request
  <2>2. FailStatus(r) \in Rest
    BY DEF FailStatus, Rest
  <2>3. lease[r].call.code # Nil
    BY <1>1, CallTypes, JobsAssumption DEF Lease
  <2>4. lease[r].attempt = job[lease[r].job].attempt
    BY <1>1, <1>3 DEF Fail, Fenced, IInv, LeaseHistory, RowShape
  <2>5. RowCheck(job'[lease[r].job])
    BY <1>1, <1>3, <2>3, <2>4
       DEF Fail, FailStatus, IInv, TypeOK, AtRest, RowValid, RowCheck
  <2> QED BY <1>1, <1>3, <2>1, <2>2, <2>5 DEF Fail, CommitStep, IInv, TypeOK, AtRest
<1>4. CASE ~Fenced(r)
  <2>1. FailedBefore(r) <=> /\ job[lease[r].job].token = lease[r].token
                            /\ Shows(job[lease[r].job], Request(r))
    BY <1>1, <1>2 DEF FailedBefore, Shows, Request
  <2>2. FailedBefore(r) \in BOOLEAN
    BY DEF FailedBefore
  <2> QED BY <1>1, <1>4, <2>1, <2>2 DEF Fail, ReplayStep
<1> QED BY <1>3, <1>4

LEMMA EnqueueInv ==
  ASSUME IInv, NEW j \in Job, Enqueue(j)
  PROVE  IInv'
<1> USE JobsAssumption
<1>1. TypeOK'
  BY NextType DEF IInv, Next
<1>2. /\ job[j] = NoRow
      /\ job'[j] = [NoRow EXCEPT !.status = "queued"]
      /\ \A k \in Job : k # j => job'[k] = job[k]
      /\ UNCHANGED <<lease, settled, told>>
  BY DEF IInv, RowShape, Enqueue, TypeOK
<1>3. \A k \in Job : job'[k].token = job[k].token
  BY <1>2 DEF NoRow
<1>4. RowValid' /\ RowShape'
  BY <1>2 DEF IInv, RowValid, RowCheck, RowShape, NoRow
<1>5. \A r \in Runner : Holds(r) => lease[r].job # j /\ lease[r].job \in Job
  BY <1>2, HeldLease DEF IInv, LeaseHistory, NoRow, Lease
<1>6. \A a \in settled : a.job # j /\ a.job \in Job
  BY <1>2 DEF IInv, SettledStands, Stands, Shows, FailOutcome, NoRow, TypeOK, Settled
<1>7. LeaseHistory' /\ TokenUnique' /\ SettledByHolder' /\ ToldReleased' /\ SettledOnce'
  BY <1>2, <1>3, <1>5
     DEF IInv, LeaseHistory, TokenUnique, SettledByHolder, ToldReleased, SettledOnce, Holds
<1>8. LeaseSound'
  BY <1>2, <1>5 DEF IInv, LeaseSound, Outlives, Entitled, Holds, Request
<1>9. SettledStands'
  BY <1>2, <1>6 DEF IInv, SettledStands, Stands, Shows, FailOutcome, WasRetry
<1>10. RestingSettled'
  BY <1>2, <1>3 DEF IInv, RestingSettled, NoRow
<1>11. ToldPast' /\ AnswersTruthful'
  BY <1>2, <1>3 DEF IInv, ToldPast, AnswersTruthful, WasRetry, TypeOK, Answer
<1>12. LeaseBounded'
  BY <1>2 DEF IInv, LeaseBounded
<1> QED BY <1>1, <1>4, <1>7, <1>8, <1>9, <1>10, <1>11, <1>12 DEF IInv

(* The sweep that every claim performs, row by row: a row stays as it is,  *)
(* or was running on a lease that is over and comes to rest.               *)
LEMMA SweepEffect ==
  ASSUME IInv, NEW j \in Job
  PROVE  \/ Swept(job[j]) = job[j]
         \/ /\ job[j].status = "running" /\ job[j].left = 0
            /\ job[j].attempt >= MaxAttempts
            /\ Swept(job[j]).status = "failed_permanent"
            /\ Swept(job[j]).code = LeaseExpired
            /\ Swept(job[j]).owner = Nil
            /\ Swept(job[j]).result = Nil
            /\ Swept(job[j]).attempt = job[j].attempt
            /\ Swept(job[j]).token = job[j].token
BY DEF Swept, Exhausted, AtRest

(* The sweep leaves alone what has been settled.                           *)
LEMMA SweptStands ==
  ASSUME IInv, NEW a \in settled
  PROVE  Stands(Swept(job[a.job]), a)
<1>1. a.job \in Job /\ Stands(job[a.job], a) /\ a.token \in Nat
  BY DEF IInv, TypeOK, Settled, SettledStands
<1>2. CASE a.token = job[a.job].token
  <2>1. job[a.job].status # "running"
    BY <1>1, <1>2 DEF Stands, Shows, FailOutcome
  <2> QED BY <1>1, <2>1, SweepEffect
<1>3. CASE a.token # job[a.job].token
  BY <1>1, <1>3, SweepEffect DEF Stands
<1> QED BY <1>2, <1>3

LEMMA ClaimNothingInv ==
  ASSUME IInv, NEW r \in Runner, ClaimNothing(r)
  PROVE  IInv'
<1> USE JobsAssumption
<1>1. TypeOK'
  BY NextType DEF IInv, Next
<1>2. /\ \A k \in Job : job'[k] = Swept(job[k])
      /\ UNCHANGED <<lease, settled, told>>
  BY DEF ClaimNothing
<1>3. \A k \in Job : job'[k].token = job[k].token /\ job'[k].attempt = job[k].attempt
  BY <1>2, SweepEffect
<1>4. RowValid'
  BY <1>2, SweepEffect DEF IInv, RowValid, RowCheck, TypeOK, Row
<1>5. RowShape'
  BY <1>2, <1>3, SweepEffect DEF IInv, RowShape
<1>6. \A q \in Runner : Holds(q) => lease[q].job \in Job
  BY HeldLease DEF IInv, Lease
<1>7. \A a \in settled : a.job \in Job
  BY DEF IInv, TypeOK, Settled
<1>8. LeaseHistory' /\ TokenUnique' /\ SettledByHolder' /\ ToldReleased' /\ SettledOnce'
  BY <1>2, <1>3, <1>6
     DEF IInv, LeaseHistory, TokenUnique, SettledByHolder, ToldReleased, SettledOnce, Holds
<1>9. LeaseSound'
  <2> SUFFICES ASSUME NEW q \in Runner, Entitled(q)
               PROVE  job'[lease[q].job] = job[lease[q].job]
    BY <1>2 DEF IInv, LeaseSound, Outlives, Entitled, Holds, Request
  <2>1. job[lease[q].job].left > 0
    BY LeaseFields, <1>6 DEF IInv, LeaseSound, Outlives, Entitled, TypeOK, Row
  <2> QED BY <2>1, <1>2, <1>6, SweepEffect DEF Entitled
<1>10. SettledStands'
  <2> SUFFICES ASSUME NEW a \in settled'
               PROVE  Stands(job[a.job], a)'
    BY DEF SettledStands
  <2> QED BY <1>2, <1>7, SweptStands
<1>11. RestingSettled'
  BY <1>2, SweepEffect DEF IInv, RestingSettled
<1>12. ToldPast' /\ AnswersTruthful'
  BY <1>2, <1>3 DEF IInv, ToldPast, AnswersTruthful, WasRetry, TypeOK, Answer
<1>13. LeaseBounded'
  BY <1>2 DEF IInv, LeaseBounded
<1> QED BY <1>1, <1>4, <1>5, <1>8, <1>9, <1>10, <1>11, <1>12, <1>13 DEF IInv

LEMMA ClaimInv ==
  ASSUME IInv, NEW r \in Runner, NEW j \in Job, Claim(r, j)
  PROVE  IInv'
<1> USE JobsAssumption
<1>1. TypeOK'
  BY NextType DEF IInv, Next
<1>2. /\ \A k \in Job : k # j => job'[k] = Swept(job[k])
      /\ job'[j] = Leased(job[j], r)
      /\ lease'[r] = [job |-> j, token |-> job'[j].token,
                      attempt |-> job'[j].attempt, left |-> LeaseSeconds,
                      call |-> Executing]
      /\ \A q \in Runner : q # r => lease'[q] = lease[q]
      /\ UNCHANGED <<settled, told>>
      /\ ~Holds(r)
      /\ Claimable(job[j])
  BY DEF Claim, IInv, TypeOK
<1>3. /\ \A k \in Job : k # j => job'[k].token = job[k].token
      /\ job'[j].token = job[j].token + 1
      /\ job'[j].attempt = job[j].attempt + 1
      /\ job[j].attempt = job[j].token
      /\ \A k \in Job : job[k].token \in Nat
  BY <1>2, SweepEffect DEF Leased, IInv, RowShape, TypeOK, Row
<1>4. job[j].status \in {"queued", "retry_wait", "running"}
  BY <1>2 DEF Claimable
<1>5. RowValid'
  <2>1. ASSUME NEW k \in Job, k # j
        PROVE  RowCheck(job'[k])
    BY <1>2, <2>1, SweepEffect DEF IInv, RowValid, RowCheck, TypeOK, Row
  <2>2. RowCheck(job'[j])
    BY <1>2, <1>4 DEF Leased, Claimable, IInv, RowValid, RowCheck, RowShape, TypeOK, Row
  <2> QED BY <2>1, <2>2 DEF RowValid
<1>6. RowShape'
  BY <1>2, <1>3, SweepEffect DEF IInv, RowShape, Leased
<1>7. \A q \in Runner : Holds(q) => lease[q].job \in Job /\ lease[q].token \in Nat
  BY HeldLease DEF IInv, Lease
<1>8. \A q \in Runner : Holds(q)' => q = r \/ Holds(q)
  BY <1>2 DEF Holds
<1>9. \A a \in settled : a.job \in Job /\ a.token \in Nat
  BY DEF IInv, TypeOK, Settled
<1>10. LeaseHistory'
  BY <1>2, <1>3, <1>7, <1>8 DEF IInv, LeaseHistory, Holds
<1>11. \A q \in Runner : Holds(q) /\ lease[q].job = j => lease[q].token # job'[j].token
  BY <1>3, <1>7 DEF IInv, LeaseHistory
<1>12. TokenUnique'
  BY <1>2, <1>8, <1>11 DEF IInv, TokenUnique, Holds
<1>13. SettledByHolder'
  <2>1. \A a \in settled : a.job = j => a.token # job'[j].token
    BY <1>3, <1>9 DEF IInv, SettledStands, Stands
  <2> QED BY <1>2, <1>8, <2>1 DEF IInv, SettledByHolder, Holds
<1>14. ToldReleased'
  <2>1. \A a \in told : a.job = j => a.token # job'[j].token
    BY <1>3 DEF IInv, ToldPast, TypeOK, Answer
  <2> QED BY <1>2, <1>8, <2>1 DEF IInv, ToldReleased, Holds
<1>15. SettledOnce'
  BY <1>2 DEF IInv, SettledOnce
<1>16. LeaseSound'
  <2> SUFFICES ASSUME NEW q \in Runner, Entitled(q)'
               PROVE  Outlives(job[lease[q].job], q)'
    BY DEF LeaseSound
  <2>1. CASE q = r
    BY <2>1, <1>2 DEF Leased, Outlives
  <2>2. CASE q # r
    <3>1. Entitled(q) /\ lease'[q] = lease[q]
      BY <1>2, <2>2 DEF Entitled, Holds, Request
    <3>2. job[lease[q].job].status = "running" /\ job[lease[q].job].left > 0
      BY <3>1, <1>7, LeaseFields DEF IInv, LeaseSound, Outlives, Entitled, TypeOK, Row
    <3>3. lease[q].job # j
      BY <3>2, <1>2 DEF Claimable, TypeOK, Row
    <3>4. job'[lease[q].job] = job[lease[q].job]
      BY <3>1, <3>2, <3>3, <1>2, <1>7, SweepEffect DEF Entitled
    <3> QED BY <3>1, <3>4 DEF IInv, LeaseSound, Outlives
  <2> QED BY <2>1, <2>2
<1>17. SettledStands'
  <2> SUFFICES ASSUME NEW a \in settled'
               PROVE  Stands(job[a.job], a)'
    BY DEF SettledStands
  <2>1. a \in settled /\ Stands(job[a.job], a)
    BY <1>2 DEF IInv, SettledStands
  <2>2. CASE a.job = j
    <3>1. CASE a.token = job[j].token
      <4>1. Shows(job[j], a) /\ a.call.op \in {"complete", "fail"}
        BY <2>1, <2>2, <3>1 DEF Stands
      <4>2. job[j].status = "retry_wait" /\ WasRetry(a)
        BY <4>1, <1>4 DEF Shows, FailOutcome
      <4> QED BY <2>1, <2>2, <3>1, <4>2, <1>3, <1>9 DEF Stands, WasRetry
    <3>2. CASE a.token # job[j].token
      BY <2>1, <2>2, <3>2, <1>3, <1>9 DEF Stands, WasRetry
    <3> QED BY <3>1, <3>2
  <2>3. CASE a.job # j
    BY <2>1, <2>3, <1>2, <1>9, SweptStands
  <2> QED BY <2>2, <2>3
<1>18. RestingSettled'
  BY <1>2, SweepEffect DEF IInv, RestingSettled, Leased
<1>19. ToldPast' /\ AnswersTruthful'
  BY <1>2, <1>3 DEF IInv, ToldPast, AnswersTruthful, WasRetry, TypeOK, Answer
<1>20. LeaseBounded'
  BY <1>2 DEF IInv, LeaseBounded
<1> QED
  BY <1>1, <1>5, <1>6, <1>10, <1>12, <1>13, <1>14, <1>15, <1>16, <1>17, <1>18, <1>19, <1>20
     DEF IInv

LEMMA RenewInv ==
  ASSUME IInv, NEW r \in Runner, Renew(r)
  PROVE  IInv'
<1> USE JobsAssumption
<1>1. TypeOK'
  BY NextType DEF IInv, Next
<1>2. lease[r] \in Lease /\ lease[r].job \in Job /\ Holds(r)
  BY HeldLease DEF Renew, IInv, Lease
<1>3. /\ \A k \in Job : k # lease[r].job => job'[k] = job[k]
      /\ \/ job'[lease[r].job] = job[lease[r].job]
         \/ /\ job'[lease[r].job] = [job[lease[r].job] EXCEPT !.left = LeaseSeconds]
            /\ Fenced(r)
      /\ UNCHANGED <<settled, told>>
  BY <1>2 DEF Renew, IInv, TypeOK
<1>4. \A k \in Job :
        /\ job'[k].status = job[k].status /\ job'[k].attempt = job[k].attempt
        /\ job'[k].token = job[k].token /\ job'[k].owner = job[k].owner
        /\ job'[k].result = job[k].result /\ job'[k].code = job[k].code
  BY <1>3 DEF IInv, TypeOK, Row
<1>5. RowValid' /\ RowShape'
  <2>1. RowValid'
    BY <1>4 DEF IInv, RowValid, RowCheck
  <2>2. RowShape'
    BY <1>2, <1>3, <1>4 DEF IInv, RowShape, Fenced
  <2> QED BY <2>1, <2>2
<1>6. \A q \in Runner : Holds(q)' =>
        /\ Holds(q)
        /\ lease'[q].job = lease[q].job /\ lease'[q].token = lease[q].token
        /\ lease'[q].attempt = lease[q].attempt /\ lease'[q].call = lease[q].call
  BY <1>2 DEF Renew, Release, Holds, IInv, TypeOK, Lease
<1>7. \A q \in Runner : Holds(q) => lease[q].job \in Job
  BY HeldLease DEF IInv, Lease
<1>8. LeaseHistory' /\ TokenUnique' /\ SettledByHolder' /\ ToldReleased' /\ SettledOnce'
  BY <1>3, <1>4, <1>6, <1>7
     DEF IInv, LeaseHistory, TokenUnique, SettledByHolder, ToldReleased, SettledOnce
<1>9. LeaseSound'
  <2> SUFFICES ASSUME NEW q \in Runner, Entitled(q)'
               PROVE  Outlives(job[lease[q].job], q)'
    BY DEF LeaseSound
  <2>1. Holds(q)' /\ Holds(q)
    BY <1>6 DEF Entitled
  <2>2. CASE q = r
    <3>1. \/ lease'[r] = [lease[r] EXCEPT !.left = LeaseSeconds]
          \/ lease'[r] = lease[r]
      BY <2>1, <2>2, <1>2 DEF Renew, Release, Holds, IInv, TypeOK
    <3>2. Fenced(r) /\ job'[lease[r].job] = [job[lease[r].job] EXCEPT !.left = LeaseSeconds]
      BY <2>1, <2>2, <1>2 DEF Renew, Release, Holds, IInv, TypeOK
    <3>3. lease[r].left <= LeaseSeconds
      BY <1>2 DEF IInv, LeaseBounded
    <3> QED BY <2>2, <3>1, <3>2, <3>3, <1>2 DEF Outlives, Fenced, IInv, TypeOK, Row, Lease
  <2>3. CASE q # r
    <3>1. lease'[q] = lease[q] /\ Entitled(q)
      BY <2>1, <2>3, <1>3 DEF Renew, Release, Entitled, Request, IInv, TypeOK
    <3>2. Outlives(job[lease[q].job], q) /\ job'[lease[q].job] = job[lease[q].job]
      <4>1. Outlives(job[lease[q].job], q)
        BY <3>1 DEF IInv, LeaseSound
      <4>2. lease[q].job = lease[r].job /\ Fenced(r) => FALSE
        BY <4>1, <2>1, <2>3, <1>2 DEF Outlives, Fenced, IInv, TokenUnique
      <4> QED BY <4>1, <4>2, <1>3, <1>7, <2>1
    <3> QED BY <3>1, <3>2 DEF Outlives
  <2> QED BY <2>2, <2>3
<1>10. SettledStands'
  <2>1. \A a \in settled : a.job \in Job
    BY DEF IInv, TypeOK, Settled
  <2> QED BY <1>3, <1>4, <2>1 DEF IInv, SettledStands, Stands, Shows
<1>11. RestingSettled'
  BY <1>3, <1>4 DEF IInv, RestingSettled
<1>12. ToldPast' /\ AnswersTruthful'
  BY <1>3, <1>4 DEF IInv, ToldPast, AnswersTruthful, TypeOK, Answer
<1>13. LeaseBounded'
  BY <1>2, <1>6 DEF Renew, Release, IInv, LeaseBounded, TypeOK, Lease, NoLease
<1> QED BY <1>1, <1>5, <1>8, <1>9, <1>10, <1>11, <1>12, <1>13 DEF IInv

LEMMA FinishInv ==
  ASSUME IInv, NEW r \in Runner, NEW c \in Settlement, Finish(r, c)
  PROVE  IInv'
<1>1. TypeOK'
  BY NextType DEF IInv, Next
<1>2. /\ UNCHANGED <<job, settled, told>>
      /\ Holds(r) /\ lease[r] \in Lease /\ lease[r].call = Executing
      /\ lease'[r] = [lease[r] EXCEPT !.call = c]
      /\ \A q \in Runner : q # r => lease'[q] = lease[q]
  BY HeldLease DEF Finish, IInv, TypeOK
<1>3. \A q \in Runner :
        /\ Holds(q)' => Holds(q)
        /\ lease'[q].job = lease[q].job /\ lease'[q].token = lease[q].token
        /\ lease'[q].attempt = lease[q].attempt /\ lease'[q].left = lease[q].left
  BY <1>2 DEF Holds, Lease
<1>4. \A a \in settled : ~(a.job = lease[r].job /\ a.token = lease[r].token)
  BY <1>2, CallTypes DEF IInv, SettledByHolder, SettledStands, Stands
<1>5. RowValid' /\ RowShape' /\ SettledOnce' /\ RestingSettled' /\ ToldPast'
  BY <1>2 DEF IInv, RowValid, RowShape, SettledOnce, RestingSettled, ToldPast
<1>6. SettledStands' /\ AnswersTruthful'
  BY <1>2 DEF IInv, SettledStands, AnswersTruthful
<1>7. LeaseHistory' /\ LeaseBounded' /\ TokenUnique' /\ ToldReleased'
  BY <1>2, <1>3 DEF IInv, LeaseHistory, LeaseBounded, TokenUnique, ToldReleased
<1>8. SettledByHolder'
  BY <1>2, <1>3, <1>4 DEF IInv, SettledByHolder
<1>9. LeaseSound'
  <2> SUFFICES ASSUME NEW q \in Runner, Entitled(q)'
               PROVE  Outlives(job[lease[q].job], q)'
    BY DEF LeaseSound
  <2>1. Entitled(q)
    <3>1. CASE q = r
      BY <1>2, <1>4, <3>1, <1>3 DEF Entitled, Request
    <3>2. CASE q # r
      BY <1>2, <3>2 DEF Entitled, Request, Holds
    <3> QED BY <3>1, <3>2
  <2>2. Outlives(job[lease[q].job], q)
    BY <2>1 DEF IInv, LeaseSound
  <2> QED BY <2>2, <1>2, <1>3 DEF Outlives
<1> QED BY <1>1, <1>5, <1>6, <1>7, <1>8, <1>9 DEF IInv

LEMMA CrashInv ==
  ASSUME IInv, NEW r \in Runner, Crash(r)
  PROVE  IInv'
<1> USE JobsAssumption
<1>1. TypeOK'
  BY NextType DEF IInv, Next
<1>2. /\ UNCHANGED <<job, settled, told>>
      /\ ~Holds(r)' /\ lease'[r] = NoLease
      /\ \A q \in Runner : q # r => lease'[q] = lease[q]
  BY DEF Crash, Release, Holds, IInv, TypeOK
<1>3. \A q \in Runner : Holds(q)' => Holds(q) /\ lease'[q] = lease[q]
  BY <1>2 DEF Holds
<1>4. RowValid' /\ RowShape' /\ SettledOnce' /\ RestingSettled' /\ ToldPast'
  BY <1>2 DEF IInv, RowValid, RowShape, SettledOnce, RestingSettled, ToldPast
<1>5. SettledStands' /\ AnswersTruthful'
  BY <1>2 DEF IInv, SettledStands, AnswersTruthful
<1>6. LeaseHistory' /\ TokenUnique' /\ ToldReleased' /\ SettledByHolder'
  BY <1>2, <1>3 DEF IInv, LeaseHistory, TokenUnique, ToldReleased, SettledByHolder
<1>7. LeaseBounded'
  BY <1>2 DEF IInv, LeaseBounded, NoLease
<1>8. LeaseSound'
  BY <1>2, <1>3 DEF IInv, LeaseSound, Outlives, Entitled, Request
<1> QED BY <1>1, <1>4, <1>5, <1>6, <1>7, <1>8 DEF IInv

LEMMA TickInv ==
  ASSUME IInv, Tick
  PROVE  IInv'
<1>1. TypeOK'
  BY NextType DEF IInv, Next
<1>2. UNCHANGED <<settled, told>>
  BY DEF Tick
<1>3. \A k \in Job :
        /\ job'[k].status = job[k].status /\ job'[k].attempt = job[k].attempt
        /\ job'[k].token = job[k].token /\ job'[k].owner = job[k].owner
        /\ job'[k].result = job[k].result /\ job'[k].code = job[k].code
        /\ job'[k].left = Sooner(job[k].left)
        /\ job[k] = NoRow => job'[k] = NoRow
  BY DEF Tick, Aged, Sooner, NoRow
<1>4. \A q \in Runner :
        /\ Holds(q)' => Holds(q)
        /\ lease'[q].job = lease[q].job /\ lease'[q].token = lease[q].token
        /\ lease'[q].attempt = lease[q].attempt /\ lease'[q].call = lease[q].call
        /\ lease'[q].left = Sooner(lease[q].left)
  <2> SUFFICES ASSUME NEW q \in Runner
               PROVE  /\ Holds(q)' => Holds(q)
                      /\ lease'[q].job = lease[q].job /\ lease'[q].token = lease[q].token
                      /\ lease'[q].attempt = lease[q].attempt
                      /\ lease'[q].call = lease[q].call
                      /\ lease'[q].left = Sooner(lease[q].left)
    OBVIOUS
  <2>1. lease'[q] = [lease[q] EXCEPT !.left = Sooner(@)]
    BY DEF Tick
  <2>2. CASE lease[q] = NoLease
    <3>1. lease'[q] = NoLease
      BY <2>1, <2>2 DEF NoLease, Sooner
    <3> QED BY <2>2, <3>1 DEF Holds, NoLease, Sooner
  <2>3. CASE lease[q] # NoLease
    BY <2>1, <2>3, HeldLease DEF IInv, Holds, Lease
  <2> QED BY <2>2, <2>3
<1>5. \A q \in Runner : Holds(q) => lease[q].job \in Job
  BY HeldLease DEF IInv, Lease
<1>6. RowValid' /\ RowShape'
  BY <1>3 DEF IInv, RowValid, RowCheck, RowShape
<1>7. LeaseHistory' /\ TokenUnique' /\ SettledByHolder' /\ ToldReleased' /\ SettledOnce'
  BY <1>2, <1>3, <1>4, <1>5
     DEF IInv, LeaseHistory, TokenUnique, SettledByHolder, ToldReleased, SettledOnce
<1>8. LeaseBounded'
  BY <1>4, LeaseFields, JobsAssumption DEF IInv, LeaseBounded, Sooner
<1>9. LeaseSound'
  <2> SUFFICES ASSUME NEW q \in Runner, Entitled(q)'
               PROVE  Outlives(job[lease[q].job], q)'
    BY DEF LeaseSound
  <2>1. Entitled(q)
    BY <1>2, <1>4, LeaseFields DEF Entitled, Request, Sooner, IInv
  <2>2. Outlives(job[lease[q].job], q) /\ lease[q].job \in Job
    BY <2>1, <1>5 DEF IInv, LeaseSound, Entitled
  <2>3. lease[q].left \in Nat /\ job[lease[q].job].left \in Nat
    BY <2>2, LeaseFields DEF IInv, TypeOK, Row
  <2>4. Sooner(job[lease[q].job].left) >= Sooner(lease[q].left)
    BY <2>2, <2>3 DEF Outlives, Sooner
  <2> QED BY <2>2, <2>4, <1>3, <1>4 DEF Outlives
<1>10. SettledStands'
  <2>1. \A a \in settled : a.job \in Job
    BY DEF IInv, TypeOK, Settled
  <2> QED BY <1>2, <1>3, <2>1 DEF IInv, SettledStands, Stands, Shows
<1>11. RestingSettled'
  BY <1>2, <1>3 DEF IInv, RestingSettled
<1>12. ToldPast' /\ AnswersTruthful'
  BY <1>2, <1>3 DEF IInv, ToldPast, AnswersTruthful, TypeOK, Answer
<1> QED BY <1>1, <1>6, <1>7, <1>8, <1>9, <1>10, <1>11, <1>12 DEF IInv

LEMMA CommitInv ==
  ASSUME IInv, TypeOK', NEW r \in Runner, CommitStep(r)
  PROVE  IInv'
<1> USE JobsAssumption
<1>1. /\ lease[r] \in Lease /\ lease[r].job \in Job
      /\ job[lease[r].job].status = "running"
      /\ job[lease[r].job].token = lease[r].token
      /\ lease[r].token \in Nat
  BY HeldLease DEF CommitStep, Fenced, IInv, Lease
<1>2. /\ Request(r).job = lease[r].job /\ Request(r).token = lease[r].token
      /\ Request(r).call = lease[r].call
  BY DEF Request
<1>3. \A k \in Job : job'[k].token = job[k].token /\ job'[k].attempt = job[k].attempt
  BY <1>1 DEF CommitStep
<1>4. /\ lease' = lease /\ told' = told
      \/ /\ lease'[r] = NoLease
         /\ \A q \in Runner : q # r => lease'[q] = lease[q]
         /\ \E a \in told' :
              /\ told' = told \cup {a}
              /\ a.job = lease[r].job /\ a.token = lease[r].token
              /\ a.call = lease[r].call /\ a.ok
  <2>1. CASE UNCHANGED <<lease, told>>
    BY <2>1
  <2>2. CASE Answered(r, TRUE)
    <3> DEFINE answer == [job |-> lease[r].job, token |-> lease[r].token,
                          call |-> lease[r].call, ok |-> TRUE]
    <3>1. told' = told \cup {answer}
      BY <2>2 DEF Answered
    <3>2. lease' = [lease EXCEPT ![r] = NoLease]
      BY <2>2 DEF Answered, Release
    <3>3. lease'[r] = NoLease /\ \A q \in Runner : q # r => lease'[q] = lease[q]
      BY <3>2 DEF IInv, TypeOK
    <3>4. /\ answer.job = lease[r].job /\ answer.token = lease[r].token
          /\ answer.call = lease[r].call /\ answer.ok
      OBVIOUS
    <3> QED BY <3>1, <3>3, <3>4
  <2> QED BY <2>1, <2>2 DEF CommitStep, AnsweredOrLost
<1>5. \A q \in Runner : Holds(q)' => Holds(q) /\ lease'[q] = lease[q]
  BY <1>4 DEF Holds
<1>6. \A q \in Runner : Holds(q) => lease[q].job \in Job /\ lease[q].token \in Nat
  BY HeldLease DEF IInv, Lease
<1>7. \A a \in settled : a.job \in Job /\ a.token \in Nat
  BY DEF IInv, TypeOK, Settled
<1>8. \A a \in told : a.job \in Job /\ a.token \in Nat
  BY DEF IInv, TypeOK, Answer
<1>9. \A a \in settled : a.job = lease[r].job => a.token < lease[r].token
  <2> SUFFICES ASSUME NEW a \in settled, a.job = lease[r].job
               PROVE  a.token < lease[r].token
    OBVIOUS
  <2>1. Stands(job[lease[r].job], a)
    BY DEF IInv, SettledStands
  <2>2. a.token # job[lease[r].job].token
    BY <2>1, <1>1 DEF Stands, Shows, FailOutcome
  <2> QED BY <2>1, <2>2, <1>1, <1>7 DEF Stands
<1>10. RowValid'
  BY <1>1 DEF CommitStep, IInv, RowValid
<1>11. RowShape'
  BY <1>1, <1>3 DEF CommitStep, Rest, IInv, RowShape
<1>12. LeaseHistory' /\ TokenUnique'
  BY <1>3, <1>5, <1>6 DEF IInv, LeaseHistory, TokenUnique
<1>13. LeaseBounded'
  BY <1>4 DEF IInv, LeaseBounded, NoLease
<1>14. LeaseSound'
  <2> SUFFICES ASSUME NEW q \in Runner, Entitled(q)'
               PROVE  Outlives(job[lease[q].job], q)'
    BY DEF LeaseSound
  <2>1. Holds(q) /\ lease'[q] = lease[q]
    BY <1>5 DEF Entitled
  <2>2. q # r
    BY <2>1 DEF Entitled, Request, CommitStep
  <2>3. Entitled(q)
    BY <2>1 DEF Entitled, Request, CommitStep
  <2>4. Outlives(job[lease[q].job], q)
    BY <2>3 DEF IInv, LeaseSound
  <2>5. lease[q].job # lease[r].job
    BY <1>1, <2>1, <2>2, <2>4 DEF Outlives, IInv, TokenUnique, CommitStep
  <2> QED BY <2>1, <2>4, <2>5, <1>6 DEF CommitStep, Outlives
<1>15. SettledStands'
  <2> SUFFICES ASSUME NEW a \in settled'
               PROVE  Stands(job[a.job], a)'
    BY DEF SettledStands
  <2>1. CASE a = Request(r)
    BY <2>1, <1>1, <1>2, <1>3 DEF CommitStep, Stands
  <2>2. CASE a \in settled
    <3>1. CASE a.job = lease[r].job
      BY <2>2, <3>1, <1>1, <1>3, <1>7, <1>9 DEF IInv, SettledStands, Stands
    <3>2. CASE a.job # lease[r].job
      BY <2>2, <3>2, <1>7 DEF IInv, SettledStands, CommitStep
    <3> QED BY <3>1, <3>2
  <2> QED BY <2>1, <2>2 DEF CommitStep
<1>16. SettledByHolder'
  <2> SUFFICES ASSUME NEW q \in Runner, NEW a \in settled', Holds(q)',
                      a.job = lease'[q].job, a.token = lease'[q].token
               PROVE  a.call = lease'[q].call
    BY DEF SettledByHolder
  <2>1. CASE a = Request(r)
    BY <2>1, <1>2, <1>5 DEF IInv, TokenUnique, CommitStep
  <2>2. CASE a \in settled
    BY <2>2, <1>5 DEF IInv, SettledByHolder
  <2> QED BY <2>1, <2>2 DEF CommitStep
<1>17. SettledOnce'
  BY <1>1, <1>2, <1>7, <1>9 DEF IInv, SettledOnce, CommitStep
<1>18. RestingSettled'
  <2> SUFFICES ASSUME NEW k \in Job, job'[k].status \in Rest
               PROVE  \/ \E a \in settled' : a.job = k /\ a.token = job'[k].token
                      \/ /\ job'[k].status = "failed_permanent"
                         /\ job'[k].code = LeaseExpired
                         /\ job'[k].attempt >= MaxAttempts
    BY DEF RestingSettled, Rest
  <2>1. CASE k = lease[r].job
    <3>1. Request(r) \in settled'
      BY DEF CommitStep
    <3> QED BY <2>1, <3>1, <1>1, <1>2, <1>3
  <2>2. CASE k # lease[r].job
    BY <2>2 DEF IInv, RestingSettled, CommitStep, Rest
  <2> QED BY <2>1, <2>2
<1>19. ToldReleased'
  <2> SUFFICES ASSUME NEW q \in Runner, NEW a \in told', Holds(q)',
                      a.job = lease'[q].job, a.token = lease'[q].token
               PROVE  FALSE
    BY DEF ToldReleased
  <2>1. a \notin told
    BY <1>5 DEF IInv, ToldReleased
  <2>2. lease'[r] = NoLease /\ a.job = lease[r].job /\ a.token = lease[r].token
    BY <2>1, <1>4
  <2> QED BY <2>2, <1>5 DEF IInv, TokenUnique, CommitStep, Holds
<1>20. ToldPast'
  BY <1>1, <1>3, <1>4, <1>8 DEF IInv, ToldPast
<1>21. AnswersTruthful'
  <2> SUFFICES ASSUME NEW a \in told'
               PROVE  LET request == [job |-> a.job, token |-> a.token, call |-> a.call]
                      IN  /\ a.ok => request \in settled'
                          /\ ~a.ok /\ request \in settled' =>
                               WasRetry(a) /\ job'[a.job].token > a.token
    BY DEF AnswersTruthful, WasRetry
  <2>1. CASE a \in told
    <3>1. [job |-> a.job, token |-> a.token, call |-> a.call] # Request(r)
      BY <2>1 DEF Request, IInv, ToldReleased, CommitStep
    <3> QED BY <2>1, <3>1, <1>3, <1>8 DEF IInv, AnswersTruthful, WasRetry, CommitStep
  <2>2. CASE a \notin told
    BY <2>2, <1>4 DEF CommitStep, Request
  <2> QED BY <2>1, <2>2
<1> QED
  BY <1>10, <1>11, <1>12, <1>13, <1>14, <1>15, <1>16, <1>17, <1>18, <1>19, <1>20, <1>21
     DEF IInv

LEMMA ReplayInv ==
  ASSUME IInv, TypeOK', NEW r \in Runner, ReplayStep(r)
  PROVE  IInv'
<1> USE JobsAssumption
<1>1. /\ lease[r] \in Lease /\ lease[r].job \in Job
      /\ lease[r].token \in Nat /\ lease[r].call \in Call
      /\ Holds(r)
  BY HeldLease DEF ReplayStep, IInv, Lease
<1>2. UNCHANGED <<job, settled>>
  BY DEF ReplayStep
<1>3. PICK ok \in BOOLEAN :
        /\ ok <=> /\ job[lease[r].job].token = lease[r].token
                  /\ Shows(job[lease[r].job], Request(r))
        /\ Answered(r, ok)
  BY DEF ReplayStep
<1> DEFINE answer == [job |-> lease[r].job, token |-> lease[r].token,
                      call |-> lease[r].call, ok |-> ok]
<1>4. /\ lease'[r] = NoLease
      /\ \A q \in Runner : q # r => lease'[q] = lease[q]
      /\ told' = told \cup {answer}
  BY <1>3 DEF Answered, Release, IInv, TypeOK
<1>5. \A q \in Runner : Holds(q)' => q # r /\ Holds(q) /\ lease'[q] = lease[q]
  BY <1>4 DEF Holds
<1>6. RowValid' /\ RowShape' /\ SettledOnce' /\ RestingSettled' /\ SettledStands'
  BY <1>2 DEF IInv, RowValid, RowShape, SettledOnce, RestingSettled, SettledStands
<1>7. LeaseHistory' /\ TokenUnique' /\ SettledByHolder'
  BY <1>2, <1>5 DEF IInv, LeaseHistory, TokenUnique, SettledByHolder
<1>8. LeaseBounded'
  BY <1>4 DEF IInv, LeaseBounded, NoLease
<1>9. LeaseSound'
  BY <1>2, <1>5 DEF IInv, LeaseSound, Outlives, Entitled, Request
<1>10. ToldReleased'
  <2> SUFFICES ASSUME NEW q \in Runner, NEW a \in told', Holds(q)',
                      a.job = lease'[q].job, a.token = lease'[q].token
               PROVE  FALSE
    BY DEF ToldReleased
  <2> QED BY <1>1, <1>4, <1>5 DEF IInv, ToldReleased, TokenUnique
<1>11. ToldPast'
  BY <1>1, <1>2, <1>4 DEF IInv, ToldPast, LeaseHistory
<1>12. ok => Request(r) \in settled
  <2> SUFFICES ASSUME ok PROVE Request(r) \in settled
    OBVIOUS
  <2>1. /\ job[lease[r].job].token = lease[r].token
        /\ Shows(job[lease[r].job], Request(r))
        /\ lease[r].call.op \in {"complete", "fail"}
    BY <1>3 DEF ReplayStep
  <2>2. job[lease[r].job].status \in {"retry_wait", "succeeded", "failed_permanent"}
    BY <2>1 DEF Shows, FailOutcome, Request
  <2>3. ~(/\ job[lease[r].job].status = "failed_permanent"
          /\ job[lease[r].job].code = LeaseExpired)
    BY <1>1, <2>1, CallTypes DEF Shows, Request
  <2>4. PICK a \in settled : a.job = lease[r].job /\ a.token = job[lease[r].job].token
    BY <1>1, <2>2, <2>3 DEF IInv, RestingSettled
  <2>5. a.call = lease[r].call
    BY <1>1, <2>1, <2>4 DEF IInv, SettledByHolder
  <2>6. a = Request(r)
    BY <2>1, <2>4, <2>5 DEF Request, IInv, TypeOK, Settled
  <2> QED BY <2>6
<1>13. Request(r) \in settled /\ ~ok =>
         WasRetry(Request(r)) /\ job[lease[r].job].token > lease[r].token
  <2> SUFFICES ASSUME Request(r) \in settled, ~ok
               PROVE  WasRetry(Request(r)) /\ job[lease[r].job].token > lease[r].token
    OBVIOUS
  <2>1. Stands(job[lease[r].job], Request(r)) /\ Request(r).token = lease[r].token
    BY DEF IInv, SettledStands, Request
  <2>2. job[lease[r].job].token \in Nat
    BY <1>1 DEF IInv, TypeOK, Row
  <2> QED BY <1>1, <1>3, <2>1, <2>2 DEF Stands
<1>14. AnswersTruthful'
  <2> SUFFICES ASSUME NEW a \in told'
               PROVE  LET request == [job |-> a.job, token |-> a.token, call |-> a.call]
                      IN  /\ a.ok => request \in settled'
                          /\ ~a.ok /\ request \in settled' =>
                               WasRetry(a) /\ job'[a.job].token > a.token
    BY DEF AnswersTruthful, WasRetry
  <2>1. CASE a \in told
    BY <2>1, <1>2 DEF IInv, AnswersTruthful
  <2>2. CASE a = answer
    <3>1. [job |-> a.job, token |-> a.token, call |-> a.call] = Request(r)
      BY <2>2 DEF Request
    <3>2. /\ a.job = lease[r].job /\ a.token = lease[r].token
          /\ a.call = lease[r].call /\ a.ok = ok
      BY <2>2
    <3>3. WasRetry(Request(r)) => WasRetry(a)
      BY <3>2 DEF WasRetry, Request
    <3> QED BY <3>1, <3>2, <3>3, <1>2, <1>12, <1>13
  <2> QED BY <2>1, <2>2, <1>4
<1> QED BY <1>6, <1>7, <1>8, <1>9, <1>10, <1>11, <1>14 DEF IInv

LEMMA InitInv == Init => IInv
<1> SUFFICES ASSUME Init PROVE IInv
  OBVIOUS
<1>1. TypeOK
  BY InitType
<1>2. RowValid /\ RowShape /\ RestingSettled
  BY JobsAssumption DEF Init, NoRow, RowValid, RowCheck, RowShape, RestingSettled
<1>3. LeaseHistory /\ LeaseBounded /\ TokenUnique /\ LeaseSound
  BY JobsAssumption DEF Init, NoLease, Holds, Entitled, LeaseHistory, LeaseBounded,
                        TokenUnique, LeaseSound
<1>4. /\ SettledStands /\ SettledByHolder /\ SettledOnce
      /\ ToldReleased /\ ToldPast /\ AnswersTruthful
  BY DEF Init, SettledStands, SettledByHolder, SettledOnce, ToldReleased, ToldPast,
         AnswersTruthful
<1> QED BY <1>1, <1>2, <1>3, <1>4 DEF IInv

LEMMA StutterInv ==
  ASSUME IInv, UNCHANGED vars
  PROVE  IInv'
<1>1. TypeOK' /\ RowValid' /\ RowShape' /\ RestingSettled'
  BY DEF vars, IInv, TypeOK, RowValid, RowShape, RestingSettled
<1>2. LeaseHistory' /\ LeaseBounded' /\ TokenUnique'
  BY DEF vars, IInv, Holds, LeaseHistory, LeaseBounded, TokenUnique
<1>3. LeaseSound'
  BY DEF vars, IInv, Holds, Entitled, Request, LeaseSound, Outlives
<1>4. SettledStands' /\ SettledByHolder' /\ SettledOnce'
  BY DEF vars, IInv, Holds, SettledStands, SettledByHolder, SettledOnce
<1>5. ToldReleased' /\ ToldPast' /\ AnswersTruthful'
  BY DEF vars, IInv, Holds, ToldReleased, ToldPast, AnswersTruthful
<1> QED BY <1>1, <1>2, <1>3, <1>4, <1>5 DEF IInv

LEMMA NextInv ==
  ASSUME IInv, [Next]_vars
  PROVE  IInv'
<1>1. TypeOK'
  BY NextType DEF IInv
<1>2. ASSUME NEW r \in Runner, Complete(r) PROVE IInv'
  BY <1>1, <1>2, CompleteShape, CommitInv, ReplayInv
<1>3. ASSUME NEW r \in Runner, NEW d \in 0..MaxRetryDelay, Fail(r, d) PROVE IInv'
  BY <1>1, <1>3, FailShape, CommitInv, ReplayInv
<1> QED
  BY <1>2, <1>3, EnqueueInv, ClaimInv, ClaimNothingInv, RenewInv, FinishInv,
     CrashInv, TickInv, StutterInv DEF Next

-------------------------------------------------------------------------------
(* What follows from the inductive invariant.                              *)

(* The inductive invariant holds in every reachable state.                 *)
THEOREM Invariance == Spec => []IInv
BY InitInv, NextInv, PTL DEF Spec

(* No step of the queue breaks a CHECK constraint of its table.            *)
THEOREM TypesHold == Spec => []TypeInvariant
BY Invariance, PTL DEF IInv, TypeInvariant

(* At any moment at most one runner may act on a job.                      *)
THEOREM LeasesExclusive == Spec => []LeaseExclusive
<1>1. IInv => LeaseExclusive
  BY DEF IInv, LeaseSound, TokenUnique, LeaseExclusive, Entitled, Outlives
<1> QED BY <1>1, Invariance, PTL

(* A runner that still believes in its lease is not refused.               *)
THEOREM LeasesHonoured == Spec => []LeaseHonoured
<1>1. IInv => LeaseHonoured
  <2> SUFFICES ASSUME IInv, NEW r \in Runner, Entitled(r)
               PROVE  Fenced(r)
    BY DEF LeaseHonoured
  <2>1. lease[r].job \in Job /\ lease[r].left \in Nat
    BY HeldLease, LeaseFields DEF IInv, Entitled, Lease
  <2>2. Outlives(job[lease[r].job], r)
    BY DEF IInv, LeaseSound
  <2>3. job[lease[r].job].left \in Nat
    BY <2>1 DEF IInv, TypeOK, Row
  <2> QED BY <2>1, <2>2, <2>3 DEF Outlives, Entitled, Fenced
<1> QED BY <1>1, Invariance, PTL

(* A lease is exclusive and honoured.                                      *)
THEOREM LeasesSafe == Spec => []LeasesHold
BY LeasesExclusive, LeasesHonoured, PTL DEF LeasesHold

(* A runner that repeats a call whose answer was lost is answered truly.   *)
THEOREM AnswersAreTruthful == Spec => []AnswersTruthful
BY Invariance, PTL DEF IInv

(* What was acknowledged stays in the table for ever.                      *)
THEOREM AcknowledgedIsDurable == Spec => []AckDurable
<1>1. IInv => AckDurable
  <2> SUFFICES ASSUME IInv, NEW a \in told, a.ok, ~WasRetry(a)
               PROVE  /\ job[a.job].token = a.token
                      /\ a.call.op = "complete" =>
                           job[a.job].status = "succeeded"
                           /\ job[a.job].result = a.call.result
                      /\ a.call.op = "fail" =>
                           job[a.job].status = "failed_permanent"
                           /\ job[a.job].code = a.call.code
    BY DEF AckDurable
  <2> DEFINE request == [job |-> a.job, token |-> a.token, call |-> a.call]
  <2>1. request \in settled /\ ~WasRetry(request)
    BY DEF IInv, AnswersTruthful, WasRetry
  <2>2. Stands(job[a.job], request)
    BY <2>1 DEF IInv, SettledStands
  <2>3. a.job \in Job /\ a.token \in Nat /\ job[a.job].token \in Nat
    BY DEF IInv, TypeOK, Answer, Row
  <2> QED BY <2>1, <2>2, <2>3 DEF Stands, Shows, FailOutcome
<1> QED BY <1>1, Invariance, PTL

(* What a settlement was answered is true, and stays so.                   *)
THEOREM AnswersSafe == Spec => []AnswersHold
BY AnswersAreTruthful, AcknowledgedIsDurable, PTL DEF AnswersHold

(* A job is abandoned only after its last attempt, or on request.          *)
THEOREM NeverAbandonedEarly == Spec => []NoEarlyGiveUp
<1>1. IInv => NoEarlyGiveUp
  <2> SUFFICES ASSUME IInv, NEW j \in Job,
                      job[j].status = "failed_permanent", job[j].attempt < MaxAttempts
               PROVE  \E a \in settled : /\ a.job = j /\ a.token = job[j].token
                                         /\ a.call.op = "fail" /\ ~a.call.retryable
    BY DEF IInv, RowShape, NoEarlyGiveUp
  <2>1. job[j].attempt \in Nat /\ job[j].attempt = job[j].token
    BY DEF IInv, TypeOK, Row, RowShape
  <2>2. PICK a \in settled : a.job = j /\ a.token = job[j].token
    BY <2>1, JobsAssumption DEF IInv, RestingSettled
  <2>3. a.call.op \in {"complete", "fail"} /\ Shows(job[j], a)
    BY <2>2 DEF IInv, SettledStands, Stands
  <2> QED BY <2>1, <2>2, <2>3 DEF Shows, FailOutcome, WasRetry
<1> QED BY <1>1, Invariance, PTL

-------------------------------------------------------------------------------
(* The queue implements JobService.                                        *)

(* What one step may do to one row, as far as JobService can tell.         *)
RowMove(old, new) ==
  \/ /\ new.status = old.status /\ new.attempt = old.attempt
     /\ new.result = old.result
  \/ /\ old = NoRow
     /\ new.status = "queued" /\ new.attempt = 0
  \/ /\ old.status \in {"queued", "retry_wait", "running"}
     /\ old.attempt < MaxAttempts
     /\ new.status = "running" /\ new.attempt = old.attempt + 1
  \/ /\ old.status = "running"
     /\ new.status \in Rest /\ new.attempt = old.attempt

LEMMA SweptMove ==
  ASSUME IInv, NEW k \in Job
  PROVE  RowMove(job[k], Swept(job[k]))
BY SweepEffect DEF RowMove, Rest

LEMMA RowMoves ==
  ASSUME IInv, [Next]_vars, NEW k \in Job
  PROVE  RowMove(job[k], job'[k])
<1>1. ASSUME NEW j \in Job, Enqueue(j) PROVE RowMove(job[k], job'[k])
  BY <1>1 DEF Enqueue, IInv, TypeOK, RowShape, NoRow, RowMove
<1>2. ASSUME NEW r \in Runner, NEW j \in Job, Claim(r, j) PROVE RowMove(job[k], job'[k])
  <2>1. CASE k = j
    <3>1. job'[k] = Leased(job[k], r)
      BY <1>2, <2>1 DEF Claim
    <3> QED BY <1>2, <2>1, <3>1 DEF Claim, Claimable, Leased, RowMove
  <2>2. CASE k # j
    <3>1. job'[k] = Swept(job[k])
      BY <1>2, <2>2 DEF Claim
    <3> QED BY <3>1, SweptMove
  <2> QED BY <2>1, <2>2
<1>3. ASSUME NEW r \in Runner, ClaimNothing(r) PROVE RowMove(job[k], job'[k])
  BY <1>3, SweptMove DEF ClaimNothing
<1>4. ASSUME NEW r \in Runner, Renew(r) PROVE RowMove(job[k], job'[k])
  BY <1>4 DEF Renew, IInv, TypeOK, Row, RowMove
<1>5. ASSUME NEW r \in Runner, CommitStep(r) \/ ReplayStep(r)
      PROVE  RowMove(job[k], job'[k])
  BY <1>5 DEF CommitStep, ReplayStep, Fenced, RowMove
<1>6. ASSUME NEW r \in Runner, Complete(r) PROVE RowMove(job[k], job'[k])
  BY <1>5, <1>6, CompleteShape
<1>7. ASSUME NEW r \in Runner, NEW d \in 0..MaxRetryDelay, Fail(r, d)
      PROVE  RowMove(job[k], job'[k])
  BY <1>5, <1>7, FailShape
<1>8. ASSUME Tick PROVE RowMove(job[k], job'[k])
  BY <1>8 DEF Tick, Aged, RowMove
<1>9. ASSUME UNCHANGED job PROVE RowMove(job[k], job'[k])
  BY <1>9 DEF RowMove
<1> QED
  BY <1>1, <1>2, <1>3, <1>4, <1>6, <1>7, <1>8, <1>9 DEF Next, Finish, Crash, vars

LEMMA MoveAdvances ==
  ASSUME NEW old \in Row, NEW new \in Row, RowCheck(old), RowCheck(new),
         old.status # "cancelled", new.status # "cancelled", RowMove(old, new)
  PROVE  EntryOf(new) = EntryOf(old) \/ Service!Advance(EntryOf(old), EntryOf(new))
<1> USE JobsAssumption DEF Row, RowCheck, EntryOf, Service!MakeEntry
<1>1. CASE /\ new.status = old.status /\ new.attempt = old.attempt
           /\ new.result = old.result
  BY <1>1
<1>2. CASE old = NoRow /\ new.status = "queued" /\ new.attempt = 0
  BY <1>2 DEF NoRow, PhaseOf, Service!Advance, Service!Submitted, Service!Absent
<1>3. CASE /\ old.status \in {"queued", "retry_wait", "running"}
           /\ old.attempt < MaxAttempts
           /\ new.status = "running" /\ new.attempt = old.attempt + 1
  BY <1>3 DEF PhaseOf, Service!Advance, Service!Delivered
<1>4. CASE /\ old.status = "running"
           /\ new.status \in Rest /\ new.attempt = old.attempt
  <2>1. CASE new.status = "retry_wait"
    BY <1>4, <2>1 DEF PhaseOf
  <2>2. CASE new.status = "succeeded"
    BY <1>4, <2>2 DEF PhaseOf, Service!Advance, Service!Resolved
  <2>3. CASE new.status = "failed_permanent"
    BY <1>4, <2>3 DEF PhaseOf, Service!Advance, Service!Resolved
  <2> QED BY <1>4, <2>1, <2>2, <2>3 DEF Rest
<1> QED BY <1>1, <1>2, <1>3, <1>4 DEF RowMove

(* Every behaviour of the queue is one that JobService allows.             *)
THEOREM Refinement == Spec => ImplementsJobService
<1>1. Init => Service!Init
  BY DEF Init, NoRow, Service!Init, Service!Absent, Service!MakeEntry, Ledger, EntryOf, PhaseOf
<1>2. IInv /\ IInv' /\ [Next]_vars => [Service!Next]_Ledger
  <2> SUFFICES ASSUME IInv, IInv', [Next]_vars PROVE Service!Next
    OBVIOUS
  <2>1. ASSUME NEW k \in Job
        PROVE  Ledger'[k] = Ledger[k] \/ Service!Advance(Ledger[k], Ledger'[k])
    <3>1. RowMove(job[k], job'[k])
      BY RowMoves
    <3>2. /\ job[k] \in Row /\ RowCheck(job[k]) /\ job[k].status # "cancelled"
          /\ job'[k] \in Row /\ RowCheck(job'[k]) /\ job'[k].status # "cancelled"
      BY DEF IInv, TypeOK, RowValid, RowShape
    <3>3. Ledger[k] = EntryOf(job[k]) /\ Ledger'[k] = EntryOf(job'[k])
      BY DEF Ledger
    <3> QED BY <3>1, <3>2, <3>3, MoveAdvances
  <2>2. Ledger' \in [Job -> Service!Entry]
    <3>1. \A k \in Job : EntryOf(job'[k]) \in Service!Entry
      BY DEF IInv, TypeOK, Row, Status, EntryOf, PhaseOf, Service!Entry, Service!Phase
    <3> QED BY <3>1 DEF Ledger
  <2> QED BY <2>1, <2>2 DEF Service!Next
<1> QED BY <1>1, <1>2, Invariance, PTL DEF Spec, ImplementsJobService, Service!Spec

===============================================================================
