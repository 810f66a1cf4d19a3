--------------------------- MODULE GraphWritesProofs ---------------------------
(***************************************************************************)
(* Proofs about reviewed graph writes, for every set of batches, runners   *)
(* and clashes, every attempt budget and every life time of an approval.   *)
(* What is proved of the queue carries over, because the composition only  *)
(* takes steps of the queue.  GInv gives the gate; HInv adds the histories *)
(* (what was settled, what the trail recorded, what was answered) and ties *)
(* each to the rows and to the calls that are still at work.               *)
(***************************************************************************)
EXTENDS GraphWritesProps, KnowledgeJobsProofs

(* An execution past the loader works on a batch whose review approved it. *)
GateHeld ==
  \A r \in Runner :
    Holds(r) /\ stage[r] \in {"approve", "write"} =>
      review[lease[r].job].status = "approved"

GInv ==
  /\ TypeOK
  /\ review \in [Job -> Review]
  /\ stage \in [Runner -> Stage]
  /\ graph \subseteq Entry
  /\ GateHeld
  /\ ReviewGate
  /\ WrittenOnce

(* What is true of the graph when a runner ends its execution with a call: *)
(* it never ceases to be true, since the graph only grows.                 *)
CallTrue(b, token, c) ==
  /\ c.op = "complete" =>
       /\ Written(b)
       /\ c.result = "written" => [batch |-> b, token |-> token] \in graph
  /\ c.op = "fail" /\ c.code \in Refusal => Conflicts(b)

HeldTrue ==
  \A r \in Runner : Holds(r) => CallTrue(lease[r].job, lease[r].token, lease[r].call)
SettledTrue == \A s \in settled : CallTrue(s.job, s.token, s.call)

(* A job exists only once its batch is approved.                           *)
Approved(b) == job[b].status # "absent" => review[b].status = "approved"
JobApproved == \A b \in Job : Approved(b)

HInv ==
  /\ IInv
  /\ GInv
  /\ JobApproved
  /\ HeldTrue
  /\ SettledTrue
  /\ AuditExact

(* The failures the execution ends with are settlements of the queue.      *)
LEMMA EndsWithSettlement ==
  /\ \A c \in GraphCode, b \in BOOLEAN : Failure(c, b) \in Settlement
  /\ Completion("written") \in Settlement /\ Completion("already_present") \in Settlement
BY GraphAssumption DEF Settlement

(* Every step of the composition is a step of the queue, or leaves it.     *)
LEMMA QueueStep ==
  ASSUME [GraphNext]_allVars
  PROVE  [Next]_vars
<1>1. ASSUME NEW b \in Job, NEW d \in Decision, Decide(b, d) PROVE [Next]_vars
  BY <1>1 DEF Decide, Next
<1>2. ASSUME NEW r \in Runner, LoadApprovedBatch(r) PROVE [Next]_vars
  <2>1. UNCHANGED vars \/ \E c \in Settlement : Finish(r, c)
    BY <1>2, EndsWithSettlement
       DEF LoadApprovedBatch, Goes, Ends, GraphCode, Refusal
  <2> QED BY <2>1 DEF Next
<1>3. ASSUME NEW r \in Runner, RequireApproval(r) PROVE [Next]_vars
  <2>1. UNCHANGED vars \/ \E c \in Settlement : Finish(r, c)
    BY <1>3, EndsWithSettlement
       DEF RequireApproval, Goes, Ends, GraphCode, Refusal
  <2> QED BY <2>1 DEF Next
<1>4. ASSUME NEW r \in Runner, WriteBatch(r) PROVE [Next]_vars
  <2>1. \E c \in Settlement : Finish(r, c)
    BY <1>4, EndsWithSettlement DEF WriteBatch, Lost, Ends, GraphCode, Refusal
  <2> QED BY <2>1 DEF Next
<1>5. ASSUME NEW r \in Runner, NEW b \in Job, GraphClaim(r, b) PROVE [Next]_vars
  BY <1>5 DEF GraphClaim, Next
<1>6. ASSUME NEW r \in Runner,
             \/ GraphRenew(r) \/ GraphComplete(r) \/ GraphCrash(r)
             \/ \E d \in 0..MaxRetryDelay : GraphFail(r, d)
      PROVE  [Next]_vars
  BY <1>6 DEF GraphRenew, GraphComplete, GraphCrash, GraphFail, Next
<1> QED
  BY <1>1, <1>2, <1>3, <1>4, <1>5, <1>6 DEF GraphNext, GraphTick, Next, allVars, vars

(* The reviewed graph writes are a use of the queue: its theorems hold of  *)
(* them too.                                                               *)
THEOREM QueueRefinement == GraphSpec => Spec
<1>1. GraphInit => Init
  BY DEF GraphInit
<1> QED BY <1>1, QueueStep, PTL DEF GraphSpec, Spec

-------------------------------------------------------------------------------
(* The gate.                                                               *)

(* No step of the queue moves a lease to another job, except a claim by a  *)
(* runner that holds none.                                                 *)
LEMMA LeaseKeepsJob ==
  ASSUME TypeOK, NEW q \in Runner, NEW r \in Runner, Holds(q)',
         \/ Renew(r) \/ Complete(r) \/ Crash(r) \/ Tick
         \/ \E d \in 0..MaxRetryDelay : Fail(r, d)
         \/ \E c \in Settlement : Finish(r, c)
         \/ UNCHANGED vars
  PROVE  Holds(q) /\ lease'[q].job = lease[q].job
<1>1. lease[q] \in Lease \cup {NoLease} /\ lease[r] \in Lease \cup {NoLease}
  BY DEF TypeOK
<1>2. CASE Tick
  <2>1. lease'[q] = [lease[q] EXCEPT !.left = Sooner(@)]
    BY <1>2 DEF Tick
  <2>2. NoLease = [NoLease EXCEPT !.left = Sooner(@)]
    BY DEF NoLease, Sooner
  <2>3. Holds(q)
    BY <2>1, <2>2 DEF Holds
  <2> QED BY <1>1, <2>1, <2>3 DEF Holds, Lease
<1>3. CASE Crash(r) \/ UNCHANGED vars
  BY <1>3, <1>1 DEF Crash, Release, Holds, vars, TypeOK
<1>4. CASE Renew(r)
  <2>1. lease' = [lease EXCEPT ![r].left = LeaseSeconds] \/ UNCHANGED lease \/ Release(r)
    BY <1>4 DEF Renew
  <2> QED BY <1>4, <2>1, <1>1 DEF Renew, Release, Holds, TypeOK, Lease
<1>5. CASE Complete(r) \/ \E d \in 0..MaxRetryDelay : Fail(r, d)
  <2>1. UNCHANGED lease \/ Release(r)
    BY <1>5 DEF Complete, Fail, AnsweredOrLost, Answered
  <2> QED BY <2>1, <1>1 DEF Release, Holds, TypeOK
<1>6. CASE \E c \in Settlement : Finish(r, c)
  BY <1>6, <1>1 DEF Finish, Holds, TypeOK, Lease
<1> QED BY <1>2, <1>3, <1>4, <1>5, <1>6

(* The gate stays closed when no approval is taken back and no execution   *)
(* comes past the loader.                                                  *)
LEMMA GateKept ==
  ASSUME GInv,
         \A b \in Job : review[b].status = "approved" => review'[b].status = "approved",
         \A q \in Runner : Holds(q)' /\ stage'[q] \in {"approve", "write"} =>
           /\ Holds(q) /\ stage[q] \in {"approve", "write"}
           /\ lease'[q].job = lease[q].job
  PROVE  GateHeld'
<1> SUFFICES ASSUME NEW q \in Runner, Holds(q)', stage'[q] \in {"approve", "write"}
             PROVE  review'[lease'[q].job].status = "approved"
  BY DEF GateHeld
<1>1. Holds(q) /\ review[lease[q].job].status = "approved"
        /\ lease'[q].job = lease[q].job
  BY DEF GInv, GateHeld
<1>2. lease[q].job \in Job
  BY <1>1, HeldLease DEF GInv, Lease
<1> QED BY <1>1, <1>2

(* The graph stays as the gate promises while it does not grow.            *)
LEMMA GraphKept ==
  ASSUME GInv, UNCHANGED graph,
         \A b \in Job : review[b].status = "approved" => review'[b].status = "approved"
  PROVE  graph' \subseteq Entry /\ ReviewGate' /\ WrittenOnce'
<1>1. \A e \in graph : e.batch \in Job
  BY DEF GInv, Entry
<1> QED BY <1>1 DEF GInv, ReviewGate, WrittenOnce, Conflicts

LEMMA GInvInit == GraphInit => GInv
BY InitType
   DEF GraphInit, GInv, Review, Stage, Entry, GateHeld, ReviewGate, WrittenOnce,
       Init, Holds

LEMMA GInvDecide ==
  ASSUME GInv, TypeOK', NEW b \in Job, NEW d \in Decision, Decide(b, d)
  PROVE  GInv'
<1>1. review' \in [Job -> Review]
  BY GraphAssumption DEF GInv, Decide, Review, Decision
<1>2. \A c \in Job : review[c].status = "approved" => review'[c].status = "approved"
  BY DEF GInv, Decide, Undecided
<1>3. UNCHANGED <<lease, stage, graph>>
  BY DEF Decide, Enqueue, vars
<1> QED BY <1>1, <1>2, <1>3, GateKept, GraphKept DEF GInv, Holds

(* A claim starts an execution afresh.                                     *)
LEMMA GInvClaim ==
  ASSUME GInv, TypeOK', NEW r \in Runner, NEW b \in Job, GraphClaim(r, b)
  PROVE  GInv'
<1>1. stage' = [stage EXCEPT ![r] = "load"] /\ UNCHANGED <<review, graph>>
  BY DEF GraphClaim
<1>2. \A q \in Runner : q # r => lease'[q] = lease[q]
  BY DEF GraphClaim, Claim, GInv, TypeOK
<1>3. stage' \in [Runner -> Stage]
  BY <1>1 DEF GInv, Stage
<1>4. \A q \in Runner : Holds(q)' /\ stage'[q] \in {"approve", "write"} =>
        /\ Holds(q) /\ stage[q] \in {"approve", "write"}
        /\ lease'[q].job = lease[q].job
  BY <1>1, <1>2 DEF GInv, Holds
<1> QED BY <1>1, <1>3, <1>4, GateKept, GraphKept DEF GInv

(* The other transitions of a lease, and those that no execution takes.    *)
LEMMA GInvLease ==
  ASSUME GInv, TypeOK',
         \/ \E r \in Runner :
              \/ GraphRenew(r) \/ GraphComplete(r) \/ GraphCrash(r)
              \/ \E d \in 0..MaxRetryDelay : GraphFail(r, d)
              \/ ClaimNothing(r) /\ UNCHANGED graphVars
         \/ GraphTick
         \/ UNCHANGED allVars
  PROVE  GInv'
<1>1. UNCHANGED graph
  BY DEF GraphRenew, GraphComplete, GraphCrash, GraphTick, GraphFail, graphVars, allVars
<1>2. review' \in [Job -> Review]
      /\ \A b \in Job : review[b].status = "approved" => review'[b].status = "approved"
  <2>1. CASE GraphTick
    <3>1. \A n \in Nat : Sooner(n) \in Nat
      BY DEF Sooner
    <3> QED BY <2>1, <3>1 DEF GraphTick, GInv, Review
  <2>2. CASE ~GraphTick
    <3>1. UNCHANGED review
      BY <2>2 DEF GraphRenew, GraphComplete, GraphCrash, GraphFail, graphVars, allVars
    <3> QED BY <3>1 DEF GInv
  <2> QED BY <2>1, <2>2
<1>3. stage' \in [Runner -> Stage]
      /\ \A q \in Runner : stage'[q] = stage[q] \/ stage'[q] = "idle"
  BY DEF GraphRenew, GraphComplete, GraphCrash, GraphTick, GraphFail, graphVars,
         allVars, Drops, GInv, Stage
<1>4. \A q \in Runner : Holds(q)' => Holds(q) /\ lease'[q].job = lease[q].job
  <2> SUFFICES ASSUME NEW q \in Runner, Holds(q)'
               PROVE  Holds(q) /\ lease'[q].job = lease[q].job
    OBVIOUS
  <2>1. CASE \E r \in Runner : ClaimNothing(r)
    BY <2>1 DEF ClaimNothing, Holds
  <2>2. CASE ~\E r \in Runner : ClaimNothing(r)
    BY <2>2, LeaseKeepsJob
       DEF GraphRenew, GraphComplete, GraphCrash, GraphTick, GraphFail, allVars, GInv
  <2> QED BY <2>1, <2>2
<1>5. \A q \in Runner : Holds(q)' /\ stage'[q] \in {"approve", "write"} =>
        /\ Holds(q) /\ stage[q] \in {"approve", "write"}
        /\ lease'[q].job = lease[q].job
  BY <1>3, <1>4
<1> QED BY <1>1, <1>2, <1>3, <1>5, GateKept, GraphKept DEF GInv

(* A step of the execution: its stage moves, or it ends.                   *)
LEMMA StageMoves ==
  ASSUME GInv, NEW r \in Runner, NEW s \in Stage, stage' = [stage EXCEPT ![r] = s],
         UNCHANGED vars \/ \E c \in Settlement : Finish(r, c)
  PROVE  /\ stage' \in [Runner -> Stage]
         /\ \A q \in Runner : Holds(q)' =>
              /\ Holds(q) /\ lease'[q].job = lease[q].job
              /\ stage'[q] = IF q = r THEN s ELSE stage[q]
<1>1. \A q \in Runner : Holds(q)' => Holds(q) /\ lease'[q].job = lease[q].job
  BY LeaseKeepsJob DEF GInv
<1> QED BY <1>1 DEF GInv

LEMMA GInvLoad ==
  ASSUME GInv, TypeOK', NEW r \in Runner, LoadApprovedBatch(r)
  PROVE  GInv'
<1>1. lease[r].job \in Job /\ UNCHANGED <<review, graph>>
  BY HeldLease DEF GInv, LoadApprovedBatch, Doing, Lease
<1>2. CASE /\ review[lease[r].job].status = "approved"
           /\ Goes(r, "approve")
  <2>1. /\ stage' \in [Runner -> Stage]
        /\ \A q \in Runner : Holds(q)' =>
             /\ Holds(q) /\ lease'[q].job = lease[q].job
             /\ stage'[q] = IF q = r THEN "approve" ELSE stage[q]
    BY <1>2, StageMoves DEF Goes, Stage
  <2>2. GateHeld'
    <3> SUFFICES ASSUME NEW q \in Runner, Holds(q)', stage'[q] \in {"approve", "write"}
                 PROVE  review'[lease'[q].job].status = "approved"
      BY DEF GateHeld
    <3> QED BY <1>1, <1>2, <2>1 DEF GInv, GateHeld
  <2> QED BY <1>1, <2>1, <2>2, GraphKept DEF GInv
<1>3. CASE \E c \in Settlement : Ends(r, c)
  <2>1. /\ stage' \in [Runner -> Stage]
        /\ \A q \in Runner : Holds(q)' =>
             /\ Holds(q) /\ lease'[q].job = lease[q].job
             /\ stage'[q] = IF q = r THEN "settle" ELSE stage[q]
    BY <1>3, StageMoves DEF Ends, Stage
  <2> QED BY <1>1, <2>1, GateKept, GraphKept DEF GInv
<1> QED
  BY <1>2, <1>3, EndsWithSettlement DEF LoadApprovedBatch, GraphCode, Refusal

LEMMA GInvApprove ==
  ASSUME GInv, TypeOK', NEW r \in Runner, RequireApproval(r)
  PROVE  GInv'
<1>1. stage[r] = "approve" /\ Holds(r) /\ UNCHANGED <<review, graph>>
  BY DEF RequireApproval, Doing
<1>2. \E s \in {"write", "settle"} :
        /\ stage' = [stage EXCEPT ![r] = s]
        /\ UNCHANGED vars \/ \E c \in Settlement : Finish(r, c)
  BY EndsWithSettlement DEF RequireApproval, Goes, Ends, GraphCode, Refusal
<1>3. PICK s \in {"write", "settle"} :
        /\ stage' = [stage EXCEPT ![r] = s]
        /\ UNCHANGED vars \/ \E c \in Settlement : Finish(r, c)
  BY <1>2
<1>4. /\ stage' \in [Runner -> Stage]
      /\ \A q \in Runner : Holds(q)' =>
           /\ Holds(q) /\ lease'[q].job = lease[q].job
           /\ stage'[q] = IF q = r THEN s ELSE stage[q]
  BY <1>3, StageMoves DEF Stage
<1> QED BY <1>1, <1>3, <1>4, GateKept, GraphKept DEF GInv

(* The only step that adds to the graph.                                   *)
LEMMA GInvWrite ==
  ASSUME GInv, TypeOK', NEW r \in Runner, WriteBatch(r)
  PROVE  GInv'
<1> DEFINE b == lease[r].job
           e == [batch |-> b, token |-> lease[r].token]
<1>1. /\ Holds(r) /\ stage[r] = "write" /\ UNCHANGED review
      /\ lease[r] \in Lease /\ b \in Job /\ lease[r].token \in Nat
  BY HeldLease DEF GInv, WriteBatch, Doing, Lease
<1>2. review[b].status = "approved"
  BY <1>1 DEF GInv, GateHeld
<1>3. \E c \in Settlement : Ends(r, c)
  BY EndsWithSettlement DEF WriteBatch, Lost, GraphCode, Refusal
<1>4. /\ stage' \in [Runner -> Stage]
      /\ \A q \in Runner : Holds(q)' =>
           /\ Holds(q) /\ lease'[q].job = lease[q].job
           /\ stage'[q] = IF q = r THEN "settle" ELSE stage[q]
  BY <1>3, StageMoves DEF Ends, Stage
<1>5. GateHeld'
  BY <1>1, <1>4, GateKept
<1>6. CASE UNCHANGED graph
  BY <1>1, <1>4, <1>5, <1>6, GraphKept DEF GInv
<1>7. CASE ~Written(b) /\ ~Conflicts(b) /\ graph' = graph \cup {e}
  <2>1. e \in Entry /\ e.batch = b
    BY <1>1 DEF Entry
  <2>2. WrittenOnce'
    BY <1>7 DEF GInv, WrittenOnce, Written
  <2>3. ReviewGate'
    <3> SUFFICES ASSUME NEW f \in graph'
                 PROVE  review[f.batch].status = "approved"
                        /\ \A g \in graph' : <<f.batch, g.batch>> \notin Clash
      BY <1>1 DEF ReviewGate, Conflicts
    <3>1. \A g \in graph : <<b, g.batch>> \notin Clash /\ <<g.batch, b>> \notin Clash
      BY <1>7, GraphAssumption DEF Conflicts
    <3>2. <<b, b>> \notin Clash
      BY <1>1, GraphAssumption
    <3> HIDE DEF e, b
    <3>3. CASE f = e
      BY <1>2, <1>7, <2>1, <3>1, <3>2, <3>3
    <3>4. CASE f \in graph
      BY <1>7, <2>1, <3>1, <3>4 DEF GInv, ReviewGate, Conflicts
    <3> QED BY <1>7, <3>3, <3>4
  <2> QED BY <1>1, <1>4, <1>5, <1>7, <2>1, <2>2, <2>3 DEF GInv
<1> QED BY <1>6, <1>7 DEF WriteBatch, AlreadyPresent

LEMMA GInvNext ==
  ASSUME GInv, [GraphNext]_allVars
  PROVE  GInv'
<1>1. TypeOK'
  BY QueueStep, NextType DEF GInv
<1> QED
  BY <1>1, GInvDecide, GInvClaim, GInvLease, GInvLoad, GInvApprove, GInvWrite
     DEF GraphNext

THEOREM GraphInvariance == GraphSpec => []GInv
BY GInvInit, GInvNext, PTL DEF GraphSpec

(* No decision but an approval ever reaches the graph, and what is in the  *)
(* graph is free of conflicts, however leases expire, runners die and      *)
(* executions overlap.                                                     *)
THEOREM GateStands == GraphSpec => []ReviewGate
BY GraphInvariance, PTL DEF GInv

(* One execution at most writes a batch.                                   *)
THEOREM NothingWrittenTwice == GraphSpec => []WrittenOnce
BY GraphInvariance, PTL DEF GInv

-------------------------------------------------------------------------------
(* The truth about the graph, and the trail.                               *)

(* What was true of the graph remains so while it grows.                   *)
LEMMA TrueForever ==
  ASSUME NEW b, NEW t, NEW c, graph \subseteq graph', CallTrue(b, t, c)
  PROVE  CallTrue(b, t, c)'
BY DEF CallTrue, Written, Conflicts

(* How a lease may look after a step: as before, or with a call c.         *)
SameLease(q, c) ==
  /\ Holds(q)
  /\ lease'[q].job = lease[q].job /\ lease'[q].token = lease[q].token
  /\ lease'[q].call \in {lease[q].call, c}

(* A step of the queue that neither enqueues nor hands out nor settles.    *)
Quiet(r) ==
  \/ Renew(r) \/ Crash(r) \/ Tick \/ ClaimNothing(r) \/ UNCHANGED vars

LEMMA QuietKeeps ==
  ASSUME IInv, NEW r \in Runner, Quiet(r)
  PROVE  /\ settled' = settled
         /\ \A b \in Job : /\ job'[b].token = job[b].token
                           /\ job[b].status = "absent" => job'[b].status = "absent"
         /\ \A q \in Runner : Holds(q)' => SameLease(q, lease[q].call)
<1>1. /\ job \in [Job -> Row] /\ lease \in [Runner -> Lease \cup {NoLease}]
  BY DEF IInv, TypeOK
<1>2. CASE Tick
  <2>1. \A q \in Runner : lease'[q] = [lease[q] EXCEPT !.left = Sooner(@)]
    BY <1>2 DEF Tick
  <2>2. NoLease = [NoLease EXCEPT !.left = Sooner(@)]
    BY DEF NoLease, Sooner
  <2>3. \A q \in Runner : Holds(q)' => Holds(q)
    BY <2>1, <2>2 DEF Holds
  <2> QED BY <1>1, <1>2, <2>1, <2>3 DEF Tick, Aged, Holds, SameLease, Lease
<1>3. CASE Crash(r) \/ UNCHANGED vars
  BY <1>1, <1>3 DEF Crash, Release, Holds, vars, SameLease
<1>4. CASE ClaimNothing(r)
  <2>1. \A b \in Job : /\ Swept(job[b]).token = job[b].token
                       /\ job[b].status = "absent" => Swept(job[b]) = job[b]
    BY DEF Swept, Exhausted, AtRest
  <2> QED BY <1>4, <2>1 DEF ClaimNothing, Holds, SameLease
<1>5. CASE Renew(r)
  <2>1. lease' = [lease EXCEPT ![r].left = LeaseSeconds] \/ UNCHANGED lease \/ Release(r)
    BY <1>5 DEF Renew
  <2>2. \A q \in Runner : Holds(q)' => SameLease(q, lease[q].call)
    BY <1>5, <2>1, <1>1 DEF Renew, Release, Holds, SameLease, Lease
  <2>3. \A b \in Job : job'[b].token = job[b].token /\ job'[b].status = job[b].status
    BY <1>5, <1>1 DEF Renew, Row
  <2> QED BY <1>5, <2>2, <2>3 DEF Renew
<1> QED BY <1>2, <1>3, <1>4, <1>5 DEF Quiet

(* Whatever the runners hold remains true when leases end, go on, or go on *)
(* with a call that is true.                                               *)
LEMMA HeldTrueKept ==
  ASSUME HInv, graph \subseteq graph',
         \A q \in Runner : Holds(q)' =>
           \/ SameLease(q, lease[q].call)
           \/ CallTrue(lease[q].job, lease[q].token, lease[q].call)'
  PROVE  HeldTrue'
<1> SUFFICES ASSUME NEW q \in Runner, Holds(q)', SameLease(q, lease[q].call)
             PROVE  CallTrue(lease[q].job, lease[q].token, lease[q].call)'
  BY DEF HeldTrue
<1> DEFINE b == lease[q].job
           t == lease[q].token
           c == lease[q].call
<1>1. CallTrue(b, t, c)
  BY DEF HInv, HeldTrue, SameLease
<1>2. b' = b /\ t' = t /\ c' = c
  BY DEF SameLease
<1> QED BY <1>1, <1>2 DEF CallTrue, Written, Conflicts

(* The trail is exact as long as nothing is handed out or settled.         *)
SettleEvent == {"succeeded", "retry_scheduled", "failed_permanent"}

LEMMA TrailKept ==
  ASSUME AuditExact, settled' = settled,
         \A b \in Job : job'[b].token = job[b].token,
         audit \subseteq audit',
         \A a \in audit' : a \in audit \/ a.event \notin SettleEvent \cup {"claimed"}
  PROVE  AuditExact'
<1> SUFFICES ASSUME NEW b \in Job
             PROVE  /\ {a.token : a \in {x \in audit' : x.batch = b /\ x.event = "claimed"}}
                         = {a.token : a \in {x \in audit : x.batch = b /\ x.event = "claimed"}}
                    /\ {a \in audit' : a.batch = b /\ a.event \in SettleEvent}
                         = {a \in audit : a.batch = b /\ a.event \in SettleEvent}
  BY DEF AuditExact, EventOf, SettleEvent
<1>1. {x \in audit' : x.batch = b /\ x.event = "claimed"}
        = {x \in audit : x.batch = b /\ x.event = "claimed"}
  OBVIOUS
<1> QED BY <1>1

(* The job that a runner holds was approved.                               *)
LEMMA HeldApproved ==
  ASSUME HInv, NEW r \in Runner, Holds(r)
  PROVE  /\ lease[r] \in Lease /\ lease[r].job \in Job
         /\ review[lease[r].job].status = "approved"
<1>1. lease[r] \in Lease /\ lease[r].job \in Job /\ lease[r].token \in Nat
  BY HeldLease DEF HInv, GInv, Lease
<1>2. job[lease[r].job].status # "absent"
  <2>1. lease[r].token >= 1 /\ lease[r].token <= job[lease[r].job].token
    BY DEF HInv, IInv, LeaseHistory
  <2>2. job[lease[r].job].token # 0
    BY <1>1, <2>1
  <2> QED BY <1>1, <2>2 DEF HInv, IInv, RowShape, NoRow
<1> QED BY <1>1, <1>2 DEF HInv, JobApproved, Approved

(* Approvals are not taken back, and no row appears but by an approval.    *)
LEMMA ApprovedKept ==
  ASSUME JobApproved,
         \A b \in Job : review[b].status = "approved" => review'[b].status = "approved",
         \A b \in Job : job[b].status = "absent" => job'[b].status = "absent"
  PROVE  JobApproved'
BY DEF JobApproved, Approved

LEMMA HInvInit == GraphInit => HInv
<1> SUFFICES ASSUME GraphInit PROVE HInv
  OBVIOUS
<1>1. IInv /\ GInv
  BY InitInv, GInvInit DEF GraphInit
<1>2. JobApproved /\ HeldTrue /\ SettledTrue
  BY DEF GraphInit, Init, NoRow, JobApproved, Approved, HeldTrue, SettledTrue, Holds
<1>3. \A b \in Job : job[b].token = 0
  BY DEF GraphInit, Init, NoRow
<1>4. AuditExact
  <2> SUFFICES ASSUME NEW b \in Job
               PROVE  /\ {a.token : a \in {x \in audit : x.batch = b /\ x.event = "claimed"}}
                           = 1..job[b].token
                      /\ {a \in audit : a.batch = b /\ a.event \in SettleEvent}
                           = {[batch |-> b, event |-> EventOf(x), token |-> x.token,
                               code |-> x.call.code] : x \in {y \in settled : y.job = b}}
    BY DEF AuditExact, SettleEvent
  <2>1. audit = {} /\ settled = {}
    BY DEF GraphInit, Init
  <2>2. {x \in audit : x.batch = b /\ x.event = "claimed"} = {}
        /\ {y \in settled : y.job = b} = {}
    BY <2>1
  <2> QED BY <1>3, <2>1, <2>2
<1> QED BY <1>1, <1>2, <1>4 DEF HInv

LEMMA HInvDecide ==
  ASSUME HInv, IInv', GInv', NEW b \in Job, NEW d \in Decision, Decide(b, d)
  PROVE  HInv'
<1>1. /\ lease' = lease /\ settled' = settled /\ graph' = graph
      /\ \A k \in Job : job'[k].token = job[k].token
      /\ \A k \in Job : k # b => job'[k] = job[k] /\ review'[k] = review[k]
      /\ review'[b].status = d
      /\ d = "rejected" => job' = job
  <2>1. job \in [Job -> Row] /\ review \in [Job -> Review]
    BY DEF HInv, GInv, TypeOK
  <2>2. CASE d = "approved" /\ Enqueue(b)
    BY <2>1, <2>2 DEF Decide, Enqueue, Row
  <2>3. CASE d = "rejected" /\ UNCHANGED vars
    BY <2>1, <2>3 DEF Decide, vars
  <2> QED BY <2>2, <2>3 DEF Decide
<1>2. JobApproved'
  <2>1. d = "rejected" => job[b].status = "absent"
    BY DEF Decide, Undecided, HInv, JobApproved, Approved
  <2> QED BY <1>1, <2>1 DEF Decision, HInv, JobApproved, Approved
<1>3. HeldTrue'
  BY <1>1, HeldTrueKept DEF SameLease, Holds
<1>4. SettledTrue'
  BY <1>1, TrueForever DEF HInv, SettledTrue
<1>5. AuditExact'
  BY <1>1, TrailKept DEF HInv, Decide, Noted, SettleEvent
<1> QED BY <1>2, <1>3, <1>4, <1>5 DEF HInv

LEMMA HInvQuiet ==
  ASSUME HInv, IInv', GInv',
         \/ \E r \in Runner :
              \/ GraphRenew(r) \/ GraphCrash(r)
              \/ ClaimNothing(r) /\ UNCHANGED graphVars
         \/ GraphTick
         \/ UNCHANGED allVars
  PROVE  HInv'
<1>1. /\ settled' = settled
      /\ \A b \in Job : /\ job'[b].token = job[b].token
                        /\ job[b].status = "absent" => job'[b].status = "absent"
      /\ \A q \in Runner : Holds(q)' => SameLease(q, lease[q].call)
  <2>1. CASE \E r \in Runner : Quiet(r)
    BY <2>1, QuietKeeps DEF HInv
  <2>2. CASE UNCHANGED vars
    BY <2>2 DEF vars, SameLease, Holds
  <2>3. CASE Tick /\ Runner = {}
    BY <2>3 DEF Tick, Aged, HInv, GInv, TypeOK
  <2> QED
    BY <2>1, <2>2, <2>3 DEF Quiet, GraphRenew, GraphCrash, GraphTick, allVars
<1>2. /\ graph' = graph /\ audit' = audit
      /\ \A b \in Job : review[b].status = "approved" => review'[b].status = "approved"
  BY DEF GraphRenew, GraphCrash, GraphTick, graphVars, allVars, HInv, GInv, Review
<1>3. JobApproved'
  BY <1>1, <1>2, ApprovedKept DEF HInv
<1>4. HeldTrue'
  BY <1>1, <1>2, HeldTrueKept
<1>5. SettledTrue'
  BY <1>1, <1>2, TrueForever DEF HInv, SettledTrue
<1>6. AuditExact'
  BY <1>1, <1>2, TrailKept DEF HInv
<1> QED BY <1>3, <1>4, <1>5, <1>6 DEF HInv

(* An execution goes on, or ends with a call that is true of the graph.    *)
LEMMA HInvExecution ==
  ASSUME HInv, IInv', GInv', NEW r \in Runner, Holds(r),
         graph \subseteq graph', UNCHANGED <<review, audit>>,
         \/ UNCHANGED vars
         \/ \E c \in Settlement :
              Finish(r, c) /\ CallTrue(lease[r].job, lease[r].token, lease[r].call)'
  PROVE  HInv'
<1>1. lease \in [Runner -> Lease \cup {NoLease}] /\ lease[r] \in Lease
  BY HeldLease DEF HInv, GInv, TypeOK
<1>2. job' = job /\ settled' = settled
  BY DEF vars, Finish
<1>3. \A q \in Runner : Holds(q)' =>
        \/ SameLease(q, lease[q].call)
        \/ CallTrue(lease[q].job, lease[q].token, lease[q].call)'
  BY <1>1 DEF vars, Finish, Holds, SameLease, Lease
<1>4. HeldTrue'
  BY <1>3, HeldTrueKept
<1>5. SettledTrue'
  BY <1>2, TrueForever DEF HInv, SettledTrue
<1>6. JobApproved' /\ AuditExact'
  BY <1>2, ApprovedKept, TrailKept DEF HInv
<1> QED BY <1>4, <1>5, <1>6 DEF HInv

LEMMA HInvLoad ==
  ASSUME HInv, IInv', GInv', NEW r \in Runner,
         LoadApprovedBatch(r) \/ RequireApproval(r)
  PROVE  HInv'
<1>1. /\ Holds(r) /\ lease[r] \in Lease
      /\ review[lease[r].job].status = "approved"
      /\ UNCHANGED <<review, graph, audit>>
  BY HeldApproved DEF LoadApprovedBatch, RequireApproval, Doing
<1>2. \/ UNCHANGED vars
      \/ \E c \in Settlement :
           Finish(r, c) /\ c.op = "fail" /\ c.code \notin Refusal
  <2>1. \A c \in GraphCode, b \in BOOLEAN :
          Failure(c, b).op = "fail" /\ Failure(c, b).code = c
    BY DEF Failure, MakeCall
  <2>2. \/ UNCHANGED vars
        \/ \E c \in GraphCode \ Refusal, b \in BOOLEAN : Finish(r, Failure(c, b))
    BY <1>1 DEF LoadApprovedBatch, RequireApproval, Goes, Ends, GraphCode, Refusal
  <2> QED BY <2>1, <2>2, EndsWithSettlement
<1>3. \A c \in Settlement :
        Finish(r, c) /\ c.op = "fail" /\ c.code \notin Refusal =>
          CallTrue(lease[r].job, lease[r].token, lease[r].call)'
  BY <1>1 DEF Finish, CallTrue, Lease, HInv, GInv, TypeOK
<1> QED BY <1>1, <1>2, <1>3, HInvExecution

(* The write: "written" and "already present" are said of what is there,   *)
(* and a conflict of what will never be.                                   *)
LEMMA HInvWrite ==
  ASSUME HInv, IInv', GInv', NEW r \in Runner, WriteBatch(r)
  PROVE  HInv'
<1> DEFINE b == lease[r].job
           t == lease[r].token
<1>1. /\ Holds(r) /\ lease[r] \in Lease /\ lease \in [Runner -> Lease \cup {NoLease}]
      /\ UNCHANGED <<review, audit>>
  BY HeldApproved DEF WriteBatch, Doing, HInv, GInv, TypeOK
<1>2. graph \subseteq graph'
  BY DEF WriteBatch
<1>3. PICK c \in Settlement :
        /\ Finish(r, c)
        /\ c.op = "complete" =>
             /\ \E e \in graph' : e.batch = b
             /\ c.result = "written" => [batch |-> b, token |-> t] \in graph'
        /\ c.op = "fail" /\ c.code \in Refusal => Conflicts(b)
  <2>1. CASE Lost(r)
    <3> DEFINE f == Failure("graph_write.persistence_failed", TRUE)
    <3>1. f.op = "fail" /\ f.code \notin Refusal
      BY DEF Failure, MakeCall, Refusal
    <3>2. f \in Settlement
      BY EndsWithSettlement DEF GraphCode
    <3>3. Finish(r, f)
      BY <2>1 DEF Lost, Ends
    <3> HIDE DEF f
    <3> QED BY <3>1, <3>2, <3>3
  <2>2. CASE Written(b) /\ Ends(r, Completion("already_present"))
    BY <1>2, <2>2, EndsWithSettlement DEF Ends, Completion, MakeCall, Written
  <2>3. CASE Conflicts(b) /\ Ends(r, Failure("graph_write.conflict", FALSE))
    BY <2>3, EndsWithSettlement DEF Ends, Failure, MakeCall, GraphCode, Refusal
  <2>4. CASE /\ graph' = graph \cup {[batch |-> b, token |-> t]}
             /\ Ends(r, Completion("written"))
    <3> DEFINE e == [batch |-> b, token |-> t]
               c == Completion("written")
    <3>1. e \in graph' /\ e.batch = b
      BY <2>4
    <3>2. c.op = "complete"
      BY DEF Completion, MakeCall
    <3>3. c \in Settlement /\ Finish(r, c)
      BY <2>4, EndsWithSettlement DEF Ends
    <3> HIDE DEF c
    <3> QED BY <3>1, <3>2, <3>3
  <2> QED BY <2>1, <2>2, <2>3, <2>4 DEF WriteBatch, AlreadyPresent
<1>4. lease'[r].job = b /\ lease'[r].token = t /\ lease'[r].call = c
  BY <1>1, <1>3 DEF Finish, Lease
<1>5. CallTrue(lease[r].job, lease[r].token, lease[r].call)'
  <2>1. Conflicts(b) => \E e \in graph' : <<b, e.batch>> \in Clash
    BY <1>2 DEF Conflicts
  <2> QED BY <1>3, <1>4, <2>1 DEF CallTrue, Written, Conflicts
<1> QED BY <1>1, <1>2, <1>3, <1>5, HInvExecution

(* A claim counts one token more, and writes it down.                      *)
LEMMA HInvClaim ==
  ASSUME HInv, IInv', GInv', NEW r \in Runner, NEW b \in Job, GraphClaim(r, b)
  PROVE  HInv'
<1>1. /\ job \in [Job -> Row] /\ lease \in [Runner -> Lease \cup {NoLease}]
      /\ UNCHANGED <<review, graph, settled>>
  BY DEF HInv, GInv, TypeOK, GraphClaim, Claim
<1>2. /\ job'[b].token = job[b].token + 1 /\ job[b].status # "absent"
      /\ \A k \in Job : k # b => job'[k].token = job[k].token
      /\ \A k \in Job : job[k].status = "absent" => job'[k].status = "absent"
  BY <1>1 DEF GraphClaim, Claim, Claimable, Leased, Swept, Exhausted, AtRest
<1>3. JobApproved'
  BY <1>1, <1>2, ApprovedKept DEF HInv
<1>4. HeldTrue'
  <2>1. lease' = [lease EXCEPT ![r] = lease'[r]] /\ lease'[r].call = Executing
    BY <1>1 DEF GraphClaim, Claim
  <2>2. CallTrue(lease[r].job, lease[r].token, lease[r].call)'
    BY <2>1, CallTypes DEF CallTrue
  <2>3. \A q \in Runner : Holds(q)' =>
          \/ SameLease(q, lease[q].call)
          \/ CallTrue(lease[q].job, lease[q].token, lease[q].call)'
    BY <1>1, <2>1, <2>2 DEF SameLease, Holds
  <2> QED BY <1>1, <2>3, HeldTrueKept
<1>5. SettledTrue'
  BY <1>1, TrueForever DEF HInv, SettledTrue
<1>6. AuditExact'
  <2> DEFINE new == [batch |-> b, event |-> "claimed", token |-> job'[b].token, code |-> Nil]
  <2>1. audit' = audit \cup {new} /\ new.batch = b /\ new.event = "claimed"
          /\ new.token = job[b].token + 1
    BY <1>2 DEF GraphClaim, Noted
  <2> HIDE DEF new
  <2> SUFFICES ASSUME NEW k \in Job
               PROVE  /\ {a.token : a \in {x \in audit' : x.batch = k /\ x.event = "claimed"}}
                           = 1..job'[k].token
                      /\ {a \in audit' : a.batch = k /\ a.event \in SettleEvent}
                           = {a \in audit : a.batch = k /\ a.event \in SettleEvent}
    BY <1>1 DEF AuditExact, HInv, EventOf, SettleEvent
  <2>2. {a \in audit' : a.batch = k /\ a.event \in SettleEvent}
          = {a \in audit : a.batch = k /\ a.event \in SettleEvent}
    BY <2>1 DEF SettleEvent
  <2>3. {a.token : a \in {x \in audit : x.batch = k /\ x.event = "claimed"}}
          = 1..job[k].token
    BY DEF HInv, AuditExact
  <2>4. CASE k # b
    <3>1. {x \in audit' : x.batch = k /\ x.event = "claimed"}
            = {x \in audit : x.batch = k /\ x.event = "claimed"}
      BY <2>1, <2>4
    <3> QED BY <1>2, <2>2, <2>3, <2>4, <3>1
  <2>5. CASE k = b
    <3>1. {x \in audit' : x.batch = k /\ x.event = "claimed"}
            = {x \in audit : x.batch = k /\ x.event = "claimed"} \cup {new}
      BY <2>1, <2>5
    <3>2. {a.token : a \in {x \in audit' : x.batch = k /\ x.event = "claimed"}}
            = (1..job[k].token) \cup {job[b].token + 1}
      BY <2>1, <2>3, <3>1
    <3>3. job[b].token \in Nat
      BY <1>1 DEF Row
    <3>4. (1..job[k].token) \cup {job[b].token + 1} = 1..(job[b].token + 1)
      BY <2>5, <3>3
    <3> QED BY <1>2, <2>2, <2>5, <3>2, <3>4
  <2> QED BY <2>4, <2>5
<1> QED BY <1>3, <1>4, <1>5, <1>6 DEF HInv

(* A settlement: the row of the trail is written exactly when it is, or    *)
(* says again what is already there.                                       *)
TrailRow(s) ==
  [batch |-> s.job, event |-> EventOf(s), token |-> s.token, code |-> s.call.code]

ClaimsOf(k) == {a.token : a \in {x \in audit : x.batch = k /\ x.event = "claimed"}}
EndsOf(k) == {a \in audit : a.batch = k /\ a.event \in SettleEvent}
RowsOf(k) == {TrailRow(x) : x \in {y \in settled : y.job = k}}

TrailExact == \A k \in Job : ClaimsOf(k) = 1..job[k].token /\ EndsOf(k) = RowsOf(k)

LEMMA TrailRows == AuditExact <=> TrailExact
<1> SUFFICES ASSUME NEW k \in Job
             PROVE  RowsOf(k) = {[batch |-> k, event |-> EventOf(s), token |-> s.token,
                                  code |-> s.call.code] :
                                   s \in {x \in settled : x.job = k}}
  BY Zenon DEF AuditExact, TrailExact, ClaimsOf, EndsOf, SettleEvent
<1> QED BY DEF RowsOf, TrailRow

LEMMA SettleKeeps ==
  ASSUME HInv, NEW r \in Runner, Holds(r), CommitStep(r) \/ ReplayStep(r),
         UNCHANGED <<review, graph>>
  PROVE  /\ settled' = settled \/ settled' = settled \cup {Request(r)}
         /\ \A k \in Job : job'[k].token = job[k].token
         /\ JobApproved' /\ HeldTrue' /\ SettledTrue'
<1>1. /\ job \in [Job -> Row] /\ lease \in [Runner -> Lease \cup {NoLease}]
      /\ lease[r] \in Lease /\ lease[r].job \in Job
  BY HeldApproved DEF HInv, GInv, TypeOK
<1>2. settled' = settled \/ settled' = settled \cup {Request(r)}
  BY DEF CommitStep, ReplayStep
<1>3. \A k \in Job : job'[k].token = job[k].token
  BY <1>1 DEF CommitStep, ReplayStep, Fenced
<1>8. \A k \in Job : job[k].status = "absent" => job'[k].status = "absent"
  BY <1>1 DEF CommitStep, ReplayStep, Fenced
<1>4. lease' = lease \/ Release(r)
  BY DEF CommitStep, ReplayStep, AnsweredOrLost, Answered
<1>5. JobApproved'
  BY <1>8, ApprovedKept DEF HInv
<1>6. HeldTrue'
  <2>1. \A q \in Runner : Holds(q)' => SameLease(q, lease[q].call)
    BY <1>1, <1>4 DEF Release, Holds, SameLease
  <2> QED BY <2>1, HeldTrueKept
<1>7. SettledTrue'
  <2>1. \A s \in settled' : CallTrue(s.job, s.token, s.call)
    BY <1>2 DEF HInv, HeldTrue, SettledTrue, Request
  <2> QED BY <2>1 DEF SettledTrue, CallTrue, Written, Conflicts
<1> QED BY <1>2, <1>3, <1>5, <1>6, <1>7

LEMMA TrailGrows ==
  ASSUME TrailExact, NEW q, settled' = settled \cup {q},
         audit' = audit \cup {TrailRow(q)},
         \A k \in Job : job'[k].token = job[k].token
  PROVE  TrailExact'
<1> DEFINE new == TrailRow(q)
<1>1. new.batch = q.job /\ new.event \in SettleEvent
  BY DEF TrailRow, EventOf, SettleEvent
<1> SUFFICES ASSUME NEW k \in Job
             PROVE  ClaimsOf(k)' = ClaimsOf(k) /\ EndsOf(k)' = RowsOf(k)'
  BY DEF TrailExact
<1>2. {x \in audit' : x.batch = k /\ x.event = "claimed"}
        = {x \in audit : x.batch = k /\ x.event = "claimed"}
  BY <1>1 DEF SettleEvent
<1>3. EndsOf(k) = RowsOf(k) /\ ClaimsOf(k)' = ClaimsOf(k)
  BY <1>2 DEF TrailExact, ClaimsOf
<1>4. CASE k # q.job
  <2>1. EndsOf(k)' = EndsOf(k)
    BY <1>1, <1>4 DEF EndsOf
  <2>2. {y \in settled' : y.job = k} = {y \in settled : y.job = k}
    BY <1>4
  <2> QED BY <1>3, <2>1, <2>2 DEF RowsOf
<1>5. CASE k = q.job
  <2>1. EndsOf(k)' = EndsOf(k) \cup {new}
    BY <1>1, <1>5 DEF EndsOf
  <2>2. RowsOf(k)' = RowsOf(k) \cup {new}
    BY <1>5 DEF RowsOf
  <2> QED BY <1>3, <2>1, <2>2
<1> QED BY <1>4, <1>5

LEMMA HInvSettle ==
  ASSUME HInv, IInv', GInv', NEW r \in Runner, Holds(r),
         CommitStep(r) \/ ReplayStep(r),
         UNCHANGED <<review, graph>>,
         \/ /\ audit' = audit \cup {TrailRow(Request(r))}
            /\ Request(r) \in settled'
         \/ audit' = audit /\ settled' = settled
  PROVE  HInv'
<1>1. /\ settled' = settled \/ settled' = settled \cup {Request(r)}
      /\ \A k \in Job : job'[k].token = job[k].token
      /\ JobApproved' /\ HeldTrue' /\ SettledTrue'
  BY SettleKeeps
<1>2. AuditExact
  BY DEF HInv
<1>3. AuditExact'
  <2>1. CASE audit' = audit /\ settled' = settled
    BY <1>1, <1>2, <2>1 DEF AuditExact
  <2>2. CASE /\ audit' = audit \cup {TrailRow(Request(r))}
             /\ Request(r) \in settled'
    <3>1. settled' = settled \cup {Request(r)}
      BY <1>1, <2>2
    <3>2. TrailExact
      BY <1>2, TrailRows
    <3>3. TrailExact'
      BY <1>1, <2>2, <3>1, <3>2, TrailGrows
    <3> QED BY <3>3, TrailRows, PTL
  <2> QED BY <2>1, <2>2
<1> QED BY <1>1, <1>3 DEF HInv

(* Whom the row of a resting job answers that it was settled before, it    *)
(* was settled by.                                                         *)
LEMMA ReplayedRequest ==
  ASSUME HInv, NEW r \in Runner, Holds(r), CompletedBefore(r) \/ FailedBefore(r),
         lease[r].call.op \in {"complete", "fail"},
         FailedBefore(r) => lease[r].call.op = "fail"
  PROVE  Request(r) \in settled
<1>1. lease[r] \in Lease /\ lease[r].job \in Job /\ lease[r].call \in Call
  BY HeldApproved DEF Lease
<1>2. job[lease[r].job].status \in {"retry_wait", "succeeded", "failed_permanent"}
      /\ job[lease[r].job].token = lease[r].token
  BY DEF CompletedBefore, FailedBefore, FailStatus
<1>3. ~ /\ job[lease[r].job].status = "failed_permanent"
        /\ job[lease[r].job].code = LeaseExpired
  BY <1>1, CallTypes, JobsAssumption DEF CompletedBefore, FailedBefore
<1>4. PICK a \in settled : a.job = lease[r].job /\ a.token = job[lease[r].job].token
  BY <1>1, <1>2, <1>3 DEF HInv, IInv, RestingSettled
<1>5. a.call = lease[r].call
  BY <1>2, <1>4 DEF HInv, IInv, SettledByHolder
<1>6. a = Request(r)
  BY <1>2, <1>4, <1>5 DEF HInv, IInv, TypeOK, Settled, Request
<1> QED BY <1>4, <1>6

LEMMA HInvComplete ==
  ASSUME HInv, IInv', GInv', NEW r \in Runner, GraphComplete(r)
  PROVE  HInv'
<1>1. /\ Complete(r) /\ Holds(r) /\ lease[r].call.op = "complete"
      /\ UNCHANGED <<review, graph>>
  BY DEF GraphComplete, Complete
<1>2. lease[r].call \in Settlement /\ lease[r].call.code = Nil
  <2>1. lease[r].call \in Call
    BY <1>1, HeldApproved DEF Lease
  <2> QED BY <1>1, <2>1 DEF Call, Settlement, Executing, Completion, Failure, MakeCall
<1>3. TrailRow(Request(r)) = [batch |-> lease[r].job, event |-> "succeeded",
                              token |-> lease[r].token, code |-> Nil]
  BY <1>1, <1>2 DEF TrailRow, Request, EventOf
<1>4. CommitStep(r) \/ ReplayStep(r)
  BY <1>1, CompleteShape DEF HInv
<1>5. CASE Fenced(r) \/ CompletedBefore(r)
  <2>1. Request(r) \in settled'
    BY <1>1, <1>5, ReplayedRequest DEF Complete, FailedBefore, FailStatus, CompletedBefore
  <2> QED BY <1>1, <1>3, <1>4, <1>5, <2>1, HInvSettle DEF GraphComplete, Noted
<1>6. CASE ~(Fenced(r) \/ CompletedBefore(r))
  BY <1>1, <1>4, <1>6, HInvSettle DEF GraphComplete, Complete
<1> QED BY <1>5, <1>6

LEMMA HInvFail ==
  ASSUME HInv, IInv', GInv', NEW r \in Runner, NEW d \in 0..MaxRetryDelay,
         GraphFail(r, d)
  PROVE  HInv'
<1>1. /\ Fail(r, d) /\ Holds(r) /\ lease[r].call.op = "fail"
      /\ UNCHANGED <<review, graph>>
  BY DEF GraphFail, Fail
<1>2. FailEvent(r) = EventOf(Request(r))
  BY <1>1 DEF FailEvent, FailStatus, EventOf, Request, HInv, IInv, LeaseHistory
<1>3. TrailRow(Request(r)) = [batch |-> lease[r].job, event |-> FailEvent(r),
                              token |-> lease[r].token, code |-> lease[r].call.code]
  BY <1>2 DEF TrailRow, Request
<1>4. CommitStep(r) \/ ReplayStep(r)
  BY <1>1, FailShape DEF HInv
<1>5. CASE Fenced(r) \/ FailedBefore(r)
  <2>1. Request(r) \in settled'
    BY <1>1, <1>5, ReplayedRequest DEF Fail
  <2> QED BY <1>1, <1>3, <1>4, <1>5, <2>1, HInvSettle DEF GraphFail, Noted
<1>6. CASE ~(Fenced(r) \/ FailedBefore(r))
  BY <1>1, <1>4, <1>6, HInvSettle DEF GraphFail, Fail
<1> QED BY <1>5, <1>6

LEMMA HInvNext ==
  ASSUME HInv, [GraphNext]_allVars
  PROVE  HInv'
<1>1. IInv' /\ GInv'
  BY QueueStep, NextInv, GInvNext DEF HInv
<1>2. ASSUME NEW b \in Job, NEW d \in Decision, Decide(b, d) PROVE HInv'
  BY <1>1, <1>2, HInvDecide
<1>3. ASSUME NEW r \in Runner, NEW b \in Job, GraphClaim(r, b) PROVE HInv'
  BY <1>1, <1>3, HInvClaim
<1>4. ASSUME NEW r \in Runner, NEW d \in 0..MaxRetryDelay, GraphFail(r, d) PROVE HInv'
  BY <1>1, <1>4, HInvFail
<1>5. ASSUME NEW r \in Runner,
             LoadApprovedBatch(r) \/ RequireApproval(r) \/ WriteBatch(r) \/ GraphComplete(r)
      PROVE  HInv'
  BY <1>1, <1>5, HInvLoad, HInvWrite, HInvComplete
<1>6. ASSUME NEW r \in Runner,
             \/ GraphRenew(r) \/ GraphCrash(r)
             \/ ClaimNothing(r) /\ UNCHANGED graphVars
      PROVE  HInv'
  <2>1. \E q \in Runner :
          \/ GraphRenew(q) \/ GraphCrash(q)
          \/ ClaimNothing(q) /\ UNCHANGED graphVars
    BY <1>6
  <2> QED BY <1>1, <2>1, HInvQuiet
<1>7. CASE GraphTick \/ UNCHANGED allVars
  BY <1>1, <1>7, HInvQuiet
<1> QED BY <1>2, <1>3, <1>4, <1>5, <1>6, <1>7 DEF GraphNext

(* The histories agree with the rows, the calls at work and the graph.     *)
THEOREM GraphHistories == GraphSpec => []HInv
BY HInvInit, HInvNext, PTL DEF GraphSpec

(* The trail names every lease that was handed out and every settlement    *)
(* with its end, and nothing else, although answers are lost and calls are *)
(* repeated.                                                               *)
THEOREM TrailIsExact == GraphSpec => []AuditExact
BY GraphHistories, PTL DEF HInv

(* What is stored of a job is true of the graph, although commits are lost *)
(* and leases run out under the execution: "written" by whom it names, a   *)
(* success of what is there, a refusal of what is not.                     *)
THEOREM OutcomesAreTrue == GraphSpec => []WritesTruthful
<1>1. HInv => WritesTruthful
  <2> SUFFICES ASSUME HInv, NEW b \in Job
               PROVE  /\ job[b].status = "succeeded" =>
                           /\ Written(b)
                           /\ job[b].result = "written" =>
                                [batch |-> b, token |-> job[b].token] \in graph
                      /\ job[b].code \in Refusal => ~Written(b)
    BY DEF WritesTruthful, OutcomeTruthful, HInv, GInv
  <2>1. RowCheck(job[b]) /\ LeaseExpired \notin Refusal /\ Nil \notin Refusal
    BY JobsAssumption, GraphAssumption DEF HInv, IInv, RowValid, GraphCode
  <2>2. CASE job[b].status = "succeeded"
    <3>1. PICK a \in settled : a.job = b /\ a.token = job[b].token
      BY <2>2 DEF HInv, IInv, RestingSettled
    <3>2. a.call.op = "complete" /\ a.call.result = job[b].result
      BY <2>2, <3>1 DEF HInv, IInv, SettledStands, Stands, Shows, FailOutcome
    <3>3. CallTrue(a.job, a.token, a.call)
      BY DEF HInv, SettledTrue
    <3>4. job[b].code = Nil
      BY <2>1, <2>2 DEF RowCheck
    <3> QED BY <2>1, <3>1, <3>2, <3>3, <3>4 DEF CallTrue
  <2>3. CASE job[b].status # "succeeded" /\ job[b].code \in Refusal
    <3>1. job[b].status \in {"retry_wait", "failed_permanent"}
      BY <2>1, <2>3 DEF RowCheck
    <3>2. PICK a \in settled : a.job = b /\ a.token = job[b].token
      BY <2>1, <2>3, <3>1 DEF HInv, IInv, RestingSettled
    <3>3. a.call.op = "fail" /\ a.call.code = job[b].code
      BY <3>1, <3>2 DEF HInv, IInv, SettledStands, Stands, Shows
    <3>4. Conflicts(b)
      BY <2>3, <3>2, <3>3 DEF HInv, SettledTrue, CallTrue
    <3> QED BY <2>3, <3>4 DEF Written, HInv, GInv, ReviewGate
  <2> QED BY <2>2, <2>3
<1> QED BY <1>1, GraphHistories, PTL
===============================================================================
