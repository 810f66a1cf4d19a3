--------------------------- MODULE CanaryRunsProofs ---------------------------
(***************************************************************************)
(* Proofs about staged canary runs, for any number of callers, requests    *)
(* and attempts.                                                           *)
(***************************************************************************)
EXTENDS CanaryRuns, TLAPS

(* A stored success was noted, and only a call whose prerequisite has      *)
(* succeeded can store one.                                                *)
Noted == \A s \in Stage : Success(record[s]) => s \in succeeded

Entitled(c) ==
  \/ call[c].at = "work"
  \/ call[c].at = "finish" /\ call[c].outcome = "succeeded"

Ready(s) == Prerequisite(s) # Nil => Prerequisite(s) \in succeeded

Ordered ==
  /\ \A s \in succeeded : Ready(s)
  /\ \A c \in Caller : Entitled(c) => Ready(call[c].stage)

IInv == TypeOK /\ ClaimExclusive /\ AnswersStand /\ Noted /\ Ordered

(* A call's claim, apart from the other calls'.                            *)
Holds(c) ==
  record[call[c].stage] = MakeRecord("running", call[c].attempt, call[c].request)

CallOK(c) ==
  \/ call[c] = NoCall
  \/ /\ call[c] \in [at : At \ {"idle"}, stage : Stage, request : Request,
                     attempt : 0..MaxAttempt, outcome : Outcome \cup {Nil}]
     /\ AtWork(c) => call[c].attempt > 0
     /\ call[c].at = "finish" => call[c].outcome # Nil

LEMMA TypeByCall ==
  TypeOK <=> /\ record \in [Stage -> Record \cup {Nil}]
             /\ DOMAIN call = Caller
             /\ \A c \in Caller : CallOK(c)
             /\ succeeded \subseteq Stage
             /\ answers \subseteq [stage : Stage, record : {r \in Record : r.status # "running"}]
BY DEF TypeOK, CallOK

LEMMA RecordFields ==
  ASSUME NEW r \in Record
  PROVE  /\ r.status \in {"running"} \cup Outcome
         /\ r.attempt \in 1..MaxAttempt /\ r.attempt \in Nat
         /\ r.request \in Request
BY CanaryAssumption DEF Record

(* A call that moves within its claim or ends, while the table stays.      *)
LEMMA CallMoves ==
  ASSUME IInv, NEW c \in Caller, NEW k, call' = [call EXCEPT ![c] = k],
         UNCHANGED <<record, succeeded, answers>>,
         CallOK(c)',
         AtWork(c)' => /\ AtWork(c) /\ k.stage = call[c].stage
                       /\ k.attempt = call[c].attempt /\ k.request = call[c].request,
         Entitled(c)' => Ready(k.stage)
  PROVE  IInv'
<1> USE DEF IInv
<1>1. /\ DOMAIN call' = Caller /\ call'[c] = k
      /\ \A d \in Caller : d # c => call'[d] = call[d]
  BY DEF TypeOK
<1>2. TypeOK'
  <2>1. \A d \in Caller : CallOK(d)'
    BY <1>1, TypeByCall DEF CallOK, AtWork
  <2> QED BY <1>1, <2>1 DEF TypeOK, CallOK
<1>3. ClaimExclusive'
  BY <1>1 DEF ClaimExclusive, AtWork
<1>4. AnswersStand' /\ Noted'
  BY DEF AnswersStand, Noted, Success
<1>5. Ordered'
  BY <1>1 DEF Ordered, Entitled, Ready
<1> QED
  BY <1>2, <1>3, <1>4, <1>5

(* A row that is replaced, by the call that may do so.                     *)
LEMMA RowReplaced ==
  ASSUME IInv, NEW s \in Stage, NEW r \in Record,
         record' = [record EXCEPT ![s] = r],
         record[s] = Nil \/ \/ r.attempt > record[s].attempt
                           \/ /\ record[s].status = "running"
                              /\ r.attempt >= record[s].attempt,
         answers' \in {answers, answers \cup {[stage |-> s, record |-> r]}}
  PROVE  AnswersStand'
<1> USE DEF IInv
<1>1. /\ record \in [Stage -> Record \cup {Nil}]
      /\ \A a \in answers : /\ a.stage \in Stage /\ a.record \in Record
                            /\ a.record.status # "running"
  BY DEF TypeOK
<1>2. record'[s] = r /\ r # Nil /\ \A q \in Stage : q # s => record'[q] = record[q]
  BY <1>1, CanaryAssumption
<1> SUFFICES ASSUME NEW a \in answers'
             PROVE  /\ record'[a.stage] # Nil
                    /\ \/ record'[a.stage] = a.record
                       \/ record'[a.stage].attempt > a.record.attempt
  BY DEF AnswersStand
<1>3. CASE a = [stage |-> s, record |-> r]
  BY <1>2, <1>3
<1>4. CASE a \in answers /\ a.stage # s
  BY <1>1, <1>2, <1>4 DEF AnswersStand
<1>5. CASE a \in answers /\ a.stage = s
  BY <1>1, <1>2, <1>5, RecordFields DEF AnswersStand
<1> QED
  BY <1>3, <1>4, <1>5

-------------------------------------------------------------------------------
(* The inductive step, action by action.                                   *)

LEMMA StepKeeps ==
  ASSUME IInv, [Next]_vars
  PROVE  IInv'
<1> USE DEF IInv
<1>0. /\ record \in [Stage -> Record \cup {Nil}] /\ DOMAIN call = Caller
      /\ \A c \in Caller : CallOK(c)
  BY TypeByCall
<1>a. ASSUME NEW c \in Caller, call[c].at # "idle"
      PROVE  /\ call[c].stage \in Stage /\ call[c].request \in Request
             /\ call[c].attempt \in 0..MaxAttempt /\ call[c].outcome \in Outcome \cup {Nil}
  BY <1>0, <1>a DEF CallOK, NoCall, MakeCall
<1>b. ASSUME NEW c \in Caller, Ends(c), UNCHANGED <<record, succeeded, answers>> PROVE IInv'
  <2>1. call'[c] = NoCall
    BY <1>0, <1>b DEF Ends
  <2>2. CallOK(c)' /\ ~AtWork(c)' /\ ~Entitled(c)'
    BY <2>1 DEF CallOK, AtWork, Entitled, NoCall, MakeCall
  <2> QED BY <1>b, <2>2, CallMoves DEF Ends
<1>c. ASSUME NEW c \in Caller, NEW at, NEW outcome \in Outcome \cup {Nil}, AtWork(c),
             at \in {"work", "finish"}, at = "finish" => outcome # Nil,
             Moves(c, at, call[c].attempt, outcome), UNCHANGED <<record, succeeded, answers>>,
             (at = "work" \/ outcome = "succeeded") => Ready(call[c].stage)
      PROVE  IInv'
  <2> DEFINE k == MakeCall(at, call[c].stage, call[c].request, call[c].attempt, outcome)
  <2>1. call' = [call EXCEPT ![c] = k] /\ call'[c] = k
    BY <1>0, <1>c DEF Moves
  <2>2. call[c].at # "idle" /\ call[c].attempt > 0
    BY <1>0, <1>c DEF AtWork, CallOK, NoCall, MakeCall
  <2>3. CallOK(c)'
    BY <1>a, <1>c, <2>1, <2>2 DEF CallOK, AtWork, MakeCall, At
  <2>4. /\ k.stage = call[c].stage /\ k.attempt = call[c].attempt
        /\ k.request = call[c].request
    BY DEF MakeCall
  <2>5. Entitled(c)' => Ready(k.stage)
    BY <1>c, <2>1 DEF Entitled, MakeCall
  <2> HIDE DEF k
  <2> QED BY <1>c, <2>1, <2>3, <2>4, <2>5, CallMoves
<1>1. ASSUME NEW c \in Caller, NEW s \in Stage, NEW q \in Request, Start(c, s, q) PROVE IInv'
  <2> DEFINE k == MakeCall("cached", s, q, 0, Nil)
  <2>1. call' = [call EXCEPT ![c] = k] /\ call'[c] = k
    BY <1>0, <1>1 DEF Start
  <2>2. CallOK(c)' /\ ~AtWork(c)' /\ ~Entitled(c)'
    BY <2>1, CanaryAssumption DEF CallOK, AtWork, Entitled, MakeCall, At
  <2> HIDE DEF k
  <2> QED BY <1>1, <2>1, <2>2, CallMoves DEF Start
<1>2. ASSUME NEW c \in Caller, CachedSuccess(c) PROVE IInv'
  <2> DEFINE r == record[call[c].stage]
  <2>1. call[c].at = "cached" /\ UNCHANGED <<record, succeeded>>
    BY <1>2 DEF CachedSuccess
  <2>2. call[c].stage \in Stage
    BY <1>a, <2>1
  <2>3. CASE Refused(c)
    BY <1>b, <2>1, <2>3 DEF Refused
  <2>4. CASE Success(r) /\ Answered(c, r)
    <3> DEFINE new == [stage |-> call[c].stage, record |-> r]
    <3>1. r \in Record /\ r.status = "succeeded"
      BY <1>0, <2>2, <2>4 DEF Success
    <3>2. AnswersStand'
      BY <2>1, <2>2, <2>4, <3>1, CanaryAssumption DEF Answered, AnswersStand
    <3>3. answers' \subseteq [stage : Stage, record : {x \in Record : x.status # "running"}]
      BY <2>2, <2>4, <3>1 DEF Answered, TypeOK
    <3>4. call'[c] = NoCall /\ \A d \in Caller : d # c => call'[d] = call[d]
      BY <1>0, <2>4 DEF Answered, Ends
    <3>5. DOMAIN call' = Caller /\ \A d \in Caller : CallOK(d)'
      BY <1>0, <2>4, <3>4 DEF CallOK, AtWork, Answered, Ends
    <3>6. TypeOK'
      BY <1>0, <2>1, <3>3, <3>5 DEF TypeOK, CallOK
    <3>7. ClaimExclusive' /\ Ordered' /\ Noted'
      BY <2>1, <3>4 DEF ClaimExclusive, AtWork, Ordered, Entitled, Ready, Noted, Success,
                        NoCall, MakeCall
    <3> QED BY <3>2, <3>6, <3>7
  <2>5. CASE Moves(c, "begin", 0, Nil) /\ UNCHANGED answers
    <3> DEFINE k == MakeCall("begin", call[c].stage, call[c].request, 0, Nil)
    <3>1. call' = [call EXCEPT ![c] = k] /\ call'[c] = k
      BY <1>0, <2>5 DEF Moves
    <3>2. CallOK(c)' /\ ~AtWork(c)' /\ ~Entitled(c)'
      BY <1>a, <2>1, <3>1, CanaryAssumption DEF CallOK, AtWork, Entitled, MakeCall, At
    <3> HIDE DEF k
    <3> QED BY <2>1, <2>5, <3>1, <3>2, CallMoves
  <2> QED BY <1>2, <2>3, <2>4, <2>5 DEF CachedSuccess
<1>3. ASSUME NEW c \in Caller, Begin(c) PROVE IInv'
  <2> DEFINE s == call[c].stage
             q == call[c].request
             new == Claimed(record[s], q)
  <2>1. call[c].at = "begin" /\ UNCHANGED <<succeeded, answers>>
    BY <1>3 DEF Begin
  <2>2. s \in Stage /\ q \in Request
    BY <1>a, <2>1
  <2>3. CASE Ends(c) /\ UNCHANGED record
    BY <1>b, <2>1, <2>3
  <2>4. CASE /\ Startable(record[s], q)
             /\ record' = [record EXCEPT ![s] = new]
             /\ Moves(c, "check", new.attempt, Nil) \/ Ends(c)
    <3>1. new = MakeRecord("running", new.attempt, q) /\ new \in Record /\ new.attempt > 0
      BY <1>0, <2>2, <2>4, RecordFields, CanaryAssumption
         DEF Startable, Claimed, MakeRecord, Record
    <3>2. record[s] = Nil \/ (new.attempt > record[s].attempt /\ record[s].status # "running")
      BY <1>0, <2>2, <2>4, RecordFields DEF Startable, Claimed, MakeRecord
    <3>3. record'[s] = new /\ \A t \in Stage : t # s => record'[t] = record[t]
      BY <1>0, <2>2, <2>4
    <3>4. \A d \in Caller : AtWork(d) => call[d].stage # s
      <4>1. ASSUME NEW d \in Caller, AtWork(d), call[d].stage = s PROVE FALSE
        <5>1. record[s] = MakeRecord("running", call[d].attempt, call[d].request)
          BY <4>1 DEF ClaimExclusive
        <5>2. record[s].status = "running"
          BY <5>1 DEF MakeRecord
        <5>3. call[d].attempt \in 1..MaxAttempt /\ call[d].request \in Request
          BY <1>0, <1>a, <4>1 DEF CallOK, AtWork, NoCall, MakeCall
        <5>4. record[s] \in Record
          BY <5>1, <5>3 DEF MakeRecord, Record
        <5> QED BY <3>2, <5>2, <5>4, CanaryAssumption
      <4> QED BY <4>1
    <3>5. /\ \A d \in Caller : d # c => call'[d] = call[d]
          /\ DOMAIN call' = Caller
          /\ call'[c] \in {NoCall, MakeCall("check", s, q, new.attempt, Nil)}
      BY <1>0, <2>4 DEF Moves, Ends
    <3>6. CallOK(c)'
      BY <2>2, <3>1, <3>5, RecordFields DEF CallOK, AtWork, MakeCall, At, Record
    <3>7. record' \in [Stage -> Record \cup {Nil}]
      BY <1>0, <2>2, <2>4, <3>1
    <3>8. TypeOK'
      <4>1. \A d \in Caller : CallOK(d)'
        BY <1>0, <3>5, <3>6 DEF CallOK, AtWork
      <4> QED BY <2>1, <3>5, <3>7, <4>1 DEF TypeOK, CallOK
    <3>9. ClaimExclusive'
      <4>1. ASSUME NEW d \in Caller, d # c, AtWork(d)'
            PROVE  /\ AtWork(d) /\ call'[d] = call[d] /\ call[d].stage \in Stage
                   /\ record'[call[d].stage] = record[call[d].stage] /\ call[d].stage # s
        BY <1>a, <3>3, <3>4, <3>5, <4>1 DEF AtWork
      <4>2. AtWork(c)' => /\ call'[c].stage = s
                          /\ record'[s] = MakeRecord("running", call'[c].attempt, call'[c].request)
        <5> HIDE DEF new
        <5> QED BY <3>1, <3>3, <3>5 DEF AtWork, NoCall, MakeCall
      <4> QED BY <4>1, <4>2 DEF ClaimExclusive
    <3>10. AnswersStand'
      BY <2>1, <2>2, <2>4, <3>1, <3>2, RowReplaced
    <3>11. Noted'
      <4>1. new.status = "running"
        BY DEF Claimed, MakeRecord
      <4> HIDE DEF new
      <4> QED BY <2>1, <3>3, <4>1 DEF Noted, Success
    <3>12. Ordered'
      BY <2>1, <3>5 DEF Ordered, Entitled, Ready, NoCall, MakeCall
    <3> QED BY <3>8, <3>9, <3>10, <3>11, <3>12
  <2> QED BY <1>3, <2>3, <2>4 DEF Begin
<1>4. ASSUME NEW c \in Caller, Check(c) PROVE IInv'
  <2>1. AtWork(c) /\ call[c].at # "idle" /\ UNCHANGED <<record, succeeded, answers>>
    BY <1>4 DEF Check, AtWork
  <2>2. CASE Satisfied(call[c].stage) /\ Moves(c, "work", call[c].attempt, Nil)
    <3>1. Ready(call[c].stage)
      BY <1>a, <2>1, <2>2 DEF Satisfied, Ready, Noted, Prerequisite, Stage
    <3> QED BY <1>c, <2>1, <2>2, <3>1
  <2>3. CASE Finishes(c, "unsuccessful")
    <3>1. "unsuccessful" \in Outcome /\ "unsuccessful" # Nil
      BY CanaryAssumption DEF Outcome
    <3> QED BY <1>c, <2>1, <2>3, <3>1 DEF Finishes
  <2> QED BY <1>4, <2>2, <2>3 DEF Check
<1>5. ASSUME NEW c \in Caller, Work(c) PROVE IInv'
  <2>1. AtWork(c) /\ UNCHANGED <<record, succeeded, answers>> /\ Ready(call[c].stage)
    BY <1>5 DEF Work, AtWork, Ordered, Entitled
  <2>2. PICK outcome \in Outcome : Finishes(c, outcome)
    BY <1>5 DEF Work
  <2>3. outcome # Nil
    BY CanaryAssumption
  <2> QED BY <1>c, <2>1, <2>2, <2>3 DEF Finishes
<1>6. ASSUME NEW c \in Caller, Finish(c) PROVE IInv'
  <2> DEFINE s == call[c].stage
             new == Ended(c)
  <2>1. call[c].at = "finish" /\ AtWork(c) /\ s \in Stage
    BY <1>6, <1>a DEF Finish, AtWork
  <2>2. /\ new \in Record /\ new.status = call[c].outcome /\ new.status # "running"
        /\ new.attempt = call[c].attempt /\ new.request = call[c].request
    BY <1>0, <1>a, <2>1, CanaryAssumption DEF CallOK, AtWork, Ended, MakeRecord, Record, Outcome,
       NoCall, MakeCall
  <2>3. record[s] = MakeRecord("running", call[c].attempt, call[c].request)
    BY <2>1 DEF ClaimExclusive
  <2>4. record[s] # new
    BY <2>2, <2>3 DEF MakeRecord
  <2>5. CASE Refused(c) /\ UNCHANGED <<record, succeeded>>
    BY <1>b, <2>5 DEF Refused
  <2>6. CASE Written(c) /\ (Answered(c, new) \/ Refused(c))
    <3>1. /\ Ends(c) /\ record' = [record EXCEPT ![s] = new]
          /\ answers' \in {answers, answers \cup {[stage |-> s, record |-> new]}}
          /\ succeeded' = IF call[c].outcome = "succeeded" THEN succeeded \cup {s}
                                                           ELSE succeeded
      BY <2>6 DEF Written, Answered, Refused
    <3> HIDE DEF new
    <3>2. record'[s] = new /\ \A t \in Stage : t # s => record'[t] = record[t]
      BY <1>0, <2>1, <3>1
    <3>3. /\ call'[c] = NoCall /\ DOMAIN call' = Caller
          /\ \A d \in Caller : d # c => call'[d] = call[d]
      BY <1>0, <3>1 DEF Ends
    <3>4. TypeOK'
      <4>1. \A d \in Caller : CallOK(d)'
        BY <1>0, <3>3 DEF CallOK, AtWork
      <4>2. answers' \subseteq [stage : Stage, record : {x \in Record : x.status # "running"}]
        BY <2>1, <2>2, <3>1 DEF TypeOK
      <4>3. record' \in [Stage -> Record \cup {Nil}] /\ succeeded' \subseteq Stage
        BY <1>0, <2>1, <2>2, <3>1 DEF TypeOK
      <4> QED BY <3>3, <4>1, <4>2, <4>3 DEF TypeOK, CallOK
    <3>5. ClaimExclusive'
      <4>1. ASSUME NEW d \in Caller, AtWork(d)'
            PROVE  /\ d # c /\ AtWork(d) /\ call'[d] = call[d]
                   /\ call[d].stage \in Stage /\ call[d].stage # s
        BY <1>a, <2>1, <3>3, <4>1 DEF AtWork, NoCall, MakeCall, ClaimExclusive
      <4>2. ASSUME NEW d \in Caller, AtWork(d)'
            PROVE  record'[call'[d].stage] =
                     MakeRecord("running", call'[d].attempt, call'[d].request)
        <5>1. record[call[d].stage] = MakeRecord("running", call[d].attempt, call[d].request)
          BY <4>1, <4>2 DEF ClaimExclusive
        <5> QED BY <3>2, <4>1, <4>2, <5>1
      <4>3. ASSUME NEW d \in Caller, NEW e \in Caller, AtWork(d)', AtWork(e)',
                   call'[e].stage = call'[d].stage
            PROVE  e = d
        BY <4>1, <4>3 DEF ClaimExclusive
      <4> QED BY <4>2, <4>3 DEF ClaimExclusive
    <3>6. AnswersStand'
      <4>1. record[s].status = "running" /\ new.attempt >= record[s].attempt
        BY <2>2, <2>3, RecordFields DEF MakeRecord
      <4> QED BY <2>1, <2>2, <3>1, <4>1, RowReplaced
    <3>7. Noted'
      BY <2>2, <3>1, <3>2 DEF Noted, Success
    <3>8. Ordered'
      <4>1. call[c].outcome = "succeeded" => Ready(s)
        BY <2>1 DEF Ordered, Entitled
      <4>2. \A d \in Caller : Entitled(d)' => d # c /\ Entitled(d) /\ call'[d] = call[d]
        BY <3>3 DEF Entitled, NoCall, MakeCall
      <4> QED BY <3>1, <4>1, <4>2 DEF Ordered, Ready
    <3> QED BY <3>4, <3>5, <3>6, <3>7, <3>8
  <2> QED BY <1>6, <2>4, <2>5, <2>6 DEF Finish
<1>7. ASSUME NEW c \in Caller, Crash(c) PROVE IInv'
  BY <1>7, <1>b DEF Crash, Refused
<1>8. ASSUME UNCHANGED vars PROVE IInv'
  BY <1>8 DEF vars, TypeOK, ClaimExclusive, AtWork, AnswersStand, Noted, Success, Ordered,
              Entitled, Ready
<1> QED
  BY <1>1, <1>2, <1>3, <1>4, <1>5, <1>6, <1>7, <1>8 DEF Next

(* The inductive invariant.                                                *)
THEOREM Invariance == Spec => []IInv
<1>1. Init => IInv
  BY DEF Init, IInv, TypeOK, ClaimExclusive, AtWork, AnswersStand, Noted, Success, Ordered,
         Entitled, NoCall, MakeCall
<1>2. IInv /\ [Next]_vars => IInv'
  BY StepKeeps
<1> QED
  BY <1>1, <1>2, PTL DEF Spec

(* Records, calls and answers stay well formed.                            *)
THEOREM TypeCorrect == Spec => []TypeOK
BY Invariance, PTL DEF IInv

(* One call works on a stage at a time, under the current attempt.         *)
THEOREM ClaimsExclusive == Spec => []ClaimExclusive
BY Invariance, PTL DEF IInv

(* No stage is worked on before the one it depends on has succeeded.       *)
THEOREM OrderKept == Spec => []StagesInOrder
<1>1. IInv => StagesInOrder
  BY DEF IInv, Ordered, Entitled, Ready, StagesInOrder
<1> QED
  BY <1>1, Invariance, PTL

(* A returned result is what is stored until a later attempt.              *)
THEOREM ResultsStand == Spec => []AnswersStand
BY Invariance, PTL DEF IInv

(* A claim is exclusive, and what was returned under it stands.            *)
THEOREM ClaimsSafe == Spec => []ClaimsStand
BY ClaimsExclusive, ResultsStand, PTL DEF ClaimsStand
===============================================================================
