------------------------------ MODULE CanaryRuns ------------------------------
(***************************************************************************)
(* KnowledgeCanaryService over PostgresCanaryRunRepository, for one run:   *)
(* calls of run_metadata, run_single_pdf and run_small_batch look for a    *)
(* stored success, claim the stage, check that the stage before it has     *)
(* succeeded, do the work and write how it ended.  Between any two of      *)
(* these the database is free for other calls.                             *)
(*                                                                         *)
(* A request is what the claim pins: fingerprint, sources and approval.    *)
(* The work itself (manifest ingestion or the ingestion of the approved    *)
(* sources, one after the other) is one step with any of its outcomes.     *)
(*                                                                         *)
(* An operator whose name ends in _AnyRecord or the like is a faulty       *)
(* variant of the one below it; no action uses it.                         *)
(***************************************************************************)
EXTENDS Naturals

CONSTANTS
  Caller,      \* service calls in progress at one time
  Request,
  Enabled,     \* stages up to policy.max_enabled_stage
  MaxAttempt,  \* _MAX_CANARY_ATTEMPT
  Nil

Stage == {"metadata_only", "single_pdf", "small_batch"}
Prerequisite(s) ==
  CASE s = "single_pdf" -> "metadata_only"
    [] s = "small_batch" -> "single_pdf"
    [] OTHER -> Nil

(* Blocked, failed and cancelled are told apart by people only.            *)
Outcome == {"succeeded", "unsuccessful"}

Record == [status : {"running"} \cup Outcome, attempt : 1..MaxAttempt, request : Request]
MakeRecord(status, attempt, request) ==
  [status |-> status, attempt |-> attempt, request |-> request]

ASSUME CanaryAssumption ==
  /\ "metadata_only" \in Enabled
  /\ Enabled \subseteq Stage
  /\ MaxAttempt \in Nat \ {0}
  /\ Nil \notin Stage \cup Request \cup Outcome \cup Record

VARIABLES
  record,     \* record[s]: the row of knowledge_canary_runs
  call,       \* call[c]: a call of the service
  succeeded,  \* history: stages that were stored as succeeded
  answers     \* history: results of finished attempts

vars == <<record, call, succeeded, answers>>

At == {"idle", "cached", "begin", "check", "work", "finish"}
MakeCall(at, stage, request, attempt, outcome) ==
  [at |-> at, stage |-> stage, request |-> request, attempt |-> attempt,
   outcome |-> outcome]
NoCall == MakeCall("idle", Nil, Nil, 0, Nil)

(* A call that has claimed its stage and not written its end.              *)
AtWork(c) == call[c].at \in {"check", "work", "finish"}

TypeOK ==
  /\ record \in [Stage -> Record \cup {Nil}]
  /\ DOMAIN call = Caller
  /\ \A c \in Caller :
       \/ call[c] = NoCall
       \/ /\ call[c] \in [at : At \ {"idle"}, stage : Stage, request : Request,
                          attempt : 0..MaxAttempt, outcome : Outcome \cup {Nil}]
          /\ AtWork(c) => call[c].attempt > 0
          /\ call[c].at = "finish" => call[c].outcome # Nil
  /\ succeeded \subseteq Stage
  /\ answers \subseteq [stage : Stage, record : {r \in Record : r.status # "running"}]

Init ==
  /\ record = [s \in Stage |-> Nil]
  /\ call = [c \in Caller |-> NoCall]
  /\ succeeded = {}
  /\ answers = {}

-------------------------------------------------------------------------------
Moves(c, at, attempt, outcome) ==
  call' = [call EXCEPT ![c] =
    MakeCall(at, call[c].stage, call[c].request, attempt, outcome)]

Finishes(c, outcome) == Moves(c, "finish", call[c].attempt, outcome)

(* The call returns or raises; a refusal carries no attempt.               *)
Ends(c) == call' = [call EXCEPT ![c] = NoCall]
Refused(c) == Ends(c) /\ UNCHANGED answers
Answered(c, r) ==
  /\ Ends(c)
  /\ answers' = answers \cup {[stage |-> call[c].stage, record |-> r]}

Start(c, s, q) ==
  /\ call[c] = NoCall
  /\ call' = [call EXCEPT ![c] = MakeCall("cached", s, q, 0, Nil)]
  /\ UNCHANGED <<record, succeeded, answers>>

Success(r) == r # Nil /\ r.status = "succeeded"

(* A stored success is the answer, if it is for the same request.          *)
CachedSuccess(c) ==
  /\ call[c].at = "cached"
  /\ LET r == record[call[c].stage] IN
     \/ /\ Success(r)
        /\ \/ r.request = call[c].request /\ Answered(c, r)
           \/ r.request # call[c].request /\ Refused(c)
     \/ /\ ~Success(r)
        /\ Moves(c, "begin", 0, Nil)
        /\ UNCHANGED answers
  /\ UNCHANGED <<record, succeeded>>

(* The claim: refused for another request, for a stage that is running and *)
(* at the last attempt; anything else starts the stage, or starts it again.*)
Startable_EvenRunning(r, q) == r # Nil => r.request = q /\ r.attempt < MaxAttempt
Startable(r, q) ==
  \/ r = Nil
  \/ r # Nil /\ r.request = q /\ r.status # "running" /\ r.attempt < MaxAttempt

Claimed(r, q) == MakeRecord("running", IF r = Nil THEN 1 ELSE r.attempt + 1, q)

Begin(c) ==
  /\ call[c].at = "begin"
  /\ LET r == record[call[c].stage]
         new == Claimed(r, call[c].request)
     IN
     \/ /\ Startable(r, call[c].request)
        /\ record' = [record EXCEPT ![call[c].stage] = new]
        /\ \/ Moves(c, "check", new.attempt, Nil)
           \/ Ends(c)    \* canary_state_write_failed: the answer is lost
     \/ ~Startable(r, call[c].request) /\ Ends(c) /\ UNCHANGED record
  /\ UNCHANGED <<succeeded, answers>>

(* The checks before the work; approval and selection may fail as well.    *)
Satisfied_AnyRecord(s) == Prerequisite(s) # Nil => record[Prerequisite(s)] # Nil
Satisfied(s) ==
  Prerequisite(s) # Nil => Success(record[Prerequisite(s)])

Check(c) ==
  /\ call[c].at = "check"
  /\ \/ /\ call[c].stage \in Enabled
        /\ Satisfied(call[c].stage)
        /\ Moves(c, "work", call[c].attempt, Nil)
     \/ Finishes(c, "unsuccessful")
  /\ UNCHANGED <<record, succeeded, answers>>

(* Admission may be denied, the work may fail or be cancelled.             *)
Work(c) ==
  /\ call[c].at = "work"
  /\ \E outcome \in Outcome : Finishes(c, outcome)
  /\ UNCHANGED <<record, succeeded, answers>>

(* The end is written by compare-and-swap on the attempt.                  *)
Fits(r, c) ==
  /\ r # Nil
  /\ r.attempt = call[c].attempt
  /\ r.status = "running"
  /\ r.request = call[c].request

Ended(c) == MakeRecord(call[c].outcome, call[c].attempt, call[c].request)

Written(c) ==
  /\ record' = [record EXCEPT ![call[c].stage] = Ended(c)]
  /\ succeeded' = IF call[c].outcome = "succeeded"
                    THEN succeeded \cup {call[c].stage} ELSE succeeded

Finish(c) ==
  /\ call[c].at = "finish"
  /\ LET r == record[call[c].stage] IN
     \/ Fits(r, c) /\ Written(c) /\ (Answered(c, Ended(c)) \/ Refused(c))
     \/ r = Ended(c) /\ Answered(c, r) /\ UNCHANGED <<record, succeeded>>
     \/ ~Fits(r, c) /\ r # Ended(c) /\ Refused(c) /\ UNCHANGED <<record, succeeded>>

(* The caller dies, is cancelled while it waits for the database, or gets  *)
(* an error from it: the read or write did not happen.                     *)
Crash(c) ==
  /\ call[c] # NoCall
  /\ Refused(c)
  /\ UNCHANGED <<record, succeeded>>

Next ==
  \/ \E c \in Caller, s \in Stage, q \in Request : Start(c, s, q)
  \/ \E c \in Caller : CachedSuccess(c)
  \/ \E c \in Caller : Begin(c)
  \/ \E c \in Caller : Check(c)
  \/ \E c \in Caller : Work(c)
  \/ \E c \in Caller : Finish(c)
  \/ \E c \in Caller : Crash(c)

Spec == Init /\ [][Next]_vars

-------------------------------------------------------------------------------
(* Properties.                                                             *)

(* A stage is worked on by one call at a time, and that call holds the     *)
(* current attempt: whoever starts it again fences nobody who still works. *)
ClaimExclusive ==
  \A c \in Caller : AtWork(c) =>
    /\ record[call[c].stage] = MakeRecord("running", call[c].attempt, call[c].request)
    /\ \A d \in Caller : AtWork(d) /\ call[d].stage = call[c].stage => d = c

(* No stage succeeds, or is worked on, before the one it depends on has    *)
(* succeeded, whatever runs at the same time.                              *)
StagesInOrder ==
  \A s \in Stage :
    /\ \/ s \in succeeded
       \/ \E c \in Caller : call[c].at = "work" /\ call[c].stage = s
    /\ Prerequisite(s) # Nil
    => Prerequisite(s) \in succeeded

(* A result that was returned is what is stored, until the stage is        *)
(* started again under a later attempt.                                    *)
AnswersStand ==
  \A a \in answers :
    /\ record[a.stage] # Nil
    /\ \/ record[a.stage] = a.record
       \/ record[a.stage].attempt > a.record.attempt

(* What a call is told or holds is the record: calls that overlap neither  *)
(* share a stage nor undo each other's results.                            *)
ClaimsStand == ClaimExclusive /\ AnswersStand

(* A stage that is stored as running is being worked on: a crash or a lost *)
(* answer leaves nothing that a retry could not take up again.             *)
(* CanaryStageRecord: "Durable, provider-free canary state used for retry  *)
(* and resume."                                                            *)
RunningIsAtWork ==
  \A s \in Stage :
    record[s] # Nil /\ record[s].status = "running" =>
      \E c \in Caller : AtWork(c) /\ call[c].stage = s
===============================================================================
