------------------------- MODULE FactExtractionProofs -------------------------
(***************************************************************************)
(* Proofs about fact extraction, for any number of workers, contents,      *)
(* batches and attempts.                                                   *)
(***************************************************************************)
EXTENDS FactExtraction, TLAPS

(* What was told is the verdict of the stored checkpoint.                  *)
ToldStands ==
  \A v \in told : /\ checkpoint # Nil
                  /\ checkpoint.status \in Decided
                  /\ v = VerdictOf(checkpoint)

IInv == TypeOK /\ Charged /\ ToldStands

-------------------------------------------------------------------------------
(* Lemmas about checkpoints.                                               *)

(* The model validator's conditions, field by field.                       *)
LEMMA CheckpointFields ==
  ASSUME NEW c \in Checkpoint
  PROVE  /\ c.content \in Content
         /\ c.status \in Status
         /\ c.attempts \in 1..MaxAttempts
         /\ c.batch \in Batch \cup {Nil}
         /\ c.code \in Code \cup {Nil}
         /\ c.batch # Nil <=> c.status = "completed"
         /\ c.code # Nil <=> c.status \in {"retry_wait", "failed_permanent"}
         /\ VerdictOf(c) \in Verdict
         /\ c # Nil
BY ExtractionAssumption DEF Checkpoint, VerdictOf, Verdict

(* A checkpoint that a call makes is well formed if its parts fit.         *)
LEMMA MadeChecks ==
  ASSUME NEW w \in Worker, call[w].content \in Content,
         NEW status \in Status, NEW n \in 1..MaxAttempts,
         NEW batch \in Batch \cup {Nil}, NEW code \in Code \cup {Nil},
         batch # Nil <=> status = "completed",
         code # Nil <=> status \in {"retry_wait", "failed_permanent"}
  PROVE  Made(w, status, n, batch, code) \in Checkpoint
BY DEF Made, Checkpoint

(* What replaces a checkpoint has no fewer attempts, and nothing replaces  *)
(* a verdict.                                                              *)
LEMMA AcceptedGrows ==
  ASSUME NEW c \in Checkpoint, checkpoint \in Checkpoint, Accepted(c)
  PROVE  /\ c.attempts >= checkpoint.attempts
         /\ checkpoint.status \in Decided => c = checkpoint
<1>1. checkpoint # Nil /\ checkpoint.attempts \in Nat /\ c.attempts \in Nat
  BY CheckpointFields
<1>2. ValidTransition(checkpoint, c)
  BY <1>1 DEF Accepted
<1> QED
  BY <1>1, <1>2 DEF ValidTransition, Decided

-------------------------------------------------------------------------------
(* Lemmas about the two ways a call moves.                                 *)

Grows ==
  /\ checkpoint' \in Checkpoint \cup {Nil}
  /\ checkpoint # Nil =>
       /\ checkpoint' # Nil
       /\ checkpoint'.attempts >= checkpoint.attempts
       /\ checkpoint.status \in Decided => checkpoint' = checkpoint

(* What the invariant says of the call of one worker.                      *)
CallOK(w) ==
  \/ call[w] = NoCall
  \/ /\ call[w] \in [at : At \ {"idle"}, content : Content,
                     known : Checkpoint \cup {Nil}, next : Checkpoint \cup {Nil}]
     /\ call[w].at \in {"import", "save"} => call[w].next # Nil
     /\ call[w].at \in {"provider", "sleep"} => call[w].known # Nil

LEMMA TypeByCall ==
  TypeOK <=> /\ checkpoint \in Checkpoint \cup {Nil}
             /\ DOMAIN call = Worker
             /\ \A w \in Worker : CallOK(w)
             /\ told \subseteq Verdict
BY DEF TypeOK, CallOK

(* A call that moves, to a state that was read or written by it.           *)
LEMMA GoesKeeps ==
  ASSUME IInv, Grows, NEW w \in Worker, call[w] # NoCall,
         NEW at \in At \ {"idle"},
         NEW known \in Checkpoint \cup {Nil}, NEW next \in Checkpoint \cup {Nil},
         at \in {"import", "save"} => next # Nil,
         at \in {"provider", "sleep"} => known # Nil,
         known # Nil => checkpoint' # Nil /\ checkpoint'.attempts >= known.attempts,
         Goes(w, at, known, next), UNCHANGED told
  PROVE  IInv'
<1>1. DOMAIN call = Worker /\ (\A v \in Worker : CallOK(v)) /\ told \subseteq Verdict
  BY TypeByCall DEF IInv
<1>2. call'[w] = MakeCall(at, call[w].content, known, next)
  BY <1>1 DEF Goes
<1>3. /\ DOMAIN call' = Worker
      /\ \A v \in Worker : v # w => call'[v] = call[v]
  BY <1>1 DEF Goes
<1>4. call[w].content \in Content
  BY <1>1 DEF CallOK
<1>5. CallOK(w)'
  BY <1>2, <1>4 DEF CallOK, MakeCall
<1>6. \A v \in Worker : CallOK(v)'
  BY <1>1, <1>3, <1>5 DEF CallOK
<1>7. TypeOK'
  BY <1>1, <1>3, <1>6 DEF Grows, TypeOK, CallOK
<1>8. Charged'
  <2> SUFFICES ASSUME NEW v \in Worker, call'[v].known # Nil
               PROVE  checkpoint' # Nil /\ checkpoint'.attempts >= call'[v].known.attempts
    BY DEF Charged
  <2>1. CASE v = w
    BY <2>1, <1>2 DEF MakeCall
  <2>2. CASE v # w
    <3>1. /\ call[v].known # Nil /\ call[v].known = call'[v].known
          /\ checkpoint # Nil /\ checkpoint.attempts >= call[v].known.attempts
      BY <2>2, <1>3 DEF IInv, Charged
    <3>2. call[v].known \in Checkpoint
      BY <3>1, <1>1 DEF CallOK, NoCall, MakeCall
    <3>3. /\ checkpoint \in Checkpoint /\ checkpoint' \in Checkpoint /\ checkpoint' # Nil
          /\ checkpoint'.attempts >= checkpoint.attempts
      BY <3>1 DEF Grows, IInv, TypeOK
    <3>4. /\ checkpoint.attempts \in Nat /\ checkpoint'.attempts \in Nat
          /\ call[v].known.attempts \in Nat
      BY <3>2, <3>3, CheckpointFields
    <3> QED BY <3>1, <3>3, <3>4
  <2> QED BY <2>1, <2>2
<1>9. ToldStands'
  BY DEF ToldStands, IInv, Grows, VerdictOf
<1> QED
  BY <1>7, <1>8, <1>9 DEF IInv

(* A call that ends, having told the stored verdict or nothing.            *)
LEMMA EndsKeeps ==
  ASSUME IInv, Grows, NEW w \in Worker, Ends(w),
         \/ UNCHANGED told
         \/ /\ checkpoint' # Nil
            /\ checkpoint'.status \in Decided
            /\ told' = told \cup {VerdictOf(checkpoint')}
  PROVE  IInv'
<1>1. DOMAIN call = Worker /\ (\A v \in Worker : CallOK(v)) /\ told \subseteq Verdict
  BY TypeByCall DEF IInv
<1>2. /\ DOMAIN call' = Worker /\ call'[w] = NoCall
      /\ \A v \in Worker : v # w => call'[v] = call[v]
  BY <1>1 DEF Ends
<1>3. told' \subseteq Verdict
  BY <1>1, CheckpointFields DEF Grows
<1>4. TypeOK'
  BY <1>1, <1>2, <1>3 DEF Grows, TypeOK, CallOK
<1>5. Charged'
  <2> SUFFICES ASSUME NEW v \in Worker, call'[v].known # Nil
               PROVE  checkpoint' # Nil /\ checkpoint'.attempts >= call'[v].known.attempts
    BY DEF Charged
  <2>1. v # w /\ call'[v] = call[v]
    BY <1>2 DEF NoCall, MakeCall
  <2>2. /\ call[v].known # Nil
        /\ checkpoint # Nil /\ checkpoint.attempts >= call[v].known.attempts
    BY <2>1 DEF IInv, Charged
  <2>3. call[v].known \in Checkpoint
    BY <2>2, <1>1 DEF CallOK, NoCall, MakeCall
  <2>4. /\ checkpoint \in Checkpoint /\ checkpoint' \in Checkpoint /\ checkpoint' # Nil
        /\ checkpoint'.attempts >= checkpoint.attempts
    BY <2>2 DEF Grows, IInv, TypeOK
  <2>5. /\ checkpoint.attempts \in Nat /\ checkpoint'.attempts \in Nat
        /\ call[v].known.attempts \in Nat
    BY <2>3, <2>4, CheckpointFields
  <2> QED BY <2>1, <2>2, <2>4, <2>5
<1>6. ToldStands'
  BY DEF ToldStands, IInv, Grows, VerdictOf
<1> QED
  BY <1>4, <1>5, <1>6 DEF IInv

(* The next attempt or the end of them, from a state that is not decided.  *)
LEMMA TriesKeeps ==
  ASSUME IInv, Grows, NEW w \in Worker, call[w] # NoCall,
         NEW s \in Checkpoint \cup {Nil},
         s # Nil => checkpoint' # Nil /\ checkpoint'.attempts >= s.attempts,
         Tries(w, s), UNCHANGED told
  PROVE  IInv'
<1>1. call[w].content \in Content
  BY DEF IInv, TypeOK
<1>2. Limit[w] \in 1..MaxAttempts /\ MaxAttempts \in Nat
  BY ExtractionAssumption
<1>3. "save" \in At \ {"idle"}
  BY DEF At
<1>4. CASE Attempts(s) + 1 > Limit[w] /\ GivesUp(w, s)
  <2>1. s # Nil
    BY <1>2, <1>4 DEF Attempts
  <2> DEFINE code == IF s.code # Nil THEN s.code ELSE Exhausted
             next == Made(w, "failed_permanent", s.attempts, Nil, code)
  <2>2. s.attempts \in 1..MaxAttempts /\ s.code \in Code \cup {Nil}
    BY <2>1, CheckpointFields
  <2>3. code \in Code /\ code # Nil
    BY <2>2, ExtractionAssumption DEF Code
  <2>4. next \in Checkpoint
    <3> HIDE DEF code
    <3> QED BY <1>1, <2>2, <2>3, MadeChecks DEF Status
  <2>5. next # Nil
    BY <2>4, CheckpointFields
  <2>6. Goes(w, "save", s, next)
    BY <1>4 DEF GivesUp
  <2> HIDE DEF next
  <2> QED BY <1>3, <2>4, <2>5, <2>6, GoesKeeps
<1>5. CASE Attempts(s) + 1 <= Limit[w]
  <2> DEFINE next == Made(w, "running", Attempts(s) + 1, Nil, Nil)
  <2>1. Attempts(s) \in Nat
    BY CheckpointFields DEF Attempts
  <2>2. Attempts(s) + 1 \in 1..MaxAttempts
    BY <1>2, <1>5, <2>1
  <2>3. next \in Checkpoint
    BY <1>1, <2>2, MadeChecks DEF Status
  <2>4. next # Nil
    BY <2>3, CheckpointFields
  <2>5. Goes(w, "save", s, next)
    BY <1>2, <1>5, <2>1 DEF Tries
  <2> HIDE DEF next
  <2> QED BY <1>3, <2>3, <2>4, <2>5, GoesKeeps
<1> QED
  BY <1>4, <1>5 DEF Tries

(* What a call does with the state that is stored now.                     *)
LEMMA ResumesKeeps ==
  ASSUME IInv, Grows, NEW w \in Worker, call[w] # NoCall, Resumes(w, checkpoint')
  PROVE  IInv'
<1> DEFINE s == checkpoint'
<1>1. s \in Checkpoint \cup {Nil}
  BY DEF Grows
<1>2. CASE Ends(w) /\ UNCHANGED told
  BY <1>2, EndsKeeps
<1>3. CASE s # Nil /\ s.status \in Decided /\ Tells(w, s)
  BY <1>3, EndsKeeps DEF Tells
<1>4. CASE Tries(w, s) /\ UNCHANGED told
  <2>1. s # Nil => s.attempts >= s.attempts
    BY <1>1, CheckpointFields
  <2> QED BY <1>1, <1>4, <2>1, TriesKeeps
<1> QED
  BY <1>2, <1>3, <1>4 DEF Resumes

(* A step that writes nothing, and one that writes an accepted checkpoint. *)
LEMMA NothingGrows ==
  ASSUME TypeOK, UNCHANGED checkpoint
  PROVE  Grows
BY CheckpointFields DEF TypeOK, Grows

LEMMA SavingGrows ==
  ASSUME TypeOK, NEW c \in Checkpoint, Accepted(c), checkpoint' = c
  PROVE  Grows
BY CheckpointFields, AcceptedGrows DEF TypeOK, Grows

-------------------------------------------------------------------------------
(* The inductive step.                                                     *)

(* Every step keeps the invariant and lowers nothing.                      *)
LEMMA StepKeeps ==
  ASSUME IInv, [Next]_vars
  PROVE  IInv' /\ Grows
<1> USE DEF IInv
<1> DEFINE Busy(w) == call[w].at # "idle"
<1>0. ASSUME NEW w \in Worker, Busy(w)
      PROVE  /\ call[w] # NoCall
             /\ call[w] \in [at : At \ {"idle"}, content : Content,
                             known : Checkpoint \cup {Nil}, next : Checkpoint \cup {Nil}]
             /\ call[w].at \in {"import", "save"} => call[w].next \in Checkpoint
  BY <1>0 DEF TypeOK, NoCall, MakeCall
<1>1. ASSUME NEW w \in Worker, NEW c \in Content, NEW r \in Resumable, Begin(w, c, r)
      PROVE  IInv' /\ Grows
  <2>1. Grows
    BY <1>1, NothingGrows DEF Begin
  <2>2. r \in Checkpoint \cup {Nil}
    BY ExtractionAssumption DEF Resumable, TypeOK
  <2>3. call'[w] = MakeCall("load", c, Nil, r)
    BY <1>1 DEF Begin, TypeOK
  <2>4. DOMAIN call' = Worker /\ \A v \in Worker : v # w => call'[v] = call[v]
    BY <1>1 DEF Begin, TypeOK
  <2>5. CallOK(w)'
    BY <2>2, <2>3 DEF CallOK, MakeCall, At
  <2>6. \A v \in Worker : CallOK(v)'
    BY <2>4, <2>5, TypeByCall DEF CallOK
  <2>7. TypeOK'
    BY <1>1, <2>1, <2>4, <2>6 DEF Begin, TypeOK, CallOK, Grows
  <2>8. Charged'
    <3>1. \A v \in Worker : call'[v].known # Nil => call'[v].known = call[v].known
      BY <2>3, <2>4 DEF MakeCall
    <3> QED BY <1>1, <3>1 DEF Charged, Begin
  <2>9. ToldStands'
    BY <1>1 DEF Begin, ToldStands
  <2> QED BY <2>1, <2>7, <2>8, <2>9
<1>2. ASSUME NEW w \in Worker, Load(w) PROVE IInv' /\ Grows
  <2>1. Busy(w) /\ Grows /\ checkpoint' = checkpoint
    BY <1>2, NothingGrows DEF Load
  <2>2. call[w] # NoCall
    BY <1>0, <2>1
  <2>3. CASE Ends(w) /\ UNCHANGED told
    BY <2>1, <2>3, EndsKeeps
  <2>4. CASE Resumes(w, checkpoint)
    BY <2>1, <2>2, <2>4, ResumesKeeps
  <2>5. CASE /\ call[w].next # Nil
             /\ Goes(w, "import", Nil, call[w].next)
             /\ UNCHANGED told
    <3>1. "import" \in At \ {"idle"}
      BY DEF At
    <3>2. call[w].next \in Checkpoint \cup {Nil}
      BY <1>0, <2>1
    <3> QED BY <2>1, <2>2, <2>5, <3>1, <3>2, GoesKeeps
  <2> QED BY <1>2, <2>1, <2>3, <2>4, <2>5 DEF Load
<1>3. ASSUME NEW w \in Worker, Import(w) PROVE IInv' /\ Grows
  <2>1. Busy(w) /\ call[w].next \in Checkpoint
    BY <1>0, <1>3 DEF Import
  <2>2. Grows
    BY <1>3, <2>1, SavingGrows DEF Import
  <2>3. call[w] # NoCall
    BY <1>0, <2>1
  <2>4. Resumes(w, checkpoint')
    BY <1>3 DEF Import
  <2> QED BY <2>2, <2>3, <2>4, ResumesKeeps
<1>4. ASSUME NEW w \in Worker, NEW at \in {"provider", "sleep"}, NEW st \in SUBSET Status,
             Saves(w, st), Goes(w, at, call[w].next, Nil), UNCHANGED told
      PROVE  IInv' /\ Grows
  <2>1. Busy(w) /\ call[w].next \in Checkpoint /\ checkpoint' = call[w].next
    BY <1>0, <1>4 DEF Saves
  <2>2. Grows
    BY <1>4, <2>1, SavingGrows DEF Saves
  <2>3. call[w] # NoCall /\ at \in At \ {"idle"}
    BY <1>0, <2>1 DEF At
  <2>4. checkpoint' # Nil /\ checkpoint'.attempts >= call[w].next.attempts
    BY <2>1, CheckpointFields
  <2> QED BY <1>4, <2>1, <2>2, <2>3, <2>4, GoesKeeps
<1>5. ASSUME NEW w \in Worker, SaveVerdict(w) PROVE IInv' /\ Grows
  <2>1. Busy(w) /\ call[w].next \in Checkpoint /\ checkpoint' = call[w].next
    BY <1>0, <1>5 DEF SaveVerdict, Saves
  <2>2. Grows
    BY <1>5, <2>1, SavingGrows DEF SaveVerdict, Saves
  <2>3. checkpoint' # Nil /\ checkpoint'.status \in Decided
    BY <1>5, <2>1, CheckpointFields DEF SaveVerdict, Saves
  <2> QED BY <1>5, <2>1, <2>2, <2>3, EndsKeeps DEF SaveVerdict, Tells
<1>6. ASSUME NEW w \in Worker, SaveLost(w) PROVE IInv' /\ Grows
  <2>1. call[w].next \in Checkpoint
    BY <1>0, <1>6 DEF SaveLost
  <2>2. Grows
    BY <1>6, <2>1, SavingGrows, NothingGrows DEF SaveLost
  <2> QED BY <1>6, <2>2, EndsKeeps DEF SaveLost
<1>7. ASSUME NEW w \in Worker, Drift(w) \/ Conflict(w) \/ Crash(w) PROVE IInv' /\ Grows
  <2>1. Grows
    BY <1>7, NothingGrows DEF Drift, Conflict, Crash
  <2> QED BY <1>7, <2>1, EndsKeeps DEF Drift, Conflict, Crash
<1>8. ASSUME NEW w \in Worker, Ask(w) PROVE IInv' /\ Grows
  <2>1. Busy(w) /\ Grows /\ checkpoint' = checkpoint /\ UNCHANGED told
    BY <1>8, NothingGrows DEF Ask
  <2>2. /\ call[w] # NoCall /\ call[w].known \in Checkpoint /\ call[w].content \in Content
        /\ call[w].known # Nil
    BY <1>0, <1>8, <2>1 DEF Ask, TypeOK
  <2>3. call[w].known.attempts \in 1..MaxAttempts
    BY <2>2, CheckpointFields
  <2>4. checkpoint' # Nil /\ checkpoint'.attempts >= call[w].known.attempts
    BY <2>1, <2>2 DEF Charged
  <2> DEFINE next(status, batch, code) ==
               Made(w, status, call[w].known.attempts, batch, code)
  <2>5. \E status \in Status, batch \in Batch \cup {Nil}, code \in Code \cup {Nil} :
          /\ batch # Nil <=> status = "completed"
          /\ code # Nil <=> status \in {"retry_wait", "failed_permanent"}
          /\ Goes(w, "save", call[w].known, next(status, batch, code))
    BY <1>8, ExtractionAssumption DEF Ask, Status, Code
  <2>6. PICK status \in Status, batch \in Batch \cup {Nil}, code \in Code \cup {Nil} :
          /\ batch # Nil <=> status = "completed"
          /\ code # Nil <=> status \in {"retry_wait", "failed_permanent"}
          /\ Goes(w, "save", call[w].known, next(status, batch, code))
    BY <2>5
  <2>7. next(status, batch, code) \in Checkpoint
    BY <2>2, <2>3, <2>6, MadeChecks
  <2>8. next(status, batch, code) # Nil
    BY <2>7, CheckpointFields
  <2>9. "save" \in At \ {"idle"}
    BY DEF At
  <2> HIDE DEF next
  <2> QED BY <2>1, <2>2, <2>4, <2>6, <2>7, <2>8, <2>9, GoesKeeps
<1>9. ASSUME NEW w \in Worker, Wake(w) PROVE IInv' /\ Grows
  <2>1. Busy(w) /\ Grows /\ checkpoint' = checkpoint
    BY <1>9, NothingGrows DEF Wake
  <2>2. call[w] # NoCall /\ call[w].known \in Checkpoint /\ call[w].known # Nil
    BY <1>0, <1>9, <2>1 DEF Wake, TypeOK
  <2>3. checkpoint' # Nil /\ checkpoint'.attempts >= call[w].known.attempts
    BY <2>1, <2>2 DEF Charged
  <2> QED BY <1>9, <2>1, <2>2, <2>3, TriesKeeps DEF Wake
<1>10. ASSUME UNCHANGED vars PROVE IInv' /\ Grows
  BY <1>10, NothingGrows DEF vars, TypeOK, Charged, ToldStands
<1>11. ASSUME NEW w \in Worker, SaveRunning(w) \/ SaveRetryWait(w) PROVE IInv' /\ Grows
  <2>1. {"running"} \in SUBSET Status /\ {"retry_wait"} \in SUBSET Status
    BY DEF Status
  <2> QED BY <1>4, <1>11, <2>1 DEF SaveRunning, SaveRetryWait
<1> QED
  BY <1>1, <1>2, <1>3, <1>5, <1>6, <1>7, <1>8, <1>9, <1>10, <1>11 DEF Next

(* The inductive invariant.                                                *)
THEOREM Invariance == Spec => []IInv
<1>1. Init => IInv
  BY DEF Init, IInv, TypeOK, Charged, ToldStands, NoCall, MakeCall
<1>2. IInv /\ [Next]_vars => IInv'
  BY StepKeeps
<1> QED
  BY <1>1, <1>2, PTL DEF Spec

(* Checkpoints, calls and verdicts stay well formed.                       *)
THEOREM TypeCorrect == Spec => []TypeOK
BY Invariance, PTL DEF IInv

(* No provider call runs ahead of the durable attempt count.               *)
THEOREM CallsAreCharged == Spec => []Charged
BY Invariance, PTL DEF IInv

-------------------------------------------------------------------------------
(* The refinement.                                                         *)

(* A step tells nothing or the verdict that is stored after it.            *)
LEMMA StepTells ==
  ASSUME IInv, [Next]_vars
  PROVE  \/ UNCHANGED told
         \/ IsDecided' /\ told' = told \cup {VerdictOf(checkpoint')}
<1> USE DEF IsDecided
<1>1. ASSUME NEW w \in Worker, NEW s, Resumes(w, s), checkpoint' = s
      PROVE  \/ UNCHANGED told
             \/ IsDecided' /\ told' = told \cup {VerdictOf(checkpoint')}
  BY <1>1 DEF Resumes, Tells
<1>2. ASSUME NEW w \in Worker, Load(w)
      PROVE  \/ UNCHANGED told
             \/ IsDecided' /\ told' = told \cup {VerdictOf(checkpoint')}
  BY <1>1, <1>2 DEF Load
<1>3. ASSUME NEW w \in Worker, Import(w)
      PROVE  \/ UNCHANGED told
             \/ IsDecided' /\ told' = told \cup {VerdictOf(checkpoint')}
  BY <1>1, <1>3 DEF Import
<1>4. ASSUME NEW w \in Worker, SaveVerdict(w)
      PROVE  IsDecided' /\ told' = told \cup {VerdictOf(checkpoint')}
  <2>1. call[w].next \in Checkpoint
    BY <1>4 DEF SaveVerdict, Saves, IInv, TypeOK, NoCall, MakeCall
  <2> QED BY <1>4, <2>1, CheckpointFields DEF SaveVerdict, Saves, Tells
<1>5. ASSUME \/ \E w \in Worker : \/ SaveRunning(w) \/ SaveRetryWait(w) \/ SaveLost(w)
                                  \/ Drift(w) \/ Conflict(w) \/ Ask(w) \/ Wake(w)
                                  \/ Crash(w)
             \/ \E w \in Worker, c \in Content, r \in Resumable : Begin(w, c, r)
             \/ UNCHANGED vars
      PROVE  UNCHANGED told
  BY <1>5 DEF SaveRunning, SaveRetryWait, SaveLost, Drift, Conflict, Ask, Wake, Crash,
              Begin, vars
<1> QED
  BY <1>2, <1>3, <1>4, <1>5 DEF Next

(* One verdict stands, and nobody is told another.                         *)
THEOREM Refinement == Spec => ImplementsFactTask
<1>1. Init => Task!Init
  BY ExtractionAssumption DEF Init, Task!Init, Attempts, IsDecided
<1>2. ASSUME IInv, [Next]_vars PROVE [Task!Next]_(Task!vars)
  <2> DEFINE n == Attempts(checkpoint)
             v == IF IsDecided THEN VerdictOf(checkpoint) ELSE Nil
  <2>1. Grows /\ checkpoint \in Checkpoint \cup {Nil}
    BY <1>2, StepKeeps DEF IInv, TypeOK
  <2>2. n' \in n..MaxAttempts
    BY <2>1, CheckpointFields, ExtractionAssumption DEF Attempts, Grows
  <2>3. IsDecided => checkpoint' = checkpoint /\ IsDecided'
    BY <2>1 DEF Grows, IsDecided
  <2>4. IsDecided' => v' \in Verdict /\ v' # Nil /\ v' = VerdictOf(checkpoint')
    BY <2>1, CheckpointFields, ExtractionAssumption DEF Grows, IsDecided
  <2>5. \/ UNCHANGED told
        \/ IsDecided' /\ told' = told \cup {VerdictOf(checkpoint')}
    BY <1>2, StepTells
  <2>6. CASE IsDecided
    <3>1. v' = v /\ n' = n /\ v # Nil
      BY <2>3, <2>4, <2>6 DEF Attempts
    <3>2. UNCHANGED told \/ told' = told \cup {v}
      BY <2>3, <2>5, <2>6
    <3> HIDE DEF n, v
    <3>3. \/ n' = n /\ v' = v /\ told' = told
          \/ v # Nil /\ told' = told \cup {v} /\ n' = n /\ v' = v
      BY <3>1, <3>2
    <3> QED BY <3>3 DEF Task!Next, Task!Tell, Task!vars, n, v
  <2>7. CASE ~IsDecided /\ IsDecided'
    <3>1. v = Nil /\ v' \in Verdict
      BY <2>4, <2>7
    <3>2. told' \in {told, told \cup {v'}}
      BY <2>4, <2>5, <2>7
    <3>3. Task!Decide(v')
      BY <2>2, <3>1, <3>2 DEF Task!Decide
    <3> QED BY <3>1, <3>3 DEF Task!Next
  <2>8. CASE ~IsDecided /\ ~IsDecided'
    <3>1. v = Nil /\ v' = v /\ UNCHANGED told
      BY <2>5, <2>8
    <3> QED BY <2>2, <3>1 DEF Task!Next, Task!Try
  <2> QED BY <2>3, <2>6, <2>7, <2>8
<1> QED
  BY <1>1, <1>2, Invariance, PTL DEF Spec, ImplementsFactTask, Task!Spec

-------------------------------------------------------------------------------
(* Conflicts.  They mean divergence if all workers run one retry policy;   *)
(* without that the claim is false.                                        *)

InLimit(c) ==
  c # Nil /\ c.status = "retry_wait" => \A w \in Worker : c.attempts < Limit[w]

UniformPolicy ==
  /\ \A v, w \in Worker : Limit[v] = Limit[w]
  /\ \A h \in Handed : InLimit(h)

(* The checkpoint a call is about to save may follow the one it knows.     *)
Derived(w) ==
  LET k == call[w].known
      n == call[w].next
  IN
  /\ InLimit(k) /\ InLimit(n)
  /\ k # Nil => k.content = call[w].content
  /\ call[w].at \in {"load", "import"} => k = Nil
  /\ call[w].at = "provider" => k.status = "running"
  /\ call[w].at = "sleep" => k.status = "retry_wait"
  /\ call[w].at = "save" => /\ n.content = call[w].content
                            /\ k = Nil \/ ValidTransition(k, n)

LInv ==
  /\ InLimit(checkpoint)
  /\ \A w \in Worker : call[w] # NoCall => Derived(w)

(* A call that moves to a derived position, and one that ends.             *)
LEMMA MovesDerive ==
  ASSUME TypeOK, LInv, InLimit(checkpoint)', NEW w \in Worker, NEW c,
         call' = [call EXCEPT ![w] = c], call'[w] = NoCall \/ Derived(w)'
  PROVE  LInv'
<1>1. \A v \in Worker : v # w => call'[v] = call[v]
  BY DEF TypeOK
<1>2. \A v \in Worker : v # w /\ call'[v] # NoCall => Derived(v)'
  BY <1>1 DEF LInv, Derived, InLimit
<1> QED
  BY <1>2 DEF LInv

LEMMA TriesDerives ==
  ASSUME UniformPolicy, TypeOK, NEW w \in Worker, call[w] # NoCall,
         NEW s \in Checkpoint \cup {Nil}, InLimit(s),
         s # Nil => s.content = call[w].content /\ s.status \notin Decided,
         Tries(w, s)
  PROVE  Derived(w)'
<1>1. Limit[w] \in 1..MaxAttempts /\ MaxAttempts \in Nat /\ DOMAIN call = Worker
  BY ExtractionAssumption DEF TypeOK
<1>2. s # Nil => s.attempts \in Nat /\ s.status \in Status
  BY CheckpointFields
<1>3. CASE Attempts(s) + 1 > Limit[w] /\ GivesUp(w, s)
  <2>1. s # Nil /\ s.status = "running"
    BY <1>1, <1>2, <1>3 DEF Attempts, InLimit, Decided, Status
  <2>2. PICK code : call'[w] = MakeCall("save", call[w].content, s,
                      Made(w, "failed_permanent", s.attempts, Nil, code))
    BY <1>1, <1>3 DEF GivesUp, Goes
  <2>3. ValidTransition(s, Made(w, "failed_permanent", s.attempts, Nil, code))
    BY <2>1 DEF ValidTransition, Made
  <2> QED BY <1>2, <2>1, <2>2, <2>3 DEF Derived, MakeCall, Made, InLimit
<1>4. CASE Goes(w, "save", s, Made(w, "running", Attempts(s) + 1, Nil, Nil))
  <2>1. call'[w] = MakeCall("save", call[w].content, s,
                      Made(w, "running", Attempts(s) + 1, Nil, Nil))
    BY <1>1, <1>4 DEF Goes
  <2>2. s = Nil \/ ValidTransition(s, Made(w, "running", Attempts(s) + 1, Nil, Nil))
    BY DEF ValidTransition, Made, Attempts
  <2> QED BY <2>1, <2>2 DEF Derived, MakeCall, Made, InLimit
<1> QED
  BY <1>3, <1>4 DEF Tries

LEMMA ResumesDerives ==
  ASSUME UniformPolicy, TypeOK, LInv, NEW w \in Worker, call[w] # NoCall,
         checkpoint' \in Checkpoint \cup {Nil}, InLimit(checkpoint'),
         Resumes(w, checkpoint')
  PROVE  LInv'
<1>1. CASE Ends(w)
  <2>1. call'[w] = NoCall
    BY <1>1 DEF Ends, TypeOK
  <2> QED BY <1>1, <2>1, MovesDerive DEF Ends, InLimit
<1>2. CASE /\ checkpoint' # Nil =>
                 checkpoint'.content = call[w].content /\ checkpoint'.status \notin Decided
           /\ Tries(w, checkpoint')
  <2>1. Derived(w)'
    BY <1>2, TriesDerives
  <2>2. \E c : call' = [call EXCEPT ![w] = c]
    BY <1>2 DEF Tries, GivesUp, Goes
  <2> QED BY <2>1, <2>2, MovesDerive DEF InLimit
<1> QED
  BY <1>1, <1>2 DEF Resumes, Tells

LEMMA StepDerives ==
  ASSUME UniformPolicy, IInv, LInv, [Next]_vars
  PROVE  LInv'
<1>0. /\ TypeOK /\ DOMAIN call = Worker
      /\ InLimit(checkpoint)
      /\ checkpoint' \in Checkpoint \cup {Nil}
      /\ \A w \in Worker : call[w] # NoCall => Derived(w)
  BY StepKeeps DEF IInv, TypeOK, LInv, Grows
<1>a. ASSUME NEW w \in Worker, Ends(w), InLimit(checkpoint')
      PROVE  LInv'
  <2>1. call'[w] = NoCall
    BY <1>0, <1>a DEF Ends
  <2> QED BY <1>0, <1>a, <2>1, MovesDerive DEF Ends, InLimit
<1>b. ASSUME NEW w \in Worker, call[w].at # "idle" PROVE call[w] # NoCall
  BY <1>b DEF NoCall, MakeCall
<1>1. ASSUME NEW w \in Worker, NEW c \in Content, NEW r \in Resumable, Begin(w, c, r)
      PROVE  LInv'
  <2>1. InLimit(r)
    BY <1>0 DEF Resumable, UniformPolicy, InLimit
  <2>2. call'[w] = MakeCall("load", c, Nil, r)
    BY <1>0, <1>1 DEF Begin
  <2>3. Derived(w)'
    BY <2>1, <2>2 DEF Derived, MakeCall, InLimit
  <2> QED BY <1>0, <1>1, <2>3, MovesDerive DEF Begin, InLimit
<1>2. ASSUME NEW w \in Worker, Load(w) PROVE LInv'
  <2>1. call[w] # NoCall /\ checkpoint' = checkpoint
    BY <1>2, <1>b DEF Load
  <2>2. InLimit(checkpoint') /\ Derived(w)
    BY <1>0, <2>1
  <2>3. CASE Ends(w)
    BY <1>a, <2>2, <2>3
  <2>4. CASE Resumes(w, checkpoint)
    BY <1>0, <2>1, <2>2, <2>4, ResumesDerives
  <2>5. CASE Goes(w, "import", Nil, call[w].next)
    <3>1. call'[w] = MakeCall("import", call[w].content, Nil, call[w].next)
      BY <1>0, <2>5 DEF Goes
    <3>2. Derived(w)'
      BY <2>2, <3>1 DEF Derived, MakeCall, InLimit
    <3> QED BY <1>0, <2>2, <2>5, <3>2, MovesDerive DEF Goes, InLimit
  <2> QED BY <1>2, <2>1, <2>3, <2>4, <2>5 DEF Load
<1>3. ASSUME NEW w \in Worker, Import(w) PROVE LInv'
  <2>1. call[w] # NoCall /\ checkpoint' = call[w].next
    BY <1>3, <1>b DEF Import
  <2>2. InLimit(checkpoint') /\ Derived(w)
    BY <1>0, <2>1 DEF Derived
  <2>3. Resumes(w, checkpoint')
    BY <1>3, <2>1 DEF Import
  <2> QED BY <1>0, <2>1, <2>2, <2>3, ResumesDerives
<1>4. ASSUME NEW w \in Worker, SaveRunning(w) \/ SaveRetryWait(w) PROVE LInv'
  <2>1. call[w] # NoCall /\ checkpoint' = call[w].next /\ call[w].at = "save"
    BY <1>4, <1>b DEF SaveRunning, SaveRetryWait, Saves
  <2>2. InLimit(checkpoint') /\ InLimit(call[w].next) /\ call[w].next.content = call[w].content
    BY <1>0, <2>1 DEF Derived
  <2>3. \/ call'[w] = MakeCall("provider", call[w].content, call[w].next, Nil)
           /\ call[w].next.status = "running"
        \/ call'[w] = MakeCall("sleep", call[w].content, call[w].next, Nil)
           /\ call[w].next.status = "retry_wait"
    BY <1>0, <1>4 DEF SaveRunning, SaveRetryWait, Saves, Goes
  <2>4. Derived(w)'
    BY <2>2, <2>3 DEF Derived, MakeCall, InLimit
  <2>5. \E c : call' = [call EXCEPT ![w] = c]
    BY <1>4 DEF SaveRunning, SaveRetryWait, Goes
  <2> QED BY <1>0, <2>2, <2>4, <2>5, MovesDerive DEF InLimit
<1>5. ASSUME NEW w \in Worker, SaveVerdict(w) \/ SaveLost(w) PROVE LInv'
  <2>1. call[w] # NoCall /\ checkpoint' \in {checkpoint, call[w].next} /\ Ends(w)
    BY <1>5, <1>b DEF SaveVerdict, SaveLost, Saves, Tells
  <2>2. InLimit(checkpoint')
    BY <1>0, <2>1 DEF Derived
  <2> QED BY <1>a, <2>1, <2>2
<1>6. ASSUME NEW w \in Worker, Drift(w) \/ Conflict(w) \/ Crash(w) PROVE LInv'
  BY <1>0, <1>6, <1>a DEF Drift, Conflict, Crash
<1>7. ASSUME NEW w \in Worker, Ask(w) PROVE LInv'
  <2>1. call[w] # NoCall /\ checkpoint' = checkpoint /\ call[w].at = "provider"
    BY <1>7, <1>b DEF Ask
  <2>2. /\ InLimit(checkpoint') /\ Derived(w)
        /\ call[w].known \in Checkpoint /\ call[w].known # Nil
    BY <1>0, <2>1 DEF TypeOK
  <2> DEFINE k == call[w].known
             n(status, batch, code) == Made(w, status, k.attempts, batch, code)
  <2>3. \E status \in Status \ {"running"}, batch \in Batch \cup {Nil}, code \in Code \cup {Nil} :
          /\ Goes(w, "save", k, n(status, batch, code))
          /\ status = "retry_wait" => RetriesLeft(w, k.attempts)
    BY <1>7 DEF Ask, Status, Code
  <2>4. PICK status \in Status \ {"running"}, batch \in Batch \cup {Nil}, code \in Code \cup {Nil} :
          /\ Goes(w, "save", k, n(status, batch, code))
          /\ status = "retry_wait" => RetriesLeft(w, k.attempts)
    BY <2>3
  <2>5. call'[w] = MakeCall("save", call[w].content, k, n(status, batch, code))
    BY <1>0, <2>4 DEF Goes
  <2>6. /\ k.status = "running" /\ InLimit(k) /\ k.content = call[w].content
        /\ n(status, batch, code).content = call[w].content
    BY <2>1, <2>2 DEF Derived, Made
  <2>7. InLimit(n(status, batch, code))
    BY <2>4 DEF InLimit, Made, RetriesLeft, UniformPolicy
  <2>8. ValidTransition(k, n(status, batch, code))
    BY <2>6 DEF ValidTransition, Made
  <2>9. Derived(w)'
    <3> HIDE DEF n, k
    <3> QED BY <2>2, <2>5, <2>6, <2>7, <2>8 DEF Derived, MakeCall, InLimit, k
  <2> QED BY <1>0, <2>2, <2>4, <2>9, MovesDerive DEF Goes, InLimit
<1>8. ASSUME NEW w \in Worker, Wake(w) PROVE LInv'
  <2>1. call[w] # NoCall /\ checkpoint' = checkpoint /\ call[w].at = "sleep"
    BY <1>8, <1>b DEF Wake
  <2>2. /\ InLimit(checkpoint') /\ Derived(w)
        /\ call[w].known \in Checkpoint
    BY <1>0, <2>1 DEF TypeOK
  <2>3. Derived(w)'
    BY <1>0, <1>8, <2>1, <2>2, TriesDerives DEF Wake, Derived, Decided
  <2>4. \E c : call' = [call EXCEPT ![w] = c]
    BY <1>8 DEF Wake, Tries, GivesUp, Goes
  <2> QED BY <1>0, <2>2, <2>3, <2>4, MovesDerive DEF InLimit
<1>9. ASSUME UNCHANGED vars PROVE LInv'
  BY <1>9 DEF vars, LInv, Derived, InLimit
<1> QED
  BY <1>1, <1>2, <1>3, <1>4, <1>5, <1>6, <1>7, <1>8, <1>9 DEF Next

(* With one policy, a save is refused only if another call came between.   *)
THEOREM ConflictsAreTrue ==
  ASSUME UniformPolicy
  PROVE  Spec => []ConflictMeansDivergence
<1>1. Init => LInv
  BY DEF Init, LInv, InLimit
<1>2. IInv /\ LInv /\ [Next]_vars => LInv'
  BY StepDerives
<1>3. IInv /\ LInv => ConflictMeansDivergence
  BY DEF IInv, TypeOK, LInv, Derived, ConflictMeansDivergence, Accepted, NoCall, MakeCall
<1> QED
  BY <1>1, <1>2, <1>3, Invariance, PTL DEF Spec
===============================================================================
