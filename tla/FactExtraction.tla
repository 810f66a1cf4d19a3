---------------------------- MODULE FactExtraction ----------------------------
(***************************************************************************)
(* EvidenceFactExtractionPipeline.extract over the PostgreSQL checkpoint   *)
(* of one fragment and extractor generation.  Several workers may be in    *)
(* the call at one time: a job's lease can run out under a live worker,    *)
(* and two jobs can name one fragment.  Workers crash, and the answer of a *)
(* save can be lost.                                                       *)
(*                                                                         *)
(* A content is what the checkpoint's identity pins: the fragment's digest *)
(* and the fingerprint of the request.  A fragment whose content changes   *)
(* while a call runs makes that call end with content_drift.               *)
(*                                                                         *)
(* An operator whose name ends in _Unfenced or the like is a faulty        *)
(* variant of the one below it; no action uses it.                         *)
(***************************************************************************)
EXTENDS Naturals

CONSTANTS
  Worker,
  Content,
  Batch,       \* fact batches the provider's output can be built into
  Transient,   \* retryable failure codes of an attempt
  Permanent,   \* the others: rejected, unsafe output, content drift
  Limit,       \* Limit[w]: policy.max_attempts of the worker's pipeline
  MaxAttempts, \* no limit and no attempt count is above
  Handed,      \* checkpoints of another store that callers resume from
  Nil

Exhausted == "extraction.retry_exhausted"
Code == Transient \cup Permanent \cup {Exhausted}
Status == {"running", "retry_wait", "completed", "failed_permanent"}
Decided == {"completed", "failed_permanent"}

(* FactExtractionCheckpoint.validate_state.                                *)
Checkpoint ==
  {c \in [content : Content, status : Status, attempts : 1..MaxAttempts,
          batch : Batch \cup {Nil}, code : Code \cup {Nil}] :
     /\ c.batch # Nil <=> c.status = "completed"
     /\ c.code # Nil <=> c.status \in {"retry_wait", "failed_permanent"}}

Verdict == [content : Content, batch : Batch \cup {Nil}, code : Code \cup {Nil}]
VerdictOf(c) == [content |-> c.content, batch |-> c.batch, code |-> c.code]

ASSUME ExtractionAssumption ==
  /\ MaxAttempts \in Nat
  /\ Limit \in [Worker -> 1..MaxAttempts]
  /\ Handed \subseteq Checkpoint
  /\ Transient \cap Permanent = {}
  /\ Nil \notin Batch \cup Code \cup Checkpoint \cup Verdict

VARIABLES
  checkpoint,  \* the row of knowledge_fact_extraction_checkpoints
  call,        \* call[w]: the extract call of worker w
  told         \* history: verdicts that calls returned or raised

vars == <<checkpoint, call, told>>

At == {"idle", "load", "import", "save", "provider", "sleep"}
MakeCall(at, content, known, next) ==
  [at |-> at, content |-> content, known |-> known, next |-> next]
NoCall == MakeCall("idle", Nil, Nil, Nil)

TypeOK ==
  /\ checkpoint \in Checkpoint \cup {Nil}
  /\ DOMAIN call = Worker
  /\ \A w \in Worker :
       \/ call[w] = NoCall
       \/ /\ call[w] \in [at : At \ {"idle"}, content : Content,
                          known : Checkpoint \cup {Nil}, next : Checkpoint \cup {Nil}]
          /\ call[w].at \in {"import", "save"} => call[w].next # Nil
          /\ call[w].at \in {"provider", "sleep"} => call[w].known # Nil
  /\ told \subseteq Verdict

Init ==
  /\ checkpoint = Nil
  /\ call = [w \in Worker |-> NoCall]
  /\ told = {}

-------------------------------------------------------------------------------
(* Checkpoints a call writes, all for the content it began with.           *)
Made(w, status, n, batch, code) ==
  [content |-> call[w].content, status |-> status, attempts |-> n,
   batch |-> batch, code |-> code]

Goes(w, at, known, next) ==
  call' = [call EXCEPT ![w] = MakeCall(at, call[w].content, known, next)]

Ends(w) == call' = [call EXCEPT ![w] = NoCall]

Tells(w, c) == Ends(w) /\ told' = told \cup {VerdictOf(c)}

(* The repository's rule for what may replace a stored checkpoint.         *)
ValidTransition_Unfenced(old, new) ==
  \/ new = old
  \/ /\ old.status \notin Decided
     /\ new.status = "running" => old.attempts <= new.attempts
ValidTransition_OwnerOnly(old, new) ==
  \/ new = old
  \/ /\ old.status = "retry_wait"
     /\ new.attempts = old.attempts + 1
     /\ new.status = "running"
  \/ /\ old.status = "running"
     /\ new.attempts = old.attempts
     /\ new.status # "running"
ValidTransition(old, new) ==
  \/ new = old
  \/ /\ old.status \notin Decided
     /\ new.attempts = old.attempts + 1
     /\ new.status = "running"
  \/ /\ old.status = "running"
     /\ new.attempts = old.attempts
     /\ new.status # "running"

Accepted_LastWins(c) == checkpoint # Nil => checkpoint.content = c.content
Accepted(c) ==
  \/ checkpoint = Nil
  \/ checkpoint # Nil /\ checkpoint.content = c.content /\ ValidTransition(checkpoint, c)

Attempts(s) == IF s = Nil THEN 0 ELSE s.attempts

(* The next attempt, or the end of them.  The terminal state keeps the     *)
(* last error, which only a checkpoint in retry_wait has.                  *)
GivesUp(w, s) ==
  Goes(w, "save", s, Made(w, "failed_permanent", s.attempts, Nil,
                          IF s.code # Nil THEN s.code ELSE Exhausted))

Tries(w, s) ==
  \/ Attempts(s) + 1 > Limit[w] /\ GivesUp(w, s)
  \/ /\ Attempts(s) + 1 <= Limit[w]
     /\ Goes(w, "save", s, Made(w, "running", Attempts(s) + 1, Nil, Nil))

(* What a call does with the state it found: another content is drift, a   *)
(* verdict is repeated, anything else goes on.                             *)
Resumes(w, s) ==
  \/ s # Nil /\ s.content # call[w].content /\ Ends(w) /\ UNCHANGED told
  \/ s # Nil /\ s.content = call[w].content /\ s.status \in Decided /\ Tells(w, s)
  \/ /\ s # Nil => s.content = call[w].content /\ s.status \notin Decided
     /\ Tries(w, s)
     /\ UNCHANGED told

-------------------------------------------------------------------------------
(* extract(fragment, resume_from = r); the fragment is snapshotted here.   *)
Begin(w, c, r) ==
  /\ call[w] = NoCall
  /\ call' = [call EXCEPT ![w] = MakeCall("load", c, Nil, r)]
  /\ UNCHANGED <<checkpoint, told>>

Load(w) ==
  /\ call[w].at = "load"
  /\ LET supplied == call[w].next IN
     \/ /\ supplied # Nil
        /\ supplied.content # call[w].content \/ checkpoint \notin {Nil, supplied}
        /\ Ends(w)    \* content_drift, or a conflict
        /\ UNCHANGED told
     \/ /\ supplied # Nil
        /\ supplied.content = call[w].content
        /\ checkpoint = Nil
        /\ Goes(w, "import", Nil, supplied)
        /\ UNCHANGED told
     \/ /\ supplied # Nil => supplied.content = call[w].content /\ checkpoint = supplied
        /\ Resumes(w, checkpoint)
  /\ UNCHANGED checkpoint

LoadFresh(w, c) == call[w].content = c /\ call[w].next = Nil /\ Load(w)

Import(w) ==
  /\ call[w].at = "import"
  /\ Accepted(call[w].next)
  /\ checkpoint' = call[w].next
  /\ Resumes(w, call[w].next)

(* One save: under the advisory lock of its key, so it is atomic.          *)
Saves(w, status) ==
  /\ call[w].at = "save"
  /\ call[w].next.status \in status
  /\ Accepted(call[w].next)
  /\ checkpoint' = call[w].next

SaveRunning(w) ==
  /\ Saves(w, {"running"})
  /\ Goes(w, "provider", call[w].next, Nil)
  /\ UNCHANGED told

SaveRetryWait(w) ==
  /\ Saves(w, {"retry_wait"})
  /\ Goes(w, "sleep", call[w].next, Nil)
  /\ UNCHANGED told

SaveVerdict(w) ==
  /\ Saves(w, Decided)
  /\ Tells(w, call[w].next)

(* _assert_fragment_unchanged, before the running state is saved.          *)
Drift(w) ==
  /\ call[w].at = "save"
  /\ call[w].next.status = "running"
  /\ Ends(w)
  /\ UNCHANGED <<checkpoint, told>>

(* FactExtractionCheckpointConflict.                                       *)
Conflict(w) ==
  /\ call[w].at \in {"import", "save"}
  /\ ~Accepted(call[w].next)
  /\ Ends(w)
  /\ UNCHANGED <<checkpoint, told>>

(* PipelineStatePersistenceError: the save may be committed or not.        *)
SaveLost(w) ==
  /\ call[w].at \in {"import", "save"}
  /\ \/ Accepted(call[w].next) /\ checkpoint' = call[w].next
     \/ UNCHANGED checkpoint
  /\ Ends(w)
  /\ UNCHANGED told

(* The provider's answer, decoded and built into a batch, or a failure.    *)
RetriesLeft_OneMore(w, n) == n <= Limit[w]
RetriesLeft(w, n) == n < Limit[w]

Ask(w) ==
  /\ call[w].at = "provider"
  /\ LET s == call[w].known
         n == s.attempts
         next(status, batch, code) == Goes(w, "save", s, Made(w, status, n, batch, code))
     IN
     \/ \E b \in Batch : next("completed", b, Nil)
     \/ RetriesLeft(w, n) /\ \E c \in Transient : next("retry_wait", Nil, c)
     \/ ~RetriesLeft(w, n) /\ \E c \in Transient : next("failed_permanent", Nil, c)
     \/ \E c \in Permanent : next("failed_permanent", Nil, c)
  /\ UNCHANGED <<checkpoint, told>>

Wake(w) ==
  /\ call[w].at = "sleep"
  /\ Tries(w, call[w].known)
  /\ UNCHANGED <<checkpoint, told>>

Crash(w) ==
  /\ call[w] # NoCall
  /\ Ends(w)
  /\ UNCHANGED <<checkpoint, told>>

Resumable == {Nil, checkpoint} \cup Handed

Saved(w) == SaveRunning(w) \/ SaveRetryWait(w) \/ SaveVerdict(w) \/ Import(w)

Step(w) == Load(w) \/ Saved(w) \/ Conflict(w) \/ Ask(w) \/ Wake(w)

Next ==
  \/ \E w \in Worker, c \in Content, r \in Resumable : Begin(w, c, r)
  \/ \E w \in Worker : Load(w)
  \/ \E w \in Worker : Import(w)
  \/ \E w \in Worker : SaveRunning(w)
  \/ \E w \in Worker : SaveRetryWait(w)
  \/ \E w \in Worker : SaveVerdict(w)
  \/ \E w \in Worker : Drift(w)
  \/ \E w \in Worker : Conflict(w)
  \/ \E w \in Worker : SaveLost(w)
  \/ \E w \in Worker : Ask(w)
  \/ \E w \in Worker : Wake(w)
  \/ \E w \in Worker : Crash(w)

Spec == Init /\ [][Next]_vars

(* Jobs come again for a fragment that is not decided, the provider        *)
(* answers (its client has a timeout), and of the loads and saves that are *)
(* tried again and again one gets through.                                 *)
FairSpec ==
  /\ Spec
  /\ \A w \in Worker :
       /\ \A c \in Content : /\ SF_vars(Begin(w, c, Nil))
                            /\ SF_vars(LoadFresh(w, c))
       /\ WF_vars(Step(w))
       /\ SF_vars(Saved(w))

-------------------------------------------------------------------------------
(* Properties.                                                             *)

IsDecided == checkpoint # Nil /\ checkpoint.status \in Decided

(* One verdict per fragment and generation, and nobody is ever told        *)
(* another: not the worker whose attempt was overtaken, not the one that   *)
(* finds the attempts used up while another is still asking.  Attempts     *)
(* only grow.                                                              *)
Task == INSTANCE FactTask WITH
  attempts <- Attempts(checkpoint),
  verdict <- IF IsDecided THEN VerdictOf(checkpoint) ELSE Nil
ImplementsFactTask == Task!Spec

(* The provider is asked, and its answer used, only under an attempt that  *)
(* was durable before: a crash cannot make a paid call uncounted.          *)
Charged ==
  \A w \in Worker :
    call[w].known # Nil =>
      /\ checkpoint # Nil
      /\ checkpoint.attempts >= call[w].known.attempts

(* A save is refused only if another call has moved the checkpoint since   *)
(* this one read or wrote it.  FactExtractionCheckpointConflict says so:   *)
(* "Stable conflict for divergent durable extraction state."               *)
ConflictMeansDivergence ==
  \A w \in Worker :
    call[w].at \in {"import", "save"} /\ checkpoint = call[w].known =>
      Accepted(call[w].next)

(* A fragment that somebody keeps asking for is decided in the end, in     *)
(* spite of crashes and lost answers.                                      *)
EventuallyDecided == <>IsDecided
===============================================================================
