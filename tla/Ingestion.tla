------------------------------- MODULE Ingestion -------------------------------
(***************************************************************************)
(* KnowledgeIngestionPipeline.ingest for one source version and embedding  *)
(* generation, over the PostgreSQL checkpoint, the table of evidence       *)
(* fragments and LightRAG.  Several workers may be in the call: a job's    *)
(* lease can run out under a live worker, and canary runs ingest directly. *)
(* Workers crash and are cancelled, and the answer of a write can be lost. *)
(*                                                                         *)
(* What a parse retains can differ from one call to the next, because the  *)
(* assessment of the blocks is a provider's: _same_evidence_identity       *)
(* speaks of "retry-variant assessment/provider metadata".                 *)
(*                                                                         *)
(* A checkpoint's lifecycle status follows from its job status and         *)
(* fragment count (Lifecycle); selection and identity are those of the     *)
(* key.  An operator whose name ends in _JobOnly or the like is a faulty   *)
(* variant of the one below it; no action uses it.                         *)
(***************************************************************************)
EXTENDS Naturals, FiniteSets

CONSTANTS
  Worker,
  Fragment,
  Parses,      \* sets of fragments that a parse of the source may retain
  MaxRetry,  \* bound: retries that are explored
  Absent

Milestone == {"select", "spool", "parse", "retain", "index"}
Rank(stage) ==
  CASE stage = "select" -> 2 [] stage = "spool" -> 3 [] stage = "parse" -> 4
    [] stage = "retain" -> 5 [] OTHER -> 6

OpenJob == {"queued", "running", "retry_wait", "failed_retryable"}
TerminalJob == {"succeeded", "failed_permanent", "cancelled"}

Checkpoint ==
  [stage : Milestone, job : OpenJob \cup TerminalJob, attempt : 0..MaxRetry,
   count : 0..Cardinality(Fragment) \cup {Absent}, indexed : BOOLEAN]
MakeCheckpoint(stage, job, attempt, count, indexed) ==
  [stage |-> stage, job |-> job, attempt |-> attempt, count |-> count,
   indexed |-> indexed]

ASSUME IngestionAssumption ==
  /\ IsFiniteSet(Fragment)
  /\ Parses \subseteq SUBSET Fragment
  /\ MaxRetry \in Nat
  /\ Absent \notin Checkpoint \cup Nat
  /\ \A F \in SUBSET Fragment : F # Absent

VARIABLES
  checkpoint,  \* the row of knowledge_ingestion_checkpoints
  evidence,    \* rows of knowledge_evidence_fragments under the key
  accepted,    \* external: batches of documents that LightRAG has accepted
  ingest,      \* ingest[w]: the ingest call of worker w
  told         \* history: outcomes that were returned

ingestVars == <<checkpoint, evidence, accepted, ingest, told>>

CallAt == {"idle", "load", "register", "create", "save", "spool", "parse",
       "persist", "fragments", "insert", "record"}
MakeIngest(at, known, next, fragments) ==
  [at |-> at, known |-> known, next |-> next, fragments |-> fragments]
NoIngest == MakeIngest("idle", Absent, Absent, Absent)

(* Only what was parsed has a count, and only what was counted is indexed. *)
Staged(c) ==
  /\ c.count # Absent <=> c.stage \in {"retain", "index"}
  /\ c.indexed => c.stage = "index"
  /\ c.job = "succeeded" => c.indexed

IngestTypeOK ==
  /\ checkpoint \in Checkpoint \cup {Absent}
  /\ checkpoint # Absent => Staged(checkpoint)
  /\ evidence \subseteq Fragment
  /\ accepted \subseteq SUBSET Fragment
  /\ ingest \in [Worker -> [at : CallAt, known : Checkpoint \cup {Absent},
                          next : Checkpoint \cup {Absent},
                          fragments : (SUBSET Fragment) \cup {Absent}]]
  /\ told \subseteq {"indexed", "parsed_no_value"}

IngestInit ==
  /\ checkpoint = Absent
  /\ evidence = {}
  /\ accepted = {}
  /\ ingest = [w \in Worker |-> NoIngest]
  /\ told = {}

-------------------------------------------------------------------------------
(* The state machine of checkpoints.                                       *)
New(job) == MakeCheckpoint("select", job, 0, Absent, FALSE)
WithJob(c, job) == MakeCheckpoint(c.stage, job, c.attempt, c.count, c.indexed)
Waiting(c) == MakeCheckpoint(c.stage, "retry_wait", c.attempt + 1, c.count, c.indexed)

Advanced(c, stage) == MakeCheckpoint(stage, c.job, c.attempt, c.count, c.indexed)
Counted(c, n) == MakeCheckpoint("retain", c.job, c.attempt, n, c.indexed)
Indexed(c) == MakeCheckpoint(c.stage, c.job, c.attempt, c.count, TRUE)

Lifecycle(c) ==
  CASE c.job = "failed_permanent" -> "failed_permanent"
    [] c.job = "succeeded" -> IF c.count > 0 THEN "evidence_retained" ELSE "parsed_no_value"
    [] OTHER -> "parse_eligible"

(* What the repository lets replace the stored checkpoint.                 *)
Acceptable_JobOnly(c) ==
  checkpoint # Absent =>
    /\ Rank(checkpoint.stage) <= Rank(c.stage)
    /\ checkpoint.attempt <= c.attempt
    /\ checkpoint.job \in TerminalJob => c.job = checkpoint.job
Acceptable(c) ==
  checkpoint # Absent =>
    /\ Rank(checkpoint.stage) <= Rank(c.stage)
    /\ checkpoint.attempt <= c.attempt
    /\ checkpoint.job \in TerminalJob =>
         c.job = checkpoint.job /\ Lifecycle(c) = Lifecycle(checkpoint)

Saved(c) == Acceptable(c) /\ checkpoint' = c

(* A write whose answer is not seen.                                       *)
PerhapsSaved(c) == Saved(c) \/ UNCHANGED checkpoint

-------------------------------------------------------------------------------
Goes(w, k) == ingest' = [ingest EXCEPT ![w] = k]
EndsCall(w) == Goes(w, NoIngest) /\ UNCHANGED told

Saves(w, c) == Goes(w, MakeIngest("save", ingest[w].known, c, ingest[w].fragments))

(* Where a running checkpoint goes on, with the fragments F if they are at *)
(* hand.                                                                   *)
GoesOn(w, c, F) ==
  LET saves(next) == Goes(w, MakeIngest("save", c, next, F))
      goes(at) == Goes(w, MakeIngest(at, c, Absent, F))
  IN
  \/ c.indexed /\ saves(WithJob(c, "succeeded"))
  \/ ~c.indexed /\ c.stage = "select" /\ saves(Advanced(c, "spool"))
  \/ ~c.indexed /\ c.stage \in {"spool", "parse"} /\ goes(c.stage)
  \/ ~c.indexed /\ c.stage \in {"retain", "index"} /\ F = Absent /\ goes("fragments")
  \/ ~c.indexed /\ c.stage = "retain" /\ F # Absent /\ saves(Advanced(c, "index"))
  \/ ~c.indexed /\ c.stage = "index" /\ F # Absent /\ goes("insert")

(* _record_failure: what _JOB_TRANSITIONS does not allow is not recorded.  *)
Disposition == {"retryable", "permanent", "cancelled"}
FailedAs(d) ==
  CASE d = "retryable" -> "failed_retryable"
    [] d = "permanent" -> "failed_permanent"
    [] OTHER -> "cancelled"
Recordable(job, d) ==
  \/ d = "cancelled"
  \/ d = "permanent" /\ job # "queued"
  \/ d = "retryable" /\ job \in {"running", "failed_retryable"}

Fails(w, d) ==
  /\ LET c == ingest[w].known IN
     Goes(w, IF Recordable(c.job, d)
               THEN MakeIngest("record", c, WithJob(c, FailedAs(d)), Absent)
               ELSE NoIngest)
  /\ UNCHANGED told

-------------------------------------------------------------------------------
(* register_selection: a checkpoint is queued if there was none.           *)
RegisterLoad(w) ==
  /\ ingest[w] = NoIngest
  /\ checkpoint = Absent
  /\ Goes(w, MakeIngest("register", Absent, New("queued"), Absent))
  /\ UNCHANGED <<checkpoint, evidence, accepted, told>>

RegisterSave(w) ==
  /\ ingest[w].at = "register"
  /\ PerhapsSaved(ingest[w].next)
  /\ EndsCall(w)
  /\ UNCHANGED <<evidence, accepted>>

BeginIngest(w) ==
  /\ ingest[w] = NoIngest
  /\ Goes(w, MakeIngest("load", Absent, Absent, Absent))
  /\ UNCHANGED <<checkpoint, evidence, accepted, told>>

(* ingest up to the first write; _ensure_running starts here.              *)
Load(w) ==
  /\ ingest[w].at = "load"
  /\ LET c == checkpoint
         saves(next) == Goes(w, MakeIngest("save", c, next, Absent)) /\ UNCHANGED told
     IN
     \/ /\ c = Absent
        /\ Goes(w, MakeIngest("create", Absent, New("running"), Absent))
        /\ UNCHANGED told
     \/ c # Absent /\ c.job = "succeeded" /\ Goes(w, NoIngest) /\ told' = told \cup {
          IF c.count > 0 THEN "indexed" ELSE "parsed_no_value"}
     \/ c # Absent /\ c.job \in TerminalJob \ {"succeeded"} /\ EndsCall(w)
     \/ c # Absent /\ c.job = "running" /\ GoesOn(w, c, Absent) /\ UNCHANGED told
     \/ c # Absent /\ c.job \in {"queued", "retry_wait"} /\ saves(WithJob(c, "running"))
     \/ c # Absent /\ c.job = "failed_retryable" /\ c.attempt < MaxRetry /\ saves(Waiting(c))
  /\ UNCHANGED <<checkpoint, evidence, accepted>>

(* The first checkpoint; if that fails, nothing more is recorded.          *)
Create(w) ==
  /\ ingest[w].at = "create"
  /\ \/ Saved(ingest[w].next) /\ GoesOn(w, ingest[w].next, Absent) /\ UNCHANGED told
     \/ PerhapsSaved(ingest[w].next) /\ EndsCall(w)
  /\ UNCHANGED <<evidence, accepted>>

(* _persist_checkpoint: the call goes on from what it has stored.          *)
SaveWaiting(w) ==
  /\ ingest[w].at = "save"
  /\ LET c == ingest[w].next IN
     /\ c.job = "retry_wait"
     /\ Saved(c)
     /\ Goes(w, MakeIngest("save", c, WithJob(c, "running"), Absent))
  /\ UNCHANGED <<evidence, accepted, told>>

SaveRunning(w) ==
  /\ ingest[w].at = "save"
  /\ LET c == ingest[w].next IN
     /\ c.job = "running"
     /\ Saved(c)
     /\ GoesOn(w, c, ingest[w].fragments)
  /\ UNCHANGED <<evidence, accepted, told>>

SaveSucceeded(w) ==
  /\ ingest[w].at = "save"
  /\ LET c == ingest[w].next IN
     /\ c.job = "succeeded"
     /\ Saved(c)
     /\ told' = told \cup {IF c.count > 0 THEN "indexed" ELSE "parsed_no_value"}
  /\ Goes(w, NoIngest)
  /\ UNCHANGED <<evidence, accepted>>

SaveRefused(w) ==
  /\ ingest[w].at = "save"
  /\ ~Acceptable(ingest[w].next)
  /\ Fails(w, "retryable")
  /\ UNCHANGED <<checkpoint, evidence, accepted>>

SaveLost(w) ==
  /\ ingest[w].at = "save"
  /\ PerhapsSaved(ingest[w].next)
  /\ \E d \in {"retryable", "cancelled"} : Fails(w, d)
  /\ UNCHANGED <<evidence, accepted>>

(* The source is found, unchanged, and there is room in the spool.         *)
Spool(w) ==
  /\ ingest[w].at = "spool"
  /\ \/ Saves(w, Advanced(ingest[w].known, "parse")) /\ UNCHANGED told
     \/ \E d \in Disposition : Fails(w, d)
  /\ UNCHANGED <<checkpoint, evidence, accepted>>

ParseBody(w) ==
  /\ ingest[w].at = "parse"
  /\ \/ /\ \E F \in Parses : Goes(w, MakeIngest("persist", ingest[w].known, Absent, F))
        /\ UNCHANGED told
     \/ \E d \in Disposition : Fails(w, d)
  /\ UNCHANGED <<checkpoint, evidence, accepted>>

(* persist_many: one transaction that adds what is not there.              *)
Durable_RolledBack(F) == evidence
Durable(F) == evidence \cup F

Persist(w) ==
  /\ ingest[w].at = "persist"
  /\ evidence' = Durable(ingest[w].fragments)
  /\ Saves(w, Counted(ingest[w].known, Cardinality(ingest[w].fragments)))
  /\ UNCHANGED <<checkpoint, accepted, told>>

PersistFails(w) ==
  /\ ingest[w].at = "persist"
  /\ ingest[w].fragments # {}
  /\ \/ /\ evidence' \in {evidence, Durable(ingest[w].fragments)}
        /\ \E d \in {"retryable", "cancelled"} : Fails(w, d)
     \/ Fails(w, "permanent") /\ UNCHANGED evidence    \* unsafe text
  /\ UNCHANGED <<checkpoint, accepted>>

(* _load_durable_fragments.                                                *)
LoadFragments(w) ==
  /\ ingest[w].at = "fragments"
  /\ LET c == ingest[w].known IN
     \/ Cardinality(evidence) = c.count /\ GoesOn(w, c, evidence) /\ UNCHANGED told
     \/ Cardinality(evidence) # c.count /\ Fails(w, "permanent")
     \/ \E d \in {"retryable", "cancelled"} : Fails(w, d)
  /\ UNCHANGED <<checkpoint, evidence, accepted>>

(* LightRAG: processed, accepted before (409), or an error after which     *)
(* nobody knows.                                                           *)
Insert(w) ==
  /\ ingest[w].at = "insert"
  /\ LET F == ingest[w].fragments IN
     /\ accepted' = IF F = {} THEN accepted ELSE accepted \cup {F}
     /\ Saves(w, Indexed(ingest[w].known))
  /\ UNCHANGED <<checkpoint, evidence, told>>

InsertFails(w) ==
  /\ ingest[w].at = "insert"
  /\ ingest[w].fragments # {}
  /\ accepted' \in {accepted, accepted \cup {ingest[w].fragments}}
  /\ \E d \in Disposition : Fails(w, d)
  /\ UNCHANGED <<checkpoint, evidence>>

(* A failure to record the failure is swallowed.                           *)
RecordUsage(w) ==
  /\ ingest[w].at = "record"
  /\ PerhapsSaved(ingest[w].next)
  /\ EndsCall(w)
  /\ UNCHANGED <<evidence, accepted>>

(* The process dies, or is cancelled or refused a read where nothing is    *)
(* recorded.                                                               *)
Dies(w) ==
  /\ ingest[w] # NoIngest
  /\ EndsCall(w)
  /\ UNCHANGED <<checkpoint, evidence, accepted>>

IngestNext ==
  \/ \E w \in Worker : RegisterLoad(w)
  \/ \E w \in Worker : RegisterSave(w)
  \/ \E w \in Worker : BeginIngest(w)
  \/ \E w \in Worker : Load(w)
  \/ \E w \in Worker : Create(w)
  \/ \E w \in Worker : SaveWaiting(w)
  \/ \E w \in Worker : SaveRunning(w)
  \/ \E w \in Worker : SaveSucceeded(w)
  \/ \E w \in Worker : SaveRefused(w)
  \/ \E w \in Worker : SaveLost(w)
  \/ \E w \in Worker : Spool(w)
  \/ \E w \in Worker : ParseBody(w)
  \/ \E w \in Worker : Persist(w)
  \/ \E w \in Worker : PersistFails(w)
  \/ \E w \in Worker : LoadFragments(w)
  \/ \E w \in Worker : Insert(w)
  \/ \E w \in Worker : InsertFails(w)
  \/ \E w \in Worker : RecordUsage(w)
  \/ \E w \in Worker : Dies(w)

IngestSpec == IngestInit /\ [][IngestNext]_ingestVars

-------------------------------------------------------------------------------
(* Properties.                                                             *)

(* Evidence before everything that refers to it: what LightRAG has         *)
(* accepted and what a checkpoint counts is durable, whoever else parses   *)
(* the source at the same time and whatever that parse retains.            *)
EvidenceFirst ==
  /\ \A F \in accepted : F \subseteq evidence
  /\ checkpoint # Absent /\ checkpoint.count # Absent =>
       checkpoint.count <= Cardinality(evidence)

(* A source that is done was handed to LightRAG as it was counted: no      *)
(* order of crashes, retries and rivals skips the index.                   *)
SucceededIsIndexed ==
  checkpoint # Absent /\ checkpoint.job = "succeeded" /\ checkpoint.count > 0 =>
    \E F \in accepted : Cardinality(F) = checkpoint.count

(* The order of the stores, from end to end: no index without durable      *)
(* evidence, no success without the index.                                 *)
EvidenceIndexed == EvidenceFirst /\ SucceededIsIndexed

(* The outcome a caller was given stays the stored one: nobody who parses  *)
(* the source again turns "indexed" into "parsed_no_value" or back.        *)
OutcomesStand ==
  \A o \in told :
    /\ checkpoint # Absent
    /\ checkpoint.job = "succeeded"
    /\ o = "indexed" <=> checkpoint.count > 0

(* What is done is whole: the evidence under the key of a source that is   *)
(* done is what its checkpoint counts, and was indexed together.  The      *)
(* documentation says that "deterministic idempotency keys, checkpoints,   *)
(* ... prevent partial or duplicated ingestion".                           *)
SucceededIsWhole ==
  checkpoint # Absent /\ checkpoint.job = "succeeded" =>
    /\ checkpoint.count = Cardinality(evidence)
    /\ evidence # {} => evidence \in accepted
===============================================================================
