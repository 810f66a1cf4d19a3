------------------------------ MODULE SourceProofs ------------------------------
(***************************************************************************)
(* Proofs about the way of the sources into the knowledge base: Ingestion  *)
(* of a version of one, MetadataCursor over the manifest of them all,      *)
(* SourceBody from the NAS through the spool to the parser, with           *)
(* EvidenceRetention of what is parsed, and SourceCatalog.                 *)
(*                                                                         *)
(* Ingestion.  Sound says what every checkpoint satisfies that is stored,  *)
(* or that a call holds and may store later: it counts no more than what   *)
(* is durable, and if it is indexed then LightRAG was handed as many       *)
(* fragments as it counts.  That has to be said of the checkpoints in      *)
(* flight, because any of them may replace the stored one whenever the     *)
(* state machine of checkpoints lets it.  CallSound adds what a call       *)
(* knows at each of its stages; in particular the fragments that it hands  *)
(* to LightRAG are durable and are as many as its checkpoint counts.       *)
(*                                                                         *)
(* MetadataCursor.  Truthful says of a cursor that all it has passed of a  *)
(* version is in the catalogue and that it counts it once; it is said of   *)
(* the stored one and, in ReadingTrue, of those that readings have in      *)
(* hand, as long as their bytes are of the version they looked at.         *)
(* Upserts only add to the catalogue, so a truthful cursor stays so        *)
(* whoever stores it.  A version that is known and whose call was not      *)
(* overtaken is still the one published, so that no other can be read.     *)
(*                                                                         *)
(* SourceBody.  KnowsItsFile follows a call from its first look at a file  *)
(* to the parser: while nobody replaces the file under the download, the   *)
(* version there, the one opened and that of every chunk are the same.     *)
(* HoldsItsOwn says that no two calls hold one reservation, and relates it *)
(* to what the call has written.  For the limits, MayGrowTo gives each     *)
(* directory what its call was promised while the call still writes, and   *)
(* what is there otherwise; only a reservation makes its sum larger, and   *)
(* a reservation is granted against what is on disk and promised then.     *)
(* The sums are the folds of the community modules.  LeastSubset, the      *)
(* induction over a finite set in a form that needs no operator, shows     *)
(* that they are sums: that they do not depend on the order of choice, and *)
(* change by what one value changes.                                       *)
(*                                                                         *)
(* EvidenceRetention.  The loops are folds and a recursive function; what  *)
(* they leave after so many rows is said without them (Stacked of the      *)
(* headings, KeptSoFar of the blocks) and kept by one more row, so that    *)
(* there can be no first row after which it is wrong.  Ranked is a ranking,*)
(* since the assessments of the blocks are strictly ordered (Ranks).       *)
(*                                                                         *)
(* SourceCatalog.  Settled says that all sources agree but those of the    *)
(* digests a transaction has yet to reconcile; it is said of the table and *)
(* of what each transaction would see.  A row that a transaction changes   *)
(* had, and has, a digest whose lock it holds, so the commit of another    *)
(* does not reach into its digests (OthersStand).  If no upserts overlap,  *)
(* RelationsFit and RelationsFull say the same of relations, but for the   *)
(* DOIs that are Pending.                                                  *)
(***************************************************************************)
EXTENDS Ingestion, MetadataCursor, SourceBody, SourceCatalog, FiniteSetTheorems,
        WellFoundedInduction, TLAPS

(* A checkpoint over the evidence E and the accepted batches A.            *)
Sound(c, E, A) ==
  /\ c \in Checkpoint
  /\ Staged(c)
  /\ c.count # Absent => c.count <= Cardinality(E)
  /\ c.indexed /\ c.count > 0 => \E F \in A : Cardinality(F) = c.count

(* The fragments F that go with checkpoint c, if they are at hand.         *)
AtHand(c, F, E) ==
  F # Absent => F \in SUBSET Fragment /\ F \subseteq E /\ Cardinality(F) = c.count

IngestCall ==
  [at : CallAt, known : Checkpoint \cup {Absent}, next : Checkpoint \cup {Absent},
   fragments : (SUBSET Fragment) \cup {Absent}]

CallSound(k, E, A) ==
  /\ k.known # Absent => Sound(k.known, E, A)
  /\ k.next # Absent => Sound(k.next, E, A)
  /\ k.at \in {"save", "spool", "parse", "persist", "fragments", "insert"} => k.known # Absent
  /\ k.at \in {"register", "create", "save", "record"} => k.next # Absent
  /\ k.at \in {"spool", "parse"} => k.known.stage = k.at /\ k.fragments = Absent
  /\ k.at = "persist" => k.known.stage = "parse" /\ k.fragments # Absent
  /\ k.at = "save" => AtHand(k.next, k.fragments, E)
  /\ k.at = "insert" =>
       k.known.stage = "index" /\ k.fragments # Absent /\ AtHand(k.known, k.fragments, E)

IngestInv ==
  /\ IngestTypeOK
  /\ \A F \in accepted : F \subseteq evidence
  /\ checkpoint # Absent => Sound(checkpoint, evidence, accepted)
  /\ \A w \in Worker : CallSound(ingest[w], evidence, accepted)
  /\ OutcomesStand
-------------------------------------------------------------------------------
LEMMA StageNames ==
  ASSUME NEW c \in Checkpoint
  PROVE  /\ c.stage \in {"select", "spool", "parse", "retain", "index"}
         /\ c.job \in OpenJob \cup TerminalJob
         /\ c.attempt \in 0..MaxRetry
         /\ c.count \in 0..Cardinality(Fragment) \cup {Absent}
         /\ c.indexed \in BOOLEAN
  BY DEF Checkpoint, Milestone

(* Absent is no value of any kind that it stands in for.                   *)
LEMMA AbsentIsNothing ==
  /\ Absent \notin Checkpoint
  /\ Absent \notin Nat
  /\ Absent \notin SUBSET Fragment
  BY IngestionAssumption

LEMMA FragmentCounts ==
  ASSUME NEW E, E \subseteq Fragment
  PROVE  /\ IsFiniteSet(E)
         /\ Cardinality(E) \in Nat
         /\ Cardinality(Fragment) \in Nat
         /\ Cardinality(E) \in 0..Cardinality(Fragment)
         /\ \A F \in SUBSET E : Cardinality(F) \in Nat /\ Cardinality(F) <= Cardinality(E)
  <1>1. IsFiniteSet(Fragment) /\ IsFiniteSet(E)
        BY IngestionAssumption, FS_Subset
  <1>2. Cardinality(E) \in Nat /\ Cardinality(Fragment) \in Nat
        BY <1>1, FS_CardinalityType
  <1>3. Cardinality(E) <= Cardinality(Fragment)
        BY <1>1, FS_Subset
  <1>4. ASSUME NEW F \in SUBSET E
        PROVE  Cardinality(F) \in Nat /\ Cardinality(F) <= Cardinality(E)
        <2>1. IsFiniteSet(F) /\ Cardinality(F) <= Cardinality(E)
              BY <1>1, FS_Subset
        <2> QED BY <2>1, FS_CardinalityType
  <1> QED BY <1>1, <1>2, <1>3, <1>4

LEMMA SoundGrows ==
  ASSUME NEW c, NEW E, NEW A, NEW E2, NEW A2,
         Sound(c, E, A), E \subseteq E2, E2 \subseteq Fragment, A \subseteq A2
  PROVE  Sound(c, E2, A2)
  <1>1. Cardinality(E) \in Nat /\ Cardinality(E2) \in Nat /\ Cardinality(E) <= Cardinality(E2)
        BY FragmentCounts
  <1>2. c \in Checkpoint /\ Staged(c)
        BY DEF Sound
  <1>3. ASSUME c.count # Absent
        PROVE  c.count <= Cardinality(E2)
        <2>1. c.count \in Nat
              BY <1>2, <1>3, StageNames
        <2> QED BY <1>1, <1>3, <2>1 DEF Sound
  <1>4. c.indexed /\ c.count > 0 => \E F \in A2 : Cardinality(F) = c.count
        BY DEF Sound
  <1> QED BY <1>2, <1>3, <1>4 DEF Sound

LEMMA CallGrows ==
  ASSUME NEW k, NEW E, NEW A, NEW E2, NEW A2,
         CallSound(k, E, A), E \subseteq E2, E2 \subseteq Fragment, A \subseteq A2
  PROVE  CallSound(k, E2, A2)
  <1>1. k.known # Absent => Sound(k.known, E2, A2)
        BY SoundGrows DEF CallSound
  <1>2. k.next # Absent => Sound(k.next, E2, A2)
        BY SoundGrows DEF CallSound
  <1>3. \A c : AtHand(c, k.fragments, E) => AtHand(c, k.fragments, E2)
        BY DEF AtHand
  <1> QED BY <1>1, <1>2, <1>3 DEF CallSound

(* What the state machine of checkpoints makes of a sound one is sound.    *)
LEMMA NewSound ==
  ASSUME NEW E, NEW A, NEW job \in {"queued", "running"}
  PROVE  Sound(New(job), E, A)
  <1>1. MaxRetry \in Nat
        BY IngestionAssumption
  <1> QED BY <1>1 DEF Sound, New, MakeCheckpoint, Checkpoint, Staged, Milestone, OpenJob

LEMMA WithJobSound ==
  ASSUME NEW c, NEW E, NEW A, Sound(c, E, A),
         NEW job \in OpenJob \cup TerminalJob, job = "succeeded" => c.indexed
  PROVE  Sound(WithJob(c, job), E, A) /\ WithJob(c, job).count = c.count
  <1>1. c \in Checkpoint /\ Staged(c)
        BY DEF Sound
  <1>2. WithJob(c, job) \in Checkpoint
        BY <1>1 DEF Checkpoint, WithJob, MakeCheckpoint
  <1> QED BY <1>1, <1>2 DEF Sound, Staged, WithJob, MakeCheckpoint

LEMMA WaitingSound ==
  ASSUME NEW c, NEW E, NEW A, Sound(c, E, A), c.attempt < MaxRetry
  PROVE  Sound(Waiting(c), E, A)
  <1>1. c \in Checkpoint /\ Staged(c) /\ MaxRetry \in Nat
        BY IngestionAssumption DEF Sound
  <1>2. Waiting(c) \in Checkpoint
        BY <1>1 DEF Checkpoint, Waiting, MakeCheckpoint, OpenJob
  <1> QED BY <1>1, <1>2 DEF Sound, Staged, Waiting, MakeCheckpoint

(* From selection to spooling to parsing, and from retention to the index. *)
Follows(from, to) == <<from, to>> \in {<<"select", "spool">>, <<"spool", "parse">>, <<"retain", "index">>}

LEMMA AdvancedSound ==
  ASSUME NEW c, NEW E, NEW A, Sound(c, E, A), NEW stage, Follows(c.stage, stage)
  PROVE  Sound(Advanced(c, stage), E, A) /\ Advanced(c, stage).count = c.count
  <1>1. c \in Checkpoint /\ Staged(c)
        BY DEF Sound
  <1>2. Advanced(c, stage) \in Checkpoint
        BY <1>1 DEF Checkpoint, Advanced, MakeCheckpoint, Follows, Milestone
  <1> QED BY <1>1, <1>2 DEF Sound, Staged, Advanced, MakeCheckpoint, Follows

LEMMA CountedSound ==
  ASSUME NEW c, NEW E, NEW A, Sound(c, E, A), c.stage = "parse",
         NEW E2, E2 \subseteq Fragment, NEW F \in SUBSET E2
  PROVE  Sound(Counted(c, Cardinality(F)), E2, A)
  <1>1. c \in Checkpoint /\ Staged(c)
        BY DEF Sound
  <1>2. Cardinality(F) \in 0..Cardinality(Fragment) /\ Cardinality(F) <= Cardinality(E2)
        BY FragmentCounts
  <1>3. Cardinality(F) # Absent
        BY <1>2, AbsentIsNothing
  <1>4. ~c.indexed /\ c.indexed \in BOOLEAN
        BY <1>1, StageNames DEF Staged
  <1>5. Counted(c, Cardinality(F)) \in Checkpoint
        BY <1>1, <1>2 DEF Checkpoint, Counted, MakeCheckpoint, Milestone
  <1>6. c.job # "succeeded"
        BY <1>1, <1>4 DEF Staged
  <1> QED BY <1>1, <1>2, <1>3, <1>4, <1>5, <1>6 DEF Sound, Staged, Counted, MakeCheckpoint

LEMMA IndexedSound ==
  ASSUME NEW c, NEW E, NEW A, Sound(c, E, A), c.stage = "index",
         NEW F \in SUBSET Fragment, Cardinality(F) = c.count
  PROVE  Sound(Indexed(c), E, IF F = {} THEN A ELSE A \cup {F})
  <1>1. c \in Checkpoint /\ Staged(c)
        BY DEF Sound
  <1>2. Indexed(c) \in Checkpoint
        BY <1>1 DEF Checkpoint, Indexed, MakeCheckpoint
  <1>3. F = {} => c.count = 0
        BY FS_EmptySet
  <1> QED BY <1>1, <1>2, <1>3 DEF Sound, Staged, Indexed, MakeCheckpoint
-------------------------------------------------------------------------------
(* The call of w becomes k, the stores grow, and the stored checkpoint is  *)
(* the old one or one that w held.                                         *)
Allowed(k, E, A) == k \in IngestCall /\ CallSound(k, E, A)

StepTo(w, k) ==
  /\ ingest' = [ingest EXCEPT ![w] = k]
  /\ Allowed(k, evidence', accepted')
  /\ evidence \subseteq evidence' /\ evidence' \subseteq Fragment
  /\ accepted \subseteq accepted' /\ \A F \in accepted' : F \subseteq evidence'
  /\ checkpoint' # checkpoint =>
       Acceptable(checkpoint') /\ Sound(checkpoint', evidence', accepted')

LEMMA StoredSound ==
  ASSUME IngestInv, NEW w \in Worker, NEW k, StepTo(w, k)
  PROVE  checkpoint' # Absent => Sound(checkpoint', evidence', accepted')
  BY SoundGrows DEF IngestInv, StepTo

LEMMA CallsSound ==
  ASSUME IngestInv, NEW w \in Worker, NEW k, StepTo(w, k)
  PROVE  /\ ingest' \in [Worker -> IngestCall]
         /\ \A v \in Worker : CallSound(ingest'[v], evidence', accepted')
  <1>1. ingest \in [Worker -> IngestCall]
        BY DEF IngestInv, IngestTypeOK, IngestCall
  <1>2. k \in IngestCall /\ ingest' = [ingest EXCEPT ![w] = k]
        BY DEF StepTo, Allowed
  <1>3. ASSUME NEW v \in Worker
        PROVE  CallSound(ingest'[v], evidence', accepted')
        <2>1. CASE v = w
              BY <1>1, <1>2, <2>1 DEF StepTo, Allowed
        <2>2. CASE v # w
              <3>1. ingest'[v] = ingest[v]
                    BY <1>1, <1>2, <2>2
              <3>2. CallSound(ingest[v], evidence, accepted)
                    BY DEF IngestInv
              <3> QED BY <3>1, <3>2, CallGrows DEF StepTo
        <2> QED BY <2>1, <2>2
  <1> QED BY <1>1, <1>2, <1>3

(* A checkpoint that succeeded was counted, and its lifecycle tells        *)
(* whether there was anything to count.                                    *)
LEMMA SucceededCounts ==
  ASSUME NEW c, NEW E, NEW A, Sound(c, E, A), c.job = "succeeded"
  PROVE  /\ c.count \in Nat
         /\ Lifecycle(c) = IF c.count > 0 THEN "evidence_retained" ELSE "parsed_no_value"
  <1>1. c.count \in Nat
        BY StageNames DEF Sound, Staged
  <1> QED BY <1>1 DEF Lifecycle

(* Whatever replaces a checkpoint that succeeded has its outcome.          *)
LEMMA OutcomeKept ==
  ASSUME IngestInv, NEW w \in Worker, NEW k, StepTo(w, k),
         checkpoint # Absent, checkpoint.job = "succeeded"
  PROVE  /\ checkpoint' # Absent /\ checkpoint'.job = "succeeded"
         /\ checkpoint'.count > 0 <=> checkpoint.count > 0
  <1>1. CASE checkpoint' = checkpoint
        BY <1>1
  <1>2. CASE checkpoint' # checkpoint
        <2>1. /\ Acceptable(checkpoint')
              /\ Sound(checkpoint', evidence', accepted')
              /\ Sound(checkpoint, evidence, accepted)
              BY <1>2 DEF StepTo, IngestInv
        <2>2. checkpoint'.job = "succeeded" /\ Lifecycle(checkpoint') = Lifecycle(checkpoint)
              BY <2>1 DEF Acceptable, TerminalJob
        <2>3. checkpoint' # Absent
              BY <2>1, AbsentIsNothing DEF Sound
        <2>4. checkpoint'.count > 0 <=> checkpoint.count > 0
              BY <2>1, <2>2, SucceededCounts
        <2> QED BY <2>2, <2>3, <2>4
  <1> QED BY <1>1, <1>2

LEMMA InvKept ==
  ASSUME IngestInv, NEW w \in Worker, NEW k, StepTo(w, k),
         told' \subseteq told \cup {"indexed", "parsed_no_value"},
         \A o \in told' \ told :
           /\ checkpoint' # Absent /\ checkpoint'.job = "succeeded"
           /\ o = "indexed" <=> checkpoint'.count > 0
  PROVE  IngestInv'
  <1>1. checkpoint' # Absent => Sound(checkpoint', evidence', accepted')
        BY StoredSound
  <1>2. /\ ingest' \in [Worker -> IngestCall]
        /\ \A v \in Worker : CallSound(ingest'[v], evidence', accepted')
        BY CallsSound
  <1>3. evidence' \subseteq Fragment /\ \A F \in accepted' : F \subseteq evidence'
        BY DEF StepTo
  <1>4. told' \subseteq {"indexed", "parsed_no_value"}
        BY DEF IngestInv, IngestTypeOK
  <1>5. IngestTypeOK'
        <2>1. accepted' \subseteq SUBSET Fragment
              BY <1>3
        <2>2. checkpoint' \in Checkpoint \cup {Absent} /\ (checkpoint' # Absent => Staged(checkpoint)')
              BY <1>1 DEF Sound, Staged
        <2> QED BY <1>2, <1>3, <1>4, <2>1, <2>2 DEF IngestTypeOK, IngestCall
  <1>6. OutcomesStand'
        <2>1. ASSUME NEW o \in told'
              PROVE  /\ checkpoint' # Absent /\ checkpoint'.job = "succeeded"
                     /\ o = "indexed" <=> checkpoint'.count > 0
              <3>1. CASE o \in told
                    <4>1. /\ checkpoint # Absent /\ checkpoint.job = "succeeded"
                          /\ o = "indexed" <=> checkpoint.count > 0
                          BY <3>1 DEF IngestInv, OutcomesStand
                    <4> QED BY <4>1, OutcomeKept
              <3> QED BY <3>1
        <2> QED BY <2>1 DEF OutcomesStand
  <1> QED BY <1>1, <1>2, <1>3, <1>5, <1>6 DEF IngestInv

(* Nothing but the call changes, or the checkpoint that the call held.     *)
LEMMA QuietKeeps ==
  ASSUME IngestInv, NEW w \in Worker, NEW k,
         ingest' = [ingest EXCEPT ![w] = k], Allowed(k, evidence, accepted),
         UNCHANGED <<evidence, accepted, told>>,
         checkpoint' # checkpoint =>
           Acceptable(checkpoint') /\ Sound(checkpoint', evidence, accepted)
  PROVE  IngestInv'
  <1>1. evidence \subseteq Fragment /\ \A F \in accepted : F \subseteq evidence
        BY DEF IngestInv, IngestTypeOK
  <1>2. StepTo(w, k)
        BY <1>1 DEF StepTo
  <1> QED BY <1>2, InvKept
-------------------------------------------------------------------------------
(* What the calls become.                                                  *)
LEMMA NoIngestAllowed ==
  ASSUME NEW E, NEW A
  PROVE  Allowed(NoIngest, E, A)
  BY DEF Allowed, CallSound, NoIngest, MakeIngest, IngestCall, CallAt

LEMMA SavingAllowed ==
  ASSUME NEW E, NEW A, NEW c, Sound(c, E, A), NEW next, Sound(next, E, A),
         NEW F \in (SUBSET Fragment) \cup {Absent}, AtHand(next, F, E)
  PROVE  Allowed(MakeIngest("save", c, next, F), E, A)
  <1> DEFINE k == MakeIngest("save", c, next, F)
  <1>1. c \in Checkpoint /\ next \in Checkpoint /\ c # Absent /\ next # Absent
        BY AbsentIsNothing DEF Sound
  <1>2. k.at = "save" /\ k.known = c /\ k.next = next /\ k.fragments = F /\ k \in IngestCall
        BY <1>1 DEF MakeIngest, IngestCall, CallAt
  <1>3. CallSound(k, E, A)
        <2> HIDE DEF k
        <2> QED BY <1>1, <1>2 DEF CallSound
  <1> QED BY <1>2, <1>3 DEF Allowed

LEMMA GoesOnAllowed ==
  ASSUME IngestInv, NEW w \in Worker, NEW c, Sound(c, evidence, accepted),
         NEW F \in (SUBSET Fragment) \cup {Absent}, AtHand(c, F, evidence), GoesOn(w, c, F)
  PROVE  \E k : Allowed(k, evidence, accepted) /\ ingest' = [ingest EXCEPT ![w] = k]
  <1>1. c \in Checkpoint /\ Staged(c) /\ c # Absent
        BY AbsentIsNothing DEF Sound
  <1>2. CASE c.indexed /\ Goes(w, MakeIngest("save", c, WithJob(c, "succeeded"), F))
        <2>1. Sound(WithJob(c, "succeeded"), evidence, accepted)
              /\ AtHand(WithJob(c, "succeeded"), F, evidence)
              BY <1>2, WithJobSound DEF AtHand, TerminalJob
        <2>2. Allowed(MakeIngest("save", c, WithJob(c, "succeeded"), F), evidence, accepted)
              BY <2>1, SavingAllowed
        <2> QED BY <1>2, <2>2 DEF Goes
  <1>3. ASSUME NEW stage, Follows(c.stage, stage),
               Goes(w, MakeIngest("save", c, Advanced(c, stage), F))
        PROVE  \E k : Allowed(k, evidence, accepted) /\ ingest' = [ingest EXCEPT ![w] = k]
        <2>1. Sound(Advanced(c, stage), evidence, accepted) /\ AtHand(Advanced(c, stage), F, evidence)
              BY <1>3, AdvancedSound DEF AtHand
        <2>2. Allowed(MakeIngest("save", c, Advanced(c, stage), F), evidence, accepted)
              BY <2>1, SavingAllowed
        <2> QED BY <1>3, <2>2 DEF Goes
  <1>4. ASSUME NEW at \in {"spool", "parse", "fragments", "insert"},
               at \in {"spool", "parse"} => c.stage = at,
               at = "insert" => c.stage = "index" /\ F # Absent,
               Goes(w, MakeIngest(at, c, Absent, F))
        PROVE  \E k : Allowed(k, evidence, accepted) /\ ingest' = [ingest EXCEPT ![w] = k]
        <2> DEFINE k == MakeIngest(at, c, Absent, F)
        <2>1. at \in {"spool", "parse"} => F = Absent
              <3>1. c.stage \in {"spool", "parse"} => c.count = Absent
                    BY <1>1 DEF Staged
              <3>2. F # Absent => Cardinality(F) \in Nat /\ Cardinality(F) = c.count
                    BY FragmentCounts DEF AtHand
              <3> QED BY <1>4, <3>1, <3>2, AbsentIsNothing
        <2>2. k.at = at /\ k.known = c /\ k.next = Absent /\ k.fragments = F /\ k \in IngestCall
              BY <1>1, <1>4 DEF MakeIngest, IngestCall, CallAt
        <2>3. CallSound(k, evidence, accepted)
              <3> HIDE DEF k
              <3> QED BY <1>1, <1>4, <2>1, <2>2 DEF CallSound
        <2> QED BY <1>4, <2>2, <2>3 DEF Goes, Allowed
  <1>5. CASE ~c.indexed /\ c.stage = "select" /\ Goes(w, MakeIngest("save", c, Advanced(c, "spool"), F))
        BY <1>3, <1>5 DEF Follows
  <1>6. CASE ~c.indexed /\ c.stage \in {"spool", "parse"} /\ Goes(w, MakeIngest(c.stage, c, Absent, F))
        BY <1>4, <1>6
  <1>7. CASE F = Absent /\ Goes(w, MakeIngest("fragments", c, Absent, F))
        BY <1>4, <1>7
  <1>8. CASE c.stage = "retain" /\ Goes(w, MakeIngest("save", c, Advanced(c, "index"), F))
        BY <1>3, <1>8 DEF Follows
  <1>9. CASE c.stage = "index" /\ F # Absent /\ Goes(w, MakeIngest("insert", c, Absent, F))
        BY <1>4, <1>9
  <1> QED BY <1>2, <1>5, <1>6, <1>7, <1>8, <1>9 DEF GoesOn

(* A failure is recorded of the checkpoint that the call knows.            *)
LEMMA RecordAllowed ==
  ASSUME NEW E, NEW A, NEW c, Sound(c, E, A), NEW d \in Disposition
  PROVE  Allowed(MakeIngest("record", c, WithJob(c, FailedAs(d)), Absent), E, A)
  <1> DEFINE failed == WithJob(c, FailedAs(d))
             k == MakeIngest("record", c, failed, Absent)
  <1>1. Sound(failed, E, A)
        <2>1. FailedAs(d) \in OpenJob \cup TerminalJob /\ FailedAs(d) # "succeeded"
              BY DEF FailedAs, OpenJob, TerminalJob, Disposition
        <2> QED BY <2>1, WithJobSound
  <1> HIDE DEF failed
  <1>2. c \in Checkpoint /\ failed \in Checkpoint /\ c # Absent /\ failed # Absent
        BY <1>1, AbsentIsNothing DEF Sound
  <1>3. k.at = "record" /\ k.known = c /\ k.next = failed /\ k \in IngestCall
        BY <1>2 DEF MakeIngest, IngestCall, CallAt
  <1>4. Allowed(k, E, A)
        <2> HIDE DEF k
        <2> QED BY <1>1, <1>2, <1>3 DEF CallSound, Allowed
  <1> QED BY <1>4 DEF failed

LEMMA FailsTo ==
  ASSUME NEW w \in Worker, NEW d \in Disposition, Fails(w, d)
  PROVE  LET c == ingest[w].known
             k == MakeIngest("record", c, WithJob(c, FailedAs(d)), Absent)
         IN /\ UNCHANGED told
            /\ ingest' = [ingest EXCEPT ![w] = k] \/ ingest' = [ingest EXCEPT ![w] = NoIngest]
  BY DEF Fails, Goes
-------------------------------------------------------------------------------
(* The actions.                                                            *)
LEMMA CallKnows ==
  ASSUME IngestInv, NEW w \in Worker
  PROVE  /\ ingest[w] \in IngestCall
         /\ CallSound(ingest[w], evidence, accepted)
  BY DEF IngestInv, IngestTypeOK, IngestCall

LEMMA PerhapsSavedSound ==
  ASSUME NEW c, Sound(c, evidence, accepted), PerhapsSaved(c)
  PROVE  checkpoint' # checkpoint =>
           Acceptable(checkpoint') /\ Sound(checkpoint', evidence, accepted)
  BY DEF PerhapsSaved, Saved

LEMMA RegistrationKeeps ==
  ASSUME IngestInv, NEW w \in Worker, RegisterLoad(w) \/ RegisterSave(w) \/ BeginIngest(w)
  PROVE  IngestInv'
  <1>1. CASE RegisterLoad(w)
        <2> DEFINE k == MakeIngest("register", Absent, New("queued"), Absent)
        <2>1. Sound(New("queued"), evidence, accepted)
              BY NewSound
        <2>2. New("queued") \in Checkpoint /\ New("queued") # Absent
              BY <2>1, AbsentIsNothing DEF Sound
        <2>3. Allowed(k, evidence, accepted)
              BY <2>1, <2>2 DEF Allowed, IngestCall, CallSound, MakeIngest, CallAt
        <2>4. ingest' = [ingest EXCEPT ![w] = k] /\ UNCHANGED <<checkpoint, evidence, accepted, told>>
              BY <1>1 DEF RegisterLoad, Goes
        <2> QED BY <2>3, <2>4, QuietKeeps
  <1>2. CASE RegisterSave(w)
        <2>1. Sound(ingest[w].next, evidence, accepted)
              BY <1>2, CallKnows DEF RegisterSave, CallSound
        <2>2. PerhapsSaved(ingest[w].next) /\ UNCHANGED <<evidence, accepted, told>>
              /\ ingest' = [ingest EXCEPT ![w] = NoIngest]
              BY <1>2 DEF RegisterSave, EndsCall, Goes
        <2> QED BY <2>1, <2>2, PerhapsSavedSound, NoIngestAllowed, QuietKeeps
  <1>3. CASE BeginIngest(w)
        <2>1. Allowed(MakeIngest("load", Absent, Absent, Absent), evidence, accepted)
              BY DEF Allowed, IngestCall, CallSound, MakeIngest, CallAt
        <2> QED BY <1>3, <2>1, QuietKeeps DEF BeginIngest, Goes
  <1> QED BY <1>1, <1>2, <1>3

LEMMA LoadKeeps ==
  ASSUME IngestInv, NEW w \in Worker, Load(w)
  PROVE  IngestInv'
  <1> DEFINE c == checkpoint
  <1>1. UNCHANGED <<checkpoint, evidence, accepted>>
        BY DEF Load
  <1>2. ASSUME UNCHANGED told, \E k : Allowed(k, evidence, accepted) /\ ingest' = [ingest EXCEPT ![w] = k]
        PROVE  IngestInv'
        BY <1>1, <1>2, QuietKeeps
  <1>3. c # Absent => Sound(c, evidence, accepted)
        BY DEF IngestInv
  <1>4. ASSUME c # Absent, NEW next, Sound(next, evidence, accepted),
               Goes(w, MakeIngest("save", c, next, Absent)), UNCHANGED told
        PROVE  IngestInv'
        <2>1. Allowed(MakeIngest("save", c, next, Absent), evidence, accepted)
              BY <1>3, <1>4, SavingAllowed DEF AtHand
        <2> QED BY <1>2, <1>4, <2>1 DEF Goes
  <1>5. CASE /\ c = Absent /\ Goes(w, MakeIngest("create", Absent, New("running"), Absent))
             /\ UNCHANGED told
        <2>1. Sound(New("running"), evidence, accepted)
              BY NewSound
        <2>2. New("running") \in Checkpoint /\ New("running") # Absent
              BY <2>1, AbsentIsNothing DEF Sound
        <2>3. Allowed(MakeIngest("create", Absent, New("running"), Absent), evidence, accepted)
              BY <2>1, <2>2 DEF Allowed, IngestCall, CallSound, MakeIngest, CallAt
        <2> QED BY <1>2, <1>5, <2>3 DEF Goes
  <1>6. CASE /\ c # Absent /\ c.job = "succeeded" /\ Goes(w, NoIngest)
             /\ told' = told \cup {IF c.count > 0 THEN "indexed" ELSE "parsed_no_value"}
        <2>1. StepTo(w, NoIngest)
              BY <1>1, <1>6, NoIngestAllowed DEF StepTo, Goes, IngestInv, IngestTypeOK
        <2>2. \A o \in told' \ told :
                /\ checkpoint' # Absent /\ checkpoint'.job = "succeeded"
                /\ o = "indexed" <=> checkpoint'.count > 0
              BY <1>1, <1>6
        <2> QED BY <1>6, <2>1, <2>2, InvKept
  <1>7. CASE c # Absent /\ EndsCall(w)
        BY <1>2, <1>7, NoIngestAllowed DEF EndsCall, Goes
  <1>8. CASE c # Absent /\ c.job = "running" /\ GoesOn(w, c, Absent) /\ UNCHANGED told
        <2>1. AtHand(c, Absent, evidence)
              BY DEF AtHand
        <2> QED BY <1>2, <1>3, <1>8, <2>1, GoesOnAllowed
  <1>9. CASE c # Absent /\ Goes(w, MakeIngest("save", c, WithJob(c, "running"), Absent))
             /\ UNCHANGED told
        BY <1>3, <1>4, <1>9, WithJobSound DEF OpenJob
  <1>10. CASE /\ c # Absent /\ c.attempt < MaxRetry
              /\ Goes(w, MakeIngest("save", c, Waiting(c), Absent)) /\ UNCHANGED told
         BY <1>3, <1>4, <1>10, WaitingSound
  <1> QED
    <2> HIDE DEF c
    <2>1. \/ c = Absent /\ Goes(w, MakeIngest("create", Absent, New("running"), Absent)) /\ UNCHANGED told
          \/ /\ c # Absent /\ c.job = "succeeded" /\ Goes(w, NoIngest)
             /\ told' = told \cup {IF c.count > 0 THEN "indexed" ELSE "parsed_no_value"}
          \/ c # Absent /\ EndsCall(w)
          \/ c # Absent /\ c.job = "running" /\ GoesOn(w, c, Absent) /\ UNCHANGED told
          \/ c # Absent /\ Goes(w, MakeIngest("save", c, WithJob(c, "running"), Absent)) /\ UNCHANGED told
          \/ /\ c # Absent /\ c.attempt < MaxRetry
             /\ Goes(w, MakeIngest("save", c, Waiting(c), Absent)) /\ UNCHANGED told
          BY Zenon DEF Load, c
    <2> QED BY <2>1, <1>5, <1>6, <1>7, <1>8, <1>9, <1>10

LEMMA CreateKeeps ==
  ASSUME IngestInv, NEW w \in Worker, Create(w)
  PROVE  IngestInv'
  <1>1. Sound(ingest[w].next, evidence, accepted)
        BY CallKnows DEF Create, CallSound
  <1>2. PerhapsSaved(ingest[w].next)
        BY DEF Create, PerhapsSaved
  <1>3. UNCHANGED <<evidence, accepted, told>>
        BY DEF Create, EndsCall
  <1>4. \E k : Allowed(k, evidence, accepted) /\ ingest' = [ingest EXCEPT ![w] = k]
        <2>1. CASE GoesOn(w, ingest[w].next, Absent)
              <3>1. AtHand(ingest[w].next, Absent, evidence)
                    BY DEF AtHand
              <3> QED BY <1>1, <2>1, <3>1, GoesOnAllowed
        <2>2. CASE EndsCall(w)
              BY <2>2, NoIngestAllowed DEF EndsCall, Goes
        <2> QED BY <2>1, <2>2 DEF Create
  <1> QED BY <1>1, <1>2, <1>3, <1>4, PerhapsSavedSound, QuietKeeps

(* The failure of a call that has a checkpoint, after the stores grew.     *)
LEMMA FailureKeeps ==
  ASSUME IngestInv, NEW w \in Worker, NEW d \in Disposition, Fails(w, d),
         ingest[w].known # Absent,
         evidence \subseteq evidence', evidence' \subseteq Fragment,
         accepted \subseteq accepted', \A F \in accepted' : F \subseteq evidence',
         checkpoint' # checkpoint =>
           Acceptable(checkpoint') /\ Sound(checkpoint', evidence', accepted')
  PROVE  IngestInv'
  <1> DEFINE c == ingest[w].known
             k == MakeIngest("record", c, WithJob(c, FailedAs(d)), Absent)
  <1>1. Sound(c, evidence', accepted')
        BY CallKnows, SoundGrows DEF CallSound
  <1>2. Allowed(k, evidence', accepted') /\ Allowed(NoIngest, evidence', accepted')
        <2> HIDE DEF c
        <2> QED BY <1>1, RecordAllowed, NoIngestAllowed
  <1>3. /\ UNCHANGED told
        /\ ingest' = [ingest EXCEPT ![w] = k] \/ ingest' = [ingest EXCEPT ![w] = NoIngest]
        BY FailsTo
  <1>4. StepTo(w, k) \/ StepTo(w, NoIngest)
        <2> HIDE DEF k
        <2> QED BY <1>2, <1>3 DEF StepTo
  <1> QED BY <1>3, <1>4, InvKept

LEMMA SaveKeeps ==
  ASSUME IngestInv, NEW w \in Worker,
         \/ SaveWaiting(w) \/ SaveRunning(w) \/ SaveSucceeded(w)
         \/ SaveRefused(w) \/ SaveLost(w)
  PROVE  IngestInv'
  <1> DEFINE c == ingest[w].next
  <1>1. ingest[w].at = "save"
        BY DEF SaveWaiting, SaveRunning, SaveSucceeded, SaveRefused, SaveLost
  <1>2. /\ Sound(c, evidence, accepted)
        /\ ingest[w].fragments \in (SUBSET Fragment) \cup {Absent}
        /\ AtHand(c, ingest[w].fragments, evidence)
        /\ ingest[w].known # Absent /\ Sound(ingest[w].known, evidence, accepted)
        BY <1>1, CallKnows DEF CallSound, IngestCall
  <1>3. ASSUME PerhapsSaved(c), UNCHANGED <<evidence, accepted, told>>,
               \E k : Allowed(k, evidence, accepted) /\ ingest' = [ingest EXCEPT ![w] = k]
        PROVE  IngestInv'
        BY <1>2, <1>3, PerhapsSavedSound, QuietKeeps
  <1>4. evidence \subseteq Fragment /\ \A F \in accepted : F \subseteq evidence
        BY DEF IngestInv, IngestTypeOK
  <1>5. CASE SaveWaiting(w)
        <2>1. Sound(WithJob(c, "running"), evidence, accepted)
              BY <1>2, WithJobSound DEF OpenJob
        <2>2. Allowed(MakeIngest("save", c, WithJob(c, "running"), Absent), evidence, accepted)
              BY <1>2, <2>1, SavingAllowed DEF AtHand
        <2>3. PerhapsSaved(c) /\ UNCHANGED <<evidence, accepted, told>>
              /\ Goes(w, MakeIngest("save", c, WithJob(c, "running"), Absent))
              BY <1>5 DEF SaveWaiting, PerhapsSaved
        <2> QED BY <1>3, <2>2, <2>3 DEF Goes
  <1>6. CASE SaveRunning(w)
        <2>1. PerhapsSaved(c) /\ UNCHANGED <<evidence, accepted, told>>
              /\ GoesOn(w, c, ingest[w].fragments)
              BY <1>6 DEF SaveRunning, PerhapsSaved
        <2>2. \E k : Allowed(k, evidence, accepted) /\ ingest' = [ingest EXCEPT ![w] = k]
              <3> HIDE DEF c
              <3> QED BY <1>2, <2>1, GoesOnAllowed
        <2> QED BY <1>3, <2>1, <2>2
  <1>7. CASE SaveSucceeded(w)
        <2>1. /\ c.job = "succeeded" /\ Saved(c)
              /\ told' = told \cup {IF c.count > 0 THEN "indexed" ELSE "parsed_no_value"}
              /\ ingest' = [ingest EXCEPT ![w] = NoIngest]
              /\ UNCHANGED <<evidence, accepted>>
              BY <1>7 DEF SaveSucceeded, Goes
        <2>2. c # Absent
              BY <1>2, AbsentIsNothing DEF Sound
        <2>3. StepTo(w, NoIngest)
              BY <1>2, <2>1, NoIngestAllowed DEF StepTo, Saved, IngestInv, IngestTypeOK
        <2>4. \A o \in told' \ told :
                /\ checkpoint' # Absent /\ checkpoint'.job = "succeeded"
                /\ o = "indexed" <=> checkpoint'.count > 0
              BY <2>1, <2>2 DEF Saved
        <2> QED BY <2>1, <2>3, <2>4, InvKept
  <1>8. CASE SaveRefused(w)
        <2>1. Fails(w, "retryable") /\ UNCHANGED <<checkpoint, evidence, accepted>>
              BY <1>8 DEF SaveRefused
        <2> QED BY <1>2, <1>4, <2>1, FailureKeeps DEF Disposition
  <1>9. CASE SaveLost(w)
        <2>1. PICK d \in {"retryable", "cancelled"} : Fails(w, d)
              BY <1>9 DEF SaveLost
        <2>2. PerhapsSaved(c) /\ UNCHANGED <<evidence, accepted>>
              BY <1>9 DEF SaveLost
        <2>3. checkpoint' # checkpoint =>
                Acceptable(checkpoint') /\ Sound(checkpoint', evidence', accepted')
              BY <1>2, <2>2, PerhapsSavedSound
        <2> QED BY <1>2, <1>4, <2>1, <2>2, <2>3, FailureKeeps DEF Disposition
  <1> QED BY <1>5, <1>6, <1>7, <1>8, <1>9

LEMMA SpoolAndParseKeep ==
  ASSUME IngestInv, NEW w \in Worker, Spool(w) \/ ParseBody(w)
  PROVE  IngestInv'
  <1> DEFINE c == ingest[w].known
  <1>1. /\ evidence \subseteq Fragment /\ \A F \in accepted : F \subseteq evidence
        /\ UNCHANGED <<checkpoint, evidence, accepted>>
        BY DEF IngestInv, IngestTypeOK, Spool, ParseBody
  <1>2. /\ ingest[w].at \in {"spool", "parse"} /\ c # Absent
        /\ c.stage = ingest[w].at /\ ingest[w].fragments = Absent
        /\ Sound(c, evidence, accepted)
        BY CallKnows DEF CallSound, Spool, ParseBody
  <1>3. ASSUME NEW d \in Disposition, Fails(w, d)
        PROVE  IngestInv'
        BY <1>1, <1>2, <1>3, FailureKeeps
  <1>4. CASE ingest[w].at = "spool" /\ Saves(w, Advanced(c, "parse")) /\ UNCHANGED told
        <2>1. Sound(Advanced(c, "parse"), evidence, accepted)
              BY <1>2, <1>4, AdvancedSound DEF Follows
        <2>2. Allowed(MakeIngest("save", c, Advanced(c, "parse"), Absent), evidence, accepted)
              BY <1>2, <2>1, SavingAllowed DEF AtHand
        <2>3. ingest' = [ingest EXCEPT ![w] = MakeIngest("save", c, Advanced(c, "parse"), Absent)]
              BY <1>2, <1>4 DEF Saves, Goes
        <2> QED BY <1>1, <1>4, <2>2, <2>3, QuietKeeps
  <1>5. ASSUME ingest[w].at = "parse", UNCHANGED told,
               NEW F \in Parses, Goes(w, MakeIngest("persist", c, Absent, F))
        PROVE  IngestInv'
        <2> DEFINE k == MakeIngest("persist", c, Absent, F)
        <2>1. F \in SUBSET Fragment /\ F # Absent
              BY IngestionAssumption
        <2>2. c \in Checkpoint /\ Sound(c, evidence, accepted) /\ c.stage = "parse"
              BY <1>2, <1>5 DEF Sound
        <2>3. k.at = "persist" /\ k.known = c /\ k.next = Absent /\ k.fragments = F /\ k \in IngestCall
              <3>1. k = MakeIngest("persist", c, Absent, F)
                    OBVIOUS
              <3> HIDE DEF k, c
              <3> QED BY <2>1, <2>2, <3>1 DEF MakeIngest, IngestCall, CallAt
        <2>4. CallSound(k, evidence, accepted)
              <3> HIDE DEF k, c
              <3> QED BY <1>2, <2>1, <2>2, <2>3 DEF CallSound
        <2> QED BY <1>1, <1>5, <2>3, <2>4, QuietKeeps DEF Goes, Allowed
  <1> QED BY <1>3, <1>4, <1>5 DEF Spool, ParseBody

LEMMA PersistKeeps ==
  ASSUME IngestInv, NEW w \in Worker, Persist(w) \/ PersistFails(w)
  PROVE  IngestInv'
  <1> DEFINE c == ingest[w].known
             F == ingest[w].fragments
  <1>1. /\ F \in SUBSET Fragment /\ F # Absent
        /\ c # Absent /\ Sound(c, evidence, accepted) /\ c.stage = "parse"
        BY CallKnows DEF CallSound, IngestCall, Persist, PersistFails
  <1>2. /\ evidence' \in {evidence, evidence \cup F} /\ UNCHANGED <<checkpoint, accepted, told>>
        BY DEF Persist, PersistFails, Durable, Fails
  <1>3. /\ evidence \subseteq evidence' /\ evidence' \subseteq Fragment
        /\ \A G \in accepted' : G \subseteq evidence'
        BY <1>1, <1>2 DEF IngestInv, IngestTypeOK
  <1>4. CASE Persist(w)
        <2> DEFINE next == Counted(c, Cardinality(F))
                   k == MakeIngest("save", c, next, F)
        <2>1. F \in SUBSET evidence'
              BY <1>4 DEF Persist, Durable
        <2>2. Sound(next, evidence', accepted') /\ Sound(c, evidence', accepted')
              BY <1>1, <1>2, <1>3, <2>1, CountedSound, SoundGrows
        <2>3. AtHand(next, F, evidence')
              BY <1>1, <2>1 DEF AtHand, Counted, MakeCheckpoint
        <2>4. Allowed(k, evidence', accepted')
              <3> HIDE DEF next, c, F
              <3> QED BY <1>1, <2>2, <2>3, SavingAllowed
        <2>5. ingest' = [ingest EXCEPT ![w] = k]
              BY <1>4 DEF Persist, Saves, Goes
        <2>6. StepTo(w, k)
              <3> HIDE DEF k
              <3> QED BY <1>2, <1>3, <2>4, <2>5 DEF StepTo
        <2> QED BY <1>2, <2>6, InvKept
  <1>5. CASE PersistFails(w)
        <2>1. PICK d \in Disposition : Fails(w, d)
              BY <1>5 DEF PersistFails, Disposition
        <2> QED BY <1>1, <1>2, <1>3, <2>1, FailureKeeps
  <1> QED BY <1>4, <1>5

LEMMA LoadFragmentsKeeps ==
  ASSUME IngestInv, NEW w \in Worker, LoadFragments(w)
  PROVE  IngestInv'
  <1> DEFINE c == ingest[w].known
  <1>1. /\ evidence \subseteq Fragment /\ \A F \in accepted : F \subseteq evidence
        /\ UNCHANGED <<checkpoint, evidence, accepted>>
        BY DEF IngestInv, IngestTypeOK, LoadFragments
  <1>2. c # Absent /\ Sound(c, evidence, accepted)
        BY CallKnows DEF CallSound, LoadFragments
  <1>3. CASE Cardinality(evidence) = c.count /\ GoesOn(w, c, evidence) /\ UNCHANGED told
        <2>1. AtHand(c, evidence, evidence)
              BY <1>1, <1>3 DEF AtHand
        <2>2. \E k : Allowed(k, evidence, accepted) /\ ingest' = [ingest EXCEPT ![w] = k]
              <3> HIDE DEF c
              <3> QED BY <1>1, <1>2, <1>3, <2>1, GoesOnAllowed
        <2> QED BY <1>1, <1>3, <2>2, QuietKeeps
  <1>4. ASSUME NEW d \in Disposition, Fails(w, d)
        PROVE  IngestInv'
        BY <1>1, <1>2, <1>4, FailureKeeps
  <1> QED BY <1>3, <1>4 DEF LoadFragments, Disposition

LEMMA InsertKeeps ==
  ASSUME IngestInv, NEW w \in Worker, Insert(w) \/ InsertFails(w)
  PROVE  IngestInv'
  <1> DEFINE c == ingest[w].known
             F == ingest[w].fragments
  <1>1. /\ F \in SUBSET Fragment /\ F # Absent /\ AtHand(c, F, evidence)
        /\ c # Absent /\ Sound(c, evidence, accepted) /\ c.stage = "index"
        BY CallKnows DEF CallSound, IngestCall, Insert, InsertFails
  <1>2. F \subseteq evidence /\ Cardinality(F) = c.count
        BY <1>1 DEF AtHand
  <1>3. accepted' \in {accepted, accepted \cup {F}} /\ UNCHANGED <<checkpoint, evidence, told>>
        BY DEF Insert, InsertFails, Fails
  <1>4. /\ accepted \subseteq accepted' /\ evidence' \subseteq Fragment
        /\ \A G \in accepted' : G \subseteq evidence'
        BY <1>2, <1>3 DEF IngestInv, IngestTypeOK
  <1>5. CASE Insert(w)
        <2> DEFINE k == MakeIngest("save", c, Indexed(c), F)
        <2>1. accepted' = IF F = {} THEN accepted ELSE accepted \cup {F}
              BY <1>5 DEF Insert
        <2>2. Sound(Indexed(c), evidence', accepted') /\ Sound(c, evidence', accepted')
              <3>1. Sound(Indexed(c), evidence, IF F = {} THEN accepted ELSE accepted \cup {F})
                    <4> HIDE DEF c, F
                    <4> QED BY <1>1, <1>2, IndexedSound
              <3>2. Sound(c, evidence', accepted')
                    BY <1>1, <1>3, <1>4, SoundGrows
              <3>3. evidence' = evidence
                    BY <1>3
              <3> QED BY <2>1, <3>1, <3>2, <3>3
        <2>3. AtHand(Indexed(c), F, evidence')
              BY <1>1, <1>2, <1>3 DEF AtHand, Indexed, MakeCheckpoint
        <2>4. Allowed(k, evidence', accepted')
              <3> HIDE DEF c, F
              <3> QED BY <1>1, <2>2, <2>3, SavingAllowed
        <2>5. ingest' = [ingest EXCEPT ![w] = k]
              BY <1>5 DEF Insert, Saves, Goes
        <2>6. StepTo(w, k)
              <3> HIDE DEF k
              <3> QED BY <1>3, <1>4, <2>4, <2>5 DEF StepTo
        <2> QED BY <1>3, <2>6, InvKept
  <1>6. CASE InsertFails(w)
        <2>1. PICK d \in Disposition : Fails(w, d)
              BY <1>6 DEF InsertFails
        <2> QED BY <1>1, <1>3, <1>4, <2>1, FailureKeeps
  <1> QED BY <1>5, <1>6

LEMMA EndKeeps ==
  ASSUME IngestInv, NEW w \in Worker, RecordUsage(w) \/ Dies(w)
  PROVE  IngestInv'
  <1>1. /\ UNCHANGED <<evidence, accepted, told>>
        /\ ingest' = [ingest EXCEPT ![w] = NoIngest]
        BY DEF RecordUsage, Dies, EndsCall, Goes
  <1>2. checkpoint' # checkpoint =>
          Acceptable(checkpoint') /\ Sound(checkpoint', evidence, accepted)
        <2>1. CASE RecordUsage(w)
              <3>1. Sound(ingest[w].next, evidence, accepted) /\ PerhapsSaved(ingest[w].next)
                    BY <2>1, CallKnows DEF RecordUsage, CallSound
              <3> QED BY <3>1, PerhapsSavedSound
        <2>2. CASE Dies(w)
              BY <2>2 DEF Dies
        <2> QED BY <2>1, <2>2
  <1> QED BY <1>1, <1>2, NoIngestAllowed, QuietKeeps

LEMMA IngestInitially == IngestInit => IngestInv
  <1> SUFFICES ASSUME IngestInit
               PROVE  IngestInv
      OBVIOUS
  <1>1. NoIngest \in IngestCall /\ CallSound(NoIngest, evidence, accepted)
        BY NoIngestAllowed DEF Allowed
  <1>2. IngestTypeOK
        BY <1>1 DEF IngestInit, IngestTypeOK, IngestCall
  <1> QED BY <1>1, <1>2 DEF IngestInit, IngestInv, OutcomesStand

LEMMA IngestStep == IngestInv /\ [IngestNext]_ingestVars => IngestInv'
  <1> SUFFICES ASSUME IngestInv, [IngestNext]_ingestVars
               PROVE  IngestInv'
      OBVIOUS
  <1>1. CASE UNCHANGED ingestVars
        BY <1>1 DEF ingestVars, IngestInv, IngestTypeOK, OutcomesStand, Staged
  <1>2. ASSUME NEW w \in Worker,
               RegisterLoad(w) \/ RegisterSave(w) \/ BeginIngest(w) \/ Load(w) \/ Create(w)
        PROVE  IngestInv'
        BY <1>2, RegistrationKeeps, LoadKeeps, CreateKeeps
  <1>3. ASSUME NEW w \in Worker,
               \/ SaveWaiting(w) \/ SaveRunning(w) \/ SaveSucceeded(w)
               \/ SaveRefused(w) \/ SaveLost(w)
        PROVE  IngestInv'
        BY <1>3, SaveKeeps
  <1>4. ASSUME NEW w \in Worker,
               Spool(w) \/ ParseBody(w) \/ Persist(w) \/ PersistFails(w) \/ LoadFragments(w)
        PROVE  IngestInv'
        BY <1>4, SpoolAndParseKeep, PersistKeeps, LoadFragmentsKeeps
  <1>5. ASSUME NEW w \in Worker, Insert(w) \/ InsertFails(w) \/ RecordUsage(w) \/ Dies(w)
        PROVE  IngestInv'
        BY <1>5, InsertKeeps, EndKeeps
  <1> QED BY <1>1, <1>2, <1>3, <1>4, <1>5 DEF IngestNext

(* What is stored, and what any call in progress may store, refers only to *)
(* evidence that is durable, through crashes, retries and rivals.          *)
THEOREM IngestInvariance == IngestSpec => []IngestInv
  BY IngestInitially, IngestStep, PTL DEF IngestSpec

(* Evidence before all that refers to it, and no success without the       *)
(* index, for any number of workers, fragments and retries.                *)
THEOREM EvidenceIsIndexed == IngestSpec => []EvidenceIndexed
  <1>1. IngestInv => EvidenceIndexed
        <2> SUFFICES ASSUME IngestInv
                     PROVE  EvidenceIndexed
            OBVIOUS
        <2>1. EvidenceFirst
              BY DEF IngestInv, EvidenceFirst, Sound
        <2>2. SucceededIsIndexed
              BY DEF IngestInv, SucceededIsIndexed, Sound, Staged
        <2> QED BY <2>1, <2>2 DEF EvidenceIndexed
  <1> QED BY <1>1, IngestInvariance, PTL

(* The outcome a caller was given is never turned into the other one.      *)
THEOREM OutcomesAreKept == IngestSpec => []OutcomesStand
  <1>1. IngestInv => OutcomesStand
        BY DEF IngestInv
  <1> QED BY <1>1, IngestInvariance, PTL
-------------------------------------------------------------------------------
(* MetadataCursor.                                                         *)

(* What was read of v up to cursor p is in the catalogue C, and counted.   *)
Catalogued(v, n, C) == \A i \in Records(v, n) : <<v, i>> \in C
Measured(v, p) ==
  /\ p.offset <= LineCount(v)
  /\ p.records = Cardinality(Records(v, p.offset))
Truthful(v, p, C) == Measured(v, p) /\ Catalogued(v, p.offset, C)
Headed(p) == format = "csv" => (p.header <=> p.offset > 0)

Reading ==
  [at : CursorAt, version : (1..LastVersion) \cup {Unset}, from : (1..LastVersion) \cup {Unset},
   progress : Cursor \cup {Unset}, touched : BOOLEAN]
Streaming == {"stream", "upsert", "save"}

(* The bytes of call k are those of the file it looked at, so far.         *)
Straight(k) == k.at \in {"open", "download"} \/ (k.at \in Streaming /\ k.from = k.version)

(* A call, where P is published, K are the known versions and C is the     *)
(* catalogue: if its version is known and it was not overtaken then the    *)
(* file is still there, and if it reads that file then its cursor is true  *)
(* but for the record it is about to upsert.                               *)
ReadingTyped(k, P) ==
  /\ k.at # "idle" => k.version \in 1..P
  /\ k.at \in {"open", "download"} \cup Streaming =>
       /\ k.progress \in Cursor /\ k.progress.key = Key(k.version)
       /\ Headed(k.progress)
  /\ k.at \in Streaming => k.from \in k.version..P
ReadingTrue(k, P, K, C) ==
  k.version \in K =>
    /\ k.at \in Unwatched /\ ~k.touched => k.version = P
    /\ Straight(k) =>
         /\ Measured(k.version, k.progress)
         /\ \A i \in Records(k.version, k.progress.offset) :
              (k.at = "upsert" => i # k.progress.offset) => <<k.version, i>> \in C

(* The stored cursor p and the reports R.                                  *)
StoreTyped(p, R, P) ==
  /\ p # Unset => Headed(p) /\ \E u \in 1..P : p.key = Key(u)
  /\ R \subseteq 1..P
StoreTrue(p, R, K, C) ==
  \A v \in K :
    /\ p # Unset /\ p.key = Key(v) => Truthful(v, p, C)
    /\ v \in R => Catalogued(v, LineCount(v), C)

CursorInv ==
  /\ CursorTypeOK
  /\ reading \in [Reader -> Reading]
  /\ StoreTyped(cursor, reported, published)
  /\ StoreTrue(cursor, reported, Known, catalogue)
  /\ \A w \in Reader : ReadingTyped(reading[w], published)
  /\ \A w \in Reader : ReadingTrue(reading[w], published, Known, catalogue)

LEMMA ManifestLines ==
  ASSUME CursorTypeOK, NEW v \in 1..LastVersion
  PROVE  Lines(v) \in Seq(Kind) /\ LineCount(v) \in Nat
  <1>1. format \in Format
        BY DEF CursorTypeOK
  <1>2. Manifest[format] \in [1..LastVersion -> Seq(Kind)]
        BY <1>1, ManifestAssumption
  <1>3. Lines(v) \in Seq(Kind)
        BY <1>2 DEF Lines
  <1> QED BY <1>3 DEF LineCount

LEMMA PublishedVersions ==
  ASSUME CursorTypeOK
  PROVE  /\ published \in Nat /\ published \in 1..LastVersion /\ 1..published \subseteq 1..LastVersion
         /\ Known \subseteq 1..published
  BY ManifestAssumption DEF CursorTypeOK, Known

LEMMA KeyTyped ==
  ASSUME CursorTypeOK, NEW v \in 1..LastVersion
  PROVE  Key(v) \in Keys
  <1>1. LineCount(v) \in Nat /\ Mtime[v] \in Nat
        BY ManifestLines, ManifestAssumption
  <1> QED BY <1>1 DEF Key, Keys

LEMMA UnsetIsNoCursor == Unset \notin Cursor
  <1>1. Cursor \subseteq [key : [size : Nat \cup {Unset}, mtime : Nat \cup {Unset}],
                          offset : Nat, records : Nat, header : BOOLEAN]
        BY DEF Cursor, Keys
  <1> QED BY <1>1, ManifestAssumption

(* One more line is one more record, if it is one.                         *)
LEMMA RecordsPassed ==
  ASSUME CursorTypeOK, NEW v \in 1..LastVersion, NEW n \in Nat, n < LineCount(v)
  PROVE  LET one == Lines(v)[n + 1] = "record" IN
         /\ Records(v, n + 1) = IF one THEN Records(v, n) \cup {n + 1} ELSE Records(v, n)
         /\ Cardinality(Records(v, n + 1)) =
              IF one THEN Cardinality(Records(v, n)) + 1 ELSE Cardinality(Records(v, n))
  <1>1. LineCount(v) \in Nat
        BY ManifestLines
  <1>2. Records(v, n + 1) =
          IF Lines(v)[n + 1] = "record" THEN Records(v, n) \cup {n + 1} ELSE Records(v, n)
        BY <1>1 DEF Records
  <1>3. IsFiniteSet(1..n)
        BY FS_Interval
  <1>4. IsFiniteSet(Records(v, n)) /\ n + 1 \notin Records(v, n)
        <2>1. Records(v, n) \subseteq 1..n
              BY <1>1 DEF Records
        <2> QED BY <1>3, <2>1, FS_Subset
  <1>5. Cardinality(Records(v, n) \cup {n + 1}) = Cardinality(Records(v, n)) + 1
        BY <1>4, FS_AddElement
  <1> QED BY <1>2, <1>5

LEMMA NoRecords ==
  ASSUME NEW v
  PROVE  Records(v, 0) = {} /\ Cardinality(Records(v, 0)) = 0
  <1>1. Records(v, 0) = {}
        BY DEF Records
  <1> QED BY <1>1, FS_EmptySet

(* The next line of any version leaves the header known from line 1 on.    *)
LEMMA PassedTyped ==
  ASSUME CursorTypeOK, NEW v \in 1..LastVersion, NEW p \in Cursor, Headed(p),
         p.offset < LineCount(v), Lines(v)[p.offset + 1] # "bad"
  PROVE  LET kind == Lines(v)[p.offset + 1]
             q == Passed(p, kind)
         IN /\ q \in Cursor /\ q.key = p.key /\ q.offset = p.offset + 1 /\ Headed(q)
            /\ q.records = (IF kind = "record" THEN p.records + 1 ELSE p.records)
  <1> DEFINE kind == Lines(v)[p.offset + 1]
             q == Passed(p, kind)
  <1>1. /\ p.offset \in Nat /\ p.records \in Nat /\ p.header \in BOOLEAN /\ p.key \in Keys
        /\ Lines(v) \in Seq(Kind) /\ LineCount(v) \in Nat
        BY ManifestLines DEF Cursor
  <1>2. kind \in Kind /\ p.offset + 1 \in DOMAIN Lines(v)
        BY <1>1 DEF LineCount
  <1>3. /\ q.key = p.key /\ q.offset = p.offset + 1
        /\ q.records = (IF kind = "record" THEN p.records + 1 ELSE p.records)
        /\ q.header = (p.header \/ kind = "header")
        /\ q \in Cursor
        BY <1>1 DEF Passed, MakeCursor, Cursor
  <1>4. Headed(q)
        <2> SUFFICES ASSUME format = "csv"
                     PROVE  q.header
            BY <1>1, <1>3 DEF Headed
        <2>1. \A i \in DOMAIN Lines(v) : i = 1 => Lines(v)[i] \in {"header", "bad"}
              BY <1>1, ManifestAssumption DEF Lines
        <2>2. CASE p.offset = 0
              <3>1. p.offset + 1 = 1
                    BY <2>2
              <3>2. kind \in {"header", "bad"}
                    BY <1>2, <2>1, <3>1
              <3>3. kind # "bad"
                    OBVIOUS
              <3> QED BY <1>3, <3>2, <3>3
        <2>3. CASE p.offset # 0
              BY <1>1, <1>3, <2>3 DEF Headed
        <2> QED BY <2>2, <2>3
  <1> QED BY <1>3, <1>4

(* With fewer known versions and a larger catalogue nothing is lost.       *)
LEMMA ReadingGrows ==
  ASSUME NEW k, NEW P, NEW K, NEW L, NEW C, NEW D,
         ReadingTrue(k, P, K, C), L \subseteq K, C \subseteq D
  PROVE  ReadingTrue(k, P, L, D)
  BY DEF ReadingTrue

LEMMA KnownShrinks ==
  ASSUME UNCHANGED <<format, nas, published>>, overtaken \subseteq overtaken'
  PROVE  Known' \subseteq Known
  BY DEF Known, Alone, Key, LineCount, Lines

(* One call goes on as k, the catalogue grows and the stores are as true.  *)
LEMMA ReadingKeeps ==
  ASSUME CursorInv, NEW w \in Reader, NEW k \in Reading,
         reading' = [reading EXCEPT ![w] = k], UNCHANGED <<format, nas, published>>,
         overtaken \subseteq overtaken', overtaken' \subseteq 1..LastVersion,
         catalogue \subseteq catalogue', catalogue' \subseteq (1..LastVersion) \X Nat,
         ReadingTyped(k, published), ReadingTrue(k, published, Known', catalogue'),
         cursor' \in Cursor \cup {Unset}, StoreTyped(cursor', reported', published),
         StoreTrue(cursor', reported', Known', catalogue')
  PROVE  CursorInv'
  <1>1. reading' \in [Reader -> Reading]
        BY DEF CursorInv
  <1>2. Known' \subseteq Known
        BY KnownShrinks
  <1>3. \A v \in Reader : ReadingTyped(reading'[v], published)
        BY DEF CursorInv
  <1>4. \A v \in Reader : ReadingTrue(reading'[v], published, Known', catalogue')
        <2> SUFFICES ASSUME NEW v \in Reader
                     PROVE  ReadingTrue(reading'[v], published, Known', catalogue')
            OBVIOUS
        <2>1. CASE v = w
              BY <2>1 DEF CursorInv
        <2>2. CASE v # w
              <3>1. reading'[v] = reading[v]
                    BY <2>2 DEF CursorInv
              <3>2. ReadingTrue(reading[v], published, Known, catalogue)
                    BY DEF CursorInv
              <3> QED BY <1>2, <3>1, <3>2, ReadingGrows
        <2> QED BY <2>1, <2>2
  <1>5. \A v \in Reader : ReadingTyped(reading[v], published)'
        BY <1>3 DEF ReadingTyped, Headed, Key, LineCount, Lines
  <1>6. \A v \in Reader : ReadingTrue(reading[v], published, Known, catalogue)'
        BY <1>4 DEF ReadingTrue, Straight, Measured, Unwatched, LineCount, Lines, Records
  <1>7. StoreTyped(cursor, reported, published)'
        BY DEF StoreTyped, Headed, Key, LineCount, Lines
  <1>8. StoreTrue(cursor, reported, Known, catalogue)'
        BY DEF StoreTrue, Truthful, Measured, Catalogued, Key, LineCount, Lines, Records
  <1>9. CursorTypeOK'
        <2>1. \A v \in Reader : reading'[v] \in Reading
              BY <1>1
        <2>2. cursor' # Unset /\ format' = "csv" => (cursor'.header <=> cursor'.offset > 0)
              BY <1>7 DEF StoreTyped, Headed
        <2>3. reported' \subseteq 1..LastVersion /\ overtaken' \subseteq 1..LastVersion
              BY PublishedVersions DEF StoreTyped, CursorInv
        <2> QED BY <2>1, <2>2, <2>3 DEF CursorInv, CursorTypeOK, Reading
  <1> QED BY <1>1, <1>5, <1>6, <1>7, <1>8, <1>9 DEF CursorInv

LEMMA NoReadingTrue ==
  /\ NoReading \in Reading
  /\ \A P, K, C : ReadingTyped(NoReading, P) /\ ReadingTrue(NoReading, P, K, C)
  <1>1. /\ NoReading \in Reading /\ NoReading.at = "idle" /\ NoReading.version = Unset
        BY DEF NoReading, MakeReading, Reading, CursorAt
  <1> QED BY <1>1 DEF ReadingTyped, ReadingTrue, Streaming, Straight, Unwatched

LEMMA ReaderKnows ==
  ASSUME CursorInv, NEW w \in Reader
  PROVE  /\ reading[w] \in Reading /\ ReadingTyped(reading[w], published)
         /\ ReadingTrue(reading[w], published, Known, catalogue)
  BY DEF CursorInv

LEMMA StoresTyped ==
  ASSUME CursorInv
  PROVE  /\ catalogue \subseteq (1..LastVersion) \X Nat
         /\ cursor \in Cursor \cup {Unset}
         /\ overtaken \subseteq 1..LastVersion /\ Unset \notin 1..LastVersion
         /\ published \in Nat /\ published \in 1..LastVersion /\ 1..published \subseteq 1..LastVersion
         /\ Known \subseteq 1..published
         /\ StoreTyped(cursor, reported, published)
         /\ StoreTrue(cursor, reported, Known, catalogue)
  <1>1. Unset \notin 1..LastVersion
        BY ManifestAssumption
  <1> QED BY <1>1, PublishedVersions DEF CursorInv, CursorTypeOK

(* Whatever fails, the call is over and the stores are as they were.       *)
LEMMA StopKeeps ==
  ASSUME CursorInv, NEW w \in Reader, Stops(w), Untouched
  PROVE  CursorInv'
  <1>1. reading' = [reading EXCEPT ![w] = NoReading]
        BY DEF Stops, Reads
  <1>2. /\ UNCHANGED <<format, nas, published, cursor, catalogue, reported, overtaken>>
        /\ Known' \subseteq Known
        BY KnownShrinks DEF Untouched
  <1>3. StoreTrue(cursor', reported', Known', catalogue')
        BY <1>2, StoresTyped DEF StoreTrue
  <1> QED BY <1>1, <1>2, <1>3, NoReadingTrue, StoresTyped, ReadingKeeps

(* The call goes on as k, the stores as they were.                         *)
LEMMA GoingKeeps ==
  ASSUME CursorInv, NEW w \in Reader, NEW k \in Reading, Reads(w, k), Untouched,
         ReadingTyped(k, published), ReadingTrue(k, published, Known, catalogue)
  PROVE  CursorInv'
  <1>1. /\ UNCHANGED <<format, nas, published, cursor, catalogue, reported, overtaken>>
        /\ Known' \subseteq Known
        BY KnownShrinks DEF Untouched
  <1>2. StoreTrue(cursor', reported', Known', catalogue')
        BY <1>1, StoresTyped DEF StoreTrue
  <1>3. ReadingTrue(k, published, Known', catalogue')
        BY <1>1, ReadingGrows
  <1> QED BY <1>1, <1>2, <1>3, StoresTyped, ReadingKeeps DEF Reads

LEMMA StatKeeps ==
  ASSUME CursorInv, NEW w \in Reader, StatManifest(w)
  PROVE  CursorInv'
  <1> DEFINE k == MakeReading("load", published, Unset, Unset, FALSE)
  <1>1. /\ k \in Reading /\ k.at = "load" /\ k.version = published
        BY StoresTyped DEF MakeReading, Reading, CursorAt
  <1>2. ReadingTyped(k, published) /\ ReadingTrue(k, published, Known, catalogue)
        <2> HIDE DEF k
        <2> QED BY <1>1, StoresTyped DEF ReadingTyped, ReadingTrue, Streaming, Straight
  <1>3. Reads(w, k) /\ Untouched
        BY DEF StatManifest
  <1> HIDE DEF k
  <1> QED BY <1>1, <1>2, <1>3, GoingKeeps

LEMMA LoadCursorKeeps ==
  ASSUME CursorInv, NEW w \in Reader, LoadCursor(w)
  PROVE  CursorInv'
  <1> DEFINE r == reading[w]
             v == r.version
             p == Resumed(v)
             k == [r EXCEPT !.at = "open", !.progress = p]
  <1>1. r \in Reading /\ r.at = "load" /\ v \in 1..published /\ v \in 1..LastVersion
        BY ReaderKnows, StoresTyped DEF LoadCursor, ReadingTyped
  <1>2. LineCount(v) \in Nat /\ Key(v) \in Keys
        BY <1>1, ManifestLines, KeyTyped DEF CursorInv
  <1>3. ASSUME p.key = Key(v)
        PROVE  p \in Cursor /\ Headed(p) /\ (v \in Known => Truthful(v, p, catalogue))
        <2>1. CASE cursor = Unset
              <3>1. p = FirstCursor(v)
                    BY <2>1 DEF Resumed
              <3>2. p \in Cursor /\ p.offset = 0 /\ p.records = 0 /\ p.header = FALSE
                    BY <1>2, <3>1 DEF FirstCursor, MakeCursor, Cursor
              <3> HIDE DEF p, v
              <3> QED BY <1>2, <3>2, NoRecords DEF Truthful, Measured, Catalogued, Headed
        <2>2. CASE cursor # Unset
              <3>1. p = cursor
                    BY <2>2 DEF Resumed
              <3> HIDE DEF p, v
              <3> QED BY <1>3, <2>2, <3>1, StoresTyped DEF StoreTyped, StoreTrue
        <2> QED BY <2>1, <2>2
  <1>4. CASE p.key = Key(v) /\ Reads(w, k)
        <2>1. /\ k \in Reading /\ k.at = "open" /\ k.version = v /\ k.progress = p
              /\ k.touched = r.touched
              <3> HIDE DEF p
              <3> QED BY <1>1, <1>3, <1>4 DEF Reading, CursorAt
        <2>2. ReadingTyped(k, published)
              <3> HIDE DEF k, p, v, r
              <3> QED BY <1>1, <1>3, <1>4, <2>1 DEF ReadingTyped, Streaming
        <2>3. ReadingTrue(k, published, Known, catalogue)
              <3>1. ReadingTrue(r, published, Known, catalogue)
                    BY ReaderKnows
              <3>2. "open" \in Unwatched => "load" \in Unwatched
                    BY DEF Unwatched
              <3>3. r.at = "load" /\ v = r.version
                    BY <1>1
              <3> HIDE DEF k, p, v, r
              <3> QED BY <1>1, <1>3, <1>4, <2>1, <3>1, <3>2, <3>3
                      DEF ReadingTrue, Truthful, Catalogued
        <2>4. Untouched
              BY DEF LoadCursor
        <2> HIDE DEF k
        <2> QED BY <1>4, <2>1, <2>2, <2>3, <2>4, GoingKeeps
  <1>5. CASE Stops(w)
        BY <1>5, StopKeeps DEF LoadCursor
  <1> QED BY <1>4, <1>5 DEF LoadCursor

(* A manifest that looks the same, and whose key is its own, is the same.  *)
LEMMA LookAgainKeeps ==
  ASSUME CursorInv, NEW w \in Reader, LookAgain(w)
  PROVE  CursorInv'
  <1> DEFINE r == reading[w]
             k == [r EXCEPT !.at = "download"]
  <1>1. CASE LooksTheSame(w) /\ GoesTo(w, "download")
        <2>1. /\ r \in Reading /\ r.at = "open"
              /\ ReadingTyped(r, published) /\ ReadingTrue(r, published, Known, catalogue)
              BY ReaderKnows DEF LookAgain
        <2>2. /\ k \in Reading /\ k.at = "download" /\ k.version = r.version
              /\ k.progress = r.progress /\ k.touched = r.touched
              BY <2>1 DEF Reading, CursorAt
        <2>3. ReadingTyped(k, published)
              <3> HIDE DEF k, r
              <3> QED BY <2>1, <2>2 DEF ReadingTyped, Streaming
        <2>4. r.version \in Known /\ ~r.touched => r.version = published
              <3>1. CASE "time" \in nas
                    <4>1. Key(published) = Key(r.version)
                          BY <1>1, <3>1 DEF LooksTheSame
                    <4> QED BY <4>1, StoresTyped DEF Known, Alone
              <3>2. CASE "time" \notin nas
                    BY <2>1, <3>2 DEF ReadingTrue, Unwatched
              <3> QED BY <3>1, <3>2
        <2>5. ReadingTrue(k, published, Known, catalogue)
              <3> HIDE DEF k, r
              <3> QED BY <2>1, <2>2, <2>4 DEF ReadingTrue, Straight
        <2>6. Reads(w, k) /\ Untouched
              BY <1>1 DEF GoesTo, LookAgain
        <2> HIDE DEF k
        <2> QED BY <2>2, <2>3, <2>5, <2>6, GoingKeeps
  <1>2. CASE Stops(w)
        BY <1>2, StopKeeps DEF LookAgain
  <1> QED BY <1>1, <1>2 DEF LookAgain

LEMMA OpenDownloadKeeps ==
  ASSUME CursorInv, NEW w \in Reader, OpenDownload(w)
  PROVE  CursorInv'
  <1> DEFINE r == reading[w]
             k == [r EXCEPT !.at = "stream", !.from = published]
  <1>1. CASE Reads(w, k)
        <2>1. /\ r \in Reading /\ r.at = "download"
              /\ ReadingTyped(r, published) /\ ReadingTrue(r, published, Known, catalogue)
              BY ReaderKnows DEF OpenDownload
        <2>2. /\ k \in Reading /\ k.at = "stream" /\ k.version = r.version /\ k.from = published
              /\ k.progress = r.progress /\ k.touched = r.touched
              BY <2>1, StoresTyped DEF Reading, CursorAt
        <2>3. ReadingTyped(k, published)
              <3> HIDE DEF k, r
              <3> QED BY <2>1, <2>2, StoresTyped DEF ReadingTyped, Streaming
        <2>4. ReadingTrue(k, published, Known, catalogue)
              <3>1. "download" \in Unwatched
                    BY DEF Unwatched
              <3> HIDE DEF k, r
              <3> QED BY <2>1, <2>2, <3>1 DEF ReadingTrue, Straight
        <2>5. Untouched
              BY DEF OpenDownload
        <2> HIDE DEF k
        <2> QED BY <1>1, <2>2, <2>3, <2>4, <2>5, GoingKeeps
  <1>2. CASE Stops(w)
        BY <1>2, StopKeeps DEF OpenDownload
  <1> QED BY <1>1, <1>2 DEF OpenDownload

LEMMA NextLineReads ==
  ASSUME NEW w \in Reader, NextLine(w)
  PROVE  \E v \in Served(w) :
           /\ reading[w].progress.offset < LineCount(v)
           /\ \/ Stops(w)
              \/ /\ Lines(v)[reading[w].progress.offset + 1] # "bad"
                 /\ Reads(w, [reading[w] EXCEPT
                               !.at = FirstStep(Lines(v)[reading[w].progress.offset + 1]),
                               !.from = v,
                               !.progress = Passed(reading[w].progress,
                                                   Lines(v)[reading[w].progress.offset + 1])])
  BY ZenonT(60) DEF NextLine

LEMMA NextLineKeeps ==
  ASSUME CursorInv, NEW w \in Reader, NextLine(w)
  PROVE  CursorInv'
  <1> DEFINE r == reading[w]
             p == r.progress
  <1>1. /\ r \in Reading /\ r.at = "stream" /\ r.version \in 1..published
        /\ p \in Cursor /\ p.offset \in Nat /\ p.records \in Nat /\ p.key = Key(r.version) /\ Headed(p)
        /\ r.from \in r.version..published
        /\ ReadingTrue(r, published, Known, catalogue)
        BY ReaderKnows DEF NextLine, ReadingTyped, Streaming, Cursor
  <1>2. CASE Stops(w)
        BY <1>2, StopKeeps DEF NextLine
  <1>3. ASSUME NEW v \in Served(w), p.offset < LineCount(v), Lines(v)[p.offset + 1] # "bad",
               Reads(w, [r EXCEPT !.at = FirstStep(Lines(v)[p.offset + 1]), !.from = v,
                                  !.progress = Passed(p, Lines(v)[p.offset + 1])])
        PROVE  CursorInv'
        <2> DEFINE kind == Lines(v)[p.offset + 1]
                   q == Passed(p, kind)
                   k == [r EXCEPT !.at = FirstStep(kind), !.from = v, !.progress = q]
        <2>1. v \in r.from..published /\ v \in r.version..published /\ v \in 1..LastVersion
              BY <1>1, <1>3, StoresTyped DEF Served
        <2>2. /\ q \in Cursor /\ q.key = p.key /\ q.offset = p.offset + 1 /\ Headed(q)
              /\ q.records = (IF kind = "record" THEN p.records + 1 ELSE p.records)
              BY <1>1, <1>3, <2>1, PassedTyped DEF CursorInv
        <2>3. FirstStep(kind) \in CursorAt
              /\ FirstStep(kind) = IF kind = "record" THEN "upsert" ELSE "save"
              BY DEF FirstStep, CursorAt
        <2>4. /\ k \in Reading /\ k.at = FirstStep(kind) /\ k.version = r.version /\ k.from = v
              /\ k.progress = q /\ k.touched = r.touched
              <3> HIDE DEF q, kind
              <3> QED BY <1>1, <2>1, <2>2, <2>3 DEF Reading
        <2>5. ReadingTyped(k, published)
              <3> HIDE DEF k, q, kind, r, p
              <3> QED BY <1>1, <2>1, <2>2, <2>3, <2>4 DEF ReadingTyped, Streaming
        <2>6. ReadingTrue(k, published, Known, catalogue)
              <3>1. SUFFICES ASSUME r.version \in Known
                             PROVE  /\ ~r.touched => r.version = published
                                    /\ v = r.version =>
                                         /\ Measured(v, q)
                                         /\ \A i \in Records(v, q.offset) :
                                              (k.at = "upsert" => i # q.offset) => <<v, i>> \in catalogue
                    <4> HIDE DEF k, q, kind, r, p
                    <4> QED BY <2>3, <2>4 DEF ReadingTrue, Straight, Streaming
              <3>2. ~r.touched => r.version = published
                    BY <1>1, <3>1 DEF ReadingTrue, Unwatched
              <3>3. ASSUME v = r.version
                    PROVE  /\ Measured(v, q)
                           /\ \A i \in Records(v, q.offset) :
                                (k.at = "upsert" => i # q.offset) => <<v, i>> \in catalogue
                    <4>1. r.from = r.version
                          BY <1>1, <2>1, <3>3, StoresTyped
                    <4>2. /\ Measured(v, p)
                          /\ \A i \in Records(v, p.offset) : <<v, i>> \in catalogue
                          BY <1>1, <3>1, <3>3, <4>1 DEF ReadingTrue, Straight, Streaming
                    <4>3. /\ Records(v, p.offset + 1) =
                               IF kind = "record" THEN Records(v, p.offset) \cup {p.offset + 1}
                                                  ELSE Records(v, p.offset)
                          /\ Cardinality(Records(v, p.offset + 1)) =
                               IF kind = "record" THEN Cardinality(Records(v, p.offset)) + 1
                                                  ELSE Cardinality(Records(v, p.offset))
                          BY <1>1, <1>3, <2>1, RecordsPassed DEF CursorInv
                    <4>4. LineCount(v) \in Nat
                          BY <2>1, ManifestLines DEF CursorInv
                    <4>5. Measured(v, q)
                          <5> HIDE DEF q, kind
                          <5> QED BY <1>1, <1>3, <2>2, <4>2, <4>3, <4>4 DEF Measured
                    <4> HIDE DEF k, q, kind
                    <4> QED BY <2>2, <2>3, <2>4, <4>2, <4>3, <4>5
              <3> QED BY <3>2, <3>3
        <2>7. Reads(w, k) /\ Untouched
              BY <1>3 DEF NextLine
        <2> HIDE DEF k
        <2> QED BY <2>4, <2>5, <2>6, <2>7, GoingKeeps
  <1> QED BY <1>2, <1>3, NextLineReads

(* What a call that is not overtaken by this step knows of its version.    *)
LEMMA KnownStays ==
  ASSUME CursorInv, NEW w \in Reader, NEW v \in Served(w), Overtakes(w, v),
         reading[w].at \in Streaming, UNCHANGED <<format, nas, published>>
  PROVE  /\ Known' \subseteq Known /\ overtaken \subseteq overtaken'
         /\ overtaken' \subseteq 1..LastVersion
         /\ reading[w].version \in Known' => v = reading[w].version
  <1> DEFINE r == reading[w]
  <1>1. /\ r \in Reading /\ r.version \in 1..published /\ r.from \in r.version..published
        /\ ReadingTrue(r, published, Known, catalogue)
        BY ReaderKnows DEF ReadingTyped, Streaming
  <1>2. overtaken \subseteq overtaken' /\ overtaken' \subseteq 1..LastVersion
        BY <1>1, StoresTyped DEF Overtakes
  <1>3. Known' \subseteq Known
        BY <1>2, KnownShrinks
  <1>4. ASSUME r.version \in Known', v # r.version
        PROVE  FALSE
        <2>1. ~r.touched
              BY <1>4 DEF Overtakes, Known
        <2>2. r.version = published
              BY <1>1, <1>3, <1>4, <2>1 DEF ReadingTrue, Unwatched, Streaming
        <2> QED BY <1>1, <1>4, <2>2, StoresTyped DEF Served
  <1> QED BY <1>2, <1>3, <1>4

LEMMA FinishKeeps ==
  ASSUME CursorInv, NEW w \in Reader, Finish(w)
  PROVE  CursorInv'
  <1> DEFINE r == reading[w]
  <1>1. /\ r \in Reading /\ r.at = "stream" /\ r.version \in 1..published
        /\ r.progress \in Cursor /\ r.progress.offset \in Nat
        /\ r.from \in r.version..published
        /\ ReadingTrue(r, published, Known, catalogue)
        BY ReaderKnows DEF Finish, ReadingTyped, Streaming, Cursor
  <1>2. /\ UNCHANGED <<format, nas, published, cursor, catalogue>>
        /\ Stops(w) /\ reading' = [reading EXCEPT ![w] = NoReading]
        BY DEF Finish, Stops, Reads
  <1>3. CASE UNCHANGED <<reported, overtaken>>
        BY <1>2, <1>3, StopKeeps DEF Untouched
  <1>4. ASSUME NEW v \in Served(w), r.progress.offset >= LineCount(v), Overtakes(w, v),
               reported' = reported \cup {r.version}
        PROVE  CursorInv'
        <2>1. /\ Known' \subseteq Known /\ overtaken \subseteq overtaken'
              /\ overtaken' \subseteq 1..LastVersion
              /\ r.version \in Known' => v = r.version
              BY <1>1, <1>2, <1>4, KnownStays DEF Streaming
        <2>2. StoreTyped(cursor', reported', published)
              BY <1>1, <1>2, <1>4, StoresTyped DEF StoreTyped
        <2>3. ASSUME r.version \in Known'
              PROVE  Catalogued(r.version, LineCount(r.version), catalogue)
              <3>1. r.from = r.version /\ v = r.version
                    BY <1>1, <1>4, <2>1, <2>3, StoresTyped DEF Served
              <3>2. \A i \in Records(r.version, r.progress.offset) : <<r.version, i>> \in catalogue
                    BY <1>1, <2>1, <2>3, <3>1 DEF ReadingTrue, Straight, Streaming
              <3>3. LineCount(r.version) \in Nat
                    BY <1>1, StoresTyped, ManifestLines DEF CursorInv
              <3> HIDE DEF r
              <3> QED BY <1>1, <1>4, <3>1, <3>2, <3>3 DEF Catalogued, Records
        <2>4. StoreTrue(cursor', reported', Known', catalogue')
              BY <1>2, <1>4, <2>1, <2>3, StoresTyped DEF StoreTrue
        <2> QED BY <1>2, <2>1, <2>2, <2>4, NoReadingTrue, StoresTyped, ReadingKeeps
  <1> QED BY <1>3, <1>4 DEF Finish

LEMMA UpsertRecordKeeps ==
  ASSUME CursorInv, NEW w \in Reader, UpsertRecord(w)
  PROVE  CursorInv'
  <1> DEFINE r == reading[w]
             p == r.progress
             k == [r EXCEPT !.at = "save"]
  <1>1. /\ r \in Reading /\ r.at = "upsert" /\ p \in Cursor /\ p.offset \in Nat
        /\ r.from \in 1..LastVersion
        /\ ReadingTyped(r, published) /\ ReadingTrue(r, published, Known, catalogue)
        BY ReaderKnows, StoresTyped DEF UpsertRecord, ReadingTyped, Streaming, Cursor
  <1>2. /\ catalogue' = catalogue \cup {<<r.from, p.offset>>}
        /\ UNCHANGED <<format, nas, published, cursor, reported, overtaken>>
        /\ Reads(w, k) \/ Stops(w)
        BY DEF UpsertRecord, GoesTo
  <1>3. catalogue \subseteq catalogue' /\ catalogue' \subseteq (1..LastVersion) \X Nat
        BY <1>1, <1>2, StoresTyped
  <1>4. Known' \subseteq Known
        BY <1>2, KnownShrinks
  <1>5. /\ k \in Reading /\ k.at = "save" /\ k.version = r.version /\ k.from = r.from
        /\ k.progress = p /\ k.touched = r.touched
        BY <1>1 DEF Reading, CursorAt
  <1>6. ReadingTyped(k, published) /\ ReadingTrue(k, published, Known', catalogue')
        <2>1. "upsert" \in Unwatched
              BY DEF Unwatched
        <2>2. p = r.progress
              OBVIOUS
        <2> HIDE DEF k, r, p
        <2>3. ReadingTyped(k, published)
              BY <1>1, <1>5, <2>2 DEF ReadingTyped, Streaming
        <2>4. ReadingTrue(k, published, Known, catalogue')
              BY <1>1, <1>2, <1>5, <2>1, <2>2 DEF ReadingTrue, Straight, Streaming
        <2> QED BY <1>4, <2>3, <2>4, ReadingGrows
  <1>7. StoreTrue(cursor', reported', Known', catalogue')
        BY <1>2, <1>3, <1>4, StoresTyped DEF StoreTrue, Truthful, Catalogued
  <1>8. CASE Reads(w, k)
        <2> HIDE DEF k
        <2> QED BY <1>2, <1>3, <1>5, <1>6, <1>7, <1>8, StoresTyped, ReadingKeeps DEF Reads
  <1>9. CASE Stops(w)
        BY <1>2, <1>3, <1>7, <1>9, NoReadingTrue, StoresTyped, ReadingKeeps DEF Stops, Reads
  <1> QED BY <1>2, <1>8, <1>9

LEMMA SaveCursorKeeps ==
  ASSUME CursorInv, NEW w \in Reader, Save(w)
  PROVE  CursorInv'
  <1> DEFINE r == reading[w]
             p == r.progress
             k == [r EXCEPT !.at = "stream"]
  <1>1. /\ r \in Reading /\ r.at = "save" /\ r.version \in 1..published
        /\ p \in Cursor /\ p # Unset /\ p.key = Key(r.version) /\ Headed(p)
        /\ r.from \in r.version..published
        /\ ReadingTyped(r, published) /\ ReadingTrue(r, published, Known, catalogue)
        BY ReaderKnows, UnsetIsNoCursor DEF Save, ReadingTyped, Streaming
  <1>2. /\ UNCHANGED <<format, nas, published, catalogue, reported>>
        /\ Reads(w, k) \/ Stops(w)
        /\ cursor' = p /\ Overtakes(w, r.from)
        BY DEF Save, GoesTo
  <1>3. /\ Known' \subseteq Known /\ overtaken \subseteq overtaken'
        /\ overtaken' \subseteq 1..LastVersion
        /\ r.version \in Known' => r.from = r.version
        <2>1. r.from \in Served(w) /\ r.at \in Streaming
              BY <1>1, StoresTyped DEF Served, Streaming
        <2> QED BY <1>2, <2>1, KnownStays
  <1>4. StoreTyped(cursor', reported', published)
        BY <1>1, <1>2, StoresTyped DEF StoreTyped
  <1>5. StoreTrue(cursor', reported', Known', catalogue')
        <2>1. ASSUME NEW v \in Known', p.key = Key(v)
              PROVE  Truthful(v, p, catalogue)
              <3>1. v = r.version
                    BY <1>1, <1>3, <2>1 DEF Known, Alone
              <3>2. r.from = r.version /\ v \in Known
                    BY <1>3, <2>1, <3>1
              <3>3. p = r.progress
                    OBVIOUS
              <3> HIDE DEF r, p
              <3> QED BY <1>1, <3>1, <3>2, <3>3
                      DEF ReadingTrue, Straight, Streaming, Truthful, Catalogued
        <2> QED BY <1>2, <1>3, <2>1, StoresTyped DEF StoreTrue
  <1>6. /\ k \in Reading /\ k.at = "stream" /\ k.version = r.version /\ k.from = r.from
        /\ k.progress = p /\ k.touched = r.touched
        BY <1>1 DEF Reading, CursorAt
  <1>7. ReadingTyped(k, published) /\ ReadingTrue(k, published, Known', catalogue')
        <2>1. "save" \in Unwatched
              BY DEF Unwatched
        <2>2. p = r.progress
              OBVIOUS
        <2> HIDE DEF k, r, p
        <2>3. ReadingTyped(k, published)
              BY <1>1, <1>6, <2>2 DEF ReadingTyped, Streaming
        <2>4. ReadingTrue(k, published, Known, catalogue)
              BY <1>1, <1>6, <2>1, <2>2 DEF ReadingTrue, Straight, Streaming
        <2> QED BY <1>2, <1>3, <2>3, <2>4, ReadingGrows
  <1>8. catalogue \subseteq catalogue' /\ cursor' \in Cursor \cup {Unset}
        BY <1>1, <1>2
  <1>9. CASE Reads(w, k)
        <2> HIDE DEF k, p
        <2> QED BY <1>2, <1>3, <1>4, <1>5, <1>6, <1>7, <1>8, <1>9, StoresTyped, ReadingKeeps DEF Reads
  <1>10. CASE Stops(w)
        BY <1>2, <1>3, <1>4, <1>5, <1>8, <1>10, NoReadingTrue, StoresTyped, ReadingKeeps
           DEF Stops, Reads
  <1> QED BY <1>2, <1>9, <1>10

(* A new version is in nobody's hands, and calls that still look will see. *)
LEMMA PublishKeeps ==
  ASSUME CursorInv, Publish
  PROVE  CursorInv'
  <1>1. /\ UNCHANGED <<format, nas, cursor, catalogue, reported, overtaken>>
        /\ published' = published + 1 /\ published' \in 1..LastVersion
        /\ published \in Nat /\ 1..published \subseteq 1..published' /\ published' \notin 1..published
        BY StoresTyped, ManifestAssumption DEF Publish
  <1>2. \A v \in 1..published : v \in Known' => v \in Known
        BY <1>1 DEF Known, Alone, Key, LineCount, Lines
  <1>3. StoreTyped(cursor', reported', published')
        BY <1>1, StoresTyped DEF StoreTyped
  <1>4. StoreTrue(cursor', reported', Known', catalogue')
        <2> SUFFICES ASSUME NEW v \in Known'
                     PROVE  /\ cursor # Unset /\ cursor.key = Key(v) => Truthful(v, cursor, catalogue)
                            /\ v \in reported => Catalogued(v, LineCount(v), catalogue)
            BY <1>1 DEF StoreTrue
        <2>1. CASE v \in 1..published
              BY <1>2, <2>1, StoresTyped DEF StoreTrue
        <2>2. CASE v \notin 1..published
              <3>1. v \notin reported
                    BY <2>2, StoresTyped DEF StoreTyped
              <3>2. ASSUME NEW u \in 1..published
                    PROVE  Key(u) # Key(v)
                    <4>1. u \in 1..published' /\ u # v
                          BY <1>1, <2>2
                    <4>2. Key(u)' = Key(v)' => u = v
                          BY <4>1 DEF Known, Alone
                    <4>3. Key(u)' = Key(u) /\ Key(v)' = Key(v)
                          BY <1>1 DEF Key, LineCount, Lines
                    <4> QED BY <4>1, <4>2, <4>3
              <3> QED BY <3>1, <3>2, StoresTyped DEF StoreTyped
        <2> QED BY <2>1, <2>2
  <1>5. ASSUME NEW w \in Reader
        PROVE  /\ reading'[w] \in Reading
               /\ ReadingTyped(reading'[w], published')
               /\ ReadingTrue(reading'[w], published', Known', catalogue')
        <2> DEFINE r == reading[w]
                   k == [r EXCEPT !.touched = r.touched \/ r.at \in Unwatched]
        <2>1. /\ r \in Reading /\ ReadingTyped(r, published)
              /\ ReadingTrue(r, published, Known, catalogue)
              BY ReaderKnows
        <2>2. reading'[w] = k
              BY DEF Publish
        <2>3. /\ k \in Reading /\ k.at = r.at /\ k.version = r.version /\ k.from = r.from
              /\ k.progress = r.progress /\ k.touched = (r.touched \/ r.at \in Unwatched)
              BY <2>1 DEF Reading
        <2> HIDE DEF k, r
        <2>4. k.version \in 1..published /\ k.version \in Known' => k.version \in Known
              BY <1>1, <1>2, <2>3 DEF Known
        <2>5. ReadingTyped(k, published')
              BY <1>1, <2>1, <2>3 DEF ReadingTyped
        <2>6. Straight(k) \/ k.at \in Unwatched => k.version \in 1..published
              BY <2>1, <2>3 DEF ReadingTyped, Straight, Streaming, Unwatched
        <2>7. ReadingTrue(k, published', Known', catalogue')
              BY <1>1, <2>1, <2>3, <2>4, <2>6 DEF ReadingTrue, Straight
        <2> QED BY <2>2, <2>3, <2>5, <2>7
  <1>6. reading' \in [Reader -> Reading]
        BY <1>5 DEF Publish
  <1>7. \A w \in Reader : ReadingTyped(reading[w], published)'
        BY <1>1, <1>5 DEF ReadingTyped, Headed, Key, LineCount, Lines
  <1>8. \A w \in Reader : ReadingTrue(reading[w], published, Known, catalogue)'
        BY <1>1, <1>5 DEF ReadingTrue, Straight, Measured, Unwatched, LineCount, Lines, Records
  <1>9. StoreTyped(cursor, reported, published)'
        BY <1>1, <1>3 DEF StoreTyped, Headed, Key, LineCount, Lines
  <1>10. StoreTrue(cursor, reported, Known, catalogue)'
        BY <1>1, <1>4 DEF StoreTrue, Truthful, Measured, Catalogued, Key, LineCount, Lines, Records
  <1>11. CursorTypeOK'
        BY <1>1, <1>5, <1>6 DEF CursorInv, CursorTypeOK, Reading
  <1> QED BY <1>6, <1>7, <1>8, <1>9, <1>10, <1>11 DEF CursorInv

LEMMA CursorInitially == CursorInit => CursorInv
  <1> SUFFICES ASSUME CursorInit
               PROVE  CursorInv
      OBVIOUS
  <1>1. /\ NoReading \in Reading /\ ReadingTyped(NoReading, published)
        /\ ReadingTrue(NoReading, published, Known, catalogue)
        BY NoReadingTrue
  <1>2. CursorTypeOK
        BY <1>1, ManifestAssumption DEF CursorInit, CursorTypeOK, Reading
  <1>3. StoreTyped(cursor, reported, published) /\ StoreTrue(cursor, reported, Known, catalogue)
        BY DEF CursorInit, StoreTyped, StoreTrue
  <1> QED BY <1>1, <1>2, <1>3 DEF CursorInit, CursorInv

LEMMA CursorStep == CursorInv /\ [CursorNext]_cursorVars => CursorInv'
  <1> SUFFICES ASSUME CursorInv, [CursorNext]_cursorVars
               PROVE  CursorInv'
      OBVIOUS
  <1>1. ASSUME NEW w \in Reader, Step(w)
        PROVE  CursorInv'
        BY <1>1, StatKeeps, LoadCursorKeeps, LookAgainKeeps, OpenDownloadKeeps, NextLineKeeps,
           FinishKeeps DEF Step
  <1>2. ASSUME NEW w \in Reader, UpsertRecord(w) \/ Save(w)
        PROVE  CursorInv'
        BY <1>2, UpsertRecordKeeps, SaveCursorKeeps
  <1>3. ASSUME NEW w \in Reader, Refuse(w) \/ Abandon(w)
        PROVE  CursorInv'
        BY <1>3, StopKeeps DEF Refuse, Abandon
  <1>4. CASE Publish
        BY <1>4, PublishKeeps
  <1>5. CASE UNCHANGED cursorVars
        <2>1. CursorTypeOK' /\ reading' \in [Reader -> Reading]
              BY <1>5 DEF cursorVars, CursorInv, CursorTypeOK
        <2>2. StoreTyped(cursor, reported, published)'
              BY <1>5 DEF cursorVars, CursorInv, StoreTyped, Headed, Key, LineCount, Lines
        <2>3. StoreTrue(cursor, reported, Known, catalogue)'
              <3>1. /\ \A v, n : Catalogued(v, n, catalogue)' <=> Catalogued(v, n, catalogue)
                    /\ \A v, n : Records(v, n)' = Records(v, n)
                    /\ \A v : Key(v)' = Key(v) /\ LineCount(v)' = LineCount(v)
                    /\ Known' = Known
                    BY <1>5 DEF cursorVars, Catalogued, Known, Alone, Key, LineCount, Lines, Records
              <3>2. cursor' = cursor /\ reported' = reported
                    BY <1>5 DEF cursorVars
              <3> QED BY <3>1, <3>2 DEF CursorInv, StoreTrue, Truthful, Measured
        <2>4. \A w \in Reader : ReadingTyped(reading[w], published)'
              BY <1>5 DEF cursorVars, CursorInv, ReadingTyped, Headed, Key, LineCount, Lines
        <2>5. \A w \in Reader : ReadingTrue(reading[w], published, Known, catalogue)'
              <3>1. /\ \A v, n : Records(v, n)' = Records(v, n)
                    /\ \A v : LineCount(v)' = LineCount(v)
                    /\ Known' = Known /\ Unwatched' = Unwatched
                    BY <1>5 DEF cursorVars, Known, Alone, Key, LineCount, Lines, Records, Unwatched
              <3>2. reading' = reading /\ published' = published /\ catalogue' = catalogue
                    BY <1>5 DEF cursorVars
              <3> QED BY <3>1, <3>2 DEF CursorInv, ReadingTrue, Straight, Measured
        <2> QED BY <2>1, <2>2, <2>3, <2>4, <2>5 DEF CursorInv
  <1> QED BY <1>1, <1>2, <1>3, <1>4, <1>5 DEF CursorNext

(* The cursor counts what it has passed of a known version, and the        *)
(* catalogue has it; and so it is with the cursors in flight.              *)
THEOREM CursorInvariance == CursorSpec => []CursorInv
  BY CursorInitially, CursorStep, PTL DEF CursorSpec

(* No record of a known version before the committed cursor, and none of   *)
(* one that was reported as ingested, is missing from the catalogue, for   *)
(* any number of workers and versions and any manifests.                   *)
THEOREM NoRecordIsSkipped == CursorSpec => []NothingSkipped
  <1>1. CursorInv => NothingSkipped
        BY DEF CursorInv, StoreTrue, NothingSkipped, Truthful, Measured, Catalogued
  <1> QED BY <1>1, CursorInvariance, PTL
-------------------------------------------------------------------------------
(* Total: the sum of the values of a function over its domain.             *)
Total(w) == MapThenSumSet(LAMBDA x : w[x], DOMAIN w)

(* Induction over a finite set: a nonempty family of its subsets has one   *)
(* that contains no other of them.                                         *)
LEMMA LeastSubset ==
  ASSUME NEW S, IsFiniteSet(S), NEW F, F \subseteq SUBSET S, F # {}
  PROVE  \E A \in F : \A B \in F : B \subseteq A => B = A
  <1>1. IsWellFoundedOn(StrictSubsetOrdering(S), SUBSET S)
        BY FS_StrictSubsetOrderingWellFounded, FS_FiniteSubsetsOfFinite
  <1>2. \E A \in F : \A B \in F : ~ (<<B, A>> \in StrictSubsetOrdering(S))
        BY <1>1, WFMin, Zenon
  <1> QED BY <1>2 DEF StrictSubsetOrdering

(* T gives the sum of w over each subset of S.                             *)
Sums(T, w, S) ==
  /\ T \in [SUBSET S -> Nat]
  /\ T[{}] = 0
  /\ \A A \in SUBSET S : \A x \in A : T[A] = w[x] + T[A \ {x}]

LEMMA SumsExist ==
  ASSUME NEW S, IsFiniteSet(S), NEW w \in [S -> Nat]
  PROVE  \E T : Sums(T, w, S)
  <1> DEFINE Bad == {A \in SUBSET S : ~ \E T : Sums(T, w, A)}
  <1>1. SUFFICES Bad = {}
        OBVIOUS
  <1>2. SUFFICES ASSUME Bad # {} PROVE FALSE
        OBVIOUS
  <1> HIDE DEF Bad
  <1>3. PICK A \in Bad : \A B \in Bad : B \subseteq A => B = A
        <2>1. Bad \subseteq SUBSET S
              BY DEF Bad
        <2> QED BY <1>2, <2>1, LeastSubset
  <1>4. A \in SUBSET S /\ ~ \E T : Sums(T, w, A)
        BY <1>3 DEF Bad
  <1>5. CASE A = {}
        <2>1. Sums([B \in SUBSET A |-> 0], w, A)
              BY <1>5 DEF Sums
        <2> QED BY <2>1, <1>4
  <1>6. CASE A # {}
        <2>1. PICK x \in A : TRUE
              BY <1>6
        <2>2. A \ {x} \notin Bad
              BY <1>3, <2>1
        <2>3. PICK T : Sums(T, w, A \ {x})
              BY <2>2, <1>4 DEF Bad
        <2> DEFINE U == [B \in SUBSET A |-> IF x \in B THEN w[x] + T[B \ {x}] ELSE T[B]]
        <2>4. w[x] \in Nat /\ \A B \in SUBSET A : B \ {x} \in SUBSET (A \ {x})
              BY <1>4
        <2>5. T \in [SUBSET (A \ {x}) -> Nat] /\ T[{}] = 0
              BY <2>3 DEF Sums
        <2>6. \A B \in SUBSET A : x \notin B => B \in SUBSET (A \ {x})
              OBVIOUS
        <2>7. U \in [SUBSET A -> Nat]
              BY <2>4, <2>5, <2>6
        <2>8. U[{}] = 0
              BY <2>5
        <2>9. ASSUME NEW B \in SUBSET A, NEW y \in B
              PROVE  U[B] = w[y] + U[B \ {y}]
              <3>1. w[y] \in Nat
                    BY <1>4
              <3>2. CASE y = x
                    <4>1. U[B] = w[x] + T[B \ {x}]
                          BY <3>2
                    <4>2. U[B \ {x}] = T[B \ {x}]
                          OBVIOUS
                    <4> QED BY <4>1, <4>2, <3>2
              <3>3. CASE y # x /\ x \in B
                    <4>1. (B \ {x}) \ {y} = (B \ {y}) \ {x}
                          OBVIOUS
                    <4>2. B \ {x} \in SUBSET (A \ {x}) /\ y \in B \ {x}
                          BY <3>3, <2>4
                    <4>3. T[B \ {x}] = w[y] + T[(B \ {y}) \ {x}]
                          BY <2>3, <4>1, <4>2 DEF Sums
                    <4>4. T[(B \ {y}) \ {x}] \in Nat
                          BY <2>4, <2>5
                    <4>5. U[B] = w[x] + T[B \ {x}] /\ U[B \ {y}] = w[x] + T[(B \ {y}) \ {x}]
                          BY <3>3
                    <4> HIDE DEF U
                    <4> QED BY <4>3, <4>4, <4>5, <3>1, <2>4
              <3>4. CASE y # x /\ x \notin B
                    <4>1. U[B] = T[B] /\ U[B \ {y}] = T[B \ {y}]
                          BY <3>4
                    <4>2. B \in SUBSET (A \ {x})
                          BY <3>4
                    <4> QED BY <4>1, <4>2, <2>3 DEF Sums
              <3> QED BY <3>2, <3>3, <3>4
        <2> HIDE DEF U
        <2>10. Sums(U, w, A)
              BY <2>7, <2>8, <2>9 DEF Sums
        <2> QED BY <2>10, <1>4
  <1> QED BY <1>5, <1>6

(* The recursion that the folds of the community modules are written with. *)
SumsByChoice(g, w, S) ==
  g = [A \in SUBSET S |->
         IF A = {} THEN 0
         ELSE w[CHOOSE x \in A : TRUE] + g[A \ {CHOOSE x \in A : TRUE}]]

LEMMA SumsAreByChoice ==
  ASSUME NEW S, NEW w, NEW T, Sums(T, w, S)
  PROVE  SumsByChoice(T, w, S)
  <1>1. T \in [SUBSET S -> Nat] /\ T[{}] = 0
        BY DEF Sums
  <1>2. ASSUME NEW A \in SUBSET S, A # {}
        PROVE  T[A] = w[CHOOSE x \in A : TRUE] + T[A \ {CHOOSE x \in A : TRUE}]
        <2>1. (CHOOSE x \in A : TRUE) \in A
              BY <1>2
        <2> QED BY <2>1 DEF Sums
  <1> QED BY <1>1, <1>2 DEF SumsByChoice

LEMMA ByChoiceIsTheSum ==
  ASSUME NEW S, IsFiniteSet(S), NEW w, NEW T, Sums(T, w, S),
         NEW g, SumsByChoice(g, w, S)
  PROVE  g[S] = T[S]
  <1> DEFINE Bad == {A \in SUBSET S : g[A] # T[A]}
  <1>1. SUFFICES ASSUME Bad # {} PROVE FALSE
        OBVIOUS
  <1>2. PICK A \in Bad : \A B \in Bad : B \subseteq A => B = A
        <2>1. Bad \subseteq SUBSET S
              OBVIOUS
        <2> HIDE DEF Bad
        <2> QED BY <1>1, <2>1, LeastSubset
  <1>3. A # {}
        BY DEF Sums, SumsByChoice
  <1> DEFINE x == CHOOSE y \in A : TRUE
  <1>4. x \in A
        BY <1>3
  <1>5. g[A \ {x}] = T[A \ {x}]
        BY <1>2, <1>4
  <1>6. T[A] = w[x] + T[A \ {x}]
        BY <1>4 DEF Sums
  <1>7. g[A] = w[x] + g[A \ {x}]
        BY <1>3 DEF SumsByChoice
  <1> QED BY <1>5, <1>6, <1>7

LEMMA TotalIsTheSum ==
  ASSUME NEW S, IsFiniteSet(S), NEW w \in [S -> Nat], NEW T, Sums(T, w, S)
  PROVE  Total(w) = T[S]
  <1> DEFINE g == CHOOSE h : h = [A \in SUBSET S |->
         IF A = {} THEN 0
         ELSE w[CHOOSE x \in A : TRUE] + h[A \ {CHOOSE x \in A : TRUE}]]
  <1>1. Total(w) = g[S]
        BY DEF Total, MapThenSumSet, MapThenFoldSet
  <1>2. SumsByChoice(g, w, S)
        <2>1. SumsByChoice(T, w, S)
              BY SumsAreByChoice
        <2> QED BY <2>1 DEF SumsByChoice
  <1> HIDE DEF g
  <1> QED BY <1>1, <1>2, ByChoiceIsTheSum

LEMMA TotalOfNothing ==
  ASSUME NEW w, DOMAIN w = {}
  PROVE  Total(w) = 0
  <1>1. [x \in {} |-> 0] \in [{} -> Nat]
        OBVIOUS
  <1> DEFINE g == CHOOSE h : h = [A \in SUBSET DOMAIN w |->
         IF A = {} THEN 0
         ELSE w[CHOOSE x \in A : TRUE] + h[A \ {CHOOSE x \in A : TRUE}]]
  <1>2. Total(w) = g[DOMAIN w]
        BY DEF Total, MapThenSumSet, MapThenFoldSet
  <1>3. Sums([A \in SUBSET {} |-> 0], w, {})
        BY DEF Sums
  <1>4. SumsByChoice([A \in SUBSET {} |-> 0], w, {})
        BY <1>3, SumsAreByChoice
  <1>5. SumsByChoice(g, w, {})
        BY <1>4 DEF SumsByChoice
  <1> HIDE DEF g
  <1> QED BY <1>2, <1>5 DEF SumsByChoice

LEMMA TotalIsNat ==
  ASSUME NEW S, IsFiniteSet(S), NEW w \in [S -> Nat]
  PROVE  Total(w) \in Nat
  <1>1. PICK T : Sums(T, w, S)
        BY SumsExist
  <1>2. Total(w) = T[S]
        BY <1>1, TotalIsTheSum
  <1> QED BY <1>1, <1>2 DEF Sums

LEMMA TotalWithout ==
  ASSUME NEW S, IsFiniteSet(S), NEW w \in [S -> Nat], NEW x \in S
  PROVE  Total(w) = w[x] + Total(Without(w, x))
  <1>1. PICK T : Sums(T, w, S)
        BY SumsExist
  <1> DEFINE U == [A \in SUBSET (S \ {x}) |-> T[A]]
  <1>2. Sums(U, Without(w, x), S \ {x})
        BY <1>1 DEF Sums, Without
  <1>3. Without(w, x) \in [S \ {x} -> Nat] /\ IsFiniteSet(S \ {x})
        BY FS_RemoveElement DEF Without
  <1>4. Total(Without(w, x)) = U[S \ {x}]
        <2> HIDE DEF U
        <2> QED BY <1>2, <1>3, TotalIsTheSum
  <1>5. Total(w) = T[S]
        BY <1>1, TotalIsTheSum
  <1>6. T[S] = w[x] + T[S \ {x}]
        BY <1>1 DEF Sums
  <1> QED BY <1>4, <1>5, <1>6

LEMMA TotalWith ==
  ASSUME NEW S, IsFiniteSet(S), NEW w \in [S -> Nat], NEW x, NEW v \in Nat
  PROVE  Total(With(w, x, v)) = v + Total(Without(w, x))
  <1>1. With(w, x, v) \in [S \cup {x} -> Nat] /\ IsFiniteSet(S \cup {x})
        BY FS_AddElement DEF With
  <1>2. With(w, x, v)[x] = v /\ Without(With(w, x, v), x) = Without(w, x)
        BY DEF With, Without
  <1> QED BY <1>1, <1>2, TotalWithout

(* A sum is within two others if each of its values is within theirs.      *)
Within(w, a, r) ==
  \A x \in DOMAIN w : w[x] <= (IF x \in DOMAIN a THEN a[x] ELSE 0)
                             + (IF x \in DOMAIN r THEN r[x] ELSE 0)

LEMMA TotalWithin ==
  ASSUME NEW S, IsFiniteSet(S), NEW w \in [S -> Nat],
         NEW U, IsFiniteSet(U), NEW a \in [U -> Nat],
         NEW R, IsFiniteSet(R), NEW r \in [R -> Nat], Within(w, a, r)
  PROVE  Total(w) <= Total(a) + Total(r)
  <1>1. PICK T : Sums(T, w, S)
        BY SumsExist
  <1>2. PICK TA : Sums(TA, a, U)
        BY SumsExist
  <1>3. PICK TR : Sums(TR, r, R)
        BY SumsExist
  <1>4. Total(w) = T[S] /\ Total(a) = TA[U] /\ Total(r) = TR[R]
        BY <1>1, <1>2, <1>3, TotalIsTheSum
  <1> DEFINE V == (S \cup U) \cup R
             Bad == {A \in SUBSET V : ~ (T[A \cap S] <= TA[A \cap U] + TR[A \cap R])}
  <1>5. V \cap S = S /\ V \cap U = U /\ V \cap R = R
        OBVIOUS
  <1>6. SUFFICES ASSUME Bad # {} PROVE FALSE
        BY <1>4, <1>5
  <1>7. PICK A \in Bad : \A B \in Bad : B \subseteq A => B = A
        <2>1. IsFiniteSet(V) /\ Bad \subseteq SUBSET V
              BY FS_Union
        <2> HIDE DEF Bad, V
        <2> QED BY <1>6, <2>1, LeastSubset
  <1>8. \A B \in SUBSET V : /\ T[B \cap S] \in Nat
                            /\ TA[B \cap U] \in Nat
                            /\ TR[B \cap R] \in Nat
        BY <1>1, <1>2, <1>3 DEF Sums
  <1>9. A # {}
        <2>1. T[{}] = 0 /\ TA[{}] = 0 /\ TR[{}] = 0
              BY <1>1, <1>2, <1>3 DEF Sums
        <2>2. {} \cap S = {} /\ {} \cap U = {} /\ {} \cap R = {}
              OBVIOUS
        <2>3. T[{} \cap S] <= TA[{} \cap U] + TR[{} \cap R]
              BY <2>1, <2>2
        <2>4. {} \notin Bad
              BY <2>3
        <2> HIDE DEF Bad
        <2> QED BY <2>4
  <1>10. PICK x \in A : TRUE
        BY <1>9
  <1> DEFINE B == A \ {x}
  <1>11. T[B \cap S] <= TA[B \cap U] + TR[B \cap R]
        <2>1. B \in SUBSET V /\ B \subseteq A /\ B # A
              OBVIOUS
        <2>2. B \notin Bad
              BY <1>7, <2>1
        <2> QED BY <2>1, <2>2
  <1>12. T[A \cap S] = (IF x \in S THEN w[x] ELSE 0) + T[B \cap S]
        <2>1. CASE x \in S
              <3>1. (A \cap S) \ {x} = B \cap S /\ x \in A \cap S
                    BY <2>1
              <3> QED BY <3>1, <2>1, <1>1 DEF Sums
        <2>2. CASE x \notin S
              <3>1. A \cap S = B \cap S /\ B \in SUBSET V
                    BY <2>2
              <3>2. T[B \cap S] \in Nat /\ T[A \cap S] = T[B \cap S]
                    BY <3>1, <1>8
              <3>3. (IF x \in S THEN w[x] ELSE 0) = 0
                    BY <2>2
              <3> HIDE DEF B
              <3> QED BY <3>2, <3>3
        <2> QED BY <2>1, <2>2
  <1>13. TA[A \cap U] = (IF x \in U THEN a[x] ELSE 0) + TA[B \cap U]
        <2>1. CASE x \in U
              <3>1. (A \cap U) \ {x} = B \cap U /\ x \in A \cap U
                    BY <2>1
              <3> QED BY <3>1, <2>1, <1>2 DEF Sums
        <2>2. CASE x \notin U
              <3>1. A \cap U = B \cap U /\ B \in SUBSET V
                    BY <2>2
              <3>2. TA[B \cap U] \in Nat /\ TA[A \cap U] = TA[B \cap U]
                    BY <3>1, <1>8
              <3>3. (IF x \in U THEN a[x] ELSE 0) = 0
                    BY <2>2
              <3> HIDE DEF B
              <3> QED BY <3>2, <3>3
        <2> QED BY <2>1, <2>2
  <1>14. TR[A \cap R] = (IF x \in R THEN r[x] ELSE 0) + TR[B \cap R]
        <2>1. CASE x \in R
              <3>1. (A \cap R) \ {x} = B \cap R /\ x \in A \cap R
                    BY <2>1
              <3> QED BY <3>1, <2>1, <1>3 DEF Sums
        <2>2. CASE x \notin R
              <3>1. A \cap R = B \cap R /\ B \in SUBSET V
                    BY <2>2
              <3>2. TR[B \cap R] \in Nat /\ TR[A \cap R] = TR[B \cap R]
                    BY <3>1, <1>8
              <3>3. (IF x \in R THEN r[x] ELSE 0) = 0
                    BY <2>2
              <3> HIDE DEF B
              <3> QED BY <3>2, <3>3
        <2> QED BY <2>1, <2>2
  <1>15. PICK p \in Nat, q \in Nat, n \in Nat :
           /\ p = (IF x \in S THEN w[x] ELSE 0)
           /\ q = (IF x \in U THEN a[x] ELSE 0)
           /\ n = (IF x \in R THEN r[x] ELSE 0)
        OBVIOUS
  <1>16. p <= q + n
        <2>1. CASE x \in S
              BY <2>1, <1>15 DEF Within
        <2>2. CASE x \notin S
              BY <2>2, <1>15
        <2> QED BY <2>1, <2>2
  <1>17. B \in SUBSET V /\ ~ (T[A \cap S] <= TA[A \cap U] + TR[A \cap R])
        OBVIOUS
  <1>18. T[B \cap S] \in Nat /\ TA[B \cap U] \in Nat /\ TR[B \cap R] \in Nat
        BY <1>8, <1>17
  <1>19. /\ T[A \cap S] = p + T[B \cap S]
         /\ TA[A \cap U] = q + TA[B \cap U]
         /\ TR[A \cap R] = n + TR[B \cap R]
        BY <1>12, <1>13, <1>14, <1>15
  <1> HIDE DEF B, Bad, V
  <1> QED BY <1>11, <1>16, <1>17, <1>18, <1>19

LEMMA TotalAtMost ==
  ASSUME NEW S, IsFiniteSet(S), NEW w \in [S -> Nat],
         NEW U, IsFiniteSet(U), NEW a \in [U -> Nat], S \subseteq U,
         \A x \in S : w[x] <= a[x]
  PROVE  Total(w) <= Total(a)
  <1> DEFINE N == {}
             r == [x \in N |-> 0]
  <1>1. r \in [N -> Nat] /\ IsFiniteSet(N) /\ DOMAIN r = {}
        BY FS_EmptySet
  <1>2. Total(r) = 0 /\ Total(a) \in Nat
        BY <1>1, TotalOfNothing, TotalIsNat
  <1>4. Within(w, a, r)
        <2>1. \A x \in S : a[x] \in Nat
              OBVIOUS
        <2> QED BY <2>1 DEF Within
  <1> HIDE DEF r, N
  <1>6. Total(w) <= Total(a) + Total(r)
        BY <1>1, <1>4, TotalWithin
  <1>5. Total(w) \in Nat
        BY TotalIsNat
  <1> QED BY <1>2, <1>6, <1>5
(* The sum of what is m throughout, and of what is m more than another.    *)
LEMMA TotalOfEach ==
  ASSUME NEW S, IsFiniteSet(S), NEW m \in Nat
  PROVE  Total([x \in S |-> m]) = Cardinality(S) * m
  <1> DEFINE w == [x \in S |-> m]
  <1>1. w \in [S -> Nat] /\ \A x \in S : w[x] = m
        OBVIOUS
  <1> HIDE DEF w
  <1>2. PICK T : Sums(T, w, S)
        BY <1>1, SumsExist
  <1>3. Total(w) = T[S]
        BY <1>1, <1>2, TotalIsTheSum
  <1> DEFINE Bad == {A \in SUBSET S : T[A] # Cardinality(A) * m}
  <1>4. SUFFICES ASSUME Bad # {} PROVE FALSE
        BY <1>3 DEF w
  <1>5. PICK A \in Bad : \A B \in Bad : B \subseteq A => B = A
        <2> HIDE DEF Bad
        <2>1. Bad \subseteq SUBSET S
              BY DEF Bad
        <2> QED BY <1>4, <2>1, LeastSubset
  <1>6. A \in SUBSET S /\ T[A] # Cardinality(A) * m
        OBVIOUS
  <1>7. A # {}
        <2>1. T[{}] = 0 /\ Cardinality({}) = 0 /\ 0 * m = 0
              BY <1>2, FS_EmptySet DEF Sums
        <2> QED BY <1>6, <2>1
  <1>8. PICK x \in A : TRUE
        BY <1>7
  <1> DEFINE B == A \ {x}
  <1>9. IsFiniteSet(A) /\ IsFiniteSet(B) /\ Cardinality(A) = Cardinality(B) + 1
        /\ Cardinality(B) \in Nat
        BY <1>6, <1>8, FS_Subset, FS_RemoveElement, FS_CardinalityType
  <1>10. B \in SUBSET S /\ B # A /\ B \subseteq A
        BY <1>6, <1>8
  <1>11. T[B] = Cardinality(B) * m
        BY <1>5, <1>10
  <1>12. T[A] = m + T[B]
        BY <1>1, <1>2, <1>6, <1>8 DEF Sums
  <1> HIDE DEF B
  <1>13. \A n \in Nat : (n + 1) * m = m + n * m
        OBVIOUS
  <1> QED BY <1>6, <1>9, <1>11, <1>12, <1>13

LEMMA TotalAndEach ==
  ASSUME NEW R, IsFiniteSet(R), NEW w \in [R -> Nat], NEW m \in Nat
  PROVE  Total([x \in R |-> w[x] + m]) <= Total(w) + Cardinality(R) * m
  <1> DEFINE v == [x \in R |-> w[x] + m]
             e == [x \in R |-> m]
  <1>1. v \in [R -> Nat] /\ e \in [R -> Nat]
        OBVIOUS
  <1>2. Within(v, w, e)
        BY DEF Within
  <1>3. Total(e) = Cardinality(R) * m
        BY TotalOfEach
  <1> HIDE DEF v, e
  <1>4. Total(v) <= Total(w) + Total(e)
        BY <1>1, <1>2, TotalWithin
  <1> QED BY <1>3, <1>4 DEF v
-------------------------------------------------------------------------------
BodyCall ==
  [at : At, file : File \cup {None}, version : Nat, id : Nat, opened : Nat,
   body : Seq(Nat), document : Document \cup {None}, touched : BOOLEAN]

BodyDirectory == [body : Nat, archive : Nat, manifest : BOOLEAN]

(* Before the first look, and between it and the cleaning up.              *)
Writing == {"open", "download", "stream"}
Working == Writing \cup {"parse", "fetch", "archive", "retain"}

BodyTypeOK ==
  /\ remote \in [File -> Nat] /\ \A s \in File : remote[s] \in 1..Len(Size[s])
  /\ made \in Nat
  /\ \E D \in SUBSET (1..made) : disk \in [D -> BodyDirectory]
  /\ \E D \in SUBSET (1..made) : reserved \in [D -> Nat]
  /\ call \in [Call -> BodyCall]

(* What a call knows of its file, and what it has of it.                   *)
KnowsItsFile(k, r) ==
  /\ k.at \in {"stat", "reserve"} \cup Working => k.file \in File
  /\ k.at \in {"reserve"} \cup Working => k.version \in 1..Len(Size[k.file])
  /\ k.at \in {"stat", "reserve", "open"} => ~k.touched
  /\ k.at \in {"stat", "reserve", "open", "download"} => k.body = <<>>
  /\ k.at = "stream" => k.opened \in 1..r[k.file]
  /\ k.at = "stream" => Len(k.body) <= Size[k.file][k.version]
  /\ k.at \in {"parse", "fetch", "archive", "retain"} => Len(k.body) = Size[k.file][k.version]
  /\ k.file \in Timed /\ ~k.touched =>
       /\ k.at \in {"download", "stream"} => r[k.file] = k.version
       /\ k.at = "stream" => k.opened = k.version
       /\ k.at \in Working => \A i \in 1..Len(k.body) : k.body[i] = k.version

(* What a call knows of its reservation, and of its directory.             *)
HoldsItsOwn ==
  /\ \A c, d \in Call : Held(c) /\ Held(d) /\ call[c].id = call[d].id => c = d
  /\ \A c \in Call : call[c].at \in Working => reserved[call[c].id] = Expected(c)
  /\ \A c \in Call : call[c].at \in Writing /\ There(c) =>
       disk[call[c].id].body <= Len(call[c].body)
  /\ \A c \in Call : call[c].at = "release" => call[c].id \notin (DOMAIN disk) \ strays

(* What each directory may grow to: that of a call in progress to what was *)
(* promised to it and an archive, any other to what is there.              *)
MayGrowTo ==
  [id \in (DOMAIN disk) \cup (DOMAIN reserved) |->
     IF id \in DOMAIN reserved THEN reserved[id] + MaxArchive
     ELSE disk[id].body + disk[id].archive]
WillBeBounded ==
  \/ Total(MayGrowTo) = 0
  \/ Other + Total(MayGrowTo) <= (Target - MaxObject) + Allowance

BodyHolds ==
  /\ BodyTypeOK
  /\ \A c \in Call : KnowsItsFile(call[c], remote)
  /\ HoldsItsOwn
  /\ Accounted

BodyInv == BodyHolds /\ WillBeBounded
-------------------------------------------------------------------------------
LEMMA BodyShape ==
  ASSUME BodyTypeOK
  PROVE  /\ IsFiniteSet(DOMAIN disk) /\ IsFiniteSet(DOMAIN reserved)
         /\ DOMAIN disk \subseteq 1..made /\ DOMAIN reserved \subseteq 1..made
         /\ disk \in [DOMAIN disk -> BodyDirectory]
         /\ reserved \in [DOMAIN reserved -> Nat]
         /\ \A id \in DOMAIN disk : disk[id].body \in Nat /\ disk[id].archive \in Nat
         /\ made \in Nat /\ made + 1 \notin DOMAIN disk /\ made + 1 \notin DOMAIN reserved
  <1>1. made \in Nat /\ IsFiniteSet(1..made)
        BY FS_Interval DEF BodyTypeOK
  <1>2. PICK D \in SUBSET (1..made) : disk \in [D -> BodyDirectory]
        BY DEF BodyTypeOK
  <1>3. PICK E \in SUBSET (1..made) : reserved \in [E -> Nat]
        BY DEF BodyTypeOK
  <1>4. D = DOMAIN disk /\ E = DOMAIN reserved
        BY <1>2, <1>3
  <1>5. IsFiniteSet(D) /\ IsFiniteSet(E)
        BY <1>1, FS_Subset
  <1>6. made + 1 \notin 1..made
        BY <1>1
  <1>7. \A id \in D : disk[id].body \in Nat /\ disk[id].archive \in Nat
        BY <1>2 DEF BodyDirectory
  <1> QED BY <1>1, <1>2, <1>3, <1>4, <1>5, <1>6, <1>7

LEMMA BodyConstants ==
  /\ Other \in Nat /\ Target \in Nat /\ MaxObject \in Nat /\ MaxTotal \in Nat
  /\ MaxActive \in Nat /\ MaxArchive \in Nat /\ Allowance \in Nat
  <1>1. /\ Other \in Nat /\ Target \in Nat /\ MaxObject \in Nat /\ MaxTotal \in Nat
        /\ MaxActive \in Nat /\ MaxArchive \in Nat
        BY BodyAssumption
  <1>2. MaxActive * MaxArchive \in Nat
        BY <1>1
  <1> QED BY <1>1, <1>2 DEF Allowance

LEMMA ExpectedIsNat ==
  ASSUME NEW s \in File, NEW v \in 1..Len(Size[s])
  PROVE  Size[s] \in Seq(Nat) /\ v \in Nat /\ Size[s][v] \in Nat
  <1>1. Size[s] \in Seq(Nat)
        BY BodyAssumption
  <1>2. Len(Size[s]) \in Nat
        BY <1>1
  <1> QED BY <1>1, <1>2

(* Call c goes on as k.                                                    *)
Becomes(c, k) == call' = [call EXCEPT ![c] = k]
Left(k) == [NoCall EXCEPT !.at = "remove", !.id = k.id]

LEMMA NoCallTyped ==
  /\ NoCall \in BodyCall
  /\ \A at \in At, f \in File \cup {None}, v \in Nat : MakeCall(at, f, v) \in BodyCall
  /\ \A k \in BodyCall : Left(k) \in BodyCall
  <1>1. NoCall \in BodyCall
        BY DEF NoCall, MakeCall, BodyCall, At
  <1>2. \A at \in At, f \in File \cup {None}, v \in Nat : MakeCall(at, f, v) \in BodyCall
        BY DEF MakeCall, BodyCall
  <1>3. ASSUME NEW k \in BodyCall PROVE Left(k) \in BodyCall
        <2>1. k.id \in Nat /\ "remove" \in At
              BY DEF BodyCall, At
        <2> QED BY <1>1, <2>1 DEF Left, BodyCall
  <1> QED BY <1>1, <1>2, <1>3

LEMMA OneCall ==
  ASSUME call \in [Call -> BodyCall], NEW c \in Call, NEW k \in BodyCall, Becomes(c, k)
  PROVE  /\ call' \in [Call -> BodyCall] /\ call'[c] = k
         /\ \A d \in Call : d # c => call'[d] = call[d]
  BY DEF Becomes

(* How each step of a call leaves it.                                      *)
LEMMA CallAfter ==
  ASSUME call \in [Call -> BodyCall], NEW c \in Call
  PROVE  /\ \A at \in At : Moves(c, at) =>
              /\ [call[c] EXCEPT !.at = at] \in BodyCall
              /\ Becomes(c, [call[c] EXCEPT !.at = at])
         /\ Ends(c) => NoCall \in BodyCall /\ Becomes(c, NoCall)
         /\ Leaves(c) => Left(call[c]) \in BodyCall /\ Becomes(c, Left(call[c]))
  BY NoCallTyped DEF Moves, Ends, Leaves, Left, Becomes, BodyCall

(* Steps that reserve nothing and touch no directory.                      *)
StaysPut(k, n) ==
  \/ n.at = k.at /\ n.id = k.id /\ n.file = k.file /\ n.version = k.version /\ n.body = k.body
  \/ k.at \in {"idle", "stat", "reserve"} /\ n.at \in {"idle", "stat", "reserve"}
  \/ /\ k.at \in Working /\ n.id = k.id
     /\ n.at \in (Working \ {"open"}) \cup {"remove"}
     /\ n.at \in Working => n.file = k.file /\ n.version = k.version /\ n.body = k.body
     /\ n.at \in Writing => k.at \in Writing
Quiet ==
  /\ UNCHANGED <<disk, reserved, made, strays>>
  /\ \A c \in Call : StaysPut(call[c], call'[c])

LEMMA QuietCall ==
  ASSUME call \in [Call -> BodyCall], UNCHANGED <<disk, reserved, made, strays>>,
         NEW c \in Call, NEW k \in BodyCall, Becomes(c, k), StaysPut(call[c], k)
  PROVE  Quiet
  <1>1. call'[c] = k /\ \A d \in Call : d # c => call'[d] = call[d]
        BY OneCall
  <1>2. \A d \in Call : d # c => StaysPut(call[d], call'[d])
        BY <1>1 DEF StaysPut
  <1> QED BY <1>1, <1>2 DEF Quiet

(* Most steps of a call touch neither reservations nor directories.        *)
LEMMA QuietSteps ==
  ASSUME BodyTypeOK, \A c \in Call : KnowsItsFile(call[c], remote), NEW c \in Call,
         \/ \E s \in File : Replace(s) \/ BeginBody(c, s)
         \/ Stat(c) \/ ReserveRefused(c) \/ Open(c) \/ Download(c) \/ EndOfStream(c)
         \/ Parse(c) \/ Retain(c) \/ Cancel(c)
  PROVE  Quiet /\ call' \in [Call -> BodyCall]
  <1>1. call \in [Call -> BodyCall] /\ \A x \in Call : call[x] \in BodyCall
        BY DEF BodyTypeOK
  <1>2. call[c] \in BodyCall /\ call[c].at \in At /\ KnowsItsFile(call[c], remote)
        BY <1>1 DEF BodyCall
  <1>3. remote \in [File -> Nat]
        BY DEF BodyTypeOK
  <1>4. SUFFICES ASSUME UNCHANGED <<disk, reserved, made, strays>>
                 PROVE  \/ Quiet /\ call' \in [Call -> BodyCall]
                        \/ \E k \in BodyCall : Becomes(c, k) /\ StaysPut(call[c], k)
        BY <1>1, QuietCall, OneCall DEF Replace, BeginBody, Stat, ReserveRefused, Open,
           Download, EndOfStream, Parse, Retain, Cancel
  <1>5. NoCall.at = "idle" /\ Left(call[c]).at = "remove" /\ Left(call[c]).id = call[c].id
        BY DEF NoCall, MakeCall, Left
  <1>6. Ends(c) /\ call[c].at \in {"stat", "reserve"} =>
          \E k \in BodyCall : Becomes(c, k) /\ StaysPut(call[c], k)
        BY <1>1, <1>5, CallAfter DEF StaysPut
  <1>7. Leaves(c) /\ call[c].at \in Working =>
          \E k \in BodyCall : Becomes(c, k) /\ StaysPut(call[c], k)
        BY <1>1, <1>5, CallAfter DEF StaysPut, Working, Writing
  <1>8. ASSUME NEW at \in {"download", "fetch"}, Moves(c, at), call[c].at \in {"open", "parse"},
               at = "download" => call[c].at = "open"
        PROVE  \E k \in BodyCall : Becomes(c, k) /\ StaysPut(call[c], k)
        <2>1. at \in At
              BY DEF At
        <2>2. PICK k \in BodyCall : k = [call[c] EXCEPT !.at = at] /\ Becomes(c, k)
              BY <1>1, <1>8, <2>1, CallAfter
        <2>3. k.at = at /\ k.id = call[c].id /\ k.file = call[c].file
              /\ k.version = call[c].version /\ k.body = call[c].body
              BY <1>2, <2>2 DEF BodyCall
        <2>4. StaysPut(call[c], k)
              BY <1>8, <2>3 DEF StaysPut, Working, Writing
        <2> QED BY <2>2, <2>4
  <1>9. ASSUME NEW s \in File, Replace(s) PROVE Quiet /\ call' \in [Call -> BodyCall]
        BY <1>1, <1>4, <1>9 DEF Replace, BodyCall, Quiet, StaysPut
  <1>10. ASSUME NEW s \in File, BeginBody(c, s)
         PROVE  \E k \in BodyCall : Becomes(c, k) /\ StaysPut(call[c], k)
        <2>1. MakeCall("stat", s, 0) \in BodyCall
              BY NoCallTyped DEF At
        <2> QED BY <1>10, <2>1 DEF BeginBody, Becomes, StaysPut, MakeCall
  <1>11. CASE Stat(c)
        <2>1. CASE Ends(c)
              BY <2>1, <1>6, <1>11 DEF Stat
        <2>2. CASE call' = [call EXCEPT ![c].at = "reserve", ![c].version = remote[call[c].file]]
              <3> DEFINE k == [call[c] EXCEPT !.at = "reserve", !.version = remote[call[c].file]]
              <3>1. remote[call[c].file] \in Nat /\ "reserve" \in At
                    BY <1>2, <1>3, <1>11 DEF Stat, KnowsItsFile, At
              <3>2. k \in BodyCall /\ k.at = "reserve"
                    BY <1>2, <3>1 DEF BodyCall
              <3>3. Becomes(c, k)
                    BY <1>1, <2>2 DEF Becomes
              <3>4. StaysPut(call[c], k)
                    BY <1>11, <3>2 DEF StaysPut, Stat
              <3> QED BY <3>2, <3>3, <3>4
        <2> QED BY <1>11, <2>1, <2>2 DEF Stat
  <1>12. CASE ReserveRefused(c)
        BY <1>12, <1>6 DEF ReserveRefused
  <1>13. CASE Open(c) \/ Parse(c)
        BY <1>13, <1>7, <1>8 DEF Open, Parse, Working, Writing
  <1>14. CASE Download(c)
        <2>1. CASE Leaves(c)
              BY <2>1, <1>7, <1>14 DEF Download, Working, Writing
        <2>2. CASE call' = [call EXCEPT ![c].at = "stream", ![c].opened = remote[call[c].file]]
              <3> DEFINE k == [call[c] EXCEPT !.at = "stream", !.opened = remote[call[c].file]]
              <3>1. remote[call[c].file] \in Nat /\ "stream" \in At
                    BY <1>2, <1>3, <1>14 DEF Download, KnowsItsFile, At, Working, Writing
              <3>2. k \in BodyCall /\ k.at = "stream" /\ k.id = call[c].id
                    /\ k.file = call[c].file /\ k.version = call[c].version
                    /\ k.body = call[c].body
                    BY <1>2, <3>1 DEF BodyCall
              <3>3. Becomes(c, k)
                    BY <1>1, <2>2 DEF Becomes
              <3>4. StaysPut(call[c], k)
                    BY <1>14, <3>2 DEF StaysPut, Download, Working, Writing
              <3> QED BY <3>2, <3>3, <3>4
        <2> QED BY <1>14, <2>1, <2>2 DEF Download
  <1>15. CASE EndOfStream(c)
        <2>1. CASE Leaves(c)
              BY <2>1, <1>7, <1>15 DEF EndOfStream, Working, Writing
        <2>2. CASE call' = [call EXCEPT ![c].at = "parse", ![c].opened = 0]
              <3> DEFINE k == [call[c] EXCEPT !.at = "parse", !.opened = 0]
              <3>1. k \in BodyCall /\ k.at = "parse" /\ k.id = call[c].id
                    /\ k.file = call[c].file /\ k.version = call[c].version
                    /\ k.body = call[c].body
                    BY <1>2 DEF BodyCall, At
              <3>2. Becomes(c, k)
                    BY <1>1, <2>2 DEF Becomes
              <3>3. StaysPut(call[c], k)
                    BY <1>15, <3>1 DEF StaysPut, EndOfStream, Working, Writing
              <3> QED BY <3>1, <3>2, <3>3
        <2> QED BY <1>15, <2>1, <2>2 DEF EndOfStream
  <1>16. CASE Retain(c)
        BY <1>16, <1>7 DEF Retain, Working
  <1>17. CASE Cancel(c)
        BY <1>17, <1>2, <1>6, <1>7 DEF Cancel, At, Working, Writing
  <1> QED BY <1>9, <1>10, <1>11, <1>12, <1>13, <1>14, <1>15, <1>16, <1>17

LEMMA WithTyped ==
  ASSUME NEW n \in Nat, NEW R, NEW D \in SUBSET (1..n), NEW f \in [D -> R],
         NEW x, NEW v \in R
  PROVE  /\ x \in 1..n => \E E \in SUBSET (1..n) : With(f, x, v) \in [E -> R]
         /\ \E E \in SUBSET (1..(n + 1)) : With(f, n + 1, v) \in [E -> R]
         /\ \E E \in SUBSET (1..n) : Without(f, x) \in [E -> R]
  <1>1. D \subseteq 1..(n + 1) /\ n + 1 \in 1..(n + 1)
        OBVIOUS
  <1>2. With(f, x, v) \in [D \cup {x} -> R] /\ With(f, n + 1, v) \in [D \cup {n + 1} -> R]
        BY DEF With
  <1>3. Without(f, x) \in [D \ {x} -> R]
        BY DEF Without
  <1> QED BY <1>1, <1>2, <1>3

LEMMA BodyTypeStep ==
  ASSUME BodyTypeOK, \A c \in Call : KnowsItsFile(call[c], remote), Accounted, BodyNext
  PROVE  BodyTypeOK'
  <1>1. call \in [Call -> BodyCall] /\ made \in Nat /\ remote \in [File -> Nat]
        BY DEF BodyTypeOK
  <1>2. \A s \in File : remote[s] \in 1..Len(Size[s])
        BY DEF BodyTypeOK
  <1>3. PICK D \in SUBSET (1..made) : disk \in [D -> BodyDirectory]
        BY DEF BodyTypeOK
  <1>4. PICK E \in SUBSET (1..made) : reserved \in [E -> Nat]
        BY DEF BodyTypeOK
  <1>5. \A m \in BOOLEAN : MakeDirectory(m) \in BodyDirectory
        BY DEF MakeDirectory, BodyDirectory
  <1>6. \A c \in Call : call[c] \in BodyCall
        BY <1>1
  <1>7. \A c \in Call : call[c].at \in At /\ call[c].id \in Nat /\ call[c].body \in Seq(Nat)
        BY <1>6 DEF BodyCall
  <1> DEFINE Remotes == /\ remote' \in [File -> Nat]
                        /\ \A s \in File : remote'[s] \in 1..Len(Size[s])
             Stores == /\ made' \in Nat
                       /\ \E F \in SUBSET (1..made') : disk' \in [F -> BodyDirectory]
                       /\ \E F \in SUBSET (1..made') : reserved' \in [F -> Nat]
             Calls == call' \in [Call -> BodyCall]
  <1>8. SUFFICES Remotes /\ Stores /\ Calls
        BY DEF BodyTypeOK
  <1>9. UNCHANGED remote => Remotes
        BY <1>1, <1>2
  <1>10. UNCHANGED <<disk, reserved, made>> => Stores
        BY <1>1, <1>3, <1>4
  <1> HIDE DEF Remotes, Stores, Calls
  <1>11. ASSUME NEW s \in File, Replace(s) PROVE Remotes
        <2>1. Size[s] \in Seq(Nat) /\ Len(Size[s]) \in Nat
              BY BodyAssumption
        <2> QED BY <1>1, <1>2, <1>11, <2>1 DEF Remotes, Replace
  <1>12. ASSUME NEW c \in Call,
               \/ \E s \in File : Replace(s) \/ BeginBody(c, s)
               \/ Stat(c) \/ ReserveRefused(c) \/ Open(c) \/ Download(c) \/ EndOfStream(c)
               \/ Parse(c) \/ Retain(c) \/ Cancel(c)
         PROVE Remotes /\ Stores /\ Calls
        <2>1. Quiet /\ Calls
              BY <1>12, QuietSteps DEF Calls
        <2>2. Stores
              BY <2>1, <1>10 DEF Quiet
        <2>3. (\E s \in File : Replace(s)) \/ UNCHANGED remote
              BY <1>12 DEF BeginBody, Stat, ReserveRefused, Open, Download, EndOfStream,
                 Parse, Retain, Cancel
        <2> QED BY <2>1, <2>2, <2>3, <1>9, <1>11
  <1>13. ASSUME NEW s \in File, Replace(s) PROVE Remotes /\ Stores /\ Calls
        <2>1. Calls
              BY <1>1, <1>6, <1>13 DEF Calls, Replace, BodyCall
        <2> QED BY <1>10, <1>11, <1>13, <2>1 DEF Replace
  <1>15. ASSUME NEW c \in Call, Reserve(c) \/ ReserveBreaks(c) PROVE Remotes /\ Stores /\ Calls
        <2>1. Expected(c) \in Nat
              BY <1>15, ExpectedIsNat DEF Expected, KnowsItsFile, Reserve, ReserveBreaks
        <2>2. made' = made + 1
              BY <1>15 DEF Reserve, ReserveBreaks
        <2>3. \A m \in BOOLEAN : \E F \in SUBSET (1..(made + 1)) :
                With(disk, made + 1, MakeDirectory(m)) \in [F -> BodyDirectory]
              BY <1>1, <1>3, <1>5, WithTyped
        <2>4. \E F \in SUBSET (1..(made + 1)) : With(reserved, made + 1, Expected(c)) \in [F -> Nat]
              BY <1>1, <1>4, <2>1, WithTyped
        <2>5. \E F \in SUBSET (1..(made + 1)) : reserved \in [F -> Nat]
              BY <1>1, <1>4
        <2>6. Stores
              <3>1. CASE Reserve(c)
                    <4>1. /\ disk' = With(disk, made + 1, MakeDirectory(TRUE))
                          /\ reserved' = With(reserved, made + 1, Expected(c))
                          BY <3>1, <2>2 DEF Reserve
                    <4>2. \E F \in SUBSET (1..(made + 1)) : disk' \in [F -> BodyDirectory]
                          <5>1. TRUE \in BOOLEAN
                                OBVIOUS
                          <5> QED BY <4>1, <2>3, <5>1
                    <4>3. \E F \in SUBSET (1..(made + 1)) : reserved' \in [F -> Nat]
                          BY <4>1, <2>4
                    <4> QED BY <4>2, <4>3, <1>1, <2>2 DEF Stores
              <3>2. CASE ReserveBreaks(c)
                    BY <3>2, <1>1, <2>2, <2>3, <2>5 DEF ReserveBreaks, Stores
              <3> QED BY <1>15, <3>1, <3>2
        <2>7. Calls
              <3>1. CASE Reserve(c)
                    <4> DEFINE k == [call[c] EXCEPT !.at = "open", !.id = made + 1]
                    <4>1. call[c] \in BodyCall /\ made + 1 \in Nat /\ "open" \in At
                          BY <1>1, <1>6 DEF At
                    <4>2. k \in BodyCall
                          BY <4>1 DEF BodyCall
                    <4>3. Becomes(c, k)
                          BY <3>1, <1>1, <2>2 DEF Reserve, Becomes
                    <4> QED BY <1>1, <4>2, <4>3, OneCall DEF Calls
              <3>2. CASE ReserveBreaks(c)
                    BY <3>2, <1>1, CallAfter, OneCall DEF ReserveBreaks, Calls
              <3> QED BY <1>15, <3>1, <3>2
        <2> QED BY <1>9, <1>15, <2>6, <2>7 DEF Reserve, ReserveBreaks
  <1>18. ASSUME NEW c \in Call, Chunk(c) PROVE Remotes /\ Stores /\ Calls
        <2>1. call[c].file \in File /\ call[c].opened \in Nat
              BY <1>6, <1>18 DEF Chunk, KnowsItsFile, Working, Writing, BodyCall
        <2>2. remote[call[c].file] \in Nat
              BY <1>1, <2>1
        <2>3. \A v \in call[c].opened..remote[call[c].file] : v \in Nat
              BY <2>1, <2>2
        <2>4. Calls
              <3>1. CASE Leaves(c)
                    BY <1>1, <3>1, CallAfter, OneCall DEF Calls
              <3>2. ASSUME NEW v \in call[c].opened..remote[call[c].file],
                           call' = [call EXCEPT ![c].body = Append(@, v)]
                    PROVE  Calls
                    <4>1. Append(call[c].body, v) \in Seq(Nat)
                          BY <1>7, <2>3
                    <4> QED BY <1>1, <1>6, <3>2, <4>1 DEF Calls, BodyCall
              <3> QED BY <1>18, <3>1, <3>2 DEF Chunk
        <2>5. disk' \in [D -> BodyDirectory]
              <3>1. CASE UNCHANGED disk
                    BY <1>3, <3>1
              <3>2. CASE There(c) /\ disk' = [disk EXCEPT ![call[c].id].body = @ + 1]
                    <4>1. PICK id \in D : id = call[c].id
                          BY <1>3, <3>2 DEF There
                    <4>2. disk[id] \in BodyDirectory
                          BY <1>3
                    <4>3. [disk[id] EXCEPT !.body = @ + 1] \in BodyDirectory
                          BY <4>2 DEF BodyDirectory
                    <4> QED BY <1>3, <3>2, <4>1, <4>3
              <3> QED BY <1>18, <3>1, <3>2 DEF Chunk
        <2>6. Stores
              BY <1>1, <1>4, <1>18, <2>5 DEF Stores, Chunk
        <2> QED BY <1>9, <1>18, <2>4, <2>6 DEF Chunk
  <1>19. ASSUME NEW c \in Call, Fetch(c) PROVE Remotes /\ Stores /\ Calls
        <2>0. call[c].id \in 1..made
              <3>1. Held(c)
                    BY <1>19 DEF Fetch, Held
              <3> QED BY <3>1, BodyShape DEF Accounted
        <2>1. Calls
              BY <1>1, <1>19, CallAfter, OneCall DEF Calls, Fetch, At
        <2>2. \E F \in SUBSET (1..made) :
                With(disk, call[c].id, MakeDirectory(FALSE)) \in [F -> BodyDirectory]
              BY <1>1, <1>3, <1>5, <2>0, WithTyped
        <2>3. Stores
              BY <1>1, <1>3, <1>4, <1>19, <2>2 DEF Fetch, Stores
        <2> QED BY <1>9, <1>19, <2>1, <2>3 DEF Fetch
  <1>20. ASSUME NEW c \in Call, ArchiveChunk(c) \/ ReadArchive(c)
         PROVE  Remotes /\ Stores /\ Calls
        <2>1. ASSUME NEW n \in Nat, There(c), disk' = [disk EXCEPT ![call[c].id].archive = n]
              PROVE  disk' \in [D -> BodyDirectory]
              <3>1. PICK id \in D : id = call[c].id
                    BY <1>3, <2>1 DEF There
              <3>2. [disk[id] EXCEPT !.archive = n] \in BodyDirectory
                    BY <1>3 DEF BodyDirectory
              <3> QED BY <1>3, <2>1, <3>1, <3>2
        <2>2. ASSUME There(c) PROVE disk[call[c].id].archive + 1 \in Nat
              <3>1. disk[call[c].id] \in BodyDirectory
                    BY <1>3, <2>2 DEF There
              <3> QED BY <3>1 DEF BodyDirectory
        <2>3. disk' \in [D -> BodyDirectory]
              <3>1. CASE ArchiveChunk(c)
                    <4>1. There(c) /\ \E n \in Nat : disk' = [disk EXCEPT ![call[c].id].archive = n]
                          BY <2>2, <3>1 DEF ArchiveChunk
                    <4> QED BY <2>1, <4>1
              <3>2. CASE ReadArchive(c)
                    BY <1>3, <2>1, <3>2 DEF ReadArchive
              <3> QED BY <1>20, <3>1, <3>2
        <2>4. Stores
              BY <1>1, <1>4, <1>20, <2>3 DEF ArchiveChunk, ReadArchive, Stores
        <2>5. Calls
              <3>1. ASSUME NEW d \in Document,
                           call' = [call EXCEPT ![c].at = "retain", ![c].document = d]
                    PROVE  Calls
                    <4> DEFINE k == [call[c] EXCEPT !.at = "retain", !.document = d]
                    <4>1. k \in BodyCall
                          BY <1>6 DEF BodyCall, At
                    <4>2. Becomes(c, k)
                          BY <3>1, <1>1 DEF Becomes
                    <4> QED BY <1>1, <4>1, <4>2, OneCall DEF Calls
              <3>2. CASE Leaves(c)
                    BY <1>1, <3>2, CallAfter, OneCall DEF Calls
              <3>3. CASE UNCHANGED call
                    BY <1>1, <3>3 DEF Calls
              <3> QED BY <1>20, <3>1, <3>2, <3>3 DEF ArchiveChunk, ReadArchive, Readable
        <2> QED BY <1>9, <1>20, <2>4, <2>5 DEF ArchiveChunk, ReadArchive
  <1>21. ASSUME NEW c \in Call, CleanUp(c) PROVE Remotes /\ Stores /\ Calls
        <2>1. Calls
              BY <1>1, <1>21, CallAfter, OneCall DEF Calls, CleanUp, At
        <2>2. \E F \in SUBSET (1..made) :
                Without(disk, call[c].id) \in [F -> BodyDirectory]
              BY <1>1, <1>3, <1>5, WithTyped
        <2>3. Stores
              BY <1>1, <1>3, <1>4, <1>21, <2>2 DEF CleanUp, Stores
        <2> QED BY <1>9, <1>21, <2>1, <2>3 DEF CleanUp
  <1>22. ASSUME NEW c \in Call, Release(c) PROVE Remotes /\ Stores /\ Calls
        <2>1. Calls
              BY <1>1, <1>22, CallAfter, OneCall DEF Calls, Release
        <2>2. \E F \in SUBSET (1..made) : Without(reserved, call[c].id) \in [F -> Nat]
              BY <1>1, <1>4, WithTyped
        <2>3. Stores
              BY <1>1, <1>3, <1>22, <2>2 DEF Release, Stores
        <2> QED BY <1>9, <1>22, <2>1, <2>3 DEF Release
  <1>23. ASSUME NEW id \in DOMAIN disk, Sweep(id) PROVE Remotes /\ Stores /\ Calls
        <2>1. \E F \in SUBSET (1..made) :
                Without(disk, id) \in [F -> BodyDirectory]
              BY <1>1, <1>3, <1>5, WithTyped
        <2>2. Stores
              BY <1>1, <1>4, <1>23, <2>1 DEF Sweep, Stores
        <2> QED BY <1>1, <1>9, <1>23, <2>2 DEF Sweep, Calls
  <1>24. CASE Crash
        <2>1. Calls
              BY <1>24, NoCallTyped DEF Crash, Calls
        <2>2. << >> \in [{} -> Nat] /\ {} \in SUBSET (1..made)
              OBVIOUS
        <2>3. Stores
              BY <1>1, <1>3, <1>24, <2>2 DEF Crash, Stores
        <2> QED BY <1>9, <1>24, <2>1, <2>3 DEF Crash
  <1> QED BY <1>12, <1>13, <1>15, <1>18, <1>19, <1>20, <1>21, <1>22, <1>23, <1>24 DEF BodyNext

LEMMA NothingToKnow ==
  ASSUME NEW k, NEW r, k.at \in {"idle", "remove", "release"}
  PROVE  KnowsItsFile(k, r)
  BY DEF KnowsItsFile, Working, Writing

(* Other calls know what they knew of their files.                         *)
LEMMA OthersKnow ==
  ASSUME call \in [Call -> BodyCall], \A d \in Call : KnowsItsFile(call[d], remote),
         UNCHANGED remote, NEW c \in Call, NEW k \in BodyCall,
         Becomes(c, k), KnowsItsFile(k, remote)
  PROVE  \A d \in Call : KnowsItsFile(call[d], remote)'
  BY OneCall

(* Steps that keep what a call knows of its file, and what it has of it.   *)
LEMMA FileKept ==
  ASSUME NEW k \in BodyCall, NEW n, NEW r, KnowsItsFile(k, r),
         n.file = k.file, n.version = k.version, n.body = k.body, n.touched = k.touched,
         \/ k.at = "reserve" /\ n.at = "open"
         \/ k.at = "parse" /\ n.at = "fetch"
         \/ k.at = "fetch" /\ n.at = "archive"
         \/ k.at = "archive" /\ n.at = "retain"
         \/ /\ k.at = "open" /\ n.at = "download"
            /\ k.file \in Timed => r[k.file] = k.version
         \/ /\ k.at = "stream" /\ n.at = "parse" /\ Len(k.body) = Size[k.file][k.version]
  PROVE  KnowsItsFile(n, r)
  <1> USE DEF KnowsItsFile, Working, Writing
  <1>1. CASE k.at = "reserve" /\ n.at = "open"
        BY <1>1
  <1>2. CASE k.at = "parse" /\ n.at = "fetch"
        BY <1>2
  <1>3. CASE (k.at = "fetch" /\ n.at = "archive") \/ (k.at = "archive" /\ n.at = "retain")
        BY <1>3
  <1>4. CASE /\ k.at = "open" /\ n.at = "download"
             /\ k.file \in Timed => r[k.file] = k.version
        BY <1>4
  <1>5. CASE k.at = "stream" /\ n.at = "parse" /\ Len(k.body) = Size[k.file][k.version]
        BY <1>5
  <1> QED BY <1>1, <1>2, <1>3, <1>4, <1>5

LEMMA FileStep ==
  ASSUME BodyTypeOK, \A c \in Call : KnowsItsFile(call[c], remote), BodyNext
  PROVE  \A d \in Call : KnowsItsFile(call[d], remote)'
  <1>1. /\ call \in [Call -> BodyCall] /\ remote \in [File -> Nat]
        /\ \A s \in File : remote[s] \in 1..Len(Size[s])
        BY DEF BodyTypeOK
  <1>2. \A d \in Call : call[d] \in BodyCall /\ KnowsItsFile(call[d], remote)
        BY <1>1
  <1>3. ASSUME NEW c \in Call, Ends(c) \/ Leaves(c), UNCHANGED remote
        PROVE  \A d \in Call : KnowsItsFile(call[d], remote)'
        <2>1. NoCall.at = "idle" /\ Left(call[c]).at = "remove"
              BY DEF NoCall, MakeCall, Left
        <2> QED BY <1>1, <1>2, <1>3, <2>1, CallAfter, OthersKnow, NothingToKnow
  <1>4. ASSUME NEW c \in Call, NEW at \in {"download", "fetch", "archive", "release"}, Moves(c, at),
               at = "download" => call[c].at = "open" /\ Unchanged(c),
               at = "fetch" => call[c].at = "parse",
               at = "archive" => call[c].at = "fetch",
               UNCHANGED remote
        PROVE  \A d \in Call : KnowsItsFile(call[d], remote)'
        <2>1. at \in At
              BY DEF At
        <2>2. PICK k \in BodyCall : k = [call[c] EXCEPT !.at = at] /\ Becomes(c, k)
              BY <1>1, <1>4, <2>1, CallAfter
        <2>3. /\ k.at = at /\ k.file = call[c].file /\ k.version = call[c].version
              /\ k.body = call[c].body /\ k.touched = call[c].touched
              BY <1>2, <2>2 DEF BodyCall
        <2>4. KnowsItsFile(k, remote)
              <3>1. CASE at = "release"
                    BY <2>3, <3>1, NothingToKnow
              <3>2. CASE at # "release"
                    BY <1>2, <1>4, <2>3, <3>2, FileKept DEF Unchanged
              <3> QED BY <3>1, <3>2
        <2> QED BY <1>1, <1>2, <1>4, <2>2, <2>4, OthersKnow
  <1>5. ASSUME NEW s \in File, Replace(s) PROVE \A d \in Call : KnowsItsFile(call[d], remote)'
        <2> SUFFICES ASSUME NEW d \in Call PROVE KnowsItsFile(call'[d], remote')
            OBVIOUS
        <2>1. call'[d] = [call[d] EXCEPT !.touched =
                @ \/ (call[d].file = s /\ call[d].at \in {"download", "stream"})]
              BY <1>5 DEF Replace
        <2>2. /\ call'[d].at = call[d].at /\ call'[d].file = call[d].file
              /\ call'[d].version = call[d].version /\ call'[d].body = call[d].body
              /\ call'[d].opened = call[d].opened
              /\ call'[d].touched = (call[d].touched
                   \/ (call[d].file = s /\ call[d].at \in {"download", "stream"}))
              BY <1>2, <2>1 DEF BodyCall
        <2>3. /\ \A f \in File : remote[f] \in Nat /\ remote'[f] \in Nat /\ remote[f] <= remote'[f]
              /\ \A f \in File : f # s => remote'[f] = remote[f]
              BY <1>1, <1>5 DEF Replace
        <2>4. KnowsItsFile(call[d], remote)
              BY <1>2
        <2>5. call[d].at = "stream" => call[d].file \in File
              BY <2>4 DEF KnowsItsFile, Working, Writing
        <2>6. call[d].at = "stream" => call'[d].opened \in 1..remote'[call[d].file]
              <3> HAVE call[d].at = "stream"
              <3>1. call[d].opened \in 1..remote[call[d].file]
                    BY <2>4 DEF KnowsItsFile
              <3>2. remote[call[d].file] \in Nat /\ remote'[call[d].file] \in Nat
                    /\ remote[call[d].file] <= remote'[call[d].file]
                    BY <2>3, <2>5
              <3> QED BY <2>2, <3>1, <3>2
        <2>7. call'[d].file \in Timed /\ ~call'[d].touched /\ call[d].at \in {"download", "stream"}
                => remote'[call[d].file] = remote[call[d].file]
              BY <2>2, <2>3, BodyAssumption
        <2> QED BY <2>2, <2>4, <2>6, <2>7 DEF KnowsItsFile, Working, Writing
  <1>6. ASSUME NEW s \in File, NEW c \in Call, BeginBody(c, s)
        PROVE  \A d \in Call : KnowsItsFile(call[d], remote)'
        <2>1. MakeCall("stat", s, 0) \in BodyCall /\ Becomes(c, MakeCall("stat", s, 0))
              BY <1>6, NoCallTyped DEF BeginBody, Becomes, At
        <2>2. KnowsItsFile(MakeCall("stat", s, 0), remote)
              BY DEF KnowsItsFile, MakeCall, Working, Writing
        <2> QED BY <1>1, <1>2, <1>6, <2>1, <2>2, OthersKnow DEF BeginBody
  <1>7. ASSUME NEW c \in Call, Stat(c) PROVE \A d \in Call : KnowsItsFile(call[d], remote)'
        <2>1. CASE call' = [call EXCEPT ![c].at = "reserve", ![c].version = remote[call[c].file]]
              <3> DEFINE k == [call[c] EXCEPT !.at = "reserve", !.version = remote[call[c].file]]
              <3>1. call[c].file \in File /\ ~call[c].touched /\ call[c].body = <<>>
                    BY <1>2, <1>7 DEF Stat, KnowsItsFile
              <3>2. remote[call[c].file] \in Nat /\ "reserve" \in At
                    BY <1>1, <3>1 DEF At
              <3>3. k \in BodyCall /\ k.at = "reserve" /\ k.file = call[c].file
                    /\ k.version = remote[call[c].file] /\ k.body = <<>> /\ k.touched = call[c].touched
                    BY <1>2, <3>1, <3>2 DEF BodyCall
              <3>4. Becomes(c, k)
                    BY <1>1, <2>1 DEF Becomes
              <3>5. KnowsItsFile(k, remote)
                    BY <1>1, <3>1, <3>3 DEF KnowsItsFile, Working, Writing
              <3> HIDE DEF k
              <3> QED BY <1>1, <1>2, <1>7, <3>3, <3>4, <3>5, OthersKnow DEF Stat
        <2> QED BY <1>3, <1>7, <2>1 DEF Stat
  <1>8. ASSUME NEW c \in Call, Reserve(c) PROVE \A d \in Call : KnowsItsFile(call[d], remote)'
        <2> DEFINE k == [call[c] EXCEPT !.at = "open", !.id = made + 1]
        <2>1. made + 1 \in Nat /\ "open" \in At
              BY DEF BodyTypeOK, At
        <2>2. /\ k \in BodyCall /\ k.at = "open" /\ k.file = call[c].file
              /\ k.version = call[c].version /\ k.body = call[c].body /\ k.touched = call[c].touched
              BY <1>2, <2>1 DEF BodyCall
        <2>3. Becomes(c, k)
              BY <1>1, <1>8 DEF Reserve, Becomes
        <2> HIDE DEF k
        <2>4. KnowsItsFile(k, remote)
              BY <1>2, <1>8, <2>2, FileKept DEF Reserve
        <2> QED BY <1>1, <1>2, <1>8, <2>2, <2>3, <2>4, OthersKnow DEF Reserve
  <1>9. ASSUME NEW c \in Call, Download(c) PROVE \A d \in Call : KnowsItsFile(call[d], remote)'
        <2>1. CASE call' = [call EXCEPT ![c].at = "stream", ![c].opened = remote[call[c].file]]
              <3> DEFINE k == [call[c] EXCEPT !.at = "stream", !.opened = remote[call[c].file]]
              <3>1. /\ call[c].file \in File /\ call[c].body = <<>>
                    /\ call[c].version \in 1..Len(Size[call[c].file])
                    BY <1>2, <1>9 DEF Download, KnowsItsFile, Working, Writing
              <3>2. remote[call[c].file] \in Nat /\ remote[call[c].file] >= 1 /\ "stream" \in At
                    BY <1>1, <3>1 DEF At
              <3>3. /\ k \in BodyCall /\ k.at = "stream" /\ k.file = call[c].file
                    /\ k.version = call[c].version /\ k.body = <<>> /\ k.touched = call[c].touched
                    /\ k.opened = remote[call[c].file]
                    BY <1>2, <3>1, <3>2 DEF BodyCall
              <3>4. Becomes(c, k)
                    BY <1>1, <2>1 DEF Becomes
              <3>5. Size[k.file][k.version] \in Nat
                    BY <3>1, <3>3, ExpectedIsNat
              <3>6. KnowsItsFile(call[c], remote) /\ call[c].at = "download"
                    BY <1>2, <1>9 DEF Download
              <3> HIDE DEF k
              <3>7. k.file \in Timed /\ ~k.touched => remote[k.file] = k.version
                    BY <3>3, <3>6 DEF KnowsItsFile
              <3>8. Len(k.body) = 0 /\ Len(k.body) <= Size[k.file][k.version]
                    BY <3>3, <3>5
              <3>9. k.opened \in 1..remote[k.file]
                    BY <3>2, <3>3
              <3>10. \A i \in 1..Len(k.body) : k.body[i] = k.version
                    BY <3>8
              <3>11. KnowsItsFile(k, remote)
                    BY <3>1, <3>3, <3>7, <3>8, <3>9, <3>10 DEF KnowsItsFile, Working, Writing
              <3> QED BY <1>1, <1>2, <1>9, <3>3, <3>4, <3>11, OthersKnow DEF Download
        <2> QED BY <1>3, <1>9, <2>1 DEF Download
  <1>10. ASSUME NEW c \in Call, Chunk(c) PROVE \A d \in Call : KnowsItsFile(call[d], remote)'
        <2>1. ASSUME NEW v \in call[c].opened..remote[call[c].file],
                     call' = [call EXCEPT ![c].body = Append(@, v)],
                     ~(Len(call[c].body) >= Expected(c))
              PROVE  \A d \in Call : KnowsItsFile(call[d], remote)'
              <3> DEFINE k == [call[c] EXCEPT !.body = Append(call[c].body, v)]
              <3>1. /\ KnowsItsFile(call[c], remote) /\ call[c].at = "stream"
                    /\ call[c] \in BodyCall
                    BY <1>2, <1>10 DEF Chunk
              <3>2. /\ call[c].file \in File /\ call[c].opened \in 1..remote[call[c].file]
                    /\ call[c].version \in 1..Len(Size[call[c].file])
                    BY <3>1 DEF KnowsItsFile, Working, Writing
              <3>3. remote[call[c].file] \in Nat /\ Expected(c) \in Nat
                    BY <1>1, <3>2, ExpectedIsNat DEF Expected
              <3>4. v \in Nat /\ call[c].body \in Seq(Nat)
                    BY <3>1, <3>2, <3>3 DEF BodyCall
              <3>5. /\ Append(call[c].body, v) \in Seq(Nat)
                    /\ Len(Append(call[c].body, v)) = Len(call[c].body) + 1
                    /\ Len(call[c].body) \in Nat
                    /\ \A i \in 1..Len(call[c].body) : Append(call[c].body, v)[i] = call[c].body[i]
                    /\ Append(call[c].body, v)[Len(call[c].body) + 1] = v
                    BY <3>4
              <3>6. /\ k \in BodyCall /\ k.at = "stream" /\ k.file = call[c].file
                    /\ k.version = call[c].version /\ k.body = Append(call[c].body, v)
                    /\ k.touched = call[c].touched /\ k.opened = call[c].opened
                    BY <3>1, <3>5 DEF BodyCall
              <3>7. Becomes(c, k)
                    BY <1>1, <2>1 DEF Becomes
              <3> HIDE DEF k
              <3>8. Len(k.body) <= Size[k.file][k.version]
                    BY <2>1, <3>3, <3>5, <3>6 DEF Expected
              <3>9. ASSUME k.file \in Timed, ~k.touched
                    PROVE  /\ remote[k.file] = k.version /\ k.opened = k.version
                           /\ \A i \in 1..Len(k.body) : k.body[i] = k.version
                    <4>1. remote[k.file] = k.version /\ k.opened = k.version
                          BY <3>1, <3>6, <3>9 DEF KnowsItsFile
                    <4>2. \A i \in 1..Len(call[c].body) : call[c].body[i] = k.version
                          BY <3>1, <3>6, <3>9 DEF KnowsItsFile, Working, Writing
                    <4>3. v = k.version
                          BY <3>2, <3>3, <3>6, <4>1
                    <4>4. \A i \in 1..Len(k.body) : i \in 1..Len(call[c].body) \/ i = Len(call[c].body) + 1
                          BY <3>5, <3>6
                    <4> QED BY <3>5, <3>6, <4>1, <4>2, <4>3, <4>4
              <3>10. KnowsItsFile(k, remote)
                    BY <3>2, <3>6, <3>8, <3>9 DEF KnowsItsFile, Working, Writing
              <3> QED BY <1>1, <1>2, <1>10, <3>6, <3>7, <3>10, OthersKnow DEF Chunk
        <2> QED BY <1>3, <1>10, <2>1 DEF Chunk
  <1>11. ASSUME NEW c \in Call, EndOfStream(c) PROVE \A d \in Call : KnowsItsFile(call[d], remote)'
        <2>1. CASE /\ Len(call[c].body) = Expected(c)
                   /\ call' = [call EXCEPT ![c].at = "parse", ![c].opened = 0]
              <3> DEFINE k == [call[c] EXCEPT !.at = "parse", !.opened = 0]
              <3>1. /\ k \in BodyCall /\ k.at = "parse" /\ k.file = call[c].file
                    /\ k.version = call[c].version /\ k.body = call[c].body
                    /\ k.touched = call[c].touched
                    BY <1>2 DEF BodyCall, At
              <3>2. Becomes(c, k)
                    BY <1>1, <2>1 DEF Becomes
              <3> HIDE DEF k
              <3>3. KnowsItsFile(k, remote)
                    BY <1>2, <1>11, <2>1, <3>1, FileKept DEF EndOfStream, Expected
              <3> QED BY <1>1, <1>2, <1>11, <3>1, <3>2, <3>3, OthersKnow DEF EndOfStream
        <2> QED BY <1>3, <1>11, <2>1 DEF EndOfStream
  <1>12. ASSUME NEW c \in Call, ReadArchive(c) PROVE \A d \in Call : KnowsItsFile(call[d], remote)'
        <2>1. ASSUME NEW d \in Readable,
                     call' = [call EXCEPT ![c].at = "retain", ![c].document = d]
              PROVE  \A e \in Call : KnowsItsFile(call[e], remote)'
              <3> DEFINE k == [call[c] EXCEPT !.at = "retain", !.document = d]
              <3>1. /\ k \in BodyCall /\ k.at = "retain" /\ k.file = call[c].file
                    /\ k.version = call[c].version /\ k.body = call[c].body
                    /\ k.touched = call[c].touched
                    BY <1>2 DEF BodyCall, At, Readable
              <3>2. Becomes(c, k)
                    BY <1>1, <2>1 DEF Becomes
              <3> HIDE DEF k
              <3>3. KnowsItsFile(k, remote)
                    BY <1>2, <1>12, <3>1, FileKept DEF ReadArchive
              <3> QED BY <1>1, <1>2, <1>12, <3>1, <3>2, <3>3, OthersKnow DEF ReadArchive
        <2> QED BY <1>3, <1>12, <2>1 DEF ReadArchive
  <1>13. ASSUME NEW c \in Call, ReserveRefused(c) \/ ReserveBreaks(c) \/ Retain(c) \/ Release(c)
                                \/ Cancel(c)
         PROVE  \A d \in Call : KnowsItsFile(call[d], remote)'
         BY <1>3, <1>13 DEF ReserveRefused, ReserveBreaks, Retain, Release, Cancel
  <1>14. ASSUME NEW c \in Call, Open(c) \/ Parse(c) \/ Fetch(c) \/ CleanUp(c)
         PROVE  \A d \in Call : KnowsItsFile(call[d], remote)'
         BY <1>3, <1>4, <1>14 DEF Open, Parse, Fetch, CleanUp
  <1>15. ASSUME (\E id \in DOMAIN disk : Sweep(id)) \/ (\E c \in Call : ArchiveChunk(c))
         PROVE  \A d \in Call : KnowsItsFile(call[d], remote)'
         BY <1>2, <1>15 DEF Sweep, ArchiveChunk
  <1>16. CASE Crash
         BY <1>16, NothingToKnow DEF Crash, NoCall, MakeCall
  <1> QED BY <1>5, <1>6, <1>7, <1>8, <1>9, <1>10, <1>11, <1>12, <1>13, <1>14, <1>15, <1>16
          DEF BodyNext

(* What is on disk of each directory.                                      *)
WrittenTo == [id \in DOMAIN disk |-> disk[id].body + disk[id].archive]

LEMMA OnDiskIsTotal ==
  ASSUME BodyTypeOK
  PROVE  OnDisk = Total(WrittenTo)
  <1> DEFINE bytes(x) == disk[x].body + disk[x].archive
             S == DOMAIN disk
             w == [id \in S |-> disk[id].body + disk[id].archive]
             g == CHOOSE h : h = [A \in SUBSET S |->
               IF A = {} THEN 0
               ELSE bytes(CHOOSE x \in A : TRUE) + h[A \ {CHOOSE x \in A : TRUE}]]
  <1>1. OnDisk = g[S]
        BY DEF OnDisk, MapThenSumSet, MapThenFoldSet
  <1>2. IsFiniteSet(S) /\ w \in [S -> Nat]
        BY BodyShape
  <1>3. PICK T : Sums(T, w, S)
        <2> HIDE DEF w, S
        <2> QED BY <1>2, SumsExist
  <1>4. \A A \in SUBSET S : A # {} => w[CHOOSE x \in A : TRUE] = bytes(CHOOSE x \in A : TRUE)
        <2> TAKE A \in SUBSET S
        <2> HAVE A # {}
        <2>1. (CHOOSE x \in A : TRUE) \in A
              OBVIOUS
        <2>2. (CHOOSE x \in A : TRUE) \in S
              BY <2>1
        <2> QED BY <2>2
  <1>5. SumsByChoice(T, w, S)
        <2> HIDE DEF w, S
        <2> QED BY <1>3, SumsAreByChoice
  <1>6. T = [A \in SUBSET S |->
               IF A = {} THEN 0
               ELSE bytes(CHOOSE x \in A : TRUE) + T[A \ {CHOOSE x \in A : TRUE}]]
        <2> HIDE DEF w, S
        <2> QED BY <1>4, <1>5 DEF SumsByChoice
  <1>7. g = [A \in SUBSET S |->
               IF A = {} THEN 0
               ELSE bytes(CHOOSE x \in A : TRUE) + g[A \ {CHOOSE x \in A : TRUE}]]
        BY <1>6
  <1>8. SumsByChoice(g, w, S)
        <2> HIDE DEF w, S, g
        <2> QED BY <1>4, <1>7 DEF SumsByChoice
  <1> HIDE DEF w, S, g
  <1>9. g[S] = T[S]
        BY <1>2, <1>3, <1>8, ByChoiceIsTheSum
  <1>10. Total(w) = T[S]
        BY <1>2, <1>3, TotalIsTheSum
  <1> QED BY <1>1, <1>9, <1>10 DEF w, S, WrittenTo

LEMMA PromisedIsTotal == Promised = Total(reserved)
  BY DEF Promised, Total

LEMMA TotalsAfter ==
  /\ Total(MayGrowTo)' = Total(MayGrowTo')
  /\ Promised' = Total(reserved')
  BY DEF Total, Promised, MapThenSumSet, MapThenFoldSet

HeldIds == {call[c].id : c \in {x \in Call : Held(x)}}

LEMMA HoldFacts ==
  ASSUME BodyHolds
  PROVE  /\ \A c \in Call : Held(c) => call[c].id \in DOMAIN reserved
         /\ \A c \in Call : call[c].at \in Working =>
              /\ Held(c) /\ Expected(c) \in Nat
              /\ reserved[call[c].id] = Expected(c)
         /\ \A c \in Call : call[c].at \in Writing => Len(call[c].body) <= Expected(c)
         /\ MayGrowTo \in [(DOMAIN disk) \cup (DOMAIN reserved) -> Nat]
         /\ Total(MayGrowTo) \in Nat /\ IsFiniteSet((DOMAIN disk) \cup (DOMAIN reserved))
         /\ \A id \in DOMAIN disk : disk[id].body + disk[id].archive <= MayGrowTo[id]
  <1>1. \A c \in Call : Held(c) => call[c].id \in DOMAIN reserved
        BY DEF BodyHolds, Accounted
  <1>2. ASSUME NEW c \in Call, call[c].at \in Working
        PROVE  Held(c) /\ Expected(c) \in Nat /\ reserved[call[c].id] = Expected(c)
        <2>1. Held(c)
              BY <1>2 DEF Held, Working, Writing
        <2>2. call[c].file \in File /\ call[c].version \in 1..Len(Size[call[c].file])
              BY <1>2 DEF BodyHolds, KnowsItsFile
        <2> QED BY <1>2, <2>1, <2>2, ExpectedIsNat DEF Expected, BodyHolds, HoldsItsOwn
  <1>3. ASSUME NEW c \in Call, call[c].at \in Writing
        PROVE  Len(call[c].body) <= Expected(c)
        <2>1. KnowsItsFile(call[c], remote) /\ Expected(c) \in Nat
              BY <1>2, <1>3 DEF BodyHolds, Working
        <2> QED BY <1>3, <2>1 DEF KnowsItsFile, Expected, Writing
  <1>4. /\ reserved \in [DOMAIN reserved -> Nat] /\ IsFiniteSet(DOMAIN disk)
        /\ IsFiniteSet(DOMAIN reserved) /\ MaxArchive \in Nat
        /\ \A id \in DOMAIN disk : disk[id].body \in Nat /\ disk[id].archive \in Nat
        BY BodyShape, BodyConstants DEF BodyHolds
  <1>5. IsFiniteSet((DOMAIN disk) \cup (DOMAIN reserved))
        BY <1>4, FS_Union
  <1>6. MayGrowTo \in [(DOMAIN disk) \cup (DOMAIN reserved) -> Nat]
        BY <1>4 DEF MayGrowTo
  <1>7. Total(MayGrowTo) \in Nat
        BY <1>5, <1>6, TotalIsNat
  <1>8. ASSUME NEW id \in DOMAIN disk PROVE disk[id].body + disk[id].archive <= MayGrowTo[id]
        <2>1. CASE id \in DOMAIN reserved
              <3>1. disk[id].body <= reserved[id] /\ disk[id].archive <= MaxArchive
                    BY <2>1 DEF BodyHolds, Accounted
              <3>2. MayGrowTo[id] = reserved[id] + MaxArchive /\ reserved[id] \in Nat
                    BY <1>4, <2>1 DEF MayGrowTo
              <3> QED BY <1>4, <3>1, <3>2
        <2>2. CASE id \notin DOMAIN reserved
              BY <1>4, <2>2 DEF MayGrowTo
        <2> QED BY <2>1, <2>2
  <1> QED BY <1>1, <1>2, <1>3, <1>5, <1>6, <1>7, <1>8

LEMMA MayGrowToIsNat ==
  BodyHolds => /\ MayGrowTo \in [(DOMAIN disk) \cup (DOMAIN reserved) -> Nat]
               /\ Total(MayGrowTo) \in Nat
               /\ IsFiniteSet((DOMAIN disk) \cup (DOMAIN reserved))
  BY HoldFacts

LEMMA Shrinks ==
  ASSUME WillBeBounded, Total(MayGrowTo) \in Nat, Total(MayGrowTo)' \in Nat,
         Total(MayGrowTo)' <= Total(MayGrowTo)
  PROVE  WillBeBounded'
  <1>1. Other \in Nat /\ Target \in Nat /\ MaxObject \in Nat /\ Allowance \in Nat
        BY BodyConstants
  <1>2. PICK m \in Nat, n \in Nat : m = Total(MayGrowTo) /\ n = Total(MayGrowTo)'
        OBVIOUS
  <1>3. m = 0 \/ Other + m <= (Target - MaxObject) + Allowance
        BY <1>2 DEF WillBeBounded
  <1>4. n = 0 \/ Other + n <= (Target - MaxObject) + Allowance
        BY <1>1, <1>2, <1>3
  <1>5. Allowance' = Allowance
        BY DEF Allowance
  <1> QED BY <1>2, <1>4, <1>5 DEF WillBeBounded

(* Nothing may grow to more than before.                                   *)
LEMMA NoneGrows ==
  ASSUME BodyHolds, BodyHolds', WillBeBounded,
         NEW W, W = (DOMAIN disk') \cup (DOMAIN reserved'),
         W \subseteq (DOMAIN disk) \cup (DOMAIN reserved),
         \A id \in W : MayGrowTo'[id] <= MayGrowTo[id]
  PROVE  WillBeBounded'
  <1> DEFINE V == (DOMAIN disk) \cup (DOMAIN reserved)
  <1>1. MayGrowTo \in [V -> Nat] /\ Total(MayGrowTo) \in Nat /\ IsFiniteSet(V)
        BY HoldFacts
  <1>2. (/\ MayGrowTo \in [(DOMAIN disk) \cup (DOMAIN reserved) -> Nat]
         /\ Total(MayGrowTo) \in Nat
         /\ IsFiniteSet((DOMAIN disk) \cup (DOMAIN reserved)))'
        BY MayGrowToIsNat, PTL
  <1>3. MayGrowTo' \in [W -> Nat] /\ IsFiniteSet(W)
        BY <1>2
  <1> HIDE DEF V
  <1>4. W \subseteq V
        BY DEF V
  <1>5. Total(MayGrowTo') <= Total(MayGrowTo)
        BY <1>1, <1>3, <1>4, TotalAtMost
  <1> QED BY <1>1, <1>2, <1>5, TotalsAfter, Shrinks

(* A step that reserves and frees nothing, and touches the directories of  *)
(* calls in progress alone.                                                *)
LEMMA OthersStay ==
  ASSUME BodyHolds, BodyHolds', WillBeBounded, UNCHANGED reserved,
         \A x \in DOMAIN disk' :
           x \in DOMAIN reserved \/ (x \in DOMAIN disk /\ disk'[x] = disk[x])
  PROVE  WillBeBounded'
  <1> DEFINE W == (DOMAIN disk') \cup (DOMAIN reserved')
  <1>1. W \subseteq (DOMAIN disk) \cup (DOMAIN reserved)
        OBVIOUS
  <1>2. MayGrowTo \in [(DOMAIN disk) \cup (DOMAIN reserved) -> Nat]
        BY HoldFacts
  <1>3. ASSUME NEW x \in W PROVE MayGrowTo'[x] <= MayGrowTo[x]
        <2>1. MayGrowTo'[x] = MayGrowTo[x]
              BY DEF MayGrowTo
        <2>2. MayGrowTo[x] \in Nat
              BY <1>1, <1>2
        <2> QED BY <2>1, <2>2
  <1> QED BY <1>1, <1>3, NoneGrows

(* Steps that reserve nothing, write nothing of a body, and remove no      *)
(* directory; they may make one again, and change an archive.              *)
Tended ==
  /\ UNCHANGED <<reserved, made, strays>>
  /\ \A c \in Call : StaysPut(call[c], call'[c])
  /\ \A x \in DOMAIN disk' :
       \/ x \in DOMAIN disk /\ disk'[x] = disk[x]
       \/ /\ x \in DOMAIN disk /\ x \in DOMAIN reserved
          /\ disk'[x].body = disk[x].body /\ disk'[x].archive <= MaxArchive
       \/ /\ x \in DOMAIN reserved /\ \A d \in Call : call[d].at = "release" => call[d].id # x
          /\ disk'[x].body = 0 /\ disk'[x].archive <= MaxArchive

LEMMA TendedHolds ==
  ASSUME BodyHolds, WillBeBounded, BodyTypeOK', (\A c \in Call : KnowsItsFile(call[c], remote)'),
         Tended
  PROVE  HoldsItsOwn' /\ Accounted' /\ WillBeBounded'
  <1>1. UNCHANGED <<reserved, made, strays>> /\ \A c \in Call : StaysPut(call[c], call'[c])
        BY DEF Tended
  <1>2. /\ \A c \in Call : Held(c)' <=> Held(c)
        /\ \A c \in Call : Held(c) => call'[c].id = call[c].id
        BY <1>1 DEF StaysPut, Held, Working, Writing
  <1>3. ASSUME NEW c \in Call, call'[c].at \in Working
        PROVE  /\ call[c].at \in Working /\ call'[c].id = call[c].id
               /\ Expected(c)' = Expected(c) /\ call'[c].body = call[c].body
               /\ call'[c].at \in Writing => call[c].at \in Writing
        BY <1>1, <1>3 DEF StaysPut, Working, Writing, Expected
  <1>4. ASSUME NEW c \in Call, call'[c].at = "release"
        PROVE  call[c].at = "release" /\ call'[c].id = call[c].id
        BY <1>1, <1>4 DEF StaysPut, Working, Writing
  <1>5. HeldIds' = HeldIds
        BY <1>2 DEF HeldIds
  <1>6. /\ reserved \in [DOMAIN reserved -> Nat]
        /\ \A x \in DOMAIN disk : disk[x].body \in Nat
        BY BodyShape DEF BodyHolds
  <1>7. Accounted'
        <2>1. Promised' = Promised
              BY <1>1, TotalsAfter, PromisedIsTotal
        <2>2. (DOMAIN disk') \ strays \subseteq DOMAIN reserved
              BY DEF Tended, BodyHolds, Accounted
        <2>3. ASSUME NEW x \in DOMAIN disk'
              PROVE  /\ disk'[x].archive <= MaxArchive
                     /\ x \in DOMAIN reserved => disk'[x].body <= reserved[x]
              BY <1>6 DEF Tended, BodyHolds, Accounted
        <2> QED BY <1>1, <1>5, <2>1, <2>2, <2>3 DEF BodyHolds, Accounted, HeldIds
  <1>8. HoldsItsOwn'
        <2>1. \A c, d \in Call : Held(c)' /\ Held(d)' /\ call'[c].id = call'[d].id => c = d
              BY <1>2 DEF BodyHolds, HoldsItsOwn
        <2>2. \A c \in Call : call'[c].at \in Working => reserved'[call'[c].id] = Expected(c)'
              BY <1>1, <1>3 DEF BodyHolds, HoldsItsOwn
        <2>3. ASSUME NEW c \in Call, call'[c].at \in Writing, There(c)'
              PROVE  disk'[call'[c].id].body <= Len(call'[c].body)
              <3>1. /\ call[c].at \in Writing /\ call'[c].id = call[c].id
                    /\ call'[c].body = call[c].body /\ call[c].id \in DOMAIN disk'
                    BY <1>3, <2>3 DEF Working, There
              <3>2. Len(call[c].body) \in Nat
                    BY DEF BodyHolds, BodyTypeOK, BodyCall
              <3>3. call[c].id \in DOMAIN disk => disk[call[c].id].body <= Len(call[c].body)
                    BY <3>1 DEF BodyHolds, HoldsItsOwn, There
              <3>4. \/ call[c].id \in DOMAIN disk /\ disk'[call[c].id].body = disk[call[c].id].body
                    \/ disk'[call[c].id].body = 0
                    BY <3>1 DEF Tended
              <3> QED BY <3>1, <3>2, <3>3, <3>4
        <2>4. ASSUME NEW c \in Call, call'[c].at = "release"
              PROVE  call'[c].id \notin (DOMAIN disk') \ strays'
              <3>1. call[c].at = "release" /\ call'[c].id = call[c].id
                    BY <1>4, <2>4
              <3>2. call[c].id \notin (DOMAIN disk) \ strays
                    BY <3>1 DEF BodyHolds, HoldsItsOwn
              <3>3. call[c].id \in DOMAIN disk' => call[c].id \in DOMAIN disk
                    BY <3>1 DEF Tended
              <3> QED BY <1>1, <3>1, <3>2, <3>3
        <2> QED BY <2>1, <2>2, <2>3, <2>4 DEF HoldsItsOwn
  <1>9. BodyHolds'
        BY <1>7, <1>8 DEF BodyHolds
  <1>10. \A x \in DOMAIN disk' :
           x \in DOMAIN reserved \/ (x \in DOMAIN disk /\ disk'[x] = disk[x])
        BY DEF Tended
  <1> QED BY <1>1, <1>7, <1>8, <1>9, <1>10, OthersStay

LEMMA QuietIsTended == Quiet => Tended
  BY DEF Quiet, Tended

LEMMA ChunkHolds ==
  ASSUME BodyHolds, WillBeBounded, BodyTypeOK', (\A c \in Call : KnowsItsFile(call[c], remote)'),
         NEW c \in Call, Chunk(c)
  PROVE  HoldsItsOwn' /\ Accounted' /\ WillBeBounded'
  <1>1. /\ call \in [Call -> BodyCall] /\ call[c] \in BodyCall /\ call[c].at = "stream"
        /\ UNCHANGED <<remote, reserved, made, strays>>
        BY DEF BodyHolds, BodyTypeOK, Chunk
  <1>2. CASE Leaves(c) /\ UNCHANGED disk
        <2>1. Left(call[c]) \in BodyCall /\ Becomes(c, Left(call[c]))
              BY <1>1, <1>2, CallAfter
        <2>2. StaysPut(call[c], Left(call[c]))
              BY <1>1 DEF StaysPut, Left, NoCall, MakeCall, Working, Writing
        <2> QED BY <1>1, <1>2, <2>1, <2>2, QuietCall, QuietIsTended, TendedHolds
  <1>3. ASSUME NEW v, call' = [call EXCEPT ![c].body = Append(@, v)],
               ~(Len(call[c].body) >= Expected(c)),
               disk' = IF There(c) THEN [disk EXCEPT ![call[c].id].body = @ + 1] ELSE disk
        PROVE  HoldsItsOwn' /\ Accounted' /\ WillBeBounded'
        <2> DEFINE i == call[c].id
        <2>1. /\ call'[c].at = "stream" /\ call'[c].id = i /\ call'[c].file = call[c].file
              /\ call'[c].version = call[c].version /\ call'[c].body = Append(call[c].body, v)
              /\ \A d \in Call : d # c => call'[d] = call[d]
              BY <1>1, <1>3 DEF BodyCall
        <2>2. \A d \in Call : /\ call'[d].at = call[d].at /\ call'[d].id = call[d].id
                              /\ Expected(d)' = Expected(d)
              BY <1>1, <2>1 DEF Expected
        <2>3. /\ Held(c) /\ Expected(c) \in Nat /\ reserved[i] = Expected(c)
              /\ i \in DOMAIN reserved
              BY <1>1, HoldFacts DEF Working, Writing
        <2>4. /\ Len(call[c].body) \in Nat /\ Len(call'[c].body) = Len(call[c].body) + 1
              BY <1>1, <2>1 DEF BodyCall
        <2>5. /\ DOMAIN disk' = DOMAIN disk
              /\ \A x \in DOMAIN disk : x # i => disk'[x] = disk[x]
              /\ i \in DOMAIN disk => /\ disk'[i].body = disk[i].body + 1
                                     /\ disk'[i].archive = disk[i].archive
              /\ \A x \in DOMAIN disk : disk[x].body \in Nat
              BY <1>3, BodyShape DEF BodyHolds, There, BodyDirectory
        <2>6. i \in DOMAIN disk => disk'[i].body <= Len(call'[c].body) /\ disk'[i].body <= reserved[i]
              <3>1. i \in DOMAIN disk => disk[i].body <= Len(call[c].body)
                    BY <1>1 DEF BodyHolds, HoldsItsOwn, There, Writing
              <3> QED BY <1>3, <2>3, <2>4, <2>5, <3>1
        <2>7. \A d \in Call : Held(d)' <=> Held(d)
              BY <2>2 DEF Held
        <2>8. HeldIds' = HeldIds
              BY <2>2, <2>7 DEF HeldIds
        <2>9. \A d \in Call : Held(d) /\ d # c => call[d].id # i
              BY <2>3 DEF BodyHolds, HoldsItsOwn
        <2>10. Accounted'
              <3>1. Promised' = Promised
                    BY <1>1, TotalsAfter, PromisedIsTotal
              <3>2. \A x \in DOMAIN disk :
                       /\ disk'[x].archive <= MaxArchive
                       /\ x \in DOMAIN reserved => disk'[x].body <= reserved[x]
                    BY <2>5, <2>6 DEF BodyHolds, Accounted
              <3> QED BY <1>1, <2>5, <2>8, <3>1, <3>2 DEF BodyHolds, Accounted, HeldIds
        <2>11. HoldsItsOwn'
              <3>1. ASSUME NEW d \in Call, call[d].at \in Writing, There(d)
                    PROVE  disk'[call[d].id].body <= Len(call'[d].body)
                    <4>1. Held(d)
                          BY <3>1, HoldFacts DEF Working
                    <4>2. CASE d = c
                          BY <2>6, <3>1, <4>2 DEF There
                    <4>3. CASE d # c
                          BY <2>1, <2>5, <2>9, <3>1, <4>1, <4>3 DEF There, BodyHolds, HoldsItsOwn
                    <4> QED BY <4>2, <4>3
              <3>2. \A d \in Call : There(d)' <=> There(d)
                    BY <2>2, <2>5 DEF There
              <3>3. \A d, e \in Call : Held(d)' /\ Held(e)' /\ call'[d].id = call'[e].id => d = e
                    BY <2>2, <2>7 DEF BodyHolds, HoldsItsOwn
              <3>4. \A d \in Call : call'[d].at \in Working => reserved'[call'[d].id] = Expected(d)'
                    BY <1>1, <2>2 DEF BodyHolds, HoldsItsOwn
              <3>5. \A d \in Call : call'[d].at \in Writing /\ There(d)' =>
                       disk'[call'[d].id].body <= Len(call'[d].body)
                    BY <2>2, <3>1, <3>2
              <3>6. \A d \in Call : call'[d].at = "release" =>
                       call'[d].id \notin (DOMAIN disk') \ strays'
                    BY <1>1, <2>2, <2>5 DEF BodyHolds, HoldsItsOwn
              <3> QED BY <3>3, <3>4, <3>5, <3>6 DEF HoldsItsOwn
        <2>13. BodyHolds'
              BY <2>10, <2>11 DEF BodyHolds
        <2> QED BY <1>1, <2>3, <2>5, <2>10, <2>11, <2>13, OthersStay
  <1> QED BY <1>2, <1>3 DEF Chunk

(* A call that makes its directory again if it was swept, writes to its    *)
(* archive, or reads and removes it.                                       *)
LEMMA ArchiveHolds ==
  ASSUME BodyHolds, NEW c \in Call, Fetch(c) \/ ArchiveChunk(c) \/ ReadArchive(c)
  PROVE  Tended
  <1> DEFINE i == call[c].id
  <1>1. /\ call \in [Call -> BodyCall] /\ call[c] \in BodyCall /\ call[c].at \in {"fetch", "archive"}
        /\ UNCHANGED <<reserved, made, strays>>
        BY DEF BodyHolds, BodyTypeOK, Fetch, ArchiveChunk, ReadArchive
  <1>2. Held(c) /\ i \in DOMAIN reserved
        BY <1>1, HoldFacts DEF Working
  <1>3. \A d \in Call : call[d].at = "release" => call[d].id # i
        <2>1. \A d \in Call : call[d].at = "release" => Held(d) /\ d # c
              BY <1>1 DEF Held
        <2> QED BY <1>2, <2>1 DEF BodyHolds, HoldsItsOwn
  <1>4. MaxArchive \in Nat /\ disk \in [DOMAIN disk -> BodyDirectory]
        BY BodyConstants, BodyShape DEF BodyHolds
  <1>5. \A d \in Call : StaysPut(call[d], call'[d])
        <2>1. ASSUME NEW k \in BodyCall, Becomes(c, k), StaysPut(call[c], k)
              PROVE  \A d \in Call : StaysPut(call[d], call'[d])
              BY <1>1, <2>1, OneCall DEF StaysPut
        <2>2. CASE UNCHANGED call
              BY <2>2 DEF StaysPut
        <2>3. CASE Leaves(c)
              <3>1. Left(call[c]) \in BodyCall /\ Becomes(c, Left(call[c]))
                    BY <1>1, <2>3, CallAfter
              <3>2. StaysPut(call[c], Left(call[c]))
                    BY <1>1 DEF StaysPut, Left, NoCall, MakeCall, Working, Writing
              <3> QED BY <2>1, <3>1, <3>2
        <2>4. CASE Moves(c, "archive")
              <3>1. PICK k \in BodyCall : k = [call[c] EXCEPT !.at = "archive"] /\ Becomes(c, k)
                    BY <1>1, <2>4, CallAfter DEF At
              <3>2. /\ k.at = "archive" /\ k.file = call[c].file
                    /\ k.version = call[c].version /\ k.body = call[c].body /\ k.id = i
                    BY <1>1, <3>1 DEF BodyCall
              <3>3. StaysPut(call[c], k)
                    BY <1>1, <3>2 DEF StaysPut, Working, Writing
              <3> QED BY <2>1, <3>1, <3>3
        <2>5. ASSUME NEW d \in Readable,
                     call' = [call EXCEPT ![c].at = "retain", ![c].document = d]
              PROVE  \A e \in Call : StaysPut(call[e], call'[e])
              <3> DEFINE k == [call[c] EXCEPT !.at = "retain", !.document = d]
              <3>1. /\ k \in BodyCall /\ k.at = "retain" /\ k.file = call[c].file
                    /\ k.version = call[c].version /\ k.body = call[c].body /\ k.id = i
                    BY <1>1 DEF BodyCall, At, Readable
              <3>2. Becomes(c, k)
                    BY <1>1, <2>5 DEF Becomes
              <3>3. StaysPut(call[c], k)
                    BY <1>1, <3>1 DEF StaysPut, Working, Writing
              <3> HIDE DEF k
              <3> QED BY <2>1, <3>1, <3>2, <3>3
        <2> QED BY <2>2, <2>3, <2>4, <2>5 DEF Fetch, ArchiveChunk, ReadArchive
  <1>6. ASSUME NEW x \in DOMAIN disk'
        PROVE  \/ x \in DOMAIN disk /\ disk'[x] = disk[x]
               \/ /\ x \in DOMAIN disk /\ x \in DOMAIN reserved
                  /\ disk'[x].body = disk[x].body /\ disk'[x].archive <= MaxArchive
               \/ /\ x \in DOMAIN reserved /\ \A d \in Call : call[d].at = "release" => call[d].id # x
                  /\ disk'[x].body = 0 /\ disk'[x].archive <= MaxArchive
        <2>1. CASE UNCHANGED disk
              BY <2>1
        <2>2. CASE disk' = With(disk, i, MakeDirectory(FALSE))
              <3>1. CASE x = i
                    <4>1. disk'[x].body = 0 /\ disk'[x].archive = 0
                          BY <2>2, <3>1 DEF With, MakeDirectory
                    <4> QED BY <1>2, <1>3, <1>4, <3>1, <4>1
              <3>2. CASE x # i
                    BY <2>2, <3>2 DEF With
              <3> QED BY <3>1, <3>2
        <2>3. ASSUME NEW n \in Nat, n <= MaxArchive, There(c),
                     disk' = [disk EXCEPT ![i].archive = n]
              PROVE  \/ x \in DOMAIN disk /\ disk'[x] = disk[x]
                     \/ /\ x \in DOMAIN disk /\ x \in DOMAIN reserved
                        /\ disk'[x].body = disk[x].body /\ disk'[x].archive <= MaxArchive
              <3>1. CASE x = i
                    <4>1. disk[i] \in BodyDirectory /\ i \in DOMAIN disk
                          BY <1>4, <2>3 DEF There
                    <4>2. disk'[i].body = disk[i].body /\ disk'[i].archive = n
                          BY <2>3, <4>1 DEF BodyDirectory
                    <4> QED BY <1>2, <2>3, <3>1, <4>1, <4>2
              <3>2. CASE x # i
                    BY <2>3, <3>2
              <3> QED BY <3>1, <3>2
        <2>4. CASE Fetch(c)
              BY <2>1, <2>2, <2>4 DEF Fetch
        <2>5. CASE ArchiveChunk(c)
              <3>1. disk[i].archive \in Nat
                    <4>1. i \in DOMAIN disk
                          BY <2>5 DEF ArchiveChunk, There
                    <4>2. disk[i] \in BodyDirectory
                          BY <1>4, <4>1
                    <4> QED BY <4>2 DEF BodyDirectory
              <3>2. There(c) /\ \E n \in Nat : n <= MaxArchive /\ disk' = [disk EXCEPT ![i].archive = n]
                    <4>1. /\ disk[i].archive + 1 \in Nat /\ 0 \in Nat /\ 0 <= MaxArchive
                          /\ disk[i].archive < MaxArchive => disk[i].archive + 1 <= MaxArchive
                          BY <1>4, <3>1
                    <4> QED BY <2>5, <4>1 DEF ArchiveChunk
              <3> QED BY <2>3, <3>2
        <2>6. CASE ReadArchive(c)
              <3>1. 0 \in Nat /\ 0 <= MaxArchive
                    BY <1>4
              <3>2. UNCHANGED disk \/ (There(c) /\ disk' = [disk EXCEPT ![i].archive = 0])
                    BY <2>6 DEF ReadArchive
              <3> QED BY <2>1, <2>3, <3>1, <3>2
        <2> QED BY <2>4, <2>5, <2>6
  <1> QED BY <1>1, <1>5, <1>6 DEF Tended

LEMMA CleanUpHolds ==
  ASSUME BodyHolds, WillBeBounded, BodyTypeOK', (\A c \in Call : KnowsItsFile(call[c], remote)'),
         NEW c \in Call, CleanUp(c)
  PROVE  HoldsItsOwn' /\ Accounted' /\ WillBeBounded'
  <1> DEFINE i == call[c].id
  <1>1. /\ call \in [Call -> BodyCall] /\ call[c] \in BodyCall /\ call[c].at = "remove"
        /\ UNCHANGED <<remote, reserved, made>>
        /\ \/ disk' = Without(disk, i) /\ UNCHANGED strays
           \/ UNCHANGED disk /\ strays' = strays \cup {i}
        /\ Moves(c, "release")
        BY DEF BodyHolds, BodyTypeOK, CleanUp
  <1>2. PICK k \in BodyCall : k = [call[c] EXCEPT !.at = "release"] /\ Becomes(c, k)
        BY <1>1, CallAfter DEF At
  <1>3. call'[c] = k /\ \A d \in Call : d # c => call'[d] = call[d]
        BY <1>1, <1>2, OneCall
  <1>4. k.at = "release" /\ k.id = i
        BY <1>1, <1>2 DEF BodyCall
  <1>5. /\ \A d \in Call : Held(d)' <=> Held(d)
        /\ \A d \in Call : call'[d].id = call[d].id
        /\ \A d \in Call : call'[d].at \in Writing <=> call[d].at \in Writing
        /\ \A d \in Call : call'[d].at = "release" => d = c \/ call[d].at = "release"
        /\ \A d \in Call : call'[d].at \in Working => call[d].at \in Working /\ call'[d] = call[d]
        BY <1>1, <1>3, <1>4 DEF Held, Working, Writing
  <1>6. HeldIds' = HeldIds
        BY <1>5 DEF HeldIds
  <1>7. /\ DOMAIN disk' \subseteq DOMAIN disk /\ strays \subseteq strays'
        /\ \A x \in DOMAIN disk' : disk'[x] = disk[x]
        /\ i \notin (DOMAIN disk') \ strays'
        BY <1>1 DEF Without
  <1>8. Accounted'
        <2>1. Promised' = Promised
              BY <1>1, TotalsAfter, PromisedIsTotal
        <2>2. (DOMAIN disk') \ strays' \subseteq DOMAIN reserved'
              BY <1>1, <1>7 DEF BodyHolds, Accounted
        <2>3. ASSUME NEW x \in DOMAIN disk'
              PROVE  /\ disk'[x].archive <= MaxArchive
                     /\ x \in DOMAIN reserved' => disk'[x].body <= reserved'[x]
              BY <1>1, <1>7 DEF BodyHolds, Accounted
        <2>4. /\ DOMAIN reserved' = HeldIds' /\ Promised' <= MaxTotal
              /\ Cardinality(DOMAIN reserved') <= MaxActive
              BY <1>1, <1>6, <2>1 DEF BodyHolds, Accounted, HeldIds
        <2> QED BY <2>2, <2>3, <2>4 DEF Accounted, HeldIds
  <1>9. HoldsItsOwn'
        <2>1. \A d, e \in Call : Held(d)' /\ Held(e)' /\ call'[d].id = call'[e].id => d = e
              BY <1>5 DEF BodyHolds, HoldsItsOwn
        <2>2. \A d \in Call : call'[d].at \in Working => reserved'[call'[d].id] = Expected(d)'
              BY <1>1, <1>5 DEF BodyHolds, HoldsItsOwn, Expected
        <2>3. \A d \in Call : call'[d].at \in Writing /\ There(d)' =>
                disk'[call'[d].id].body <= Len(call'[d].body)
              BY <1>5, <1>7 DEF BodyHolds, HoldsItsOwn, There, Working
        <2>4. \A d \in Call : call'[d].at = "release" => call'[d].id \notin (DOMAIN disk') \ strays'
              BY <1>5, <1>7 DEF BodyHolds, HoldsItsOwn
        <2> QED BY <2>1, <2>2, <2>3, <2>4 DEF HoldsItsOwn
  <1>10. BodyHolds'
        BY <1>8, <1>9 DEF BodyHolds
  <1>11. \A x \in DOMAIN disk' : x \in DOMAIN disk /\ disk'[x] = disk[x]
        BY <1>7
  <1> QED BY <1>1, <1>8, <1>9, <1>10, <1>11, OthersStay

LEMMA ReleaseHolds ==
  ASSUME BodyHolds, WillBeBounded, BodyTypeOK', (\A c \in Call : KnowsItsFile(call[c], remote)'),
         NEW c \in Call, Release(c)
  PROVE  HoldsItsOwn' /\ Accounted' /\ WillBeBounded'
  <1> DEFINE i == call[c].id
  <1>1. /\ call \in [Call -> BodyCall] /\ call[c].at = "release"
        /\ UNCHANGED <<remote, disk, made, strays>>
        /\ reserved' = Without(reserved, i) /\ Ends(c)
        BY DEF BodyHolds, BodyTypeOK, Release
  <1>2. call'[c] = NoCall /\ \A d \in Call : d # c => call'[d] = call[d]
        BY <1>1, CallAfter, OneCall
  <1>3. NoCall.at = "idle"
        BY DEF NoCall, MakeCall
  <1>4. Held(c) /\ \A d \in Call : Held(d) /\ d # c => call[d].id # i
        BY <1>1 DEF BodyHolds, HoldsItsOwn, Held
  <1>5. \A d \in Call : /\ Held(d)' => Held(d) /\ d # c
                        /\ Held(d) /\ d # c => Held(d)'
                        /\ Held(d)' => call'[d] = call[d]
        BY <1>2, <1>3 DEF Held
  <1>6. \A d \in Call : call'[d].at \in Working \cup {"release"} => Held(d)'
        BY DEF Held, Working, Writing
  <1>7. HeldIds' = HeldIds \ {i}
        BY <1>4, <1>5 DEF HeldIds
  <1>9. /\ DOMAIN reserved' = (DOMAIN reserved) \ {i}
        /\ \A x \in DOMAIN reserved' : reserved'[x] = reserved[x]
        BY <1>1 DEF Without
  <1>10. /\ IsFiniteSet(DOMAIN reserved) /\ reserved \in [DOMAIN reserved -> Nat]
         /\ reserved' \in [DOMAIN reserved' -> Nat] /\ IsFiniteSet(DOMAIN reserved')
        BY <1>1, <1>9, BodyShape, FS_Subset DEF BodyHolds, Without
  <1>11. Accounted'
        <2>1. Cardinality(DOMAIN reserved') <= MaxActive
              <3>1. /\ Cardinality(DOMAIN reserved') <= Cardinality(DOMAIN reserved)
                    /\ Cardinality(DOMAIN reserved') \in Nat /\ Cardinality(DOMAIN reserved) \in Nat
                    BY <1>9, <1>10, FS_Subset, FS_CardinalityType
              <3>2. Cardinality(DOMAIN reserved) <= MaxActive /\ MaxActive \in Nat
                    BY BodyAssumption DEF BodyHolds, Accounted
              <3> QED BY <3>1, <3>2
        <2>2. Promised' <= MaxTotal
              <3>1. \A x \in DOMAIN reserved' : reserved'[x] <= reserved[x]
                    BY <1>9, <1>10
              <3>2. DOMAIN reserved' \subseteq DOMAIN reserved
                    BY <1>9
              <3>3. Total(reserved') <= Total(reserved)
                    BY <1>10, <3>1, <3>2, TotalAtMost
              <3>4. Total(reserved') \in Nat /\ Total(reserved) \in Nat
                    BY <1>10, TotalIsNat
              <3>5. Total(reserved) <= MaxTotal /\ MaxTotal \in Nat
                    BY PromisedIsTotal, BodyAssumption DEF BodyHolds, Accounted
              <3> QED BY <3>3, <3>4, <3>5, TotalsAfter
        <2>3. DOMAIN reserved' = HeldIds'
              BY <1>7, <1>9 DEF BodyHolds, Accounted, HeldIds
        <2>4. (DOMAIN disk') \ strays' \subseteq DOMAIN reserved'
              <3>1. i \notin (DOMAIN disk) \ strays
                    BY <1>1 DEF BodyHolds, HoldsItsOwn
              <3> QED BY <1>1, <1>9, <3>1 DEF BodyHolds, Accounted
        <2>5. ASSUME NEW x \in DOMAIN disk'
              PROVE  /\ disk'[x].archive <= MaxArchive
                     /\ x \in DOMAIN reserved' => disk'[x].body <= reserved'[x]
              BY <1>1, <1>9 DEF BodyHolds, Accounted
        <2> QED BY <2>1, <2>2, <2>3, <2>4, <2>5 DEF Accounted, HeldIds
  <1>12. HoldsItsOwn'
        <2>1. \A d, e \in Call : Held(d)' /\ Held(e)' /\ call'[d].id = call'[e].id => d = e
              BY <1>5 DEF BodyHolds, HoldsItsOwn
        <2>2. ASSUME NEW d \in Call, call'[d].at \in Working
              PROVE  reserved'[call'[d].id] = Expected(d)'
              <3>1. Held(d) /\ d # c /\ call'[d] = call[d]
                    BY <1>5, <1>6, <2>2
              <3>2. call[d].id \in DOMAIN reserved'
                    BY <1>4, <1>9, <3>1 DEF BodyHolds, Accounted
              <3> QED BY <1>9, <2>2, <3>1, <3>2 DEF BodyHolds, HoldsItsOwn, Expected
        <2>3. \A d \in Call : call'[d].at \in Writing /\ There(d)' =>
                disk'[call'[d].id].body <= Len(call'[d].body)
              BY <1>1, <1>5, <1>6 DEF BodyHolds, HoldsItsOwn, There, Working
        <2>4. \A d \in Call : call'[d].at = "release" => call'[d].id \notin (DOMAIN disk') \ strays'
              BY <1>1, <1>5, <1>6 DEF BodyHolds, HoldsItsOwn
        <2> QED BY <2>1, <2>2, <2>3, <2>4 DEF HoldsItsOwn
  <1>13. BodyHolds'
        BY <1>11, <1>12 DEF BodyHolds
  <1> DEFINE W == (DOMAIN disk') \cup (DOMAIN reserved')
  <1>14. W \subseteq (DOMAIN disk) \cup (DOMAIN reserved)
        BY <1>1, <1>9
  <1>15. ASSUME NEW x \in W PROVE MayGrowTo'[x] <= MayGrowTo[x]
        <2>1. CASE x \in DOMAIN reserved'
              <3>1. MayGrowTo'[x] = MayGrowTo[x]
                    BY <1>9, <2>1 DEF MayGrowTo
              <3>2. MayGrowTo[x] \in Nat
                    BY <1>14, HoldFacts
              <3> QED BY <3>1, <3>2
        <2>2. CASE x \notin DOMAIN reserved'
              <3>1. x \in DOMAIN disk /\ MayGrowTo'[x] = disk[x].body + disk[x].archive
                    BY <1>1, <2>2 DEF MayGrowTo
              <3> QED BY <3>1, HoldFacts
        <2> QED BY <2>1, <2>2
  <1> QED BY <1>11, <1>12, <1>13, <1>14, <1>15, NoneGrows

LEMMA SweepHolds ==
  ASSUME BodyHolds, WillBeBounded, BodyTypeOK', (\A c \in Call : KnowsItsFile(call[c], remote)'),
         NEW id \in DOMAIN disk, Sweep(id)
  PROVE  HoldsItsOwn' /\ Accounted' /\ WillBeBounded'
  <1>1. /\ UNCHANGED <<remote, reserved, made, call, strays>>
        /\ DOMAIN disk' \subseteq DOMAIN disk
        /\ \A x \in DOMAIN disk' : disk'[x] = disk[x]
        BY DEF Sweep, Without
  <1>2. \A c \in Call : (Held(c)' <=> Held(c)) /\ (There(c)' => There(c))
        BY <1>1 DEF Held, There
  <1>3. Accounted'
        <2>1. Promised' = Promised
              BY <1>1, TotalsAfter, PromisedIsTotal
        <2>2. HeldIds' = HeldIds
              BY <1>1, <1>2 DEF HeldIds
        <2> QED BY <1>1, <2>1, <2>2 DEF BodyHolds, Accounted, HeldIds
  <1>4. HoldsItsOwn'
        BY <1>1, <1>2 DEF BodyHolds, HoldsItsOwn, Expected, There
  <1>5. BodyHolds'
        BY <1>3, <1>4 DEF BodyHolds
  <1> QED BY <1>1, <1>3, <1>4, <1>5, OthersStay

LEMMA CrashHolds ==
  ASSUME BodyHolds, WillBeBounded, BodyTypeOK', (\A c \in Call : KnowsItsFile(call[c], remote)'),
         Crash
  PROVE  HoldsItsOwn' /\ Accounted' /\ WillBeBounded'
  <1>1. /\ UNCHANGED <<remote, disk, made>> /\ reserved' = << >>
        /\ \A c \in Call : call'[c].at = "idle"
        /\ strays' = strays \cup DOMAIN disk
        BY DEF Crash, NoCall, MakeCall
  <1>2. HeldIds' = {} /\ \A c \in Call : ~Held(c)'
        BY <1>1 DEF HeldIds, Held
  <1>3. DOMAIN reserved' = {}
        BY <1>1
  <1>4. Accounted'
        <2>1. Cardinality(DOMAIN reserved') <= MaxActive
              BY <1>3, FS_EmptySet, BodyAssumption
        <2>2. Promised' <= MaxTotal
              BY <1>3, TotalOfNothing, TotalsAfter, BodyAssumption
        <2> QED BY <1>1, <1>2, <1>3, <2>1, <2>2 DEF BodyHolds, Accounted, HeldIds
  <1>5. HoldsItsOwn'
        BY <1>1, <1>2 DEF HoldsItsOwn, Working, Writing
  <1>6. BodyHolds'
        BY <1>4, <1>5 DEF BodyHolds
  <1> DEFINE W == (DOMAIN disk') \cup (DOMAIN reserved')
  <1>7. W = DOMAIN disk
        BY <1>1, <1>3
  <1>8. ASSUME NEW x \in W PROVE MayGrowTo'[x] <= MayGrowTo[x]
        <2>1. MayGrowTo'[x] = disk[x].body + disk[x].archive
              BY <1>1, <1>3, <1>7 DEF MayGrowTo
        <2> QED BY <1>7, <2>1, HoldFacts
  <1> QED BY <1>4, <1>5, <1>6, <1>7, <1>8, NoneGrows

(* A new reservation is of an identity that nothing has had.               *)
LEMMA MadeIsNew ==
  ASSUME BodyHolds
  PROVE  /\ made + 1 \notin HeldIds
         /\ made + 1 \notin DOMAIN disk /\ made + 1 \notin DOMAIN reserved
  <1>1. made + 1 \notin DOMAIN disk /\ made + 1 \notin DOMAIN reserved
        BY BodyShape DEF BodyHolds
  <1>2. HeldIds = DOMAIN reserved
        BY DEF BodyHolds, Accounted, HeldIds
  <1> QED BY <1>1, <1>2

LEMMA ReserveBreaksHolds ==
  ASSUME BodyHolds, WillBeBounded, BodyTypeOK', (\A c \in Call : KnowsItsFile(call[c], remote)'),
         NEW c \in Call, ReserveBreaks(c)
  PROVE  HoldsItsOwn' /\ Accounted' /\ WillBeBounded'
  <1> DEFINE i == made + 1
  <1>1. /\ call \in [Call -> BodyCall] /\ call[c].at = "reserve"
        /\ UNCHANGED <<remote, reserved>> /\ strays' = strays \cup {i} /\ Ends(c)
        BY DEF BodyHolds, BodyTypeOK, ReserveBreaks
  <1>2. PICK m \in BOOLEAN : disk' = With(disk, i, MakeDirectory(m))
        BY DEF ReserveBreaks
  <1>3. call'[c] = NoCall /\ \A d \in Call : d # c => call'[d] = call[d]
        BY <1>1, CallAfter, OneCall
  <1>4. NoCall.at = "idle"
        BY DEF NoCall, MakeCall
  <1>5. /\ \A d \in Call : Held(d)' <=> Held(d)
        /\ \A d \in Call : call'[d].at \in Working \cup {"release"} => d # c
        /\ \A d \in Call : Held(d) => d # c
        /\ \A d \in Call : call'[d].at \in Writing <=> call[d].at \in Writing
        BY <1>1, <1>3, <1>4 DEF Held, Working, Writing
  <1>6. HeldIds' = HeldIds
        BY <1>3, <1>5 DEF HeldIds
  <1>7. i \notin DOMAIN disk /\ i \notin DOMAIN reserved /\ MaxArchive \in Nat
        BY MadeIsNew, BodyConstants
  <1>8. /\ DOMAIN disk' = (DOMAIN disk) \cup {i} /\ disk'[i].body = 0 /\ disk'[i].archive = 0
        /\ \A x \in DOMAIN disk : disk'[x] = disk[x]
        BY <1>2, <1>7 DEF With, MakeDirectory
  <1>9. Accounted'
        <2>1. Promised' = Promised
              BY <1>1, TotalsAfter, PromisedIsTotal
        <2> QED BY <1>1, <1>6, <1>7, <1>8, <2>1 DEF BodyHolds, Accounted, HeldIds
  <1>10. HoldsItsOwn'
        <2>1. \A d, e \in Call : Held(d)' /\ Held(e)' /\ call'[d].id = call'[e].id => d = e
              BY <1>3, <1>5 DEF BodyHolds, HoldsItsOwn
        <2>2. \A d \in Call : call'[d].at \in Working => reserved'[call'[d].id] = Expected(d)'
              BY <1>1, <1>3, <1>5 DEF BodyHolds, HoldsItsOwn, Expected
        <2>3. ASSUME NEW d \in Call, call'[d].at \in Writing, There(d)'
              PROVE  disk'[call'[d].id].body <= Len(call'[d].body)
              <3>1. d # c /\ call'[d] = call[d]
                    BY <1>3, <1>5, <2>3 DEF Working
              <3>2. call[d].id \in DOMAIN reserved
                    BY <2>3, <3>1, HoldFacts DEF Working
              <3>3. call[d].id \in DOMAIN disk
                    BY <1>7, <1>8, <2>3, <3>1, <3>2 DEF There
              <3> QED BY <1>8, <2>3, <3>1, <3>3 DEF BodyHolds, HoldsItsOwn, There
        <2>4. ASSUME NEW d \in Call, call'[d].at = "release"
              PROVE  call'[d].id \notin (DOMAIN disk') \ strays'
              <3>1. call'[d] = call[d]
                    BY <1>3, <1>5, <2>4
              <3> QED BY <1>1, <1>8, <2>4, <3>1 DEF BodyHolds, HoldsItsOwn
        <2> QED BY <2>1, <2>2, <2>3, <2>4 DEF HoldsItsOwn
  <1> DEFINE V == (DOMAIN disk) \cup (DOMAIN reserved)
  <1>11. MayGrowTo \in [V -> Nat] /\ Total(MayGrowTo) \in Nat /\ IsFiniteSet(V) /\ i \notin V
        BY <1>7, HoldFacts
  <1>12. MayGrowTo' = With(MayGrowTo, i, 0)
        <2>1. (DOMAIN disk') \cup (DOMAIN reserved') = V \cup {i}
              BY <1>1, <1>8
        <2>2. \A x \in V \cup {i} :
                 (IF x \in DOMAIN reserved' THEN reserved'[x] + MaxArchive
                  ELSE disk'[x].body + disk'[x].archive)
                 = IF x = i THEN 0 ELSE MayGrowTo[x]
              BY <1>1, <1>7, <1>8 DEF MayGrowTo
        <2>3. DOMAIN MayGrowTo = V
              BY DEF MayGrowTo
        <2> HIDE DEF V
        <2> QED BY <2>1, <2>2, <2>3 DEF MayGrowTo, With
  <1> HIDE DEF V
  <1>13. Without(MayGrowTo, i) = MayGrowTo
        BY <1>11 DEF Without
  <1>14. Total(MayGrowTo') = 0 + Total(MayGrowTo)
        BY <1>11, <1>12, <1>13, TotalWith
  <1>15. Total(MayGrowTo)' = Total(MayGrowTo)
        BY <1>11, <1>14, TotalsAfter
  <1> QED BY <1>9, <1>10, <1>11, <1>15, Shrinks

LEMMA ReserveHolds ==
  ASSUME BodyHolds, WillBeBounded, BodyTypeOK', (\A c \in Call : KnowsItsFile(call[c], remote)'),
         NEW c \in Call, Reserve(c)
  PROVE  HoldsItsOwn' /\ Accounted' /\ WillBeBounded'
  <1> DEFINE i == made + 1
  <1>1. /\ call \in [Call -> BodyCall] /\ call[c] \in BodyCall /\ call[c].at = "reserve"
        /\ UNCHANGED <<remote, strays>> /\ Fits(Expected(c)) /\ made' = i
        BY DEF BodyHolds, BodyTypeOK, Reserve
  <1>2. /\ disk' = With(disk, i, MakeDirectory(TRUE))
        /\ reserved' = With(reserved, i, Expected(c))
        /\ call' = [call EXCEPT ![c].at = "open", ![c].id = i]
        BY <1>1 DEF Reserve
  <1>3. KnowsItsFile(call[c], remote)
        BY DEF BodyHolds
  <1>4. Expected(c) \in Nat /\ call[c].body = <<>>
        BY <1>1, <1>3, ExpectedIsNat DEF Expected, KnowsItsFile
  <1>5. /\ call'[c].at = "open" /\ call'[c].id = i /\ call'[c].file = call[c].file
        /\ call'[c].version = call[c].version /\ call'[c].body = <<>>
        /\ \A d \in Call : d # c => call'[d] = call[d]
        BY <1>1, <1>2, <1>4 DEF BodyCall
  <1>6. Expected(c)' = Expected(c)
        BY <1>5 DEF Expected
  <1>7. (\A d \in Call : Held(d)' <=> Held(d) \/ d = c) /\ ~Held(c)
        BY <1>1, <1>5 DEF Held
  <1>8. HeldIds' = HeldIds \cup {i}
        BY <1>5, <1>7 DEF HeldIds
  <1>9. i \notin HeldIds /\ i \notin DOMAIN disk /\ i \notin DOMAIN reserved
        BY MadeIsNew
  <1>10. \A d \in Call : Held(d) => d # c /\ call[d].id # i
        BY <1>7, <1>9 DEF HeldIds
  <1>11. /\ DOMAIN disk' = (DOMAIN disk) \cup {i} /\ disk'[i].body = 0 /\ disk'[i].archive = 0
         /\ \A x \in DOMAIN disk : disk'[x] = disk[x]
        BY <1>2, <1>9 DEF With, MakeDirectory
  <1>12. /\ DOMAIN reserved' = (DOMAIN reserved) \cup {i} /\ reserved'[i] = Expected(c)
         /\ \A x \in DOMAIN reserved : reserved'[x] = reserved[x]
        BY <1>2, <1>9 DEF With
  <1>13. /\ IsFiniteSet(DOMAIN reserved) /\ reserved \in [DOMAIN reserved -> Nat]
         /\ IsFiniteSet(DOMAIN disk) /\ MaxArchive \in Nat
         /\ \A x \in DOMAIN disk : disk[x].body \in Nat /\ disk[x].archive \in Nat
        BY BodyShape, BodyConstants DEF BodyHolds
  <1>14. Total(reserved) \in Nat /\ Total(reserved) + Expected(c) <= MaxTotal
        BY <1>1, <1>13, TotalIsNat, PromisedIsTotal DEF Fits
  <1>15. Promised' = Expected(c) + Total(reserved)
        <2>1. Without(reserved, i) = reserved
              BY <1>9, <1>13 DEF Without
        <2> QED BY <1>2, <1>4, <1>13, <2>1, TotalWith, TotalsAfter
  <1>16. Accounted'
        <2>1. Cardinality(DOMAIN reserved') <= MaxActive
              <3>1. /\ Cardinality(DOMAIN reserved') = Cardinality(DOMAIN reserved) + 1
                    /\ Cardinality(DOMAIN reserved) \in Nat
                    BY <1>9, <1>12, <1>13, FS_AddElement, FS_CardinalityType
              <3>2. Cardinality(DOMAIN reserved) < MaxActive /\ MaxActive \in Nat
                    BY <1>1, BodyAssumption DEF Fits
              <3> QED BY <3>1, <3>2
        <2>2. Promised' <= MaxTotal
              BY <1>4, <1>14, <1>15, BodyAssumption
        <2>3. DOMAIN reserved' = HeldIds'
              BY <1>8, <1>12 DEF BodyHolds, Accounted, HeldIds
        <2>4. ASSUME NEW x \in DOMAIN disk'
              PROVE  /\ x \notin strays' => x \in DOMAIN reserved'
                     /\ disk'[x].archive <= MaxArchive
                     /\ x \in DOMAIN reserved' => disk'[x].body <= reserved'[x]
              <3>1. CASE x = i
                    BY <1>4, <1>11, <1>12, <1>13, <3>1
              <3>2. CASE x # i
                    BY <1>1, <1>11, <1>12, <3>2 DEF BodyHolds, Accounted
              <3> QED BY <3>1, <3>2
        <2> QED BY <2>1, <2>2, <2>3, <2>4 DEF Accounted, HeldIds
  <1>17. HoldsItsOwn'
        <2>1. \A d, e \in Call : Held(d)' /\ Held(e)' /\ call'[d].id = call'[e].id => d = e
              BY <1>5, <1>7, <1>10 DEF BodyHolds, HoldsItsOwn
        <2>2. ASSUME NEW d \in Call, call'[d].at \in Working
              PROVE  reserved'[call'[d].id] = Expected(d)'
              <3>1. CASE d = c
                    BY <1>5, <1>6, <1>12, <3>1
              <3>2. CASE d # c
                    <4>1. call'[d] = call[d] /\ call[d].at \in Working
                          BY <1>5, <2>2, <3>2
                    <4>2. call[d].id \in DOMAIN reserved
                          BY <4>1, HoldFacts
                    <4> QED BY <1>12, <4>1, <4>2 DEF BodyHolds, HoldsItsOwn, Expected
              <3> QED BY <3>1, <3>2
        <2>3. ASSUME NEW d \in Call, call'[d].at \in Writing, There(d)'
              PROVE  disk'[call'[d].id].body <= Len(call'[d].body)
              <3>1. CASE d = c
                    BY <1>5, <1>11, <3>1
              <3>2. CASE d # c
                    <4>1. call'[d] = call[d] /\ call[d].at \in Writing
                          BY <1>5, <2>3, <3>2
                    <4>2. call[d].id # i
                          BY <1>10, <4>1, HoldFacts DEF Working
                    <4>3. There(d)
                          BY <1>11, <2>3, <4>1, <4>2 DEF There
                    <4> QED BY <1>11, <4>1, <4>3 DEF BodyHolds, HoldsItsOwn, There
              <3> QED BY <3>1, <3>2
        <2>4. ASSUME NEW d \in Call, call'[d].at = "release"
              PROVE  call'[d].id \notin (DOMAIN disk') \ strays'
              <3>1. d # c /\ call'[d] = call[d]
                    BY <1>5, <2>4
              <3>2. Held(d) /\ call[d].id # i
                    BY <1>10, <2>4, <3>1 DEF Held
              <3> QED BY <1>1, <1>11, <2>4, <3>1, <3>2 DEF BodyHolds, HoldsItsOwn
        <2> QED BY <2>1, <2>2, <2>3, <2>4 DEF HoldsItsOwn
  <1>18. BodyHolds'
        BY <1>16, <1>17 DEF BodyHolds
  <1> DEFINE R == DOMAIN reserved'
             V == (DOMAIN disk') \cup R
             r == [x \in R |-> reserved'[x] + MaxArchive]
  <1>19. IsFiniteSet(R) /\ reserved' \in [R -> Nat]
        <2>1. IsFiniteSet(R)
              BY <1>12, <1>13, FS_AddElement
        <2> QED BY <1>2, <1>4, <1>12, <1>13, <2>1 DEF With
  <1>20. /\ MayGrowTo' \in [V -> Nat] /\ IsFiniteSet(V) /\ Total(MayGrowTo)' \in Nat
        <2>1. (/\ MayGrowTo \in [(DOMAIN disk) \cup (DOMAIN reserved) -> Nat]
               /\ Total(MayGrowTo) \in Nat
               /\ IsFiniteSet((DOMAIN disk) \cup (DOMAIN reserved)))'
              BY <1>18, MayGrowToIsNat, PTL
        <2> QED BY <2>1
  <1>21. WrittenTo \in [DOMAIN disk -> Nat] /\ OnDisk = Total(WrittenTo)
        BY <1>13, OnDiskIsTotal DEF BodyHolds, WrittenTo
  <1>22. r \in [R -> Nat]
        BY <1>13, <1>19
  <1>23. Within(MayGrowTo', WrittenTo, r)
        <2>1. ASSUME NEW x \in V, x \in R
              PROVE  MayGrowTo'[x] = r[x]
              BY <2>1 DEF MayGrowTo
        <2>2. ASSUME NEW x \in V, x \notin R
              PROVE  x \in DOMAIN disk /\ MayGrowTo'[x] = WrittenTo[x]
              BY <1>11, <1>12, <2>2 DEF MayGrowTo, WrittenTo
        <2>3. DOMAIN MayGrowTo' = V /\ DOMAIN WrittenTo = DOMAIN disk /\ DOMAIN r = R
              BY DEF MayGrowTo, WrittenTo
        <2> HIDE DEF V, R, r
        <2>4. \A x \in R : r[x] \in Nat
              BY <1>22
        <2>5. \A x \in DOMAIN disk : WrittenTo[x] \in Nat
              BY <1>21
        <2> QED BY <2>1, <2>2, <2>3, <2>4, <2>5 DEF Within
  <1>24. Total(r) <= Total(reserved') + Cardinality(R) * MaxArchive
        <2> HIDE DEF R
        <2> QED BY <1>13, <1>19, TotalAndEach
  <1> HIDE DEF V, r
  <1>25. Total(MayGrowTo') <= OnDisk + Total(r) /\ OnDisk \in Nat /\ Total(r) \in Nat
        <2> HIDE DEF R
        <2>1. Total(MayGrowTo') <= Total(WrittenTo) + Total(r)
              BY <1>13, <1>19, <1>20, <1>21, <1>22, <1>23, TotalWithin
        <2> QED BY <1>13, <1>19, <1>21, <1>22, <2>1, TotalIsNat
  <1>26. Total(r) <= Allowance
        <2>1. Cardinality(R) <= MaxActive /\ Total(reserved') <= MaxTotal
              BY <1>16, TotalsAfter DEF Accounted
        <2> HIDE DEF R
        <2>2. Cardinality(R) \in Nat /\ Total(reserved') \in Nat
              BY <1>19, FS_CardinalityType, TotalIsNat
        <2>3. \A n, m, a \in Nat : n <= m => n * a <= m * a /\ n * a \in Nat /\ m * a \in Nat
              OBVIOUS
        <2>4. /\ Cardinality(R) * MaxArchive <= MaxActive * MaxArchive
              /\ Cardinality(R) * MaxArchive \in Nat /\ MaxActive * MaxArchive \in Nat
              BY <2>1, <2>2, <2>3, BodyConstants
        <2>5. PICK x \in Nat, y \in Nat :
                 x = Cardinality(R) * MaxArchive /\ y = MaxActive * MaxArchive
              BY <2>4
        <2>6. Total(r) <= MaxTotal + y
              BY <1>24, <1>25, <2>1, <2>2, <2>4, <2>5, BodyConstants
        <2> QED BY <2>5, <2>6 DEF Allowance
  <1>27. WillBeBounded'
        <2>1. /\ Other \in Nat /\ Target \in Nat /\ MaxObject \in Nat /\ Allowance \in Nat
              BY BodyConstants
        <2>2. Other + OnDisk + MaxObject <= Target
              BY <1>1 DEF Fits, Room, Derived
        <2>3. Total(MayGrowTo') \in Nat
              BY <1>20, TotalsAfter
        <2>4. Other + Total(MayGrowTo') <= (Target - MaxObject) + Allowance
              BY <1>25, <1>26, <2>1, <2>2, <2>3, SMTT(40)
        <2>5. Allowance' = Allowance
              BY DEF Allowance
        <2> QED BY <2>4, <2>5, TotalsAfter DEF WillBeBounded
  <1> QED BY <1>16, <1>17, <1>27

LEMMA BodyStarts == BodyInit => BodyInv
  <1> SUFFICES ASSUME BodyInit PROVE BodyInv
      OBVIOUS
  <1>1. /\ remote = [s \in File |-> 1] /\ disk = << >> /\ reserved = << >> /\ made = 0
        /\ call = [c \in Call |-> NoCall] /\ strays = {}
        BY DEF BodyInit
  <1>2. \A s \in File : remote[s] \in 1..Len(Size[s])
        <2> TAKE s \in File
        <2>1. Size[s] \in Seq(Nat) /\ Size[s] # <<>>
              BY BodyAssumption
        <2>2. Len(Size[s]) \in Nat /\ Len(Size[s]) >= 1
              BY <2>1
        <2> QED BY <1>1, <2>2
  <1>3. BodyTypeOK
        <2>1. /\ << >> \in [{} -> BodyDirectory] /\ << >> \in [{} -> Nat]
              /\ {} \in SUBSET (1..0)
              OBVIOUS
        <2>2. remote \in [File -> Nat] /\ call \in [Call -> BodyCall]
              BY <1>1, NoCallTyped
        <2> QED BY <1>1, <1>2, <2>1, <2>2 DEF BodyTypeOK
  <1>4. NoCall.at = "idle" /\ \A c \in Call : call[c].at = "idle"
        BY <1>1 DEF NoCall, MakeCall
  <1>5. \A c \in Call : KnowsItsFile(call[c], remote)
        BY <1>4, NothingToKnow
  <1>6. DOMAIN disk = {} /\ DOMAIN reserved = {} /\ HeldIds = {}
        BY <1>1, <1>4 DEF HeldIds, Held
  <1>7. HoldsItsOwn
        BY <1>4 DEF HoldsItsOwn, Held, Working, Writing
  <1>8. Accounted
        <2>1. Cardinality(DOMAIN reserved) <= MaxActive
              BY <1>6, FS_EmptySet, BodyAssumption
        <2>2. Promised <= MaxTotal
              BY <1>6, TotalOfNothing, PromisedIsTotal, BodyAssumption
        <2> QED BY <1>6, <2>1, <2>2 DEF Accounted, HeldIds
  <1>9. WillBeBounded
        <2>1. DOMAIN MayGrowTo = {}
              BY <1>6 DEF MayGrowTo
        <2> QED BY <2>1, TotalOfNothing DEF WillBeBounded
  <1> QED BY <1>3, <1>5, <1>7, <1>8, <1>9 DEF BodyInv, BodyHolds

LEMMA BodyStep == BodyInv /\ [BodyNext]_bodyVars => BodyInv'
  <1> SUFFICES ASSUME BodyInv, [BodyNext]_bodyVars PROVE BodyInv'
      OBVIOUS
  <1>1. CASE BodyNext
        <2>1. BodyHolds /\ WillBeBounded
              BY DEF BodyInv
        <2>2. BodyTypeOK'
              BY <1>1, <2>1, BodyTypeStep DEF BodyHolds
        <2>3. \A c \in Call : KnowsItsFile(call[c], remote)'
              BY <1>1, <2>1, FileStep DEF BodyHolds
        <2>4. ASSUME Tended PROVE HoldsItsOwn' /\ Accounted' /\ WillBeBounded'
              BY <2>1, <2>2, <2>3, <2>4, TendedHolds
        <2>5. ASSUME NEW s \in File, Replace(s) PROVE Tended
              BY <2>1, <2>5, QuietIsTended
                 DEF BodyHolds, BodyTypeOK, BodyCall, Replace, Quiet, StaysPut
        <2>6. ASSUME NEW c \in Call,
                     \/ \E s \in File : BeginBody(c, s)
                     \/ Stat(c) \/ ReserveRefused(c) \/ Open(c) \/ Download(c)
                     \/ EndOfStream(c) \/ Parse(c) \/ Retain(c) \/ Cancel(c)
              PROVE  Tended
              BY <2>1, <2>6, QuietSteps, QuietIsTended DEF BodyHolds
        <2>7. HoldsItsOwn' /\ Accounted' /\ WillBeBounded'
              BY <1>1, <2>1, <2>2, <2>3, <2>4, <2>5, <2>6, ReserveHolds, ReserveBreaksHolds,
                 ChunkHolds, ArchiveHolds, CleanUpHolds, ReleaseHolds, SweepHolds, CrashHolds
                 DEF BodyNext
        <2> QED BY <2>2, <2>3, <2>7 DEF BodyInv, BodyHolds
  <1>2. CASE UNCHANGED bodyVars
        <2>1. /\ UNCHANGED <<remote, disk, reserved, made, call, strays>>
              /\ BodyHolds /\ WillBeBounded
              BY <1>2 DEF bodyVars, BodyInv
        <2>2. BodyTypeOK' /\ \A c \in Call : KnowsItsFile(call[c], remote)'
              BY <2>1 DEF BodyHolds, BodyTypeOK
        <2>3. Quiet
              BY <2>1 DEF Quiet, StaysPut
        <2>4. HoldsItsOwn' /\ Accounted' /\ WillBeBounded'
              BY <2>1, <2>2, <2>3, QuietIsTended, TendedHolds
        <2> QED BY <2>2, <2>4 DEF BodyInv, BodyHolds
  <1> QED BY <1>1, <1>2

(* What every call knows of its file, its reservation and its directory,   *)
(* and what the directories that are there may yet grow to, holds of every *)
(* behaviour of the spool.                                                 *)
THEOREM BodyInvariance == BodySpec => []BodyInv
  BY BodyStarts, BodyStep, PTL DEF BodySpec

(* A body is handed to the parser only whole, and all of it of the version *)
(* that was looked at first, unless its file was replaced while it was     *)
(* downloaded or has no modified_at.                                       *)
THEOREM BodyIsOfTheVersion == BodySpec => []BodyOfTheVersion
  <1>1. BodyInv => BodyOfTheVersion
        <2> SUFFICES ASSUME BodyInv, NEW c \in Call, Accepted(c),
                            call[c].file \in Timed, ~call[c].touched
                     PROVE  call[c].body = [i \in 1..Expected(c) |-> call[c].version]
            BY DEF BodyOfTheVersion
        <2>1. KnowsItsFile(call[c], remote) /\ call[c].body \in Seq(Nat)
              BY DEF BodyInv, BodyHolds, BodyTypeOK, BodyCall
        <2>2. Len(call[c].body) = Expected(c)
              BY <2>1 DEF KnowsItsFile, Accepted, Expected
        <2>3. \A i \in 1..Len(call[c].body) : call[c].body[i] = call[c].version
              BY <2>1 DEF KnowsItsFile, Accepted, Working
        <2>4. PICK b \in Seq(Nat) : b = call[c].body
              BY <2>1
        <2>5. b = [i \in 1..Len(b) |-> b[i]]
              OBVIOUS
        <2>6. [i \in 1..Len(b) |-> b[i]] = [i \in 1..Expected(c) |-> call[c].version]
              BY <2>2, <2>3, <2>4
        <2> QED BY <2>4, <2>5, <2>6
  <1> QED BY <1>1, BodyInvariance, PTL

(* The quota holds what the calls in progress hold, within the policy, and *)
(* bodies and archives on disk take the derived data over its target by no *)
(* more than the whole quota and an archive for each reservation leave     *)
(* beside one object, whatever failed, was cancelled or swept, and after   *)
(* any crashes.                                                            *)
THEOREM SpoolIsBounded == BodySpec => []SpoolBounded
  <1>1. BodyInv => SpoolBounded
        <2> SUFFICES ASSUME BodyInv PROVE SpoolBounded
            OBVIOUS
        <2>1. BodyHolds /\ WillBeBounded /\ Accounted
              BY DEF BodyInv, BodyHolds
        <2>2. /\ IsFiniteSet(DOMAIN disk) /\ WrittenTo \in [DOMAIN disk -> Nat]
              /\ OnDisk = Total(WrittenTo)
              BY <2>1, BodyShape, OnDiskIsTotal DEF BodyHolds, WrittenTo
        <2> DEFINE V == (DOMAIN disk) \cup (DOMAIN reserved)
        <2>3. /\ MayGrowTo \in [V -> Nat] /\ Total(MayGrowTo) \in Nat /\ IsFiniteSet(V)
              /\ \A x \in DOMAIN disk : WrittenTo[x] <= MayGrowTo[x]
              BY <2>1, HoldFacts DEF WrittenTo
        <2>4. DOMAIN disk \subseteq V
              OBVIOUS
        <2> HIDE DEF V
        <2>5. Total(WrittenTo) <= Total(MayGrowTo) /\ Total(WrittenTo) \in Nat
              BY <2>2, <2>3, <2>4, TotalAtMost, TotalIsNat
        <2>6. /\ Other \in Nat /\ Target \in Nat /\ MaxObject \in Nat /\ Allowance \in Nat
              BY BodyConstants
        <2>7. CASE Total(MayGrowTo) = 0
              BY <2>1, <2>2, <2>5, <2>6, <2>7 DEF SpoolBounded, DerivedBounded, Derived
        <2>8. CASE Other + Total(MayGrowTo) <= (Target - MaxObject) + Allowance
              BY <2>1, <2>2, <2>3, <2>5, <2>6, <2>8 DEF SpoolBounded, DerivedBounded, Derived
        <2> QED BY <2>1, <2>7, <2>8 DEF WillBeBounded
  <1> QED BY <1>1, BodyInvariance, PTL
-------------------------------------------------------------------------------
(* The evidence that is kept of a document, and how the loops come to it.  *)

(* The least of a set of numbers, for inductions.                          *)
LEMMA SmallestNumber ==
  ASSUME NEW S, S \subseteq Nat, S # {}
  PROVE  \E n \in S : \A m \in S : n <= m
  <1>1. PICK x \in S : \A y \in S : ~(<<y, x>> \in OpToRel(<, Nat))
        BY NatLessThanWellFounded, WFMin
  <1>2. \A y \in S : ~(y < x)
        BY <1>1, Zenon DEF OpToRel
  <1> QED BY <1>2

(* R, a set of pairs, orders S strictly and totally.  Ahead: what precedes *)
(* x in S; from the number of these, x has a place of its own.             *)
StrictlyOrders(R, S) ==
  /\ \A x \in S : <<x, x>> \notin R
  /\ \A x, y, z \in S : <<x, y>> \in R /\ <<y, z>> \in R => <<x, z>> \in R
  /\ \A x, y \in S : x = y \/ <<x, y>> \in R \/ <<y, x>> \in R
Ahead(R, S, x) == {y \in S : <<y, x>> \in R}

(* Who comes first has fewer ahead.                                        *)
LEMMA AheadGrows ==
  ASSUME NEW S, IsFiniteSet(S), NEW R, StrictlyOrders(R, S), NEW x \in S, NEW y \in S
  PROVE  /\ Cardinality(Ahead(R, S, x)) \in Nat
         /\ Cardinality(Ahead(R, S, x)) < Cardinality(S)
         /\ <<x, y>> \in R <=> Cardinality(Ahead(R, S, x)) < Cardinality(Ahead(R, S, y))
  <1>1. ASSUME NEW u \in S
        PROVE  /\ IsFiniteSet(Ahead(R, S, u)) /\ Cardinality(Ahead(R, S, u)) \in Nat
               /\ Cardinality(Ahead(R, S, u)) < Cardinality(S)
        <2>1. Ahead(R, S, u) \in SUBSET S /\ Ahead(R, S, u) # S
              BY DEF Ahead, StrictlyOrders
        <2> HIDE DEF Ahead
        <2>2. /\ IsFiniteSet(Ahead(R, S, u)) /\ Cardinality(Ahead(R, S, u)) <= Cardinality(S)
              /\ Cardinality(S) # Cardinality(Ahead(R, S, u))
              BY <2>1, FS_Subset
        <2> QED BY <2>2, FS_CardinalityType
  <1>2. ASSUME NEW u \in S, NEW v \in S, <<u, v>> \in R
        PROVE  Cardinality(Ahead(R, S, u)) < Cardinality(Ahead(R, S, v))
        <2>1. Ahead(R, S, u) \in SUBSET Ahead(R, S, v) /\ Ahead(R, S, u) # Ahead(R, S, v)
              BY <1>2 DEF Ahead, StrictlyOrders
        <2> HIDE DEF Ahead
        <2>2. /\ Cardinality(Ahead(R, S, u)) <= Cardinality(Ahead(R, S, v))
              /\ Cardinality(Ahead(R, S, v)) # Cardinality(Ahead(R, S, u))
              BY <1>1, <2>1, FS_Subset
        <2> QED BY <1>1, <2>2
  <1>3. CASE <<x, y>> \in R
        BY <1>1, <1>2, <1>3
  <1>4. CASE <<x, y>> \notin R
        <2>1. x = y \/ <<y, x>> \in R
              BY <1>4 DEF StrictlyOrders
        <2> HIDE DEF Ahead
        <2>2. CASE x = y
              BY <1>1, <1>4, <2>2
        <2>3. CASE <<y, x>> \in R
              <3>1. Cardinality(Ahead(R, S, y)) < Cardinality(Ahead(R, S, x))
                    BY <1>2, <2>3
              <3> QED BY <1>1, <1>4, <3>1
        <2> QED BY <2>1, <2>2, <2>3
  <1> QED BY <1>3, <1>4

(* And there is somebody at every place.                                   *)
LEMMA EveryPlaceIsTaken ==
  ASSUME NEW S, IsFiniteSet(S), NEW R, StrictlyOrders(R, S), NEW n \in 1..Cardinality(S)
  PROVE  \E x \in S : Cardinality(Ahead(R, S, x)) = n - 1
  <1> DEFINE N == Cardinality(S)
             f == [x \in S |-> Cardinality(Ahead(R, S, x)) + 1]
  <1>1. N \in Nat /\ IsFiniteSet(1..N) /\ Cardinality(1..N) = N
        BY FS_CardinalityType, FS_Interval
  <1>2. f \in [S -> 1..N]
        <2> SUFFICES ASSUME NEW x \in S PROVE Cardinality(Ahead(R, S, x)) + 1 \in 1..N
            OBVIOUS
        <2>1. Cardinality(Ahead(R, S, x)) \in Nat /\ Cardinality(Ahead(R, S, x)) < N
              BY AheadGrows
        <2> QED BY <1>1, <2>1
  <1>3. ASSUME NEW x \in S, NEW y \in S, f[x] = f[y] PROVE x = y
        <2>1. Cardinality(Ahead(R, S, x)) = Cardinality(Ahead(R, S, y))
              <3>1. Cardinality(Ahead(R, S, x)) + 1 = Cardinality(Ahead(R, S, y)) + 1
                    BY <1>3
              <3>2. Cardinality(Ahead(R, S, x)) \in Nat /\ Cardinality(Ahead(R, S, y)) \in Nat
                    BY AheadGrows
              <3> QED BY <3>1, <3>2
        <2>2. <<x, y>> \notin R /\ <<y, x>> \notin R
              BY <2>1, AheadGrows
        <2> QED BY <2>2 DEF StrictlyOrders
  <1>4. f \in Surjection(S, 1..N)
        <2>1. f \in Injection(S, 1..N)
              BY <1>2, <1>3 DEF Injection, IsInjective
        <2> HIDE DEF f
        <2> QED BY <1>1, <2>1, FS_Injection
  <1>5. PICK x \in S : f[x] = n
        BY <1>4 DEF Surjection
  <1>6. Cardinality(Ahead(R, S, x)) + 1 = n /\ Cardinality(Ahead(R, S, x)) \in Nat
        BY <1>5, AheadGrows
  <1> QED BY <1>6
-------------------------------------------------------------------------------
LEMMA MaxOfSome ==
  ASSUME NEW m \in Nat, NEW A \in SUBSET (1..m), A # {}
  PROVE  /\ Max(A) \in A /\ Max(A) \in 1..m
         /\ \A y \in A : y <= Max(A)
         /\ m \in A => Max(A) = m
  <1> DEFINE Below == {m - y : y \in A}
  <1>1. Below \subseteq Nat /\ Below # {}
        <2>1. \A y \in A : m - y \in Nat
              OBVIOUS
        <2> QED BY <2>1
  <1>2. PICK n \in Below : \A k \in Below : n <= k
        <2> HIDE DEF Below
        <2> QED BY <1>1, SmallestNumber
  <1>3. PICK x \in A : n = m - x
        BY <1>2
  <1>4. \A y \in A : x >= y
        <2> SUFFICES ASSUME NEW y \in A PROVE x >= y
            OBVIOUS
        <2>1. n <= m - y
              BY <1>2
        <2> QED BY <1>3, <2>1
  <1>5. Max(A) \in A /\ \A y \in A : Max(A) >= y
        BY <1>4 DEF Max
  <1> HIDE DEF Below
  <1>6. Max(A) \in 1..m
        BY <1>5
  <1>7. m \in A => Max(A) = m
        <2> SUFFICES ASSUME m \in A PROVE Max(A) = m
            OBVIOUS
        <2>1. Max(A) >= m
              BY <1>5
        <2> QED BY <1>6, <2>1
  <1>8. \A y \in A : y <= Max(A)
        <2> SUFFICES ASSUME NEW y \in A PROVE y <= Max(A)
            OBVIOUS
        <2>1. Max(A) >= y /\ y \in 1..m
              BY <1>5
        <2> QED BY <1>6, <2>1
  <1> QED BY <1>5, <1>6, <1>7, <1>8

(* What a fold from the left does: h gives it for each set of places.      *)
FoldedBy(h, g, v, n) ==
  \A A \in SUBSET (1..n) :
    h[A] = IF A = {} THEN v ELSE g[Max(A)][h[A \ {Max(A)}]]

(* Its recursion is over sets of places, of which there are finitely many. *)
LEMMA FoldExists ==
  ASSUME NEW n \in Nat, NEW V, NEW v \in V, NEW g \in [1..n -> [V -> V]]
  PROVE  \E h \in [SUBSET (1..n) -> V] : FoldedBy(h, g, v, n)
  <1> DEFINE Bad == {m \in 0..n : ~ \E h \in [SUBSET (1..m) -> V] : FoldedBy(h, g, v, m)}
  <1>1. SUFFICES ASSUME Bad # {} PROVE FALSE
        <2>1. n \in 0..n
              OBVIOUS
        <2> QED BY <2>1
  <1>2. PICK m \in Bad : \A k \in Bad : m <= k
        <2>1. Bad \subseteq Nat
              OBVIOUS
        <2> HIDE DEF Bad
        <2> QED BY <1>1, <2>1, SmallestNumber
  <1>3. m \in 0..n /\ ~ \E h \in [SUBSET (1..m) -> V] : FoldedBy(h, g, v, m)
        BY <1>2
  <1>4. CASE m = 0
        <2> DEFINE h == [A \in SUBSET (1..m) |-> v]
        <2>1. \A A \in SUBSET (1..m) : A = {}
              BY <1>4
        <2>2. h \in [SUBSET (1..m) -> V] /\ FoldedBy(h, g, v, m)
              BY <2>1 DEF FoldedBy
        <2> HIDE DEF h
        <2> QED BY <1>3, <2>2
  <1>5. CASE m # 0
        <2>1. m - 1 \in 0..n /\ m \in 1..n /\ m \in Nat /\ m - 1 \notin Bad
              <3>1. m - 1 \in 0..n /\ m \in 1..n /\ m \in Nat
                    BY <1>3, <1>5
              <3> HIDE DEF Bad
              <3>2. ~(m <= m - 1)
                    BY <3>1
              <3> QED BY <1>2, <3>1, <3>2
        <2>2. PICK T \in [SUBSET (1..(m - 1)) -> V] : FoldedBy(T, g, v, m - 1)
              BY <2>1
        <2> HIDE DEF Bad
        <2> DEFINE h == [A \in SUBSET (1..m) |-> IF m \in A THEN g[m][T[A \ {m}]] ELSE T[A]]
        <2>3. ASSUME NEW A \in SUBSET (1..m)
              PROVE  /\ A \ {m} \in SUBSET (1..(m - 1))
                     /\ m \notin A => A \in SUBSET (1..(m - 1))
              BY <2>1
        <2>4. g[m] \in [V -> V]
              BY <2>1
        <2>5. \A A \in SUBSET (1..m) : T[A \ {m}] \in V /\ (m \notin A => T[A] \in V)
              BY <2>3
        <2>6. h \in [SUBSET (1..m) -> V]
              BY <2>4, <2>5
        <2>7. ASSUME NEW A \in SUBSET (1..m)
              PROVE  h[A] = IF A = {} THEN v ELSE g[Max(A)][h[A \ {Max(A)}]]
              <3>1. CASE m \in A
                    <4>1. Max(A) = m
                          BY <2>1, <3>1, MaxOfSome
                    <4>2. A \ {m} \in SUBSET (1..m) /\ m \notin A \ {m}
                          OBVIOUS
                    <4>3. h[A] = g[m][T[A \ {m}]] /\ h[A \ {m}] = T[A \ {m}]
                          BY <3>1, <4>2
                    <4> HIDE DEF h
                    <4> QED BY <3>1, <4>1, <4>3
              <3>2. CASE m \notin A
                    <4>1. A \in SUBSET (1..(m - 1))
                          BY <2>3, <3>2
                    <4>2. h[A] = T[A] /\ h[A \ {Max(A)}] = T[A \ {Max(A)}]
                          BY <3>2
                    <4> HIDE DEF h
                    <4> QED BY <2>2, <4>1, <4>2 DEF FoldedBy
              <3> QED BY <3>1, <3>2
        <2> HIDE DEF h
        <2>8. FoldedBy(h, g, v, m)
              BY <2>7 DEF FoldedBy
        <2> QED BY <1>3, <2>6, <2>8
  <1> QED BY <1>4, <1>5

(* Place after place.                                                      *)
LEMMA FoldGoesOn ==
  ASSUME NEW n \in Nat, NEW g, NEW v, NEW h, FoldedBy(h, g, v, n), NEW k \in 0..n
  PROVE  h[1..k] = IF k = 0 THEN v ELSE g[k][h[1..(k - 1)]]
  <1>1. 1..k \in SUBSET (1..n) /\ k \in Nat
        OBVIOUS
  <1>2. CASE k = 0
        <2>1. 1..k = {}
              BY <1>2
        <2> QED BY <1>1, <1>2, <2>1 DEF FoldedBy
  <1>3. CASE k # 0
        <2>1. k \in 1..k /\ 1..k # {} /\ (1..k) \ {k} = 1..(k - 1)
              BY <1>1, <1>3
        <2>2. Max(1..k) = k
              BY <1>1, <2>1, MaxOfSome
        <2> QED BY <1>1, <1>3, <2>1, <2>2 DEF FoldedBy
  <1> QED BY <1>2, <1>3
-------------------------------------------------------------------------------
(* The path is built heading after heading.                                *)
LEMMA PathSteps ==
  ASSUME NEW T, NEW stack \in Seq(T)
  PROVE  \E P : /\ P[0] = <<>> /\ P[Len(stack)] = Path(stack)
                /\ \A k \in 1..Len(stack) :
                     P[k] = IF stack[k] = Blank THEN P[k - 1] ELSE Append(P[k - 1], stack[k])
  <1> DEFINE n == Len(stack)
             Shown(p, l) == IF stack[l] = Blank THEN p ELSE Append(p, stack[l])
             g == [l \in 1..n |-> [p \in Seq(T) |-> Shown(p, l)]]
             Iterates(h) == h = [A \in SUBSET (1..n) |->
                                   IF A = {} THEN <<>> ELSE Shown(h[A \ {Max(A)}], Max(A))]
             h == CHOOSE f : Iterates(f)
  <1>1. n \in Nat /\ DOMAIN stack = 1..n /\ \A l \in 1..n : stack[l] \in T
        OBVIOUS
  <1>2. \A l \in 1..n, p \in Seq(T) : Shown(p, l) \in Seq(T)
        BY <1>1
  <1>3. Iterates(h)
        <2>1. g \in [1..n -> [Seq(T) -> Seq(T)]] /\ <<>> \in Seq(T)
              BY <1>2
        <2>2. PICK f \in [SUBSET (1..n) -> Seq(T)] : FoldedBy(f, g, <<>>, n)
              <3> HIDE DEF g
              <3> QED BY <1>1, <2>1, FoldExists
        <2>3. ASSUME NEW A \in SUBSET (1..n)
              PROVE  f[A] = IF A = {} THEN <<>> ELSE Shown(f[A \ {Max(A)}], Max(A))
              <3>1. CASE A = {}
                    BY <2>2, <3>1 DEF FoldedBy
              <3>2. CASE A # {}
                    <4>1. Max(A) \in 1..n /\ f[A \ {Max(A)}] \in Seq(T)
                          BY <1>1, <3>2, MaxOfSome
                    <4>2. f[A] = g[Max(A)][f[A \ {Max(A)}]]
                          BY <2>2, <3>2 DEF FoldedBy
                    <4> HIDE DEF Shown
                    <4> QED BY <3>2, <4>1, <4>2
              <3> QED BY <3>1, <3>2
        <2>4. Iterates(f)
              BY <2>3
        <2> HIDE DEF Iterates
        <2> QED BY <2>4
  <1>4. Path(stack) = h[1..n]
        BY <1>1 DEF Path, FoldLeft, MapThenFoldSet
  <1> DEFINE P == [k \in 0..n |-> h[1..k]]
  <1>5. P[0] = <<>>
        <2>1. 1..0 = {}
              OBVIOUS
        <2>2. h[{}] = <<>>
              BY <1>3
        <2> HIDE DEF h
        <2> QED BY <1>1, <2>1, <2>2
  <1>6. ASSUME NEW k \in 1..n PROVE P[k] = Shown(P[k - 1], k)
        <2>0. k \in Nat /\ k \in 1..k
              BY <1>1
        <2>1. 1..k \in SUBSET (1..n) /\ 1..k # {} /\ (1..k) \ {k} = 1..(k - 1)
              <3> HIDE DEF h, P, Shown
              <3>1. 1..k \in SUBSET (1..n) /\ (1..k) \ {k} = 1..(k - 1)
                    BY <1>1, <2>0
              <3> QED BY <2>0, <3>1
        <2>2. Max(1..k) = k
              <3> HIDE DEF h, P, Shown
              <3>1. 1..k \in SUBSET (1..k)
                    OBVIOUS
              <3> QED BY <2>0, <2>1, <3>1, MaxOfSome
        <2>3. P[k] = h[1..k] /\ P[k - 1] = h[1..(k - 1)]
              BY <1>1
        <2> HIDE DEF Shown, P, h
        <2> QED BY <1>3, <2>1, <2>2, <2>3
  <1>7. P[n] = h[1..n]
        BY <1>1
  <1> HIDE DEF P, h
  <1> QED BY <1>4, <1>5, <1>6, <1>7

(* The headings of a stack down to level l.                                *)
Filled(stack, l) == {k \in 1..l : stack[k] # Blank}

(* One more level has one more heading, or none.                           *)
LEMMA FilledGrows ==
  ASSUME NEW stack, NEW l \in Nat
  PROVE  /\ IsFiniteSet(Filled(stack, l)) /\ Cardinality(Filled(stack, l)) \in Nat
         /\ Filled(stack, 0) = {}
         /\ Cardinality(Filled(stack, l + 1)) =
              IF stack[l + 1] = Blank THEN Cardinality(Filled(stack, l))
              ELSE Cardinality(Filled(stack, l)) + 1
         /\ \A k \in 0..l : Cardinality(Filled(stack, k)) <= Cardinality(Filled(stack, l))
         /\ \A k \in 1..l : k \in Filled(stack, l) => Cardinality(Filled(stack, k)) >= 1
  <1>1. \A m \in Nat : IsFiniteSet(Filled(stack, m)) /\ Cardinality(Filled(stack, m)) \in Nat
        <2> SUFFICES ASSUME NEW m \in Nat
                     PROVE  IsFiniteSet(Filled(stack, m)) /\ Cardinality(Filled(stack, m)) \in Nat
            OBVIOUS
        <2>1. IsFiniteSet(1..m) /\ Filled(stack, m) \in SUBSET (1..m)
              BY FS_Interval DEF Filled
        <2> QED BY <2>1, FS_Subset, FS_CardinalityType
  <1>2. Filled(stack, 0) = {}
        BY DEF Filled
  <1>3. \A k \in 0..l : Cardinality(Filled(stack, k)) <= Cardinality(Filled(stack, l))
        <2> SUFFICES ASSUME NEW k \in 0..l
                     PROVE  Cardinality(Filled(stack, k)) <= Cardinality(Filled(stack, l))
            OBVIOUS
        <2>1. Filled(stack, k) \in SUBSET Filled(stack, l)
              BY DEF Filled
        <2> QED BY <1>1, <2>1, FS_Subset
  <1>4. \A k \in 1..l : k \in Filled(stack, l) => Cardinality(Filled(stack, k)) >= 1
        <2> SUFFICES ASSUME NEW k \in 1..l, k \in Filled(stack, l)
                     PROVE  Cardinality(Filled(stack, k)) >= 1
            OBVIOUS
        <2>1. k \in Filled(stack, k)
              BY DEF Filled
        <2>2. IsFiniteSet(Filled(stack, k)) /\ Cardinality(Filled(stack, k)) \in Nat
              BY <1>1
        <2>3. Cardinality(Filled(stack, k)) # 0
              BY <2>1, <2>2, FS_EmptySet
        <2> QED BY <2>2, <2>3
  <1>5. IsFiniteSet(Filled(stack, l)) /\ Cardinality(Filled(stack, l)) \in Nat
        BY <1>1
  <1>6. Cardinality(Filled(stack, l + 1)) =
              IF stack[l + 1] = Blank THEN Cardinality(Filled(stack, l))
              ELSE Cardinality(Filled(stack, l)) + 1
        <2>1. CASE stack[l + 1] = Blank
              <3>1. Filled(stack, l + 1) = Filled(stack, l)
                    BY <2>1 DEF Filled
              <3> QED BY <2>1, <3>1
        <2>2. CASE stack[l + 1] # Blank
              <3>1. /\ Filled(stack, l + 1) = Filled(stack, l) \cup {l + 1}
                    /\ l + 1 \notin Filled(stack, l)
                    BY <2>2 DEF Filled
              <3> QED BY <1>1, <2>2, <3>1, FS_AddElement
        <2> QED BY <2>1, <2>2
  <1> QED BY <1>2, <1>3, <1>4, <1>5, <1>6

(* The path names the headings of the stack, in order.                     *)
Names(path, stack, n) ==
  /\ Len(path) = Cardinality(Filled(stack, n))
  /\ \A l \in Filled(stack, n) : path[Cardinality(Filled(stack, l))] = stack[l]

(* What Path leaves of a stack.                                            *)
LEMMA PathNames ==
  ASSUME NEW T, NEW stack \in Seq(T)
  PROVE  Path(stack) \in Seq(T) /\ Names(Path(stack), stack, Len(stack))
  <1>1. PICK P : /\ P[0] = <<>> /\ P[Len(stack)] = Path(stack)
                 /\ \A k \in 1..Len(stack) :
                      P[k] = IF stack[k] = Blank THEN P[k - 1] ELSE Append(P[k - 1], stack[k])
        BY PathSteps
  <1> DEFINE Good(n) == P[n] \in Seq(T) /\ Names(P[n], stack, n)
             Bad == {n \in 0..Len(stack) : ~Good(n)}
  <1>2. SUFFICES ASSUME Bad # {} PROVE FALSE
        <2>1. Len(stack) \in 0..Len(stack)
              OBVIOUS
        <2> QED BY <1>1, <2>1
  <1>3. PICK n \in Bad : \A k \in Bad : n <= k
        <2>1. Bad \subseteq Nat
              OBVIOUS
        <2> HIDE DEF Bad
        <2> QED BY <1>2, <2>1, SmallestNumber
  <1>4. n \in 0..Len(stack) /\ ~Good(n)
        BY <1>3
  <1>5. CASE n = 0
        <2>1. Filled(stack, 0) = {} /\ Cardinality(Filled(stack, 0)) = 0
              BY FilledGrows, FS_EmptySet, 0 \in Nat
        <2>2. Len(<<>>) = Cardinality(Filled(stack, 0)) /\ <<>> \in Seq(T)
              BY <2>1
        <2>3. Names(<<>>, stack, 0)
              BY <2>1, <2>2 DEF Names
        <2> QED BY <1>1, <1>4, <1>5, <2>2, <2>3
  <1>6. CASE n # 0
        <2> DEFINE k == n - 1
        <2>1. k \in Nat /\ k \in 0..Len(stack) /\ n \in 1..Len(stack) /\ k + 1 = n /\ ~(n <= k)
              BY <1>4, <1>6
        <2>2. Good(k)
              <3> HIDE DEF Good, k
              <3>1. k \notin Bad
                    <4> HIDE DEF Bad
                    <4> QED BY <1>3, <2>1
              <3> QED BY <2>1, <3>1
        <2> HIDE DEF k
        <2>3. stack[n] \in T
              BY <2>1
        <2>4. /\ Cardinality(Filled(stack, k)) \in Nat
              /\ Cardinality(Filled(stack, n)) =
                   IF stack[n] = Blank THEN Cardinality(Filled(stack, k))
                   ELSE Cardinality(Filled(stack, k)) + 1
              BY <2>1, FilledGrows
        <2>5. P[n] = IF stack[n] = Blank THEN P[k] ELSE Append(P[k], stack[n])
              BY <1>1, <2>1
        <2>6. CASE stack[n] = Blank
              <3>1. Filled(stack, n) = Filled(stack, k)
                    BY <2>1, <2>6 DEF Filled
              <3> QED BY <1>4, <2>2, <2>4, <2>5, <2>6, <3>1 DEF Names
        <2>7. CASE stack[n] # Blank
              <3>1. /\ P[n] = Append(P[k], stack[n]) /\ P[n] \in Seq(T)
                    /\ Len(P[n]) = Len(P[k]) + 1 /\ Len(P[k]) = Cardinality(Filled(stack, k))
                    BY <2>2, <2>3, <2>5, <2>7 DEF Names
              <3>2. ASSUME NEW l \in Filled(stack, n)
                    PROVE  P[n][Cardinality(Filled(stack, l))] = stack[l]
                    <4>1. CASE l = n
                          <5>1. Cardinality(Filled(stack, l)) = Len(P[k]) + 1
                                BY <2>4, <2>7, <3>1, <4>1
                          <5> QED BY <2>2, <2>3, <3>1, <4>1, <5>1
                    <4>2. CASE l # n
                          <5>1. l \in Filled(stack, k) /\ l \in 1..k /\ l \in 0..k /\ l \in Nat
                                BY <2>1, <4>2 DEF Filled
                          <5>2. P[k][Cardinality(Filled(stack, l))] = stack[l]
                                BY <2>2, <5>1 DEF Names
                          <5>3. /\ Cardinality(Filled(stack, l)) \in Nat
                                /\ Cardinality(Filled(stack, l)) <= Cardinality(Filled(stack, k))
                                /\ Cardinality(Filled(stack, l)) >= 1
                                BY <2>1, <5>1, FilledGrows
                          <5>4. Cardinality(Filled(stack, l)) \in 1..Len(P[k])
                                BY <3>1, <5>3
                          <5> QED BY <2>2, <2>3, <3>1, <5>2, <5>4
                    <4> QED BY <4>1, <4>2
              <3> QED BY <1>4, <2>4, <2>7, <3>1, <3>2 DEF Names
        <2> QED BY <2>6, <2>7
  <1> QED BY <1>5, <1>6
-------------------------------------------------------------------------------
(* Text of a row; and the stack that a row leaves of the one before it.    *)
Legible == (DOMAIN About) \cup {Blank}
Turned(stack, row) ==
  IF row.text # Blank /\ row.level > 0 THEN Pushed(stack, row.level, row.text) ELSE stack

(* Each row turns the stack that the one before it left.                   *)
LEMMA StacksGoOn ==
  ASSUME NEW rows \in Seq(ContentRow)
  PROVE  /\ Stacks(rows) \in [0..Len(rows) -> Seq(Legible)] /\ Stacks(rows)[0] = <<>>
         /\ \A i \in 1..Len(rows) : Stacks(rows)[i] = Turned(Stacks(rows)[i - 1], rows[i])
  <1> DEFINE n == Len(rows)
             V == Seq(Legible)
             g == [i \in 1..n |-> [s \in V |-> Turned(s, rows[i])]]
             Iterates(f) == f = [i \in 0..n |->
                                   IF i = 0 THEN <<>> ELSE Turned(f[i - 1], rows[i])]
  <1>1. n \in Nat /\ <<>> \in V
        OBVIOUS
  <1>2. ASSUME NEW i \in 1..n, NEW s \in V PROVE Turned(s, rows[i]) \in V
        <2>1. rows[i].level \in Nat /\ rows[i].text \in Legible /\ Blank \in Legible
              <3>1. rows[i] \in ContentRow
                    OBVIOUS
              <3> QED BY <3>1 DEF ContentRow, Legible
        <2> HIDE DEF Legible
        <2> DEFINE level == rows[i].level  text == rows[i].text
        <2>2. level \in Nat /\ text \in Legible
              BY <2>1
        <2> HIDE DEF level, text
        <2>3. Pushed(s, level, text) \in [1..level -> Legible]
              <3>1. \A l \in 1..level : l <= Len(s) => s[l] \in Legible
                    BY <2>2
              <3> QED BY <2>1, <2>2, <3>1 DEF Pushed
        <2>4. Pushed(s, level, text) \in V
              BY <2>2, <2>3
        <2> QED BY <2>4 DEF Turned, level, text
  <1>3. PICK h \in [SUBSET (1..n) -> V] : FoldedBy(h, g, <<>>, n)
        <2>1. g \in [1..n -> [V -> V]]
              BY <1>2
        <2> HIDE DEF g, V
        <2> QED BY <1>1, <2>1, FoldExists
  <1> DEFINE f == [i \in 0..n |-> h[1..i]]
  <1>4. f \in [0..n -> V]
        <2>1. \A i \in 0..n : 1..i \in SUBSET (1..n)
              BY <1>1
        <2> HIDE DEF V
        <2> QED BY <2>1
  <1>5. ASSUME NEW i \in 0..n
        PROVE  f[i] = IF i = 0 THEN <<>> ELSE Turned(f[i - 1], rows[i])
        <2>1. h[1..i] = IF i = 0 THEN <<>> ELSE g[i][h[1..(i - 1)]]
              <3>1. n \in Nat /\ FoldedBy(h, g, <<>>, n)
                    BY <1>1, <1>3
              <3> HIDE DEF g, V, f, n
              <3>2. i \in 0..n
                    OBVIOUS
              <3> HIDE DEF Iterates
              <3>3. ASSUME NEW v, FoldedBy(h, g, v, n)
                    PROVE  h[1..i] = IF i = 0 THEN v ELSE g[i][h[1..(i - 1)]]
                    BY <3>1, <3>2, <3>3, FoldGoesOn
              <3> QED BY <3>1, <3>3
        <2>2. CASE i = 0
              BY <2>1, <2>2
        <2>3. CASE i # 0
              <3>1. i \in 1..n /\ i - 1 \in 0..n
                    BY <1>1, <2>3
              <3>2. f[i - 1] \in V /\ f[i] = h[1..i] /\ f[i - 1] = h[1..(i - 1)]
                    <4>1. f[i] = h[1..i] /\ f[i - 1] = h[1..(i - 1)]
                          BY <3>1
                    <4> HIDE DEF f, V
                    <4> QED BY <1>4, <3>1, <4>1
              <3>3. g[i][f[i - 1]] = Turned(f[i - 1], rows[i])
                    <4> HIDE DEF f, V
                    <4> QED BY <3>1, <3>2
              <3> HIDE DEF f, g
              <3> QED BY <2>1, <2>3, <3>2, <3>3
        <2> QED BY <2>2, <2>3
  <1>6. Iterates(f)
        <2>1. f = [i \in 0..n |-> f[i]]
              OBVIOUS
        <2> HIDE DEF f
        <2> QED BY <1>5, <2>1
  <1> HIDE DEF f, g
  <1>7. Stacks(rows) = CHOOSE k : Iterates(k)
        BY DEF Stacks, Turned
  <1>8. Iterates(Stacks(rows))
        <2> HIDE DEF Iterates
        <2> QED BY <1>6, <1>7
  <1>9. ASSUME NEW k, Iterates(k) PROVE k \in [0..n -> V]
        <2> DEFINE Bad == {i \in 0..n : k[i] \notin V}
        <2>1. SUFFICES ASSUME Bad # {} PROVE FALSE
              BY <1>9
        <2>2. PICK i \in Bad : \A j \in Bad : i <= j
              <3>1. Bad \subseteq Nat
                    OBVIOUS
              <3> HIDE DEF Bad
              <3> QED BY <2>1, <3>1, SmallestNumber
        <2>3. i \in 0..n /\ k[i] \notin V
              BY <2>2
        <2>4. i # 0
              BY <1>1, <1>9, <2>3
        <2>5. i \in 1..n /\ i - 1 \in 0..n /\ ~(i <= i - 1)
              BY <1>1, <2>3, <2>4
        <2>6. k[i - 1] \in V
              <3>1. i - 1 \notin Bad
                    <4> HIDE DEF Bad
                    <4> QED BY <2>2, <2>5
              <3> QED BY <2>5, <3>1
        <2>7. k[i] = Turned(k[i - 1], rows[i])
              BY <1>9, <2>5
        <2> HIDE DEF V, Bad
        <2> QED BY <1>2, <2>3, <2>5, <2>6, <2>7
  <1> DEFINE S == Stacks(rows)
  <1>10. S \in [0..n -> V]
        <2> HIDE DEF Iterates, V
        <2> QED BY <1>8, <1>9
  <1>11. S[0] = <<>> /\ \A i \in 1..n : S[i] = Turned(S[i - 1], rows[i])
        <2> HIDE DEF S
        <2>1. S = [i \in 0..n |-> IF i = 0 THEN <<>> ELSE Turned(S[i - 1], rows[i])]
              BY <1>8 DEF S
        <2> QED BY <1>1, <2>1
  <1> QED BY <1>10, <1>11
-------------------------------------------------------------------------------
LEMMA RowFacts ==
  ASSUME NEW rows \in Seq(ContentRow), NEW i \in 1..Len(rows)
  PROVE  rows[i].level \in Nat /\ rows[i].text \in Legible /\ i \in Nat
  <1>1. rows[i] \in ContentRow
        OBVIOUS
  <1> QED BY <1>1 DEF ContentRow, Legible

(* The headings over a row, the later the deeper.                          *)
LEMMA UnderFacts ==
  ASSUME NEW rows \in Seq(ContentRow), NEW i \in 0..Len(rows)
  PROVE  /\ \A h \in Under(rows, i) : /\ h \in 1..i /\ h \in 1..Len(rows) /\ h \in Nat
                                      /\ rows[h].level \in Nat \ {0} /\ rows[h].text # Blank
         /\ \A g, h \in Under(rows, i) : g < h => rows[g].level < rows[h].level
         /\ IsFiniteSet(Under(rows, i))
  <1>1. ASSUME NEW h \in Under(rows, i)
        PROVE  /\ h \in 1..i /\ h \in 1..Len(rows) /\ h \in Nat
               /\ rows[h].level \in Nat \ {0} /\ rows[h].text # Blank
        <2>1. h \in 1..i /\ Heading(rows, h)
              BY DEF Under
        <2>2. h \in 1..Len(rows) /\ h \in Nat
              BY <2>1
        <2>3. rows[h].level \in Nat
              BY <2>2, RowFacts
        <2> QED BY <2>1, <2>2, <2>3 DEF Heading
  <1>2. ASSUME NEW g \in Under(rows, i), NEW h \in Under(rows, i), g < h
        PROVE  rows[g].level < rows[h].level
        <2>1. h \in (g + 1)..i /\ Heading(rows, h)
              BY <1>1, <1>2 DEF Under
        <2>2. rows[h].level > rows[g].level
              BY <2>1 DEF Under
        <2> QED BY <1>1, <2>2
  <1>3. IsFiniteSet(Under(rows, i))
        <2>1. IsFiniteSet(1..i) /\ Under(rows, i) \in SUBSET (1..i)
              BY FS_Interval DEF Under
        <2> QED BY <2>1, FS_Subset
  <1> QED BY <1>1, <1>2, <1>3

(* The stack holds the headings a row stands under, each at its level.     *)
Stacked(rows, i, stack) ==
  /\ \A h \in Under(rows, i) : /\ rows[h].level \in Filled(stack, Len(stack))
                               /\ stack[rows[h].level] = rows[h].text
  /\ \A l \in Filled(stack, Len(stack)) : \E h \in Under(rows, i) : rows[h].level = l

(* A row keeps it so.                                                      *)
LEMMA StackedGoesOn ==
  ASSUME NEW rows \in Seq(ContentRow), NEW i \in 1..Len(rows),
         NEW stack \in Seq(Legible), Stacked(rows, i - 1, stack)
  PROVE  Stacked(rows, i, Turned(stack, rows[i]))
  <1>0. /\ i \in Nat /\ i - 1 \in 0..Len(rows) /\ i \in 0..Len(rows)
        /\ rows[i].level \in Nat
        BY RowFacts
  <1>1. CASE ~Heading(rows, i)
        <2>1. Turned(stack, rows[i]) = stack
              BY <1>1 DEF Turned, Heading
        <2>2. Under(rows, i) = Under(rows, i - 1)
              <3> SUFFICES ASSUME NEW h PROVE h \in Under(rows, i) <=> h \in Under(rows, i - 1)
                  OBVIOUS
              <3>1. CASE h \in 1..(i - 1)
                    <4>1. \A k : k \in (h + 1)..i <=> k = i \/ k \in (h + 1)..(i - 1)
                          BY <1>0, <3>1
                    <4>2. h \in 1..i
                          BY <1>0, <3>1
                    <4> QED BY <1>1, <3>1, <4>1, <4>2 DEF Under
              <3>2. CASE h \notin 1..(i - 1)
                    <4>1. h \in 1..i => h = i
                          BY <1>0, <3>2
                    <4> QED BY <1>1, <3>2, <4>1 DEF Under
              <3> QED BY <3>1, <3>2
        <2> QED BY <2>1, <2>2 DEF Stacked
  <1>2. CASE Heading(rows, i)
        <2> DEFINE level == rows[i].level
                   t == Pushed(stack, level, rows[i].text)
        <2>1. Turned(stack, rows[i]) = t /\ level \in Nat \ {0} /\ rows[i].text # Blank
              BY <1>0, <1>2 DEF Turned, Heading
        <2>2. Len(t) = level /\ level \in 1..level
              BY <2>1 DEF Pushed
        <2>3. \A l \in 1..level : t[l] = IF l = level THEN rows[i].text
                                         ELSE IF l <= Len(stack) THEN stack[l] ELSE Blank
              BY DEF Pushed
        <2>4. \A h : h \in Under(rows, i) <=>
                       h = i \/ (h \in Under(rows, i - 1) /\ rows[h].level < level)
              <3> SUFFICES ASSUME NEW h
                           PROVE  h \in Under(rows, i) <=>
                                    h = i \/ (h \in Under(rows, i - 1) /\ rows[h].level < level)
                  OBVIOUS
              <3>1. CASE h = i
                    <4>1. \A k \in (i + 1)..i : FALSE
                          BY <1>0
                    <4> QED BY <1>0, <1>2, <3>1, <4>1 DEF Under
              <3>2. CASE h # i /\ h \in 1..i
                    <4>1. h \in 1..(i - 1) /\ h \in 1..Len(rows)
                          BY <1>0, <3>2
                    <4>2. \A k : k \in (h + 1)..i <=> k = i \/ k \in (h + 1)..(i - 1)
                          BY <1>0, <4>1
                    <4>3. rows[h].level \in Nat
                          BY <4>1, RowFacts
                    <4>4. rows[i].level > rows[h].level <=> rows[h].level < rows[i].level
                          BY <1>0, <4>3
                    <4> QED BY <1>2, <3>2, <4>1, <4>2, <4>4 DEF Under
              <3>3. CASE h \notin 1..i
                    BY <1>0, <3>3 DEF Under
              <3> QED BY <3>1, <3>2, <3>3
        <2> HIDE DEF t, level
        <2>5. ASSUME NEW h \in Under(rows, i)
              PROVE  rows[h].level \in Filled(t, Len(t)) /\ t[rows[h].level] = rows[h].text
              <3>1. CASE h = i
                    <4>1. rows[h].level = level
                          BY <3>1 DEF level
                    <4> QED BY <2>1, <2>2, <2>3, <3>1, <4>1 DEF Filled
              <3>2. CASE h # i
                    <4>1. h \in Under(rows, i - 1) /\ rows[h].level < level
                          BY <2>4, <3>2
                    <4>2. rows[h].level \in Nat \ {0} /\ rows[h].text # Blank
                          BY <1>0, <4>1, UnderFacts
                    <4>3. /\ rows[h].level \in Filled(stack, Len(stack))
                          /\ stack[rows[h].level] = rows[h].text
                          BY <4>1 DEF Stacked
                    <4>4. rows[h].level <= Len(stack)
                          BY <4>3 DEF Filled
                    <4>5. rows[h].level \in 1..level /\ rows[h].level # level
                          BY <2>1, <4>1, <4>2
                    <4>6. t[rows[h].level] = rows[h].text
                          BY <2>3, <4>3, <4>4, <4>5
                    <4> QED BY <2>2, <4>2, <4>5, <4>6 DEF Filled
              <3> QED BY <3>1, <3>2
        <2>6. ASSUME NEW l \in Filled(t, Len(t)) PROVE \E h \in Under(rows, i) : rows[h].level = l
              <3>1. l \in 1..level /\ t[l] # Blank
                    BY <2>2 DEF Filled
              <3>2. CASE l = level
                    BY <2>4, <3>2 DEF level
              <3>3. CASE l # level
                    <4>1. l <= Len(stack) /\ stack[l] # Blank
                          BY <2>3, <3>1, <3>3
                    <4>2. l \in Filled(stack, Len(stack))
                          BY <2>1, <3>1, <4>1 DEF Filled
                    <4>3. PICK h \in Under(rows, i - 1) : rows[h].level = l
                          BY <4>2 DEF Stacked
                    <4>4. l < level
                          BY <2>1, <3>1, <3>3
                    <4> QED BY <2>4, <4>3, <4>4
              <3> QED BY <3>2, <3>3
        <2>7. Stacked(rows, i, t)
              BY <2>5, <2>6 DEF Stacked
        <2> QED BY <2>1, <2>7
  <1> QED BY <1>1, <1>2

(* It is so after every row, by the first row after which it is not.       *)
LEMMA AllStacked ==
  ASSUME NEW rows \in Seq(ContentRow), NEW i \in 0..Len(rows)
  PROVE  Stacks(rows)[i] \in Seq(Legible) /\ Stacked(rows, i, Stacks(rows)[i])
  <1> DEFINE stacks == Stacks(rows)
             Bad == {k \in 0..Len(rows) : ~Stacked(rows, k, stacks[k])}
  <1>1. /\ stacks \in [0..Len(rows) -> Seq(Legible)] /\ stacks[0] = <<>>
        /\ \A k \in 1..Len(rows) : stacks[k] = Turned(stacks[k - 1], rows[k])
        BY StacksGoOn
  <1> HIDE DEF stacks
  <1>2. SUFFICES ASSUME Bad # {} PROVE FALSE
        <2>1. i \notin Bad => Stacked(rows, i, stacks[i])
              OBVIOUS
        <2> HIDE DEF Bad
        <2> QED BY <1>1, <2>1 DEF stacks
  <1>3. PICK k \in Bad : \A j \in Bad : k <= j
        <2>1. Bad \subseteq Nat
              OBVIOUS
        <2> HIDE DEF Bad
        <2> QED BY <1>2, <2>1, SmallestNumber
  <1>4. k \in 0..Len(rows) /\ ~Stacked(rows, k, stacks[k])
        BY <1>3
  <1>5. CASE k = 0
        <2>1. Under(rows, 0) = {}
              BY DEF Under
        <2>2. Filled(<<>>, Len(<<>>)) = {}
              BY DEF Filled
        <2> QED BY <1>1, <1>4, <1>5, <2>1, <2>2 DEF Stacked
  <1>6. CASE k # 0
        <2>1. k \in 1..Len(rows) /\ k - 1 \in 0..Len(rows) /\ ~(k <= k - 1)
              BY <1>4, <1>6
        <2>2. k - 1 \notin Bad
              <3> HIDE DEF Bad
              <3> QED BY <1>3, <2>1
        <2>3. Stacked(rows, k - 1, stacks[k - 1]) /\ stacks[k - 1] \in Seq(Legible)
              BY <1>1, <2>1, <2>2
        <2> HIDE DEF Bad
        <2> QED BY <1>1, <1>4, <2>1, <2>3, StackedGoesOn
  <1> QED BY <1>5, <1>6

(* As many headings above a row as levels that are filled.                 *)
LEMMA LevelsCount ==
  ASSUME NEW rows \in Seq(ContentRow), NEW i \in 0..Len(rows), NEW stack \in Seq(Legible),
         Stacked(rows, i, stack)
  PROVE  /\ Cardinality(Under(rows, i)) = Cardinality(Filled(stack, Len(stack)))
         /\ \A h \in Under(rows, i) :
              Cardinality({g \in Under(rows, i) : g <= h}) =
                Cardinality(Filled(stack, rows[h].level))
  <1> DEFINE U == Under(rows, i)
             F == Filled(stack, Len(stack))
  <1>1. /\ \A h \in U : h \in Nat /\ rows[h].level \in Nat \ {0}
        /\ \A g, h \in U : g < h => rows[g].level < rows[h].level
        /\ IsFiniteSet(U)
        BY UnderFacts
  <1>2. /\ \A h \in U : rows[h].level \in F
        /\ \A l \in F : \E h \in U : rows[h].level = l
        BY DEF Stacked
  <1> HIDE DEF U, F
  <1>3. ASSUME NEW X \in SUBSET U, NEW Y, \A h \in X : rows[h].level \in Y,
               \A l \in Y : \E h \in X : rows[h].level = l
        PROVE  Cardinality(X) = Cardinality(Y)
        <2> DEFINE f == [h \in X |-> rows[h].level]
        <2>1. IsFiniteSet(X)
              BY <1>1, FS_Subset
        <2>2. \A g, h \in X : rows[g].level = rows[h].level => g = h
              <3> SUFFICES ASSUME NEW g \in X, NEW h \in X, rows[g].level = rows[h].level
                           PROVE  g = h
                  OBVIOUS
              <3>1. /\ g \in Nat /\ h \in Nat /\ rows[g].level \in Nat /\ rows[h].level \in Nat
                    /\ g < h => rows[g].level < rows[h].level
                    /\ h < g => rows[h].level < rows[g].level
                    BY <1>1
              <3> QED BY <3>1
        <2>3. f \in Injection(X, Y)
              BY <1>3, <2>2 DEF Injection, IsInjective
        <2>4. f \in Surjection(X, Y)
              BY <1>3 DEF Surjection
        <2> HIDE DEF f
        <2>5. ExistsBijection(X, Y)
              BY <2>3, <2>4 DEF Bijection, ExistsBijection
        <2> QED BY <2>1, <2>5, FS_Bijection
  <1>4. Cardinality(U) = Cardinality(F)
        BY <1>2, <1>3
  <1>5. ASSUME NEW h \in U
        PROVE  Cardinality({g \in U : g <= h}) = Cardinality(Filled(stack, rows[h].level))
        <2> DEFINE X == {g \in U : g <= h}
                   Y == Filled(stack, rows[h].level)
        <2>1. rows[h].level \in Nat \ {0} /\ h \in Nat /\ rows[h].level \in F
              BY <1>1, <1>2
        <2>2. \A l : l \in Y <=> l \in F /\ l <= rows[h].level
              BY <2>1 DEF F, Filled
        <2>3. \A g \in U : g <= h <=> rows[g].level <= rows[h].level
              <3> SUFFICES ASSUME NEW g \in U PROVE g <= h <=> rows[g].level <= rows[h].level
                  OBVIOUS
              <3>1. /\ g \in Nat /\ rows[g].level \in Nat
                    /\ g < h => rows[g].level < rows[h].level
                    /\ h < g => rows[h].level < rows[g].level
                    BY <1>1
              <3> QED BY <2>1, <3>1
        <2> HIDE DEF Y
        <2>4. /\ X \in SUBSET U
              /\ \A g \in X : rows[g].level \in Y
              /\ \A l \in Y : \E g \in X : rows[g].level = l
              BY <1>2, <2>2, <2>3
        <2> HIDE DEF X
        <2>5. Cardinality(X) = Cardinality(Y)
              BY <1>3, <2>4
        <2> QED BY <2>5 DEF X, Y
  <1> QED BY <1>4, <1>5 DEF U, F

(* The section of a block names the headings that the block stands under.  *)
LEMMA SectionsStand ==
  ASSUME NEW rows \in Seq(ContentRow), NEW b \in Normalized(rows)
  PROVE  StandsUnder(rows, b)
  <1>1. PICK i \in DOMAIN rows : b = MakeBlock(i, rows[i], Path(Stacks(rows)[i]))
        BY DEF Normalized
  <1> DEFINE stack == Stacks(rows)[i]
             U == Under(rows, i)
  <1>2. i \in 0..Len(rows) /\ b.index = i /\ b.section = Path(stack)
        BY <1>1 DEF MakeBlock
  <1>3. stack \in Seq(Legible) /\ Stacked(rows, i, stack)
        BY <1>2, AllStacked
  <1> HIDE DEF stack
  <1>4. Path(stack) \in Seq(Legible) /\ Names(Path(stack), stack, Len(stack))
        BY <1>3, PathNames
  <1>5. /\ Cardinality(U) = Cardinality(Filled(stack, Len(stack)))
        /\ \A h \in U : Cardinality({g \in U : g <= h}) = Cardinality(Filled(stack, rows[h].level))
        BY <1>2, <1>3, LevelsCount
  <1>6. DOMAIN Path(stack) = 1..Cardinality(U)
        BY <1>4, <1>5 DEF Names
  <1>7. ASSUME NEW h \in U
        PROVE  Path(stack)[Cardinality({g \in U : g <= h})] = rows[h].text
        <2>1. rows[h].level \in Filled(stack, Len(stack)) /\ stack[rows[h].level] = rows[h].text
              BY <1>3 DEF Stacked
        <2>2. Path(stack)[Cardinality(Filled(stack, rows[h].level))] = stack[rows[h].level]
              BY <1>4, <2>1 DEF Names
        <2>3. Cardinality({g \in U : g <= h}) = Cardinality(Filled(stack, rows[h].level))
              BY <1>5
        <2> HIDE DEF U
        <2> QED BY <2>1, <2>2, <2>3
  <1> QED BY <1>2, <1>6, <1>7 DEF StandsUnder
-------------------------------------------------------------------------------
(* What is kept grows assessment after assessment.                         *)
LEMMA KeptSteps ==
  ASSUME NEW A, NEW n \in Nat, NEW ranked \in [1..n -> A]
  PROVE  \E K : /\ K[0] = <<>> /\ K[n] = FoldLeft(Kept, <<>>, ranked)
                /\ \A k \in 1..n : K[k] = Kept(K[k - 1], ranked[k])
  <1> DEFINE V == Seq({a.block : a \in A})
             g == [l \in 1..n |-> [p \in V |-> Kept(p, ranked[l])]]
             Iterates(h) == h = [S \in SUBSET (1..n) |->
                                   IF S = {} THEN <<>> ELSE Kept(h[S \ {Max(S)}], ranked[Max(S)])]
             h == CHOOSE f : Iterates(f)
  <1>1. DOMAIN ranked = 1..n /\ \A l \in 1..n : ranked[l] \in A
        OBVIOUS
  <1>2. ASSUME NEW l \in 1..n, NEW p \in V PROVE Kept(p, ranked[l]) \in V
        <2>1. ranked[l].block \in {a.block : a \in A}
              BY <1>1
        <2>2. Append(p, ranked[l].block) \in V
              <3> HIDE DEF Kept
              <3> QED BY <2>1
        <2> HIDE DEF V
        <2> QED BY <2>2 DEF Kept
  <1>3. Iterates(h)
        <2>1. g \in [1..n -> [V -> V]] /\ <<>> \in V
              <3>1. <<>> \in V
                    OBVIOUS
              <3> HIDE DEF V
              <3> QED BY <1>2, <3>1
        <2>2. PICK f \in [SUBSET (1..n) -> V] : FoldedBy(f, g, <<>>, n)
              <3> HIDE DEF g, V
              <3> QED BY <2>1, FoldExists
        <2>3. ASSUME NEW S \in SUBSET (1..n)
              PROVE  f[S] = IF S = {} THEN <<>> ELSE Kept(f[S \ {Max(S)}], ranked[Max(S)])
              <3>1. CASE S = {}
                    BY <2>2, <3>1 DEF FoldedBy
              <3>2. CASE S # {}
                    <4>1. Max(S) \in 1..n /\ f[S \ {Max(S)}] \in V
                          <5>1. Max(S) \in 1..n
                                BY <3>2, MaxOfSome
                          <5> HIDE DEF V
                          <5> QED BY <5>1
                    <4>2. f[S] = g[Max(S)][f[S \ {Max(S)}]]
                          BY <2>2, <3>2 DEF FoldedBy
                    <4>3. g[Max(S)][f[S \ {Max(S)}]] = Kept(f[S \ {Max(S)}], ranked[Max(S)])
                          <5> HIDE DEF V
                          <5> QED BY <4>1
                    <4> HIDE DEF g
                    <4> QED BY <3>2, <4>2, <4>3
              <3> QED BY <3>1, <3>2
        <2>4. Iterates(f)
              <3> HIDE DEF V
              <3> QED BY <2>3
        <2> HIDE DEF Iterates
        <2> QED BY <2>4
  <1>4. FoldLeft(Kept, <<>>, ranked) = h[1..n]
        BY <1>1 DEF FoldLeft, MapThenFoldSet
  <1> DEFINE K == [k \in 0..n |-> h[1..k]]
  <1>5. K[0] = <<>>
        <2>1. 1..0 = {}
              OBVIOUS
        <2>2. h[{}] = <<>>
              BY <1>3
        <2> HIDE DEF h
        <2> QED BY <2>1, <2>2
  <1>6. ASSUME NEW k \in 1..n PROVE K[k] = Kept(K[k - 1], ranked[k])
        <2>1. k \in Nat /\ k \in 1..k
              OBVIOUS
        <2>2. 1..k \in SUBSET (1..n) /\ 1..k # {} /\ (1..k) \ {k} = 1..(k - 1)
              <3> HIDE DEF h, K
              <3>1. 1..k \in SUBSET (1..n) /\ (1..k) \ {k} = 1..(k - 1)
                    BY <2>1
              <3> QED BY <2>1, <3>1
        <2>3. Max(1..k) = k
              <3> HIDE DEF h, K
              <3>1. k \in Nat /\ 1..k \in SUBSET (1..k) /\ k \in 1..k /\ 1..k # {}
                    BY <2>1, <2>2
              <3> QED BY <3>1, MaxOfSome, Zenon
        <2>4. K[k] = h[1..k] /\ K[k - 1] = h[1..(k - 1)]
              BY <2>1
        <2> HIDE DEF K, h
        <2>5. \A S \in SUBSET (1..n) :
                S # {} => h[S] = Kept(h[S \ {Max(S)}], ranked[Max(S)])
              BY <1>3
        <2>6. h[1..k] = Kept(h[(1..k) \ {k}], ranked[k])
              BY <2>2, <2>3, <2>5
        <2> QED BY <2>2, <2>4, <2>6
  <1>7. K[n] = h[1..n]
        OBVIOUS
  <1> HIDE DEF K, h
  <1> QED BY <1>4, <1>5, <1>6, <1>7

(* An assessment is of its block.                                          *)
LEMMA AssessedFacts ==
  ASSUME NEW b
  PROVE  Assessed(b).block = b /\ Assessed(b).rating \in Nat
  <1>1. Rating(b) \in Nat
        BY DEF Rating, Bonus
  <1> QED BY <1>1 DEF Assessed, MakeAssessment

(* No two blocks of a document have one index.                             *)
LEMMA BlocksDiffer ==
  ASSUME NEW rows \in Seq(ContentRow)
  PROVE  /\ IsFiniteSet(Normalized(rows))
         /\ \A b \in Normalized(rows) : b.index \in Nat
         /\ \A b, c \in Normalized(rows) : b.index = c.index => b = c
  <1> DEFINE D == {j \in DOMAIN rows : rows[j].text # Blank}
             Block(i) == MakeBlock(i, rows[i], Path(Stacks(rows)[i]))
             f == [i \in D |-> Block(i)]
  <1>1. Normalized(rows) = {Block(i) : i \in D}
        BY DEF Normalized
  <1>2. \A i : Block(i).index = i
        BY DEF MakeBlock
  <1>3. IsFiniteSet(D) /\ D \subseteq Nat
        <2>1. IsFiniteSet(1..Len(rows)) /\ D \in SUBSET (1..Len(rows))
              BY FS_Interval
        <2> HIDE DEF D
        <2>2. D \subseteq Nat
              BY <2>1
        <2> QED BY <2>1, <2>2, FS_Subset
  <1> HIDE DEF D, Block
  <1>4. f \in Surjection(D, Normalized(rows))
        BY <1>1 DEF Surjection
  <1> HIDE DEF f
  <1>5. IsFiniteSet(Normalized(rows))
        BY <1>3, <1>4, FS_Surjection
  <1> QED BY <1>1, <1>2, <1>3, <1>5

(* So Before is a strict total order of the finitely many assessments.     *)
LEMMA RankingOrders ==
  ASSUME NEW rows \in Seq(ContentRow)
  PROVE  LET A == {Assessed(b) : b \in Normalized(rows)}
             R == {p \in A \X A : Before(p[1], p[2])}
         IN /\ IsFiniteSet(A) /\ StrictlyOrders(R, A)
            /\ \A a, b \in A : <<a, b>> \in R <=> Before(a, b)
  <1> DEFINE blocks == Normalized(rows)
             A == {Assessed(b) : b \in blocks}
             R == {p \in A \X A : Before(p[1], p[2])}
             f == [b \in blocks |-> Assessed(b)]
  <1>1. IsFiniteSet(A)
        <2>1. IsFiniteSet(blocks)
              BY BlocksDiffer
        <2> HIDE DEF blocks
        <2>2. f \in Surjection(blocks, A)
              BY DEF Surjection
        <2> HIDE DEF f, A
        <2> QED BY <2>1, <2>2, FS_Surjection
  <1>2. \A a \in A : a.rating \in Nat /\ a.block.index \in Nat
        BY AssessedFacts, BlocksDiffer
  <1>3. \A a, b \in A : a.block.index = b.block.index => a = b
        <2> SUFFICES ASSUME NEW a \in A, NEW b \in A, a.block.index = b.block.index PROVE a = b
            OBVIOUS
        <2>1. PICK c \in blocks : a = Assessed(c)
              OBVIOUS
        <2>2. PICK d \in blocks : b = Assessed(d)
              OBVIOUS
        <2>3. c = d
              BY <2>1, <2>2, AssessedFacts, BlocksDiffer
        <2> QED BY <2>1, <2>2, <2>3
  <1>4. \A a, b \in A : <<a, b>> \in R <=> Before(a, b)
        OBVIOUS
  <1> HIDE DEF A, R
  <1>5. \A a \in A : ~Before(a, a)
        BY <1>2 DEF Before
  <1>6. \A a, b, c \in A : Before(a, b) /\ Before(b, c) => Before(a, c)
        <2> SUFFICES ASSUME NEW a \in A, NEW b \in A, NEW c \in A, Before(a, b), Before(b, c)
                     PROVE  Before(a, c)
            OBVIOUS
        <2>1. /\ a.rating \in Nat /\ b.rating \in Nat /\ c.rating \in Nat
              /\ a.block.index \in Nat /\ b.block.index \in Nat /\ c.block.index \in Nat
              BY <1>2
        <2> QED BY <2>1 DEF Before
  <1>7. \A a, b \in A : a = b \/ Before(a, b) \/ Before(b, a)
        <2> SUFFICES ASSUME NEW a \in A, NEW b \in A, a # b
                     PROVE  Before(a, b) \/ Before(b, a)
            OBVIOUS
        <2>1. /\ a.rating \in Nat /\ b.rating \in Nat
              /\ a.block.index \in Nat /\ b.block.index \in Nat
              /\ a.block.index # b.block.index
              BY <1>2, <1>3
        <2> QED BY <2>1 DEF Before
  <1>8. StrictlyOrders(R, A)
        BY <1>4, <1>5, <1>6, <1>7 DEF StrictlyOrders
  <1> QED BY <1>1, <1>4, <1>8 DEF A, R
-------------------------------------------------------------------------------
(* ranked is all of A, the better before the worse.                        *)
Ranks(ranked, A, n) ==
  /\ n \in Nat /\ IsFiniteSet(A) /\ ranked \in [1..n -> A]
  /\ \A k, m \in 1..n : Before(ranked[k], ranked[m]) <=> k < m
  /\ \A a \in A : \E k \in 1..n : ranked[k] = a

(* Ranked puts every assessment at its place.                              *)
LEMMA RankedRanks ==
  ASSUME NEW rows \in Seq(ContentRow)
  PROVE  LET A == {Assessed(b) : b \in Normalized(rows)}
         IN Ranks(Ranked(Normalized(rows)), A, Cardinality(A))
  <1> DEFINE A == {Assessed(b) : b \in Normalized(rows)}
             R == {p \in A \X A : Before(p[1], p[2])}
             n == Cardinality(A)
             ranked == Ranked(Normalized(rows))
             Placed(k) == CHOOSE a \in A : Cardinality({b \in A : Before(b, a)}) = k - 1
  <1>1. /\ IsFiniteSet(A) /\ StrictlyOrders(R, A)
        /\ \A a, b \in A : <<a, b>> \in R <=> Before(a, b)
        BY RankingOrders
  <1>2. ranked = [k \in 1..n |-> Placed(k)]
        BY DEF Ranked
  <1> HIDE DEF A, R, ranked
  <1>3. n \in Nat
        BY <1>1, FS_CardinalityType
  <1>4. \A a \in A : {b \in A : Before(b, a)} = Ahead(R, A, a)
        BY <1>1 DEF Ahead
  <1>5. ASSUME NEW k \in 1..n
        PROVE  ranked[k] \in A /\ Cardinality(Ahead(R, A, ranked[k])) = k - 1
        <2>1. PICK a \in A : Cardinality(Ahead(R, A, a)) = k - 1
              BY <1>1, EveryPlaceIsTaken
        <2>2. \E x \in A : Cardinality({b \in A : Before(b, x)}) = k - 1
              BY <1>4, <2>1
        <2>3. Placed(k) \in A /\ Cardinality({b \in A : Before(b, Placed(k))}) = k - 1
              BY <2>2
        <2> HIDE DEF Placed
        <2>4. ranked[k] = Placed(k)
              BY <1>2
        <2> QED BY <1>4, <2>3, <2>4
  <1>6. ranked \in [1..n -> A]
        <2> HIDE DEF n, Placed
        <2>1. \A k \in 1..n : Placed(k) \in A
              BY <1>2, <1>5
        <2> QED BY <1>2, <2>1
  <1>7. ASSUME NEW k \in 1..n, NEW m \in 1..n
        PROVE  Before(ranked[k], ranked[m]) <=> k < m
        <2>1. ranked[k] \in A /\ ranked[m] \in A
              BY <1>5
        <2>2. <<ranked[k], ranked[m]>> \in R <=>
                Cardinality(Ahead(R, A, ranked[k])) < Cardinality(Ahead(R, A, ranked[m]))
              BY <1>1, <2>1, AheadGrows
        <2>3. <<ranked[k], ranked[m]>> \in R <=> Before(ranked[k], ranked[m])
              BY <1>1, <2>1
        <2>4. k - 1 < m - 1 <=> k < m
              BY <1>3
        <2> QED BY <1>5, <2>2, <2>3, <2>4
  <1>8. ASSUME NEW a \in A PROVE \E k \in 1..n : ranked[k] = a
        <2> DEFINE k == Cardinality(Ahead(R, A, a)) + 1
        <2>1. Cardinality(Ahead(R, A, a)) \in Nat /\ Cardinality(Ahead(R, A, a)) < n
              BY <1>1, AheadGrows
        <2> HIDE DEF n
        <2>2. k \in 1..n /\ k - 1 = Cardinality(Ahead(R, A, a))
              BY <1>3, <2>1
        <2> HIDE DEF k
        <2>3. ranked[k] \in A /\ Cardinality(Ahead(R, A, ranked[k])) = Cardinality(Ahead(R, A, a))
              BY <1>5, <2>2
        <2>4. <<ranked[k], a>> \notin R /\ <<a, ranked[k]>> \notin R
              BY <1>1, <2>1, <2>3, AheadGrows
        <2>5. ranked[k] = a
              BY <1>1, <2>3, <2>4 DEF StrictlyOrders
        <2> QED BY <2>2, <2>5
  <1> HIDE DEF n
  <1>9. Ranks(ranked, A, n)
        BY <1>1, <1>3, <1>6, <1>7, <1>8 DEF Ranks
  <1> QED BY <1>9 DEF A, n, ranked

(* Of the eligible, the best of each text; those of them among the first k *)
(* of the ranking.                                                         *)
Worthy(A) == {a \in A : Eligible(a)}
Firsts(A) == {a \in Worthy(A) : \A b \in Worthy(A) : b.block.text = a.block.text => ~Before(b, a)}
Seen(A, ranked, k) == {a \in Firsts(A) : \E m \in 1..k : ranked[m] = a}
Better(A, a) == {b \in Firsts(A) : Before(b, a)}

(* Who is seen was preceded by all that are better, and in the end all are.*)
LEMMA SeenFacts ==
  ASSUME NEW A, NEW n, NEW ranked, Ranks(ranked, A, n), NEW k \in 0..n
  PROVE  /\ IsFiniteSet(Seen(A, ranked, k)) /\ Cardinality(Seen(A, ranked, k)) \in Nat
         /\ \A a \in Seen(A, ranked, k) : Better(A, a) \subseteq Seen(A, ranked, k)
         /\ \A a \in Firsts(A) : /\ IsFiniteSet(Better(A, a)) /\ Cardinality(Better(A, a)) \in Nat
         /\ k = n => Seen(A, ranked, k) = Firsts(A)
  <1>1. /\ n \in Nat /\ IsFiniteSet(A)
        /\ \A i, m \in 1..n : Before(ranked[i], ranked[m]) <=> i < m
        /\ \A a \in A : \E i \in 1..n : ranked[i] = a
        BY DEF Ranks
  <1>2. Firsts(A) \subseteq A
        BY DEF Firsts, Worthy
  <1>3. IsFiniteSet(Seen(A, ranked, k)) /\ Cardinality(Seen(A, ranked, k)) \in Nat
        <2>1. Seen(A, ranked, k) \in SUBSET A
              BY <1>2 DEF Seen
        <2> QED BY <1>1, <2>1, FS_Subset, FS_CardinalityType
  <1>4. \A a : IsFiniteSet(Better(A, a)) /\ Cardinality(Better(A, a)) \in Nat
        <2> SUFFICES ASSUME NEW a
                     PROVE  IsFiniteSet(Better(A, a)) /\ Cardinality(Better(A, a)) \in Nat
            OBVIOUS
        <2>1. Better(A, a) \in SUBSET A
              BY <1>2 DEF Better
        <2> QED BY <1>1, <2>1, FS_Subset, FS_CardinalityType
  <1>5. ASSUME NEW a \in Seen(A, ranked, k), NEW b \in Better(A, a)
        PROVE  b \in Seen(A, ranked, k)
        <2>1. PICK m \in 1..k : ranked[m] = a
              BY DEF Seen
        <2>2. b \in Firsts(A) /\ Before(b, a)
              BY DEF Better
        <2>3. PICK i \in 1..n : ranked[i] = b
              BY <1>1, <1>2, <2>2
        <2>4. m \in 1..n /\ i < m
              BY <1>1, <2>1, <2>2, <2>3
        <2>5. i \in 1..k
              BY <1>1, <2>4
        <2> QED BY <2>2, <2>3, <2>5 DEF Seen
  <1>6. ASSUME k = n PROVE Seen(A, ranked, k) = Firsts(A)
        <2>1. \A a \in Firsts(A) : \E i \in 1..k : ranked[i] = a
              BY <1>1, <1>2, <1>6
        <2> QED BY <2>1 DEF Seen
  <1> QED BY <1>3, <1>4, <1>5, <1>6

(* Every eligible text has a first.                                        *)
LEMMA TextHasItsFirst ==
  ASSUME NEW A, NEW n, NEW ranked, Ranks(ranked, A, n), NEW k \in 1..n,
         ranked[k] \in Worthy(A), ranked[k] \notin Firsts(A)
  PROVE  \E c \in Seen(A, ranked, k - 1) : c.block.text = ranked[k].block.text
  <1> DEFINE text == ranked[k].block.text
             G == {m \in 1..n : ranked[m] \in Worthy(A) /\ ranked[m].block.text = text}
  <1>1. /\ n \in Nat
        /\ \A i, m \in 1..n : Before(ranked[i], ranked[m]) <=> i < m
        /\ \A a \in A : \E i \in 1..n : ranked[i] = a
        BY DEF Ranks
  <1>2. PICK m \in G : \A i \in G : m <= i
        <2>1. G \subseteq Nat /\ k \in G
              BY <1>1
        <2> HIDE DEF G
        <2> QED BY <2>1, SmallestNumber
  <1>3. m \in 1..n /\ ranked[m] \in Worthy(A) /\ ranked[m].block.text = text
        BY <1>2
  <1>4. ASSUME NEW b \in Worthy(A), b.block.text = text, Before(b, ranked[m]) PROVE FALSE
        <2>1. PICK i \in 1..n : ranked[i] = b
              BY <1>1 DEF Worthy
        <2>2. i \in G /\ i < m
              BY <1>1, <1>3, <1>4, <2>1
        <2> HIDE DEF G
        <2> QED BY <1>1, <1>2, <1>3, <2>2
  <1>5. ranked[m] \in Firsts(A)
        BY <1>3, <1>4 DEF Firsts
  <1>6. m <= k /\ m # k
        <2>1. k \in G
              OBVIOUS
        <2> HIDE DEF G
        <2> QED BY <1>2, <1>5, <2>1
  <1>7. m \in 1..(k - 1)
        BY <1>1, <1>3, <1>6
  <1> QED BY <1>3, <1>5, <1>7 DEF Seen

(* What is kept after the first k of the ranking.                          *)
Chosen(A, ranked, k) == {a \in Seen(A, ranked, k) : Cardinality(Better(A, a)) < MaxFragments}
KeptSoFar(kept, A, ranked, k) ==
  /\ kept \in Seq({a.block : a \in A})
  /\ {kept[i] : i \in DOMAIN kept} = {a.block : a \in Chosen(A, ranked, k)}
  /\ Len(kept) = IF Cardinality(Seen(A, ranked, k)) < MaxFragments
                 THEN Cardinality(Seen(A, ranked, k)) ELSE MaxFragments

(* One step of the loop keeps it so: what it passes over is refused, has a *)
(* better block with its text, or comes after enough of them.              *)
LEMMA KeptIsFirst ==
  ASSUME NEW A, NEW n, NEW ranked, Ranks(ranked, A, n), NEW k \in 1..n,
         NEW kept, KeptSoFar(kept, A, ranked, k - 1)
  PROVE  KeptSoFar(Kept(kept, ranked[k]), A, ranked, k)
  <1> DEFINE a == ranked[k]
             before == Seen(A, ranked, k - 1)
             after == Seen(A, ranked, k)
  <1>1. /\ n \in Nat /\ k - 1 \in 0..n /\ k \in 0..n /\ a \in A
        /\ \A i, m \in 1..n : Before(ranked[i], ranked[m]) <=> i < m
        /\ MaxFragments \in Nat \ {0}
        BY RetentionAssumption DEF Ranks
  <1>2. /\ IsFiniteSet(before) /\ Cardinality(before) \in Nat
        /\ \A c \in before : Better(A, c) \subseteq before
        /\ \A c \in Firsts(A) : IsFiniteSet(Better(A, c)) /\ Cardinality(Better(A, c)) \in Nat
        BY <1>1, SeenFacts
  <1>3. Texts(kept) = {c.block.text : c \in Chosen(A, ranked, k - 1)}
        <2>1. {kept[i] : i \in DOMAIN kept} = {c.block : c \in Chosen(A, ranked, k - 1)}
              BY DEF KeptSoFar
        <2>2. Texts(kept) = {b.text : b \in {kept[i] : i \in DOMAIN kept}}
              BY DEF Texts
        <2> QED BY <2>1, <2>2
  <1>4. \A c : c \in after <=> c \in before \/ (c = a /\ a \in Firsts(A))
        <2>1. \A m : m \in 1..k <=> m \in 1..(k - 1) \/ m = k
              BY <1>1
        <2> QED BY <2>1 DEF Seen
  <1> HIDE DEF a, before, after
  <1>5. CASE a \notin Firsts(A)
        <2>1. after = before
              BY <1>4, <1>5
        <2>2. Kept(kept, a) = kept
              <3>1. CASE ~Eligible(a)
                    BY <3>1 DEF Kept
              <3>2. CASE Eligible(a)
                    <4>1. a \in Worthy(A)
                          BY <1>1, <3>2 DEF Worthy
                    <4>2. PICK c \in before : c.block.text = a.block.text
                          BY <1>5, <4>1, TextHasItsFirst DEF a, before
                    <4>3. CASE Cardinality(Better(A, c)) < MaxFragments
                          <5>1. a.block.text \in Texts(kept)
                                BY <1>3, <4>2, <4>3 DEF Chosen, before
                          <5> QED BY <5>1 DEF Kept
                    <4>4. CASE ~(Cardinality(Better(A, c)) < MaxFragments)
                          <5>1. c \in Firsts(A)
                                BY DEF before, Seen
                          <5>2. Cardinality(Better(A, c)) <= Cardinality(before)
                                BY <1>2, FS_Subset
                          <5>3. ~(Cardinality(before) < MaxFragments)
                                BY <1>1, <1>2, <4>4, <5>1, <5>2
                          <5>4. Len(kept) = MaxFragments
                                BY <5>3 DEF KeptSoFar, before
                          <5> QED BY <1>1, <5>4 DEF Kept
                    <4> QED BY <4>3, <4>4
              <3> QED BY <3>1, <3>2
        <2>3. Chosen(A, ranked, k) = Chosen(A, ranked, k - 1)
              BY <2>1 DEF Chosen, before, after
        <2> QED BY <2>1, <2>2, <2>3 DEF KeptSoFar, a, before, after
  <1>6. CASE a \in Firsts(A)
        <2>1. after = before \cup {a}
              BY <1>4, <1>6
        <2>2. \A c \in before : c \in Worthy(A) /\ Before(c, a)
              <3> SUFFICES ASSUME NEW c \in before PROVE c \in Worthy(A) /\ Before(c, a)
                  OBVIOUS
              <3>1. PICK m \in 1..(k - 1) : ranked[m] = c
                    BY DEF before, Seen
              <3>2. m \in 1..n /\ m < k
                    BY <1>1
              <3>3. c \in Worthy(A)
                    BY DEF before, Seen, Firsts
              <3> QED BY <1>1, <3>1, <3>2, <3>3 DEF a
        <2>3. Better(A, a) = before
              <3>1. ASSUME NEW b \in Better(A, a) PROVE b \in before
                    <4>1. a \in after
                          BY <2>1
                    <4>2. b \in after
                          BY <1>1, <4>1, SeenFacts DEF after
                    <4>3. b # a
                          <5>1. ~Before(a, a)
                                BY <1>1 DEF a
                          <5> QED BY <5>1 DEF Better
                    <4> QED BY <2>1, <4>2, <4>3
              <3>2. \A b \in before : b \in Better(A, a)
                    BY <2>2 DEF Better, before, Seen
              <3> QED BY <3>1, <3>2
        <2>4. a \notin before /\ Cardinality(after) = Cardinality(before) + 1
              <3>1. a \notin before
                    <4>1. ~Before(a, a)
                          BY <1>1 DEF a
                    <4> QED BY <2>2, <4>1
              <3> QED BY <1>2, <2>1, <3>1, FS_AddElement
        <2>5. Eligible(a) /\ a.block.text \notin Texts(kept)
              <3>1. /\ a \in Worthy(A)
                    /\ \A b \in Worthy(A) : b.block.text = a.block.text => ~Before(b, a)
                    BY <1>6 DEF Firsts
              <3>2. \A c \in Chosen(A, ranked, k - 1) : c.block.text # a.block.text
                    BY <2>2, <3>1 DEF Chosen, before
              <3> QED BY <1>3, <3>1, <3>2 DEF Worthy
        <2>6. /\ kept \in Seq({c.block : c \in A}) /\ a.block \in {c.block : c \in A}
              /\ {kept[i] : i \in DOMAIN kept} = {c.block : c \in Chosen(A, ranked, k - 1)}
              BY <1>1 DEF KeptSoFar
        <2>7. CASE Cardinality(before) < MaxFragments
              <3>1. Len(kept) = Cardinality(before)
                    BY <2>7 DEF KeptSoFar, before
              <3>2. Kept(kept, a) = Append(kept, a.block)
                    BY <2>5, <2>7, <3>1 DEF Kept
              <3>3. Chosen(A, ranked, k) = Chosen(A, ranked, k - 1) \cup {a}
                    BY <2>1, <2>3, <2>7 DEF Chosen, before, after
              <3>4. Append(kept, a.block) \in Seq({c.block : c \in A})
                    BY <2>6
              <3>5. {Append(kept, a.block)[i] : i \in DOMAIN Append(kept, a.block)}
                      = {kept[i] : i \in DOMAIN kept} \cup {a.block}
                    <4> DEFINE Z == {c.block : c \in A}  z == a.block
                    <4>1. kept \in Seq(Z) /\ z \in Z
                          BY <2>6
                    <4> HIDE DEF Z, z
                    <4>2. DOMAIN kept = 1..Len(kept) /\ Len(kept) \in Nat
                          BY <4>1
                    <4>3. DOMAIN Append(kept, z) = 1..(Len(kept) + 1)
                          BY <4>1
                    <4>4. /\ \A i \in 1..Len(kept) : Append(kept, z)[i] = kept[i]
                          /\ Append(kept, z)[Len(kept) + 1] = z
                          BY <4>1
                    <4>5. \A i : i \in 1..(Len(kept) + 1) <=> i \in 1..Len(kept) \/ i = Len(kept) + 1
                          BY <4>2
                    <4>6. {Append(kept, z)[i] : i \in DOMAIN Append(kept, z)}
                            = {kept[i] : i \in DOMAIN kept} \cup {z}
                          BY <4>2, <4>3, <4>4, <4>5
                    <4> QED BY <4>6 DEF z
              <3>6. {c.block : c \in Chosen(A, ranked, k)}
                      = {c.block : c \in Chosen(A, ranked, k - 1)} \cup {a.block}
                    BY <3>3
              <3>7. Len(Append(kept, a.block)) = Cardinality(before) + 1
                    BY <2>6, <3>1
              <3>8. Len(Append(kept, a.block)) =
                      IF Cardinality(after) < MaxFragments THEN Cardinality(after) ELSE MaxFragments
                    BY <1>1, <1>2, <2>4, <2>7, <3>7
              <3>9. KeptSoFar(Append(kept, a.block), A, ranked, k)
                    BY <2>6, <3>4, <3>5, <3>6, <3>8 DEF KeptSoFar, after
              <3> QED BY <3>2, <3>9 DEF a
        <2>8. CASE ~(Cardinality(before) < MaxFragments)
              <3>1. Len(kept) = MaxFragments
                    BY <2>8 DEF KeptSoFar, before
              <3>2. Kept(kept, a) = kept
                    BY <1>1, <3>1 DEF Kept
              <3>3. Chosen(A, ranked, k) = Chosen(A, ranked, k - 1)
                    BY <2>1, <2>3, <2>8 DEF Chosen, before, after
              <3>4. ~(Cardinality(after) < MaxFragments)
                    BY <1>1, <1>2, <2>4, <2>8
              <3>5. KeptSoFar(kept, A, ranked, k)
                    BY <2>6, <3>1, <3>3, <3>4 DEF KeptSoFar, after
              <3> QED BY <3>2, <3>5 DEF a
        <2> QED BY <2>7, <2>8
  <1> QED BY <1>5, <1>6

(* What the loop keeps is the best, by its first step that does not.       *)
LEMMA RetainedIsBest ==
  ASSUME NEW rows \in Seq(ContentRow)
  PROVE  LET kept == FragmentsOf(rows)
         IN /\ {kept[i] : i \in DOMAIN kept} = Best(rows)
            /\ \A i \in DOMAIN kept : kept[i] \in Normalized(rows)
  <1> DEFINE A == {Assessed(b) : b \in Normalized(rows)}
             ranked == Ranked(Normalized(rows))
             n == Cardinality(A)
             kept == FragmentsOf(rows)
  <1>1. Ranks(ranked, A, n)
        BY RankedRanks
  <1>2. \A a \in A : a.block \in Normalized(rows)
        BY AssessedFacts
  <1>3. kept = FoldLeft(Kept, <<>>, ranked)
        BY DEF FragmentsOf, Retained
  <1>4. Best(rows) = {a.block : a \in {x \in Firsts(A) : Cardinality(Better(A, x)) < MaxFragments}}
        BY DEF Best, Firsts, Worthy, Better
  <1> HIDE DEF A, ranked, n, kept
  <1>5. n \in Nat /\ ranked \in [1..n -> A] /\ MaxFragments \in Nat \ {0}
        BY <1>1, RetentionAssumption DEF Ranks
  <1>6. PICK K : /\ K[0] = <<>> /\ K[n] = kept
                 /\ \A k \in 1..n : K[k] = Kept(K[k - 1], ranked[k])
        <2>1. n \in Nat /\ ranked \in [1..n -> A]
              BY <1>5
        <2>2. \E K : /\ K[0] = <<>> /\ K[n] = FoldLeft(Kept, <<>>, ranked)
                     /\ \A k \in 1..n : K[k] = Kept(K[k - 1], ranked[k])
              BY <2>1, KeptSteps
        <2> QED BY <1>3, <2>2
  <1> DEFINE Bad == {k \in 0..n : ~KeptSoFar(K[k], A, ranked, k)}
  <1>7. KeptSoFar(K[0], A, ranked, 0)
        <2>1. Seen(A, ranked, 0) = {} /\ Chosen(A, ranked, 0) = {}
              BY DEF Seen, Chosen
        <2>2. Cardinality(Seen(A, ranked, 0)) = 0
              BY <2>1, FS_EmptySet
        <2>3. /\ Len(<<>>) = 0 /\ <<>> \in Seq({a.block : a \in A})
              /\ {<<>>[i] : i \in DOMAIN <<>>} = {}
              OBVIOUS
        <2>4. KeptSoFar(<<>>, A, ranked, 0)
              BY <1>5, <2>1, <2>2, <2>3 DEF KeptSoFar
        <2> QED BY <1>6, <2>4
  <1>8. Bad = {}
        <2> SUFFICES ASSUME Bad # {} PROVE FALSE
            OBVIOUS
        <2>1. PICK k \in Bad : \A j \in Bad : k <= j
              <3>1. Bad \subseteq Nat
                    BY <1>5
              <3> HIDE DEF Bad
              <3> QED BY <3>1, SmallestNumber
        <2>2. k \in 0..n /\ ~KeptSoFar(K[k], A, ranked, k)
              BY <2>1
        <2>3. k # 0
              BY <1>7, <2>2
        <2>4. k \in 1..n /\ k - 1 \in 0..n /\ ~(k <= k - 1)
              BY <1>5, <2>2, <2>3
        <2>5. k - 1 \notin Bad
              <3> HIDE DEF Bad
              <3> QED BY <2>1, <2>4
        <2>6. KeptSoFar(K[k - 1], A, ranked, k - 1)
              BY <2>4, <2>5
        <2> HIDE DEF Bad
        <2> QED BY <1>1, <1>6, <2>2, <2>4, <2>6, KeptIsFirst
  <1>9. KeptSoFar(kept, A, ranked, n)
        <2>1. n \in 0..n
              BY <1>5
        <2> QED BY <1>6, <1>8, <2>1
  <1>10. Seen(A, ranked, n) = Firsts(A)
        BY <1>1, <1>5, SeenFacts
  <1>11. {kept[i] : i \in DOMAIN kept} = Best(rows)
        BY <1>4, <1>9, <1>10 DEF KeptSoFar, Chosen
  <1>12. \A i \in DOMAIN kept : kept[i] \in Normalized(rows)
        <2>1. \A a \in Firsts(A) : a \in A
              BY DEF Firsts, Worthy
        <2> QED BY <1>2, <1>4, <1>11, <2>1
  <1> QED BY <1>11, <1>12 DEF kept
-------------------------------------------------------------------------------
(* A call that is to keep evidence has a document to keep it of.           *)
DocumentInHand == \A c \in Call : call[c].at = "retain" => call[c].document \in Document

LEMMA DocumentStep ==
  ASSUME call \in [Call -> BodyCall], DocumentInHand, BodyNext
  PROVE  DocumentInHand'
  <1>1. \A d \in Call : call[d] \in BodyCall
        OBVIOUS
  <1>2. ASSUME NEW c \in Call, NEW k, Becomes(c, k), k.at = "retain" => k.document \in Document
        PROVE  DocumentInHand'
        BY <1>2 DEF Becomes, DocumentInHand
  <1>3. ASSUME NEW c \in Call, Ends(c) \/ Leaves(c) PROVE DocumentInHand'
        <2>1. NoCall.at = "idle" /\ Left(call[c]).at = "remove"
              BY DEF NoCall, MakeCall, Left
        <2> QED BY <1>2, <1>3, <2>1, CallAfter
  <1>4. ASSUME NEW c \in Call, NEW at \in {"download", "fetch", "archive", "release"}, Moves(c, at)
        PROVE  DocumentInHand'
        <2>1. at \in At /\ at # "retain"
              BY DEF At
        <2>2. Becomes(c, [call[c] EXCEPT !.at = at])
              BY <1>4, <2>1, CallAfter
        <2>3. [call[c] EXCEPT !.at = at].at = at
              BY <1>1 DEF BodyCall
        <2> QED BY <1>2, <2>1, <2>2, <2>3
  <1>5. ASSUME NEW s \in File, Replace(s) PROVE DocumentInHand'
        <2>1. \A d \in Call : call'[d].at = call[d].at /\ call'[d].document = call[d].document
              BY <1>1, <1>5 DEF Replace, BodyCall
        <2> QED BY <2>1 DEF DocumentInHand
  <1>6. ASSUME NEW s \in File, NEW c \in Call, BeginBody(c, s) PROVE DocumentInHand'
        <2>1. Becomes(c, MakeCall("stat", s, 0)) /\ MakeCall("stat", s, 0).at = "stat"
              BY <1>6 DEF BeginBody, Becomes, MakeCall
        <2> QED BY <1>2, <2>1
  <1>7. ASSUME NEW c \in Call, Stat(c) PROVE DocumentInHand'
        <2>1. CASE call' = [call EXCEPT ![c].at = "reserve", ![c].version = remote[call[c].file]]
              <3> DEFINE k == [call[c] EXCEPT !.at = "reserve", !.version = remote[call[c].file]]
              <3>1. Becomes(c, k) /\ k.at = "reserve"
                    BY <1>1, <2>1 DEF Becomes, BodyCall
              <3> QED BY <1>2, <3>1
        <2> QED BY <1>3, <1>7, <2>1 DEF Stat
  <1>8. ASSUME NEW c \in Call, Reserve(c) PROVE DocumentInHand'
        <2> DEFINE k == [call[c] EXCEPT !.at = "open", !.id = made']
        <2>1. Becomes(c, k) /\ k.at = "open"
              BY <1>1, <1>8 DEF Reserve, Becomes, BodyCall
        <2> QED BY <1>2, <2>1
  <1>9. ASSUME NEW c \in Call, Download(c) PROVE DocumentInHand'
        <2>1. CASE call' = [call EXCEPT ![c].at = "stream", ![c].opened = remote[call[c].file]]
              <3> DEFINE k == [call[c] EXCEPT !.at = "stream", !.opened = remote[call[c].file]]
              <3>1. Becomes(c, k) /\ k.at = "stream"
                    BY <1>1, <2>1 DEF Becomes, BodyCall
              <3> QED BY <1>2, <3>1
        <2> QED BY <1>3, <1>9, <2>1 DEF Download
  <1>10. ASSUME NEW c \in Call, Chunk(c) PROVE DocumentInHand'
        <2>1. ASSUME NEW v, call' = [call EXCEPT ![c].body = Append(@, v)] PROVE DocumentInHand'
              <3> DEFINE k == [call[c] EXCEPT !.body = Append(@, v)]
              <3>1. Becomes(c, k)
                    BY <2>1 DEF Becomes
              <3>2. k.at = "stream"
                    BY <1>1, <1>10 DEF Chunk, BodyCall
              <3> QED BY <1>2, <3>1, <3>2
        <2> QED BY <1>3, <1>10, <2>1 DEF Chunk
  <1>11. ASSUME NEW c \in Call, EndOfStream(c) PROVE DocumentInHand'
        <2>1. CASE call' = [call EXCEPT ![c].at = "parse", ![c].opened = 0]
              <3> DEFINE k == [call[c] EXCEPT !.at = "parse", !.opened = 0]
              <3>1. Becomes(c, k) /\ k.at = "parse"
                    BY <1>1, <2>1 DEF Becomes, BodyCall
              <3> QED BY <1>2, <3>1
        <2> QED BY <1>3, <1>11, <2>1 DEF EndOfStream
  <1>12. ASSUME NEW c \in Call, ReadArchive(c) PROVE DocumentInHand'
        <2>1. ASSUME NEW d \in Readable,
                     call' = [call EXCEPT ![c].at = "retain", ![c].document = d]
              PROVE  DocumentInHand'
              <3> DEFINE k == [call[c] EXCEPT !.at = "retain", !.document = d]
              <3>1. Becomes(c, k)
                    BY <2>1 DEF Becomes
              <3>2. k.document = d
                    BY <1>1 DEF BodyCall
              <3>3. d \in Document
                    BY DEF Readable
              <3> HIDE DEF k
              <3> QED BY <1>2, <3>1, <3>2, <3>3
        <2> QED BY <1>3, <1>12, <2>1 DEF ReadArchive
  <1>13. ASSUME Crash PROVE DocumentInHand'
        BY <1>13 DEF Crash, DocumentInHand, NoCall, MakeCall
  <1>14. ASSUME NEW id \in DOMAIN disk, Sweep(id) PROVE DocumentInHand'
        BY <1>14 DEF Sweep, DocumentInHand
  <1>15. ASSUME NEW c \in Call,
               \/ ReserveRefused(c) \/ ReserveBreaks(c) \/ Open(c) \/ Parse(c) \/ Fetch(c)
               \/ Retain(c) \/ CleanUp(c) \/ Release(c) \/ Cancel(c)
         PROVE  DocumentInHand'
        BY <1>3, <1>4, <1>15 DEF ReserveRefused, ReserveBreaks, Open, Parse, Fetch, Retain,
           CleanUp, Release, Cancel
  <1>16. ASSUME NEW c \in Call, ArchiveChunk(c) PROVE DocumentInHand'
        BY <1>16 DEF ArchiveChunk, DocumentInHand
  <1> QED BY <1>5, <1>6, <1>7, <1>8, <1>9, <1>10, <1>11, <1>12, <1>13, <1>14, <1>15, <1>16
          DEF BodyNext

(* What retain keeps of a document is the best of it: what no better block *)
(* with the same text and no max_fragments_per_source better texts         *)
(* exclude; and each block names the headings it stands under, however     *)
(* their levels skip.                                                      *)
THEOREM EvidenceIsBest == BodySpec => []BestEvidence
  <1>1. BodyInit => DocumentInHand
        BY DEF BodyInit, DocumentInHand, NoCall, MakeCall
  <1>2. BodyInv /\ DocumentInHand /\ [BodyNext]_bodyVars => DocumentInHand'
        <2> SUFFICES ASSUME BodyInv, DocumentInHand, [BodyNext]_bodyVars PROVE DocumentInHand'
            OBVIOUS
        <2>1. CASE BodyNext
              BY <2>1, DocumentStep DEF BodyInv, BodyHolds, BodyTypeOK
        <2>2. CASE UNCHANGED bodyVars
              BY <2>2 DEF bodyVars, DocumentInHand
        <2> QED BY <2>1, <2>2
  <1>3. DocumentInHand => BestEvidence
        <2> SUFFICES ASSUME DocumentInHand, NEW c \in Call, call[c].at = "retain"
                     PROVE  LET d == call[c].document  kept == EvidenceOf[d]
                            IN /\ {kept[i] : i \in DOMAIN kept} = BestOf[d]
                               /\ \A i \in DOMAIN kept : StandsUnder(d, kept[i])
            BY DEF BestEvidence
        <2>1. PICK d \in Document : d = call[c].document
              BY DEF DocumentInHand
        <2>2. d \in Seq(ContentRow)
              BY BodyAssumption
        <2>3. EvidenceOf[d] = FragmentsOf(d) /\ BestOf[d] = Best(d)
              BY DEF EvidenceOf, BestOf
        <2>4. PICK kept : kept = FragmentsOf(d)
              OBVIOUS
        <2>5. /\ {kept[i] : i \in DOMAIN kept} = Best(d)
              /\ \A i \in DOMAIN kept : kept[i] \in Normalized(d)
              BY <2>2, <2>4, RetainedIsBest
        <2>6. \A i \in DOMAIN kept : StandsUnder(d, kept[i])
              BY <2>2, <2>5, SectionsStand
        <2> QED BY <2>1, <2>3, <2>4, <2>5, <2>6
  <1> QED BY <1>1, <1>2, <1>3, BodyInvariance, PTL DEF BodySpec
-------------------------------------------------------------------------------
(* The catalogue.  The digest of s agrees: s points to the richest source  *)
(* of its digest, or is it.                                                *)
Agrees(view, s) ==
  LET canonical == ChooseCanonical(view, Group(view, view[s].sha))
  IN view[s].canonical = IF view[s].sha = Nil \/ s = canonical THEN Nil ELSE canonical

(* So do all but those of the pending digests.                             *)
Settled(view, pending) ==
  \A s \in Source : view[s] # Nil /\ view[s].sha \notin pending => Agrees(view, s)

UpsertAt == {"idle", "path", "read", "locks", "sha", "scan", "delete", "select", "insert",
             "commit"}
Written == {"sha", "scan", "delete", "select", "insert", "commit"}
RowsOver == UNION {[D -> Row] : D \in SUBSET Source}
RelationsOver == UNION {[P -> Doi \cup {Nil}] : P \in SUBSET Pair}
UpsertTx ==
  [at : UpsertAt, id : Source \cup {Nil}, incoming : Said \cup {Nil}, was : Row \cup {Nil},
   locks : SUBSET Identity, rows : RowsOver, rels : RelationsOver, shares : SUBSET Source,
   digests : SUBSET Digest, dois : SUBSET Doi, pairs : SUBSET Pair]

CatalogTypeOK ==
  /\ source \in [Source -> Row \cup {Nil}]
  /\ relation \in [Pair -> Doi \cup {Nil}]
  /\ tx \in [Writer -> UpsertTx]

(* A transaction holds the locks of the digests that a row has had.        *)
LockedDigests(t) == {d \in Digest : <<"sha", d>> \in t.locks}
ShaLocked(row, t) == row # Nil => row.sha \in LockedDigests(t) \cup {Nil}

(* What a transaction has read stands while it holds its locks; its rows,  *)
(* laid over the table src, agree but for the digests it has yet to do.    *)
TxSound(t, src) ==
  /\ t.at = "idle" => t = NoUpsert
  /\ t.at # "idle" => t.id \in Source /\ t.incoming \in Said
  /\ t.at \notin {"idle", "path"} => <<"path", t.id>> \in t.locks
  /\ t.at \in {"path", "read"} => DOMAIN t.rows = {}
  /\ t.at \notin Written =>
       DOMAIN t.rels = {} /\ t.digests = {} /\ t.dois = {} /\ t.pairs = {}
  /\ t.at = "locks" =>
       /\ t.was = src[t.id]
       /\ DOMAIN t.rows = IF src[t.id] = Nil THEN {} ELSE {t.id}
       /\ \A s \in DOMAIN t.rows : t.rows[s] = src[s]
  /\ t.at \in Written =>
       /\ \A s \in DOMAIN t.rows : /\ src[s] # Nil \/ s = t.id
                                   /\ ShaLocked(src[s], t) /\ ShaLocked(t.rows[s], t)
       /\ t.digests \subseteq LockedDigests(t)
       /\ Settled(Overlay(src, t.rows), t.digests)
       /\ t.at = "sha" <=> t.digests # {}
       /\ t.at \in {"scan", "delete", "select", "insert"} => t.dois # {}
       /\ t.at = "commit" => t.dois = {}
       /\ t.at = "insert" => t.pairs # {}

OneHolder ==
  \A v, w \in Writer : v # w =>
    tx[v].locks \cap tx[w].locks = {} /\ DOMAIN tx[v].rows \cap DOMAIN tx[w].rows = {}

CanonicalInv ==
  /\ CatalogTypeOK
  /\ OneHolder
  /\ \A w \in Writer : TxSound(tx[w], source)
  /\ Settled(source, {})
-------------------------------------------------------------------------------
LEMMA LeastIn ==
  ASSUME NEW S, S \subseteq Nat, S # {}
  PROVE  Least(S) \in S /\ \A y \in S : Least(S) <= y
  <1>1. PICK x \in S : \A y \in S : ~(<<y, x>> \in OpToRel(<, Nat))
        BY NatLessThanWellFounded, WFMin
  <1>2. \A y \in S : ~(y < x)
        BY <1>1, Zenon DEF OpToRel
  <1>3. \A y \in S : x <= y
        BY <1>2
  <1> QED BY <1>3 DEF Least

LEMMA CompletenessIsNat ==
  ASSUME NEW sha, NEW doi, NEW F \in SUBSET Field, NEW row,
         row = [sha |-> sha, doi |-> doi, fields |-> F]
  PROVE  Completeness(row) \in Nat
  <1>1. IsFiniteSet(row.fields)
        BY CatalogAssumption, FS_Subset DEF CatalogAssumption
  <1>2. IsFiniteSet(Present({row.sha, row.doi}))
        <2>1. IsFiniteSet({row.sha} \cup {row.doi})
              BY FS_Singleton, FS_Union
        <2>2. Present({row.sha, row.doi}) \subseteq {row.sha} \cup {row.doi}
              BY DEF Present
        <2> QED BY <2>1, <2>2, FS_Subset
  <1> QED BY <1>1, <1>2, FS_CardinalityType DEF Completeness

Comparable(row, S) ==
  /\ \A s, t \in S : Preferred(row, s, t) \/ Preferred(row, t, s)
  /\ \A s, t, u \in S : Preferred(row, s, t) /\ Preferred(row, t, u) => Preferred(row, s, u)

LEMMA PreferredIsAnOrder ==
  ASSUME NEW view \in [Source -> Row \cup {Nil}], NEW S \in SUBSET Source,
         \A s \in S : view[s] # Nil
  PROVE  Comparable(Described(view, S), S)
  <1> DEFINE row == Described(view, S)
  <1>1. \A s \in S : Completeness(row[s]) \in Nat
        <2> TAKE s \in S
        <2>1. view[s] \in Row /\ view[s].fields \in SUBSET Field
              BY DEF Row
        <2>2. row[s] = [sha |-> view[s].sha, doi |-> view[s].doi, fields |-> view[s].fields]
              BY DEF Described
        <2> QED BY <2>1, <2>2, CompletenessIsNat
  <1>2. S \subseteq Nat
        BY CatalogAssumption DEF CatalogAssumption
  <1> HIDE DEF row
  <1>3. \A s, t \in S : Preferred(row, s, t) \/ Preferred(row, t, s)
        BY <1>1, <1>2 DEF Preferred
  <1>4. ASSUME NEW s \in S, NEW t \in S, NEW u \in S,
               Preferred(row, s, t), Preferred(row, t, u)
        PROVE  Preferred(row, s, u)
        BY <1>1, <1>2, <1>4 DEF Preferred
  <1>5. \A s, t, u \in S : Preferred(row, s, t) /\ Preferred(row, t, u) => Preferred(row, s, u)
        BY <1>4
  <1>6. Comparable(row, S)
        BY <1>3, <1>5 DEF Comparable
  <1> QED BY <1>6 DEF row

(* Of any sources one is preferred to all.                                 *)
LEMMA CanonicalIsOneOfThem ==
  ASSUME NEW view \in [Source -> Row \cup {Nil}], NEW S \in SUBSET Source, S # {},
         \A s \in S : view[s] # Nil
  PROVE  ChooseCanonical(view, S) \in S
  <1> DEFINE row == Described(view, S)
             Foremost(A) == {s \in A : \A t \in A : Preferred(row, s, t)}
             Lacking == {A \in SUBSET S : A # {} /\ Foremost(A) = {}}
  <1>1. Comparable(row, S)
        BY PreferredIsAnOrder
  <1> HIDE DEF row
  <1>2. ASSUME Lacking # {} PROVE FALSE
        <2>1. IsFiniteSet(S) /\ Lacking \subseteq SUBSET S
              BY CatalogAssumption, FS_Subset DEF CatalogAssumption
        <2> HIDE DEF Lacking
        <2>2. PICK A \in Lacking : \A B \in Lacking : B \subseteq A => B = A
              BY <1>2, <2>1, LeastSubset
        <2> USE DEF Lacking
        <2>3. A \in SUBSET S /\ A # {} /\ Foremost(A) = {}
              BY <2>2
        <2>4. PICK x \in A : TRUE
              BY <2>3
        <2>5. A \ {x} \notin Lacking
              BY <2>2, <2>4
        <2>6. CASE A \ {x} = {}
              <3>1. \A t \in A : t = x
                    BY <2>6
              <3>2. Preferred(row, x, x)
                    BY <1>1, <2>3, <2>4 DEF Comparable
              <3> QED BY <2>3, <2>4, <3>1, <3>2
        <2>7. CASE A \ {x} # {}
              <3>1. PICK b \in A \ {x} : \A t \in A \ {x} : Preferred(row, b, t)
                    BY <2>3, <2>5, <2>7
              <3>2. x \in S /\ b \in S /\ \A t \in A : t \in S
                    BY <2>3, <2>4, <3>1
              <3>3. CASE Preferred(row, b, x)
                    <4>1. \A t \in A : Preferred(row, b, t)
                          BY <3>1, <3>3
                    <4> QED BY <2>3, <3>1, <4>1
              <3>4. CASE Preferred(row, x, b)
                    <4>1. Preferred(row, x, x)
                          BY <1>1, <3>2 DEF Comparable
                    <4>2. \A t \in A : Preferred(row, x, t)
                          BY <1>1, <3>1, <3>2, <3>4, <4>1 DEF Comparable
                    <4> QED BY <2>3, <2>4, <4>2
              <3> QED BY <1>1, <3>2, <3>3, <3>4 DEF Comparable
        <2> QED BY <2>6, <2>7
  <1>3. \E s \in S : \A t \in S : Preferred(row, s, t)
        BY <1>2
  <1> QED BY <1>3 DEF ChooseCanonical, row

(* A source that agrees goes on to agree if the rows of its digest stay.   *)
LEMMA AgreesCarries ==
  ASSUME NEW v1, NEW v2, NEW s \in Source, v1[s] = v2[s],
         v1[s].sha # Nil =>
           \A x \in Source : \/ v1[x] = v2[x]
                             \/ x \notin Group(v1, v1[s].sha) /\ x \notin Group(v2, v1[s].sha),
         Agrees(v1, s)
  PROVE  Agrees(v2, s)
  <1>1. CASE v1[s].sha = Nil
        BY <1>1 DEF Agrees
  <1>2. CASE v1[s].sha # Nil
        <2> DEFINE G == Group(v1, v1[s].sha)
        <2>1. Group(v2, v2[s].sha) = G
              BY <1>2 DEF Group
        <2>2. Described(v1, G) = Described(v2, G)
              BY <1>2 DEF Described, Group
        <2>3. ChooseCanonical(v1, G) = ChooseCanonical(v2, G)
              BY <2>2, Zenon DEF ChooseCanonical
        <2> HIDE DEF G
        <2> QED BY <2>1, <2>3 DEF Agrees, G
  <1> QED BY <1>1, <1>2
-------------------------------------------------------------------------------
LEMMA RowsOverFacts ==
  /\ \A f \in RowsOver : DOMAIN f \subseteq Source /\ \A s \in DOMAIN f : f[s] \in Row
  /\ \A D \in SUBSET Source : \A f \in [D -> Row] : f \in RowsOver
  BY DEF RowsOver

LEMMA RelationsOverFacts ==
  /\ \A f \in RelationsOver : /\ DOMAIN f \subseteq Pair
                              /\ \A p \in DOMAIN f : f[p] \in Doi \cup {Nil}
  /\ \A D \in SUBSET Pair : \A f \in [D -> Doi \cup {Nil}] : f \in RelationsOver
  BY DEF RelationsOver

LEMMA NothingFacts == DOMAIN Nothing = {} /\ Nothing \in RowsOver /\ Nothing \in RelationsOver
  <1>1. DOMAIN Nothing = {} /\ Nothing \in [{} -> Row] /\ Nothing \in [{} -> Doi \cup {Nil}]
        BY DEF Nothing
  <1> QED BY <1>1, RowsOverFacts, RelationsOverFacts

LEMMA NoUpsertTyped == NoUpsert \in UpsertTx
  BY NothingFacts DEF NoUpsert, UpsertTx, UpsertAt

LEMMA OverlayTyped ==
  ASSUME NEW src \in [Source -> Row \cup {Nil}], NEW rows \in RowsOver
  PROVE  /\ Overlay(src, rows) \in [Source -> Row \cup {Nil}]
         /\ \A s \in Source : Overlay(src, rows)[s] = IF s \in DOMAIN rows THEN rows[s] ELSE src[s]
  BY RowsOverFacts DEF Overlay

LEMMA StoredTyped ==
  ASSUME NEW t \in UpsertTx, t.incoming \in Said
  PROVE  /\ Stored(t) \in Row
         /\ Stored(t).canonical = Nil
         /\ Digests(t) \subseteq Digest /\ Dois(t) \subseteq Doi
         /\ Stored(t).sha \in Digests(t) \cup {Nil}
         /\ Stored(t).doi \in Dois(t) \cup {Nil}
         /\ t.was # Nil => t.was.sha \in Digests(t) \cup {Nil} /\ t.was.doi \in Dois(t) \cup {Nil}
  <1>1. t.was \in Row \cup {Nil}
        BY DEF UpsertTx
  <1>2. Stored(t) \in Row /\ Stored(t).canonical = Nil
        <2>1. CASE t.was = Nil
              BY <2>1 DEF Stored, Merged, Prefer, Said, Row
        <2>2. CASE t.was # Nil
              BY <1>1, <2>2 DEF Stored, Merged, Prefer, Said, Row
        <2> QED BY <2>1, <2>2
  <1>3. Stored(t).sha \in Digest \cup {Nil} /\ Stored(t).doi \in Doi \cup {Nil}
        BY <1>2 DEF Row
  <1>4. t.was # Nil => t.was.sha \in Digest \cup {Nil} /\ t.was.doi \in Doi \cup {Nil}
        BY <1>1 DEF Row
  <1> QED BY <1>2, <1>3, <1>4 DEF Digests, Dois, Present

(* A writer moves to t, and the others keep what they hold.                *)
MovesTo(w, t) == tx' = [tx EXCEPT ![w] = t] /\ UNCHANGED <<source, relation>>
Apart(w, t) ==
  \A v \in Others(w) : /\ t.locks \cap tx[v].locks = {}
                       /\ DOMAIN t.rows \cap DOMAIN tx[v].rows = {}

LEMMA MoveHolds ==
  ASSUME CanonicalInv, NEW w \in Writer, NEW t \in UpsertTx, MovesTo(w, t),
         Apart(w, t), TxSound(t, source)
  PROVE  CanonicalInv'
  <1>1. tx \in [Writer -> UpsertTx]
        BY DEF CanonicalInv, CatalogTypeOK
  <1>2. /\ source' = source /\ relation' = relation
        /\ tx' \in [Writer -> UpsertTx]
        /\ tx'[w] = t /\ \A v \in Others(w) : tx'[v] = tx[v]
        BY <1>1 DEF MovesTo, Others
  <1>3. CatalogTypeOK'
        BY <1>2 DEF CanonicalInv, CatalogTypeOK
  <1>4. OneHolder'
        <2> SUFFICES ASSUME NEW u \in Writer, NEW v \in Writer, u # v
                     PROVE  /\ tx'[u].locks \cap tx'[v].locks = {}
                            /\ DOMAIN tx'[u].rows \cap DOMAIN tx'[v].rows = {}
              BY DEF OneHolder
        <2>1. /\ tx[u].locks \cap tx[v].locks = {}
              /\ DOMAIN tx[u].rows \cap DOMAIN tx[v].rows = {}
              BY DEF CanonicalInv, OneHolder
        <2>2. CASE u = w
              BY <1>2, <2>2 DEF Apart, Others
        <2>3. CASE v = w
              <3>1. u \in Others(w) /\ tx'[u] = tx[u] /\ tx'[v] = t
                    BY <1>2, <2>3 DEF Others
              <3>2. t.locks \cap tx[u].locks = {} /\ DOMAIN t.rows \cap DOMAIN tx[u].rows = {}
                    BY <3>1 DEF Apart
              <3> QED BY <3>1, <3>2
        <2>4. CASE u # w /\ v # w
              BY <1>2, <2>1, <2>4 DEF Others
        <2> QED BY <2>2, <2>3, <2>4
  <1>5. \A v \in Writer : TxSound(tx'[v], source')
        <2> TAKE v \in Writer
        <2>1. CASE v = w
              BY <1>2, <2>1
        <2>2. CASE v # w
              <3>1. tx'[v] = tx[v] /\ TxSound(tx[v], source)
                    BY <1>2, <2>2 DEF Others, CanonicalInv
              <3> QED BY <1>2, <3>1
        <2> QED BY <2>1, <2>2
  <1>6. Settled(source', {})
        BY <1>2 DEF CanonicalInv
  <1> QED BY <1>3, <1>4, <1>5, <1>6 DEF CanonicalInv

LEMMA Typed ==
  ASSUME CanonicalInv, NEW w \in Writer
  PROVE  /\ source \in [Source -> Row \cup {Nil}] /\ tx \in [Writer -> UpsertTx]
         /\ tx[w] \in UpsertTx /\ TxSound(tx[w], source) /\ Apart(w, tx[w])
         /\ View(w) \in [Source -> Row \cup {Nil}]
  <1>1. /\ source \in [Source -> Row \cup {Nil}] /\ tx \in [Writer -> UpsertTx]
        /\ tx[w] \in UpsertTx /\ TxSound(tx[w], source)
        BY DEF CanonicalInv, CatalogTypeOK
  <1>2. Apart(w, tx[w])
        BY DEF CanonicalInv, OneHolder, Apart, Others
  <1>3. tx[w].rows \in RowsOver
        BY <1>1 DEF UpsertTx
  <1> QED BY <1>1, <1>2, <1>3, OverlayTyped DEF View
-------------------------------------------------------------------------------
LEMMA BeginCanonical == ASSUME CanonicalInv, NEW w \in Writer, Begin(w) PROVE CanonicalInv'
  <1>tx. tx \in [Writer -> UpsertTx] /\ tx[w] \in UpsertTx
        BY Typed
  <1>0. PICK s \in Source : \E r \in Incoming[s] :
          tx' = [tx EXCEPT ![w].at = "path", ![w].id = s, ![w].incoming = r]
        BY DEF Begin
  <1>1. PICK r \in Incoming[s] :
          tx' = [tx EXCEPT ![w].at = "path", ![w].id = s, ![w].incoming = r]
        BY <1>0
  <1> DEFINE t == [tx[w] EXCEPT !.at = "path", !.id = s, !.incoming = r]
  <1>2. tx[w].at = "idle" /\ tx[w] = NoUpsert
        BY Typed DEF Begin, TxSound
  <1>3. r \in Said
        BY CatalogAssumption DEF CatalogAssumption
  <1>4. t \in UpsertTx
        BY <1>3, <1>tx DEF UpsertTx, UpsertAt
  <1>5. MovesTo(w, t)
        BY <1>1, <1>tx DEF Begin, MovesTo, UpsertTx
  <1>6. /\ t.at = "path" /\ t.id = s /\ t.incoming = r /\ t.locks = {} /\ t.digests = {}
        /\ t.dois = {} /\ t.pairs = {} /\ DOMAIN t.rows = {} /\ DOMAIN t.rels = {}
        BY <1>2, NothingFacts DEF NoUpsert
  <1> HIDE DEF t
  <1>7. TxSound(t, source)
        BY <1>3, <1>6 DEF TxSound, Written
  <1>8. Apart(w, t)
        BY <1>6 DEF Apart
  <1> QED BY <1>4, <1>5, <1>7, <1>8, MoveHolds

LEMMA LockPathCanonical == ASSUME CanonicalInv, NEW w \in Writer, LockPath(w) PROVE CanonicalInv'
  <1> DEFINE t == [tx[w] EXCEPT !.at = "read", !.locks = {<<"path", tx[w].id>>}]
  <1>tx. tx \in [Writer -> UpsertTx] /\ tx[w] \in UpsertTx
        BY Typed
  <1>1. tx[w].at = "path" /\ tx[w].id \in Source
        BY Typed DEF LockPath, TxSound
  <1>2. t \in UpsertTx
        <2>1. {<<"path", tx[w].id>>} \in SUBSET Identity
              BY <1>1 DEF Identity
        <2> QED BY <2>1, <1>tx DEF UpsertTx, UpsertAt
  <1>3. MovesTo(w, t)
        BY <1>tx DEF LockPath, MovesTo, UpsertTx
  <1>4. /\ t.at = "read" /\ t.id = tx[w].id /\ t.incoming = tx[w].incoming
        /\ t.locks = {<<"path", t.id>>} /\ t.digests = tx[w].digests
        /\ t.dois = tx[w].dois /\ t.pairs = tx[w].pairs
        /\ t.rows = tx[w].rows /\ t.rels = tx[w].rels
        BY <1>tx DEF UpsertTx
  <1> HIDE DEF t
  <1>5. TxSound(t, source)
        BY <1>1, <1>4, Typed DEF TxSound, Written
  <1>6. Apart(w, t)
        BY <1>4, Typed DEF Apart, LockPath, Free
  <1> QED BY <1>2, <1>3, <1>5, <1>6, MoveHolds

LEMMA ReadCanonical == ASSUME CanonicalInv, NEW w \in Writer, Read(w) PROVE CanonicalInv'
  <1> DEFINE s == tx[w].id
             found == IF source[s] = Nil THEN {} ELSE {s}
             rows == [x \in found |-> source[x]]
             t == [tx[w] EXCEPT !.at = "locks", !.was = source[s], !.rows = rows]
  <1>tx. tx \in [Writer -> UpsertTx] /\ tx[w] \in UpsertTx
        BY Typed
  <1>1. tx[w].at = "read" /\ s \in Source
        BY Typed DEF Read, TxSound
  <1>2. source[s] \in Row \cup {Nil} /\ rows \in [found -> Row] /\ found \in SUBSET Source
        BY <1>1, Typed
  <1>3. rows \in RowsOver
        BY <1>2, RowsOverFacts
  <1>5. MovesTo(w, t)
        BY <1>tx DEF Read, MovesTo, UpsertTx
  <1> HIDE DEF rows
  <1>4. t \in UpsertTx
        <2>1. source[s] \in Row \cup {Nil} /\ tx[w] \in UpsertTx
              BY <1>2, Typed
        <2> QED BY <1>3, <2>1 DEF UpsertTx, UpsertAt
  <1>6. /\ t.at = "locks" /\ t.id = s /\ t.incoming = tx[w].incoming /\ t.was = source[s]
        /\ t.locks = tx[w].locks /\ t.digests = tx[w].digests
        /\ t.dois = tx[w].dois /\ t.pairs = tx[w].pairs
        /\ t.rows = rows /\ t.rels = tx[w].rels
        BY <1>tx DEF UpsertTx
  <1>7. DOMAIN rows = found /\ \A x \in found : rows[x] = source[x]
        BY DEF rows
  <1> HIDE DEF t
  <1>8. TxSound(t, source)
        <2>1. /\ t.incoming \in Said /\ <<"path", s>> \in t.locks
              /\ DOMAIN t.rels = {} /\ t.digests = {} /\ t.dois = {} /\ t.pairs = {}
              BY <1>1, <1>6, Typed DEF TxSound, Written
        <2> HIDE DEF s
        <2>2. DOMAIN t.rows = IF source[t.id] = Nil THEN {} ELSE {t.id}
              BY <1>6, <1>7
        <2>3. \A x \in DOMAIN t.rows : t.rows[x] = source[x]
              BY <1>6, <1>7
        <2> QED BY <1>1, <1>6, <2>1, <2>2, <2>3 DEF TxSound, Written
  <1>9. Apart(w, t)
        BY <1>6, <1>7, Typed DEF Apart, Read, Lockable
  <1> QED BY <1>4, <1>5, <1>8, <1>9, MoveHolds

(* The next lock is one of those that the transaction needs and lacks.     *)
LEMMA NextIsMissing ==
  ASSUME NEW t \in UpsertTx, t.incoming \in Said, ~(IdentitiesOf(t) \subseteq t.locks)
  PROVE  NextIdentity(t) \in IdentitiesOf(t) \ t.locks
  <1> DEFINE missing(kind) == {i \in IdentitiesOf(t) \ t.locks : i[1] = kind}
             first == IF missing("doi") # {} THEN missing("doi") ELSE missing("sha")
             numbers == {i[2] : i \in first}
  <1>1. Digests(t) \subseteq Nat /\ Dois(t) \subseteq Nat
        BY StoredTyped, CatalogAssumption DEF CatalogAssumption
  <1>2. \A i \in IdentitiesOf(t) : i[2] \in Nat /\ i[1] \in {"sha", "doi"}
        BY <1>1 DEF IdentitiesOf
  <1>3. first # {} /\ first \subseteq IdentitiesOf(t) \ t.locks
        BY <1>2
  <1> HIDE DEF first
  <1>4. numbers \subseteq Nat /\ numbers # {}
        BY <1>2, <1>3
  <1>5. Least(numbers) \in numbers /\ \A n \in numbers : Least(numbers) <= n
        BY <1>4, LeastIn
  <1>6. \E i \in first : \A j \in first : i[2] <= j[2]
        BY <1>5
  <1>7. (CHOOSE i \in first : \A j \in first : i[2] <= j[2]) \in first
        BY <1>6
  <1> QED BY <1>3, <1>7 DEF NextIdentity, first

LEMMA LockIdentityCanonical ==
  ASSUME CanonicalInv, NEW w \in Writer, LockIdentity(w) PROVE CanonicalInv'
  <1> DEFINE next == NextIdentity(tx[w])
             t == [tx[w] EXCEPT !.locks = @ \cup {next}]
  <1>tx. tx \in [Writer -> UpsertTx] /\ tx[w] \in UpsertTx
        BY Typed
  <1>1. tx[w].at = "locks" /\ tx[w].id \in Source /\ tx[w].incoming \in Said
        BY Typed DEF LockIdentity, TxSound
  <1>2. next \in IdentitiesOf(tx[w])
        BY <1>1, Typed, NextIsMissing DEF LockIdentity
  <1>3. next \in Identity
        BY <1>1, <1>2, Typed, StoredTyped DEF IdentitiesOf, Identity
  <1> HIDE DEF next
  <1>4. t \in UpsertTx
        BY <1>3, <1>tx DEF UpsertTx
  <1>5. MovesTo(w, t)
        BY <1>tx DEF LockIdentity, MovesTo, UpsertTx, next
  <1>6. /\ t.at = tx[w].at /\ t.id = tx[w].id /\ t.incoming = tx[w].incoming /\ t.was = tx[w].was
        /\ t.locks = tx[w].locks \cup {next} /\ t.digests = tx[w].digests
        /\ t.dois = tx[w].dois /\ t.pairs = tx[w].pairs
        /\ t.rows = tx[w].rows /\ t.rels = tx[w].rels
        BY <1>tx DEF UpsertTx
  <1> HIDE DEF t
  <1>7. TxSound(t, source)
        <2>1. TxSound(tx[w], source)
              BY Typed
        <2>2. /\ <<"path", t.id>> \in t.locks /\ t.was = source[t.id]
              /\ DOMAIN t.rels = {} /\ t.digests = {} /\ t.dois = {} /\ t.pairs = {}
              BY <1>1, <1>6, <2>1 DEF TxSound, Written
        <2>3. DOMAIN t.rows = IF source[t.id] = Nil THEN {} ELSE {t.id}
              BY <1>1, <1>6, <2>1 DEF TxSound
        <2>4. \A s \in DOMAIN t.rows : t.rows[s] = source[s]
              BY <1>1, <1>6, <2>1 DEF TxSound
        <2> QED BY <1>1, <1>6, <2>2, <2>3, <2>4 DEF TxSound, Written
  <1>8. Apart(w, t)
        BY <1>6, Typed DEF Apart, LockIdentity, Free, next
  <1> QED BY <1>4, <1>5, <1>7, <1>8, MoveHolds
-------------------------------------------------------------------------------
LEMMA OnwardFacts ==
  ASSUME NEW D, NEW I
  PROVE  /\ Onward(D, I) \in {"sha", "scan", "commit"}
         /\ Onward(D, I) = "sha" <=> D # {}
         /\ Onward(D, I) = "scan" => I # {}
         /\ Onward(D, I) = "commit" => I = {}
  <1>1. CASE D # {}
        BY <1>1 DEF Onward
  <1>2. CASE D = {} /\ I # {}
        BY <1>2 DEF Onward
  <1>3. CASE D = {} /\ I = {}
        BY <1>3 DEF Onward
  <1> QED BY <1>1, <1>2, <1>3

(* Nobody else has written a source whose path is locked and not found.    *)
LEMMA NobodyElseAddsIt ==
  ASSUME CanonicalInv, NEW w \in Writer, tx[w].at = "locks", source[tx[w].id] = Nil,
         NEW v \in Others(w)
  PROVE  tx[w].id \notin DOMAIN tx[v].rows
  <1>1. v \in Writer /\ TxSound(tx[v], source) /\ TxSound(tx[w], source) /\ Apart(w, tx[w])
        BY Typed DEF Others
  <1>2. <<"path", tx[w].id>> \notin tx[v].locks
        BY <1>1 DEF Apart, TxSound
  <1>3. tx[v] \in UpsertTx
        BY <1>1, Typed
  <1>4. CASE tx[v].at \in {"idle", "path", "read"}
        BY <1>1, <1>4, NothingFacts DEF TxSound, NoUpsert
  <1>5. CASE tx[v].at = "locks"
        BY <1>1, <1>5 DEF TxSound
  <1>6. CASE tx[v].at \in Written
        BY <1>1, <1>2, <1>6 DEF TxSound, Written
  <1> QED BY <1>3, <1>4, <1>5, <1>6 DEF UpsertTx, UpsertAt, Written

(* What an upsert writes: its source, as it will be stored.                *)
UpsertRows(t) == [x \in (DOMAIN t.rows) \cup {t.id} |-> IF x \in {t.id} THEN Stored(t) ELSE t.rows[x]]
AfterUpsert(t) ==
  [t EXCEPT !.at = Onward(Digests(t), Dois(t)), !.rows = UpsertRows(t),
            !.digests = Digests(t), !.dois = Dois(t)]

LEMMA UpsertDoes ==
  ASSUME CanonicalInv, NEW w \in Writer, Upsert(w)
  PROVE  LET t == AfterUpsert(tx[w])
             id == tx[w].id
         IN /\ MovesTo(w, t) /\ t \in UpsertTx
            /\ id \in Source /\ tx[w].incoming \in Said /\ tx[w].was = source[id]
            /\ t.rows \in RowsOver /\ DOMAIN t.rows = {id} /\ t.rows[id] = Stored(tx[w])
            /\ t.id = id /\ t.locks = tx[w].locks /\ t.incoming = tx[w].incoming
            /\ t.digests = Digests(tx[w]) /\ t.dois = Dois(tx[w])
            /\ t.at = Onward(Digests(tx[w]), Dois(tx[w]))
            /\ t.rels = tx[w].rels /\ DOMAIN tx[w].rels = {}
  <1> DEFINE t == AfterUpsert(tx[w])
             id == tx[w].id
  <1>1. /\ tx[w].at = "locks" /\ id \in Source /\ tx[w].incoming \in Said
        /\ tx[w].was = source[id] /\ DOMAIN tx[w].rows \subseteq {id}
        /\ DOMAIN tx[w].rels = {}
        BY Typed DEF Upsert, TxSound, Written
  <1>2. tx[w] \in UpsertTx /\ tx \in [Writer -> UpsertTx]
        BY Typed
  <1>3. Stored(tx[w]) \in Row /\ Digests(tx[w]) \subseteq Digest /\ Dois(tx[w]) \subseteq Doi
        BY <1>1, <1>2, StoredTyped, SMTT(40)
  <1>4. MovesTo(w, t)
        BY <1>2 DEF Upsert, MovesTo, AfterUpsert, UpsertRows, Write, UpsertTx
  <1>5. /\ DOMAIN UpsertRows(tx[w]) = {id} /\ UpsertRows(tx[w])[id] = Stored(tx[w])
        /\ UpsertRows(tx[w]) \in [{id} -> Row]
        BY <1>1, <1>3 DEF UpsertRows
  <1>6. UpsertRows(tx[w]) \in RowsOver
        BY <1>1, <1>5, RowsOverFacts
  <1>7. /\ t.id = id /\ t.locks = tx[w].locks /\ t.incoming = tx[w].incoming
        /\ t.digests = Digests(tx[w]) /\ t.dois = Dois(tx[w])
        /\ t.at = Onward(Digests(tx[w]), Dois(tx[w])) /\ t.rows = UpsertRows(tx[w])
        /\ t.rels = tx[w].rels
        BY <1>2 DEF AfterUpsert, UpsertTx
  <1>8. Onward(Digests(tx[w]), Dois(tx[w])) \in UpsertAt
        BY OnwardFacts DEF UpsertAt
  <1>9. t \in UpsertTx
        BY <1>2, <1>3, <1>6, <1>8 DEF AfterUpsert, UpsertTx
  <1> HIDE DEF t, id
  <1>10. DOMAIN t.rows = {id} /\ t.rows[id] = Stored(tx[w]) /\ t.rows \in RowsOver
        BY <1>5, <1>6, <1>7 DEF id
  <1> QED BY <1>1, <1>4, <1>7, <1>9, <1>10 DEF t, id

LEMMA UpsertCanonical == ASSUME CanonicalInv, NEW w \in Writer, Upsert(w) PROVE CanonicalInv'
  <1> DEFINE t == AfterUpsert(tx[w])
             id == tx[w].id
             D == Digests(tx[w])
             view == Overlay(source, t.rows)
  <1>1. /\ MovesTo(w, t) /\ t \in UpsertTx
        /\ id \in Source /\ tx[w].incoming \in Said /\ tx[w].was = source[id]
        /\ t.rows \in RowsOver /\ DOMAIN t.rows = {id} /\ t.rows[id] = Stored(tx[w])
        /\ t.id = id /\ t.locks = tx[w].locks /\ t.incoming = tx[w].incoming
        /\ t.digests = D /\ t.dois = Dois(tx[w]) /\ t.at = Onward(D, Dois(tx[w]))
        BY UpsertDoes
  <1>2. tx[w].at = "locks" /\ IdentitiesOf(tx[w]) \subseteq tx[w].locks
        BY DEF Upsert
  <1>3. /\ source \in [Source -> Row \cup {Nil}] /\ tx[w] \in UpsertTx
        /\ TxSound(tx[w], source) /\ Apart(w, tx[w])
        BY Typed
  <1>4. /\ Stored(tx[w]).canonical = Nil /\ Stored(tx[w]).sha \in D \cup {Nil}
        /\ source[id] # Nil => source[id].sha \in D \cup {Nil}
        /\ D \subseteq Digest
        BY <1>1, <1>3, StoredTyped
  <1>5. D \subseteq LockedDigests(t)
        BY <1>1, <1>2, <1>4 DEF LockedDigests, IdentitiesOf
  <1> HIDE DEF t, id, D
  <1>6. \A s \in Source : view[s] = IF s = id THEN Stored(tx[w]) ELSE source[s]
        BY <1>1, <1>3, OverlayTyped
  <1> HIDE DEF view
  <1>7. Settled(view, D)
        <2> SUFFICES ASSUME NEW s \in Source, view[s] # Nil, view[s].sha \notin D
                     PROVE  Agrees(view, s)
              BY DEF Settled
        <2>1. CASE s = id
              BY <1>4, <1>6, <2>1 DEF Agrees
        <2>2. CASE s # id
              <3>1. view[s] = source[s] /\ Agrees(source, s)
                    BY <1>6, <2>2 DEF CanonicalInv, Settled
              <3>2. source[s].sha # Nil =>
                      /\ id \notin Group(source, source[s].sha)
                      /\ id \notin Group(view, source[s].sha)
                    BY <1>4, <1>6, <3>1 DEF Group
              <3>3. source[s].sha # Nil =>
                      \A x \in Source :
                        \/ source[x] = view[x]
                        \/ x \notin Group(source, source[s].sha) /\ x \notin Group(view, source[s].sha)
                    BY <1>6, <3>2
              <3> QED BY <3>1, <3>3, AgreesCarries
        <2> QED BY <2>1, <2>2
  <1>8. \A s \in DOMAIN t.rows : /\ source[s] # Nil \/ s = t.id
                                 /\ ShaLocked(source[s], t) /\ ShaLocked(t.rows[s], t)
        BY <1>1, <1>4, <1>5 DEF ShaLocked
  <1>9. /\ t.at \in {"sha", "scan", "commit"}
        /\ t.at = "sha" <=> t.digests # {}
        /\ t.at = "scan" => t.dois # {}
        /\ t.at = "commit" => t.dois = {}
        BY <1>1, OnwardFacts
  <1>10. <<"path", id>> \in t.locks
        BY <1>1, <1>2, <1>3 DEF TxSound, id
  <1>11. TxSound(t, source)
        <2>1. Settled(Overlay(source, t.rows), t.digests)
              BY <1>1, <1>7 DEF view
        <2>2. t.id \in Source /\ t.incoming \in Said /\ <<"path", t.id>> \in t.locks
              BY <1>1, <1>10
        <2>3. t.digests \subseteq LockedDigests(t)
              BY <1>1, <1>5
        <2> QED BY <1>8, <1>9, <2>1, <2>2, <2>3 DEF TxSound, Written
  <1>12. Apart(w, t)
        <2> SUFFICES ASSUME NEW v \in Others(w)
                     PROVE  t.locks \cap tx[v].locks = {} /\ id \notin DOMAIN tx[v].rows
              BY <1>1 DEF Apart
        <2>1. t.locks \cap tx[v].locks = {} /\ DOMAIN tx[w].rows \cap DOMAIN tx[v].rows = {}
              BY <1>1, <1>3 DEF Apart
        <2>2. CASE source[id] = Nil
              BY <1>2, <2>1, <2>2, NobodyElseAddsIt DEF id
        <2>3. CASE source[id] # Nil
              BY <1>2, <1>3, <2>1, <2>3 DEF TxSound, id
        <2> QED BY <2>1, <2>2, <2>3
  <1> QED BY <1>1, <1>11, <1>12, MoveHolds
-------------------------------------------------------------------------------
(* The view in which the rows of digest d point to the richest of them.    *)
Pointed(view, d) ==
  LET group == Group(view, d)
      canonical == ChooseCanonical(view, group)
  IN [s \in Source |->
        IF s \in group
        THEN [view[s] EXCEPT !.canonical = IF s = canonical THEN Nil ELSE canonical]
        ELSE view[s]]

LEMMA PointedKeepsTheRest ==
  ASSUME NEW view \in [Source -> Row \cup {Nil}], NEW d \in Digest
  PROVE  LET new == Pointed(view, d) IN
           /\ new \in [Source -> Row \cup {Nil}]
           /\ \A s \in Source : s \notin Group(view, d) => new[s] = view[s]
           /\ \A s \in Source : new[s] # Nil <=> view[s] # Nil
           /\ \A s \in Source : view[s] # Nil =>
                new[s].sha = view[s].sha /\ new[s].doi = view[s].doi /\ new[s].fields = view[s].fields
           /\ \A e : Group(new, e) = Group(view, e)
           /\ \A S \in SUBSET Source : (\A s \in S : view[s] # Nil) =>
                ChooseCanonical(new, S) = ChooseCanonical(view, S)
  <1> DEFINE new == Pointed(view, d)
             group == Group(view, d)
             canonical == ChooseCanonical(view, group)
  <1>1. group \in SUBSET Source /\ \A s \in group : view[s] \in Row /\ view[s] # Nil
        BY DEF Group
  <1>2. Nil \notin Row
        BY CatalogAssumption DEF CatalogAssumption
  <1>3. group # {} => canonical \in Source
        BY <1>1, CanonicalIsOneOfThem
  <1> HIDE DEF canonical
  <1>4. \A s \in Source :
          new[s] = IF s \in group
                   THEN [view[s] EXCEPT !.canonical = IF s = canonical THEN Nil ELSE canonical]
                   ELSE view[s]
        BY DEF Pointed, canonical
  <1>5. new = [s \in Source |-> new[s]]
        BY DEF Pointed
  <1> HIDE DEF new, group
  <1>6. \A s \in group : /\ new[s] \in Row
                         /\ new[s].sha = view[s].sha /\ new[s].doi = view[s].doi
                         /\ new[s].fields = view[s].fields
        BY <1>1, <1>3, <1>4 DEF Row
  <1>7. \A s \in Source : s \notin group => new[s] = view[s]
        BY <1>4
  <1>8. new \in [Source -> Row \cup {Nil}]
        BY <1>5, <1>6, <1>7
  <1>9. \A s \in Source : new[s] # Nil <=> view[s] # Nil
        BY <1>1, <1>2, <1>6, <1>7
  <1>10. \A s \in Source : view[s] # Nil =>
           new[s].sha = view[s].sha /\ new[s].doi = view[s].doi /\ new[s].fields = view[s].fields
        BY <1>6, <1>7
  <1>11. \A e : Group(new, e) = Group(view, e)
        BY <1>9, <1>10 DEF Group
  <1>12. ASSUME NEW S \in SUBSET Source, \A s \in S : view[s] # Nil
         PROVE  ChooseCanonical(new, S) = ChooseCanonical(view, S)
        <2>1. Described(new, S) = Described(view, S)
              BY <1>10, <1>12 DEF Described
        <2> QED BY <2>1, Zenon DEF ChooseCanonical
  <1> QED BY <1>7, <1>8, <1>9, <1>10, <1>11, <1>12 DEF new, group

LEMMA PointedSettles ==
  ASSUME NEW view \in [Source -> Row \cup {Nil}], NEW D \in SUBSET Digest, NEW d \in D,
         Settled(view, D)
  PROVE  Settled(Pointed(view, d), D \ {d})
  <1> DEFINE new == Pointed(view, d)
  <1>1. /\ \A s \in Source : s \notin Group(view, d) => new[s] = view[s]
        /\ \A s \in Source : new[s] # Nil <=> view[s] # Nil
        /\ \A s \in Source : view[s] # Nil => new[s].sha = view[s].sha
        /\ Group(new, d) = Group(view, d)
        BY PointedKeepsTheRest
  <1>2. ChooseCanonical(new, Group(view, d)) = ChooseCanonical(view, Group(view, d))
        BY PointedKeepsTheRest DEF Group
  <1>3. \A s \in Group(view, d) :
          new[s].canonical = IF s = ChooseCanonical(view, Group(view, d)) THEN Nil
                             ELSE ChooseCanonical(view, Group(view, d))
        BY DEF Pointed, Group, Row
  <1>4. d # Nil
        BY CatalogAssumption DEF CatalogAssumption
  <1> HIDE DEF new
  <1> SUFFICES ASSUME NEW s \in Source, new[s] # Nil, new[s].sha \notin D \ {d}
               PROVE  Agrees(new, s)
        BY DEF Settled, new
  <1>5. CASE s \in Group(view, d)
        <2>1. new[s].sha = d
              BY <1>1, <1>5 DEF Group
        <2> QED BY <1>1, <1>2, <1>3, <1>4, <1>5, <2>1 DEF Agrees
  <1>6. CASE s \notin Group(view, d)
        <2>1. new[s] = view[s] /\ view[s] # Nil /\ view[s].sha # d
              BY <1>1, <1>6 DEF Group
        <2>2. Agrees(view, s)
              BY <2>1 DEF Settled
        <2>3. \A x \in Source : \/ view[x] = new[x]
                                \/ x \notin Group(view, view[s].sha) /\ x \notin Group(new, view[s].sha)
              BY <1>1, <2>1 DEF Group
        <2> QED BY <2>1, <2>2, <2>3, AgreesCarries
  <1> QED BY <1>5, <1>6

(* What _reconcile_sha leaves of the transaction t whose view is this.     *)
PointedRows(t, view, d) ==
  [x \in (DOMAIN t.rows) \cup Group(view, d) |->
     IF x \in Group(view, d) THEN Pointed(view, d)[x] ELSE t.rows[x]]
AfterReconcile(t, view, d) ==
  [t EXCEPT !.at = Onward(t.digests \ {d}, t.dois \cup GroupDois(view, Group(view, d))),
            !.digests = t.digests \ {d},
            !.dois = t.dois \cup GroupDois(view, Group(view, d)),
            !.rows = PointedRows(t, view, d)]

LEMMA ReconcileDoes ==
  ASSUME CanonicalInv, NEW w \in Writer, ReconcileSha(w)
  PROVE  LET d == Least(tx[w].digests)
             t == AfterReconcile(tx[w], View(w), d)
         IN /\ d \in tx[w].digests /\ tx[w].at = "sha"
            /\ MovesTo(w, t) /\ t \in UpsertTx
            /\ t.rows \in RowsOver
            /\ DOMAIN t.rows = (DOMAIN tx[w].rows) \cup Group(View(w), d)
            /\ Overlay(source, t.rows) = Pointed(View(w), d)
            /\ t.id = tx[w].id /\ t.locks = tx[w].locks /\ t.incoming = tx[w].incoming
            /\ t.digests = tx[w].digests \ {d}
            /\ t.dois = tx[w].dois \cup GroupDois(View(w), Group(View(w), d))
            /\ t.at = Onward(t.digests, t.dois)
            /\ t.rels = tx[w].rels
  <1> DEFINE d == Least(tx[w].digests)
             view == View(w)
             group == Group(view, d)
             t == AfterReconcile(tx[w], view, d)
  <1>1. /\ source \in [Source -> Row \cup {Nil}] /\ tx \in [Writer -> UpsertTx]
        /\ tx[w] \in UpsertTx /\ view \in [Source -> Row \cup {Nil}]
        /\ TxSound(tx[w], source) /\ tx[w].at = "sha"
        BY Typed DEF ReconcileSha
  <1>2. tx[w].digests \subseteq Digest /\ tx[w].digests # {} /\ tx[w].dois \subseteq Doi
        BY <1>1 DEF TxSound, Written, UpsertTx
  <1>3. d \in tx[w].digests /\ d \in Digest
        BY <1>2, LeastIn, CatalogAssumption DEF CatalogAssumption
  <1>4. tx[w].rows \in RowsOver
        BY <1>1 DEF UpsertTx
  <1>5. \A s \in Source : view[s] = IF s \in DOMAIN tx[w].rows THEN tx[w].rows[s] ELSE source[s]
        BY <1>1, <1>4, OverlayTyped DEF View
  <1>6. group \subseteq Source /\ \A s \in group : view[s] # Nil
        BY DEF Group
  <1>7. /\ Pointed(view, d) \in [Source -> Row \cup {Nil}]
        /\ \A s \in Source : s \notin group => Pointed(view, d)[s] = view[s]
        /\ \A s \in group : Pointed(view, d)[s] \in Row
        BY <1>1, <1>3, <1>6, PointedKeepsTheRest
  <1>8. \A x \in group :
          Pointed(view, d)[x] =
            [view[x] EXCEPT !.canonical = IF x = ChooseCanonical(view, group) THEN Nil
                                          ELSE ChooseCanonical(view, group)]
        BY <1>6 DEF Pointed
  <1>9. PointedRows(tx[w], view, d) =
          [x \in (DOMAIN tx[w].rows) \cup group |->
             IF x \in group
             THEN [view[x] EXCEPT !.canonical = IF x = ChooseCanonical(view, group) THEN Nil
                                                ELSE ChooseCanonical(view, group)]
             ELSE tx[w].rows[x]]
        BY <1>8 DEF PointedRows
  <1>10. MovesTo(w, t)
        BY <1>1, <1>9, Zenon DEF ReconcileSha, MovesTo, AfterReconcile, Write, UpsertTx
  <1>11. PointedRows(tx[w], view, d) \in [(DOMAIN tx[w].rows) \cup group -> Row]
        BY <1>4, <1>7, RowsOverFacts DEF PointedRows
  <1>12. (DOMAIN tx[w].rows) \cup group \in SUBSET Source
        BY <1>4, <1>6, RowsOverFacts
  <1>13. PointedRows(tx[w], view, d) \in RowsOver
        BY <1>11, <1>12, RowsOverFacts
  <1>14. GroupDois(view, group) \subseteq Doi
        BY <1>1, <1>6 DEF GroupDois, Present, Row
  <1> HIDE DEF d, view, group
  <1>15. /\ t.id = tx[w].id /\ t.locks = tx[w].locks /\ t.incoming = tx[w].incoming
         /\ t.digests = tx[w].digests \ {d} /\ t.dois = tx[w].dois \cup GroupDois(view, group)
         /\ t.at = Onward(t.digests, t.dois) /\ t.rows = PointedRows(tx[w], view, d)
         /\ t.rels = tx[w].rels
        BY <1>1 DEF AfterReconcile, UpsertTx, group
  <1>16. t \in UpsertTx
        <2>1. Onward(t.digests, t.dois) \in UpsertAt
              BY OnwardFacts DEF UpsertAt
        <2>2. t.digests \subseteq Digest /\ t.dois \subseteq Doi
              BY <1>2, <1>14, <1>15
        <2>3. /\ tx[w].digests \ {d} \in SUBSET Digest
              /\ tx[w].dois \cup GroupDois(view, group) \in SUBSET Doi
              /\ Onward(tx[w].digests \ {d}, tx[w].dois \cup GroupDois(view, group)) \in UpsertAt
              BY <1>15, <2>1, <2>2
        <2> QED BY <1>1, <1>13, <2>3 DEF AfterReconcile, UpsertTx, group
  <1> HIDE DEF t
  <1>17. Overlay(source, t.rows) = Pointed(view, d)
        <2>1. Overlay(source, t.rows) \in [Source -> Row \cup {Nil}]
              BY <1>1, <1>13, <1>15, OverlayTyped
        <2>2. ASSUME NEW s \in Source PROVE Overlay(source, t.rows)[s] = Pointed(view, d)[s]
              <3>1. Overlay(source, t.rows)[s] = IF s \in DOMAIN t.rows THEN t.rows[s] ELSE source[s]
                    BY <1>1, <1>13, <1>15, OverlayTyped
              <3>2. s \in group => s \in DOMAIN t.rows /\ t.rows[s] = Pointed(view, d)[s]
                    BY <1>15 DEF PointedRows, group
              <3>3. s \notin group /\ s \in DOMAIN t.rows =>
                      s \in DOMAIN tx[w].rows /\ t.rows[s] = tx[w].rows[s]
                    BY <1>15 DEF PointedRows, group
              <3>4. s \in DOMAIN tx[w].rows => s \in DOMAIN t.rows
                    BY <1>15 DEF PointedRows
              <3> QED BY <1>5, <1>7, <3>1, <3>2, <3>3, <3>4
        <2> QED BY <1>7, <2>1, <2>2
  <1>18. DOMAIN t.rows = (DOMAIN tx[w].rows) \cup group
        BY <1>15 DEF PointedRows, group
  <1> QED BY <1>1, <1>3, <1>10, <1>13, <1>15, <1>16, <1>17, <1>18 DEF t, d, view, group

LEMMA ReconcileCanonical == ASSUME CanonicalInv, NEW w \in Writer, ReconcileSha(w) PROVE CanonicalInv'
  <1> DEFINE d == Least(tx[w].digests)
             view == View(w)
             t == AfterReconcile(tx[w], view, d)
  <1>1. /\ d \in tx[w].digests /\ tx[w].at = "sha"
        /\ MovesTo(w, t) /\ t \in UpsertTx
        /\ t.rows \in RowsOver
        /\ DOMAIN t.rows = (DOMAIN tx[w].rows) \cup Group(view, d)
        /\ Overlay(source, t.rows) = Pointed(view, d)
        /\ t.id = tx[w].id /\ t.locks = tx[w].locks /\ t.incoming = tx[w].incoming
        /\ t.digests = tx[w].digests \ {d} /\ t.at = Onward(t.digests, t.dois)
        BY ReconcileDoes
  <1>2. /\ source \in [Source -> Row \cup {Nil}]
        /\ tx[w] \in UpsertTx /\ view \in [Source -> Row \cup {Nil}]
        /\ TxSound(tx[w], source) /\ Apart(w, tx[w])
        BY Typed
  <1>3. /\ Settled(view, tx[w].digests) /\ tx[w].digests \subseteq LockedDigests(tx[w])
        /\ tx[w].id \in Source /\ tx[w].incoming \in Said /\ <<"path", tx[w].id>> \in tx[w].locks
        /\ \A s \in DOMAIN tx[w].rows :
             /\ source[s] # Nil \/ s = tx[w].id
             /\ ShaLocked(source[s], tx[w]) /\ ShaLocked(tx[w].rows[s], tx[w])
        BY <1>1, <1>2 DEF TxSound, Written, View
  <1>4. Lockable(w, Group(view, d))
        BY DEF ReconcileSha
  <1>5. tx[w].rows \in RowsOver /\ tx[w].digests \subseteq Digest
        BY <1>2 DEF UpsertTx
  <1>6. \A s \in Source : view[s] = IF s \in DOMAIN tx[w].rows THEN tx[w].rows[s] ELSE source[s]
        BY <1>2, <1>5, OverlayTyped DEF View
  <1> HIDE DEF d, view, t
  <1>7. Settled(Pointed(view, d), t.digests)
        BY <1>1, <1>2, <1>3, <1>5, PointedSettles
  <1>8. ASSUME NEW s \in DOMAIN t.rows
        PROVE  /\ source[s] # Nil \/ s = t.id
               /\ ShaLocked(source[s], t) /\ ShaLocked(t.rows[s], t)
        <2>1. s \in Source /\ LockedDigests(t) = LockedDigests(tx[w])
              BY <1>1, RowsOverFacts DEF LockedDigests
        <2>2. Overlay(source, t.rows)[s] = t.rows[s]
              BY <1>1, <1>2, <2>1, OverlayTyped
        <2>3. CASE s \in Group(view, d)
              <3>1. view[s] # Nil /\ view[s].sha = d
                    BY <2>3 DEF Group
              <3>2. Pointed(view, d)[s].sha = d
                    BY <1>1, <1>2, <1>5, <2>1, <3>1, PointedKeepsTheRest
              <3>3. ShaLocked(t.rows[s], t)
                    BY <1>1, <1>3, <2>1, <2>2, <3>2 DEF ShaLocked
              <3>4. CASE s \in DOMAIN tx[w].rows
                    BY <1>1, <1>3, <2>1, <3>3, <3>4 DEF ShaLocked
              <3>5. CASE s \notin DOMAIN tx[w].rows
                    <4>1. source[s] = view[s]
                          BY <1>6, <2>1, <3>5
                    <4> QED BY <1>1, <1>3, <2>1, <3>1, <3>3, <4>1 DEF ShaLocked
              <3> QED BY <3>4, <3>5
        <2>4. CASE s \notin Group(view, d)
              <3>1. s \in DOMAIN tx[w].rows
                    BY <1>1, <2>4
              <3>2. t.rows[s] = tx[w].rows[s]
                    <4>1. Pointed(view, d)[s] = view[s]
                          BY <1>1, <1>2, <1>5, <2>1, <2>4, PointedKeepsTheRest
                    <4> QED BY <1>1, <1>6, <2>1, <2>2, <3>1, <4>1
              <3> QED BY <1>1, <1>3, <2>1, <3>1, <3>2 DEF ShaLocked
        <2> QED BY <2>3, <2>4
  <1>9. /\ t.at \in {"sha", "scan", "commit"}
        /\ t.at = "sha" <=> t.digests # {}
        /\ t.at = "scan" => t.dois # {}
        /\ t.at = "commit" => t.dois = {}
        BY <1>1, OnwardFacts
  <1>10. TxSound(t, source)
        <2>1. t.id \in Source /\ t.incoming \in Said /\ <<"path", t.id>> \in t.locks
              BY <1>1, <1>3
        <2>2. t.digests \subseteq LockedDigests(t)
              BY <1>1, <1>3 DEF LockedDigests
        <2>3. Settled(Overlay(source, t.rows), t.digests)
              BY <1>1, <1>7
        <2> QED BY <1>8, <1>9, <2>1, <2>2, <2>3 DEF TxSound, Written
  <1>11. Apart(w, t)
        BY <1>1, <1>2, <1>4 DEF Apart, Lockable
  <1> QED BY <1>1, <1>10, <1>11, MoveHolds
-------------------------------------------------------------------------------
(* The steps of _reconcile_doi leave rows, locks and digests as they are.  *)
AtRelations == {"scan", "delete", "select", "insert"}
SameRows(t, u) ==
  /\ u.rows = t.rows /\ u.locks = t.locks /\ u.digests = t.digests
  /\ u.id = t.id /\ u.incoming = t.incoming

LEMMA SameRowsHolds ==
  ASSUME CanonicalInv, NEW w \in Writer, tx[w].at \in AtRelations,
         NEW t \in UpsertTx, MovesTo(w, t), SameRows(tx[w], t),
         t.at \in AtRelations \cup {"commit"},
         t.at = "commit" <=> t.dois = {},
         t.at = "insert" => t.pairs # {}
  PROVE  CanonicalInv'
  <1>1. TxSound(tx[w], source) /\ Apart(w, tx[w])
        BY Typed
  <1>2. LockedDigests(t) = LockedDigests(tx[w])
        BY DEF SameRows, LockedDigests
  <1>3. \A s \in DOMAIN t.rows : /\ source[s] # Nil \/ s = t.id
                                 /\ ShaLocked(source[s], t) /\ ShaLocked(t.rows[s], t)
        BY <1>1, <1>2 DEF SameRows, TxSound, Written, AtRelations, ShaLocked
  <1>4. t.digests \subseteq LockedDigests(t) /\ t.digests = {}
        BY <1>1, <1>2 DEF SameRows, TxSound, Written, AtRelations
  <1>5. Settled(Overlay(source, t.rows), t.digests)
        BY <1>1 DEF SameRows, TxSound, Written, AtRelations
  <1>6. t.id \in Source /\ t.incoming \in Said /\ <<"path", t.id>> \in t.locks
        BY <1>1 DEF SameRows, TxSound, AtRelations
  <1>7. TxSound(t, source)
        BY <1>3, <1>4, <1>5, <1>6 DEF TxSound, Written, AtRelations
  <1>8. Apart(w, t)
        BY <1>1 DEF Apart, SameRows
  <1> QED BY <1>7, <1>8, MoveHolds

(* Who has a canonical source, has one that exists.                        *)
LEMMA VersionsExist ==
  ASSUME NEW view \in [Source -> Row \cup {Nil}], Settled(view, {}), NEW doi
  PROVE  /\ Versions(view, doi) \subseteq Source /\ \A s \in Versions(view, doi) : view[s] # Nil
         /\ VersionPairs(view, doi) \subseteq Pair
  <1>1. ASSUME NEW m \in Source, view[m] # Nil, view[m].sha # Nil
        PROVE  Canonical(view, m) \in Source /\ view[Canonical(view, m)] # Nil
        <2> DEFINE G == Group(view, view[m].sha)
        <2>1. m \in G /\ G \in SUBSET Source /\ \A s \in G : view[s] # Nil
              BY <1>1 DEF Group
        <2>2. ChooseCanonical(view, G) \in G
              BY <2>1, CanonicalIsOneOfThem
        <2>3. view[m].canonical = IF m = ChooseCanonical(view, G) THEN Nil ELSE ChooseCanonical(view, G)
              BY <1>1 DEF Settled, Agrees
        <2> HIDE DEF G
        <2>4. Canonical(view, m) \in G
              BY <2>1, <2>2, <2>3 DEF Canonical
        <2> QED BY <2>1, <2>4
  <1>2. Versions(view, doi) \subseteq Source /\ \A s \in Versions(view, doi) : view[s] # Nil
        BY <1>1 DEF Versions
  <1>3. VersionPairs(view, doi) \subseteq Pair
        <2> DEFINE V == Versions(view, doi)
                   c == ChooseCanonical(view, V)
        <2>1. CASE V = {}
              <3>1. Cardinality(V) = 0
                    BY <2>1, FS_EmptySet
              <3> QED BY <3>1 DEF VersionPairs
        <2>2. CASE V # {}
              <3>1. c \in V /\ V \subseteq Source
                    BY <1>2, <2>2, CanonicalIsOneOfThem
              <3>2. VersionPairs(view, doi) \subseteq (V \ {c}) \X {c}
                    BY DEF VersionPairs
              <3> HIDE DEF V, c
              <3> QED BY <3>1, <3>2 DEF Pair
        <2> QED BY <2>1, <2>2
  <1> QED BY <1>2, <1>3

LEMMA RelationsOfView ==
  ASSUME CanonicalInv, NEW w \in Writer, tx[w].at \in AtRelations
  PROVE  /\ tx[w] \in UpsertTx /\ tx \in [Writer -> UpsertTx]
         /\ tx[w].digests = {} /\ tx[w].dois # {} /\ Least(tx[w].dois) \in tx[w].dois
         /\ tx[w].dois \subseteq Doi /\ tx[w].pairs \subseteq Pair
         /\ tx[w].rels \in RelationsOver
         /\ Settled(View(w), {})
         /\ \A doi : VersionPairs(View(w), doi) \subseteq Pair
  <1>1. tx[w] \in UpsertTx /\ tx \in [Writer -> UpsertTx] /\ TxSound(tx[w], source)
        BY Typed
  <1>2. tx[w].dois # {} /\ tx[w].digests = {} /\ Settled(View(w), {})
        BY <1>1, SMTT(40) DEF TxSound, Written, AtRelations, View
  <1>3. tx[w].dois \subseteq Doi /\ tx[w].rels \in RelationsOver /\ tx[w].pairs \subseteq Pair
        BY <1>1 DEF UpsertTx
  <1>4. Least(tx[w].dois) \in tx[w].dois
        BY <1>2, <1>3, LeastIn, CatalogAssumption DEF CatalogAssumption
  <1> QED BY <1>1, <1>2, <1>3, <1>4, Typed, VersionsExist

AfterScan(t, R) == [t EXCEPT !.at = "delete", !.pairs = {p \in Pair : R[p] = Least(t.dois)}]

LEMMA ScanDoes ==
  ASSUME CanonicalInv, NEW w \in Writer, ScanRelations(w)
  PROVE  LET t == AfterScan(tx[w], Relations(w)) IN
           /\ MovesTo(w, t) /\ t \in UpsertTx /\ SameRows(tx[w], t)
           /\ t.at = "delete" /\ t.dois = tx[w].dois /\ t.rels = tx[w].rels
           /\ t.pairs = {p \in Pair : Relations(w)[p] = Least(tx[w].dois)}
  <1>1. tx[w].at \in AtRelations
        BY DEF ScanRelations, AtRelations
  <1>2. tx[w] \in UpsertTx /\ tx \in [Writer -> UpsertTx]
        BY <1>1, RelationsOfView
  <1>3. MovesTo(w, AfterScan(tx[w], Relations(w)))
        BY <1>2 DEF ScanRelations, MovesTo, AfterScan, UpsertTx
  <1>4. AfterScan(tx[w], Relations(w)) \in UpsertTx
        BY <1>2 DEF AfterScan, UpsertTx, UpsertAt
  <1> QED BY <1>2, <1>3, <1>4 DEF AfterScan, SameRows, UpsertTx

AfterDelete(t) ==
  [t EXCEPT !.at = "select", !.pairs = {},
            !.rels = [p \in (DOMAIN t.rels) \cup t.pairs |-> IF p \in t.pairs THEN Nil ELSE t.rels[p]]]

LEMMA DeleteDoes ==
  ASSUME CanonicalInv, NEW w \in Writer, DeleteRelations(w)
  PROVE  LET t == AfterDelete(tx[w]) IN
           /\ MovesTo(w, t) /\ t \in UpsertTx /\ SameRows(tx[w], t)
           /\ t.at = "select" /\ t.dois = tx[w].dois /\ t.pairs = {} /\ tx[w].at = "delete"
           /\ t.rels = [p \in (DOMAIN tx[w].rels) \cup tx[w].pairs |->
                          IF p \in tx[w].pairs THEN Nil ELSE tx[w].rels[p]]
  <1>1. tx[w].at = "delete" /\ tx[w].at \in AtRelations
        BY DEF DeleteRelations, AtRelations
  <1>2. /\ tx[w] \in UpsertTx /\ tx \in [Writer -> UpsertTx]
        /\ tx[w].rels \in RelationsOver /\ tx[w].pairs \subseteq Pair
        BY <1>1, RelationsOfView
  <1> DEFINE rels == [p \in (DOMAIN tx[w].rels) \cup tx[w].pairs |->
                        IF p \in tx[w].pairs THEN Nil ELSE tx[w].rels[p]]
  <1>3. MovesTo(w, AfterDelete(tx[w]))
        BY <1>2 DEF DeleteRelations, MovesTo, AfterDelete, Write, UpsertTx
  <1>4. rels \in RelationsOver
        <2>1. (DOMAIN tx[w].rels) \cup tx[w].pairs \in SUBSET Pair
              BY <1>2, RelationsOverFacts
        <2>2. rels \in [(DOMAIN tx[w].rels) \cup tx[w].pairs -> Doi \cup {Nil}]
              BY <1>2, RelationsOverFacts
        <2> HIDE DEF rels
        <2> QED BY <2>1, <2>2, RelationsOverFacts
  <1>5. AfterDelete(tx[w]) = [tx[w] EXCEPT !.at = "select", !.pairs = {}, !.rels = rels]
        BY DEF AfterDelete
  <1> HIDE DEF rels
  <1>6. AfterDelete(tx[w]) \in UpsertTx
        BY <1>2, <1>4, <1>5, ZenonT(60) DEF UpsertTx, UpsertAt
  <1>7. /\ AfterDelete(tx[w]).at = "select" /\ AfterDelete(tx[w]).dois = tx[w].dois
        /\ AfterDelete(tx[w]).pairs = {} /\ AfterDelete(tx[w]).rels = rels
        /\ SameRows(tx[w], AfterDelete(tx[w]))
        BY <1>2, <1>5 DEF SameRows, UpsertTx
  <1> QED BY <1>1, <1>3, <1>6, <1>7 DEF rels

AfterSelect(t, pairs) ==
  LET dois == t.dois \ {Least(t.dois)} IN
    IF pairs = {} THEN [t EXCEPT !.at = Onward({}, dois), !.dois = dois]
                  ELSE [t EXCEPT !.at = "insert", !.pairs = pairs]

LEMMA SelectDoes ==
  ASSUME CanonicalInv, NEW w \in Writer, SelectVersions(w)
  PROVE  LET doi == Least(tx[w].dois)
             pairs == VersionPairs(View(w), doi)
             t == AfterSelect(tx[w], pairs)
         IN /\ MovesTo(w, t) /\ t \in UpsertTx /\ SameRows(tx[w], t) /\ tx[w].at = "select"
            /\ t.rels = tx[w].rels
            /\ pairs = {} => t.at = Onward({}, t.dois) /\ t.dois = tx[w].dois \ {doi}
            /\ pairs # {} => t.at = "insert" /\ t.dois = tx[w].dois /\ t.pairs = pairs
  <1> DEFINE doi == Least(tx[w].dois)
             pairs == VersionPairs(View(w), doi)
             dois == tx[w].dois \ {doi}
             t == AfterSelect(tx[w], pairs)
  <1>1. tx[w].at = "select" /\ tx[w].at \in AtRelations
        BY DEF SelectVersions, AtRelations
  <1>2. /\ tx[w] \in UpsertTx /\ tx \in [Writer -> UpsertTx]
        /\ pairs \subseteq Pair /\ dois \subseteq Doi
        BY <1>1, RelationsOfView
  <1>3. CASE pairs = {}
        <2>1. t = [tx[w] EXCEPT !.at = Onward({}, dois), !.dois = dois]
              BY <1>3 DEF AfterSelect
        <2>2. tx' = [tx EXCEPT ![w].at = Onward({}, dois), ![w].dois = dois]
              BY <1>3 DEF SelectVersions
        <2>3. UNCHANGED <<source, relation>>
              BY DEF SelectVersions
        <2>4. Onward({}, dois) \in UpsertAt
              BY OnwardFacts DEF UpsertAt
        <2> HIDE DEF t, dois, pairs
        <2>5. MovesTo(w, t)
              BY <1>2, <2>1, <2>2, <2>3 DEF MovesTo, UpsertTx
        <2>6. t \in UpsertTx
              BY <1>2, <2>1, <2>4 DEF UpsertTx
        <2>7. /\ SameRows(tx[w], t) /\ t.rels = tx[w].rels
              /\ t.at = Onward({}, t.dois) /\ t.dois = dois
              BY <1>2, <2>1 DEF SameRows, UpsertTx
        <2> QED BY <1>1, <1>3, <2>5, <2>6, <2>7 DEF t, pairs, dois
  <1>4. CASE pairs # {}
        <2>1. t = [tx[w] EXCEPT !.at = "insert", !.pairs = pairs]
              BY <1>4 DEF AfterSelect
        <2>2. tx' = [tx EXCEPT ![w].at = "insert", ![w].pairs = pairs]
              BY <1>4 DEF SelectVersions
        <2>3. UNCHANGED <<source, relation>>
              BY DEF SelectVersions
        <2> HIDE DEF t, dois, pairs
        <2>4. MovesTo(w, t)
              BY <1>2, <2>1, <2>2, <2>3 DEF MovesTo, UpsertTx
        <2>5. t \in UpsertTx
              BY <1>2, <2>1 DEF UpsertTx, UpsertAt
        <2>6. /\ SameRows(tx[w], t) /\ t.rels = tx[w].rels
              /\ t.at = "insert" /\ t.dois = tx[w].dois /\ t.pairs = pairs
              BY <1>2, <2>1 DEF SameRows, UpsertTx
        <2> QED BY <1>1, <1>4, <2>4, <2>5, <2>6 DEF t, pairs
  <1> QED BY <1>3, <1>4

(* Of the pairs left, the INSERT takes the one whose source is least.      *)
NextPair(pairs) == CHOOSE p \in pairs : \A q \in pairs : p[1] <= q[1]

LEMMA NextPairIsLeft ==
  ASSUME NEW pairs \in SUBSET Pair, pairs # {}
  PROVE  NextPair(pairs) \in pairs
  <1> DEFINE numbers == {p[1] : p \in pairs}
  <1>1. numbers \subseteq Nat /\ numbers # {}
        <2>1. \A p \in Pair : p[1] \in Source
              BY DEF Pair
        <2>2. Source \subseteq Nat
              BY CatalogAssumption DEF CatalogAssumption
        <2> QED BY <2>1, <2>2
  <1>2. Least(numbers) \in numbers /\ \A n \in numbers : Least(numbers) <= n
        BY <1>1, LeastIn
  <1>3. \E p \in pairs : \A q \in pairs : p[1] <= q[1]
        BY <1>2, ZenonT(60)
  <1> QED BY <1>3 DEF NextPair

LEMMA InsertDoes ==
  ASSUME CanonicalInv, NEW w \in Writer, InsertRelation(w)
  PROVE  \E t \in UpsertTx :
           LET doi == Least(tx[w].dois)
               pair == NextPair(tx[w].pairs)
           IN /\ MovesTo(w, t) /\ SameRows(tx[w], t) /\ tx[w].at = "insert"
              /\ pair \in tx[w].pairs /\ t.pairs = tx[w].pairs \ {pair}
              /\ t.rels = [p \in (DOMAIN tx[w].rels) \cup {pair} |->
                             IF p \in {pair} THEN doi ELSE tx[w].rels[p]]
              /\ t.pairs # {} => t.at = "insert" /\ t.dois = tx[w].dois
              /\ t.pairs = {} => t.at = Onward({}, t.dois) /\ t.dois = tx[w].dois \ {doi}
  <1> DEFINE doi == Least(tx[w].dois)
             pair == NextPair(tx[w].pairs)
             rest == tx[w].pairs \ {pair}
             fresh == IF Relations(w)[pair] = Nil THEN {pair[1], pair[2]} ELSE {}
             dois == IF rest = {} THEN tx[w].dois \ {doi} ELSE tx[w].dois
             at == IF rest = {} THEN Onward({}, dois) ELSE "insert"
             rels == [p \in (DOMAIN tx[w].rels) \cup {pair} |->
                        IF p \in {pair} THEN doi ELSE tx[w].rels[p]]
             shares == tx[w].shares \cup fresh
             t == [tx[w] EXCEPT !.at = at, !.pairs = rest, !.dois = dois, !.shares = shares,
                                !.rels = rels]
  <1>1. tx[w].at = "insert" /\ tx[w].at \in AtRelations
        BY DEF InsertRelation, AtRelations
  <1>2. /\ tx[w] \in UpsertTx /\ tx \in [Writer -> UpsertTx]
        /\ tx[w].rels \in RelationsOver /\ tx[w].pairs \in SUBSET Pair
        /\ tx[w].dois \subseteq Doi /\ doi \in tx[w].dois
        BY <1>1, RelationsOfView
  <1>3. tx[w].pairs # {}
        BY <1>1, Typed, ZenonT(60) DEF TxSound, Written
  <1>4. pair \in tx[w].pairs /\ pair \in Pair
        BY <1>2, <1>3, NextPairIsLeft, SMTT(40)
  <1>5. tx' = [tx EXCEPT ![w].at = at, ![w].pairs = rest, ![w].dois = dois,
                         ![w].shares = shares, ![w].rels = rels]
        BY <1>2, ZenonT(60) DEF InsertRelation, NextPair, Write, UpsertTx
  <1>6. UNCHANGED <<source, relation>>
        BY DEF InsertRelation
  <1>7. rels \in RelationsOver
        <2>1. (DOMAIN tx[w].rels) \cup {pair} \in SUBSET Pair
              BY <1>2, <1>4, RelationsOverFacts
        <2>2. rels \in [(DOMAIN tx[w].rels) \cup {pair} -> Doi \cup {Nil}]
              BY <1>2, RelationsOverFacts
        <2> HIDE DEF rels, pair
        <2> QED BY <2>1, <2>2, RelationsOverFacts
  <1>8. fresh \subseteq Source
        BY <1>4 DEF Pair
  <1>9. /\ at \in UpsertAt /\ rest \in SUBSET Pair /\ dois \in SUBSET Doi
        /\ rest = {} => at = Onward({}, dois) /\ dois = tx[w].dois \ {doi}
        /\ rest # {} => at = "insert" /\ dois = tx[w].dois
        <2>1. Onward({}, dois) \in UpsertAt
              BY OnwardFacts DEF UpsertAt
        <2> QED BY <1>2, <2>1 DEF UpsertAt
  <1>10. shares \in SUBSET Source
        BY <1>2, <1>8 DEF UpsertTx
  <1> HIDE DEF at, rest, dois, rels, fresh, shares, pair, doi
  <1>11. MovesTo(w, t)
        BY <1>2, <1>5, <1>6 DEF MovesTo, UpsertTx
  <1>12. t \in UpsertTx
        BY <1>2, <1>7, <1>9, <1>10 DEF UpsertTx
  <1>13. /\ SameRows(tx[w], t) /\ t.rels = rels /\ t.pairs = rest /\ t.at = at /\ t.dois = dois
        BY <1>2 DEF SameRows, UpsertTx
  <1> HIDE DEF t
  <1> QED BY <1>1, <1>4, <1>9, <1>11, <1>12, <1>13 DEF rels, rest, pair, doi

LEMMA RelationStepCanonical ==
  ASSUME CanonicalInv, NEW w \in Writer,
         ScanRelations(w) \/ DeleteRelations(w) \/ SelectVersions(w) \/ InsertRelation(w)
  PROVE  CanonicalInv'
  <1>1. tx[w].at \in AtRelations
        BY DEF ScanRelations, DeleteRelations, SelectVersions, InsertRelation, AtRelations
  <1>2. tx[w].dois # {}
        BY <1>1, RelationsOfView
  <1>3. CASE ScanRelations(w)
        <2>1. PICK t : t = AfterScan(tx[w], Relations(w))
              OBVIOUS
        <2>2. /\ MovesTo(w, t) /\ t \in UpsertTx /\ SameRows(tx[w], t)
              /\ t.at = "delete" /\ t.dois = tx[w].dois
              BY <1>3, <2>1, ScanDoes
        <2> QED BY <1>1, <1>2, <2>2, SameRowsHolds DEF AtRelations
  <1>4. CASE DeleteRelations(w)
        <2>1. PICK t : t = AfterDelete(tx[w])
              OBVIOUS
        <2>2. /\ MovesTo(w, t) /\ t \in UpsertTx /\ SameRows(tx[w], t)
              /\ t.at = "select" /\ t.dois = tx[w].dois
              BY <1>4, <2>1, DeleteDoes
        <2> QED BY <1>1, <1>2, <2>2, SameRowsHolds DEF AtRelations
  <1>5. CASE SelectVersions(w)
        <2> DEFINE doi == Least(tx[w].dois)
                   pairs == VersionPairs(View(w), doi)
        <2>1. PICK t : t = AfterSelect(tx[w], pairs)
              OBVIOUS
        <2>2. /\ MovesTo(w, t) /\ t \in UpsertTx /\ SameRows(tx[w], t)
              /\ pairs = {} => t.at = Onward({}, t.dois)
              /\ pairs # {} => t.at = "insert" /\ t.dois = tx[w].dois /\ t.pairs = pairs
              BY <1>5, <2>1, SelectDoes
        <2> HIDE DEF pairs
        <2>3. /\ t.at \in AtRelations \cup {"commit"}
              /\ t.at = "commit" <=> t.dois = {}
              /\ t.at = "insert" => t.pairs # {}
              <3>1. CASE pairs = {}
                    BY <2>2, <3>1, OnwardFacts DEF AtRelations
              <3>2. CASE pairs # {}
                    BY <1>2, <2>2, <3>2 DEF AtRelations
              <3> QED BY <3>1, <3>2
        <2> QED BY <1>1, <2>2, <2>3, SameRowsHolds
  <1>6. CASE InsertRelation(w)
        <2>1. PICK t \in UpsertTx :
                /\ MovesTo(w, t) /\ SameRows(tx[w], t)
                /\ t.pairs # {} => t.at = "insert" /\ t.dois = tx[w].dois
                /\ t.pairs = {} => t.at = Onward({}, t.dois)
              BY <1>6, InsertDoes
        <2>2. /\ t.at \in AtRelations \cup {"commit"}
              /\ t.at = "commit" <=> t.dois = {}
              /\ t.at = "insert" => t.pairs # {}
              <3>1. CASE t.pairs = {}
                    BY <2>1, <3>1, OnwardFacts DEF AtRelations
              <3>2. CASE t.pairs # {}
                    BY <1>2, <2>1, <3>2 DEF AtRelations
              <3> QED BY <3>1, <3>2
        <2> QED BY <1>1, <2>1, <2>2, SameRowsHolds
  <1> QED BY <1>3, <1>4, <1>5, <1>6, SMTT(40)
-------------------------------------------------------------------------------
(* What a transaction that lost pairs, and nothing else, has left.         *)
LosesPairs(t, u) ==
  /\ u \in UpsertTx /\ SameRows(t, u)
  /\ u.at = t.at /\ u.was = t.was /\ u.rels = t.rels /\ u.dois = t.dois
  /\ u.at # "delete" => u.pairs = t.pairs

LEMMA CommitDoes ==
  ASSUME CanonicalInv, NEW w \in Writer, Commit(w)
  PROVE  /\ tx[w].at = "commit" /\ source' = View(w) /\ relation' = Relations(w)
         /\ tx' \in [Writer -> UpsertTx] /\ tx'[w] = NoUpsert
         /\ \A v \in Others(w) : LosesPairs(tx[v], tx'[v])
  <1>1. tx \in [Writer -> UpsertTx]
        BY Typed
  <1>2. /\ tx[w].at = "commit" /\ source' = View(w) /\ relation' = Relations(w)
        /\ DOMAIN tx' = Writer /\ tx' = [v \in Writer |-> tx'[v]]
        BY DEF Commit
  <1>3. tx'[w] = NoUpsert
        BY DEF Commit
  <1>4. ASSUME NEW v \in Others(w) PROVE LosesPairs(tx[v], tx'[v])
        <2>1. v \in Writer /\ v # w /\ tx[v] \in UpsertTx
              BY <1>1 DEF Others
        <2>2. tx[v].pairs \subseteq Pair
              BY <2>1 DEF UpsertTx
        <2>3. CASE tx[v].at = "delete"
              <3>1. tx'[v] = [tx[v] EXCEPT !.pairs = @ \ DOMAIN tx[w].rels]
                    BY <2>1, <2>3 DEF Commit
              <3> QED BY <2>1, <2>2, <2>3, <3>1 DEF LosesPairs, SameRows, UpsertTx
        <2>4. CASE tx[v].at # "delete"
              <3>1. tx'[v] = tx[v]
                    BY <2>1, <2>4 DEF Commit
              <3> QED BY <2>1, <2>4, <3>1 DEF LosesPairs, SameRows
        <2> QED BY <2>3, <2>4
  <1>5. tx' \in [Writer -> UpsertTx]
        <2>1. \A v \in Writer : tx'[v] \in UpsertTx
              BY <1>3, <1>4, NoUpsertTyped DEF Others, LosesPairs
        <2> QED BY <1>2, <2>1
  <1> QED BY <1>2, <1>3, <1>4, <1>5

(* What is committed, another transaction finds as it needs it: its rows   *)
(* are untouched, and so are its digests.                                  *)
LEMMA OthersStand ==
  ASSUME CanonicalInv, NEW w \in Writer, tx[w].at = "commit", NEW v \in Others(w)
  PROVE  TxSound(tx[v], View(w))
  <1> DEFINE t == tx[v]
             src == View(w)
             old == Overlay(source, t.rows)
             new == Overlay(src, t.rows)
  <1>1. /\ v \in Writer /\ v # w
        /\ source \in [Source -> Row \cup {Nil}] /\ t \in UpsertTx /\ tx[w] \in UpsertTx
        /\ TxSound(t, source) /\ TxSound(tx[w], source) /\ src \in [Source -> Row \cup {Nil}]
        BY Typed DEF Others
  <1>2. /\ tx[w].locks \cap t.locks = {} /\ DOMAIN tx[w].rows \cap DOMAIN t.rows = {}
        BY <1>1 DEF CanonicalInv, OneHolder
  <1>3. tx[w].rows \in RowsOver /\ t.rows \in RowsOver
        BY <1>1 DEF UpsertTx
  <1>4. \A s \in Source : src[s] = IF s \in DOMAIN tx[w].rows THEN tx[w].rows[s] ELSE source[s]
        BY <1>1, <1>3, OverlayTyped DEF View
  <1>5. \A s \in DOMAIN t.rows : s \in Source /\ src[s] = source[s]
        BY <1>2, <1>3, <1>4, RowsOverFacts
  <1>6. \A s \in Source : old[s] = IF s \in DOMAIN t.rows THEN t.rows[s] ELSE source[s]
        BY <1>1, <1>3, OverlayTyped
  <1>7. \A s \in Source : new[s] = IF s \in DOMAIN t.rows THEN t.rows[s] ELSE src[s]
        BY <1>1, <1>3, OverlayTyped
  <1>8. /\ \A s \in DOMAIN tx[w].rows :
             ShaLocked(source[s], tx[w]) /\ ShaLocked(tx[w].rows[s], tx[w])
        /\ Settled(src, {})
        BY <1>1 DEF TxSound, Written, View
  <1>9. \A d \in Digest : d \in LockedDigests(tx[w]) => d \notin LockedDigests(t)
        BY <1>2 DEF LockedDigests
  <1> HIDE DEF src, old, new
  <1>10. CASE t.at \in {"idle", "path", "read"}
        <2>1. DOMAIN t.rows = {}
              BY <1>1, <1>10, NothingFacts DEF TxSound, NoUpsert
        <2> QED BY <1>1, <1>10, <2>1 DEF TxSound, Written
  <1>11. CASE t.at = "locks"
        <2>1. t.id \in Source
              BY <1>1, <1>11 DEF TxSound
        <2>2. src[t.id] = source[t.id]
              <3>1. CASE source[t.id] = Nil
                    <4>1. w \in Others(v)
                          BY <1>1 DEF Others
                    <4>2. t.id \notin DOMAIN tx[w].rows
                          BY <1>1, <1>11, <3>1, <4>1, NobodyElseAddsIt
                    <4> QED BY <1>4, <2>1, <4>2
              <3>2. CASE source[t.id] # Nil
                    BY <1>1, <1>5, <1>11, <3>2 DEF TxSound
              <3> QED BY <3>1, <3>2
        <2>3. t.was = src[t.id] /\ DOMAIN t.rows = IF src[t.id] = Nil THEN {} ELSE {t.id}
              BY <1>1, <1>11, <2>2 DEF TxSound
        <2>4. \A s \in DOMAIN t.rows : t.rows[s] = src[s]
              BY <1>1, <1>5, <1>11 DEF TxSound
        <2>5. TxSound(t, src)
              BY <1>1, <1>11, <2>3, <2>4 DEF TxSound, Written
        <2> QED BY <2>5 DEF src
  <1>12. CASE t.at \in Written
        <2>1. /\ \A s \in DOMAIN t.rows : /\ source[s] # Nil \/ s = t.id
                                          /\ ShaLocked(source[s], t) /\ ShaLocked(t.rows[s], t)
              /\ t.digests \subseteq LockedDigests(t)
              /\ Settled(old, t.digests)
              BY <1>1, <1>12 DEF TxSound, old
        <2>2. \A s \in DOMAIN t.rows : /\ src[s] # Nil \/ s = t.id
                                       /\ ShaLocked(src[s], t) /\ ShaLocked(t.rows[s], t)
              BY <1>5, <2>1
        <2>3. Settled(new, t.digests)
              <3> SUFFICES ASSUME NEW s \in Source, new[s] # Nil, new[s].sha \notin t.digests
                           PROVE  Agrees(new, s)
                    BY DEF Settled
              <3> DEFINE d == new[s].sha
              <3>1. d \in Digest \cup {Nil}
                    <4>1. new \in [Source -> Row \cup {Nil}]
                          BY <1>1, <1>3, OverlayTyped DEF new
                    <4> QED BY <4>1 DEF Row
              <3>2. CASE d = Nil
                    <4>1. new[s] = old[s] \/ new[s] = src[s]
                          BY <1>6, <1>7
                    <4>2. Nil \notin t.digests
                          BY <3>2
                    <4>3. new[s].canonical = Nil
                          BY <1>8, <2>1, <3>2, <4>1, <4>2 DEF Settled, Agrees
                    <4> QED BY <3>2, <4>3 DEF Agrees
              <3>3. CASE d \in LockedDigests(tx[w])
                    <4>1. d \in Digest /\ d \notin LockedDigests(t)
                          BY <1>9, <3>3 DEF LockedDigests
                    <4>2. d # Nil
                          BY <4>1, CatalogAssumption DEF CatalogAssumption
                    <4>3. \A x \in DOMAIN t.rows : x \notin Group(src, d) /\ x \notin Group(new, d)
                          BY <1>5, <1>7, <2>2, <4>1, <4>2 DEF Group, ShaLocked
                    <4>4. s \notin DOMAIN t.rows
                          BY <4>3 DEF Group
                    <4>5. new[s] = src[s]
                          BY <1>7, <4>4
                    <4>6. Agrees(src, s)
                          BY <1>8, <4>5 DEF Settled
                    <4>7. \A x \in Source : src[x] = new[x] \/ x \in DOMAIN t.rows
                          BY <1>7
                    <4> QED BY <4>3, <4>5, <4>6, <4>7, AgreesCarries
              <3>4. CASE d # Nil /\ d \notin LockedDigests(tx[w])
                    <4>1. \A x \in DOMAIN tx[w].rows :
                            x \notin Group(source, d) /\ x \notin Group(src, d)
                          BY <1>4, <1>8, <3>4 DEF Group, ShaLocked
                    <4>2. \A x \in DOMAIN tx[w].rows : x \notin Group(old, d) /\ x \notin Group(new, d)
                          BY <1>2, <1>6, <1>7, <4>1 DEF Group
                    <4>3. \A x \in Source : old[x] = new[x] \/ x \in DOMAIN tx[w].rows
                          BY <1>4, <1>6, <1>7
                    <4>4. s \notin DOMAIN tx[w].rows
                          BY <4>2 DEF Group
                    <4>5. old[s] = new[s]
                          BY <4>3, <4>4
                    <4>6. Agrees(old, s)
                          BY <2>1, <4>5 DEF Settled
                    <4> QED BY <4>2, <4>3, <4>5, <4>6, AgreesCarries
              <3> QED BY <3>2, <3>3, <3>4
        <2>4. /\ t.at # "idle" /\ t.id \in Source /\ t.incoming \in Said
              /\ <<"path", t.id>> \in t.locks
              BY <1>1, <1>12 DEF TxSound, Written
        <2>5. /\ t.at = "sha" <=> t.digests # {}
              /\ t.at \in AtRelations => t.dois # {}
              /\ t.at = "commit" => t.dois = {}
              /\ t.at = "insert" => t.pairs # {}
              BY <1>1, <1>12 DEF TxSound, AtRelations
        <2>6. Settled(Overlay(src, t.rows), t.digests)
              BY <2>3 DEF new
        <2> HIDE DEF t
        <2>7. TxSound(t, src)
              BY <1>12, <2>1, <2>2, <2>4, <2>5, <2>6 DEF TxSound, Written, AtRelations
        <2> QED BY <2>7 DEF src, t
  <1> QED BY <1>1, <1>10, <1>11, <1>12 DEF UpsertTx, UpsertAt, Written, src

LEMMA LosingPairsIsSound ==
  ASSUME NEW src, NEW t, NEW u, TxSound(t, src), LosesPairs(t, u), t.at # "idle"
  PROVE  TxSound(u, src)
  <1>1. LockedDigests(u) = LockedDigests(t)
        BY DEF LosesPairs, SameRows, LockedDigests
  <1>2. /\ u.at = t.at /\ u.was = t.was /\ u.rels = t.rels /\ u.dois = t.dois
        /\ u.rows = t.rows /\ u.locks = t.locks /\ u.digests = t.digests
        /\ u.id = t.id /\ u.incoming = t.incoming
        /\ u.at # "delete" => u.pairs = t.pairs
        BY DEF LosesPairs, SameRows
  <1>3. CASE u.at \in Written
        BY <1>1, <1>2, <1>3 DEF TxSound, ShaLocked, Written
  <1>4. CASE u.at \notin Written
        BY <1>2, <1>4 DEF TxSound, Written
  <1> QED BY <1>3, <1>4

LEMMA CommitCanonical == ASSUME CanonicalInv, NEW w \in Writer, Commit(w) PROVE CanonicalInv'
  <1>1. /\ tx[w].at = "commit" /\ source' = View(w) /\ relation' = Relations(w)
        /\ tx' \in [Writer -> UpsertTx] /\ tx'[w] = NoUpsert
        /\ \A v \in Others(w) : LosesPairs(tx[v], tx'[v])
        BY CommitDoes
  <1>2. View(w) \in [Source -> Row \cup {Nil}]
        BY Typed
  <1>3. Relations(w) \in [Pair -> Doi \cup {Nil}]
        <2>1. relation \in [Pair -> Doi \cup {Nil}] /\ tx[w].rels \in RelationsOver
              BY Typed DEF CanonicalInv, CatalogTypeOK, UpsertTx
        <2> QED BY <2>1, RelationsOverFacts DEF Relations, Overlay
  <1>4. CatalogTypeOK'
        BY <1>1, <1>2, <1>3 DEF CatalogTypeOK
  <1>5. OneHolder'
        <2> SUFFICES ASSUME NEW u \in Writer, NEW v \in Writer, u # v
                     PROVE  /\ tx'[u].locks \cap tx'[v].locks = {}
                            /\ DOMAIN tx'[u].rows \cap DOMAIN tx'[v].rows = {}
              BY DEF OneHolder
        <2>1. /\ tx[u].locks \cap tx[v].locks = {}
              /\ DOMAIN tx[u].rows \cap DOMAIN tx[v].rows = {}
              BY DEF CanonicalInv, OneHolder
        <2>2. \A x \in Writer : \/ tx'[x].locks = {} /\ DOMAIN tx'[x].rows = {}
                                \/ tx'[x].locks = tx[x].locks /\ tx'[x].rows = tx[x].rows
              BY <1>1, NothingFacts DEF Others, LosesPairs, SameRows, NoUpsert
        <2>3. /\ tx'[u].locks \subseteq tx[u].locks /\ DOMAIN tx'[u].rows \subseteq DOMAIN tx[u].rows
              BY <2>2
        <2>4. /\ tx'[v].locks \subseteq tx[v].locks /\ DOMAIN tx'[v].rows \subseteq DOMAIN tx[v].rows
              BY <2>2
        <2> QED BY <2>1, <2>3, <2>4
  <1>6. \A v \in Writer : TxSound(tx'[v], source')
        <2> TAKE v \in Writer
        <2>1. CASE v = w
              BY <1>1, <2>1, NothingFacts DEF TxSound, NoUpsert, Written
        <2>2. CASE v # w
              <3>1. v \in Others(w) /\ LosesPairs(tx[v], tx'[v])
                    BY <1>1, <2>2 DEF Others
              <3>2. TxSound(tx[v], View(w))
                    BY <1>1, <3>1, OthersStand
              <3>3. CASE tx[v].at # "idle"
                    <4>1. TxSound(tx'[v], View(w))
                          BY <3>1, <3>2, <3>3, LosingPairsIsSound
                    <4> QED BY <1>1, <4>1
              <3>4. CASE tx[v].at = "idle"
                    <4>1. tx'[v] = tx[v]
                          BY <2>2, <3>4 DEF Commit
                    <4> QED BY <1>1, <3>2, <4>1
              <3> QED BY <3>3, <3>4
        <2> QED BY <2>1, <2>2
  <1>7. Settled(source', {})
        <2>1. TxSound(tx[w], source)
              BY Typed
        <2>2. Settled(View(w), {})
              BY <1>1, <2>1 DEF TxSound, Written, View
        <2> QED BY <1>1, <2>2
  <1> QED BY <1>4, <1>5, <1>6, <1>7 DEF CanonicalInv

LEMMA AbortCanonical == ASSUME CanonicalInv, NEW w \in Writer, Abort(w) PROVE CanonicalInv'
  <1>1. MovesTo(w, NoUpsert)
        BY DEF Abort, MovesTo
  <1>2. TxSound(NoUpsert, source)
        BY NothingFacts DEF TxSound, NoUpsert, Written
  <1>3. Apart(w, NoUpsert)
        BY NothingFacts DEF Apart, NoUpsert
  <1> QED BY <1>1, <1>2, <1>3, NoUpsertTyped, MoveHolds

LEMMA CanonicalStarts == Init => CanonicalInv
  <1> SUFFICES ASSUME Init PROVE CanonicalInv
        OBVIOUS
  <1>1. CatalogTypeOK
        BY NoUpsertTyped DEF Init, CatalogTypeOK
  <1>2. OneHolder
        BY NothingFacts DEF Init, OneHolder, NoUpsert
  <1>3. \A w \in Writer : TxSound(tx[w], source)
        BY NothingFacts DEF Init, TxSound, NoUpsert, Written
  <1>4. Settled(source, {})
        BY DEF Init, Settled
  <1> QED BY <1>1, <1>2, <1>3, <1>4 DEF CanonicalInv

LEMMA CanonicalStep == CanonicalInv /\ [Next]_vars => CanonicalInv'
  <1> SUFFICES ASSUME CanonicalInv, [Next]_vars PROVE CanonicalInv'
        OBVIOUS
  <1>1. CASE UNCHANGED vars
        BY <1>1 DEF vars, CanonicalInv, CatalogTypeOK, OneHolder
  <1>2. ASSUME NEW w \in Writer,
               \/ Begin(w) \/ LockPath(w) \/ Read(w) \/ LockIdentity(w) \/ Upsert(w)
               \/ ReconcileSha(w)
               \/ ScanRelations(w) \/ DeleteRelations(w) \/ SelectVersions(w) \/ InsertRelation(w)
               \/ Commit(w) \/ Abort(w)
        PROVE  CanonicalInv'
        BY <1>2, BeginCanonical, LockPathCanonical, ReadCanonical, LockIdentityCanonical,
           UpsertCanonical, ReconcileCanonical, RelationStepCanonical, CommitCanonical, AbortCanonical
  <1> QED BY <1>1, <1>2 DEF Next
-------------------------------------------------------------------------------
(* The relations, but for those under the pending DOIs, are those of the   *)
(* versions in the view, and they are all there.                           *)
RelationsFit(view, rels, pending) ==
  \A p \in Pair : rels[p] # Nil /\ rels[p] \notin pending => p \in VersionPairs(view, rels[p])
RelationsFull(view, rels, pending) ==
  \A d \in Doi \ pending : \A p \in VersionPairs(view, d) : rels[p] = d

(* The DOIs that a transaction has yet to reconcile, now or after a digest. *)
Pending(t, view) ==
  t.dois \cup UNION {GroupDois(view, Group(view, d)) : d \in t.digests}

RelationsSound(t, view, rels) ==
  /\ RelationsFit(view, rels, Pending(t, view))
  /\ ~doubled => \/ RelationsFull(view, rels, Pending(t, view))
                 \/ t.digests = {} /\ Doubles(view)
  /\ t.at = "delete" => t.pairs = {p \in Pair : rels[p] = Least(t.dois)}
  /\ t.at = "select" => \A p \in Pair : rels[p] # Least(t.dois)
  /\ t.at = "insert" =>
       LET d == Least(t.dois) IN
         /\ t.pairs \subseteq VersionPairs(view, d)
         /\ \A p \in Pair : rels[p] = d => p \in VersionPairs(view, d)
         /\ \A p \in VersionPairs(view, d) \ t.pairs : rels[p] = d

Solo == alone => \A v, w \in Writer : v # w => tx[v].at = "idle" \/ tx[w].at = "idle"

RelationsInv ==
  /\ Solo
  /\ alone => /\ RelationsFit(source, relation, {})
              /\ ~doubled => RelationsFull(source, relation, {})
  /\ alone => \A w \in Writer : tx[w].at \in Written =>
                RelationsSound(tx[w], View(w), Relations(w))

CatalogInv == CanonicalInv /\ RelationsInv
-------------------------------------------------------------------------------
Members(view, doi) ==
  {m \in Source : view[m] # Nil /\ view[m].doi = doi /\ view[m].sha # Nil}

(* The pairs of a DOI stay if its sources, and those they point to, do.    *)
LEMMA VersionPairsStay ==
  ASSUME NEW v1, NEW v2, NEW doi,
         Members(v1, doi) = Members(v2, doi),
         \A m \in Members(v1, doi) : Canonical(v1, m) = Canonical(v2, m),
         \A m \in Members(v1, doi) :
           LET s == Canonical(v1, m) IN
             v1[s].sha = v2[s].sha /\ v1[s].doi = v2[s].doi /\ v1[s].fields = v2[s].fields
  PROVE  VersionPairs(v1, doi) = VersionPairs(v2, doi)
  <1> DEFINE V == Versions(v1, doi)
  <1>1. V = {Canonical(v1, m) : m \in Members(v1, doi)}
        BY DEF Versions, Members
  <1>2. Versions(v2, doi) = {Canonical(v2, m) : m \in Members(v2, doi)}
        BY DEF Versions, Members
  <1>3. Versions(v2, doi) = V
        BY <1>1, <1>2
  <1>4. \A s \in V : v1[s].sha = v2[s].sha /\ v1[s].doi = v2[s].doi /\ v1[s].fields = v2[s].fields
        BY <1>1
  <1> HIDE DEF V
  <1>5. Described(v1, V) = Described(v2, V)
        BY <1>4 DEF Described
  <1>6. ChooseCanonical(v1, V) = ChooseCanonical(v2, V)
        BY <1>5, Zenon DEF ChooseCanonical
  <1> QED BY <1>3, <1>6, Zenon DEF VersionPairs, V

LEMMA PendingOfDigest ==
  ASSUME NEW t, NEW view, NEW d \in t.digests, NEW s \in Group(view, d), view[s].doi # Nil
  PROVE  view[s].doi \in Pending(t, view)
  BY DEF Pending, GroupDois, Present

(* A DOI that an upsert need not reconcile has the pairs it had.           *)
LEMMA UpsertKeepsPairs ==
  ASSUME CanonicalInv, NEW w \in Writer, Upsert(w),
         NEW t, t = AfterUpsert(tx[w]), NEW doi \in Doi,
         doi \notin Pending(t, Overlay(source, t.rows))
  PROVE  VersionPairs(source, doi) = VersionPairs(Overlay(source, t.rows), doi)
  <1> DEFINE id == tx[w].id
             view == Overlay(source, t.rows)
  <1>1. /\ id \in Source /\ tx[w].incoming \in Said /\ tx[w].was = source[id]
        /\ t.rows \in RowsOver /\ DOMAIN t.rows = {id} /\ t.rows[id] = Stored(tx[w])
        /\ t.digests = Digests(tx[w]) /\ t.dois = Dois(tx[w])
        BY UpsertDoes
  <1>2. source \in [Source -> Row \cup {Nil}] /\ tx[w] \in UpsertTx
        BY Typed
  <1>3. /\ source[id] # Nil => /\ source[id].sha \in t.digests \cup {Nil}
                               /\ source[id].doi \in t.dois \cup {Nil}
        /\ Stored(tx[w]).doi \in t.dois \cup {Nil}
        BY <1>1, <1>2, StoredTyped
  <1>4. doi # Nil /\ doi \notin t.dois
        BY CatalogAssumption DEF CatalogAssumption, Pending
  <1> HIDE DEF id
  <1>5. \A s \in Source : view[s] = IF s = id THEN Stored(tx[w]) ELSE source[s]
        BY <1>1, <1>2, OverlayTyped
  <1> HIDE DEF view
  <1>6. id \notin Members(source, doi) /\ id \notin Members(view, doi)
        BY <1>1, <1>3, <1>4, <1>5 DEF Members
  <1>7. Members(source, doi) = Members(view, doi)
        BY <1>5, <1>6 DEF Members
  <1>8. ASSUME NEW m \in Members(source, doi)
        PROVE  /\ Canonical(source, m) = Canonical(view, m)
               /\ LET s == Canonical(source, m) IN
                    /\ source[s].sha = view[s].sha /\ source[s].doi = view[s].doi
                    /\ source[s].fields = view[s].fields
        <2>1. /\ m \in Source /\ m # id /\ source[m] # Nil /\ source[m].doi = doi
              /\ source[m].sha # Nil
              BY <1>6 DEF Members
        <2>2. view[m] = source[m]
              BY <1>5, <2>1
        <2> DEFINE G == Group(source, source[m].sha)
        <2>3. m \in G /\ G \in SUBSET Source /\ \A s \in G : source[s] # Nil
              BY <2>1 DEF Group
        <2>4. source[m].canonical = IF m = ChooseCanonical(source, G) THEN Nil ELSE ChooseCanonical(source, G)
              BY <2>1 DEF CanonicalInv, Settled, Agrees
        <2>5. ChooseCanonical(source, G) \in G
              BY <1>2, <2>3, CanonicalIsOneOfThem
        <2> HIDE DEF G
        <2>6. Canonical(source, m) \in G
              BY <2>3, <2>4, <2>5 DEF Canonical
        <2>7. id \notin G
              <3>1. SUFFICES ASSUME id \in G PROVE FALSE
                    OBVIOUS
              <3>2. source[id] # Nil /\ source[id].sha = source[m].sha
                    BY <3>1 DEF G, Group
              <3>3. source[m].sha \in t.digests
                    BY <1>3, <2>1, <3>2
              <3>4. m \in Group(view, source[m].sha)
                    BY <2>1, <2>2 DEF Group
              <3>5. doi \in Pending(t, view)
                    BY <1>4, <2>1, <2>2, <3>3, <3>4, PendingOfDigest
              <3> QED BY <3>5 DEF view
        <2>8. Canonical(source, m) \in Source /\ Canonical(source, m) # id
              BY <2>3, <2>6, <2>7
        <2>9. view[Canonical(source, m)] = source[Canonical(source, m)]
              BY <1>5, <2>8
        <2>10. Canonical(source, m) = Canonical(view, m)
              BY <2>2 DEF Canonical
        <2> QED BY <2>9, <2>10
  <1>9. VersionPairs(source, doi) = VersionPairs(view, doi)
        BY <1>7, <1>8, VersionPairsStay
  <1> QED BY <1>9 DEF view


(* So has one that no source of the digest that is reconciled has.         *)
LEMMA PointedKeepsPairs ==
  ASSUME NEW view \in [Source -> Row \cup {Nil}], NEW d \in Digest,
         NEW doi \in Doi, doi \notin GroupDois(view, Group(view, d))
  PROVE  VersionPairs(view, doi) = VersionPairs(Pointed(view, d), doi)
  <1> DEFINE new == Pointed(view, d)
  <1>1. /\ \A s \in Source : s \notin Group(view, d) => new[s] = view[s]
        /\ \A s \in Source : new[s] # Nil <=> view[s] # Nil
        /\ \A s \in Source : view[s] # Nil =>
             new[s].sha = view[s].sha /\ new[s].doi = view[s].doi /\ new[s].fields = view[s].fields
        BY PointedKeepsTheRest
  <1> HIDE DEF new
  <1>2. doi # Nil
        BY CatalogAssumption DEF CatalogAssumption
  <1>3. Members(view, doi) = Members(new, doi)
        BY <1>1 DEF Members
  <1>4. ASSUME NEW m \in Members(view, doi)
        PROVE  /\ Canonical(view, m) = Canonical(new, m)
               /\ LET s == Canonical(view, m) IN
                    view[s].sha = new[s].sha /\ view[s].doi = new[s].doi /\ view[s].fields = new[s].fields
        <2>1. m \in Source /\ view[m] # Nil /\ view[m].doi = doi
              BY DEF Members
        <2>2. m \notin Group(view, d)
              BY <1>2, <2>1 DEF GroupDois, Present
        <2>3. new[m] = view[m]
              BY <1>1, <2>1, <2>2
        <2>4. Canonical(view, m) = Canonical(new, m)
              BY <2>3 DEF Canonical
        <2>5. Canonical(view, m) \in Source
              BY <2>1 DEF Canonical, Row
        <2>6. \A s \in Source :
                view[s].sha = new[s].sha /\ view[s].doi = new[s].doi /\ view[s].fields = new[s].fields
              <3> TAKE s \in Source
              <3>1. CASE view[s] = Nil
                    BY <1>1, <3>1 DEF Group
              <3>2. CASE view[s] # Nil
                    BY <1>1, <3>2
              <3> QED BY <3>1, <3>2
        <2> QED BY <2>4, <2>5, <2>6
  <1>5. VersionPairs(view, doi) = VersionPairs(new, doi)
        BY <1>3, <1>4, VersionPairsStay
  <1> QED BY <1>5 DEF new

LEMMA RelationsCarry ==
  ASSUME NEW v1, NEW v2, NEW rels \in [Pair -> Doi \cup {Nil}], NEW P, NEW Q, P \subseteq Q,
         \A doi \in Doi : doi \notin Q => VersionPairs(v1, doi) = VersionPairs(v2, doi)
  PROVE  /\ RelationsFit(v1, rels, P) => RelationsFit(v2, rels, Q)
         /\ RelationsFull(v1, rels, P) => RelationsFull(v2, rels, Q)
  <1>1. ASSUME RelationsFit(v1, rels, P), NEW p \in Pair, rels[p] # Nil, rels[p] \notin Q
        PROVE  p \in VersionPairs(v2, rels[p])
        <2>1. rels[p] \in Doi /\ rels[p] \notin P
              BY <1>1
        <2>2. p \in VersionPairs(v1, rels[p])
              BY <1>1, <2>1 DEF RelationsFit
        <2>3. VersionPairs(v1, rels[p]) = VersionPairs(v2, rels[p])
              BY <1>1, <2>1
        <2> QED BY <2>2, <2>3
  <1>2. ASSUME RelationsFull(v1, rels, P), NEW d \in Doi \ Q, NEW p \in VersionPairs(v2, d)
        PROVE  rels[p] = d
        <2>1. VersionPairs(v1, d) = VersionPairs(v2, d) /\ d \in Doi \ P
              OBVIOUS
        <2> QED BY <1>2, <2>1 DEF RelationsFull
  <1> QED BY <1>1, <1>2 DEF RelationsFit, RelationsFull

(* One upsert at a time takes a step; the others are idle.                 *)
LEMMA SoloMove ==
  ASSUME CanonicalInv, RelationsInv, NEW w \in Writer, tx[w].at # "idle",
         NEW t, MovesTo(w, t), UNCHANGED history,
         alone /\ t.at \in Written =>
           RelationsSound(t, Overlay(source, t.rows), Overlay(relation, t.rels))
  PROVE  RelationsInv'
  <1>1. /\ source' = source /\ relation' = relation /\ alone' = alone /\ doubled' = doubled
        /\ tx'[w] = t /\ \A v \in Others(w) : tx'[v] = tx[v]
        BY DEF MovesTo, history, Others, CanonicalInv, CatalogTypeOK
  <1>2. alone => \A v \in Others(w) : tx[v].at = "idle"
        BY DEF RelationsInv, Solo, Others
  <1>3. Solo'
        BY <1>1, <1>2 DEF Solo, Others
  <1>4. alone' => /\ RelationsFit(source', relation', {})
                  /\ ~doubled' => RelationsFull(source', relation', {})
        BY <1>1 DEF RelationsInv
  <1>5. ASSUME alone', NEW v \in Writer, tx'[v].at \in Written
        PROVE  RelationsSound(tx[v], View(v), Relations(v))'
        <2>1. v = w
              BY <1>1, <1>2, <1>5 DEF Others, Written
        <2>2. View(w)' = Overlay(source, t.rows) /\ Relations(w)' = Overlay(relation, t.rels)
              BY <1>1 DEF View, Relations
        <2>3. RelationsSound(t, Overlay(source, t.rows), Overlay(relation, t.rels))
              BY <1>1, <1>5, <2>1
        <2>4. RelationsSound(t, Overlay(source, t.rows), Overlay(relation, t.rels))'
                = RelationsSound(t, Overlay(source, t.rows), Overlay(relation, t.rels))
              BY <1>1 DEF RelationsSound, RelationsFit, RelationsFull
        <2> QED BY <1>1, <2>1, <2>2, <2>3, <2>4
  <1> QED BY <1>3, <1>4, <1>5 DEF RelationsInv

LEMMA QuietRelations ==
  ASSUME CanonicalInv, RelationsInv, NEW w \in Writer,
         LockPath(w) \/ Read(w) \/ LockIdentity(w) \/ Abort(w)
  PROVE  RelationsInv'
  <1>1. /\ source' = source /\ relation' = relation /\ alone' = alone /\ doubled' = doubled
        /\ tx[w].at # "idle"
        BY DEF LockPath, Read, LockIdentity, Abort, history
  <1>2. tx \in [Writer -> UpsertTx]
        BY Typed
  <1>3. /\ tx'[w].at \notin Written /\ \A v \in Others(w) : tx'[v] = tx[v]
        BY <1>2 DEF LockPath, Read, LockIdentity, Abort, Others, UpsertTx, Written, NoUpsert
  <1>4. alone => \A v \in Others(w) : tx[v].at = "idle"
        BY <1>1 DEF RelationsInv, Solo, Others
  <1>5. Solo'
        BY <1>1, <1>3, <1>4 DEF Solo, Others
  <1>6. alone' => \A v \in Writer : tx'[v].at \notin Written
        BY <1>1, <1>3, <1>4 DEF Others, Written
  <1> QED BY <1>1, <1>5, <1>6 DEF RelationsInv

LEMMA BeginRelations ==
  ASSUME CanonicalInv, RelationsInv, NEW w \in Writer, Begin(w)
  PROVE  RelationsInv'
  <1>1. /\ source' = source /\ relation' = relation /\ doubled' = doubled
        /\ alone' = (alone /\ \A v \in Writer : tx[v].at = "idle")
        BY DEF Begin
  <1>2. tx \in [Writer -> UpsertTx]
        BY Typed
  <1>3. /\ tx'[w].at = "path" /\ \A v \in Others(w) : tx'[v] = tx[v]
        BY <1>2 DEF Begin, Others, UpsertTx
  <1>4. Solo'
        BY <1>1, <1>3 DEF Solo, Others
  <1>5. alone' => \A v \in Writer : tx'[v].at \notin Written
        BY <1>1, <1>3 DEF Others, Written
  <1> QED BY <1>1, <1>4, <1>5 DEF RelationsInv

LEMMA UpsertRelations ==
  ASSUME CanonicalInv, RelationsInv, NEW w \in Writer, Upsert(w)
  PROVE  RelationsInv'
  <1>1. PICK t : t = AfterUpsert(tx[w])
        OBVIOUS
  <1>2. /\ MovesTo(w, t) /\ t \in UpsertTx /\ t.rels = tx[w].rels /\ DOMAIN tx[w].rels = {}
        /\ t.at = Onward(t.digests, t.dois)
        BY <1>1, UpsertDoes
  <1>3. tx[w].at # "idle" /\ UNCHANGED history
        BY DEF Upsert
  <1>4. relation \in [Pair -> Doi \cup {Nil}]
        BY DEF CanonicalInv, CatalogTypeOK
  <1>5. Overlay(relation, t.rels) = relation
        BY <1>2, <1>4 DEF Overlay
  <1>6. t.at \in {"sha", "scan", "commit"}
        BY <1>2, OnwardFacts
  <1>7. ASSUME alone PROVE RelationsSound(t, Overlay(source, t.rows), relation)
        <2> DEFINE view == Overlay(source, t.rows)
        <2>1. \A doi \in Doi : doi \notin Pending(t, view) => VersionPairs(source, doi) = VersionPairs(view, doi)
              BY <1>1, UpsertKeepsPairs
        <2>2. RelationsFit(source, relation, {}) /\ (~doubled => RelationsFull(source, relation, {}))
              BY <1>7 DEF RelationsInv
        <2> HIDE DEF view
        <2>3. RelationsFit(view, relation, Pending(t, view))
              BY <1>4, <2>1, <2>2, RelationsCarry
        <2>4. ~doubled => RelationsFull(view, relation, Pending(t, view))
              BY <1>4, <2>1, <2>2, RelationsCarry
        <2>5. RelationsSound(t, view, relation)
              BY <1>6, <2>3, <2>4 DEF RelationsSound
        <2> QED BY <2>5 DEF view
  <1> QED BY <1>2, <1>3, <1>5, <1>7, SoloMove

LEMMA ReconcileRelations ==
  ASSUME CanonicalInv, RelationsInv, NEW w \in Writer, ReconcileSha(w)
  PROVE  RelationsInv'
  <1> DEFINE d == Least(tx[w].digests)
             view == View(w)
             rels == Relations(w)
             new == Pointed(view, d)
             group == Group(view, d)
  <1>1. PICK t : t = AfterReconcile(tx[w], view, d)
        OBVIOUS
  <1>2. /\ d \in tx[w].digests /\ tx[w].at = "sha"
        /\ MovesTo(w, t) /\ t \in UpsertTx
        /\ Overlay(source, t.rows) = new
        /\ t.digests = tx[w].digests \ {d}
        /\ t.dois = tx[w].dois \cup GroupDois(view, group)
        /\ t.at = Onward(t.digests, t.dois) /\ t.rels = tx[w].rels
        BY <1>1, ReconcileDoes
  <1>3. UNCHANGED history
        BY DEF ReconcileSha
  <1>4. /\ tx[w] \in UpsertTx /\ view \in [Source -> Row \cup {Nil}]
        /\ relation \in [Pair -> Doi \cup {Nil}]
        BY Typed DEF CanonicalInv, CatalogTypeOK
  <1>5. d \in Digest /\ tx[w].rels \in RelationsOver
        BY <1>2, <1>4 DEF UpsertTx
  <1>6. rels \in [Pair -> Doi \cup {Nil}] /\ Overlay(relation, t.rels) = rels
        BY <1>2, <1>4, <1>5, RelationsOverFacts DEF Relations, Overlay
  <1>7. t.at \in {"sha", "scan", "commit"}
        BY <1>2, OnwardFacts
  <1>8. ASSUME alone PROVE RelationsSound(t, new, rels)
        <2>1. RelationsSound(tx[w], view, rels)
              BY <1>2, <1>8 DEF RelationsInv, Written
        <2> HIDE DEF view, rels, d
        <2>2. /\ RelationsFit(view, rels, Pending(tx[w], view))
              /\ ~doubled => RelationsFull(view, rels, Pending(tx[w], view))
              BY <1>2, <2>1 DEF RelationsSound
        <2>3. Pending(tx[w], view) \subseteq Pending(t, new)
              <3>1. ASSUME NEW e \in tx[w].digests, NEW x \in GroupDois(view, Group(view, e))
                    PROVE  x \in Pending(t, new)
                    <4>1. CASE e = d
                          BY <1>2, <4>1 DEF Pending
                    <4>2. CASE e # d
                          <5>1. e \in t.digests /\ Group(new, e) = Group(view, e)
                                BY <1>2, <1>4, <1>5, <4>2, PointedKeepsTheRest
                          <5>2. GroupDois(new, Group(new, e)) = GroupDois(view, Group(view, e))
                                <6>1. \A s \in Group(view, e) : new[s].doi = view[s].doi
                                      BY <1>4, <1>5, PointedKeepsTheRest DEF Group
                                <6> HIDE DEF new
                                <6> QED BY <5>1, <6>1 DEF GroupDois
                          <5> HIDE DEF new
                          <5> QED BY <5>1, <5>2 DEF Pending
                    <4> QED BY <4>1, <4>2
              <3>2. tx[w].dois \subseteq Pending(t, new)
                    BY <1>2 DEF Pending
              <3> HIDE DEF new
              <3> QED BY <3>1, <3>2 DEF Pending
        <2>4. GroupDois(view, group) \subseteq Pending(t, new)
              BY <1>2 DEF Pending
        <2>5. \A doi \in Doi : doi \notin Pending(t, new) => VersionPairs(view, doi) = VersionPairs(new, doi)
              BY <1>4, <1>5, <2>4, PointedKeepsPairs
        <2> HIDE DEF new
        <2>6. /\ RelationsFit(new, rels, Pending(t, new))
              /\ ~doubled => RelationsFull(new, rels, Pending(t, new))
              BY <1>6, <2>2, <2>3, <2>5, RelationsCarry
        <2> QED BY <1>7, <2>6 DEF RelationsSound
  <1> QED BY <1>2, <1>3, <1>6, <1>8, SoloMove

(* What the steps of _reconcile_doi start from, if no upsert overlaps.     *)
LEMMA RelationsAtWork ==
  ASSUME CanonicalInv, RelationsInv, alone, NEW w \in Writer, tx[w].at \in AtRelations
  PROVE  LET view == View(w)
             rels == Relations(w)
             doi == Least(tx[w].dois)
         IN /\ RelationsSound(tx[w], view, rels)
            /\ RelationsFit(view, rels, tx[w].dois)
            /\ ~doubled => RelationsFull(view, rels, tx[w].dois) \/ Doubles(view)
            /\ rels \in [Pair -> Doi \cup {Nil}]
            /\ doi \in tx[w].dois /\ doi \in Doi /\ doi # Nil
            /\ Pending(tx[w], view) = tx[w].dois
            /\ \A e : VersionPairs(view, e) \subseteq Pair
  <1>1. RelationsSound(tx[w], View(w), Relations(w))
        BY DEF RelationsInv, AtRelations, Written
  <1>2. /\ tx[w].digests = {} /\ Least(tx[w].dois) \in tx[w].dois /\ tx[w].dois \subseteq Doi
        /\ tx[w].rels \in RelationsOver /\ \A e : VersionPairs(View(w), e) \subseteq Pair
        BY RelationsOfView
  <1>3. Pending(tx[w], View(w)) = tx[w].dois
        BY <1>2 DEF Pending
  <1>4. relation \in [Pair -> Doi \cup {Nil}]
        BY DEF CanonicalInv, CatalogTypeOK
  <1>5. Relations(w) \in [Pair -> Doi \cup {Nil}]
        BY <1>2, <1>4, RelationsOverFacts DEF Relations, Overlay
  <1>6. Least(tx[w].dois) # Nil
        BY <1>2, CatalogAssumption DEF CatalogAssumption
  <1> QED BY <1>1, <1>2, <1>3, <1>5, <1>6 DEF RelationsSound

LEMMA SameRowsSameView ==
  ASSUME NEW w \in Writer, NEW t, SameRows(tx[w], t), tx[w].digests = {}
  PROVE  /\ Overlay(source, t.rows) = View(w) /\ t.digests = {}
         /\ \A view : Pending(t, view) = t.dois
  BY DEF SameRows, View, Pending

LEMMA ScanKeepsRelations ==
  ASSUME CanonicalInv, RelationsInv, NEW w \in Writer, ScanRelations(w)
  PROVE  RelationsInv'
  <1>1. PICK t : t = AfterScan(tx[w], Relations(w))
        OBVIOUS
  <1>2. /\ MovesTo(w, t) /\ SameRows(tx[w], t) /\ t.at = "delete" /\ t.dois = tx[w].dois
        /\ t.rels = tx[w].rels /\ t.pairs = {p \in Pair : Relations(w)[p] = Least(tx[w].dois)}
        BY <1>1, ScanDoes
  <1>3. tx[w].at \in AtRelations /\ tx[w].at # "idle" /\ UNCHANGED history
        BY DEF ScanRelations, AtRelations
  <1>4. tx[w].digests = {}
        BY <1>3, RelationsOfView
  <1>5. /\ Overlay(source, t.rows) = View(w) /\ Overlay(relation, t.rels) = Relations(w)
        /\ t.digests = {} /\ Pending(t, View(w)) = t.dois
        BY <1>2, <1>4, SameRowsSameView DEF Relations
  <1>6. ASSUME alone PROVE RelationsSound(t, View(w), Relations(w))
        <2>1. /\ RelationsFit(View(w), Relations(w), tx[w].dois)
              /\ ~doubled => RelationsFull(View(w), Relations(w), tx[w].dois) \/ Doubles(View(w))
              BY <1>3, <1>6, RelationsAtWork
        <2> QED BY <1>2, <1>5, <2>1 DEF RelationsSound
  <1> QED BY <1>2, <1>3, <1>5, <1>6, SoloMove

LEMMA DeleteKeepsRelations ==
  ASSUME CanonicalInv, RelationsInv, NEW w \in Writer, DeleteRelations(w)
  PROVE  RelationsInv'
  <1> DEFINE view == View(w)
             rels == Relations(w)
             doi == Least(tx[w].dois)
  <1>1. PICK t : t = AfterDelete(tx[w])
        OBVIOUS
  <1>2. /\ MovesTo(w, t) /\ SameRows(tx[w], t) /\ t.at = "select" /\ t.dois = tx[w].dois
        /\ tx[w].at = "delete"
        /\ t.rels = [p \in (DOMAIN tx[w].rels) \cup tx[w].pairs |->
                       IF p \in tx[w].pairs THEN Nil ELSE tx[w].rels[p]]
        BY <1>1, DeleteDoes
  <1>3. tx[w].at \in AtRelations /\ tx[w].at # "idle" /\ UNCHANGED history
        BY <1>2 DEF DeleteRelations, AtRelations
  <1>4. /\ tx[w].digests = {} /\ tx[w].rels \in RelationsOver
        /\ relation \in [Pair -> Doi \cup {Nil}]
        BY <1>3, RelationsOfView DEF CanonicalInv, CatalogTypeOK
  <1>5. Overlay(source, t.rows) = view /\ t.digests = {} /\ Pending(t, view) = t.dois
        BY <1>2, <1>4, SameRowsSameView
  <1> DEFINE now == Overlay(relation, t.rels)
  <1>6. \A p \in Pair : now[p] = IF p \in tx[w].pairs THEN Nil ELSE rels[p]
        BY <1>2, <1>4 DEF Relations, Overlay
  <1>7. ASSUME alone PROVE RelationsSound(t, view, now)
        <2>1. /\ RelationsSound(tx[w], view, rels)
              /\ RelationsFit(view, rels, tx[w].dois)
              /\ ~doubled => RelationsFull(view, rels, tx[w].dois) \/ Doubles(view)
              /\ doi \in tx[w].dois /\ doi # Nil
              /\ \A e : VersionPairs(view, e) \subseteq Pair
              BY <1>3, <1>7, RelationsAtWork
        <2> HIDE DEF view, rels, doi, now
        <2>2. tx[w].pairs = {p \in Pair : rels[p] = doi}
              BY <1>2, <2>1 DEF RelationsSound, doi
        <2>3. RelationsFit(view, now, t.dois)
              BY <1>2, <1>6, <2>1 DEF RelationsFit
        <2>4. RelationsFull(view, rels, tx[w].dois) => RelationsFull(view, now, t.dois)
              <3> SUFFICES ASSUME RelationsFull(view, rels, tx[w].dois),
                                  NEW d \in Doi \ tx[w].dois, NEW p \in VersionPairs(view, d)
                           PROVE  now[p] = d
                    BY <1>2 DEF RelationsFull
              <3>1. rels[p] = d /\ p \in Pair /\ d # doi
                    BY <2>1 DEF RelationsFull
              <3> QED BY <1>6, <2>2, <3>1
        <2>5. \A p \in Pair : now[p] # doi
              BY <1>6, <2>1, <2>2
        <2> QED BY <1>2, <1>5, <2>1, <2>3, <2>4, <2>5 DEF RelationsSound, doi
  <1> QED BY <1>2, <1>3, <1>5, <1>7, SoloMove

LEMMA SelectKeepsRelations ==
  ASSUME CanonicalInv, RelationsInv, NEW w \in Writer, SelectVersions(w)
  PROVE  RelationsInv'
  <1> DEFINE view == View(w)
             rels == Relations(w)
             doi == Least(tx[w].dois)
             pairs == VersionPairs(view, doi)
  <1>1. PICK t : t = AfterSelect(tx[w], pairs)
        OBVIOUS
  <1>2. /\ MovesTo(w, t) /\ SameRows(tx[w], t) /\ tx[w].at = "select" /\ t.rels = tx[w].rels
        /\ pairs = {} => t.at = Onward({}, t.dois) /\ t.dois = tx[w].dois \ {doi}
        /\ pairs # {} => t.at = "insert" /\ t.dois = tx[w].dois /\ t.pairs = pairs
        BY <1>1, SelectDoes
  <1>3. tx[w].at \in AtRelations /\ tx[w].at # "idle" /\ UNCHANGED history
        BY <1>2 DEF SelectVersions, AtRelations
  <1>4. tx[w].digests = {}
        BY <1>3, RelationsOfView
  <1>5. /\ Overlay(source, t.rows) = view /\ Overlay(relation, t.rels) = rels
        /\ t.digests = {} /\ Pending(t, view) = t.dois
        BY <1>2, <1>4, SameRowsSameView DEF Relations
  <1>6. ASSUME alone PROVE RelationsSound(t, view, rels)
        <2>1. /\ RelationsSound(tx[w], view, rels)
              /\ RelationsFit(view, rels, tx[w].dois)
              /\ ~doubled => RelationsFull(view, rels, tx[w].dois) \/ Doubles(view)
              BY <1>3, <1>6, RelationsAtWork
        <2> HIDE DEF view, rels, doi
        <2>2. \A p \in Pair : rels[p] # doi
              BY <1>2, <2>1 DEF RelationsSound, doi
        <2>3. CASE pairs = {}
              <3>1. RelationsFit(view, rels, t.dois)
                    BY <1>2, <2>1, <2>2, <2>3 DEF RelationsFit
              <3>2. RelationsFull(view, rels, tx[w].dois) => RelationsFull(view, rels, t.dois)
                    BY <1>2, <2>3 DEF RelationsFull
              <3>3. t.at \in {"scan", "commit"}
                    BY <1>2, <2>3, OnwardFacts
              <3> QED BY <1>5, <2>1, <3>1, <3>2, <3>3 DEF RelationsSound
        <2>4. CASE pairs # {}
              <3>1. Least(t.dois) = doi /\ t.dois = tx[w].dois /\ t.at = "insert"
                    BY <1>2, <2>4 DEF doi
              <3>2. t.pairs = VersionPairs(view, doi)
                    BY <1>2, <2>4
              <3> QED BY <1>5, <2>1, <2>2, <3>1, <3>2 DEF RelationsSound
        <2> QED BY <2>3, <2>4
  <1> QED BY <1>2, <1>3, <1>5, <1>6, SoloMove

LEMMA InsertKeepsRelations ==
  ASSUME CanonicalInv, RelationsInv, NEW w \in Writer, InsertRelation(w)
  PROVE  RelationsInv'
  <1> DEFINE view == View(w)
             rels == Relations(w)
             doi == Least(tx[w].dois)
             pair == NextPair(tx[w].pairs)
  <1>1. PICK t \in UpsertTx :
          /\ MovesTo(w, t) /\ SameRows(tx[w], t) /\ tx[w].at = "insert"
          /\ pair \in tx[w].pairs /\ t.pairs = tx[w].pairs \ {pair}
          /\ t.rels = [p \in (DOMAIN tx[w].rels) \cup {pair} |->
                         IF p \in {pair} THEN doi ELSE tx[w].rels[p]]
          /\ t.pairs # {} => t.at = "insert" /\ t.dois = tx[w].dois
          /\ t.pairs = {} => t.at = Onward({}, t.dois) /\ t.dois = tx[w].dois \ {doi}
        BY InsertDoes, SMTT(40)
  <1>2. tx[w].at \in AtRelations /\ tx[w].at # "idle" /\ UNCHANGED history
        BY <1>1 DEF InsertRelation, AtRelations
  <1>3. /\ tx[w].digests = {} /\ tx[w].rels \in RelationsOver
        /\ relation \in [Pair -> Doi \cup {Nil}] /\ tx[w].pairs \subseteq Pair
        BY <1>2, RelationsOfView DEF CanonicalInv, CatalogTypeOK
  <1>4. Overlay(source, t.rows) = view /\ t.digests = {} /\ Pending(t, view) = t.dois
        BY <1>1, <1>3, SameRowsSameView
  <1> DEFINE now == Overlay(relation, t.rels)
  <1>5. \A p \in Pair : now[p] = IF p = pair THEN doi ELSE rels[p]
        BY <1>1, <1>3 DEF Relations, Overlay
  <1>6. ASSUME alone PROVE RelationsSound(t, view, now)
        <2>1. /\ RelationsSound(tx[w], view, rels)
              /\ RelationsFit(view, rels, tx[w].dois)
              /\ ~doubled => RelationsFull(view, rels, tx[w].dois) \/ Doubles(view)
              /\ doi \in tx[w].dois /\ doi \in Doi /\ doi # Nil
              /\ \A e : VersionPairs(view, e) \subseteq Pair
              BY <1>2, <1>6, RelationsAtWork
        <2> HIDE DEF view, rels, doi, now, pair
        <2>2. /\ tx[w].pairs \subseteq VersionPairs(view, doi)
              /\ \A p \in Pair : rels[p] = doi => p \in VersionPairs(view, doi)
              /\ \A p \in VersionPairs(view, doi) \ tx[w].pairs : rels[p] = doi
              BY <1>1, <2>1 DEF RelationsSound, doi
        <2>3. /\ t.pairs \subseteq VersionPairs(view, doi)
              /\ \A p \in Pair : now[p] = doi => p \in VersionPairs(view, doi)
              /\ \A p \in VersionPairs(view, doi) \ t.pairs : now[p] = doi
              BY <1>1, <1>5, <2>1, <2>2
        <2>4. pair \in Pair /\ pair \in VersionPairs(view, doi)
              BY <1>1, <1>3, <2>2
        <2>5. tx[w].dois \ {doi} \subseteq t.dois /\ t.dois \subseteq tx[w].dois
              BY <1>1
        <2>6. RelationsFit(view, now, t.dois)
              <3> SUFFICES ASSUME NEW p \in Pair, now[p] # Nil, now[p] \notin t.dois
                           PROVE  p \in VersionPairs(view, now[p])
                    BY DEF RelationsFit
              <3>1. CASE now[p] = doi
                    BY <2>3, <3>1
              <3>2. CASE now[p] # doi
                    <4>1. now[p] = rels[p] /\ rels[p] \notin tx[w].dois
                          BY <1>5, <2>5, <3>2
                    <4> QED BY <2>1, <4>1 DEF RelationsFit
              <3> QED BY <3>1, <3>2
        <2>7. ASSUME ~doubled, ~Doubles(view) PROVE RelationsFull(view, now, t.dois)
              <3>1. RelationsFull(view, rels, tx[w].dois)
                    BY <2>1, <2>7
              <3> SUFFICES ASSUME NEW d \in Doi \ t.dois, NEW p \in VersionPairs(view, d)
                           PROVE  now[p] = d
                    BY DEF RelationsFull
              <3>2. p \in Pair
                    BY <2>1
              <3>3. CASE d = doi
                    <4>1. t.pairs = {}
                          BY <1>1, <2>1, <3>3
                    <4> QED BY <2>3, <3>3, <4>1
              <3>4. CASE d # doi
                    <4>1. rels[p] = d
                          BY <2>5, <3>1, <3>4 DEF RelationsFull
                    <4>2. p # pair
                          BY <2>1, <2>4, <2>7, <3>4 DEF Doubles
                    <4> QED BY <1>5, <3>2, <4>1, <4>2
              <3> QED BY <3>3, <3>4
        <2>8. CASE t.pairs # {}
              <3>1. Least(t.dois) = doi /\ t.at = "insert"
                    BY <1>1, <2>8 DEF doi
              <3> QED BY <1>4, <2>3, <2>6, <2>7, <3>1 DEF RelationsSound
        <2>9. CASE t.pairs = {}
              <3>1. t.at \in {"scan", "commit"}
                    BY <1>1, <2>9, OnwardFacts
              <3> QED BY <1>4, <2>6, <2>7, <3>1 DEF RelationsSound
        <2> QED BY <2>8, <2>9
  <1> QED BY <1>1, <1>2, <1>4, <1>6, SoloMove

LEMMA CommitKeepsRelations ==
  ASSUME CanonicalInv, RelationsInv, NEW w \in Writer, Commit(w)
  PROVE  RelationsInv'
  <1>1. /\ tx[w].at = "commit" /\ source' = View(w) /\ relation' = Relations(w)
        /\ alone' = alone /\ doubled' = (doubled \/ Doubles(View(w)))
        /\ tx'[w].at = "idle"
        /\ \A v \in Others(w) : tx'[v].at = tx[v].at
        BY CommitDoes DEF Commit, LosesPairs, NoUpsert
  <1>2. alone => \A v \in Others(w) : tx[v].at = "idle"
        BY <1>1 DEF RelationsInv, Solo, Others
  <1>3. tx[w].dois = {} /\ tx[w].digests = {}
        BY <1>1, Typed DEF TxSound, Written
  <1>4. Pending(tx[w], View(w)) = {}
        BY <1>3 DEF Pending
  <1>5. ASSUME alone
        PROVE  /\ RelationsFit(source', relation', {})
               /\ ~doubled' => RelationsFull(source', relation', {})
        <2>1. RelationsSound(tx[w], View(w), Relations(w))
              BY <1>1, <1>5 DEF RelationsInv, Written
        <2>2. /\ RelationsFit(View(w), Relations(w), {})
              /\ ~doubled => RelationsFull(View(w), Relations(w), {}) \/ Doubles(View(w))
              BY <1>4, <2>1 DEF RelationsSound
        <2> QED BY <1>1, <2>2
  <1>6. Solo'
        BY <1>1, <1>2 DEF Solo, Others
  <1>7. alone' => \A v \in Writer : tx'[v].at \notin Written
        BY <1>1, <1>2 DEF Others, Written
  <1> QED BY <1>1, <1>5, <1>6, <1>7 DEF RelationsInv

LEMMA CatalogStarts == Init => CatalogInv
  <1> SUFFICES ASSUME Init PROVE RelationsInv
        BY CanonicalStarts DEF CatalogInv
  <1>1. /\ source = [s \in Source |-> Nil] /\ relation = [p \in Pair |-> Nil]
        /\ \A w \in Writer : tx[w].at = "idle"
        BY DEF Init, NoUpsert
  <1>2. \A d : VersionPairs(source, d) = {}
        <2> TAKE d
        <2>1. Versions(source, d) = {}
              BY <1>1 DEF Versions
        <2>2. Cardinality(Versions(source, d)) = 0
              BY <2>1, FS_EmptySet
        <2> QED BY <2>2 DEF VersionPairs
  <1>3. RelationsFit(source, relation, {}) /\ RelationsFull(source, relation, {})
        BY <1>1, <1>2 DEF RelationsFit, RelationsFull
  <1> QED BY <1>1, <1>3 DEF RelationsInv, Solo, Written

LEMMA CatalogStep == CatalogInv /\ [Next]_vars => CatalogInv'
  <1> SUFFICES ASSUME CatalogInv, [Next]_vars PROVE RelationsInv'
        BY CanonicalStep DEF CatalogInv
  <1>1. CanonicalInv /\ RelationsInv
        BY DEF CatalogInv
  <1>2. CASE UNCHANGED vars
        BY <1>1, <1>2 DEF vars, history, RelationsInv, Solo, RelationsSound, RelationsFit,
                          RelationsFull, View, Relations
  <1>3. ASSUME NEW w \in Writer,
               \/ Begin(w) \/ LockPath(w) \/ Read(w) \/ LockIdentity(w) \/ Upsert(w)
               \/ ReconcileSha(w)
               \/ ScanRelations(w) \/ DeleteRelations(w) \/ SelectVersions(w) \/ InsertRelation(w)
               \/ Commit(w) \/ Abort(w)
        PROVE  RelationsInv'
        BY <1>1, <1>3, BeginRelations, QuietRelations, UpsertRelations, ReconcileRelations,
           ScanKeepsRelations, DeleteKeepsRelations, SelectKeepsRelations, InsertKeepsRelations,
           CommitKeepsRelations
  <1> QED BY <1>2, <1>3 DEF Next

(* The catalogue keeps its invariant, whatever upserts overlap or break.   *)
THEOREM CatalogInvariance == Spec => []CatalogInv
  BY CatalogStarts, CatalogStep, PTL DEF Spec

(* PostgresSourceCatalogRepository.upsert: the sources of one digest       *)
(* always point to the richest of them; and if no two upserts overlap, the *)
(* relations are those of the versions.                                    *)
THEOREM CatalogIsAgreed == Spec => []CatalogAgrees
  <1>1. CatalogInv => CatalogAgrees
        <2> SUFFICES ASSUME CatalogInv PROVE CatalogAgrees
              OBVIOUS
        <2>1. CanonicalInv /\ RelationsInv
              BY DEF CatalogInv
        <2>2. CanonicalAgrees
              BY <2>1 DEF CanonicalAgrees, CanonicalInv, Settled, Agrees
        <2>3. RelationsTrue
              BY <2>1 DEF RelationsTrue, RelationsInv, RelationsFit
        <2>4. ASSUME ~doubled PROVE VersionsRelated
              <3> SUFFICES ASSUME alone, NEW doi \in Doi, NEW p \in VersionPairs(source, doi)
                           PROVE  relation[p] # Nil
                    BY DEF VersionsRelated
              <3>1. relation[p] = doi
                    BY <2>1, <2>4 DEF RelationsInv, RelationsFull
              <3> QED BY <3>1, CatalogAssumption DEF CatalogAssumption
        <2> QED BY <2>2, <2>3, <2>4 DEF CatalogAgrees, RelationsAgreeAlone
  <1> QED BY <1>1, CatalogInvariance, PTL
===============================================================================
