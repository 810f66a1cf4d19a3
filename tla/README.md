# A verification project for material-graph-agent

TLA+ modules that model the stateful core of this repository, TLC
configurations that check them on small instances, and TLAPS proofs of the
properties that matter most for every value of the constants. Paths below are
relative to `src/material_graph/knowledge/` unless they say otherwise.

## 1. The system

The repository turns remote publications into a reviewed knowledge graph of
materials. Work arrives as jobs in a PostgreSQL queue. A worker claims a job
under a lease and executes it: metadata and canary stages, ingestion of one
source into evidence fragments and LightRAG, extraction of facts from each
fragment by a language model, or the write of a human-approved batch of facts
into Apache AGE. What survives a crash is in PostgreSQL, and in the
directories of the spool and of the textbook pipeline; several workers run at
the same time; every handler is `async` and can be cancelled at any `await`.
Beside the queue, an operator builds bundles of textbooks offline, embeds them
into an archive, and imports both into the server.

| Part | Code | State it keeps | Operations | Hard behaviour |
|---|---|---|---|---|
| Worker job queue | `postgres_jobs.py`, `jobs.py`, `migrations/knowledge_0003.sql` | `knowledge_worker_jobs`: status, attempt, lease owner, token and expiry, result or error | enqueue, claim (with the sweep of exhausted leases), renew, complete, fail | leases that run out under a live runner, replays of calls whose answer was lost, runners under one worker id |
| Fact reviews, graph-write jobs | `reviewed_graph.py`, `jobs.py`, `migrations/knowledge_0005.sql` | `knowledge_fact_reviews`, outbox job, audit rows | decide, get_approval, load_approved_batch, GraphWriteJobExecutor | approval that expires between check and commit, concurrent decisions, lost commits |
| AGE graph writer | `age_writer.py`, `facts.py` | batch ledger, nodes, edges, advisory locks | write_batch | deadlock, lost updates of aliases, conflicts |
| Fact contracts | `facts.py`, `extraction.py` | the in-memory graph | build a batch, validate, project, merge | identities that fold case, order of batches, a refusal halfway |
| OpenAI fact extractor | `openai_fact_extractor.py` | none that lasts | extract with its retries, decode, trace | what is reported before it is looked at, defects late in an answer, an answer paid for and lost |
| Fact extraction | `extraction.py`, `postgres_pipeline_state.py` | one checkpoint per fragment and generation | extract, load, save | two workers on one attempt, crash before the answer of a paid call, giving up while another asks |
| Canary service | `service.py`, `postgres_pipeline_state.py` | one record per run and stage | run_metadata, run_single_pdf, run_small_batch, register_selection, begin, finish | claims left by crashes, checks made in other transactions than the claim |
| Ingestion | `ingestion.py`, `processing.py`, `postgres.py` | one checkpoint and the evidence fragments per source version and generation | ingest, checkpoint save, persist_many | crash between two stores, two workers on one source, parses that differ |
| Spool, NAS reader, MinerU client | `spool.py`, `policy.py`, `connectors/synology.py`, `mineru_client.py` | the quota in memory, directories on disk | materialize, sweep, stat, open_stream, parse | files replaced under a download, capacity sampled too early, directories that outlive their call |
| Evidence retention | `retention.py`, `production_support.py` | none | normalise, assess, retain | a limit, a ranking and repetitions in one loop |
| LightRAG client | `lightrag_client.py`, `postgres.py` | source mappings; documents at the service | insert, poll a track | 409, retries, unknown outcomes |
| Provider coordination | `../providers/coordination.py` | quota window, slots, circuit breaker, leases | acquire, release, record outcome, snapshot | half-open probe, expired leases, reserve for interactive work |
| Pools, admission, limiter | `concurrency.py` | in-memory counters and conditions | acquire, release, report, decide | starvation, lost wake-ups, limits |
| Metadata manifest | `manifest.py`, `postgres_manifest.py` | a cursor per manifest | ingest (stat, stream, upsert, save), cursor load and save | crash between upsert and cursor, two workers on one stream, a manifest that is replaced |
| Source catalogue, selection | `catalog.py`, `selection.py`, `postgres.py` | sources and their relations | upsert with reconciliation of duplicates and versions, select | overlapping upserts, locks that cover only part of what is reconciled, deadlock |
| Textbook archive | `textbook_custom_kg.py`, `textbook_embedding_bundle.py` | bundle, state file, SQLite index, binary of vectors, manifest, for two workspaces | build, resume, fail over | torn writes, two stores without a common commit, generations that must not mix |
| Textbook admission | `textbook_server_admission.py` | a published directory | validate, copy, verify, rename | inputs rewritten while they are copied |
| Textbook imports | `textbook_precomputed_lightrag.py`, `textbook_deployment_import.py` | state file; rows in LightRAG; sources, checkpoints, evidence, mappings in PostgreSQL | import, repair, count, load | colliding ids, an import that is killed and resumed, two imports of one bundle |
| Textbook corpus and chunks | the other `textbook_*.py` | files | build | none that lasts |
| Contracts, policies, runtime probes, CLI, layout index, scripts | the rest | none | validation and wiring | none |

How they interact. `KnowledgeJobExecutor` runs the canary service, the
ingestion pipeline and fact extraction, one after the other, inside one job of
the queue; `GraphWriteJobExecutor` runs review lookup, approval check and graph
writer inside a job that `decide` enqueued in the transaction of the decision.
They share no memory across processes: each talks to PostgreSQL in short
transactions and to a service in between, so every pair of transactions can
have another worker's transactions between them. The queue's lease is the only
thing that keeps two workers off one job, and it can run out. Each pipeline must
therefore be correct with two workers inside, and that is how each is modelled.
Inside the ingestion of one source, the spool, the reader and the MinerU client
share a disk and an in-memory quota with the other calls of the process. The
textbook pipeline hands files from one program to the next: the builder's are
read by the admission, the admission's by the two imports.

What makes each part correct is in section 4; the hazards behind those
properties are listed, line by line, in `PROJECT.json`.

## 2. Modules

| Module | Models | Depends on |
|---|---|---|
| `JobService` | what the queue promises: a job is submitted, delivered a bounded number of times, resolved once | |
| `KnowledgeJobs` (`Props`, `Proofs`) | `PostgresKnowledgeJobRepository` and the runners that use it | refines `JobService` |
| `GraphWrites` (`Props`, `Proofs`) | reviews, outbox, audit and `GraphWriteJobExecutor` | extends `KnowledgeJobs`: each action is an action of the queue with what it adds |
| `MergedGraph` | what the graph promises: it grows by whole batches, merged | |
| `AgeWriter` | `write_batch` as concurrent transactions with advisory locks | refines `MergedGraph` |
| `FactTask` | what extraction promises: attempts grow, one verdict, only that one is told | |
| `FactExtraction` (`Proofs`) | `extract` over the checkpoint repository | refines `FactTask` |
| `OpenAIFactExtractor` | the extractor behind it: attempts, reports, decoding | |
| `FactGraph` | batches of its outputs: validation, projection, merge | extends `OpenAIFactExtractor` |
| `CanaryRuns` (`Proofs`) | the staged canary service over its run repository | |
| `Ingestion` | `ingest` over checkpoint, evidence and LightRAG | |
| `EvidenceRetention` | from a content list to the evidence kept of it, as functions | |
| `SourceBody` | a body on its way from the NAS through the spool and the parser to evidence | extends `EvidenceRetention` |
| `ProviderCoordination` (`Proofs`) | both coordinators over their PostgreSQL stores | |
| `SourceCatalog` | `upsert` of the catalogue as concurrent transactions | |
| `MetadataCursor` | `MetadataManifestIngestor.ingest` over its cursor repository | |
| `EmbeddingArchive` | the resumable archive of vectors and its failover | |
| `ServerAdmission` | the admission that copies the builder's files | extends `EmbeddingArchive` |
| `PrecomputedImport` | the import of a bundle into LightRAG | |
| `DeploymentImport` | the load of its provenance into PostgreSQL | extends `PrecomputedImport` |

Where `(Proofs)` stands, the theorems are in a module of that name. Three proof
modules serve several components: `GraphContentProofs` what ends up in the
graph (`FactGraph`, `AgeWriter`), `SourceProofs` the way of the sources
(`Ingestion`, `MetadataCursor`, `SourceBody` with `EvidenceRetention`,
`SourceCatalog`), `TextbookProofs`
the textbooks (`EmbeddingArchive`, `ServerAdmission`, `PrecomputedImport`,
`DeploymentImport`).

`MC...` modules give constants their values for TLC. `MCSources` holds two
components that never touch each other's state, `SourceCatalog` and
`SourceBody`, and `MCCanaryRuns` another two, `CanaryRuns` and `Ingestion`: the
variable `part` says which of the two a behaviour is of. `MCCatalogVersions` is
`SourceCatalog` with a single writer, for the disagreement of section 6.

### Correspondence

* **KnowledgeJobs.** `job[j]` is the row, with the lease expiry as the time left
  (`left`, counted down by `Tick`); `lease[r]` is the runner's copy of what
  `claim` returned, with a countdown of its own, and the call the runner is
  about to make. `Claim` does what `_CLAIM_JOB` does in one statement: fail the
  exhausted, lease one claimable row. `Complete` and `Fail` contain the fenced
  update and, when it matches nothing, the replay check that acknowledges a
  settlement of the same lease. `AnsweredOrLost` keeps or drops the answer, in
  which case the runner repeats the call. `settled` and `told` are histories.
* **GraphWrites.** A batch and its job are one element. `Decide` is the decision
  with the outbox insert; `LoadApprovedBatch`, `RequireApproval` and
  `WriteBatch` are the three transactions of the executor. A runner keeps
  executing when its lease has run out, as the code does.
* **AgeWriter.** `tx[w]` is a call of `write_batch`: `TakeLock` in lock order,
  `ReadLedger`, `ReadItems`, `Commit` (mirror, AGE graph, ledger in one
  transaction), `Abort`. Nodes and edges are items with a core and aliases.
* **FactExtraction.** `checkpoint` is the row of one key; `call[w]` is a call of
  `extract`: where it is, what it has last read or written, what it is about to
  save. `Accepted` is `_valid_transition` under the identity check. `Limit[w]` is
  the policy of that worker.
* **OpenAIFactExtractor.** `call[c]` is a call of `extract`: `Credential`, `Admit`
  (the slot), `Post` (`_send_once`), `Report` and `Release` (both may fail, and
  then their error takes the place of the reply), `Decide`, `Wake`, `Trace`. A
  body is a record of what `_decode_success` looks at; a text is a sequence of
  tokens, and `Parsed` says which texts are an object.
* **FactGraph.** An identity is a tuple of what its digest is computed from.
  `Valid` are the validators, `Projected` says that `project_fact_batch` does not
  raise, `Write` is the merge. `batches` says which output of a fragment is in the
  graph. An observation and a relation are facts with a kind.
* **CanaryRuns.** `record[s]` is the row of a stage; `call[c]` goes through
  `CachedSuccess`, `Begin`, `Check`, `Work` and `Finish`, each a transaction or a
  stretch of code of its own.
* **Ingestion.** `checkpoint` and `evidence` are the tables, `accepted` what
  LightRAG has taken; `ingest[w]` is a call of `ingest`. A save that gets through is
  one of `SaveWaiting`, `SaveRunning`, `SaveSucceeded`; one refused as a
  regression is `SaveRefused`; one whose answer is lost is `SaveLost`. `Fails` is
  the classification of an error with `_record_failure` behind it.
* **SourceBody.** `remote` is the NAS, where a version stands for an mtime and a
  file may be replaced at any moment; `disk` the directories of the spool, with
  what each holds of a body and of the parser's archive; `reserved` the in-memory quota; `call[c]` the
  stretch of `ingest` from `stat` to the end of the spool's context manager. A
  chunk that streams in is of any version the file has had since the response
  began. `Leaves` is the way out of the context, whatever the reason, and `CleanUp`
  and `Release` are its `finally`. `Fetch` makes a directory anew that a sweep has
  removed, as `mkdir(parents=True)` does; `ArchiveChunk` writes to the archive, up
  to `max_archive_bytes`, or begins its download again, and `ReadArchive` reads and
  unlinks it. An archive counts in each sample of the capacity, but is in no quota.
* **EvidenceRetention.** `Normalized`, `Assessed` and `Retained` are the three loops,
  as functions and folds over rows and blocks. `Stacks` is the list `sections` after
  each row and `Path` the headings joined in `section`; `Ranked` is `sorted` by
  confidence, then index, and `Kept` a turn of the loop of `retain`. `ContentRow` is
  what is read of a row; a heading may be of any level. `Best` and `StandsUnder` say
  of the whole list what the loops should come to.
* **ProviderCoordination.** `circuit`, `quota` and `bulk` are the columns of the
  one row of `provider_runtime_state`, `claims` the leases. `call[c]` goes through
  `Ask` and `Grant` or `Refuse` (one `try_acquire`), `Replied` (`_send_once`),
  `Record` and `Release`. A transaction that waits for the row works with the
  `now()` of its beginning, `began[c]`, so `Grant`, `Refuse` and `Record` take
  effect at an earlier time than they happen. Leases whose caller died, or never
  heard of them, stay in `claims` until they expire.
* **SourceCatalog.** `tx[w]` is a call of `upsert`, one action per statement:
  `LockPath`, `Read`, `LockIdentity`, `Upsert`, `ReconcileSha` for each digest, and
  for each DOI `ScanRelations` and `DeleteRelations` (one `DELETE`: what it sees,
  and what it finds unchanged when it gets there), `SelectVersions` and
  `InsertRelation`; then `Commit` or `Abort`. A statement sees what was committed
  when it began and the transaction's own writes, which are `rows` and `rels`.
* **MetadataCursor.** `reading[w]` is a call of `ingest`: the version of its stat,
  the version its bytes come from and its cursor. The stat, the second stat of
  `open_stream` (`LookAgain`, only when the first told a time) and the download
  (`OpenDownload`, `Answered`) are steps of their own, and `Publish` may come between
  any two of them and while the file is streamed (`Served`). `nas` is what the share
  tells of a file, its size, its time, both or neither; `Key` is the hash of that.
  `NextLine` reads a line and `UpsertRecord` and `Save` are the two transactions
  behind it. A line is a logical record, offsets count lines and lines are equally
  long; a line torn between two files counts as one of either. `Finish` is the return
  of the result; a refused cursor save (`Refuse`) ends the call.
* **EmbeddingArchive.** `archive[w]` is the directory of a workspace: `ident` the
  state file, `index` and `items` the two tables of the SQLite file, `binary` the
  vectors, `manifest` what was written at the end, with the digests standing for
  what they are digests of. `build` is the one builder: `Read` looks a batch up,
  `Embed` calls the provider, `Write` and `Commit` are the two stores of
  `_flush_batch`, between and within which `Crash` may come. `FailOver` moves to a
  candidate with a workspace of its own. A vector is the text it embeds and the
  model it is of.
* **ServerAdmission.** `admission` goes through the manifests, the artifacts, the
  copies and their verification, each reading the builder's files as they are at
  that moment. The manifest of the bundle is read twice, once parsed (`bundle`) and
  once for its digest (`digest`): the records, the counts and the model are those of
  the first reading, the archive is compared with the second. `published` is what
  the rename makes visible: the manifest written, the artifacts, the lineage, which
  is the digest read, and the archive.
* **PrecomputedImport.** `progress` is the state file, `store` what LightRAG holds:
  `nodes` (chunks and entities) and `vdb`, the rows of relationships by id.
  `Canon` and `Back` say which relationship a hash is shared with and whose row the
  reversed delete hits, `Clean` which texts are one once cleaned. A batch in which a
  row names a chunk that is not there is refused before any of it is in
  (`Sourced`), one in which a text has no vector may leave some of its rows
  (`WithVector`). `RepairedVdb` is the repair at the end, `Counted` the count.
  Two assumptions tie the constants of a bundle to the modules that make it: a pair
  has one row (`OneRowAPair`, from the accumulators of `textbook_graph_bundle.py`),
  and the archive of a bundle has vectors of the texts of its rows only
  (`ArchiveOfBundle`, which is theorem `NoOtherVectors` of the archive; the import
  checks that archive and bundle carry the same digest).
* **DeploymentImport.** `db` are the four tables, `load` what is left to write, in
  the order of the code; `loaded` the bundles whose load has returned.

Operators whose names end in `_Something` are faulty variants of the operator
below them. No action uses them. They show that each property can fail: with the
variant in the operator's place TLC finds the property violated.

## 3. Abstractions and bounds

Payloads, digests, names and texts are members of small sets; two values are
equal in the model when the code compares them as equal. JSON validation,
redaction and size limits are left out: they refuse a value before any state is
touched. Time is a countdown in the queue and the reviews; in
`ProviderCoordination` every stored time is relative to the present, and `Tick`
moves it one unit back; elsewhere there is no notion of time: a delay may always
be over, and a directory may always be old enough for a sweep. A database
transaction is one step, except in `AgeWriter` and `SourceCatalog`, which are
about what happens inside. A crash is possible wherever a call is under way; a
write can be committed with its answer lost.

| Run | Instance | Why it is enough |
|---|---|---|
| `queue` | 2 jobs, 2 runners with one worker id, 2 attempts, lease of 1 tick | a stale runner and a current one; a claim sweeps one job and leases the other; a first and a last attempt |
| `graph_writes` | 2 clashing batches, 2 runners, 2 attempts, approval of 2 ticks | each batch may come first, approvals expire between any two steps |
| `age_writer` | 2 writers; 4 batches that share entities, differ in aliases, conflict in a core, or have one key | every pair of batches meets; a cycle of waiting needs two writers and two entities |
| `fact_extraction` | 2 workers, 2 contents, 2 batches, 3 attempts, one supplied checkpoint | an overtaken worker and its rival; 3 is the default policy |
| `fact_contracts` | 1 caller, 3 fragments, 2 attempts, both bindings, 13 bodies: whole answers and one of each defect; outputs that differ in case, aliases, declarations and quality | calls share nothing but the graph, where a write is one step; a first and a last attempt; three batches in any order |
| `canary_runs`, canary | 2 callers, 2 requests, 3 stages, 2 attempts | every pair of calls; the attempt limit is reached |
| `canary_runs`, ingestion | 2 workers, parses that retain none, one or both of 2 fragments, 2 retries | any two parses may differ |
| `provider_budget` | a bulk and an interactive caller, 4 lease tokens, 3 slots with 1 reserved, 2 requests and tokens a minute with 1 reserved, circuit threshold 2, transactions that wait up to 1 tick | with the leaked leases of dead calls every slot can be taken; each boundary is crossed from both sides |
| `sources`, catalogue | 2 writers, 3 sources, 2 digests, 2 DOIs; 7 records that share, change or clear them | duplicates with different DOIs and versions with different digests; each may become the richest |
| `catalog_versions` | 1 writer, 5 records of 3 digests and 2 DOIs | two DOIs relate one pair, and a third digest takes one of them over |
| `sources`, bodies | 2 calls for 1 file of 3 versions (one of the same size, one larger), quota of 3 chunks and 2 objects, archives of 1 chunk, 3 reservations; 4 documents | one call writes while another is admitted; each limit is met and missed by one; headings that skip levels, repetitions, ties and unreadable documents |
| `metadata_cursor` | 2 workers, one steady; 2 versions in each format, of one size and of two, blank and unusable lines among them; a share that tells size and time, either or neither | any two workers are at any two lines; a replaced manifest meets each await |
| `textbook_bundle` | 2 corpora of 4 rows over 2 texts, as many of each kind in both, one with a row repeated; batches of 2; 2 attempts; a primary and 2 candidates | batches that hold new and known texts; a torn tail of any length; each corpus may come first, and either of the two under any model; a manifest of one corpus may be parsed and that of the other digested. No corpus lacks a kind and the counts never differ: what is refused for that is left to the proof |
| `server_import` | 5 bundles: one of 4 relationships, of which two share an id, a third has the reversed id of one of them and the fourth meets nobody; one with a relationship of the same id; one whose texts clean to one; one with a text that is another's once cleaned and one that has no vector; one whose entity has no chunk. Batches of 2; all three kinds of storage | both kinds of collision are in one bundle, across its batches, and meet a kill before and after each |

`MaxRetry` in `Ingestion` and `MaxMade` in `SourceBody` bound what is explored;
`MaxAttempts` in the others is the program's own; `CanaryRuns` takes 2 for the
program's 2147483647. `MaxLag` in `ProviderCoordination` is the longest that a
transaction waits for the row; the proofs hold for each. Lease tokens are taken
again when no lease has them: the code counts up, but compares tokens for equality
only. `consecutive_failures` stops at the threshold, beyond which no comparison
can tell.

## 4. What the runs check

**Queue.** `LeasesHold`: two runners never both hold a live lease by their own
countdown, and one that does is not refused. `AnswersHold`: "done" is said exactly
of what was committed under that lease, and nothing replaces an acknowledged
outcome. `ImplementsJobService` and `EventuallyResolved` (under `FairSpec`).

**Reviewed graph writes.** `ReviewGate`: what is in the graph was approved and
agrees with the rest. `WritesTruthful`: a batch is written by one execution, a
success means that the batch is there, a refusal that it is not. `AuditExact`:
the trail tells who was given the job when and how each lease ended; jobs that
the sweep of a claim fails leave no row, as the code has it.

**Graph writer.** `ImplementsMergedGraph`: each commit is one whole batch merged
into what was there, so no aliases are lost. `AnswersFinal`: a reported conflict
does not go away. `EveryWriteEnds`: no deadlock, under fair locks.

**Fact extraction.** `Charged`: the provider is asked only under an attempt that
is already durable. `ConflictMeansDivergence`: a save is refused only if somebody
else moved the checkpoint. `ImplementsFactTask`: one verdict, and nobody is told
another. `EventuallyDecided`.

**Extractor and contracts.** `PaidOnce`: within a call the provider is paid for an
answer again only if the coordinator failed behind the one before. `OnlyWhole`:
what is handed over is the one text of a whole answer, with nothing refused
anywhere in it. `Projectable`: what the validators accept can be laid out as a
graph. `GraphIsMerged`: the graph is a function of the set of accepted batches.
`ConflictOnlyByCase`: the only conflict a fragment's first batch can meet is the
spelling of a name. `EveryCallEnds`.

**Canary runs.** `ClaimsStand`: one call at work per stage, holding the stored
attempt, and a returned result is what is stored until a later attempt.
`StagesInOrder`: no stage works or succeeds before its prerequisite has succeeded.

**Ingestion.** `EvidenceIndexed`: what LightRAG took and what a checkpoint counts
is durable, and no order of crashes and rivals skips the index. `OutcomesStand`:
the outcome a caller was told stays.

**Bodies of sources.** `SpoolBounded`: the quota holds exactly what the calls in
progress hold, within the policy, and what is on disk stays within what was
reserved. Derived data passes its target, since the capacity is sampled before
other reservations are written and the archives of the parser are reserved for by
nobody: it stays within one object below the target plus the whole quota plus one
archive for each reservation, which it reaches (one chunk less, and TLC finds the
bound broken). Directories that a sweep does not recognise can fill it to the
target, and then no source begins any more: `Stuffed` in `MCSources` is that end,
so that the run still looks for any other deadlock.
`BodyOfTheVersion`: what is parsed is the version that was looked at, unless it was
replaced during the download itself or has no modified_at. `BestEvidence`: what is
kept of a document is the best of it, under the headings it stands under.

**Provider coordination.** `SlotsBounded`: live leases stay within `total_slots`,
those of bulk work out of the reserved ones, whatever expired or leaked.
`CircuitTruthful`: state, failures and end of the circuit agree and at most one
half-open probe is on record, whatever outcomes come late; a circuit that is not
closed is closed by a probe's success and by nothing else (a late failure of a
lease from before it opened does open it again, `_record_failure_state`, and a
probe that outlives that reopening closes it). `InteractiveServed`:
while the circuit is closed, an interactive caller is admitted as long as
interactive callers have not used up their own reservation.

**Source catalogue.** `CatalogAgrees`: whatever overlaps, the sources of one
digest point to the richest of them, which points to none; and after any upserts
that do not overlap, the stored relations are those that the in-memory catalogue
would compute. With overlap they are not (section 6).

**Metadata.** `NothingSkipped`: what lies before the cursor is in the catalogue and
was counted once, and a manifest reported as ingested is there entirely. That is
said of the versions the code can tell apart and look after: it is not said of two
files alike in all that the share tells of them (with only a size, two of one
size), nor of a version when the file was replaced after the last look of a call
that reads it (during the download; without a time, from the stat on), since what
was read then is stored under a key that is not its own. A replacement between stat
and second look is noticed, and the mutant without that look is caught.
`EventuallyIngested`: a well-formed manifest that stays as it is gets into the
catalogue, whatever the other worker does. A cursor of a replaced manifest refuses every later
version (`metadata.cursor.version_mismatch`, not retryable); that is the code's
design, and the property is only about the version the cursor is at.

**Textbook archive and admission.** `IndexTrue`: after any crashes within a write,
resumptions and failovers, the vector the index names for a text is the embedding
of that text by the archive's one model. `ManifestStands`: a finished archive is
not disturbed by a later run for the same or another corpus. `PublishedWhole`:
though the builder rewrites the files meanwhile, the published artifacts are those
the published manifest describes, and the archive holds every row of the corpus in
the lineage with its vector under the expected model. That these are one corpus
the code takes from its inputs being immutable: nothing compares the two readings
of the manifest, and two corpora are told apart by their counts alone (section 6).

**Textbook imports.** `OwnVectors`: no row is stored with another row's vector,
but for one whose text is another row's after one cleaning and is not clean yet
(section 6; the fourth bundle has one).
`CompletedWhole`: an import recorded as completed has each row once, whatever was
killed and whatever was in the store. `Repairable`: no collision of ids keeps the
repair from finding every relationship. `ProvenanceStands`: no row of the database
is without those it refers to, and once both imports have completed each row in
LightRAG leads to its fragment, its checkpoint and its source.

Each stateful module states its types (`TypeOK`, or the name it has there). They
are proved where section 5 says so, and are not repeated among the properties of
the runs.

### Fairness

Only liveness needs it. Queue: runners that are alive go on, the clock ticks, and
some runner keeps polling, as the worker loop does (weak fairness); of the calls
that are repeated, one is answered in the end (strong fairness). Graph writer: a
transaction that can go on does (weak), and PostgreSQL grants a lock that comes
free again and again to each waiter (strong): its lock queue is first come first
served. Fact extraction: the job comes again while the fragment is not decided,
the provider answers because its client has a timeout, and of the loads and saves
tried again and again one gets through. Extractor: each step of a call is taken in
the end (weak), since client, coordinator and sink have timeouts; nothing is
assumed of what they answer. Metadata: as for fact extraction, for one worker that
comes back after each failure; the other may stop anywhere. No fairness says that
a crash does not happen.

## 5. Proofs

`KnowledgeJobsProofs`, `GraphWritesProofs`, `GraphContentProofs`,
`FactExtractionProofs`, `CanaryRunsProofs`, `ProviderCoordinationProofs`,
`SourceProofs` and `TextbookProofs` prove, for all values of the constants that
satisfy the modules' assumptions (`...Assumption`, which TLC evaluates in the runs),
the theorems listed in `PROJECT.json`. The argument is the same in each: an
inductive invariant, one step per action, and a QED by PTL. Every invariant that a
passing run checks is stated by one of them.

* **Queue.** `IInv` adds to the checked properties that the time left in a runner's
  copy is bounded by the time left in the row under the same token
  (`LeaseSound`), that tokens are unique among the holders, that each
  settlement still shows in the row until a later claim (`SettledStands`), and
  that a settlement was made once, by the holder of its token. `LeasesHold`
  is not inductive alone: a fresh claim needs to know that every older copy has
  run out. `ImplementsJobService` follows because each action moves each row in
  one of three ways (`RowMoves`). `TypesHold` includes the CHECK constraints of
  the table.
* **Graph writes.** Every action is a step of the queue (`QueueRefinement`), so
  the queue's theorems hold; `GInv` adds that a runner about to write has an
  approved batch. `HInv` adds what `WritesTruthful` and `AuditExact` need
  (`GraphHistories`): a call that a runner still repeats, its answer lost, says of
  the graph what is so (`HeldTrue`), and since the graph only grows it is so
  whenever the call is settled at last (`SettledTrue`). The trail is exact because
  only a claim raises the token and writes `claimed`, and only a settlement that
  was committed writes one of the other events; a replay that is acknowledged
  writes neither. Every kind of step of the queue is shown to be one of the two or
  neither (`Quiet`).
* **Graph writer.** Between its reads and its commit a transaction holds its
  locks, so what it read is still there (`Fresh`, `Ready`). `AnswersFinal` then
  needs that what refuted a batch, or the record of it, is never taken from the
  graph again: a merge keeps every core, and two items of one identity and
  different cores conflict for good.
* **Fact extraction.** What was told is the stored verdict (`ToldStands`), because
  no save replaces a verdict. `ConflictMeansDivergence` needs that all workers
  have one policy (`UniformPolicy`): `_valid_transition` lets a stored `retry_wait`
  move only to `running` with one attempt more, so a worker whose `max_attempts` is
  below the stored attempts cannot even give up.
* **Extractor and contracts.** `PaidOnce` needs that a reply in hand was counted as
  paid and not yet as lost (`CallsOK`). `OnlyWhole` rests on a lemma about the
  decoder alone: a text is returned only if no item before or after it offends
  (`DecodedWhole`; the first offence is a least index, whose existence is the
  well-foundedness of the naturals). `Projectable` is a lemma about the validators
  (`ValidProjects`), since ids of different kinds of node never coincide.
  `GraphIsMerged` is inductive with the write's own case split (`WriteGathers`), and
  `ConflictOnlyByCase` follows from it: a node that conflicts came from a batch.
* **Canary runs.** A stored success is recorded for ever (`Noted`), and a call at
  work has the prerequisite in that record (`Ordered`).
* **Provider coordination.** An admission counts leases at the earlier time its
  transaction began; a lease that is good now was good then, so it counts no fewer
  (`Shrinks` does the rest). `CircuitTruthful` is an invariant and an action
  property; its invariant half needs that each token has one holder (`Owned`) and
  that a probe which has not reported finds the circuit not closed (`Deciding`),
  and the other half goes by the steps that write the circuit (`StepDecides`). `InteractiveServed` needs an account of who used the quota:
  what is used of a window beyond the grants to interactive callers is within the
  part that bulk callers may use (`ReserveKept`), in requests and in tokens, and a
  new window starts both accounts afresh.
* **Ingestion.** `EvidenceIndexed` speaks of the stored checkpoint, but any
  checkpoint that a call has in hand may be stored later, after whatever the other
  calls did. So `Sound` is shown of all of them: evidence and accepted insertions
  only grow, and a checkpoint counts no more than what is durable. That an indexed
  checkpoint has its fragments accepted rests on what a call knows at each stage
  (`CallSound`). `OutcomesStand` is preserved because no save that `Acceptable`
  lets through leaves a terminal job.
* **Metadata cursor.** `Truthful` says of a cursor that all the records of a version
  it has passed are in the catalogue and that it counts them; it is shown, of the
  `Known` versions, for the stored cursor and for those in hand as long as their
  bytes are of the version looked at, except for the record between its upsert and
  its save (`ReadingTrue`). Since upserts only add, it does not matter which of two
  readings stores its cursor last. That no other version is read unnoticed rests on
  one fact: a call past its last look that was not overtaken has before it the
  version it looked at.
* **Bodies of sources.** `BodyOfTheVersion` follows from what each call knows at
  each stage (`KnowsItsFile`): the file it looked at, the version it asked for and
  the body it has so far belong together. For `SpoolBounded` each call has its own
  part of the quota and its own object (`HoldsItsOwn`, `Accounted`), and
  `WillBeBounded` counts each object at what it may still grow to (`MayGrowTo`: what
  was promised and one archive while its call is in progress) instead of what it
  is: an admission that sampled the disk before other reservations were written is
  covered by their part of the quota. Every step but an admission leaves that sum
  alone or lowers it; an admission sets it back to what is on disk and the promises
  of at most `max_active_objects` calls (`TotalAndEach`). `SpoolBounded`
  alone is not inductive, since a write raises what is on disk without asking.
  Sums over calls and objects are sets of numbers under `MapThenSumSet`; that they
  exist, and what adding, removing or comparing their parts does to them, is proved
  by taking a least counterexample among the subsets of a finite set
  (`LeastSubset`: strict inclusion is well-founded on them).
* **Evidence.** `BestEvidence` is about loops, and the only step of the
  specification it needs is that a call which is to keep evidence has a document
  (`DocumentInHand`). The rest is shown of any sequence of rows, of any length and
  with levels skipped at will. A fold is a recursion over sets of places:
  `FoldExists` shows that there is such a function and `FoldGoesOn` that it takes
  one place after the other, which stands in for the induction that the prover has
  not. Of the headings, `Stacked` says after each row that the stack holds, at their
  levels, the headings the row is under and nothing else; `Path` leaves out
  the gaps and nothing else (`PathNames`), so the n-th of a section is the n-th heading
  (`LevelsCount`). Of the blocks, `Before` is a strict total order of the finitely
  many assessments (`RankingOrders`), each of which has a place of its own, the
  number of those before it (`AheadGrows`, `EveryPlaceIsTaken`). Then `KeptSoFar`
  says, after so many of the ranking, that those are kept which are the first of
  their text and have fewer than `MaxFragments` such before them. A text that is
  passed over for being kept already, or for want of room, is so because a better
  block is there (`TextHasItsFirst`); one that is refused takes nobody's place.
* **Source catalogue.** A transaction reads and writes the rows of a digest under
  its lock, so what it would see (the table with its own rows laid over it) is
  `Settled` but for the digests it has yet to reconcile, and stays so when another
  commits: a row that is written had, and gets, a digest that its writer has locked
  (`OthersStand`). That a source that is not found under its path lock is not being
  added by anybody else (`NobodyElseAddsIt`) is needed for the row read to be still
  the row. `ChooseCanonical` is well defined: preference is a total order
  (`PreferredIsAnOrder`), and a finite set has a first element
  (`CanonicalIsOneOfThem`, by `LeastSubset` again). For `RelationsAgreeAlone`,
  `RelationsInv` says of the transaction at work that the relations of all DOIs are
  those of the versions it sees but for the DOIs that it still has to do, now or
  after one of its digests (`Pending`): no other DOI changes its versions when a row
  is written or a digest pointed anew (`UpsertKeepsPairs`, `PointedKeepsPairs`). An
  INSERT may take a pair from another DOI only if both relate it, which `doubled`
  records.
* **Embedding archive.** The binary may hold more vectors than the index knows of,
  never fewer, and each index is below the count (`ArchiveOK`): so a torn tail is
  harmless and cutting at the count removes nothing that is named. While the
  builder reads, the binary ends exactly at the count; between its two stores, the
  vectors behind the count are those of the missing texts in their order
  (`BuildOK`), so the places a commit gives out are theirs. `IndexTrue` alone is
  not inductive: nothing in it says where the next vector goes. `ManifestStands`
  adds `SInv`: the items of an archive are rows of the corpus it is bound to and
  have a vector (`Entered`), the builder adds to an archive only while it has no
  manifest, and by the time it writes one it has passed every row (`Passed`).
* **Admission.** The composition keeps the archive's invariants, since an
  admission writes nothing the builder reads. It holds copies made at different
  times; what makes the set whole is that each was compared with the digests of the
  manifests parsed first, so the invariant (`AdmissionInv`) says of each copy that
  has been verified that it is what those name, and of the manifest of the archive
  that it is whole for the digest read (from `SInv`, at the moment it is parsed).
  Bundle and archive are compared by their counts (`Alike`), and no closer.
* **Import into LightRAG.** `Landed` says what is left of a row once the import has
  passed it: its chunk is in the bundle; a chunk or an entity is stored; of a
  relationship nothing is claimed if a collision affects it (`Affected`), and
  otherwise it is under its canonical id. `Reached(b, p, n)` says so of every row
  before row n of phase p. `ImportInv` has it of the place in the state file and of
  the importer's, and of the whole bundle (`AllReached`) from the repair on. The
  steps rest on three lemmas. An id that no collision endangers is neither deleted
  nor overwritten by a batch of its bundle (`UnaffectedKept`); hence landed rows
  stay landed whatever part of a batch goes in (`LandedKeeps`). After the repair
  every relationship has a place of its own (`RepairPlaces`, `PlacesDiffer`), of
  which there are as many as relationships (`PlacesCount`); so a count that agrees
  leaves no other row (`CountedWhole`), whatever was in the store before, and
  without rows of another bundle it does agree (`OwnIdsRepaired`). Between them
  they are `CompletedWhole` and `Repairable`. `OwnVectors` rests on `LookupOwn`:
  a cleaned text that has a vector is the raw text of a row. If that row is changed
  by cleaning, the text was `Unsettled`; if not, both clean to the same text, and
  `Accepted` has refused the bundle unless they are one text. Nothing is assumed of
  the sanitisers.
* **Provenance.** `LoadInv` says of the bundle being loaded that all of it is in the
  database but for what is left to write, and of a loaded one that all of it is.
  It stays so because rows are only added and a mapping is never bound anew
  (`Free`). Both invariants together give `Traceable`.

`ImportInv` and `LoadInv` were checked by TLC on the instance of `server_import`
before they were proved, as were the other invariants on theirs.

Only model-checked: liveness (`EventuallyResolved`, `EveryWriteEnds`,
`EventuallyDecided`, `EventuallyIngested`, `EveryCallEnds`), which is out of the
prover's reach.

## 6. Disagreements

One run is there to fail. `VersionsRelated` (`SourceCatalog`, run
`catalog_versions`) says that after upserts that do not overlap, two sources of
different digests that share a DOI are related if one of them is the richest of
its digest, as `test_same_doi_with_different_sha_creates_version_relation_without_merging`
(`tests/test_source_catalog.py:132`) has it. The key of a relation is the pair
(`migrations/knowledge_0001.sql:75`), and the row names one DOI. If two DOIs relate
the pair and the DOI in the row is the one reconciled, the row is deleted
(`postgres.py:552`); if a richer third file has become the representative of that
DOI, the row is not inserted again, though the other DOI still relates the pair.
The in-memory catalogue (`catalog.py:337`) keeps it. In `CatalogAgrees` the
history variable `doubled` sets aside what follows such an upsert.

Four more statements that the code does not keep. No run checks them; the first
three are invariants of the modules, seen violated by adding them to the INVARIANTS
of the configuration named.

1. `RunningIsAtWork` (`CanaryRuns`, `MCCanaryRuns.cfg`): a crash, a cancellation
   or a lost answer leaves a stage `running` for ever; `begin` refuses it with a
   code that is not retryable (`postgres_pipeline_state.py:606`), while
   `CanaryStageRecord` calls itself "Durable, provider-free canary state used for
   retry and resume".
2. `SucceededIsWhole` (`Ingestion`, `MCCanaryRuns.cfg`): fragments are durable
   before the checkpoint that counts them (`ingestion.py:660`); a crash in between
   and a parse that retains other fragments leave evidence that is neither counted
   nor indexed, but is extracted.
3. `RelationsAgree` (`SourceCatalog`, `MCSources.cfg`): `upsert` locks the DOIs of
   its own source, but also rebuilds the relations of the DOIs of all sources of
   its digest (`postgres.py:515`). Two upserts that overlap can leave relations
   that do not follow from the stored sources, until some later upsert touches the
   same DOI.

4. A call over a manifest that is in the catalogue does not report it, once the
   cursor is at its end: it asks for `bytes=<size>-`, which is answered 416 and
   refused (`remote_reader.py:259`, and `tests/test_synology_reader.py:514` says so),
   as `metadata.provider.stream_failed`, retryable. The replay of
   `tests/test_metadata_stream.py:255`, over a reader that serves an empty rest,
   returns. `<>(published \in reported)` in the conclusion of `EventuallyIngested`
   (`MCMetadataCursor.cfg`) is violated by a call that loses the answer to its last
   save, which is why the property speaks of the catalogue.

What else the models showed, which no document contradicts: a directory of the
spool whose manifest was never written, or that was made again for an archive
after a sweep, is not found by any sweep, and no quota holds the archives of the
parser; an `insufficient_quota` error ends the textbook build where
`insufficient_balance` moves it to the fallback; storages other than the two the
import knows get no repair of colliding relationships, and `CompletedWhole` does
not speak of them; a bulk call whose estimate exceeds the budget left beside the
reservation is never admitted; the sanitiser of chunks unescapes HTML once, so
that of two chunks `x &amp;lt; y` and `x &lt; y` the first, cleaned, is the
second as it stands in the archive: their cleaned texts differ,
`_lightrag_content_hash_aliases` accepts them, and the lookup, which tries the
text before its alias (`textbook_precomputed_lightrag.py:269`), gives the first
the vector of the second (`Unsettled`; the run takes LightRAG to embed the texts
it is passed); if the builder rewrites the bundle between the two readings of its
manifest (`textbook_server_admission.py:154` and `159`) and puts the first back
before its artifacts are checked, the admission publishes the artifacts of one
corpus with the archive of another of the same counts (the instance of
`textbook_bundle` reaches it).

## 7. Not modelled, and the plan

Next:

1. `MetadataCursor` over `SourceCatalog`: the catalogue of the one replaced by
   the upserts of the other.
2. The polling of the LightRAG client and of MinerU inside one step of the
   pipelines, and `selection.py` as a function against a reference.

Not planned:

* `AdaptiveProviderPool` and `SharedLLMLimiter` (`concurrency.py`): at this commit
  only tests construct them; provider coordination does their work.
* The textbook corpus, chunking and raw graph (`textbook_chunking.py`,
  `textbook_corpus.py`, `textbook_graph_bundle.py`, `textbook_import.py`,
  `textbook_lightrag.py`, `textbook_raw_graph.py`): transformations of files by one
  operator into fresh directories; their result is the constant `Rows`.
* Login, listing and transport of the connectors (HTTP behind a protocol whose
  outcomes are modelled where they matter), contracts and policies (immutable
  validated values), runtime probes, CLI, layout assets, scripts, the migration
  runner, vendored patches.
