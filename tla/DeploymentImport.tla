---------------------------- MODULE DeploymentImport ----------------------------
(***************************************************************************)
(* import_textbook_deployment_bundle                                       *)
(* (knowledge/textbook_deployment_import.py): the provenance of an         *)
(* admitted bundle goes to PostgreSQL, first the sources, then their       *)
(* checkpoints, which say succeeded from the start, then the evidence      *)
(* fragments, one for each chunk, and then the mappings by which an answer *)
(* of LightRAG is traced to a fragment.  Every step is a transaction of    *)
(* its own; a load that is killed is run again from the start.  It runs    *)
(* beside the import of the same bundle into LightRAG (PrecomputedImport). *)
(*                                                                         *)
(* The identity, locator and digest of a fragment are the chunk itself.    *)
(***************************************************************************)
EXTENDS PrecomputedImport

CONSTANTS
  Book,
  BookOf,      \* the source a chunk is of
  Catalogued,  \* Catalogued[b]: the sources and checkpoints of bundle b
  Mapped,      \* Mapped[b]: the chunks b has a mapping of
  Basename,
  BasenameOf,  \* build_lightrag_basename
  LoadBatch    \* batch_size of the load

ASSUME DeploymentAssumption ==
  /\ BookOf \in [Item -> Book] /\ BasenameOf \in [Item -> Basename]
  /\ Catalogued \in [Bundle -> SUBSET Book] /\ Mapped \in [Bundle -> SUBSET Item]
  /\ LoadBatch \in Nat \ {0}

VARIABLES
  db,      \* sources, checkpoints and evidence there are, and mappings by basename
  load,    \* the bundle of the load that runs, and what of it is left to write
  loaded   \* bundles of which a load has returned its summary

serverVars == <<backend, progress, store, import, db, load, loaded>>

MakeLoad(b, sources, checkpoints, evidence, mappings) ==
  [bundle |-> b, sources |-> sources, checkpoints |-> checkpoints,
   evidence |-> evidence, mappings |-> mappings]
NoLoad == MakeLoad(Null, {}, {}, {}, {})
Loading == load.bundle # Null

ServerInit ==
  /\ ImportInit
  /\ db = [sources |-> {}, checkpoints |-> {}, evidence |-> {},
           mappings |-> [n \in Basename |-> Null]]
  /\ load = NoLoad
  /\ loaded = {}
-----------------------------------------------------------------------------
(* _materialize_derived_fragments: a fragment for every chunk, by the      *)
(* mapping it has.                                                         *)
Materialized(b) == Mapped[b] = Chunks(b) /\ Cardinality(Chunks(b)) = Len(ItemsIn[b][1])

(* _validate_provenance_chain.                                             *)
Chained(b) ==
  /\ Catalogued[b] = {BookOf[k] : k \in Chunks(b)}
  /\ \A k, m \in Mapped[b] : BasenameOf[k] = BasenameOf[m] => k = m
Valid(b) == Materialized(b) /\ Chained(b)

BeginLoad ==
  /\ ~Loading
  /\ \E b \in Bundle : /\ Valid(b)
                       /\ load' = MakeLoad(b, Catalogued[b], Catalogued[b], Chunks(b), Mapped[b])
  /\ UNCHANGED <<db, loaded>>

UpsertSource ==
  /\ \E s \in load.sources : /\ db' = [db EXCEPT !.sources = @ \cup {s}]
                             /\ load' = [load EXCEPT !.sources = @ \ {s}]
  /\ UNCHANGED loaded

SaveCheckpoint ==
  /\ load.sources = {}
  /\ \E s \in load.checkpoints : /\ db' = [db EXCEPT !.checkpoints = @ \cup {s}]
                                 /\ load' = [load EXCEPT !.checkpoints = @ \ {s}]
  /\ UNCHANGED loaded

(* A batch of what is left: a full one, or all of it.                      *)
BatchOf(left) ==
  {B \in SUBSET left : Cardinality(B) = LoadBatch \/ (Cardinality(B) < LoadBatch /\ B = left)}

(* The fragments of one source after those of another.                     *)
PersistEvidence ==
  /\ load.sources = {} /\ load.checkpoints = {} /\ load.evidence # {}
  /\ \E s \in Book : \E B \in BatchOf({k \in load.evidence : BookOf[k] = s}) :
       /\ B # {}
       /\ db' = [db EXCEPT !.evidence = @ \cup B]
       /\ load' = [load EXCEPT !.evidence = @ \ B]
  /\ UNCHANGED loaded

(* A basename that is bound to another fragment refuses the whole batch    *)
(* and ends the load.                                                      *)
Free(B) == \A k \in B : db.mappings[BasenameOf[k]] \in {Null, k}

(* The fragments of all sources are in before the first mapping is.        *)
Traced_Early == load.sources = {} /\ load.checkpoints = {}
Traced == load.sources = {} /\ load.checkpoints = {} /\ load.evidence = {}

PersistMappings ==
  /\ Traced /\ load.mappings # {}
  /\ \E B \in BatchOf(load.mappings) :
       IF Free(B)
       THEN /\ db' = [db EXCEPT !.mappings =
                        [n \in Basename |-> IF \E k \in B : BasenameOf[k] = n
                                            THEN CHOOSE k \in B : BasenameOf[k] = n
                                            ELSE db.mappings[n]]]
            /\ load' = [load EXCEPT !.mappings = @ \ B]
       ELSE db' = db /\ load' = NoLoad
  /\ UNCHANGED loaded

FinishLoad ==
  /\ Loading /\ Traced /\ load.mappings = {}
  /\ loaded' = loaded \cup {load.bundle}
  /\ load' = NoLoad
  /\ UNCHANGED db

CrashLoad ==
  /\ Loading
  /\ load' = NoLoad
  /\ UNCHANGED <<db, loaded>>

LoadStep ==
  \/ BeginLoad \/ UpsertSource \/ SaveCheckpoint \/ PersistEvidence
  \/ PersistMappings \/ FinishLoad \/ CrashLoad

ServerNext ==
  \/ ImportNext /\ UNCHANGED <<db, load, loaded>>
  \/ LoadStep /\ UNCHANGED importVars

ServerSpec == ServerInit /\ [][ServerNext]_serverVars
-----------------------------------------------------------------------------
(* Once both imports of a bundle have reported completion, whatever was    *)
(* loaded before or after and whichever of them was killed, each of its    *)
(* rows in LightRAG is traced through the basename it carries to the       *)
(* fragment it was taken from, and on to a checkpoint and a source.        *)
Traceable ==
  (progress # Null /\ progress.phase = 4 /\ progress.bundle \in loaded) =>
    \A i \in AllRows(progress.bundle) :
      LET fragment == db.mappings[BasenameOf[SourceOf[i]]] IN
        /\ fragment = SourceOf[i] /\ fragment \in db.evidence
        /\ BookOf[fragment] \in db.checkpoints
        /\ BookOf[fragment] \in db.sources

(* Whatever step a load dies in, no row is there without those it refers   *)
(* to: a mapping has its fragment, a fragment its checkpoint, a checkpoint *)
(* its source.                                                             *)
NothingDangles ==
  /\ \A n \in Basename : db.mappings[n] \in db.evidence \cup {Null}
  /\ {BookOf[k] : k \in db.evidence} \subseteq db.checkpoints
  /\ db.checkpoints \subseteq db.sources

(* Both: the provenance of what is served is whole, and never hangs in the *)
(* air while it is loaded.                                                 *)
ProvenanceStands == Traceable /\ NothingDangles
=============================================================================
