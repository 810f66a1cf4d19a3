--------------------------- MODULE PrecomputedImport ---------------------------
(***************************************************************************)
(* import_textbook_precomputed_lightrag                                    *)
(* (knowledge/textbook_precomputed_lightrag.py): the chunks, entities and  *)
(* relationships of an admitted bundle are replayed into LightRAG in       *)
(* batches, with the vectors of the embedding archive in place of a        *)
(* provider; a state file lets a killed import resume.  LightRAG keys a    *)
(* relationship by a hash of its two endpoints run together, so that two   *)
(* pairs may share an id, and it deletes the id of the reversed pair       *)
(* before it inserts: the rows this may have lost or overwritten are       *)
(* deleted and written anew under safe ids at the end.                     *)
(*                                                                         *)
(* One importer per state file.  Ids and texts are abstract: Canon, Back   *)
(* and Clean say which of them coincide.  Vectors are named by the text    *)
(* they embed.  LightRAG itself is external.                               *)
(*                                                                         *)
(* An operator whose name ends in _NoReverse or the like is a faulty       *)
(* variant of the one below it; no action uses it.                         *)
(***************************************************************************)
EXTENDS Naturals, Sequences, FiniteSets

CONSTANTS
  Bundle,
  Item,       \* rows of the three components
  Name, Wording, Id,
  ItemsIn,    \* ItemsIn[b][p]: the rows of phase p in bundle b, in order
  SourceOf,   \* the chunk a row was taken from
  Names,      \* the entity or the endpoints a row names, as written
  CleanName,  \* sanitize_graph_text of a name
  Raw,        \* embedding_text of a row: what the archive is keyed by
  Clean,      \* the text LightRAG embeds for the row: sanitised, endpoints sorted
  Embedded,   \* Embedded[b]: the texts the archive of b has a vector of
  Canon,      \* the id LightRAG gives a pair of endpoints
  Back,       \* the id of the reversed pair, which LightRAG deletes; a pair of a
              \* name with itself has none
  BatchSize,
  Backend,    \* the vector storages deployed
  Null

Phase == 1..3  \* chunks, entities, relationships
Chunks(b) == {ItemsIn[b][1][i] : i \in DOMAIN ItemsIn[b][1]}
Entities(b) == {ItemsIn[b][2][i] : i \in DOMAIN ItemsIn[b][2]}
Relations(b) == {ItemsIn[b][3][i] : i \in DOMAIN ItemsIn[b][3]}
AllRows(b) == Chunks(b) \cup Entities(b) \cup Relations(b)

(* _normalized_relationship_pair of the sanitised endpoints.               *)
PairOf == [r \in Item |-> {CleanName[n] : n \in Names[r]}]
Pair(r) == PairOf[r]
Pairs == {Pair(r) : r \in Item}

(* What a chunk or an entity is stored under: its text, or its name.       *)
KeyOf ==
  [i \in Item |-> IF Names[i] = {} THEN <<"chunk", {Clean[i]}>> ELSE <<"entity", Pair(i)>>]
Key(i) == KeyOf[i]
Keys == {Key(i) : i \in Item}

(* Nothing is assumed of the sanitisers.  The one of chunks unescapes HTML *)
(* once: what it returns may be another row's text, and change once more.  *)
ASSUME ImportAssumption ==
  /\ ItemsIn \in [Bundle -> [Phase -> Seq(Item)]]
  /\ SourceOf \in [Item -> Item]
  /\ \A b \in Bundle : \A k \in Chunks(b) : SourceOf[k] = k
  /\ Names \in [Item -> SUBSET Name] /\ CleanName \in [Name -> Name]
  /\ Raw \in [Item -> Wording] /\ Clean \in [Item -> Wording]
  /\ Embedded \in [Bundle -> SUBSET Wording]
  /\ Canon \in [Pairs -> Id] /\ Back \in [Pairs -> Id \cup {Null}]
  /\ Backend \subseteq {"PGVectorStorage", "NanoVectorDBStorage", "other"}
  /\ BatchSize \in Nat \ {0}
  /\ Null \notin Bundle /\ Null \notin Id

(* The archive of a bundle has vectors of the texts of its rows only: that *)
(* is EmbeddingArchive's IndexOfItems.                                     *)
ASSUME ArchiveOfBundle ==
  \A b \in Bundle : Embedded[b] \subseteq {Raw[i] : i \in AllRows(b)}

(* build_textbook_graph_bundle merges the mentions of a pair into one row. *)
OneRow(b) ==
  \A i, j \in DOMAIN ItemsIn[b][3] : Pair(ItemsIn[b][3][i]) = Pair(ItemsIn[b][3][j]) => i = j

ASSUME OneRowAPair == \A b \in Bundle : OneRow(b)

VARIABLES
  backend,   \* LIGHTRAG_VECTOR_STORAGE
  progress,  \* the state file: Null, or bundle, phase (4 when completed) and offset
  store,     \* LightRAG: nodes by key, relationship vectors by id, edges of the graph
  import     \* the importer

importVars == <<backend, progress, store, import>>

(* A stored row and the text its vector embeds.                            *)
MakeEntry(item, vector) == [item |-> item, vector |-> vector]
Entry == [item : Item, vector : Wording]
ASSUME NullAssumption == Null \notin Entry \cup Item

SafeId == Pairs
RelationId == ({"canon"} \X Id) \cup ({"safe"} \X SafeId)

MakeImport(at, b, phase, offset) ==
  [at |-> at, bundle |-> b, phase |-> phase, offset |-> offset]
NoImport == MakeImport("idle", Null, 1, 0)
Running == import.at # "idle"

ImportTypeOK ==
  /\ backend \in Backend
  /\ progress \in [bundle : Bundle, phase : 1..4, offset : Nat] \cup {Null}
  /\ store.nodes \in [Keys -> Entry \cup {Null}]
  /\ store.vdb \in [RelationId -> Entry \cup {Null}]
  /\ store.edges \subseteq Pairs
  /\ import \in [at : {"idle", "insert", "save", "next", "repair", "finish"},
                 bundle : Bundle \cup {Null}, phase : Phase, offset : Nat]

ImportInit ==
  /\ backend \in Backend
  /\ progress = Null
  /\ store = [nodes |-> [k \in Keys |-> Null], vdb |-> [d \in RelationId |-> Null],
              edges |-> {}]
  /\ import = NoImport
-----------------------------------------------------------------------------
(* PrecomputedEmbeddingLookup: the text itself, or else its alias, the raw *)
(* text it was cleaned from.                                               *)
Found(b, i) == Clean[i] \in Embedded[b] \/ Raw[i] \in Embedded[b]
Lookup(b, i) == IF Clean[i] \in Embedded[b] THEN Clean[i] ELSE Raw[i]

(* _ChunkStore and _lightrag_content_hash_aliases refuse a bundle in which *)
(* a chunk occurs twice, two names or two texts are the same once cleaned. *)
Accepted_NoAliasCheck(b) ==
  \A i, j \in AllRows(b) : \A n \in Names[i], m \in Names[j] :
    CleanName[n] = CleanName[m] => n = m
Accepted(b) ==
  /\ Cardinality(Chunks(b)) = Len(ItemsIn[b][1])
  /\ \A i, j \in AllRows(b) :
       /\ Clean[i] = Clean[j] => Raw[i] = Raw[j]
       /\ \A n \in Names[i], m \in Names[j] : CleanName[n] = CleanName[m] => n = m

(* _relationship_collision_plan.                                           *)
Concatenated(b) ==
  {Canon[Pair(r)] : r \in {q \in Relations(b) :
     \E s \in Relations(b) : Canon[Pair(s)] = Canon[Pair(q)] /\ Pair(s) # Pair(q)}}
Reversed(b) ==
  {Canon[Pair(r)] : r \in Relations(b)} \cap {Back[Pair(r)] : r \in Relations(b)}
Dangerous_NoReverse(b) == Concatenated(b)
Dangerous(b) == Concatenated(b) \cup Reversed(b)
Affected(b) == {r \in Relations(b) : Canon[Pair(r)] \in Dangerous(b)}
-----------------------------------------------------------------------------
(* ainsert_custom_kg of some rows of a bundle with the chunks they come    *)
(* from: the ids of the reversed pairs are deleted, then the rows go under *)
(* their canonical ids, the last of those that share one.                  *)
ItemBatch ==
  LET rows == ItemsIn[import.bundle][import.phase]
      end == IF import.offset + BatchSize < Len(rows) THEN import.offset + BatchSize
             ELSE Len(rows)
  IN SubSeq(rows, import.offset + 1, end)
Last(S) == ItemBatch[CHOOSE i \in S : \A j \in S : j <= i]

Deleted(vdb, D) ==
  [d \in RelationId |->
     IF \E i \in D : d = <<"canon", Back[Pair(ItemBatch[i])]>> THEN Null ELSE vdb[d]]
Upserted(vdb, S) ==
  [d \in RelationId |->
     LET T == {i \in S : d = <<"canon", Canon[Pair(ItemBatch[i])]>>} IN
       IF T = {} THEN vdb[d] ELSE MakeEntry(Last(T), Lookup(import.bundle, Last(T)))]

Inserted(D, S) ==
  LET items == {ItemBatch[i] : i \in S} \cup {SourceOf[ItemBatch[i]] : i \in S}
      nodes == IF import.phase = 3 THEN {SourceOf[ItemBatch[i]] : i \in S} ELSE items
      last(k) == IF \E i \in S : Key(ItemBatch[i]) = k
                 THEN Last({i \in S : Key(ItemBatch[i]) = k})
                 ELSE CHOOSE n \in nodes : Key(n) = k
  IN [nodes |-> [k \in Keys |->
                   IF \E n \in nodes : Key(n) = k
                   THEN MakeEntry(last(k), Lookup(import.bundle, last(k)))
                   ELSE store.nodes[k]],
      vdb   |-> IF import.phase = 3 THEN Upserted(Deleted(store.vdb, D), S) ELSE store.vdb,
      edges |-> IF import.phase = 3 THEN store.edges \cup {Pair(ItemBatch[i]) : i \in S}
                ELSE store.edges]

(* _source_chunks: every row has a chunk it comes from.  Every row has a   *)
(* vector besides, and so has the chunk.                                   *)
Sourced == \A i \in DOMAIN ItemBatch : SourceOf[ItemBatch[i]] \in Chunks(import.bundle)
WithVector ==
  {i \in DOMAIN ItemBatch : /\ Found(import.bundle, ItemBatch[i])
                            /\ Found(import.bundle, SourceOf[ItemBatch[i]])}
Insertable == Sourced /\ WithVector = DOMAIN ItemBatch
-----------------------------------------------------------------------------
Begin ==
  /\ ~Running
  /\ \E b \in Bundle :
       \/ /\ progress = Null /\ Accepted(b)
          /\ import' = MakeImport("insert", b, 1, 0)
       \/ /\ progress # Null /\ progress.bundle = b /\ progress.phase \in Phase
          /\ import' = MakeImport("insert", b, progress.phase, progress.offset)
  /\ UNCHANGED <<backend, progress, store>>

(* An import that is complete is repaired again, in PostgreSQL; of a file  *)
(* the recorded digest shows that it is as it was left.                    *)
Recheck ==
  /\ ~Running /\ progress # Null /\ progress.phase = 4
  /\ backend = "PGVectorStorage"
  /\ import' = MakeImport("repair", progress.bundle, 3, 0)
  /\ UNCHANGED <<backend, progress, store>>

Insert ==
  /\ import.at = "insert" /\ Insertable
  /\ store' = Inserted(DOMAIN ItemBatch, DOMAIN ItemBatch)
  /\ import' = [import EXCEPT !.at = IF Len(ItemBatch) = BatchSize THEN "save" ELSE "next",
                              !.offset = @ + Len(ItemBatch)]
  /\ UNCHANGED <<backend, progress>>

(* The import stops with some of the rows in.  It has deleted for others.  *)
Stop(S) ==
  /\ \E D \in IF import.phase = 3 THEN SUBSET DOMAIN ItemBatch ELSE {S} :
       S \subseteq D /\ store' = Inserted(D, S)
  /\ import' = NoImport
  /\ UNCHANGED <<backend, progress>>

(* A missing chunk stops it before any row is in, a missing vector later.  *)
InsertFails ==
  /\ import.at = "insert" /\ ~Insertable
  /\ IF Sourced THEN \E S \in SUBSET WithVector : Stop(S)
     ELSE import' = NoImport /\ UNCHANGED <<backend, progress, store>>

Save ==
  /\ import.at = "save"
  /\ progress' = [bundle |-> import.bundle, phase |-> import.phase, offset |-> import.offset]
  /\ import' = [import EXCEPT !.at = "insert"]
  /\ UNCHANGED <<backend, store>>

(* The end of a component; the last one is completed only by FinishImport. *)
NextPhase ==
  /\ import.at = "next"
  /\ LET last == import.phase = 3 IN
       /\ progress' = [bundle |-> import.bundle,
                       phase |-> IF last THEN 3 ELSE import.phase + 1,
                       offset |-> IF last THEN import.offset ELSE 0]
       /\ import' = IF last THEN [import EXCEPT !.at = "repair"]
                    ELSE MakeImport("insert", import.bundle, import.phase + 1, 0)
  /\ UNCHANGED <<backend, store>>
-----------------------------------------------------------------------------
(* The vectors after the repair: the dangerous ids are gone and the rows   *)
(* they belonged to are under their safe ids.                              *)
RepairedVdb ==
  [d \in RelationId |->
     IF \E r \in Affected(import.bundle) : d = <<"safe", Pair(r)>>
     THEN LET r == CHOOSE r \in Affected(import.bundle) : d = <<"safe", Pair(r)>>
          IN MakeEntry(r, Lookup(import.bundle, r))
     ELSE IF \E c \in Dangerous(import.bundle) : d = <<"canon", c>> THEN Null
     ELSE store.vdb[d]]
Ids(vdb) == {d \in RelationId : vdb[d] # Null}
RelationCount == Len(ItemsIn[import.bundle][3])
OwnIds(b) == {<<"canon", Canon[Pair(r)]>> : r \in Relations(b)}
               \cup {<<"safe", Pair(r)>> : r \in Affected(b)}

(* One row for every relationship, told apart by their pairs.              *)
Numbered(vdb) == Cardinality(Ids(vdb)) = RelationCount
Counted_Never(vdb) == TRUE
Counted(vdb) ==
  /\ Numbered(vdb)
  /\ backend = "PGVectorStorage" => Cardinality({Pair(vdb[d].item) : d \in Ids(vdb)}) = RelationCount
Distinct == \A q, r \in Affected(import.bundle) : Pair(q) = Pair(r) => q = r

(* _repair_postgres_relationship_vectors: one serializable transaction,    *)
(* rolled back and raised when the rows left do not count.                 *)
RepairPostgres ==
  /\ import.at = "repair" /\ backend = "PGVectorStorage"
  /\ IF Distinct /\ Counted(RepairedVdb)
     THEN /\ store' = [store EXCEPT !.vdb = RepairedVdb]
          /\ import' = [import EXCEPT !.at = "finish"]
     ELSE store' = store /\ import' = NoImport
  /\ UNCHANGED <<backend, progress>>

(* _ensure_relationship_vdb_repair: the file is replaced when its rows are *)
(* counted and the safe rows already in it are those of this bundle; the   *)
(* edges of the graph are counted afterwards.                              *)
RepairNano ==
  /\ import.at = "repair" /\ backend = "NanoVectorDBStorage"
  /\ LET same == \A r \in Affected(import.bundle) :
                   store.vdb[<<"safe", Pair(r)>>] \in {Null, RepairedVdb[<<"safe", Pair(r)>>]}
         ok == Distinct /\ Counted(RepairedVdb) /\ same IN
       /\ store' = IF ok THEN [store EXCEPT !.vdb = RepairedVdb] ELSE store
       /\ import' = IF ok /\ Cardinality(store.edges) = RelationCount
                    THEN [import EXCEPT !.at = "finish"] ELSE NoImport
  /\ UNCHANGED <<backend, progress>>

(* Any other storage has no file of this name: there is nothing to repair. *)
RepairNothing ==
  /\ import.at = "repair" /\ backend = "other"
  /\ import' = [import EXCEPT !.at = "finish"]
  /\ UNCHANGED <<backend, progress, store>>

FinishImport ==
  /\ import.at = "finish"
  /\ progress' = [bundle |-> import.bundle, phase |-> 4, offset |-> 0]
  /\ import' = NoImport
  /\ UNCHANGED <<backend, store>>

KillImport ==
  /\ Running
  /\ \/ import.at = "insert" /\ Insertable /\ \E S \in SUBSET DOMAIN ItemBatch : Stop(S)
     \/ import' = NoImport /\ UNCHANGED <<backend, progress, store>>

(* The operator starts over with another state file, in the same store.    *)
ForgetState ==
  /\ ~Running /\ progress # Null
  /\ progress' = Null
  /\ UNCHANGED <<backend, store, import>>

ImportNext ==
  \/ Begin \/ Recheck \/ Insert \/ InsertFails \/ Save \/ NextPhase
  \/ RepairPostgres \/ RepairNano \/ RepairNothing
  \/ FinishImport \/ KillImport \/ ForgetState

ImportSpec == ImportInit /\ [][ImportNext]_importVars
-----------------------------------------------------------------------------
(* The cleaned text of a row is, as it stands, the text of a row that the  *)
(* sanitiser changes: "x &amp;lt; y" beside "x &lt; y".                    *)
Unsettled(i) == \E j \in Item : Raw[j] = Clean[i] /\ Clean[j] # Raw[j]

Own(e) ==
  \/ e.vector = Raw[e.item]
  \/ e.vector = Clean[e.item] /\ Unsettled(e.item)

(* A vector is that of the text of the row it is stored with: the detour   *)
(* over cleaned texts hands a row another row's vector only if its text    *)
(* must be cleaned twice and is the other's after the first time, which    *)
(* the check for aliases does not see.                                     *)
OwnVectors ==
  /\ \A k \in Keys : store.nodes[k] # Null => Own(store.nodes[k])
  /\ \A d \in Ids(store.vdb) : Own(store.vdb[d])

(* An import recorded as completed is whole, however often it was killed   *)
(* and resumed and whatever was in the store before: every chunk and every *)
(* entity is there, and with the two storages the repair knows, exactly    *)
(* one row for every relationship and no other row.                        *)
CompletedWhole ==
  (progress # Null /\ progress.phase = 4) =>
    LET b == progress.bundle IN
      /\ \A i \in Chunks(b) \cup Entities(b) : store.nodes[Key(i)] # Null
      /\ backend # "other" =>
           /\ {store.vdb[d].item : d \in Ids(store.vdb)} = Relations(b)
           /\ Cardinality(Ids(store.vdb)) = Cardinality(Relations(b))

(* The repair makes good whatever the hashes did: unless another bundle    *)
(* has left rows of its own in the store, every relationship it counts is  *)
(* there, so that no collision keeps a bundle from being completed.        *)
Repairable ==
  (import.at = "repair" /\ backend # "other"
     /\ Ids(store.vdb) \subseteq OwnIds(import.bundle)) => Counted(RepairedVdb)
=============================================================================
