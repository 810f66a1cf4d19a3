---------------------------- MODULE EmbeddingArchive ----------------------------
(***************************************************************************)
(* index_textbook_custom_kg (knowledge/textbook_custom_kg.py) driving      *)
(* build_textbook_embedding_archive (textbook_embedding_bundle.py): the    *)
(* custom knowledge graph of a corpus is bound to an embedding generation, *)
(* written as a deployment bundle, and every text of it is embedded into   *)
(* an archive, a SQLite index beside a binary of vectors, that a later run *)
(* resumes.  A primary provider whose quota is exhausted is replaced by a  *)
(* fallback with a bundle and an archive of its own.                       *)
(*                                                                         *)
(* One builder process; it may crash between any two durable writes, and   *)
(* in the middle of the write of the vectors.  The texts missing from a    *)
(* batch are one provider call here, where the code splits them into       *)
(* concurrent calls and takes the first error.                             *)
(*                                                                         *)
(* An operator whose name ends in _NoRepair or the like is a faulty        *)
(* variant of the one below it; no action uses it.                         *)
(***************************************************************************)
EXTENDS Integers, Sequences, FiniteSets

CONSTANTS
  Corpus,       \* versions of the custom knowledge graph
  Row, Text,
  Rows,         \* Rows[c]: the chunks, entities and relationships of c, in order
  TextOf,       \* embedding_text: what is embedded for a row
  Primary,      \* the model of the primary binding
  Candidates,   \* model_candidates of the fallback
  FlushItems,   \* flush_items
  MaxAttempts,  \* retry_max_attempts
  Torn,         \* a vector of which a crash left a part
  Nil

Model == {Primary} \cup {Candidates[i] : i \in DOMAIN Candidates}
Workspace == {"primary", "fallback"}
Component == 1..3
Vector == Text \X Model
Digest == Corpus \X Model

ASSUME ArchiveAssumption ==
  /\ Rows \in [Corpus -> [Component -> Seq(Row)]]
  /\ TextOf \in [Row -> Text]
  /\ Candidates \in Seq(Model)
  /\ FlushItems \in Nat \ {0} /\ MaxAttempts \in Nat \ {0}
  /\ Nil \notin Nat \cup Digest
  /\ Torn \notin Vector

VARIABLES
  corpus,   \* the custom knowledge graph on disk
  bundle,   \* bundle[w]: what the manifest describes, and what the artifacts hold
  archive,  \* archive[w]: state file, index, binary and manifest
  build     \* the builder's progress

vars == <<corpus, bundle, archive, build>>

(* What the provider may raise, and how the two tables of markers class    *)
(* it: "insufficient_quota" is terminal for the retry loop and unknown to  *)
(* the failover, "balance not enough" with status 429 the other way round. *)
Error == {"rate_limit", "insufficient_balance", "insufficient_quota",
          "balance_not_enough", "rejected"}
Transient == {"rate_limit", "balance_not_enough"}
QuotaExhausted == {"insufficient_balance", "balance_not_enough"}

At == {"idle", "bundle", "open", "read", "embed", "write", "commit", "raised"}

(* The archive of a workspace.  The binary holds vectors, the last of      *)
(* which a crash may have torn.                                            *)
MakeArchive(ident, index, items, binary, manifest) ==
  [ident |-> ident, index |-> index, items |-> items, binary |-> binary,
   manifest |-> manifest]
Binary == Seq(Vector \cup {Torn})
Index == [Text -> Nat \cup {Nil}]
Manifest == [digest : Digest, index : Index, items : SUBSET Row, binary : Binary]
Archive == [ident : Digest \cup {Nil}, index : Index, items : SUBSET Row, binary : Binary,
            manifest : Manifest \cup {Nil}]
NoArchive == MakeArchive(Nil, [t \in Text |-> Nil], {}, <<>>, Nil)

MakeBuild(at, ws, c, model, comp, done) ==
  [at |-> at, ws |-> ws, corpus |-> c, model |-> model, comp |-> comp, done |-> done,
   attempt |-> 1, error |-> Nil]
Idle == MakeBuild("idle", "primary", Nil, Primary, 1, 0)

TypeOK ==
  /\ corpus \in Corpus
  /\ bundle \in [Workspace -> [manifest : Digest \cup {Nil}, artifacts : Digest \cup {Nil}]]
  /\ archive \in [Workspace -> Archive]
  /\ build \in [at : At, ws : Workspace, corpus : Corpus \cup {Nil}, model : Model,
                comp : 1..4, done : Nat, attempt : 1..MaxAttempts, error : Error \cup {Nil}]

Init ==
  /\ corpus \in Corpus
  /\ bundle = [w \in Workspace |-> [manifest |-> Nil, artifacts |-> Nil]]
  /\ archive = [w \in Workspace |-> NoArchive]
  /\ build = Idle
-----------------------------------------------------------------------------
Here == archive[build.ws]
Binding == <<build.corpus, build.model>>
Indexed(a) == {t \in Text : a.index[t] # Nil}

(* The batch at hand: up to flush_items rows of the component being read.  *)
ComponentRows == Rows[build.corpus][build.comp]
BatchEnd ==
  IF build.done + FlushItems < Len(ComponentRows) THEN build.done + FlushItems
  ELSE Len(ComponentRows)
Batch == SubSeq(ComponentRows, build.done + 1, BatchEnd)
Pending == {i \in DOMAIN Batch : Batch[i] \notin Here.items}

(* Texts of the pending rows that have no vector.  The provider is sent    *)
(* each once and answers in the order it was asked, here some fixed order. *)
MissingTexts == {TextOf[Batch[i]] : i \in Pending} \ Indexed(Here)
Missing ==
  CHOOSE s \in [1..Cardinality(MissingTexts) -> MissingTexts] :
    \A i, j \in DOMAIN s : s[i] = s[j] => i = j
NewVectors == [i \in DOMAIN Missing |-> <<Missing[i], build.model>>]
-----------------------------------------------------------------------------
NewCorpus ==
  /\ \E c \in Corpus \ {corpus} : corpus' = c
  /\ UNCHANGED <<bundle, archive, build>>

(* The operator gives the next run an empty archive root.                  *)
FreshRoot ==
  /\ build.at = "idle"
  /\ \E w \in Workspace : archive' = [archive EXCEPT ![w] = NoArchive]
  /\ UNCHANGED <<corpus, bundle, build>>

(* The artifacts of the bundle are rewritten in place, then its manifest:  *)
(* until then the old manifest describes files that are not there.         *)
Start ==
  /\ build.at = "idle"
  /\ build' = MakeBuild("bundle", "primary", corpus, Primary, 1, 0)
  /\ bundle' = [bundle EXCEPT !["primary"].artifacts = Nil]
  /\ UNCHANGED <<corpus, archive>>

(* _write_deployment_bundle.                                               *)
WriteBundle ==
  /\ build.at = "bundle"
  /\ bundle' = [bundle EXCEPT ![build.ws] = [manifest |-> Binding, artifacts |-> Binding]]
  /\ build' = [build EXCEPT !.at = "open"]
  /\ UNCHANGED <<corpus, archive>>

(* _repair_binary_tail: what the index does not know of is cut off.        *)
Repaired_NoRepair(a) == a.binary
Repaired(a) == SubSeq(a.binary, 1, Cardinality(Indexed(a)))

Identified_Always(a, digest) == TRUE
Identified(a, digest) == a.ident = Nil \/ a.ident = digest

Open ==
  /\ build.at = "open"
  /\ LET ok == Identified(Here, Binding) IN
       /\ archive' = [archive EXCEPT ![build.ws] =
                        MakeArchive(IF ok THEN Binding ELSE @.ident, @.index, @.items,
                                    Repaired(@), @.manifest)]
       /\ build' = IF ok THEN [build EXCEPT !.at = "read"] ELSE Idle
  /\ UNCHANGED <<corpus, bundle>>

(* _flush_batch up to the provider.                                        *)
Read ==
  /\ build.at = "read" /\ build.comp \in Component
  /\ build' = CASE build.done = Len(ComponentRows) -> [build EXCEPT !.comp = @ + 1, !.done = 0]
                [] build.done # Len(ComponentRows) /\ Pending = {} ->
                     [build EXCEPT !.done = BatchEnd]
                [] OTHER -> [build EXCEPT !.at = IF MissingTexts = {} THEN "commit" ELSE "embed"]
  /\ UNCHANGED <<corpus, bundle, archive>>

(* _embed_missing.                                                         *)
Embed ==
  /\ build.at = "embed"
  /\ \/ build' = [build EXCEPT !.at = "write", !.attempt = 1]
     \/ \E e \in Error :
          build' = IF e \in Transient /\ build.attempt < MaxAttempts
                   THEN [build EXCEPT !.attempt = @ + 1]
                   ELSE [build EXCEPT !.at = "raised", !.error = e, !.attempt = 1]
  /\ UNCHANGED <<corpus, bundle, archive>>

Write ==
  /\ build.at = "write"
  /\ archive' = [archive EXCEPT ![build.ws].binary = @ \o NewVectors]
  /\ build' = [build EXCEPT !.at = "commit"]
  /\ UNCHANGED <<corpus, bundle>>

(* One transaction for the vectors and the items.  Two equal rows in one   *)
(* batch violate the key of items: the transaction fails and the run ends. *)
Position(a, i) == Cardinality(Indexed(a)) + i - 1

Commit ==
  /\ build.at = "commit"
  /\ IF \A i, j \in Pending : Batch[i] = Batch[j] => i = j
     THEN /\ archive' = [archive EXCEPT ![build.ws] =
               MakeArchive(@.ident,
                           [t \in Text |->
                              IF \E i \in DOMAIN Missing : Missing[i] = t
                              THEN Position(@, CHOOSE i \in DOMAIN Missing : Missing[i] = t)
                              ELSE @.index[t]],
                           @.items \cup {Batch[i] : i \in Pending}, @.binary, @.manifest)]
          /\ build' = [build EXCEPT !.at = "read", !.done = BatchEnd]
     ELSE archive' = archive /\ build' = Idle
  /\ UNCHANGED <<corpus, bundle>>

Finish ==
  /\ build.at = "read" /\ build.comp \notin Component
  /\ archive' = IF Cardinality(Here.items) =
                     Len(Rows[build.corpus][1]) + Len(Rows[build.corpus][2])
                       + Len(Rows[build.corpus][3])
                THEN [archive EXCEPT ![build.ws].manifest =
                        [digest |-> Binding, index |-> Here.index,
                         items |-> Here.items, binary |-> Here.binary]]
                ELSE archive
  /\ build' = Idle
  /\ UNCHANGED <<corpus, bundle>>

(* A quota error of the primary moves on to the first candidate of the     *)
(* fallback that passes its probe, if one does; any other error ends the   *)
(* run.                                                                    *)
FailOver ==
  /\ build.at = "raised"
  /\ \/ /\ build.ws = "primary" /\ build.error \in QuotaExhausted
        /\ \E i \in DOMAIN Candidates :
             /\ build' = MakeBuild("bundle", "fallback", build.corpus, Candidates[i], 1, 0)
             /\ bundle' = [bundle EXCEPT !["fallback"].artifacts = Nil]
     \/ build' = Idle /\ UNCHANGED bundle
  /\ UNCHANGED <<corpus, archive>>

(* The process dies.  Of the vectors it was writing, some may be there.    *)
Crash ==
  /\ build.at # "idle"
  /\ build' = Idle
  /\ IF build.at # "write" THEN UNCHANGED archive
     ELSE \E n \in 0..Len(NewVectors) : \E tail \in {<<>>, <<Torn>>} :
            archive' = [archive EXCEPT ![build.ws].binary =
                          @ \o SubSeq(NewVectors, 1, n) \o tail]
  /\ UNCHANGED <<corpus, bundle>>

Next ==
  \/ NewCorpus \/ FreshRoot \/ Start \/ WriteBundle \/ Open \/ Read
  \/ Embed \/ Write \/ Commit \/ Finish \/ FailOver \/ Crash

Spec == Init /\ [][Next]_vars
-----------------------------------------------------------------------------
(* Whatever crashed or failed over, the vector the index names for a text  *)
(* is the embedding of that text by the one model of the archive: nothing  *)
(* is shifted by a write that was not committed, and no two models mix.    *)
IndexTrue ==
  \A w \in Workspace : \A t \in Indexed(archive[w]) :
    LET a == archive[w] IN
      /\ a.ident # Nil
      /\ a.index[t] < Len(a.binary)
      /\ a.binary[a.index[t] + 1] = <<t, a.ident[2]>>

(* A published archive stays the one its manifest describes: a later run,  *)
(* for this corpus or another, does not disturb it, and it holds every row *)
(* of the bundle it names.                                                 *)
ManifestStands ==
  \A w \in Workspace :
    LET a == archive[w] IN
      a.manifest # Nil =>
        /\ <<a.index, a.items, a.binary>> =
             <<a.manifest.index, a.manifest.items, a.manifest.binary>>
        /\ a.items = UNION {{Rows[a.manifest.digest[1]][k][i] :
                               i \in DOMAIN Rows[a.manifest.digest[1]][k]} : k \in Component}
        /\ \A r \in a.items : a.index[TextOf[r]] # Nil
=============================================================================
