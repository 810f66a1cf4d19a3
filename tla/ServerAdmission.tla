---------------------------- MODULE ServerAdmission ----------------------------
(***************************************************************************)
(* build_textbook_server_admission (knowledge/textbook_server_admission.py)*)
(* publishes a deployment bundle and its embedding archive for the server: *)
(* it checks both against their manifests, copies every artifact into a    *)
(* staging directory, checks the copy, writes manifests of its own and     *)
(* renames the staging directory to the output.  Its inputs are the files  *)
(* a builder may be rewriting meanwhile (EmbeddingArchive): the code calls *)
(* them immutable and takes no lock on them.                               *)
(*                                                                         *)
(* A digest of an artifact is the artifact here.  The migration of a       *)
(* legacy provenance contract, which copies the same files the same way,   *)
(* is not distinguished from an admission.                                 *)
(***************************************************************************)
EXTENDS EmbeddingArchive

CONSTANT Expected   \* the embedding model the server accepts

ASSUME ExpectedAssumption == Expected \in Model

VARIABLES
  admission,  \* the progress of the admission that runs
  published   \* the output directory, Nil until there is one

allVars == <<corpus, bundle, archive, build, admission, published>>

NoAdmission ==
  [at |-> "idle", ws |-> "primary", bundle |-> Nil, digest |-> Nil, manifest |-> Nil,
   staged |-> Nil]

AdmissionTypeOK ==
  /\ TypeOK
  /\ admission \in [at : {"idle", "parsed", "digested", "manifests", "bundle", "archive"},
                    ws : Workspace, bundle : Digest \cup {Nil}, digest : Digest \cup {Nil},
                    manifest : Manifest \cup {Nil}, staged : Digest \cup {Nil}]
  /\ published \in [manifest : Digest \cup {Nil}, bundle : Digest \cup {Nil},
                    lineage : Digest \cup {Nil},
                    archive : [index : Index, items : SUBSET Row, binary : Binary]] \cup {Nil}

AdmissionInit == Init /\ admission = NoAdmission /\ published = Nil
-----------------------------------------------------------------------------
(* What the artifacts of an archive hold: the index with its items, and    *)
(* the binary.                                                             *)
Artifacts(a) == [index |-> a.index, items |-> a.items, binary |-> a.binary]
Described(manifest) ==
  [index |-> manifest.index, items |-> manifest.items, binary |-> manifest.binary]

(* _read_manifest of the deployment bundle: the file is parsed, then read   *)
(* again for its digest, and the builder may have written another between. *)
BeginAdmission ==
  /\ admission.at = "idle" /\ published = Nil
  /\ \E w \in Workspace :
       /\ bundle[w].manifest # Nil
       /\ admission' = [NoAdmission EXCEPT !.at = "parsed", !.ws = w,
                                           !.bundle = bundle[w].manifest]
  /\ UNCHANGED <<corpus, bundle, archive, build, published>>

ReadDigest ==
  /\ admission.at = "parsed"
  /\ admission' = [admission EXCEPT !.at = "digested",
                                    !.digest = bundle[admission.ws].manifest]
  /\ UNCHANGED <<corpus, bundle, archive, build, published>>

(* _read_manifest of the archive, which must name that digest, and the     *)
(* embedding of both manifests.  The digest of this one is only noted.     *)
Matching(manifest, digest) == manifest # Nil /\ manifest.digest = digest

ReadManifest ==
  /\ admission.at = "digested"
  /\ LET m == archive[admission.ws].manifest IN
       admission' = IF /\ Matching(m, admission.digest)
                       /\ admission.bundle[2] = Expected /\ m.digest[2] = Expected
                    THEN [admission EXCEPT !.at = "manifests", !.manifest = m]
                    ELSE NoAdmission
  /\ UNCHANGED <<corpus, bundle, archive, build, published>>

(* The rest of _validated_inputs: the files against the two manifests, the *)
(* counts of the components of one against those of the other, and the     *)
(* kinds that the index has items of against the three there must be: a    *)
(* corpus without a chunk, an entity or a relationship is refused.         *)
Counts(digest) == [k \in Component |-> Len(Rows[digest[1]][k])]

ValidInputs ==
  /\ bundle[admission.ws].artifacts = admission.bundle
  /\ Artifacts(archive[admission.ws]) = Described(admission.manifest)
  /\ Counts(admission.manifest.digest) = Counts(admission.bundle)
  /\ \A k \in Component : Counts(admission.bundle)[k] # 0

ValidateInputs ==
  /\ admission.at = "manifests"
  /\ admission' = IF ValidInputs THEN [admission EXCEPT !.at = "bundle"] ELSE NoAdmission
  /\ UNCHANGED <<corpus, bundle, archive, build, published>>

(* _verify_copy: the copy must have the digest validated before.           *)
Verified_Never(copy, record) == TRUE
Verified(copy, record) == copy = record

CopyBundle ==
  /\ admission.at = "bundle"
  /\ LET copy == bundle[admission.ws].artifacts IN
       admission' = IF Verified(copy, admission.bundle)
                    THEN [admission EXCEPT !.at = "archive", !.staged = copy]
                    ELSE NoAdmission
  /\ UNCHANGED <<corpus, bundle, archive, build, published>>

(* The last copies, the manifests of the output, and the rename.           *)
Publish ==
  /\ admission.at = "archive"
  /\ LET copy == Artifacts(archive[admission.ws]) IN
       published' = IF Verified(copy, Described(admission.manifest))
                    THEN [manifest |-> admission.bundle, bundle |-> admission.staged,
                          lineage |-> admission.digest, archive |-> copy]
                    ELSE published
  /\ admission' = NoAdmission
  /\ UNCHANGED <<corpus, bundle, archive, build>>

(* The admission is killed: its staging directory is never read again.     *)
CrashAdmission ==
  /\ admission.at # "idle"
  /\ admission' = NoAdmission
  /\ UNCHANGED <<corpus, bundle, archive, build, published>>

AdmissionNext ==
  \/ Next /\ UNCHANGED <<admission, published>>
  \/ BeginAdmission \/ ReadDigest \/ ReadManifest \/ ValidateInputs
  \/ CopyBundle \/ Publish \/ CrashAdmission

AdmissionSpec == AdmissionInit /\ [][AdmissionNext]_allVars
-----------------------------------------------------------------------------
(* What the server is given is whole, whatever the builder wrote while the *)
(* files were read, checked and copied: the artifacts are those of the     *)
(* corpus its manifest describes, under the model the server expects, and  *)
(* the archive holds every row of the corpus its lineage names, each with  *)
(* the embedding of its text by that model.  The two are one corpus unless *)
(* the builder's manifest was rewritten between its two readings, and even *)
(* then they have as many rows of each kind, and some of every kind.       *)
PublishedWhole ==
  published # Nil =>
    LET c == published.lineage[1]
        a == published.archive IN
      /\ published.bundle = published.manifest
      /\ published.manifest[2] = Expected
      /\ \A k \in Component : /\ Len(Rows[c][k]) # 0
                              /\ Len(Rows[published.manifest[1]][k]) = Len(Rows[c][k])
      /\ a.items = UNION {{Rows[c][k][i] : i \in DOMAIN Rows[c][k]} : k \in Component}
      /\ \A r \in a.items :
           /\ a.index[TextOf[r]] # Nil
           /\ a.binary[a.index[TextOf[r]] + 1] = <<TextOf[r], Expected>>
=============================================================================
