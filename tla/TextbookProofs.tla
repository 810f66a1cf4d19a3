------------------------------ MODULE TextbookProofs ------------------------------
(***************************************************************************)
(* Proofs about the textbooks, for every corpus, bundle, row and batch     *)
(* size: EmbeddingArchive (however often the builder crashes within or     *)
(* between its writes, resumes, retries or fails over, the index names for *)
(* each text a vector that embeds it, and only texts of the corpus),       *)
(* ServerAdmission (what is published is whole), PrecomputedImport (what   *)
(* is recorded as completed is whole, and collisions are repaired) and     *)
(* DeploymentImport (provenance is never in the air).                      *)
(***************************************************************************)
EXTENDS ServerAdmission, DeploymentImport, FiniteSetTheorems, SequenceTheorems,
        WellFoundedInduction, TLAPS

(* An archive on disk.  The binary may hold more than the index knows of,  *)
(* never less.                                                             *)
Count(a) == Cardinality(Indexed(a))
ArchiveOK(a) ==
  /\ IsFiniteSet(Indexed(a))
  /\ Count(a) <= Len(a.binary)
  /\ \A t \in Indexed(a) :
       /\ a.ident # Nil
       /\ a.index[t] < Count(a)
       /\ a.binary[a.index[t] + 1] = <<t, a.ident[2]>>

(* The builder at work in its archive: it has bound it, its place is a     *)
(* place of the component, and the binary ends where the index says, or    *)
(* after the vectors of the missing texts once these are written.          *)
InArchive == build.at \in {"read", "embed", "write", "commit"}
BuildOK ==
  /\ build.at # "idle" => build.corpus \in Corpus
  /\ build.at \in {"bundle", "open"} => build.comp = 1 /\ build.done = 0
  /\ InArchive => Here.ident = Binding
  /\ InArchive /\ build.comp \in Component => build.done <= Len(ComponentRows)
  /\ build.at \in {"embed", "write", "commit"} => build.comp \in Component
  /\ build.at \in {"read", "embed", "write"} => Len(Here.binary) = Count(Here)
  /\ build.at = "commit" =>
       /\ Len(Here.binary) = Count(Here) + Cardinality(MissingTexts)
       /\ \A i \in 1..Cardinality(MissingTexts) :
            Here.binary[Count(Here) + i] = <<Missing[i], build.model>>

IInv == TypeOK /\ (\A w \in Workspace : ArchiveOK(archive[w])) /\ BuildOK

BuildType ==
  [at : At, ws : Workspace, corpus : Corpus \cup {Nil}, model : Model,
   comp : 1..4, done : Nat, attempt : 1..MaxAttempts, error : Error \cup {Nil}]
-----------------------------------------------------------------------------
(* The rows of a batch, and what is missing for them.                      *)
LEMMA BatchRows ==
  ASSUME TypeOK, build.corpus \in Corpus, build.comp \in Component,
         build.done <= Len(ComponentRows)
  PROVE  /\ ComponentRows \in Seq(Row) /\ Len(ComponentRows) \in Nat
         /\ BatchEnd \in Nat /\ build.done <= BatchEnd /\ BatchEnd <= Len(ComponentRows)
         /\ Batch \in Seq(Row)
<1>1. ComponentRows \in Seq(Row)
  BY ArchiveAssumption DEF ComponentRows
<1>2. build.done \in Nat /\ FlushItems \in Nat
  BY ArchiveAssumption DEF TypeOK
<1>3. /\ BatchEnd \in Nat /\ build.done <= BatchEnd /\ BatchEnd <= Len(ComponentRows)
      /\ Len(ComponentRows) \in Nat
  BY <1>1, <1>2 DEF BatchEnd
<1>4. \A i \in build.done + 1..BatchEnd : ComponentRows[i] \in Row
  BY <1>1, <1>2, <1>3
<1>5. Batch \in Seq(Row)
  BY <1>1, <1>2, <1>3 DEF Batch
<1> QED
  BY <1>1, <1>3, <1>5

LEMMA MissingFinite ==
  ASSUME TypeOK, build.corpus \in Corpus, build.comp \in Component,
         build.done <= Len(ComponentRows)
  PROVE  /\ IsFiniteSet(MissingTexts) /\ Cardinality(MissingTexts) \in Nat
         /\ MissingTexts \subseteq Text /\ MissingTexts \cap Indexed(Here) = {}
<1>1. Batch \in Seq(Row)
  BY BatchRows
<1> DEFINE T == {TextOf[Batch[i]] : i \in Pending}
           f == [i \in Pending |-> TextOf[Batch[i]]]
<1>2. IsFiniteSet(Pending)
  <2>1. Pending \in SUBSET (1..Len(Batch)) /\ Len(Batch) \in Nat
    BY <1>1 DEF Pending
  <2>2. IsFiniteSet(1..Len(Batch))
    BY <2>1, FS_Interval
  <2> QED
    BY <2>1, <2>2, FS_Subset
<1>3. f \in Surjection(Pending, T)
  BY DEF Surjection
<1>4. IsFiniteSet(T)
  BY <1>2, <1>3, FS_Surjection
<1>5. T \subseteq Text
  BY <1>1, ArchiveAssumption DEF Pending
<1> HIDE DEF T
<1>6. MissingTexts = T \ Indexed(Here)
  BY DEF MissingTexts, T
<1>7. IsFiniteSet(MissingTexts)
  BY <1>4, <1>6, FS_Difference
<1>8. Cardinality(MissingTexts) \in Nat
  BY <1>7, FS_CardinalityType
<1> QED
  BY <1>5, <1>6, <1>7, <1>8

(* Missing enumerates them.                                                *)
LEMMA MissingAll ==
  ASSUME IsFiniteSet(MissingTexts)
  PROVE  /\ Missing \in [1..Cardinality(MissingTexts) -> MissingTexts]
         /\ \A t \in MissingTexts : \E i \in 1..Cardinality(MissingTexts) : Missing[i] = t
<1> DEFINE M == MissingTexts  k == Cardinality(M)
<1>1. k \in Nat /\ ExistsBijection(1..k, M)
  BY FS_CardinalityType
<1>2. PICK g : g \in Bijection(1..k, M)
  BY <1>1 DEF ExistsBijection
<1>3. g \in [1..k -> M] /\ \A i, j \in DOMAIN g : g[i] = g[j] => i = j
  BY <1>2 DEF Bijection, Injection, IsInjective
<1>4. /\ Missing \in [1..k -> M]
      /\ \A i, j \in DOMAIN Missing : Missing[i] = Missing[j] => i = j
  BY <1>3 DEF Missing
<1>5. Missing \in Injection(1..k, M)
  BY <1>4 DEF Injection, IsInjective
<1>6. IsFiniteSet(1..k) /\ Cardinality(1..k) = k
  BY <1>1, FS_Interval
<1> HIDE DEF M, k
<1>7. Missing \in Surjection(1..k, M)
  BY <1>5, <1>6, FS_Injection DEF M, k
<1> QED
  BY <1>4, <1>7 DEF Surjection, M, k
-----------------------------------------------------------------------------
(* A step of the builder that leaves the archive alone and goes on with    *)
(* the same rows.                                                          *)
LEMMA SamePlace ==
  ASSUME build'.ws = build.ws, build'.corpus = build.corpus, build'.model = build.model,
         build'.comp = build.comp, build'.done = build.done,
         archive'[build.ws].index = Here.index, archive'[build.ws].items = Here.items
  PROVE  /\ Binding' = Binding /\ ComponentRows' = ComponentRows
         /\ Count(Here)' = Count(Here)
         /\ MissingTexts' = MissingTexts /\ Missing' = Missing
<1>1. Here' = archive'[build.ws]
  BY DEF Here
<1>2. Indexed(Here)' = Indexed(Here)
  BY <1>1 DEF Indexed
<1>3. Binding' = Binding /\ ComponentRows' = ComponentRows
  BY DEF Binding, ComponentRows
<1>4. BatchEnd' = BatchEnd
  BY <1>3 DEF BatchEnd
<1>5. Batch' = Batch
  BY <1>3, <1>4 DEF Batch
<1>6. Pending' = Pending
  BY <1>1, <1>5 DEF Pending
<1>7. MissingTexts' = MissingTexts
  BY <1>2, <1>5, <1>6 DEF MissingTexts
<1>8. Missing' = Missing
  BY <1>7 DEF Missing
<1> QED
  BY <1>2, <1>3, <1>7, <1>8 DEF Count

(* The same with the archive of the builder put in place of the old one.   *)
LEMMA OneArchive ==
  ASSUME IInv, NEW w \in Workspace, NEW a \in Archive, ArchiveOK(a),
         archive' = [archive EXCEPT ![w] = a]
  PROVE  /\ archive' \in [Workspace -> Archive] /\ archive'[w] = a
         /\ \A v \in Workspace : ArchiveOK(archive'[v])
<1> HIDE DEF Archive, ArchiveOK
<1>1. archive \in [Workspace -> Archive] /\ \A v \in Workspace : ArchiveOK(archive[v])
  BY DEF IInv, TypeOK
<1> QED
  BY <1>1

(* More vectors behind those the index knows of do no harm.                *)
LEMMA Appended ==
  ASSUME NEW a \in Archive, ArchiveOK(a), NEW b \in Archive,
         b.index = a.index, b.ident = a.ident, Len(a.binary) <= Len(b.binary),
         \A p \in 1..Len(a.binary) : b.binary[p] = a.binary[p]
  PROVE  ArchiveOK(b)
<1>1. Indexed(b) = Indexed(a) /\ Count(b) = Count(a)
  BY DEF Indexed, Count
<1>2. Count(a) \in Nat /\ Len(a.binary) \in Nat /\ Len(b.binary) \in Nat
  BY FS_CardinalityType DEF ArchiveOK, Count, Archive, Binary
<1>3. \A t \in Indexed(a) : a.index[t] \in Nat
  BY DEF Indexed, Archive, Index
<1>4. IsFiniteSet(Indexed(b)) /\ Count(b) <= Len(b.binary)
  BY <1>1, <1>2 DEF ArchiveOK
<1>5. ASSUME NEW t \in Indexed(b)
      PROVE  /\ b.ident # Nil /\ b.index[t] < Count(b)
             /\ b.binary[b.index[t] + 1] = <<t, b.ident[2]>>
  <2>1. /\ t \in Indexed(a) /\ a.index[t] < Count(a) /\ a.ident # Nil
        /\ a.binary[a.index[t] + 1] = <<t, a.ident[2]>> /\ Count(a) <= Len(a.binary)
    BY <1>1 DEF ArchiveOK
  <2>2. a.index[t] + 1 \in 1..Len(a.binary)
    BY <1>2, <1>3, <2>1
  <2> QED
    BY <1>1, <2>1, <2>2
<1> QED
  BY <1>4, <1>5 DEF ArchiveOK

(* So does cutting them off.                                               *)
LEMMA TailCut ==
  ASSUME NEW a \in Archive, ArchiveOK(a)
  PROVE  /\ Repaired(a) \in Binary /\ Len(Repaired(a)) = Count(a)
         /\ \A p \in 1..Count(a) : Repaired(a)[p] = a.binary[p]
<1>1. Count(a) \in Nat /\ a.binary \in Seq(Vector \cup {Torn}) /\ Count(a) <= Len(a.binary)
  BY FS_CardinalityType DEF ArchiveOK, Count, Archive, Binary
<1>2. Repaired(a) = SubSeq(a.binary, 1, Count(a))
  BY DEF Repaired, Count
<1> QED
  BY <1>1, <1>2 DEF Binary
-----------------------------------------------------------------------------
(* A builder that stops, or starts.                                        *)
LEMMA BuildMade ==
  ASSUME NEW at \in At, NEW w \in Workspace, NEW c \in Corpus \cup {Nil}, NEW m \in Model
  PROVE  MakeBuild(at, w, c, m, 1, 0) \in BuildType
<1>1. 1 \in 1..MaxAttempts
  BY ArchiveAssumption
<1> QED
  BY <1>1 DEF BuildType, MakeBuild

LEMMA Stops == ASSUME build' = Idle PROVE build' \in BuildType /\ BuildOK'
<1>1. Idle \in BuildType
  BY BuildMade DEF Idle, At, Workspace, Model
<1>2. build'.at = "idle"
  BY DEF Idle, MakeBuild
<1> QED
  BY <1>1, <1>2 DEF BuildOK, InArchive

LEMMA OpenKeeps == ASSUME IInv, Open PROVE IInv'
<1> DEFINE w == build.ws  a == archive[w]  ok == Identified(Here, Binding)
           b == MakeArchive(IF ok THEN Binding ELSE a.ident, a.index, a.items,
                            Repaired(a), a.manifest)
<1>1. /\ w \in Workspace /\ a \in Archive /\ ArchiveOK(a) /\ Here = a
      /\ build \in BuildType /\ build.corpus \in Corpus /\ Binding \in Digest
  BY DEF IInv, TypeOK, BuildType, BuildOK, Open, Here, Binding, Digest
<1>2. archive' = [archive EXCEPT ![w] = b]
  BY DEF Open
<1>3. build' = IF ok THEN [build EXCEPT !.at = "read"] ELSE Idle
  BY DEF Open
<1>4. /\ Repaired(a) \in Binary /\ Len(Repaired(a)) = Count(a)
      /\ \A p \in 1..Count(a) : Repaired(a)[p] = a.binary[p]
  BY <1>1, TailCut
<1>5. ok => a.ident = Nil \/ a.ident = Binding
  BY <1>1 DEF Identified
<1> HIDE DEF w, a, ok
<1>6. /\ b \in Archive /\ b.index = a.index /\ b.binary = Repaired(a)
      /\ b.ident = IF ok THEN Binding ELSE a.ident
  BY <1>1, <1>4 DEF Archive, MakeArchive
<1> HIDE DEF b
<1>7. Indexed(b) = Indexed(a) /\ Count(b) = Count(a)
  BY <1>6 DEF Indexed, Count
<1>8. Indexed(a) # {} => b.ident = a.ident
  BY <1>1, <1>5, <1>6 DEF ArchiveOK
<1>9. ArchiveOK(b)
  <2>1. Count(a) \in Nat
    BY <1>1, FS_CardinalityType DEF ArchiveOK, Count
  <2>2. \A t \in Indexed(a) : a.index[t] \in Nat
    BY <1>1 DEF Indexed, Archive, Index
  <2>3. \A t \in Indexed(a) : a.index[t] + 1 \in 1..Count(a)
    BY <1>1, <2>1, <2>2 DEF ArchiveOK
  <2> QED
    BY <1>1, <1>4, <1>6, <1>7, <1>8, <2>1, <2>3 DEF ArchiveOK
<1>10. /\ archive' \in [Workspace -> Archive] /\ archive'[w] = b
       /\ \A v \in Workspace : ArchiveOK(archive'[v])
  BY <1>1, <1>2, <1>6, <1>9, OneArchive
<1>11. CASE ~ok
  <2>1. build' = Idle
    BY <1>3, <1>11
  <2> QED
    BY <1>10, <2>1, Stops DEF TypeOK, BuildType, IInv, Open
<1>12. CASE ok
  <2>1. build' = [build EXCEPT !.at = "read"]
    BY <1>3, <1>12
  <2>2. /\ build' \in BuildType
        /\ build'.at = "read" /\ build'.ws = w /\ build'.corpus = build.corpus
        /\ build'.model = build.model /\ build'.comp = 1 /\ build'.done = 0
    BY <1>1, <2>1 DEF BuildType, w, At, BuildOK, IInv, Open
  <2>3. Here' = b
    BY <1>10, <2>2 DEF Here
  <2>4. Binding' = Binding
    BY <2>2 DEF Binding
  <2>5. ComponentRows' \in Seq(Row)
    BY <1>1, <2>2, ArchiveAssumption DEF ComponentRows, Component
  <2>6. Here'.ident = Binding' /\ Len(Here'.binary) = Count(Here')
    BY <1>4, <1>6, <1>7, <1>12, <2>3, <2>4
  <2>7. BuildOK'
    BY <1>1, <2>2, <2>5, <2>6 DEF BuildOK, InArchive
  <2> QED
    BY <1>10, <2>2, <2>7 DEF TypeOK, BuildType, IInv, Open
<1> QED
  BY <1>11, <1>12

LEMMA NewCorpusKeeps == ASSUME IInv, NewCorpus PROVE IInv'
<1>1. corpus' \in Corpus /\ archive' = archive /\ build' = build /\ bundle' = bundle
  BY DEF NewCorpus
<1>2. TypeOK'
  BY <1>1 DEF IInv, TypeOK
<1>3. Here' = Here /\ Binding' = Binding /\ ComponentRows' = ComponentRows
  BY <1>1 DEF Here, Binding, ComponentRows
<1>4. Count(Here)' = Count(Here) /\ MissingTexts' = MissingTexts /\ Missing' = Missing
  BY <1>1, SamePlace DEF Here
<1>5. BuildOK'
  BY <1>1, <1>3, <1>4 DEF IInv, BuildOK, InArchive
<1> QED
  BY <1>1, <1>2, <1>5 DEF IInv

LEMMA FreshRootKeeps == ASSUME IInv, FreshRoot PROVE IInv'
<1>1. PICK w \in Workspace : archive' = [archive EXCEPT ![w] = NoArchive]
  BY DEF FreshRoot
<1>2. NoArchive \in Archive
  <2>1. <<>> \in Binary /\ [t \in Text |-> Nil] \in Index
    BY DEF Binary, Index
  <2> QED
    BY <2>1 DEF NoArchive, MakeArchive, Archive
<1>3. ArchiveOK(NoArchive)
  <2>1. Indexed(NoArchive) = {} /\ NoArchive.binary = <<>>
    BY DEF Indexed, NoArchive, MakeArchive
  <2>2. IsFiniteSet(Indexed(NoArchive)) /\ Count(NoArchive) = 0
    BY <2>1, FS_EmptySet DEF Count
  <2> QED
    BY <2>1, <2>2 DEF ArchiveOK
<1>4. archive' \in [Workspace -> Archive] /\ \A v \in Workspace : ArchiveOK(archive'[v])
  BY <1>1, <1>2, <1>3, OneArchive
<1>5. build' = build /\ build.at = "idle"
  BY DEF FreshRoot
<1>6. TypeOK'
  BY <1>4, <1>5 DEF IInv, TypeOK, FreshRoot
<1>7. BuildOK'
  BY <1>5 DEF BuildOK, InArchive
<1> QED
  BY <1>4, <1>6, <1>7 DEF IInv

LEMMA StartKeeps == ASSUME IInv, Start PROVE IInv'
<1>1. /\ corpus \in Corpus /\ archive' = archive /\ corpus' = corpus
      /\ build' = MakeBuild("bundle", "primary", corpus, Primary, 1, 0)
  BY DEF IInv, TypeOK, Start
<1>2. build' \in BuildType
  BY <1>1, BuildMade DEF At, Workspace, Model
<1>3. TypeOK'
  BY <1>1, <1>2 DEF IInv, TypeOK, Start, BuildType
<1>4. /\ build'.at = "bundle" /\ build'.corpus = corpus
      /\ build'.comp = 1 /\ build'.done = 0
  BY <1>1 DEF MakeBuild
<1>5. BuildOK'
  BY <1>1, <1>4 DEF BuildOK, InArchive
<1> QED
  BY <1>1, <1>3, <1>5 DEF IInv

LEMMA WriteBundleKeeps == ASSUME IInv, WriteBundle PROVE IInv'
<1>1. /\ build \in BuildType /\ build.at = "bundle" /\ archive' = archive /\ corpus' = corpus
      /\ build' = [build EXCEPT !.at = "open"]
  BY DEF IInv, TypeOK, WriteBundle, BuildType
<1>2. /\ build' \in BuildType /\ build'.at = "open" /\ build'.corpus = build.corpus
      /\ build'.comp = build.comp /\ build'.done = build.done
  BY <1>1 DEF BuildType, At
<1>3. build.corpus \in Corpus /\ build.comp = 1 /\ build.done = 0
  BY <1>1 DEF IInv, BuildOK
<1>4. Binding \in Digest
  BY <1>1, <1>3 DEF Binding, Digest, BuildType
<1>5. TypeOK'
  BY <1>1, <1>2, <1>4 DEF IInv, TypeOK, WriteBundle, BuildType
<1>6. BuildOK'
  BY <1>2, <1>3 DEF BuildOK, InArchive
<1> QED
  BY <1>1, <1>5, <1>6 DEF IInv

LEMMA ReadKeeps == ASSUME IInv, Read PROVE IInv'
<1>1. /\ build \in BuildType /\ build.at = "read" /\ build.comp \in Component
      /\ archive' = archive /\ corpus' = corpus /\ bundle' = bundle
      /\ build.corpus \in Corpus /\ build.done <= Len(ComponentRows)
      /\ Here.ident = Binding /\ Len(Here.binary) = Count(Here)
  BY DEF IInv, TypeOK, Read, BuildType, BuildOK, InArchive
<1>2. /\ BatchEnd \in Nat /\ BatchEnd <= Len(ComponentRows)
      /\ IsFiniteSet(MissingTexts) /\ Cardinality(MissingTexts) \in Nat
  BY <1>1, BatchRows, MissingFinite DEF IInv
<1>3. SUFFICES build' \in BuildType /\ BuildOK'
  BY <1>1 DEF IInv, TypeOK, BuildType
<1>4. CASE build.done = Len(ComponentRows)
  <2>1. build' = [build EXCEPT !.comp = @ + 1, !.done = 0]
    BY <1>4 DEF Read
  <2>2. /\ build' \in BuildType /\ build'.at = "read" /\ build'.ws = build.ws
        /\ build'.corpus = build.corpus /\ build'.model = build.model /\ build'.done = 0
    <3>1. build.comp + 1 \in 1..4 /\ 0 \in Nat
      BY <1>1 DEF Component
    <3> DEFINE k == build.comp + 1
    <3>2. build' = [build EXCEPT !.comp = k, !.done = 0]
      BY <1>1, <2>1 DEF BuildType
    <3>3. k \in 1..4
      BY <3>1
    <3> HIDE DEF k
    <3> QED
      BY <1>1, <3>1, <3>2, <3>3 DEF BuildType
  <2>3. Here' = Here /\ Binding' = Binding
    BY <1>1, <2>2 DEF Here, Binding
  <2>4. build'.comp \in Component => 0 <= Len(ComponentRows')
    <3>1. build'.comp \in Component => ComponentRows' \in Seq(Row)
      BY <1>1, <2>2, ArchiveAssumption DEF ComponentRows
    <3> QED
      BY <3>1
  <2>5. Count(Here)' = Count(Here)
    BY <2>3 DEF Count, Indexed
  <2> QED
    BY <1>1, <2>2, <2>3, <2>4, <2>5 DEF BuildOK, InArchive
<1>5. CASE build.done # Len(ComponentRows) /\ Pending = {}
  <2>1. build' = [build EXCEPT !.done = BatchEnd]
    BY <1>5 DEF Read
  <2>2. /\ build' \in BuildType /\ build'.at = "read" /\ build'.ws = build.ws
        /\ build'.corpus = build.corpus /\ build'.model = build.model
        /\ build'.comp = build.comp /\ build'.done = BatchEnd
    BY <1>1, <1>2, <2>1 DEF BuildType
  <2>3. Here' = Here /\ Binding' = Binding /\ ComponentRows' = ComponentRows
    BY <1>1, <2>2 DEF Here, Binding, ComponentRows
  <2>4. Count(Here)' = Count(Here)
    BY <2>3 DEF Count, Indexed
  <2> QED
    BY <1>1, <1>2, <2>2, <2>3, <2>4 DEF BuildOK, InArchive
<1>6. CASE build.done # Len(ComponentRows) /\ Pending # {}
  <2>1. build' = [build EXCEPT !.at = IF MissingTexts = {} THEN "commit" ELSE "embed"]
    BY <1>6 DEF Read
  <2>2. /\ build' \in BuildType /\ build'.ws = build.ws
        /\ build'.at = IF MissingTexts = {} THEN "commit" ELSE "embed"
        /\ build'.corpus = build.corpus /\ build'.model = build.model
        /\ build'.comp = build.comp /\ build'.done = build.done
    BY <1>1, <2>1 DEF BuildType, At
  <2>3. Here' = Here
    BY <1>1, <2>2 DEF Here
  <2>4. /\ Binding' = Binding /\ ComponentRows' = ComponentRows
        /\ Count(Here)' = Count(Here)
        /\ MissingTexts' = MissingTexts /\ Missing' = Missing
    BY <1>1, <2>2, SamePlace DEF Here
  <2>5. Count(Here) \in Nat
    BY <1>1, FS_CardinalityType DEF IInv, ArchiveOK, Count, Here, BuildType
  <2>6. CASE MissingTexts = {}
    <3>1. Cardinality(MissingTexts) = 0
      BY <2>6, FS_EmptySet
    <3>2. 1..0 = {}
      OBVIOUS
    <3> QED
      BY <1>1, <2>2, <2>3, <2>4, <2>5, <2>6, <3>1, <3>2 DEF BuildOK, InArchive
  <2>7. CASE MissingTexts # {}
    BY <1>1, <2>2, <2>3, <2>4, <2>7 DEF BuildOK, InArchive
  <2> QED
    BY <2>2, <2>6, <2>7
<1> QED
  BY <1>4, <1>5, <1>6

LEMMA EmbedKeeps == ASSUME IInv, Embed PROVE IInv'
<1>1. /\ build \in BuildType /\ build.at = "embed" /\ build.comp \in Component
      /\ archive' = archive /\ corpus' = corpus /\ bundle' = bundle
      /\ build.corpus \in Corpus /\ build.done <= Len(ComponentRows)
      /\ Here.ident = Binding /\ Len(Here.binary) = Count(Here)
  BY DEF IInv, TypeOK, Embed, BuildType, BuildOK, InArchive
<1>2. PICK at \in {"embed", "write", "raised"}, k \in 1..MaxAttempts, e \in Error \cup {Nil} :
        build' = [build EXCEPT !.at = at, !.attempt = k, !.error = e]
  <2>1. 1 \in 1..MaxAttempts
    BY ArchiveAssumption
  <2>2. CASE build' = [build EXCEPT !.at = "write", !.attempt = 1]
    <3>1. build' = [build EXCEPT !.at = "write", !.attempt = 1, !.error = build.error]
      BY <1>1, <2>2 DEF BuildType
    <3>2. build.error \in Error \cup {Nil}
      BY <1>1 DEF BuildType
    <3> QED
      BY <2>1, <3>1, <3>2
  <2>3. ASSUME NEW e \in Error,
               build' = IF e \in Transient /\ build.attempt < MaxAttempts
                        THEN [build EXCEPT !.attempt = @ + 1]
                        ELSE [build EXCEPT !.at = "raised", !.error = e, !.attempt = 1]
        PROVE  \E at \in {"embed", "write", "raised"}, k \in 1..MaxAttempts,
                  d \in Error \cup {Nil} :
                 build' = [build EXCEPT !.at = at, !.attempt = k, !.error = d]
    <3>1. CASE e \in Transient /\ build.attempt < MaxAttempts
      <4>1. build.attempt + 1 \in 1..MaxAttempts
        BY <1>1, <3>1, ArchiveAssumption DEF BuildType
      <4>2. build' = [build EXCEPT !.at = "embed", !.attempt = build.attempt + 1,
                                   !.error = build.error]
        BY <1>1, <2>3, <3>1 DEF BuildType
      <4>3. build.error \in Error \cup {Nil}
        BY <1>1 DEF BuildType
      <4> QED
        BY <4>1, <4>2, <4>3
    <3>2. CASE ~(e \in Transient /\ build.attempt < MaxAttempts)
      <4>1. build' = [build EXCEPT !.at = "raised", !.attempt = 1, !.error = e]
        BY <1>1, <2>3, <3>2 DEF BuildType
      <4> QED
        BY <2>1, <4>1
    <3> QED
      BY <3>1, <3>2
  <2> QED
    BY <2>2, <2>3 DEF Embed
<1>3. /\ build' \in BuildType /\ build'.at = at /\ build'.ws = build.ws
      /\ build'.corpus = build.corpus /\ build'.model = build.model
      /\ build'.comp = build.comp /\ build'.done = build.done
  BY <1>1, <1>2 DEF BuildType, At
<1>4. Here' = Here
  BY <1>1, <1>3 DEF Here
<1>5. /\ Binding' = Binding /\ ComponentRows' = ComponentRows
      /\ Count(Here)' = Count(Here)
  BY <1>1, <1>3, SamePlace DEF Here
<1>6. BuildOK'
  BY <1>1, <1>2, <1>3, <1>4, <1>5 DEF BuildOK, InArchive
<1> QED
  BY <1>1, <1>3, <1>6 DEF IInv, TypeOK, BuildType

(* The vectors a call brought are vectors, and go behind the binary.       *)
LEMMA Vectors ==
  ASSUME IInv, build.at \in {"embed", "write", "commit"}
  PROVE  /\ IsFiniteSet(MissingTexts) /\ Cardinality(MissingTexts) \in Nat
         /\ Missing \in [1..Cardinality(MissingTexts) -> MissingTexts]
         /\ NewVectors \in Binary /\ Len(NewVectors) = Cardinality(MissingTexts)
         /\ \A i \in 1..Cardinality(MissingTexts) : NewVectors[i] = <<Missing[i], build.model>>
<1> DEFINE k == Cardinality(MissingTexts)
<1>1. /\ build.corpus \in Corpus /\ build.comp \in Component
      /\ build.done <= Len(ComponentRows) /\ build.model \in Model
  BY DEF IInv, TypeOK, BuildOK, InArchive
<1>2. IsFiniteSet(MissingTexts) /\ k \in Nat /\ MissingTexts \subseteq Text
  BY <1>1, MissingFinite DEF IInv
<1>3. Missing \in [1..k -> MissingTexts]
  BY <1>2, MissingAll
<1>4. NewVectors = [i \in 1..k |-> <<Missing[i], build.model>>]
  BY <1>3 DEF NewVectors
<1>5. \A i \in 1..k : <<Missing[i], build.model>> \in Vector
  BY <1>1, <1>2, <1>3 DEF Vector
<1> HIDE DEF k
<1>6. NewVectors \in [1..k -> Vector \cup {Torn}]
  BY <1>4, <1>5
<1>7. NewVectors \in Binary /\ Len(NewVectors) = k
  BY <1>2, <1>6 DEF Binary
<1>8. \A i \in 1..k : NewVectors[i] = <<Missing[i], build.model>>
  BY <1>4
<1> QED
  BY <1>2, <1>3, <1>7, <1>8 DEF k

(* Behind the binary, the archive with more vectors is as good.            *)
LEMMA Grown ==
  ASSUME NEW a \in Archive, ArchiveOK(a), NEW v \in Binary
  PROVE  /\ [a EXCEPT !.binary = @ \o v] \in Archive
         /\ ArchiveOK([a EXCEPT !.binary = @ \o v])
<1> DEFINE b == [a EXCEPT !.binary = @ \o v]
<1>1. a.binary \in Seq(Vector \cup {Torn}) /\ v \in Seq(Vector \cup {Torn})
  BY DEF Archive, Binary
<1>2. /\ a.binary \o v \in Binary /\ Len(a.binary) <= Len(a.binary \o v)
      /\ \A p \in 1..Len(a.binary) : (a.binary \o v)[p] = a.binary[p]
  BY <1>1 DEF Binary
<1>3. b \in Archive /\ b.index = a.index /\ b.ident = a.ident /\ b.binary = a.binary \o v
  BY <1>2 DEF Archive
<1> HIDE DEF b
<1>4. ArchiveOK(b)
  BY <1>2, <1>3, Appended
<1> QED
  BY <1>3, <1>4 DEF b

LEMMA WriteKeeps == ASSUME IInv, Write PROVE IInv'
<1> DEFINE w == build.ws  a == archive[w]  b == [a EXCEPT !.binary = @ \o NewVectors]
           k == Cardinality(MissingTexts)
<1>1. /\ build \in BuildType /\ build.at = "write" /\ build.comp \in Component
      /\ corpus' = corpus /\ bundle' = bundle /\ w \in Workspace
      /\ build.corpus \in Corpus /\ build.done <= Len(ComponentRows)
      /\ Here.ident = Binding /\ Len(Here.binary) = Count(Here) /\ Here = a
      /\ a \in Archive /\ ArchiveOK(a)
  BY DEF IInv, TypeOK, Write, BuildType, BuildOK, InArchive, Here
<1>2. /\ k \in Nat /\ Len(NewVectors) = k /\ NewVectors \in Binary
      /\ \A i \in 1..k : NewVectors[i] = <<Missing[i], build.model>>
  BY <1>1, Vectors
<1>3. archive' = [archive EXCEPT ![w] = b]
  BY DEF Write
<1>4. b \in Archive /\ ArchiveOK(b)
  BY <1>1, <1>2, Grown
<1>5. b.index = a.index /\ b.ident = a.ident /\ b.items = a.items
      /\ b.binary = a.binary \o NewVectors
  BY <1>1 DEF Archive
<1> HIDE DEF w, b
<1>6. /\ archive' \in [Workspace -> Archive] /\ archive'[w] = b
      /\ \A v \in Workspace : ArchiveOK(archive'[v])
  BY <1>1, <1>3, <1>4, OneArchive
<1>7. /\ build' \in BuildType /\ build'.at = "commit" /\ build'.ws = w
      /\ build'.corpus = build.corpus /\ build'.model = build.model
      /\ build'.comp = build.comp /\ build'.done = build.done
  BY <1>1 DEF Write, BuildType, At, w
<1>8. Here' = b
  BY <1>6, <1>7 DEF Here
<1>9. /\ Binding' = Binding /\ ComponentRows' = ComponentRows
      /\ Count(Here)' = Count(Here)
      /\ MissingTexts' = MissingTexts /\ Missing' = Missing
  BY <1>1, <1>5, <1>6, <1>7, SamePlace DEF w
<1>10. a.binary \in Seq(Vector \cup {Torn}) /\ NewVectors \in Seq(Vector \cup {Torn})
  BY <1>1, <1>2 DEF Archive, Binary
<1>11. /\ Len(b.binary) = Count(Here) + k
       /\ \A i \in 1..k : b.binary[Count(Here) + i] = NewVectors[i]
  <2>1. Len(a.binary) = Count(Here)
    BY <1>1
  <2> HIDE DEF a, k
  <2>2. /\ Len(a.binary \o NewVectors) = Len(a.binary) + Len(NewVectors)
        /\ \A i \in 1..Len(NewVectors) :
             (a.binary \o NewVectors)[Len(a.binary) + i] = NewVectors[i]
    BY <1>10
  <2> QED
    BY <1>2, <1>5, <2>1, <2>2
<1>12. /\ Len(Here'.binary) = Count(Here)' + Cardinality(MissingTexts')
       /\ \A i \in 1..Cardinality(MissingTexts') :
            Here'.binary[Count(Here)' + i] = <<Missing'[i], build'.model>>
  BY <1>2, <1>7, <1>8, <1>9, <1>11
<1>13. Here'.ident = Binding'
  BY <1>1, <1>5, <1>8, <1>9
<1>14. BuildOK'
  BY <1>1, <1>7, <1>9, <1>12, <1>13 DEF BuildOK, InArchive
<1> QED
  BY <1>1, <1>6, <1>7, <1>14 DEF IInv, TypeOK, BuildType

(* What a crash may leave of a write.                                      *)
LEMMA Tails == ASSUME NEW t \in {<<>>, <<Torn>>} PROVE t \in Binary
<1>1. <<>> \in Binary
  BY DEF Binary
<1>2. <<Torn>> \in Binary
  BY DEF Binary
<1> QED
  BY <1>1, <1>2

LEMMA Tied ==
  ASSUME NEW x \in Binary, NEW y \in Binary, NEW z \in Binary
  PROVE  (x \o y) \o z = x \o (y \o z) /\ y \o z \in Binary
<1>1. (x \o y) \o z = x \o (y \o z)
  BY ConcatAssociative DEF Binary
<1>2. y \o z \in Binary
  BY DEF Binary
<1> QED
  BY <1>1, <1>2

LEMMA CrashKeeps == ASSUME IInv, Crash PROVE IInv'
<1>1. build' \in BuildType /\ BuildOK'
  BY Stops DEF Crash
<1>2. archive' \in [Workspace -> Archive] /\ \A v \in Workspace : ArchiveOK(archive'[v])
  <2>1. CASE build.at # "write"
    BY <2>1 DEF Crash, IInv, TypeOK
  <2>2. CASE build.at = "write"
    <3>1. PICK n \in 0..Len(NewVectors), tail \in {<<>>, <<Torn>>} :
            archive' = [archive EXCEPT ![build.ws].binary =
                          @ \o SubSeq(NewVectors, 1, n) \o tail]
      BY <2>2 DEF Crash
    <3> DEFINE w == build.ws  a == archive[w]  v == SubSeq(NewVectors, 1, n) \o tail
               b == [a EXCEPT !.binary = @ \o v]
    <3>2. w \in Workspace /\ a \in Archive /\ ArchiveOK(a) /\ NewVectors \in Binary
      BY <2>2, Vectors DEF IInv, TypeOK
    <3>3. /\ SubSeq(NewVectors, 1, n) \in Seq(Vector \cup {Torn})
          /\ tail \in Seq(Vector \cup {Torn}) /\ a.binary \in Seq(Vector \cup {Torn})
      <4>1. a.binary \in Seq(Vector \cup {Torn}) /\ NewVectors \in Seq(Vector \cup {Torn})
        BY <3>2 DEF Binary, Archive
      <4>2. tail \in Seq(Vector \cup {Torn})
        BY <3>1, Tails DEF Binary
      <4>3. \A i \in 1..n : NewVectors[i] \in Vector \cup {Torn}
        BY <3>1, <4>1
      <4>4. SubSeq(NewVectors, 1, n) \in Seq(Vector \cup {Torn})
        BY <3>1, <4>1, <4>3, SubSeqProperties
      <4> QED
        BY <4>1, <4>2, <4>4
    <3>4. v \in Binary /\ a.binary \o SubSeq(NewVectors, 1, n) \o tail = a.binary \o v
      <4> DEFINE x == a.binary  y == SubSeq(NewVectors, 1, n)
      <4>1. x \in Binary /\ y \in Binary /\ tail \in Binary
        BY <3>3 DEF Binary
      <4> HIDE DEF x, y
      <4>2. (x \o y) \o tail = x \o (y \o tail) /\ y \o tail \in Binary
        BY <4>1, Tied
      <4> QED
        BY <4>2 DEF x, y
    <3>5. archive' = [archive EXCEPT ![w] = [a EXCEPT !.binary =
                                               a.binary \o SubSeq(NewVectors, 1, n) \o tail]]
      BY <3>1
    <3>6. archive' = [archive EXCEPT ![w] = b]
      BY <3>4, <3>5
    <3>7. b \in Archive /\ ArchiveOK(b)
      BY <3>2, <3>4, Grown
    <3> HIDE DEF w, a, v, b
    <3> QED
      BY <3>2, <3>6, <3>7, OneArchive
  <2> QED
    BY <2>1, <2>2
<1> QED
  BY <1>1, <1>2 DEF IInv, TypeOK, BuildType, Crash

LEMMA FailOverKeeps == ASSUME IInv, FailOver PROVE IInv'
<1>1. archive' = archive /\ corpus' = corpus /\ build.corpus \in Corpus
  BY DEF FailOver, IInv, BuildOK
<1>2. CASE build' = Idle /\ UNCHANGED bundle
  <2>1. build' \in BuildType /\ BuildOK'
    BY <1>2, Stops
  <2> QED
    BY <1>1, <1>2, <2>1 DEF IInv, TypeOK, BuildType
<1>3. ASSUME NEW i \in DOMAIN Candidates,
             build' = MakeBuild("bundle", "fallback", build.corpus, Candidates[i], 1, 0),
             bundle' = [bundle EXCEPT !["fallback"].artifacts = Nil]
      PROVE  IInv'
  <2>1. build' \in BuildType
    BY <1>1, <1>3, BuildMade DEF At, Workspace, Model
  <2>2. /\ build'.at = "bundle" /\ build'.corpus = build.corpus
        /\ build'.comp = 1 /\ build'.done = 0
    BY <1>3 DEF MakeBuild
  <2>3. BuildOK'
    BY <1>1, <2>2 DEF BuildOK, InArchive
  <2> QED
    BY <1>1, <1>3, <2>1, <2>3 DEF IInv, TypeOK, BuildType
<1> QED
  BY <1>2, <1>3 DEF FailOver

LEMMA FinishKeeps == ASSUME IInv, Finish PROVE IInv'
<1>1. build' \in BuildType /\ BuildOK'
  BY Stops DEF Finish
<1>2. archive' \in [Workspace -> Archive] /\ \A v \in Workspace : ArchiveOK(archive'[v])
  <2> DEFINE w == build.ws  a == archive[w]
             m == [digest |-> Binding, index |-> a.index, items |-> a.items,
                   binary |-> a.binary]
             b == [a EXCEPT !.manifest = m]
  <2>1. /\ w \in Workspace /\ a \in Archive /\ ArchiveOK(a)
        /\ build.corpus \in Corpus /\ build.model \in Model
    BY DEF IInv, TypeOK, Finish, BuildOK
  <2>2. m \in Manifest
    BY <2>1 DEF Manifest, Binding, Digest, Archive
  <2> HIDE DEF m
  <2>3. b \in Archive /\ b.index = a.index /\ b.ident = a.ident /\ b.binary = a.binary
    BY <2>1, <2>2 DEF Archive
  <2>4. ArchiveOK(b)
    BY <2>1, <2>3 DEF ArchiveOK, Indexed, Count
  <2>5. archive' = archive \/ archive' = [archive EXCEPT ![w] = b]
    BY DEF Finish, Here, m
  <2> HIDE DEF w, a, b
  <2>6. CASE archive' = [archive EXCEPT ![w] = b]
    BY <2>1, <2>3, <2>4, <2>6, OneArchive
  <2> QED
    BY <2>5, <2>6 DEF IInv, TypeOK
<1> QED
  BY <1>1, <1>2 DEF IInv, TypeOK, BuildType, Finish

LEMMA CommitKeeps == ASSUME IInv, Commit PROVE IInv'
<1> DEFINE w == build.ws  a == archive[w]  k == Cardinality(MissingTexts)  c == Count(a)
           P == {Batch[i] : i \in Pending}
           ix == [t \in Text |->
                    IF \E i \in DOMAIN Missing : Missing[i] = t
                    THEN Position(a, CHOOSE i \in DOMAIN Missing : Missing[i] = t)
                    ELSE a.index[t]]
           b == MakeArchive(a.ident, ix, a.items \cup P, a.binary, a.manifest)
           ok == \A i, j \in Pending : Batch[i] = Batch[j] => i = j
<1>1. /\ build \in BuildType /\ build.at = "commit" /\ build.comp \in Component
      /\ corpus' = corpus /\ bundle' = bundle /\ w \in Workspace
      /\ build.corpus \in Corpus /\ build.done <= Len(ComponentRows)
      /\ Here.ident = Binding /\ Here = a /\ a \in Archive /\ ArchiveOK(a)
      /\ Len(a.binary) = c + k
      /\ \A i \in 1..k : a.binary[c + i] = <<Missing[i], build.model>>
  BY DEF IInv, TypeOK, Commit, BuildType, BuildOK, InArchive, Here
<1>2. /\ IsFiniteSet(MissingTexts) /\ k \in Nat /\ MissingTexts \subseteq Text
      /\ MissingTexts \cap Indexed(a) = {}
      /\ Missing \in [1..k -> MissingTexts]
      /\ \A t \in MissingTexts : \E i \in 1..k : Missing[i] = t
  BY <1>1, MissingFinite, MissingAll DEF IInv
<1>3. IsFiniteSet(Indexed(a)) /\ c \in Nat
  BY <1>1, FS_CardinalityType DEF ArchiveOK, Count
<1>4. ASSUME ~ok PROVE IInv'
  <2>1. build' = Idle /\ archive' = archive
    BY <1>4 DEF Commit
  <2>2. build' \in BuildType /\ BuildOK'
    BY <2>1, Stops
  <2> QED
    BY <1>1, <2>1, <2>2 DEF IInv, TypeOK, BuildType
<1>5. ASSUME ok PROVE IInv'
  <2>1. archive' = [archive EXCEPT ![w] = b]
    BY <1>5 DEF Commit
  <2>2. build' = [build EXCEPT !.at = "read", !.done = BatchEnd]
    BY <1>5 DEF Commit
  <2>3. /\ BatchEnd \in Nat /\ BatchEnd <= Len(ComponentRows) /\ Batch \in Seq(Row)
    BY <1>1, BatchRows DEF IInv
  <2>4. P \subseteq Row
    BY <2>3 DEF Pending
  (* The places of the new texts follow those in use.                      *)
  <2>5. ASSUME NEW t \in MissingTexts
        PROVE  \E i \in 1..k : Missing[i] = t /\ ix[t] = c + i - 1
    <3> DEFINE i == CHOOSE j \in DOMAIN Missing : Missing[j] = t
    <3>1. i \in 1..k /\ Missing[i] = t
      BY <1>2
    <3>2. ix[t] = Position(a, i)
      BY <1>2
    <3>3. Position(a, i) = c + i - 1
      BY DEF Position, Count
    <3> QED
      BY <3>1, <3>2, <3>3
  <2>6. ASSUME NEW t \in Text \ MissingTexts PROVE ix[t] = a.index[t]
    BY <1>2
  <2>7. ix \in Index
    <3>1. \A t \in MissingTexts : ix[t] \in Nat
      BY <1>2, <1>3, <2>5
    <3>2. \A t \in Text : a.index[t] \in Nat \cup {Nil}
      BY <1>1 DEF Archive, Index
    <3>3. \A t \in Text : ix[t] \in Nat \cup {Nil}
      BY <2>6, <3>1, <3>2
    <3>4. ix = [t \in Text |-> ix[t]]
      OBVIOUS
    <3> HIDE DEF ix
    <3> QED
      BY <3>3, <3>4 DEF Index
  <2> HIDE DEF ix
  <2>8. /\ b \in Archive /\ b.index = ix /\ b.ident = a.ident /\ b.binary = a.binary
    BY <1>1, <2>4, <2>7 DEF Archive, MakeArchive
  <2> HIDE DEF b
  <2>9. Indexed(b) = Indexed(a) \cup MissingTexts
    <3>1. \A t \in MissingTexts : ix[t] # Nil
      BY <1>2, <1>3, <2>5, ArchiveAssumption
    <3> QED
      BY <1>2, <2>6, <2>8, <3>1 DEF Indexed
  <2>10. IsFiniteSet(Indexed(b)) /\ Count(b) = c + k
    <3>1. Cardinality(Indexed(a) \cap MissingTexts) = 0
      BY <1>2, FS_EmptySet
    <3> DEFINE X == Indexed(a)  Y == MissingTexts
    <3>2. IsFiniteSet(X) /\ IsFiniteSet(Y) /\ Cardinality(X \cap Y) = 0
      BY <1>2, <1>3, <3>1
    <3>3. Cardinality(X) \in Nat /\ Cardinality(Y) \in Nat
      BY <3>2, FS_CardinalityType
    <3> HIDE DEF X, Y
    <3>4. /\ IsFiniteSet(X \cup Y)
          /\ Cardinality(X \cup Y) = Cardinality(X) + Cardinality(Y) - Cardinality(X \cap Y)
      BY <3>2, FS_Union
    <3>5. Cardinality(X \cup Y) = Cardinality(X) + Cardinality(Y)
      BY <3>2, <3>3, <3>4
    <3> QED
      BY <2>9, <3>4, <3>5 DEF Count, X, Y
  <2>11. ArchiveOK(b)
    <3>1. Count(b) <= Len(b.binary)
      BY <1>1, <1>2, <1>3, <2>8, <2>10
    <3>2. ASSUME NEW t \in Indexed(a)
          PROVE  /\ b.ident # Nil /\ b.index[t] < Count(b)
                 /\ b.binary[b.index[t] + 1] = <<t, b.ident[2]>>
      <4>1. t \in Text \ MissingTexts /\ a.index[t] \in Nat
        BY <1>1, <1>2 DEF Indexed, Archive, Index
      <4>2. b.index[t] = a.index[t]
        BY <2>6, <2>8, <4>1
      <4>3. /\ a.ident # Nil /\ a.index[t] < c
            /\ a.binary[a.index[t] + 1] = <<t, a.ident[2]>>
        BY <1>1 DEF ArchiveOK
      <4>4. a.index[t] < c + k
        BY <1>2, <1>3, <4>1, <4>3
      <4> QED
        BY <2>8, <2>10, <4>2, <4>3, <4>4
    <3>3. ASSUME NEW t \in MissingTexts
          PROVE  /\ b.ident # Nil /\ b.index[t] < Count(b)
                 /\ b.binary[b.index[t] + 1] = <<t, b.ident[2]>>
      <4>1. PICK i \in 1..k : Missing[i] = t /\ ix[t] = c + i - 1
        BY <2>5
      <4>2. b.index[t] < Count(b) /\ b.index[t] + 1 = c + i
        BY <1>2, <1>3, <2>8, <2>10, <4>1
      <4>3. b.binary[c + i] = <<t, build.model>>
        BY <1>1, <2>8, <4>1
      <4>4. b.ident = <<build.corpus, build.model>> /\ b.ident \in Digest
        <5>1. b.ident = Binding
          BY <1>1, <2>8
        <5>2. build.model \in Model
          BY <1>1 DEF BuildType
        <5> QED
          BY <1>1, <5>1, <5>2 DEF Binding, Digest
      <4>5. b.ident # Nil
        BY <4>4, ArchiveAssumption
      <4> QED
        BY <4>2, <4>3, <4>4, <4>5
    <3> QED
      BY <2>9, <2>10, <3>1, <3>2, <3>3 DEF ArchiveOK
  <2>12. /\ archive' \in [Workspace -> Archive] /\ archive'[w] = b
         /\ \A v \in Workspace : ArchiveOK(archive'[v])
    BY <1>1, <2>1, <2>8, <2>11, OneArchive
  <2>13. /\ build' \in BuildType /\ build'.at = "read" /\ build'.ws = w
         /\ build'.corpus = build.corpus /\ build'.model = build.model
         /\ build'.comp = build.comp /\ build'.done = BatchEnd
    BY <1>1, <2>2, <2>3 DEF BuildType, At
  <2>14. Here' = b /\ Binding' = Binding /\ ComponentRows' = ComponentRows
    BY <2>12, <2>13 DEF Here, Binding, ComponentRows
  <2>15. Len(Here'.binary) = Count(Here') /\ Here'.ident = Binding'
    BY <1>1, <2>8, <2>10, <2>14
  <2>16. BuildOK'
    BY <1>1, <2>3, <2>13, <2>14, <2>15 DEF BuildOK, InArchive
  <2> QED
    BY <1>1, <2>12, <2>13, <2>16 DEF IInv, TypeOK, BuildType
<1> QED
  BY <1>4, <1>5
-----------------------------------------------------------------------------
LEMMA Begins == Init => IInv
<1> SUFFICES ASSUME Init PROVE IInv
  OBVIOUS
<1>1. NoArchive \in Archive /\ ArchiveOK(NoArchive)
  <2>1. <<>> \in Binary /\ [t \in Text |-> Nil] \in Index
    BY DEF Binary, Index
  <2>2. Indexed(NoArchive) = {} /\ NoArchive.binary = <<>>
    BY DEF Indexed, NoArchive, MakeArchive
  <2>3. IsFiniteSet(Indexed(NoArchive)) /\ Count(NoArchive) = 0
    BY <2>2, FS_EmptySet DEF Count
  <2>4. ArchiveOK(NoArchive)
    BY <2>2, <2>3 DEF ArchiveOK
  <2> QED
    BY <2>1, <2>4 DEF NoArchive, MakeArchive, Archive
<1>2. Idle \in BuildType /\ Idle.at = "idle"
  <2>1. Idle \in BuildType
    BY BuildMade DEF Idle, At, Workspace, Model
  <2> QED
    BY <2>1 DEF Idle, MakeBuild
<1>3. BuildOK
  BY <1>2 DEF Init, BuildOK, InArchive
<1> QED
  BY <1>1, <1>2, <1>3 DEF Init, IInv, TypeOK, BuildType

LEMMA Stutters == ASSUME IInv, UNCHANGED vars PROVE IInv'
<1>1. UNCHANGED <<corpus, bundle, archive, build>>
  BY DEF vars
<1>2. Here' = Here /\ Binding' = Binding /\ ComponentRows' = ComponentRows
  BY <1>1 DEF Here, Binding, ComponentRows
<1>3. Count(Here)' = Count(Here) /\ MissingTexts' = MissingTexts /\ Missing' = Missing
  BY <1>1, SamePlace DEF Here
<1>4. BuildOK'
  BY <1>1, <1>2, <1>3 DEF IInv, BuildOK, InArchive
<1> QED
  BY <1>1, <1>4 DEF IInv, TypeOK

LEMMA StepKeeps == ASSUME IInv, [Next]_vars PROVE IInv'
BY NewCorpusKeeps, FreshRootKeeps, StartKeeps, WriteBundleKeeps, OpenKeeps, ReadKeeps,
     EmbedKeeps, WriteKeeps, CommitKeeps, FinishKeeps, FailOverKeeps, CrashKeeps, Stutters
  DEF Next

THEOREM Invariance == Spec => []IInv
BY Begins, StepKeeps, PTL DEF Spec

(* Every file and every step of the builder is of the kind it is meant to  *)
(* be, whatever the corpus and however large its batches are.              *)
THEOREM TypeCorrect == Spec => []TypeOK
<1>1. IInv => TypeOK
  BY DEF IInv
<1> QED
  BY <1>1, Invariance, PTL

(* However often the builder crashes, is resumed, retried or fails over,   *)
(* the vector the index of an archive names for a text is the embedding of *)
(* that text by the one model of the archive.                              *)
THEOREM IndexIsTrue == Spec => []IndexTrue
<1>1. ASSUME IInv PROVE IndexTrue
  <2>1. SUFFICES ASSUME NEW w \in Workspace, NEW t \in Indexed(archive[w])
                 PROVE  /\ archive[w].ident # Nil
                        /\ archive[w].index[t] < Len(archive[w].binary)
                        /\ archive[w].binary[archive[w].index[t] + 1] = <<t, archive[w].ident[2]>>
    BY DEF IndexTrue
  <2> DEFINE a == archive[w]
  <2>2. a \in Archive /\ ArchiveOK(a)
    BY <1>1 DEF IInv, TypeOK
  <2>3. /\ IsFiniteSet(Indexed(a)) /\ Count(a) <= Len(a.binary) /\ a.ident # Nil
        /\ a.index[t] < Count(a) /\ a.binary[a.index[t] + 1] = <<t, a.ident[2]>>
    BY <2>2 DEF ArchiveOK
  <2>4. Count(a) \in Nat /\ Len(a.binary) \in Nat /\ a.index[t] \in Nat
    <3>1. Len(a.binary) \in Nat
      BY <2>2 DEF Archive, Binary
    <3>2. a.index[t] \in Nat
      BY <2>2 DEF Archive, Index, Indexed
    <3> QED
      BY <2>3, <3>1, <3>2, FS_CardinalityType DEF Count
  <2> HIDE DEF a
  <2>5. a.index[t] < Len(a.binary)
    BY <2>3, <2>4
  <2> QED
    BY <2>3, <2>5 DEF a
<1> QED
  BY <1>1, Invariance, PTL
-----------------------------------------------------------------------------
(* The published archive.                                                  *)

RowsOf(c) == UNION {{Rows[c][k][i] : i \in DOMAIN Rows[c][k]} : k \in Component}

(* An archive holds rows of the corpus it is bound to, each with a vector  *)
(* for its text, and no other vectors.  Under a manifest it holds all of   *)
(* them, the binary ends where the index says, and nothing has moved since.*)
Entered(a) ==
  /\ \A r \in a.items : a.index[TextOf[r]] # Nil
  /\ Indexed(a) \subseteq {TextOf[r] : r \in a.items}
  /\ a.items \subseteq IF a.ident = Nil THEN {} ELSE RowsOf(a.ident[1])
Sealed(a) ==
  a.manifest # Nil =>
    /\ a.ident # Nil /\ a.manifest.digest = a.ident
    /\ a.index = a.manifest.index /\ a.items = a.manifest.items
    /\ a.binary = a.manifest.binary
    /\ a.items = RowsOf(a.ident[1])
    /\ Len(a.binary) = Count(a)

(* The rows the builder has passed are in the archive, and it only adds to *)
(* an archive that has no manifest.                                        *)
Passed ==
  /\ InArchive => \A k \in Component : k < build.comp =>
       \A i \in DOMAIN Rows[build.corpus][k] : Rows[build.corpus][k][i] \in Here.items
  /\ InArchive /\ build.comp \in Component =>
       \A i \in 1..build.done : ComponentRows[i] \in Here.items
  /\ build.at \in {"embed", "write", "commit"} => Here.manifest = Nil

SInv ==
  /\ \A w \in Workspace : Entered(archive[w]) /\ Sealed(archive[w])
  /\ Passed

LEMMA OneSealed ==
  ASSUME IInv, SInv, NEW w \in Workspace, NEW a, Entered(a), Sealed(a),
         archive' = [archive EXCEPT ![w] = a]
  PROVE  /\ \A v \in Workspace : Entered(archive'[v]) /\ Sealed(archive'[v])
         /\ archive'[w] = a
<1> HIDE DEF Entered, Sealed
<1>1. /\ archive \in [Workspace -> Archive]
      /\ \A v \in Workspace : Entered(archive[v]) /\ Sealed(archive[v])
  BY DEF IInv, TypeOK, SInv
<1> QED
  BY <1>1

(* The rows of a batch are the rows of the component that follow those     *)
(* passed.                                                                 *)
LEMMA BatchNext ==
  ASSUME TypeOK, build.corpus \in Corpus, build.comp \in Component,
         build.done <= Len(ComponentRows)
  PROVE  /\ \A i \in DOMAIN Batch : /\ Batch[i] \in RowsOf(build.corpus)
                                    /\ Batch[i] \in Row
         /\ \A j \in build.done + 1..BatchEnd :
              \E i \in DOMAIN Batch : Batch[i] = ComponentRows[j]
<1>1. /\ ComponentRows \in Seq(Row) /\ Len(ComponentRows) \in Nat /\ build.done \in Nat
      /\ BatchEnd \in Nat /\ build.done <= BatchEnd /\ BatchEnd <= Len(ComponentRows)
      /\ Batch \in Seq(Row)
  BY BatchRows DEF TypeOK
<1>2. /\ Len(Batch) = BatchEnd - build.done
      /\ \A i \in 1..BatchEnd - build.done : Batch[i] = ComponentRows[build.done + i]
  BY <1>1 DEF Batch
<1>3. DOMAIN Batch = 1..BatchEnd - build.done
  BY <1>1, <1>2
<1>4. ASSUME NEW i \in DOMAIN Batch
      PROVE  Batch[i] \in RowsOf(build.corpus) /\ Batch[i] \in Row
  <2>1. build.done + i \in DOMAIN ComponentRows /\ Batch[i] = ComponentRows[build.done + i]
    BY <1>1, <1>2, <1>3
  <2> QED
    BY <1>1, <1>3, <2>1 DEF RowsOf, ComponentRows
<1>5. ASSUME NEW j \in build.done + 1..BatchEnd
      PROVE  \E i \in DOMAIN Batch : Batch[i] = ComponentRows[j]
  <2>1. j - build.done \in DOMAIN Batch
    BY <1>1, <1>3
  <2>2. Batch[j - build.done] = ComponentRows[j]
    BY <1>1, <1>2, <1>3, <2>1
  <2> QED
    BY <2>1, <2>2
<1> QED
  BY <1>4, <1>5

(* A step that leaves the archives and puts the builder out of its archive.*)
LEMMA SealedOutside ==
  ASSUME SInv, archive' = archive,
         build' = build \/ build'.at \in {"idle", "bundle", "open", "raised"}
  PROVE  SInv'
<1>1. CASE build' = build
  BY <1>1 DEF SInv, Passed, InArchive, ComponentRows, Here
<1>2. CASE build'.at \in {"idle", "bundle", "open", "raised"}
  <2>1. Passed'
    BY <1>2 DEF Passed, InArchive
  <2> QED
    BY <2>1 DEF SInv
<1> QED
  BY <1>1, <1>2

LEMMA IdleAt == Idle.at = "idle"
BY DEF Idle, MakeBuild

LEMMA SealedNoArchive == Entered(NoArchive) /\ Sealed(NoArchive)
BY DEF Entered, Sealed, NoArchive, MakeArchive, Indexed

LEMMA SealedOpen == ASSUME IInv, SInv, Open PROVE SInv'
<1> DEFINE w == build.ws  a == archive[w]  ok == Identified(Here, Binding)
           b == MakeArchive(IF ok THEN Binding ELSE a.ident, a.index, a.items,
                            Repaired(a), a.manifest)
<1>1. /\ w \in Workspace /\ a \in Archive /\ ArchiveOK(a) /\ Here = a
      /\ build \in BuildType /\ build.comp = 1 /\ build.done = 0
      /\ Entered(a) /\ Sealed(a)
  BY DEF IInv, TypeOK, BuildType, BuildOK, Open, Here, SInv
<1>2. /\ archive' = [archive EXCEPT ![w] = b]
      /\ build' = IF ok THEN [build EXCEPT !.at = "read"] ELSE Idle
  BY DEF Open
<1>3. ok => a.ident = Nil \/ a.ident = Binding
  BY <1>1 DEF Identified
<1>4. a.manifest # Nil => Repaired(a) = a.binary
  <2> SUFFICES ASSUME a.manifest # Nil PROVE Repaired(a) = a.binary
    OBVIOUS
  <2>1. a.binary \in Seq(Vector \cup {Torn}) /\ Count(a) = Len(a.binary)
    BY <1>1 DEF Archive, Binary, Sealed
  <2>2. Repaired(a) = SubSeq(a.binary, 1, Len(a.binary))
    BY <2>1 DEF Repaired, Count
  <2> HIDE DEF a
  <2> QED
    BY <2>1, <2>2
<1> HIDE DEF w, a, ok
<1>5. /\ b.index = a.index /\ b.binary = Repaired(a) /\ b.items = a.items
      /\ b.manifest = a.manifest /\ b.ident = IF ok THEN Binding ELSE a.ident
  BY DEF MakeArchive
<1> HIDE DEF b
<1>6. Entered(b)
  BY <1>1, <1>3, <1>5 DEF Entered, Indexed
<1>7. Count(b) = Count(a)
  BY <1>5 DEF Count, Indexed
<1>8. Sealed(b)
  BY <1>1, <1>3, <1>4, <1>5, <1>7 DEF Sealed
<1>9. \A v \in Workspace : Entered(archive'[v]) /\ Sealed(archive'[v])
  BY <1>1, <1>2, <1>6, <1>8, OneSealed
<1>10. Passed'
  <2>1. CASE ~ok
    BY <1>2, <2>1, IdleAt DEF Passed, InArchive
  <2>2. CASE ok
    <3>1. build'.at = "read" /\ build'.comp = 1 /\ build'.done = 0
      BY <1>1, <1>2, <2>2 DEF BuildType
    <3> QED
      BY <3>1 DEF Passed, Component
  <2> QED
    BY <2>1, <2>2
<1> QED
  BY <1>9, <1>10 DEF SInv

LEMMA SealedRead == ASSUME IInv, SInv, Read PROVE SInv'
<1>1. /\ build \in BuildType /\ build.at = "read" /\ build.comp \in Component
      /\ archive' = archive /\ build.corpus \in Corpus /\ build.done <= Len(ComponentRows)
      /\ Here.ident = Binding /\ build.done \in Nat /\ InArchive /\ build.ws \in Workspace
  BY DEF IInv, TypeOK, Read, BuildType, BuildOK, InArchive
<1>2. /\ ComponentRows \in Seq(Row) /\ Len(ComponentRows) \in Nat
      /\ BatchEnd \in Nat /\ build.done <= BatchEnd /\ BatchEnd <= Len(ComponentRows)
  BY <1>1, BatchRows DEF IInv
<1>3. /\ \A i \in DOMAIN Batch : Batch[i] \in RowsOf(build.corpus)
      /\ \A j \in build.done + 1..BatchEnd : \E i \in DOMAIN Batch : Batch[i] = ComponentRows[j]
  BY <1>1, BatchNext DEF IInv
<1>4. /\ \A k \in Component : k < build.comp =>
           \A i \in DOMAIN Rows[build.corpus][k] : Rows[build.corpus][k][i] \in Here.items
      /\ \A i \in 1..build.done : ComponentRows[i] \in Here.items
  BY <1>1 DEF SInv, Passed
<1>5. SUFFICES Passed'
  BY <1>1 DEF SInv
<1>6. CASE build.done = Len(ComponentRows)
  <2>1. build' = [build EXCEPT !.comp = @ + 1, !.done = 0]
    BY <1>6 DEF Read
  <2>2. /\ build'.at = "read" /\ build'.ws = build.ws /\ build'.done = 0
        /\ build'.corpus = build.corpus /\ build'.comp = build.comp + 1
    BY <1>1, <2>1 DEF BuildType
  <2>3. Here' = Here
    BY <1>1, <2>2 DEF Here
  <2>4. ASSUME NEW k \in Component, k < build.comp + 1, NEW i \in DOMAIN Rows[build.corpus][k]
        PROVE  Rows[build.corpus][k][i] \in Here.items
    <3>1. CASE k < build.comp
      BY <1>4, <2>4, <3>1
    <3>2. CASE k = build.comp
      <4>1. DOMAIN ComponentRows = 1..build.done
        BY <1>2, <1>6
      <4> QED
        BY <1>4, <2>4, <3>2, <4>1 DEF ComponentRows
    <3> QED
      BY <1>1, <2>4, <3>1, <3>2 DEF Component
  <2> QED
    BY <2>2, <2>3, <2>4 DEF Passed, InArchive
<1>7. CASE build.done # Len(ComponentRows) /\ Pending = {}
  <2>1. build' = [build EXCEPT !.done = BatchEnd]
    BY <1>7 DEF Read
  <2>2. /\ build'.at = "read" /\ build'.ws = build.ws /\ build'.done = BatchEnd
        /\ build'.corpus = build.corpus /\ build'.comp = build.comp
    BY <1>1, <2>1 DEF BuildType
  <2>3. Here' = Here /\ ComponentRows' = ComponentRows
    BY <1>1, <2>2 DEF Here, ComponentRows
  <2>4. ASSUME NEW j \in 1..BatchEnd PROVE ComponentRows[j] \in Here.items
    <3>1. CASE j \in 1..build.done
      BY <1>4, <3>1
    <3>2. CASE j \in build.done + 1..BatchEnd
      BY <1>3, <1>7, <3>2 DEF Pending
    <3> QED
      BY <1>1, <1>2, <3>1, <3>2
  <2> QED
    BY <1>4, <2>2, <2>3, <2>4 DEF Passed, InArchive
<1>8. CASE build.done # Len(ComponentRows) /\ Pending # {}
  <2>1. build' = [build EXCEPT !.at = IF MissingTexts = {} THEN "commit" ELSE "embed"]
    BY <1>8 DEF Read
  <2>2. /\ build'.at \in {"commit", "embed"} /\ build'.ws = build.ws
        /\ build'.corpus = build.corpus /\ build'.comp = build.comp /\ build'.done = build.done
    BY <1>1, <2>1 DEF BuildType
  <2>3. Here' = Here /\ ComponentRows' = ComponentRows
    BY <1>1, <2>2 DEF Here, ComponentRows
  (* Under a manifest there would be nothing left to do.                   *)
  <2>4. Here.manifest = Nil
    <3> SUFFICES ASSUME Here.manifest # Nil PROVE FALSE
      OBVIOUS
    <3>1. Here.items = RowsOf(Here.ident[1])
      BY <1>1 DEF SInv, Sealed, Here
    <3>2. Here.ident[1] = build.corpus
      BY <1>1 DEF Binding
    <3> QED
      BY <1>3, <1>8, <3>1, <3>2 DEF Pending
  <2> QED
    BY <1>4, <2>2, <2>3, <2>4 DEF Passed, InArchive
<1> QED
  BY <1>6, <1>7, <1>8

LEMMA SealedEmbed == ASSUME IInv, SInv, Embed PROVE SInv'
<1>1. build \in BuildType /\ build.at = "embed" /\ archive' = archive
  BY DEF IInv, TypeOK, Embed, BuildType
<1>2. /\ build'.at \in {"embed", "write", "raised"} /\ build'.ws = build.ws
      /\ build'.corpus = build.corpus /\ build'.comp = build.comp /\ build'.done = build.done
  BY <1>1 DEF Embed, BuildType
<1>3. Here' = Here /\ ComponentRows' = ComponentRows
  BY <1>1, <1>2 DEF Here, ComponentRows
<1>4. Passed'
  BY <1>1, <1>2, <1>3 DEF SInv, Passed, InArchive
<1> QED
  BY <1>1, <1>4 DEF SInv

(* More vectors in an archive that has no manifest.                        *)
LEMMA SealedGrown ==
  ASSUME NEW a \in Archive, Entered(a), a.manifest = Nil, NEW v
  PROVE  LET b == [a EXCEPT !.binary = v] IN
           /\ Entered(b) /\ Sealed(b)
           /\ b.items = a.items /\ b.manifest = Nil
<1> DEFINE b == [a EXCEPT !.binary = v]
<1>1. b.items = a.items /\ b.index = a.index /\ b.ident = a.ident /\ b.manifest = Nil
  BY DEF Archive
<1> HIDE DEF b
<1>2. Entered(b) /\ Sealed(b)
  BY <1>1 DEF Entered, Sealed, Indexed
<1> QED
  BY <1>1, <1>2 DEF b

LEMMA SealedWrite == ASSUME IInv, SInv, Write PROVE SInv'
<1> DEFINE w == build.ws  a == archive[w]  b == [a EXCEPT !.binary = a.binary \o NewVectors]
<1>1. /\ build \in BuildType /\ build.at = "write" /\ InArchive /\ w \in Workspace /\ Here = a
      /\ a \in Archive /\ Entered(a) /\ a.manifest = Nil
  BY DEF IInv, TypeOK, Write, BuildType, InArchive, Here, SInv, Passed
<1>2. archive' = [archive EXCEPT ![w] = b]
  BY <1>1 DEF Write
<1>3. /\ Entered(b) /\ Sealed(b) /\ b.items = a.items /\ b.manifest = Nil
  BY <1>1, SealedGrown
<1>4. /\ build'.at = "commit" /\ build'.ws = w /\ build'.corpus = build.corpus
      /\ build'.comp = build.comp /\ build'.done = build.done
  BY <1>1 DEF Write, BuildType
<1> HIDE DEF w, a, b
<1>5. /\ \A v \in Workspace : Entered(archive'[v]) /\ Sealed(archive'[v])
      /\ archive'[w] = b
  BY <1>1, <1>2, <1>3, OneSealed
<1>6. Here'.items = Here.items /\ Here'.manifest = Nil /\ ComponentRows' = ComponentRows
  BY <1>1, <1>3, <1>4, <1>5 DEF Here, ComponentRows
<1>7. Passed'
  BY <1>1, <1>4, <1>6 DEF SInv, Passed, InArchive
<1> QED
  BY <1>5, <1>7 DEF SInv

LEMMA SealedCrash == ASSUME IInv, SInv, Crash PROVE SInv'
<1>1. build' = Idle /\ build'.at = "idle"
  BY IdleAt DEF Crash
<1>2. CASE build.at # "write"
  BY <1>1, <1>2, SealedOutside DEF Crash
<1>3. CASE build.at = "write"
  <2> DEFINE w == build.ws  a == archive[w]
  <2>1. PICK v : archive' = [archive EXCEPT ![w] = [a EXCEPT !.binary = v]]
    BY <1>3 DEF Crash
  <2>2. w \in Workspace /\ a \in Archive /\ Entered(a) /\ a.manifest = Nil
    BY <1>3 DEF IInv, TypeOK, Here, SInv, Passed
  <2>3. Entered([a EXCEPT !.binary = v]) /\ Sealed([a EXCEPT !.binary = v])
    BY <2>2, SealedGrown
  <2> HIDE DEF w, a
  <2>4. \A u \in Workspace : Entered(archive'[u]) /\ Sealed(archive'[u])
    BY <2>1, <2>2, <2>3, OneSealed
  <2>5. Passed'
    BY <1>1 DEF Passed, InArchive
  <2> QED
    BY <2>4, <2>5 DEF SInv
<1> QED
  BY <1>2, <1>3

(* The rows of the batch enter together with the vectors they lacked.      *)
LEMMA SealedCommit == ASSUME IInv, SInv, Commit PROVE SInv'
<1> DEFINE w == build.ws  a == archive[w]
           P == {Batch[i] : i \in Pending}
           ix == [t \in Text |->
                    IF \E i \in DOMAIN Missing : Missing[i] = t
                    THEN Position(a, CHOOSE i \in DOMAIN Missing : Missing[i] = t)
                    ELSE a.index[t]]
           b == MakeArchive(a.ident, ix, a.items \cup P, a.binary, a.manifest)
           ok == \A i, j \in Pending : Batch[i] = Batch[j] => i = j
<1>1. /\ build \in BuildType /\ build.at = "commit" /\ build.comp \in Component
      /\ build.corpus \in Corpus /\ build.done <= Len(ComponentRows) /\ build.done \in Nat
      /\ a.ident = Binding /\ Here = a /\ a \in Archive /\ ArchiveOK(a) /\ w \in Workspace
      /\ Entered(a) /\ a.manifest = Nil /\ InArchive
  BY DEF IInv, TypeOK, Commit, BuildType, BuildOK, InArchive, Here, SInv, Passed
<1>2. CASE ~ok
  <2>1. build' = Idle /\ archive' = archive
    BY <1>2 DEF Commit
  <2> QED
    BY <2>1, SealedOutside, IdleAt
<1>3. CASE ok
  <2>1. /\ archive' = [archive EXCEPT ![w] = b]
        /\ build' = [build EXCEPT !.at = "read", !.done = BatchEnd]
    BY <1>3 DEF Commit
  <2>2. /\ IsFiniteSet(MissingTexts) /\ MissingTexts \subseteq Text
        /\ Missing \in [1..Cardinality(MissingTexts) -> MissingTexts]
        /\ \A t \in MissingTexts : \E i \in 1..Cardinality(MissingTexts) : Missing[i] = t
        /\ Cardinality(MissingTexts) \in Nat /\ Cardinality(Indexed(a)) \in Nat
    BY <1>1, MissingFinite, MissingAll, FS_CardinalityType DEF IInv, ArchiveOK
  <2>3. /\ \A i \in DOMAIN Batch : Batch[i] \in RowsOf(build.corpus) /\ Batch[i] \in Row
        /\ \A j \in build.done + 1..BatchEnd : \E i \in DOMAIN Batch : Batch[i] = ComponentRows[j]
        /\ BatchEnd \in Nat /\ build.done <= BatchEnd
    BY <1>1, BatchNext, BatchRows DEF IInv
  <2>4. ASSUME NEW t \in Text, t \in Indexed(a) \cup MissingTexts PROVE ix[t] # Nil
    <3>1. CASE \E i \in DOMAIN Missing : Missing[i] = t
      <4> DEFINE i == CHOOSE j \in DOMAIN Missing : Missing[j] = t
      <4>1. i \in 1..Cardinality(MissingTexts)
        BY <2>2, <3>1
      <4>2. ix[t] = Cardinality(Indexed(a)) + i - 1
        BY <3>1 DEF Position
      <4> HIDE DEF i, ix
      <4>3. ix[t] \in Nat
        BY <2>2, <4>1, <4>2
      <4> QED
        BY <4>3, ArchiveAssumption
    <3>2. CASE ~\E i \in DOMAIN Missing : Missing[i] = t
      <4>1. t \notin MissingTexts
        BY <2>2, <3>2
      <4> QED
        BY <2>4, <3>2, <4>1 DEF Indexed
    <3> QED
      BY <3>1, <3>2
  <2>5. /\ b.index = ix /\ b.items = a.items \cup P /\ b.ident = a.ident /\ b.manifest = Nil
    BY <1>1 DEF MakeArchive
  <2>6. Entered(b)
    <3>1. ASSUME NEW r \in a.items PROVE ix[TextOf[r]] # Nil
      <4>1. r \in Row /\ TextOf[r] \in Text /\ a.index[TextOf[r]] # Nil
        BY <1>1, <3>1, ArchiveAssumption DEF Archive, Entered
      <4> HIDE DEF a, ix
      <4> QED
        BY <2>4, <4>1 DEF Indexed
    <3>2. ASSUME NEW r \in P PROVE ix[TextOf[r]] # Nil
      <4>1. PICK i \in Pending : r = Batch[i]
        BY <3>2
      <4>2. r \in Row /\ TextOf[r] \in Text
        BY <2>3, <4>1, ArchiveAssumption DEF Pending
      <4>3. TextOf[r] \in Indexed(a) \cup MissingTexts
        BY <1>1, <4>1 DEF MissingTexts
      <4> QED
        BY <2>4, <4>2, <4>3
    <3>3. a.ident # Nil /\ a.ident[1] = build.corpus
      <4>1. Binding \in Digest
        BY <1>1 DEF Binding, Digest, BuildType
      <4>2. Binding # Nil /\ Binding[1] = build.corpus
        <5>1. Binding # Nil
          BY <4>1, ArchiveAssumption
        <5> QED
          BY <5>1 DEF Binding
      <4>3. a.ident = Binding
        BY <1>1
      <4> HIDE DEF a
      <4> QED
        BY <4>2, <4>3
    <3>4. P \subseteq RowsOf(build.corpus)
      BY <2>3 DEF Pending
    <3>5. ASSUME NEW t \in Text, ix[t] # Nil PROVE \E r \in a.items \cup P : t = TextOf[r]
      <4>1. CASE \E i \in DOMAIN Missing : Missing[i] = t
        BY <2>2, <4>1 DEF MissingTexts
      <4>2. CASE ~\E i \in DOMAIN Missing : Missing[i] = t
        <5>1. t \in Indexed(a)
          BY <3>5, <4>2 DEF Indexed
        <5> HIDE DEF a
        <5> QED
          BY <1>1, <5>1 DEF Entered
      <4> QED
        BY <4>1, <4>2
    <3> HIDE DEF a, b, P, ix
    <3>6. Indexed(b) \subseteq {TextOf[r] : r \in a.items \cup P}
      BY <2>5, <3>5 DEF Indexed
    <3> QED
      BY <1>1, <2>5, <3>1, <3>2, <3>3, <3>4, <3>6 DEF Entered
  <2>7. Sealed(b)
    BY <2>5 DEF Sealed
  <2>8. /\ build'.at = "read" /\ build'.ws = w /\ build'.corpus = build.corpus
        /\ build'.comp = build.comp /\ build'.done = BatchEnd
    BY <1>1, <2>1 DEF BuildType
  <2> HIDE DEF w, b, ok
  <2>9. /\ \A v \in Workspace : Entered(archive'[v]) /\ Sealed(archive'[v])
        /\ archive'[w] = b
    BY <1>1, <2>1, <2>6, <2>7, OneSealed
  <2>10. Here'.items = Here.items \cup P /\ ComponentRows' = ComponentRows
    BY <1>1, <2>5, <2>8, <2>9 DEF Here, ComponentRows
  <2>11. ASSUME NEW j \in 1..BatchEnd PROVE ComponentRows[j] \in Here'.items
    <3>1. CASE j \in 1..build.done
      BY <1>1, <2>10, <3>1 DEF SInv, Passed
    <3>2. CASE j \in build.done + 1..BatchEnd
      <4>1. PICK i \in DOMAIN Batch : Batch[i] = ComponentRows[j]
        BY <2>3, <3>2
      <4> QED
        BY <2>10, <4>1 DEF Pending
    <3> QED
      BY <1>1, <2>3, <3>1, <3>2
  <2>12. Passed'
    BY <1>1, <2>8, <2>10, <2>11 DEF SInv, Passed, InArchive
  <2> QED
    BY <2>9, <2>12 DEF SInv
<1> QED
  BY <1>2, <1>3

(* A manifest is written over the rows of all three components.            *)
LEMMA SealedFinish == ASSUME IInv, SInv, Finish PROVE SInv'
<1> DEFINE w == build.ws  a == archive[w]
           m == [digest |-> Binding, index |-> a.index, items |-> a.items,
                 binary |-> a.binary]
           b == [a EXCEPT !.manifest = m]
<1>1. /\ build \in BuildType /\ build.at = "read" /\ build.comp = 4 /\ InArchive
      /\ w \in Workspace /\ Here = a /\ a \in Archive /\ ArchiveOK(a)
      /\ a.ident = Binding /\ Len(a.binary) = Count(a) /\ build.corpus \in Corpus
      /\ Entered(a) /\ Binding \in Digest /\ Binding # Nil
  <2>1. /\ build \in BuildType /\ build.at = "read" /\ build.comp = 4 /\ InArchive
        /\ w \in Workspace /\ Here = a /\ a \in Archive /\ ArchiveOK(a)
        /\ a.ident = Binding /\ Len(a.binary) = Count(a) /\ build.corpus \in Corpus
        /\ Entered(a)
    BY DEF Finish, IInv, TypeOK, BuildType, BuildOK, InArchive, Here, SInv, Component
  <2>2. Binding \in Digest
    BY <2>1 DEF Binding, Digest, BuildType
  <2> QED
    BY <2>1, <2>2, ArchiveAssumption
<1>2. build'.at = "idle"
  BY IdleAt DEF Finish
<1>3. CASE archive' = archive
  BY <1>2, <1>3, SealedOutside
<1>4. CASE archive' = [archive EXCEPT ![w] = b]
  <2>1. /\ b.index = a.index /\ b.ident = a.ident /\ b.binary = a.binary /\ b.items = a.items
        /\ b.manifest = m
    BY <1>1 DEF Archive
  <2>2. /\ m.digest = Binding /\ m.index = a.index /\ m.items = a.items /\ m.binary = a.binary
    OBVIOUS
  <2>3. a.items = RowsOf(build.corpus) /\ a.ident[1] = build.corpus
    <3>1. \A k \in Component : \A i \in DOMAIN Rows[build.corpus][k] :
            Rows[build.corpus][k][i] \in a.items
      BY <1>1 DEF SInv, Passed, Component
    <3>2. a.ident[1] = build.corpus
      BY <1>1 DEF Binding
    <3>3. a.items \subseteq RowsOf(build.corpus)
      BY <1>1, <3>2 DEF Entered
    <3> HIDE DEF a
    <3> QED
      BY <3>1, <3>2, <3>3 DEF RowsOf
  <2> HIDE DEF w, a, m, b
  <2>4. Entered(b)
    BY <1>1, <2>1 DEF Entered, Indexed
  <2>5. Count(b) = Count(a)
    BY <2>1 DEF Count, Indexed
  <2>6. Sealed(b)
    BY <1>1, <2>1, <2>2, <2>3, <2>5 DEF Sealed
  <2>7. \A v \in Workspace : Entered(archive'[v]) /\ Sealed(archive'[v])
    BY <1>1, <1>4, <2>4, <2>6, OneSealed
  <2>8. Passed'
    BY <1>2 DEF Passed, InArchive
  <2> QED
    BY <2>7, <2>8 DEF SInv
<1>5. archive' = archive \/ archive' = [archive EXCEPT ![w] = b]
  BY DEF Finish, Here
<1> QED
  BY <1>3, <1>4, <1>5

LEMMA SealedNext == ASSUME IInv, SInv, [Next]_vars PROVE SInv'
<1>1. ASSUME FreshRoot PROVE SInv'
  <2>1. PICK w \in Workspace : archive' = [archive EXCEPT ![w] = NoArchive]
    BY <1>1 DEF FreshRoot
  <2>2. \A v \in Workspace : Entered(archive'[v]) /\ Sealed(archive'[v])
    BY <2>1, OneSealed, SealedNoArchive
  <2>3. build'.at = "idle"
    BY <1>1 DEF FreshRoot
  <2> QED
    BY <2>2, <2>3 DEF SInv, Passed, InArchive
<1>2. ASSUME NewCorpus \/ UNCHANGED vars PROVE SInv'
  BY <1>2, SealedOutside DEF NewCorpus, vars
<1>3. ASSUME Start PROVE SInv'
  <2>1. archive' = archive /\ build'.at = "bundle"
    BY <1>3 DEF Start, MakeBuild
  <2> QED
    BY <2>1, SealedOutside
<1>4. ASSUME WriteBundle PROVE SInv'
  <2>1. archive' = archive /\ build'.at = "open"
    BY <1>4 DEF WriteBundle, IInv, TypeOK
  <2> QED
    BY <2>1, SealedOutside
<1>5. ASSUME FailOver PROVE SInv'
  <2>1. archive' = archive /\ build'.at \in {"bundle", "idle"}
    BY <1>5, IdleAt DEF FailOver, MakeBuild
  <2> QED
    BY <2>1, SealedOutside
<1> QED
  BY <1>1, <1>2, <1>3, <1>4, <1>5, SealedOpen, SealedRead, SealedEmbed, SealedWrite,
     SealedCommit, SealedFinish, SealedCrash
  DEF Next

LEMMA SealedInit == Init => SInv
BY SealedNoArchive, IdleAt DEF Init, SInv, Passed, InArchive

LEMMA SealedStands == SInv => ManifestStands
BY DEF SInv, Sealed, Entered, ManifestStands, RowsOf

(* A published archive stays the one its manifest describes, whatever run  *)
(* comes after it, for this corpus or another, and holds every row of the  *)
(* bundle it names.                                                        *)
THEOREM ManifestsStand == Spec => []ManifestStands
BY Invariance, SealedInit, SealedNext, SealedStands, PTL DEF Spec

(* An archive has vectors of the texts of its rows and of no other text.   *)
(* The import relies on it: a text that it looks up in the archive is the  *)
(* text of a row of the bundle.                                            *)
IndexOfItems ==
  \A w \in Workspace : Indexed(archive[w]) \subseteq {TextOf[r] : r \in archive[w].items}

THEOREM NoOtherVectors == Spec => []IndexOfItems
<1>1. SInv => IndexOfItems
  BY DEF SInv, Entered, IndexOfItems
<1> QED
  BY <1>1, Invariance, SealedInit, SealedNext, PTL DEF Spec
-----------------------------------------------------------------------------
(* The admission to the server.                                            *)

(* Artifacts that are one whole corpus under the model the server expects. *)
Serves(digest, x) ==
  /\ digest[2] = Expected
  /\ x.items = RowsOf(digest[1])
  /\ \A r \in x.items :
       /\ x.index[TextOf[r]] # Nil
       /\ x.binary[x.index[TextOf[r]] + 1] = <<TextOf[r], Expected>>

(* Two corpora that the counts do not tell apart, with rows of every kind. *)
Alike(d, e) ==
  \A k \in Component : /\ Len(Rows[e[1]][k]) # 0
                      /\ Len(Rows[d[1]][k]) = Len(Rows[e[1]][k])

(* What an admission has validated stays so: it goes on with the records,  *)
(* and compares every copy with them.                                      *)
AdmissionInv ==
  /\ admission.at \in {"manifests", "bundle", "archive"} =>
       /\ admission.bundle[2] = Expected
       /\ admission.manifest.digest = admission.digest
       /\ Serves(admission.digest, Described(admission.manifest))
  /\ admission.at \in {"bundle", "archive"} => Alike(admission.bundle, admission.digest)
  /\ admission.at = "archive" => admission.staged = admission.bundle
  /\ published # Nil =>
       /\ published.bundle = published.manifest /\ published.manifest[2] = Expected
       /\ Alike(published.manifest, published.lineage)
       /\ Serves(published.lineage, published.archive)

(* An archive whose artifacts are those of its manifest.                   *)
LEMMA ValidatedServes ==
  ASSUME IInv, SInv, NEW w \in Workspace, archive[w].manifest # Nil,
         archive[w].manifest.digest[2] = Expected
  PROVE  Serves(archive[w].manifest.digest, Described(archive[w].manifest))
<1> DEFINE a == archive[w]
<1>1. a \in Archive /\ ArchiveOK(a) /\ Entered(a) /\ Sealed(a)
  BY DEF IInv, TypeOK, SInv
<1> HIDE DEF a
<1>2. /\ a.manifest # Nil /\ a.manifest.digest = a.ident /\ a.ident[2] = Expected
      /\ a.index = a.manifest.index /\ a.items = a.manifest.items
      /\ a.binary = a.manifest.binary /\ a.items = RowsOf(a.ident[1])
  BY <1>1 DEF Sealed, a
<1>3. ASSUME NEW r \in a.items
      PROVE  /\ a.index[TextOf[r]] # Nil
             /\ a.binary[a.index[TextOf[r]] + 1] = <<TextOf[r], Expected>>
  <2>1. TextOf[r] \in Text /\ a.index[TextOf[r]] # Nil
    BY <1>1, ArchiveAssumption DEF Archive, Entered
  <2>2. TextOf[r] \in Indexed(a)
    BY <2>1 DEF Indexed
  <2> QED
    BY <1>1, <1>2, <2>1, <2>2 DEF ArchiveOK
<1>4. /\ Described(a.manifest).items = a.items /\ Described(a.manifest).index = a.index
      /\ Described(a.manifest).binary = a.binary
  BY <1>2 DEF Described
<1>5. Serves(a.manifest.digest, Described(a.manifest))
  BY <1>2, <1>3, <1>4 DEF Serves
<1> QED
  BY <1>5 DEF a

LEMMA AdmissionKeeps ==
  ASSUME AdmissionTypeOK, IInv, SInv, AdmissionInv, [AdmissionNext]_allVars
  PROVE  AdmissionInv'
<1>1. ASSUME BeginAdmission \/ ReadDigest \/ CrashAdmission PROVE AdmissionInv'
  <2>1. published' = published
    BY <1>1 DEF BeginAdmission, ReadDigest, CrashAdmission
  <2>2. CASE BeginAdmission
    <3>1. PICK w \in Workspace :
            admission' = [NoAdmission EXCEPT !.at = "parsed", !.ws = w,
                                             !.bundle = bundle[w].manifest]
      BY <2>2 DEF BeginAdmission
    <3>2. admission'.at = "parsed"
      BY <3>1 DEF NoAdmission
    <3> QED
      BY <2>1, <3>2 DEF AdmissionInv
  <2>3. CASE ReadDigest
    <3>1. admission'.at = "digested"
      BY <2>3 DEF ReadDigest, AdmissionTypeOK
    <3> QED
      BY <2>1, <3>1 DEF AdmissionInv
  <2>4. CASE CrashAdmission
    BY <2>1, <2>4 DEF CrashAdmission, NoAdmission, AdmissionInv
  <2> QED
    BY <1>1, <2>2, <2>3, <2>4
<1>2. ASSUME ReadManifest PROVE AdmissionInv'
  <2> DEFINE m == archive[admission.ws].manifest
             Good == /\ Matching(m, admission.digest)
                     /\ admission.bundle[2] = Expected /\ m.digest[2] = Expected
  <2>1. published' = published
    BY <1>2 DEF ReadManifest
  <2>2. CASE ~Good
    BY <1>2, <2>1, <2>2 DEF ReadManifest, NoAdmission, AdmissionInv
  <2>3. CASE Good
    <3>1. Serves(admission.digest, Described(m))
      BY <2>3, ValidatedServes DEF Matching, AdmissionTypeOK
    <3>2. admission' = [admission EXCEPT !.at = "manifests", !.manifest = m]
      BY <1>2, <2>3 DEF ReadManifest
    <3>3. m.digest = admission.digest /\ admission.bundle[2] = Expected
      BY <2>3 DEF Matching
    <3> HIDE DEF m
    <3>4. /\ admission'.at = "manifests" /\ admission'.bundle = admission.bundle
          /\ admission'.digest = admission.digest /\ admission'.manifest = m
      BY <3>2 DEF AdmissionTypeOK
    <3> QED
      BY <2>1, <3>1, <3>3, <3>4 DEF AdmissionInv
  <2> QED
    BY <2>2, <2>3
<1>3. ASSUME ValidateInputs PROVE AdmissionInv'
  <2>1. published' = published /\ admission.at = "manifests"
    BY <1>3 DEF ValidateInputs
  <2>2. CASE ~ValidInputs
    BY <1>3, <2>1, <2>2 DEF ValidateInputs, NoAdmission, AdmissionInv
  <2>3. CASE ValidInputs
    <3>1. Alike(admission.bundle, admission.digest)
      BY <2>1, <2>3 DEF ValidInputs, Counts, AdmissionInv, Alike
    <3>2. admission' = [admission EXCEPT !.at = "bundle"]
      BY <1>3, <2>3 DEF ValidateInputs
    <3>3. /\ admission'.at = "bundle" /\ admission'.bundle = admission.bundle
          /\ admission'.digest = admission.digest
          /\ admission'.manifest = admission.manifest
      BY <3>2 DEF AdmissionTypeOK
    <3> QED
      BY <2>1, <3>1, <3>3 DEF AdmissionInv
  <2> QED
    BY <2>2, <2>3
<1>4. ASSUME CopyBundle PROVE AdmissionInv'
  <2> DEFINE copy == bundle[admission.ws].artifacts
  <2>1. published' = published /\ admission.at = "bundle"
    BY <1>4 DEF CopyBundle
  <2>2. CASE copy # admission.bundle
    BY <1>4, <2>1, <2>2 DEF CopyBundle, Verified, NoAdmission, AdmissionInv
  <2>3. CASE copy = admission.bundle
    <3>1. admission' = [admission EXCEPT !.at = "archive", !.staged = admission.bundle]
      BY <1>4, <2>3 DEF CopyBundle, Verified
    <3>2. /\ admission'.at = "archive" /\ admission'.bundle = admission.bundle
          /\ admission'.digest = admission.digest
          /\ admission'.manifest = admission.manifest /\ admission'.staged = admission.bundle
      BY <3>1 DEF AdmissionTypeOK
    <3> QED
      BY <2>1, <3>2 DEF AdmissionInv
  <2> QED
    BY <2>2, <2>3
<1>5. ASSUME Publish PROVE AdmissionInv'
  <2>1. admission'.at = "idle" /\ admission.at = "archive"
    BY <1>5 DEF Publish, NoAdmission
  <2>2. /\ Serves(admission.digest, Described(admission.manifest))
        /\ admission.bundle[2] = Expected /\ Alike(admission.bundle, admission.digest)
        /\ admission.staged = admission.bundle
    BY <2>1 DEF AdmissionInv
  <2>3. \/ published' = published
        \/ published' = [manifest |-> admission.bundle, bundle |-> admission.bundle,
                         lineage |-> admission.digest,
                         archive |-> Described(admission.manifest)]
    BY <1>5, <2>2 DEF Publish, Verified
  <2> QED
    BY <2>1, <2>2, <2>3 DEF AdmissionInv
<1>6. ASSUME UNCHANGED <<admission, published>> PROVE AdmissionInv'
  BY <1>6 DEF AdmissionInv
<1> QED
  BY <1>1, <1>2, <1>3, <1>4, <1>5, <1>6 DEF AdmissionNext, allVars

LEMMA AdmissionTyped ==
  ASSUME AdmissionTypeOK, TypeOK', [AdmissionNext]_allVars
  PROVE  AdmissionTypeOK'
<1> DEFINE Adm == [at : {"idle", "parsed", "digested", "manifests", "bundle", "archive"},
                   ws : Workspace, bundle : Digest \cup {Nil}, digest : Digest \cup {Nil},
                   manifest : Manifest \cup {Nil}, staged : Digest \cup {Nil}]
           Kinds == [index : Index, items : SUBSET Row, binary : Binary]
           Pub == [manifest : Digest \cup {Nil}, bundle : Digest \cup {Nil},
                   lineage : Digest \cup {Nil}, archive : Kinds] \cup {Nil}
<1>1. /\ TypeOK /\ admission \in Adm /\ published \in Pub
      /\ AdmissionTypeOK' <=> (admission' \in Adm /\ published' \in Pub)
  BY DEF AdmissionTypeOK
<1>2. /\ NoAdmission \in Adm /\ admission.ws \in Workspace
      /\ bundle[admission.ws] \in [manifest : Digest \cup {Nil}, artifacts : Digest \cup {Nil}]
      /\ archive[admission.ws] \in Archive
  BY <1>1 DEF NoAdmission, Workspace, TypeOK
<1>3. Artifacts(archive[admission.ws]) \in Kinds
  BY <1>2 DEF Artifacts, Archive
<1>4. ASSUME BeginAdmission PROVE admission' \in Adm /\ published' \in Pub
  <2>1. PICK w \in Workspace :
          admission' = [NoAdmission EXCEPT !.at = "parsed", !.ws = w,
                                           !.bundle = bundle[w].manifest]
    BY <1>4 DEF BeginAdmission
  <2>2. bundle[w].manifest \in Digest \cup {Nil}
    BY <1>1 DEF TypeOK
  <2> QED
    BY <1>1, <1>2, <1>4, <2>1, <2>2 DEF BeginAdmission
<1>5. ASSUME ReadDigest PROVE admission' \in Adm /\ published' \in Pub
  BY <1>1, <1>2, <1>5 DEF ReadDigest
<1>6. ASSUME ReadManifest PROVE admission' \in Adm /\ published' \in Pub
  <2>1. archive[admission.ws].manifest \in Manifest \cup {Nil}
    BY <1>2 DEF Archive
  <2> QED
    BY <1>1, <1>2, <1>6, <2>1 DEF ReadManifest
<1>7. ASSUME ValidateInputs PROVE admission' \in Adm /\ published' \in Pub
  BY <1>1, <1>2, <1>7 DEF ValidateInputs
<1>8. ASSUME CopyBundle PROVE admission' \in Adm /\ published' \in Pub
  BY <1>1, <1>2, <1>8 DEF CopyBundle
<1>9. ASSUME Publish PROVE admission' \in Adm /\ published' \in Pub
  <2> HIDE DEF Adm, Kinds
  <2>1. admission.staged \in Digest \cup {Nil} /\ admission.bundle \in Digest \cup {Nil}
        /\ admission.digest \in Digest \cup {Nil}
    BY <1>1 DEF Adm
  <2>2. [manifest |-> admission.bundle, bundle |-> admission.staged,
         lineage |-> admission.digest, archive |-> Artifacts(archive[admission.ws])] \in Pub
    BY <1>3, <2>1
  <2> QED
    BY <1>1, <1>2, <1>9, <2>2 DEF Publish
<1>10. ASSUME CrashAdmission PROVE admission' \in Adm /\ published' \in Pub
  BY <1>1, <1>2, <1>10 DEF CrashAdmission
<1>11. ASSUME UNCHANGED <<admission, published>> PROVE admission' \in Adm /\ published' \in Pub
  BY <1>1, <1>11
<1> HIDE DEF Adm, Pub
<1> QED
  BY <1>1, <1>4, <1>5, <1>6, <1>7, <1>8, <1>9, <1>10, <1>11 DEF AdmissionNext, allVars

(* The builder and an admission, that takes no lock on its files.          *)
Together == AdmissionTypeOK /\ IInv /\ SInv /\ AdmissionInv

THEOREM AdmissionInvariance == AdmissionSpec => []Together
<1>1. AdmissionInit => Together
  <2> SUFFICES ASSUME AdmissionInit PROVE Together
    OBVIOUS
  <2>1. IInv /\ SInv
    BY Begins, SealedInit DEF AdmissionInit
  <2>2. AdmissionTypeOK
    BY <2>1 DEF AdmissionInit, AdmissionTypeOK, IInv, NoAdmission, Workspace
  <2>3. AdmissionInv
    BY DEF AdmissionInit, AdmissionInv, NoAdmission
  <2> QED
    BY <2>1, <2>2, <2>3 DEF Together
<1>2. ASSUME Together, [AdmissionNext]_allVars PROVE Together'
  <2>1. [Next]_vars
    BY <1>2 DEF AdmissionNext, allVars, vars, BeginAdmission, ReadDigest, ReadManifest,
       ValidateInputs, CopyBundle, Publish, CrashAdmission
  <2>2. IInv' /\ SInv'
    BY <1>2, <2>1, StepKeeps, SealedNext DEF Together
  <2>3. AdmissionTypeOK'
    BY <1>2, <2>2, AdmissionTyped DEF Together, IInv
  <2>4. AdmissionInv'
    BY <1>2, AdmissionKeeps DEF Together
  <2> QED
    BY <2>2, <2>3, <2>4 DEF Together
<1> QED
  BY <1>1, <1>2, PTL DEF AdmissionSpec

(* What the server is given is whole: the artifacts its manifest describes *)
(* and every row of the corpus of its lineage, each with the embedding of  *)
(* its text by the model it expects, although the builder may rewrite      *)
(* every file while the admission reads, checks and copies them, and       *)
(* either may be killed at any point.  The two are one corpus or two that  *)
(* their counts do not tell apart.                                         *)
THEOREM PublishedIsWhole == AdmissionSpec => []PublishedWhole
<1>1. Together => PublishedWhole
  BY DEF Together, AdmissionInv, Serves, Alike, RowsOf, PublishedWhole
<1> QED
  BY <1>1, AdmissionInvariance, PTL
-----------------------------------------------------------------------------
(* The import.                                                             *)

(* What is to be said of row j of phase p once an import has passed it.    *)
Landed(b, p, j) ==
  LET r == ItemsIn[b][p][j]
      d == <<"canon", Canon[Pair(r)]>>
  IN /\ SourceOf[r] \in Chunks(b)
     /\ p \in {1, 2} => store.nodes[Key(r)] # Null
     /\ p = 3 /\ r \notin Affected(b) => store.vdb[d] # Null /\ store.vdb[d].item = r

(* An import of b has come to row n of phase p.                            *)
Reached(b, p, n) ==
  /\ n \in 0..Len(ItemsIn[b][p])
  /\ \A q \in Phase : \A j \in DOMAIN ItemsIn[b][q] :
       q < p \/ (q = p /\ j <= n) => Landed(b, q, j)
AllReached(b) == Reached(b, 3, Len(ItemsIn[b][3]))

(* The relationships of b, each under one id.                              *)
Whole(b) ==
  backend # "other" =>
    /\ {store.vdb[d].item : d \in Ids(store.vdb)} = Relations(b)
    /\ Cardinality(Ids(store.vdb)) = Cardinality(Relations(b))

ProgressTrue ==
  progress # Null =>
    /\ Accepted(progress.bundle)
    /\ progress.phase \in Phase => Reached(progress.bundle, progress.phase, progress.offset)
    /\ progress.phase = 4 => AllReached(progress.bundle) /\ Whole(progress.bundle)

ImporterTrue ==
  Running =>
    /\ import.bundle \in Bundle /\ Accepted(import.bundle)
    /\ progress # Null => import.bundle = progress.bundle
    /\ progress # Null /\ progress.phase = 4 => import.at \in {"repair", "finish"}
    /\ import.at \in {"insert", "save"} => Reached(import.bundle, import.phase, import.offset)
    /\ import.at = "next" => /\ import.offset = Len(ItemsIn[import.bundle][import.phase])
                             /\ Reached(import.bundle, import.phase, import.offset)
    /\ import.at \in {"repair", "finish"} => import.phase = 3 /\ AllReached(import.bundle)
    /\ import.at = "finish" => Whole(import.bundle)

ImportInv ==
  /\ ImportTypeOK
  /\ IsFiniteSet(Ids(store.vdb))
  /\ OwnVectors
  /\ ProgressTrue
  /\ ImporterTrue
-----------------------------------------------------------------------------
LEMMA RowsOfBundle ==
  ASSUME NEW b \in Bundle, NEW p \in Phase
  PROVE  /\ ItemsIn[b][p] \in Seq(Item) /\ Len(ItemsIn[b][p]) \in Nat
         /\ DOMAIN ItemsIn[b][p] = 1..Len(ItemsIn[b][p])
         /\ \A j \in DOMAIN ItemsIn[b][p] : /\ ItemsIn[b][p][j] \in Item
                                            /\ ItemsIn[b][p][j] \in AllRows(b)
<1>1. ItemsIn[b][p] \in Seq(Item)
  BY ImportAssumption
<1>2. \A j \in DOMAIN ItemsIn[b][p] : ItemsIn[b][p][j] \in AllRows(b)
  BY DEF AllRows, Chunks, Entities, Relations, Phase
<1> QED
  BY <1>1, <1>2

LEMMA AllRowsTyped ==
  ASSUME NEW b \in Bundle
  PROVE  /\ AllRows(b) \subseteq Item /\ Chunks(b) \subseteq AllRows(b)
         /\ Relations(b) \subseteq AllRows(b) /\ Affected(b) \subseteq Relations(b)
<1>1. 1 \in Phase /\ 2 \in Phase /\ 3 \in Phase
  BY DEF Phase
<1>2. AllRows(b) \subseteq Item
  BY <1>1, RowsOfBundle DEF AllRows, Chunks, Entities, Relations
<1> QED
  BY <1>2 DEF AllRows, Affected

LEMMA SliceOf ==
  ASSUME NEW s, NEW o \in Nat, NEW e \in Nat, o <= e, \A i \in o + 1..e : s[i] \in Item
  PROVE  LET t == SubSeq(s, o + 1, e) IN
         /\ Len(t) = e - o /\ DOMAIN t = 1..(e - o)
         /\ \A i \in 1..(e - o) : t[i] = s[o + i]
<1> DEFINE t == SubSeq(s, o + 1, e)  m == o + 1
<1>1. m \in Int /\ e \in Int /\ \A i \in m..e : s[i] \in Item
  OBVIOUS
<1>2. m = o + 1
  OBVIOUS
<1> HIDE DEF m
<1>3. /\ SubSeq(s, m, e) \in Seq(Item)
      /\ Len(SubSeq(s, m, e)) = IF m <= e THEN e - m + 1 ELSE 0
      /\ \A i \in 1..e - m + 1 : SubSeq(s, m, e)[i] = s[m + i - 1]
  BY <1>1, SubSeqProperties
<1>4. t = SubSeq(s, m, e)
  BY <1>2
<1> HIDE DEF t
<1>5. Len(t) = e - o
  <2>1. (IF m <= e THEN e - m + 1 ELSE 0) = e - o
    BY <1>2
  <2> QED
    BY <1>3, <1>4, <2>1
<1>6. ASSUME NEW i \in 1..(e - o) PROVE t[i] = s[o + i]
  <2>1. i \in 1..e - m + 1 /\ m + i - 1 = o + i
    BY <1>2
  <2> QED
    BY <1>3, <1>4, <2>1
<1> QED
  BY <1>3, <1>4, <1>5, <1>6 DEF t

(* The slice of the rows that the import inserts next.                     *)
LEMMA BatchSlice ==
  ASSUME import.bundle \in Bundle, import.phase \in Phase,
         import.offset \in 0..Len(ItemsIn[import.bundle][import.phase])
  PROVE  LET rows == ItemsIn[import.bundle][import.phase] IN
         /\ Len(ItemBatch) \in 0..BatchSize /\ DOMAIN ItemBatch = 1..Len(ItemBatch)
         /\ import.offset + Len(ItemBatch) \in 0..Len(rows)
         /\ Len(ItemBatch) # BatchSize => import.offset + Len(ItemBatch) = Len(rows)
         /\ \A i \in DOMAIN ItemBatch : /\ import.offset + i \in DOMAIN rows
                                        /\ ItemBatch[i] = rows[import.offset + i]
<1> DEFINE rows == ItemsIn[import.bundle][import.phase]
           end == IF import.offset + BatchSize < Len(rows) THEN import.offset + BatchSize
                  ELSE Len(rows)
<1>1. /\ rows \in Seq(Item) /\ Len(rows) \in Nat /\ DOMAIN rows = 1..Len(rows)
      /\ BatchSize \in Nat \ {0} /\ import.offset \in 0..Len(rows)
      /\ ItemBatch = SubSeq(rows, import.offset + 1, end)
  BY RowsOfBundle, ImportAssumption DEF ItemBatch
<1> HIDE DEF rows
<1>2. end \in import.offset..Len(rows) /\ end - import.offset <= BatchSize
  BY <1>1
<1>3. end - import.offset # BatchSize => end = Len(rows)
  BY <1>1
<1> HIDE DEF end
<1>4. /\ Len(ItemBatch) = end - import.offset /\ DOMAIN ItemBatch = 1..(end - import.offset)
      /\ \A i \in 1..(end - import.offset) : ItemBatch[i] = rows[import.offset + i]
  <2>1. import.offset \in Nat /\ end \in Nat /\ import.offset <= end /\ end <= Len(rows)
    BY <1>1, <1>2
  <2>2. \A i \in import.offset + 1..end : i \in 1..Len(rows)
    BY <1>1, <2>1
  <2>3. \A i \in import.offset + 1..end : rows[i] \in Item
    BY <1>1, <2>2
  <2> QED
    BY <1>1, <2>1, <2>3, SliceOf
<1>5. /\ Len(ItemBatch) \in 0..BatchSize /\ DOMAIN ItemBatch = 1..Len(ItemBatch)
      /\ import.offset + Len(ItemBatch) \in 0..Len(rows)
      /\ Len(ItemBatch) # BatchSize => import.offset + Len(ItemBatch) = Len(rows)
  <2> DEFINE n == Len(ItemBatch)
  <2>1. n = end - import.offset /\ DOMAIN ItemBatch = 1..n
    BY <1>4
  <2> HIDE DEF n
  <2>2. /\ n \in 0..BatchSize /\ import.offset + n \in 0..Len(rows)
        /\ n # BatchSize => import.offset + n = Len(rows)
    <3> DEFINE o == import.offset  l == Len(rows)
    <3>1. l \in Nat /\ o \in Nat /\ BatchSize \in Nat
      BY <1>1
    <3>2. end \in o..l /\ end - o <= BatchSize
      BY <1>2
    <3>3. end - o # BatchSize => end = l
      BY <1>3
    <3>4. n = end - o
      BY <2>1
    <3> HIDE DEF o, l
    <3>5. n \in 0..BatchSize /\ o + n \in 0..l /\ (n # BatchSize => o + n = l)
      BY <3>1, <3>2, <3>3, <3>4
    <3> QED
      BY <3>5 DEF o, l
  <2> QED
    BY <2>1, <2>2 DEF n
<1>6. \A i \in DOMAIN ItemBatch : import.offset + i \in DOMAIN rows
  <2>1. /\ Len(rows) \in Nat /\ import.offset \in Nat /\ end \in Nat
        /\ end <= Len(rows)
    BY <1>1, <1>2
  <2>2. ASSUME NEW i \in 1..(end - import.offset) PROVE import.offset + i \in 1..Len(rows)
    BY <2>1
  <2> QED
    BY <1>1, <1>4, <2>2
<1> QED
  BY <1>4, <1>5, <1>6 DEF rows

LEMMA BatchItems ==
  ASSUME import.bundle \in Bundle, import.phase \in Phase,
         import.offset \in 0..Len(ItemsIn[import.bundle][import.phase]),
         NEW i \in DOMAIN ItemBatch
  PROVE  ItemBatch[i] \in AllRows(import.bundle) /\ ItemBatch[i] \in Item /\ i \in Nat
<1>1. \E j \in DOMAIN ItemsIn[import.bundle][import.phase] :
        ItemBatch[i] = ItemsIn[import.bundle][import.phase][j]
  BY BatchSlice
<1>2. i \in Nat
  BY BatchSlice
<1> QED
  BY <1>1, <1>2, RowsOfBundle

(* The last of some rows of the batch is one of them.                      *)
LEMMA LastOf ==
  ASSUME NEW n \in Nat, NEW S \in SUBSET (1..n), S # {}
  PROVE  (CHOOSE i \in S : \A j \in S : j <= i) \in S
<1> DEFINE T == {x \in Nat : n - x \in S}
<1>1. T # {} /\ T \subseteq Nat
  <2>1. PICK s \in S : TRUE
    OBVIOUS
  <2>2. n - s \in Nat /\ n - (n - s) = s
    BY <2>1
  <2> QED
    BY <2>1, <2>2
<1>2. PICK x \in T : \A y \in T : ~(<<y, x>> \in OpToRel(<, Nat))
  BY <1>1, NatLessThanWellFounded, WFMin
<1>3. \A y \in T : x <= y
  <2>1. \A y \in T : ~(y < x)
    BY <1>2, Zenon DEF OpToRel
  <2> QED
    BY <2>1
<1>4. n - x \in S
  OBVIOUS
<1>5. ASSUME NEW j \in S PROVE j <= n - x
  <2>1. n - j \in T
    OBVIOUS
  <2> QED
    BY <1>3, <2>1
<1> QED
  BY <1>4, <1>5

(* The detour over cleaned texts leads back to the row's own text, or to   *)
(* that of a row which would have had to be cleaned itself.                *)
LEMMA LookupOwn ==
  ASSUME NEW b \in Bundle, Accepted(b), NEW i \in AllRows(b)
  PROVE  Lookup(b, i) \in Wording /\ Own(MakeEntry(i, Lookup(b, i)))
<1> DEFINE e == MakeEntry(i, Lookup(b, i))
<1>1. /\ i \in Item /\ AllRows(b) \subseteq Item
      /\ e.item = i /\ e.vector = Lookup(b, i)
  BY AllRowsTyped DEF MakeEntry
<1>2. CASE Clean[i] \in Embedded[b]
  <2>1. PICK j \in AllRows(b) : Raw[j] = Clean[i]
    BY <1>2, ArchiveOfBundle
  <2>2. CASE Clean[j] = Raw[j]
    <3>1. Raw[i] = Raw[j]
      BY <2>1, <2>2 DEF Accepted
    <3>2. Lookup(b, i) = Raw[i]
      BY <1>2, <2>1, <3>1 DEF Lookup
    <3> QED
      BY <1>1, <3>2, ImportAssumption DEF Own
  <2>3. CASE Clean[j] # Raw[j]
    <3>1. Unsettled(i)
      BY <1>1, <2>1, <2>3 DEF Unsettled
    <3>2. Lookup(b, i) = Clean[i]
      BY <1>2 DEF Lookup
    <3> QED
      BY <1>1, <3>1, <3>2, ImportAssumption DEF Own
  <2> QED
    BY <2>2, <2>3
<1>3. CASE Clean[i] \notin Embedded[b]
  <2>1. Lookup(b, i) = Raw[i]
    BY <1>3 DEF Lookup
  <2> QED
    BY <1>1, <2>1, ImportAssumption DEF Own
<1> QED
  BY <1>2, <1>3
-----------------------------------------------------------------------------
(* An insertion stores some rows of the bundle, and deletes.               *)
Fresh(e, b) == \E x \in AllRows(b) : e = MakeEntry(x, Lookup(b, x))

LEMMA FreshEntry ==
  ASSUME NEW b \in Bundle, Accepted(b), NEW e, Fresh(e, b)
  PROVE  e \in Entry /\ e # Null /\ Own(e)
<1>1. PICK x \in AllRows(b) : e = MakeEntry(x, Lookup(b, x))
  BY DEF Fresh
<1>2. x \in Item /\ Lookup(b, x) \in Wording /\ Own(e)
  BY <1>1, AllRowsTyped, LookupOwn
<1>3. e \in Entry
  BY <1>1, <1>2 DEF MakeEntry, Entry
<1> QED
  BY <1>2, <1>3, NullAssumption

LEMMA InsertedWhat ==
  ASSUME ImportTypeOK, import.bundle \in Bundle, Accepted(import.bundle), Sourced,
         import.offset \in 0..Len(ItemsIn[import.bundle][import.phase]),
         NEW S \in SUBSET DOMAIN ItemBatch, NEW D \in SUBSET DOMAIN ItemBatch
  PROVE  LET new == Inserted(D, S) IN
         /\ new.nodes = [k \in Keys |-> new.nodes[k]]
         /\ \A k \in Keys : \/ new.nodes[k] = store.nodes[k]
                            \/ Fresh(new.nodes[k], import.bundle)
         /\ \A i \in S : import.phase # 3 => new.nodes[Key(ItemBatch[i])] # Null
         /\ new.edges \in SUBSET Pairs
<1> DEFINE b == import.bundle
           items == {ItemBatch[i] : i \in S} \cup {SourceOf[ItemBatch[i]] : i \in S}
           nodes == IF import.phase = 3 THEN {SourceOf[ItemBatch[i]] : i \in S} ELSE items
           last(k) == IF \E i \in S : Key(ItemBatch[i]) = k
                      THEN Last({i \in S : Key(ItemBatch[i]) = k})
                      ELSE CHOOSE n \in nodes : Key(n) = k
           stored == [k \in Keys |-> IF \E n \in nodes : Key(n) = k
                                     THEN MakeEntry(last(k), Lookup(b, last(k)))
                                     ELSE store.nodes[k]]
           edges == IF import.phase = 3 THEN store.edges \cup {Pair(ItemBatch[i]) : i \in S}
                    ELSE store.edges
<1>1. Inserted(D, S).nodes = stored /\ Inserted(D, S).edges = edges
  BY DEF Inserted
<1>2. import.phase \in Phase /\ store.edges \subseteq Pairs
  BY DEF ImportTypeOK
<1>3. \A i \in S : /\ ItemBatch[i] \in AllRows(b) /\ ItemBatch[i] \in Item
                   /\ SourceOf[ItemBatch[i]] \in AllRows(b)
  BY <1>2, BatchItems, AllRowsTyped DEF Sourced
<1>4. nodes \subseteq AllRows(b)
  BY <1>3
<1>5. ASSUME NEW k \in Keys, \E n \in nodes : Key(n) = k PROVE last(k) \in AllRows(b)
  <2>1. CASE \E i \in S : Key(ItemBatch[i]) = k
    <3> DEFINE T == {i \in S : Key(ItemBatch[i]) = k}
    <3>1. T \in SUBSET (1..Len(ItemBatch)) /\ T # {} /\ Len(ItemBatch) \in Nat
      <4>1. DOMAIN ItemBatch = 1..Len(ItemBatch) /\ Len(ItemBatch) \in Nat
        BY <1>2, BatchSlice
      <4> QED
        BY <2>1, <4>1
    <3>2. (CHOOSE i \in T : \A j \in T : j <= i) \in T
      BY <3>1, LastOf
    <3>3. Last(T) \in AllRows(b)
      BY <1>3, <3>2 DEF Last
    <3> QED
      BY <2>1, <3>3
  <2>2. CASE ~\E i \in S : Key(ItemBatch[i]) = k
    BY <1>4, <1>5, <2>2
  <2> QED
    BY <2>1, <2>2
<1>6. ASSUME NEW k \in Keys, \E n \in nodes : Key(n) = k PROVE Fresh(stored[k], b)
  <2>1. last(k) \in AllRows(b)
    BY <1>5, <1>6
  <2>2. stored[k] = MakeEntry(last(k), Lookup(b, last(k)))
    BY <1>6
  <2> HIDE DEF last, nodes, stored
  <2> QED
    BY <2>1, <2>2 DEF Fresh
<1>7. \A k \in Keys : stored[k] = store.nodes[k] \/ Fresh(stored[k], b)
  <2> SUFFICES ASSUME NEW k \in Keys PROVE stored[k] = store.nodes[k] \/ Fresh(stored[k], b)
    OBVIOUS
  <2>1. CASE \E n \in nodes : Key(n) = k
    BY <1>6, <2>1
  <2>2. CASE ~\E n \in nodes : Key(n) = k
    BY <2>2
  <2> QED
    BY <2>1, <2>2
<1>8. ASSUME NEW i \in S, import.phase # 3 PROVE stored[Key(ItemBatch[i])] # Null
  <2>1. ItemBatch[i] \in nodes /\ Key(ItemBatch[i]) \in Keys
    BY <1>3, <1>8 DEF Keys
  <2>2. Fresh(stored[Key(ItemBatch[i])], b)
    BY <1>6, <2>1
  <2> QED
    BY <2>2, FreshEntry
<1>9. edges \in SUBSET Pairs
  <2>1. \A i \in S : Pair(ItemBatch[i]) \in Pairs
    BY <1>3 DEF Pairs
  <2> QED
    BY <1>2, <2>1
<1> HIDE DEF stored, edges
<1>10. stored = [k \in Keys |-> stored[k]]
  BY DEF stored
<1> QED
  BY <1>1, <1>7, <1>8, <1>9, <1>10

(* The vectors of the relationships, before and after.                     *)
LEMMA InsertedVectors ==
  ASSUME ImportTypeOK, import.bundle \in Bundle, Accepted(import.bundle), Sourced,
         import.offset \in 0..Len(ItemsIn[import.bundle][import.phase]),
         NEW S \in SUBSET DOMAIN ItemBatch, NEW D \in SUBSET DOMAIN ItemBatch
  PROVE  LET new == Inserted(D, S).vdb IN
         /\ new = [d \in RelationId |-> new[d]]
         /\ \A d \in RelationId : \/ new[d] \in {store.vdb[d], Null}
                                  \/ /\ Fresh(new[d], import.bundle)
                                     /\ \E i \in S : d = <<"canon", Canon[Pair(ItemBatch[i])]>>
<1> DEFINE b == import.bundle
           new == Inserted(D, S).vdb
           old == Deleted(store.vdb, D)
           under(d) == {i \in S : d = <<"canon", Canon[Pair(ItemBatch[i])]>>}
<1>1. import.phase \in Phase /\ store.vdb \in [RelationId -> Entry \cup {Null}]
  BY DEF ImportTypeOK
<1>2. \A i \in S : ItemBatch[i] \in AllRows(b)
  BY <1>1, BatchItems
<1>3. ASSUME NEW d \in RelationId, under(d) # {}
      PROVE  Last(under(d)) \in AllRows(b)
  <2>1. DOMAIN ItemBatch = 1..Len(ItemBatch) /\ Len(ItemBatch) \in Nat
    BY <1>1, BatchSlice
  <2>2. (CHOOSE i \in under(d) : \A j \in under(d) : j <= i) \in under(d)
    <3> DEFINE U == under(d)
    <3>1. U \in SUBSET (1..Len(ItemBatch)) /\ U # {} /\ Len(ItemBatch) \in Nat
      BY <1>3, <2>1
    <3> HIDE DEF U
    <3>2. (CHOOSE i \in U : \A j \in U : j <= i) \in U
      BY <3>1, LastOf
    <3> QED
      BY <3>2 DEF U
  <2> QED
    BY <1>2, <2>2 DEF Last
<1>4. CASE import.phase # 3
  BY <1>1, <1>4 DEF Inserted
<1>5. CASE import.phase = 3
  <2>1. new = Upserted(old, S)
    BY <1>5 DEF Inserted
  <2>2. \A d \in RelationId : old[d] \in {store.vdb[d], Null}
    BY DEF Deleted
  <2> HIDE DEF old
  <2>3. /\ new = [d \in RelationId |-> new[d]]
        /\ \A d \in RelationId :
             new[d] = IF under(d) = {} THEN old[d]
                      ELSE MakeEntry(Last(under(d)), Lookup(b, Last(under(d))))
    BY <2>1 DEF Upserted
  <2> HIDE DEF new
  <2>4. ASSUME NEW d \in RelationId
        PROVE  \/ new[d] \in {store.vdb[d], Null}
               \/ Fresh(new[d], b) /\ \E i \in S : d = <<"canon", Canon[Pair(ItemBatch[i])]>>
    <3>1. CASE under(d) = {}
      BY <2>2, <2>3, <3>1
    <3>2. CASE under(d) # {}
      <4>1. Last(under(d)) \in AllRows(b)
        BY <1>3, <3>2
      <4>2. new[d] = MakeEntry(Last(under(d)), Lookup(b, Last(under(d))))
        BY <2>3, <3>2
      <4>3. \E i \in S : d = <<"canon", Canon[Pair(ItemBatch[i])]>>
        BY <3>2
      <4> HIDE DEF under
      <4> QED
        BY <4>1, <4>2, <4>3 DEF Fresh
    <3> QED
      BY <3>1, <3>2
  <2> QED
    BY <2>3, <2>4 DEF new
<1> QED
  BY <1>4, <1>5

(* A relationship of the bundle that no collision affects is found under   *)
(* its id: its own insertion puts it there, and no other touches that id.  *)
LEMMA UnaffectedKept ==
  ASSUME import.bundle \in Bundle, import.phase = 3,
         import.offset \in 0..Len(ItemsIn[import.bundle][import.phase]),
         NEW S \in SUBSET DOMAIN ItemBatch, NEW D \in SUBSET DOMAIN ItemBatch,
         NEW r \in Relations(import.bundle), r \notin Affected(import.bundle)
  PROVE  LET d == <<"canon", Canon[Pair(r)]>>
             new == Inserted(D, S).vdb
         IN /\ d \in RelationId
            /\ (\E i \in S : ItemBatch[i] = r) => new[d] # Null /\ new[d].item = r
            /\ (~\E i \in S : ItemBatch[i] = r) => new[d] = store.vdb[d]
<1> DEFINE b == import.bundle
           d == <<"canon", Canon[Pair(r)]>>
           new == Inserted(D, S).vdb
           old == Deleted(store.vdb, D)
           under == {i \in S : d = <<"canon", Canon[Pair(ItemBatch[i])]>>}
<1>1. import.phase \in Phase /\ r \in Item
  BY AllRowsTyped DEF Phase
<1>2. \A i \in DOMAIN ItemBatch : ItemBatch[i] \in Relations(b)
  <2>1. \A i \in DOMAIN ItemBatch : /\ import.offset + i \in DOMAIN ItemsIn[b][3]
                                    /\ ItemBatch[i] = ItemsIn[b][3][import.offset + i]
    BY <1>1, BatchSlice
  <2> QED
    BY <2>1 DEF Relations
<1>3. d \in RelationId
  <2>1. Pair(r) \in Pairs
    BY <1>1 DEF Pairs
  <2> QED
    BY <2>1, ImportAssumption DEF RelationId
<1>4. Canon[Pair(r)] \notin Concatenated(b) /\ Canon[Pair(r)] \notin Reversed(b)
  BY DEF Affected, Dangerous
<1>5. old[d] = store.vdb[d]
  <2>1. \A i \in D : Back[Pair(ItemBatch[i])] # Canon[Pair(r)]
    <3> SUFFICES ASSUME NEW i \in D, Back[Pair(ItemBatch[i])] = Canon[Pair(r)] PROVE FALSE
      OBVIOUS
    <3>1. Canon[Pair(r)] \in {Back[Pair(q)] : q \in Relations(b)}
      BY <1>2
    <3> QED
      BY <1>4, <3>1 DEF Reversed
  <2> QED
    BY <1>3, <2>1 DEF Deleted
<1>6. under = {i \in S : ItemBatch[i] = r}
  <2>1. ASSUME NEW i \in S, Canon[Pair(ItemBatch[i])] = Canon[Pair(r)]
        PROVE  ItemBatch[i] = r
    <3>1. Pair(ItemBatch[i]) = Pair(r)
      <4>1. ItemBatch[i] \in Relations(b)
        BY <1>2
      <4> QED
        BY <1>4, <2>1, <4>1 DEF Concatenated
    <3>2. PICK j \in DOMAIN ItemsIn[b][3] : ItemsIn[b][3][j] = r
      BY DEF Relations
    <3>3. PICK k \in DOMAIN ItemsIn[b][3] : ItemsIn[b][3][k] = ItemBatch[i]
      BY <1>2 DEF Relations
    <3> QED
      BY <3>1, <3>2, <3>3, OneRowAPair DEF OneRow
  <2> QED
    BY <2>1
<1>7. new[d] = IF under = {} THEN old[d]
               ELSE MakeEntry(Last(under), Lookup(b, Last(under)))
  <2>1. new = Upserted(old, S)
    BY DEF Inserted
  <2> HIDE DEF old
  <2> QED
    BY <1>3, <2>1 DEF Upserted
<1>8. CASE under = {}
  BY <1>3, <1>5, <1>6, <1>7, <1>8
<1>9. CASE under # {}
  <2> DEFINE U == under
  <2>1. U \in SUBSET (1..Len(ItemBatch)) /\ U # {} /\ Len(ItemBatch) \in Nat
    BY <1>1, <1>9, BatchSlice
  <2> HIDE DEF U
  <2>2. (CHOOSE i \in U : \A j \in U : j <= i) \in U
    BY <2>1, LastOf
  <2>3. Last(U) = r
    BY <1>6, <2>2 DEF Last, U
  <2>4. new[d] = MakeEntry(r, Lookup(b, r))
    BY <1>7, <1>9, <2>3 DEF U
  <2>5. (\E i \in S : ItemBatch[i] = r)
    BY <1>6, <1>9
  <2> HIDE DEF new, under, d
  <2>6. new[d] # Null /\ new[d].item = r
    <3>1. Lookup(b, r) \in Wording
      BY <1>1, ImportAssumption DEF Lookup
    <3> QED
      BY <1>1, <2>4, <3>1, NullAssumption DEF MakeEntry, Entry
  <2> QED
    BY <1>3, <2>5, <2>6 DEF new, d
<1> QED
  BY <1>8, <1>9

(* What an insertion leaves: entries that are what they claim to be, and   *)
(* every row that had landed before.                                       *)
LEMMA InsertionKeeps ==
  ASSUME ImportTypeOK, IsFiniteSet(Ids(store.vdb)), OwnVectors,
         NEW b \in Bundle, b = import.bundle, Accepted(b), Sourced,
         import.offset \in 0..Len(ItemsIn[b][import.phase]),
         NEW S \in SUBSET DOMAIN ItemBatch, NEW D \in SUBSET DOMAIN ItemBatch,
         store' = Inserted(D, S)
  PROVE  /\ store'.nodes \in [Keys -> Entry \cup {Null}]
         /\ store'.vdb \in [RelationId -> Entry \cup {Null}]
         /\ store'.edges \subseteq Pairs
         /\ IsFiniteSet(Ids(store'.vdb))
         /\ OwnVectors'
         /\ \A k \in Keys : store.nodes[k] # Null => store'.nodes[k] # Null
         /\ \A i \in S : import.phase # 3 => store'.nodes[Key(ItemBatch[i])] # Null
<1>1. /\ store.nodes \in [Keys -> Entry \cup {Null}]
      /\ store.vdb \in [RelationId -> Entry \cup {Null}]
  BY DEF ImportTypeOK
<1>2. /\ store'.nodes = [k \in Keys |-> store'.nodes[k]]
      /\ \A k \in Keys : store'.nodes[k] = store.nodes[k] \/ Fresh(store'.nodes[k], b)
      /\ \A i \in S : import.phase # 3 => store'.nodes[Key(ItemBatch[i])] # Null
      /\ store'.edges \subseteq Pairs
  BY InsertedWhat
<1>3. /\ store'.vdb = [d \in RelationId |-> store'.vdb[d]]
      /\ \A d \in RelationId :
           \/ store'.vdb[d] \in {store.vdb[d], Null}
           \/ /\ Fresh(store'.vdb[d], b)
              /\ \E i \in S : d = <<"canon", Canon[Pair(ItemBatch[i])]>>
  BY InsertedVectors
<1>4. \A k \in Keys : store'.nodes[k] \in Entry \cup {Null}
  BY <1>1, <1>2, FreshEntry
<1>5. \A d \in RelationId : store'.vdb[d] \in Entry \cup {Null}
  BY <1>1, <1>3, FreshEntry
<1>6. IsFiniteSet(Ids(store'.vdb))
  <2> DEFINE N == {<<"canon", Canon[Pair(ItemBatch[i])]>> : i \in S}
             f == [i \in S |-> <<"canon", Canon[Pair(ItemBatch[i])]>>]
  <2>1. IsFiniteSet(S)
    <3>1. S \in SUBSET (1..Len(ItemBatch)) /\ Len(ItemBatch) \in Nat
      BY BatchSlice DEF ImportTypeOK
    <3> QED
      BY <3>1, FS_Interval, FS_Subset
  <2>2. IsFiniteSet(N)
    <3>1. f \in Surjection(S, N)
      BY DEF Surjection
    <3> QED
      BY <2>1, <3>1, FS_Surjection
  <2>3. Ids(store'.vdb) \subseteq Ids(store.vdb) \cup N
    BY <1>3 DEF Ids
  <2> QED
    BY <2>2, <2>3, FS_Union, FS_Subset
<1>7. \A k \in Keys : store'.nodes[k] # Null => Own(store'.nodes[k])
  BY <1>2, FreshEntry DEF OwnVectors
<1>8. \A d \in Ids(store'.vdb) : Own(store'.vdb[d])
  <2> SUFFICES ASSUME NEW d \in RelationId, store'.vdb[d] # Null
               PROVE  Own(store'.vdb[d])
    BY DEF Ids
  <2>1. CASE store'.vdb[d] = store.vdb[d]
    BY <2>1 DEF OwnVectors, Ids
  <2>2. CASE Fresh(store'.vdb[d], b)
    BY <2>2, FreshEntry
  <2> QED
    BY <1>3, <2>1, <2>2
<1>9. OwnVectors'
  BY <1>7, <1>8 DEF OwnVectors
<1>10. \A k \in Keys : store.nodes[k] # Null => store'.nodes[k] # Null
  BY <1>2, FreshEntry
<1> QED
  BY <1>2, <1>3, <1>4, <1>5, <1>6, <1>9, <1>10

LEMMA LandedKeeps ==
  ASSUME ImportTypeOK, IsFiniteSet(Ids(store.vdb)), OwnVectors,
         NEW b \in Bundle, b = import.bundle, Accepted(b), Sourced,
         import.offset \in 0..Len(ItemsIn[b][import.phase]),
         NEW S \in SUBSET DOMAIN ItemBatch, NEW D \in SUBSET DOMAIN ItemBatch,
         store' = Inserted(D, S),
         NEW p \in Phase, NEW j \in DOMAIN ItemsIn[b][p],
         Landed(b, p, j) \/ (p = import.phase /\ \E i \in S : j = import.offset + i)
  PROVE  Landed(b, p, j)'
<1> DEFINE r == ItemsIn[b][p][j]
           d == <<"canon", Canon[Pair(r)]>>
<1>1. /\ \A k \in Keys : store.nodes[k] # Null => store'.nodes[k] # Null
      /\ \A i \in S : import.phase # 3 => store'.nodes[Key(ItemBatch[i])] # Null
  BY InsertionKeeps
<1>2. r \in Item /\ Key(r) \in Keys
  BY RowsOfBundle DEF Keys
<1>3. \A i \in S : p = import.phase /\ j = import.offset + i => ItemBatch[i] = r
  BY BatchSlice DEF ImportTypeOK
<1>4. SourceOf[r] \in Chunks(b)
  BY <1>3 DEF Landed, Sourced
<1>5. ASSUME p \in {1, 2} PROVE store'.nodes[Key(r)] # Null
  <2>1. CASE Landed(b, p, j)
    <3>1. store.nodes[Key(r)] # Null
      BY <1>5, <2>1 DEF Landed
    <3> HIDE DEF r
    <3> QED
      BY <1>1, <1>2, <3>1
  <2>2. CASE p = import.phase /\ \E i \in S : j = import.offset + i
    <3>1. PICK i \in S : ItemBatch[i] = r
      BY <1>3, <2>2
    <3>2. import.phase # 3
      BY <1>5, <2>2
    <3> HIDE DEF r
    <3> QED
      BY <1>1, <3>1, <3>2
  <2> QED
    BY <2>1, <2>2
<1>6. ASSUME p = 3, r \notin Affected(b) PROVE store'.vdb[d] # Null /\ store'.vdb[d].item = r
  <2>1. r \in Relations(b)
    BY <1>6 DEF Relations
  <2>2. CASE import.phase = 3
    <3>1. /\ (\E i \in S : ItemBatch[i] = r) => store'.vdb[d] # Null /\ store'.vdb[d].item = r
          /\ (~\E i \in S : ItemBatch[i] = r) => store'.vdb[d] = store.vdb[d]
      <4> HIDE DEF r
      <4> QED
        BY <1>6, <2>1, <2>2, UnaffectedKept
    <3>2. CASE \E i \in S : ItemBatch[i] = r
      BY <3>1, <3>2
    <3>3. CASE ~\E i \in S : ItemBatch[i] = r
      <4>1. Landed(b, p, j)
        BY <1>3, <3>3
      <4> QED
        BY <1>6, <3>1, <3>3, <4>1 DEF Landed
    <3> QED
      BY <3>2, <3>3
  <2>3. CASE import.phase # 3
    <3>1. Landed(b, p, j)
      BY <1>6, <2>3
    <3>2. store'.vdb = store.vdb
      BY <2>3 DEF Inserted
    <3> QED
      BY <1>6, <3>1, <3>2 DEF Landed
  <2> QED
    BY <2>2, <2>3
<1> QED
  BY <1>4, <1>5, <1>6 DEF Landed
-----------------------------------------------------------------------------
(* The repair.  Every relationship has one id after it: its safe one if a  *)
(* collision affects it, the canonical one otherwise.                      *)
Place(b, r) == IF r \in Affected(b) THEN <<"safe", Pair(r)>> ELSE <<"canon", Canon[Pair(r)]>>
Places(b) == {Place(b, r) : r \in Relations(b)}

LEMMA OneRelation ==
  ASSUME NEW b \in Bundle, NEW q \in Relations(b), NEW r \in Relations(b), Pair(q) = Pair(r)
  PROVE  q = r
<1>1. PICK i \in DOMAIN ItemsIn[b][3] : q = ItemsIn[b][3][i]
  BY DEF Relations
<1>2. PICK j \in DOMAIN ItemsIn[b][3] : r = ItemsIn[b][3][j]
  BY DEF Relations
<1> QED
  BY <1>1, <1>2, OneRowAPair DEF OneRow

LEMMA PlacesDiffer ==
  ASSUME NEW b \in Bundle, NEW q \in Relations(b), NEW r \in Relations(b),
         Place(b, q) = Place(b, r)
  PROVE  q = r
<1>1. CASE q \in Affected(b) /\ r \in Affected(b)
  BY <1>1, OneRelation DEF Place
<1>2. CASE q \notin Affected(b) /\ r \notin Affected(b)
  <2>1. Canon[Pair(q)] = Canon[Pair(r)]
    BY <1>2 DEF Place
  <2>2. Canon[Pair(q)] \notin Concatenated(b)
    BY <1>2 DEF Affected, Dangerous
  <2>3. Pair(q) = Pair(r)
    BY <2>1, <2>2 DEF Concatenated
  <2> QED
    BY <2>3, OneRelation
<1> QED
  BY <1>1, <1>2 DEF Place

LEMMA PlaceTyped ==
  ASSUME NEW b \in Bundle, NEW r \in Relations(b) PROVE Place(b, r) \in RelationId
<1>1. Pair(r) \in Pairs
  BY AllRowsTyped DEF Pairs
<1> QED
  BY <1>1, ImportAssumption DEF Place, RelationId, SafeId

(* There are as many places as rows of relationships, and as pairs.        *)
LEMMA PlacesCount ==
  ASSUME NEW b \in Bundle
  PROVE  LET n == Len(ItemsIn[b][3]) IN
         /\ n \in Nat
         /\ IsFiniteSet(Relations(b)) /\ Cardinality(Relations(b)) = n
         /\ IsFiniteSet(Places(b)) /\ Cardinality(Places(b)) = n
         /\ Cardinality({Pair(r) : r \in Relations(b)}) = n
<1> DEFINE rows == ItemsIn[b][3]
           n == Len(rows)
           f == [i \in 1..n |-> rows[i]]
           g == [r \in Relations(b) |-> Place(b, r)]
           h == [r \in Relations(b) |-> Pair(r)]
<1>1. n \in Nat /\ DOMAIN rows = 1..n
  BY RowsOfBundle DEF Phase
<1>2. IsFiniteSet(1..n) /\ Cardinality(1..n) = n
  BY <1>1, FS_Interval
<1>3. \A i, j \in 1..n : rows[i] = rows[j] => i = j
  BY <1>1, OneRowAPair DEF OneRow
<1>4. IsFiniteSet(Relations(b)) /\ Cardinality(Relations(b)) = n
  <2>1. /\ Relations(b) = {rows[i] : i \in 1..n}
        /\ \A i, j \in 1..n : rows[i] = rows[j] => i = j
    BY <1>1, <1>3 DEF Relations
  <2> HIDE DEF n, rows
  <2>2. f \in Surjection(1..n, Relations(b))
    BY <2>1 DEF Surjection
  <2>3. f \in Injection(1..n, Relations(b))
    BY <2>1, <2>2 DEF Surjection, Injection, IsInjective
  <2> QED
    BY <1>2, <2>2, <2>3, FS_Surjection
<1>5. IsFiniteSet(Places(b)) /\ Cardinality(Places(b)) = n
  <2>1. \A q, r \in Relations(b) : Place(b, q) = Place(b, r) => q = r
    BY PlacesDiffer
  <2>2. g \in Surjection(Relations(b), Places(b))
    BY DEF Surjection, Places
  <2>3. g \in Injection(Relations(b), Places(b))
    BY <2>1, <2>2 DEF Surjection, Injection, IsInjective
  <2> HIDE DEF g
  <2> QED
    BY <1>4, <2>2, <2>3, FS_Surjection
<1>6. Cardinality({Pair(r) : r \in Relations(b)}) = n
  <2> DEFINE P == {Pair(r) : r \in Relations(b)}
  <2>1. \A q, r \in Relations(b) : Pair(q) = Pair(r) => q = r
    BY OneRelation
  <2>2. h \in Surjection(Relations(b), P)
    BY DEF Surjection
  <2>3. h \in Injection(Relations(b), P)
    BY <2>1, <2>2 DEF Surjection, Injection, IsInjective
  <2> HIDE DEF h, P
  <2>4. Cardinality(P) = n
    BY <1>4, <2>2, <2>3, FS_Surjection
  <2> QED
    BY <2>4 DEF P
<1> QED
  BY <1>1, <1>4, <1>5, <1>6

(* Vectors with every relationship in its place.                           *)
InPlace(b, V) == \A r \in Relations(b) : V[Place(b, r)] # Null /\ V[Place(b, r)].item = r

LEMMA PlacesStored ==
  ASSUME NEW b \in Bundle, NEW V, InPlace(b, V), IsFiniteSet(Ids(V))
  PROVE  /\ Places(b) \subseteq Ids(V)
         /\ Cardinality(Ids(V)) = Len(ItemsIn[b][3]) => Ids(V) = Places(b)
         /\ Ids(V) = Places(b) =>
              /\ {V[d].item : d \in Ids(V)} = Relations(b)
              /\ {Pair(V[d].item) : d \in Ids(V)} = {Pair(r) : r \in Relations(b)}
<1>1. Places(b) \subseteq Ids(V)
  BY PlaceTyped DEF Places, Ids, InPlace
<1>2. Cardinality(Places(b)) = Len(ItemsIn[b][3])
  BY PlacesCount
<1>3. Cardinality(Ids(V)) = Len(ItemsIn[b][3]) => Ids(V) = Places(b)
  BY <1>1, <1>2, FS_Subset
<1>4. ASSUME Ids(V) = Places(b)
      PROVE  /\ {V[d].item : d \in Ids(V)} = Relations(b)
             /\ {Pair(V[d].item) : d \in Ids(V)} = {Pair(r) : r \in Relations(b)}
  BY <1>4 DEF InPlace, Places
<1> QED
  BY <1>1, <1>3, <1>4

(* What the repair stores under each id.                                   *)
LEMMA RepairedAt ==
  ASSUME ImportTypeOK, NEW b \in Bundle, b = import.bundle, Accepted(b)
  PROVE  /\ RepairedVdb = [d \in RelationId |-> RepairedVdb[d]]
         /\ \A r \in Affected(b) : RepairedVdb[<<"safe", Pair(r)>>] =
                                      MakeEntry(r, Lookup(b, r))
         /\ \A d \in RelationId : (~\E r \in Affected(b) : d = <<"safe", Pair(r)>>) =>
              RepairedVdb[d] = IF \E c \in Dangerous(b) : d = <<"canon", c>> THEN Null
                               ELSE store.vdb[d]
<1>1. RepairedVdb = [d \in RelationId |-> RepairedVdb[d]]
  BY DEF RepairedVdb
<1>2. ASSUME NEW r \in Affected(b)
      PROVE  RepairedVdb[<<"safe", Pair(r)>>] = MakeEntry(r, Lookup(b, r))
  <2> DEFINE d == <<"safe", Pair(r)>>
             q == CHOOSE x \in Affected(b) : d = <<"safe", Pair(x)>>
  <2>1. r \in Relations(b) /\ r \in AllRows(b) /\ Affected(b) \subseteq Relations(b)
    BY AllRowsTyped
  <2>2. d \in RelationId
    BY <2>1, PlaceTyped DEF Place
  <2>3. q \in Affected(b) /\ Pair(q) = Pair(r)
    <3>1. \E x \in Affected(b) : d = <<"safe", Pair(x)>>
      OBVIOUS
    <3>2. q \in Affected(b) /\ d = <<"safe", Pair(q)>>
      BY <3>1
    <3> HIDE DEF q
    <3> QED
      BY <3>2
  <2>4. q = r
    <3> HIDE DEF q
    <3> QED
      BY <2>1, <2>3, OneRelation
  <2>5. RepairedVdb[d] = MakeEntry(q, Lookup(b, q))
    BY <2>2 DEF RepairedVdb
  <2> HIDE DEF q
  <2> QED
    BY <2>4, <2>5
<1>3. ASSUME NEW d \in RelationId, ~\E r \in Affected(b) : d = <<"safe", Pair(r)>>
      PROVE  RepairedVdb[d] = IF \E c \in Dangerous(b) : d = <<"canon", c>> THEN Null
                              ELSE store.vdb[d]
  BY <1>3 DEF RepairedVdb
<1> QED
  BY <1>1, <1>2, <1>3

(* The repair puts every relationship in its place, once the import has    *)
(* come to the end of the bundle.                                          *)
LEMMA RepairPlaces ==
  ASSUME ImportTypeOK, NEW b \in Bundle, b = import.bundle, Accepted(b), AllReached(b)
  PROVE  InPlace(b, RepairedVdb)
<1> SUFFICES ASSUME NEW r \in Relations(b)
             PROVE  RepairedVdb[Place(b, r)] # Null /\ RepairedVdb[Place(b, r)].item = r
  BY DEF InPlace
<1>1. r \in Item /\ r \in AllRows(b) /\ Place(b, r) \in RelationId
  BY AllRowsTyped, PlaceTyped
<1>2. CASE r \in Affected(b)
  <2>1. RepairedVdb[Place(b, r)] = MakeEntry(r, Lookup(b, r))
    BY <1>2, RepairedAt DEF Place
  <2>2. Lookup(b, r) \in Wording
    BY <1>1, LookupOwn
  <2> QED
    BY <1>1, <2>1, <2>2, NullAssumption DEF MakeEntry, Entry
<1>3. CASE r \notin Affected(b)
  <2>1. Place(b, r) = <<"canon", Canon[Pair(r)]>> /\ Canon[Pair(r)] \notin Dangerous(b)
    BY <1>3 DEF Place, Affected
  <2>2. RepairedVdb[Place(b, r)] = store.vdb[Place(b, r)]
    <3>1. ~\E q \in Affected(b) : Place(b, r) = <<"safe", Pair(q)>>
      BY <2>1
    <3>2. ~\E c \in Dangerous(b) : Place(b, r) = <<"canon", c>>
      BY <2>1
    <3> QED
      BY <1>1, <3>1, <3>2, RepairedAt
  <2>3. PICK j \in DOMAIN ItemsIn[b][3] : ItemsIn[b][3][j] = r
    BY DEF Relations
  <2>4. Landed(b, 3, j)
    <3>1. 3 \in Phase /\ j <= Len(ItemsIn[b][3])
      BY RowsOfBundle DEF Phase
    <3> QED
      BY <3>1 DEF AllReached, Reached
  <2> QED
    BY <1>3, <2>1, <2>2, <2>3, <2>4 DEF Landed
<1> QED
  BY <1>2, <1>3

LEMMA RepairedTyped ==
  ASSUME ImportTypeOK, OwnVectors, IsFiniteSet(Ids(store.vdb)),
         NEW b \in Bundle, b = import.bundle, Accepted(b)
  PROVE  /\ RepairedVdb \in [RelationId -> Entry \cup {Null}]
         /\ IsFiniteSet(Ids(RepairedVdb))
         /\ \A d \in Ids(RepairedVdb) : Own(RepairedVdb[d])
<1>1. store.vdb \in [RelationId -> Entry \cup {Null}]
  BY DEF ImportTypeOK
<1>2. \A d \in RelationId : \/ RepairedVdb[d] \in {Null, store.vdb[d]}
                            \/ Fresh(RepairedVdb[d], b) /\ d \in Places(b)
  <2> SUFFICES ASSUME NEW d \in RelationId
               PROVE  \/ RepairedVdb[d] \in {Null, store.vdb[d]}
                      \/ Fresh(RepairedVdb[d], b) /\ d \in Places(b)
    OBVIOUS
  <2>1. CASE \E r \in Affected(b) : d = <<"safe", Pair(r)>>
    <3>1. PICK r \in Affected(b) : d = <<"safe", Pair(r)>>
      BY <2>1
    <3>2. r \in AllRows(b) /\ r \in Relations(b)
      BY AllRowsTyped
    <3>3. RepairedVdb[d] = MakeEntry(r, Lookup(b, r))
      BY <3>1, RepairedAt
    <3> QED
      BY <3>1, <3>2, <3>3 DEF Fresh, Places, Place
  <2>2. CASE ~\E r \in Affected(b) : d = <<"safe", Pair(r)>>
    BY <2>2, RepairedAt
  <2> QED
    BY <2>1, <2>2
<1>3. \A d \in RelationId : RepairedVdb[d] \in Entry \cup {Null}
  BY <1>1, <1>2, FreshEntry
<1>4. RepairedVdb \in [RelationId -> Entry \cup {Null}]
  BY <1>3, RepairedAt
<1>5. IsFiniteSet(Ids(RepairedVdb))
  <2>1. Ids(RepairedVdb) \subseteq Ids(store.vdb) \cup Places(b)
    BY <1>2 DEF Ids
  <2> QED
    BY <2>1, PlacesCount, FS_Union, FS_Subset
<1>6. ASSUME NEW d \in Ids(RepairedVdb) PROVE Own(RepairedVdb[d])
  <2>1. d \in RelationId /\ RepairedVdb[d] # Null
    BY DEF Ids
  <2>2. CASE RepairedVdb[d] = store.vdb[d]
    BY <2>1, <2>2 DEF OwnVectors, Ids
  <2>3. CASE Fresh(RepairedVdb[d], b)
    BY <2>3, FreshEntry
  <2> QED
    BY <1>2, <2>1, <2>2, <2>3
<1> QED
  BY <1>4, <1>5, <1>6

(* A count that agrees leaves the relationships of the bundle and nothing  *)
(* else.                                                                   *)
LEMMA CountedWhole ==
  ASSUME ImportTypeOK, OwnVectors, IsFiniteSet(Ids(store.vdb)),
         NEW b \in Bundle, b = import.bundle, Accepted(b), AllReached(b), Counted(RepairedVdb)
  PROVE  /\ {RepairedVdb[d].item : d \in Ids(RepairedVdb)} = Relations(b)
         /\ Cardinality(Ids(RepairedVdb)) = Cardinality(Relations(b))
<1>1. InPlace(b, RepairedVdb) /\ IsFiniteSet(Ids(RepairedVdb))
  BY RepairPlaces, RepairedTyped
<1>2. Cardinality(Ids(RepairedVdb)) = Len(ItemsIn[b][3])
  BY DEF Counted, Numbered, RelationCount
<1>3. Ids(RepairedVdb) = Places(b)
  BY <1>1, <1>2, PlacesStored
<1>4. {RepairedVdb[d].item : d \in Ids(RepairedVdb)} = Relations(b)
  BY <1>1, <1>3, PlacesStored
<1>5. Cardinality(Relations(b)) = Len(ItemsIn[b][3])
  BY PlacesCount
<1> QED
  BY <1>2, <1>4, <1>5

(* And with no row of another bundle it does agree.                        *)
LEMMA OwnIdsRepaired ==
  ASSUME ImportTypeOK, OwnVectors, IsFiniteSet(Ids(store.vdb)),
         NEW b \in Bundle, b = import.bundle, Accepted(b), AllReached(b),
         Ids(store.vdb) \subseteq OwnIds(b)
  PROVE  Counted(RepairedVdb)
<1>1. InPlace(b, RepairedVdb) /\ IsFiniteSet(Ids(RepairedVdb))
  BY RepairPlaces, RepairedTyped
<1>2. Ids(RepairedVdb) \subseteq Places(b)
  <2> SUFFICES ASSUME NEW d \in Ids(RepairedVdb) PROVE d \in Places(b)
    OBVIOUS
  <2>1. d \in RelationId /\ RepairedVdb[d] # Null
    BY DEF Ids
  <2>2. CASE \E r \in Affected(b) : d = <<"safe", Pair(r)>>
    BY <2>2, AllRowsTyped DEF Places, Place
  <2>3. CASE ~\E r \in Affected(b) : d = <<"safe", Pair(r)>>
    <3>1. RepairedVdb[d] = store.vdb[d] /\ ~\E c \in Dangerous(b) : d = <<"canon", c>>
      BY <2>1, <2>3, RepairedAt
    <3>2. d \in OwnIds(b)
      BY <2>1, <3>1 DEF Ids
    <3>3. PICK r \in Relations(b) : d = <<"canon", Canon[Pair(r)]>>
      BY <2>3, <3>2 DEF OwnIds
    <3>4. r \notin Affected(b)
      BY <3>1, <3>3 DEF Affected
    <3> QED
      BY <3>3, <3>4 DEF Places, Place
  <2> QED
    BY <2>2, <2>3
<1>3. Ids(RepairedVdb) = Places(b)
  BY <1>1, <1>2, PlacesStored
<1>4. Cardinality(Ids(RepairedVdb)) = Len(ItemsIn[b][3])
  BY <1>3, PlacesCount
<1>5. Cardinality({Pair(RepairedVdb[d].item) : d \in Ids(RepairedVdb)}) = Len(ItemsIn[b][3])
  <2>1. {Pair(RepairedVdb[d].item) : d \in Ids(RepairedVdb)} = {Pair(r) : r \in Relations(b)}
    BY <1>1, <1>3, PlacesStored
  <2>2. Cardinality({Pair(r) : r \in Relations(b)}) = Len(ItemsIn[b][3])
    BY PlacesCount
  <2> QED
    BY <2>1, <2>2
<1> QED
  BY <1>4, <1>5 DEF Counted, Numbered, RelationCount
-----------------------------------------------------------------------------
(* The steps of the importer.                                              *)
LEMMA ReachedKeeps ==
  ASSUME ImportTypeOK, IsFiniteSet(Ids(store.vdb)), OwnVectors,
         NEW b \in Bundle, b = import.bundle, Accepted(b), Sourced,
         import.offset \in 0..Len(ItemsIn[b][import.phase]),
         NEW S \in SUBSET DOMAIN ItemBatch, NEW D \in SUBSET DOMAIN ItemBatch,
         store' = Inserted(D, S),
         NEW p \in Phase, NEW n, Reached(b, p, n)
  PROVE  Reached(b, p, n)'
<1>1. n \in 0..Len(ItemsIn[b][p])
  BY DEF Reached
<1>2. ASSUME NEW q \in Phase, NEW j \in DOMAIN ItemsIn[b][q], q < p \/ (q = p /\ j <= n)
      PROVE  Landed(b, q, j)'
  <2>1. Landed(b, q, j)
    BY <1>2 DEF Reached
  <2> QED
    BY <2>1, LandedKeeps
<1> QED
  BY <1>1, <1>2 DEF Reached

LEMMA Importing ==
  ASSUME ImportInv, import.at = "insert"
  PROVE  /\ import.bundle \in Bundle /\ Accepted(import.bundle) /\ import.phase \in Phase
         /\ Reached(import.bundle, import.phase, import.offset)
         /\ import.offset \in 0..Len(ItemsIn[import.bundle][import.phase])
         /\ progress # Null => import.bundle = progress.bundle /\ progress.phase \in Phase
<1>1. Running
  BY DEF Running
<1>2. progress # Null => progress.phase \in 1..4 /\ progress.phase # 4
  BY <1>1 DEF ImportInv, ImporterTrue, ImportTypeOK
<1>3. progress # Null => progress.phase \in Phase
  BY <1>2 DEF Phase
<1> QED
  BY <1>1, <1>3 DEF ImportInv, ImporterTrue, ImportTypeOK, Reached

(* Rows that go in, all of a batch or some, leave what was recorded true.  *)
LEMMA RowsIn ==
  ASSUME ImportInv, import.at = "insert", Sourced,
         NEW S \in SUBSET DOMAIN ItemBatch, NEW D \in SUBSET DOMAIN ItemBatch,
         store' = Inserted(D, S), UNCHANGED <<backend, progress>>
  PROVE  /\ store'.nodes \in [Keys -> Entry \cup {Null}]
         /\ store'.vdb \in [RelationId -> Entry \cup {Null}]
         /\ store'.edges \subseteq Pairs
         /\ IsFiniteSet(Ids(store'.vdb)) /\ OwnVectors' /\ ProgressTrue'
<1> DEFINE b == import.bundle
<1>1. /\ b \in Bundle /\ Accepted(b) /\ import.phase \in Phase
      /\ import.offset \in 0..Len(ItemsIn[b][import.phase])
      /\ progress # Null => b = progress.bundle /\ progress.phase \in Phase
  BY Importing
<1>2. ImportTypeOK /\ IsFiniteSet(Ids(store.vdb)) /\ OwnVectors /\ ProgressTrue
  BY DEF ImportInv
<1>3. ASSUME progress # Null
      PROVE  Reached(progress.bundle, progress.phase, progress.offset)'
  <2>1. PICK x \in Bundle, y \in Phase, z \in {progress.offset} :
          x = progress.bundle /\ x = b /\ y = progress.phase /\ z = progress.offset
    BY <1>1, <1>3
  <2>2. Reached(x, y, z)
    BY <1>2, <1>3, <2>1 DEF ProgressTrue
  <2>3. Reached(x, y, z)'
    BY <1>1, <1>2, <2>1, <2>2, ReachedKeeps
  <2>4. x = progress'.bundle /\ y = progress'.phase /\ z = progress'.offset
    BY <2>1
  <2> QED
    BY <2>3, <2>4 DEF Reached
<1>4. ProgressTrue'
  <2>1. progress # Null => progress.phase # 4
    BY <1>1 DEF Phase
  <2> QED
    BY <1>1, <1>3, <2>1 DEF ProgressTrue, Accepted
<1> QED
  BY <1>1, <1>2, <1>4, InsertionKeeps

LEMMA InsertStep ==
  ASSUME ImportInv, Insert
  PROVE  ImportInv'
<1> DEFINE rows == ItemsIn[import.bundle][import.phase]
<1>1. /\ import.at = "insert" /\ Sourced /\ UNCHANGED <<backend, progress>>
      /\ store' = Inserted(DOMAIN ItemBatch, DOMAIN ItemBatch)
      /\ import' = [import EXCEPT !.at = IF Len(ItemBatch) = BatchSize THEN "save" ELSE "next",
                                  !.offset = @ + Len(ItemBatch)]
  BY DEF Insert, Insertable
<1>2. /\ import.bundle \in Bundle /\ Accepted(import.bundle) /\ import.phase \in Phase
      /\ Reached(import.bundle, import.phase, import.offset)
      /\ import.offset \in 0..Len(rows) /\ Running
      /\ progress # Null => import.bundle = progress.bundle /\ progress.phase \in Phase
  BY <1>1, Importing DEF Running
<1>3. ImportTypeOK /\ IsFiniteSet(Ids(store.vdb)) /\ OwnVectors
  BY DEF ImportInv
<1>4. PICK b \in Bundle, p \in Phase, n \in 0..Len(rows),
          m \in {import.offset + Len(ItemBatch)} :
        /\ b = import.bundle /\ p = import.phase /\ n = import.offset
        /\ m = n + Len(ItemBatch)
  BY <1>2
<1>5. /\ m \in 0..Len(rows) /\ m \in Nat /\ (Len(ItemBatch) # BatchSize => m = Len(rows))
      /\ DOMAIN ItemBatch = 1..Len(ItemBatch) /\ Len(ItemBatch) \in Nat
      /\ DOMAIN rows = 1..Len(rows) /\ Len(rows) \in Nat
  BY <1>2, <1>4, BatchSlice, RowsOfBundle
<1>6. /\ import'.bundle = b /\ import'.phase = p /\ import'.offset = m
      /\ import'.at \in {"save", "next"}
      /\ import'.at = "next" => m = Len(rows)
      /\ import' \in [at : {"idle", "insert", "save", "next", "repair", "finish"},
                      bundle : Bundle \cup {Null}, phase : Phase, offset : Nat]
  <2>1. import \in [at : {"idle", "insert", "save", "next", "repair", "finish"},
                    bundle : Bundle \cup {Null}, phase : Phase, offset : Nat]
    BY <1>3 DEF ImportTypeOK
  <2>2. import' = [import EXCEPT !.at = IF Len(ItemBatch) = BatchSize THEN "save" ELSE "next",
                                 !.offset = m]
    BY <1>1, <1>4, <2>1
  <2> HIDE DEF rows
  <2> QED
    BY <1>4, <1>5, <2>1, <2>2
<1>7. Reached(b, p, m)'
  <2>1. ASSUME NEW q \in Phase, NEW j \in DOMAIN ItemsIn[b][q], q < p \/ (q = p /\ j <= m)
        PROVE  Landed(b, q, j)'
    <3>1. CASE q < p \/ j <= n
      <4>1. Landed(b, q, j)
        BY <1>2, <1>4, <2>1, <3>1 DEF Reached
      <4> QED
        BY <1>1, <1>2, <1>3, <1>4, <4>1, LandedKeeps
    <3>2. CASE ~(q < p \/ j <= n)
      <4>1. q = p /\ j <= m /\ j \in Nat
        BY <1>4, <1>5, <2>1, <3>2
      <4>2. PICK i : i = j - n
        OBVIOUS
      <4>3. i \in 1..Len(ItemBatch) /\ j = n + i
        BY <1>4, <1>5, <3>2, <4>1, <4>2
      <4>4. i \in DOMAIN ItemBatch /\ j = import.offset + i
        BY <1>4, <1>5, <4>3
      <4> QED
        BY <1>1, <1>2, <1>3, <1>4, <4>1, <4>4, LandedKeeps
    <3> QED
      BY <3>1, <3>2
  <2> QED
    BY <1>4, <1>5, <2>1 DEF Reached
<1>8. /\ store'.nodes \in [Keys -> Entry \cup {Null}]
      /\ store'.vdb \in [RelationId -> Entry \cup {Null}]
      /\ store'.edges \subseteq Pairs
      /\ IsFiniteSet(Ids(store'.vdb)) /\ OwnVectors' /\ ProgressTrue'
  BY <1>1, RowsIn
<1>9. ImportTypeOK'
  BY <1>1, <1>3, <1>6, <1>8 DEF ImportTypeOK
<1>10. ImporterTrue'
  <2>1. Reached(import.bundle, import.phase, import.offset)'
    BY <1>6, <1>7 DEF Reached
  <2>2. /\ import'.bundle \in Bundle /\ Accepted(import'.bundle)
        /\ progress' # Null => import'.bundle = progress'.bundle /\ progress'.phase # 4
        /\ import'.at = "next" => import'.offset = Len(ItemsIn[import'.bundle][import'.phase])
    BY <1>1, <1>2, <1>4, <1>6 DEF Phase
  <2> QED
    BY <1>6, <2>1, <2>2 DEF ImporterTrue, Accepted
<1> QED
  BY <1>8, <1>9, <1>10 DEF ImportInv

(* Without a change of the store what was reached remains so.              *)
LEMMA StoreStays ==
  ASSUME UNCHANGED <<backend, store>>, NEW b, NEW p, NEW n
  PROVE  /\ Reached(b, p, n) => Reached(b, p, n)'
         /\ AllReached(b) => AllReached(b)'
         /\ Whole(b) => Whole(b)'
         /\ IsFiniteSet(Ids(store.vdb)) => IsFiniteSet(Ids(store.vdb))'
         /\ OwnVectors => OwnVectors'
<1>1. \A q \in Phase : \A j \in DOMAIN ItemsIn[b][q] : Landed(b, q, j) => Landed(b, q, j)'
  BY DEF Landed
<1>2. Reached(b, p, n) => Reached(b, p, n)'
  BY <1>1 DEF Reached
<1>3. AllReached(b) => AllReached(b)'
  BY <1>1 DEF AllReached, Reached
<1>4. Whole(b) => Whole(b)'
  BY DEF Whole, Ids
<1>5. IsFiniteSet(Ids(store.vdb)) => IsFiniteSet(Ids(store.vdb))'
  BY DEF Ids
<1> QED
  BY <1>2, <1>3, <1>4, <1>5 DEF OwnVectors, Ids

(* Nor does what is recorded change when neither it nor the store does.    *)
LEMMA RecordStays ==
  ASSUME ProgressTrue, UNCHANGED <<backend, progress, store>>
  PROVE  ProgressTrue'
<1> SUFFICES ASSUME progress # Null
             PROVE  /\ Accepted(progress.bundle)
                    /\ progress.phase \in Phase =>
                         Reached(progress.bundle, progress.phase, progress.offset)'
                    /\ progress.phase = 4 =>
                         AllReached(progress.bundle)' /\ Whole(progress.bundle)'
  BY DEF ProgressTrue, Accepted
<1>1. PICK b, p, n : b = progress.bundle /\ p = progress.phase /\ n = progress.offset
  OBVIOUS
<1>2. /\ Accepted(b) /\ (p \in Phase => Reached(b, p, n))
      /\ p = 4 => AllReached(b) /\ Whole(b)
  BY <1>1 DEF ProgressTrue
<1>3. (p \in Phase => Reached(b, p, n)') /\ (p = 4 => AllReached(b)' /\ Whole(b)')
  BY <1>2, StoreStays
<1>4. b = progress'.bundle /\ p = progress'.phase /\ n = progress'.offset
  BY <1>1
<1> QED
  BY <1>1, <1>2, <1>3, <1>4 DEF AllReached, Reached, Whole

(* An import that ends keeps what was there.                               *)
LEMMA IdleStep ==
  ASSUME ImportInv, UNCHANGED <<backend, progress, store>>, import' = NoImport
  PROVE  ImportInv'
<1>1. ImportTypeOK'
  BY DEF ImportInv, ImportTypeOK, NoImport, MakeImport, Phase
<1>2. IsFiniteSet(Ids(store.vdb))' /\ OwnVectors'
  BY StoreStays DEF ImportInv
<1>3. ProgressTrue'
  BY RecordStays DEF ImportInv
<1>4. ImporterTrue'
  BY DEF ImporterTrue, Running, NoImport, MakeImport
<1> QED
  BY <1>1, <1>2, <1>3, <1>4 DEF ImportInv

LEMMA StopStep ==
  ASSUME ImportInv, import.at = "insert", Sourced, NEW S \in SUBSET DOMAIN ItemBatch, Stop(S)
  PROVE  ImportInv'
<1>1. PICK D \in SUBSET DOMAIN ItemBatch : store' = Inserted(D, S)
  BY DEF Stop
<1>2. UNCHANGED <<backend, progress>> /\ import' = NoImport
  BY DEF Stop
<1>3. /\ store'.nodes \in [Keys -> Entry \cup {Null}]
      /\ store'.vdb \in [RelationId -> Entry \cup {Null}]
      /\ store'.edges \subseteq Pairs
      /\ IsFiniteSet(Ids(store'.vdb)) /\ OwnVectors' /\ ProgressTrue'
  BY <1>1, <1>2, RowsIn
<1>4. ImportTypeOK'
  BY <1>2, <1>3 DEF ImportInv, ImportTypeOK, NoImport, MakeImport, Phase
<1>5. ImporterTrue'
  BY <1>2 DEF ImporterTrue, Running, NoImport, MakeImport
<1> QED
  BY <1>3, <1>4, <1>5 DEF ImportInv

LEMMA BeginStep ==
  ASSUME ImportInv, Begin
  PROVE  ImportInv'
<1>1. UNCHANGED <<backend, progress, store>> /\ ~Running
  BY DEF Begin
<1>2. PICK b \in Bundle :
        \/ /\ progress = Null /\ Accepted(b)
           /\ import' = MakeImport("insert", b, 1, 0)
        \/ /\ progress # Null /\ progress.bundle = b /\ progress.phase \in Phase
           /\ import' = MakeImport("insert", b, progress.phase, progress.offset)
  BY DEF Begin
<1>3. PICK p \in Phase, n \in Nat :
        /\ import' = MakeImport("insert", b, p, n)
        /\ Accepted(b) /\ Reached(b, p, n)
        /\ progress # Null => progress.bundle = b /\ progress.phase # 4
  <2>1. CASE progress = Null
    <3>1. 1 \in Phase /\ Reached(b, 1, 0)
      <4>1. Len(ItemsIn[b][1]) \in Nat
        BY RowsOfBundle DEF Phase
      <4>2. \A q \in Phase : \A j \in DOMAIN ItemsIn[b][q] : ~(q < 1 \/ (q = 1 /\ j <= 0))
        BY RowsOfBundle DEF Phase
      <4> QED
        BY <4>1, <4>2 DEF Reached, Phase
    <3> QED
      BY <1>2, <2>1, <3>1
  <2>2. CASE progress # Null
    <3>1. /\ progress.bundle = b /\ progress.phase \in Phase
          /\ import' = MakeImport("insert", b, progress.phase, progress.offset)
      BY <1>2, <2>2
    <3>2. progress.offset \in Nat /\ progress.phase # 4
      BY <2>2, <3>1 DEF ImportInv, ImportTypeOK, Phase
    <3>3. Accepted(b) /\ Reached(b, progress.phase, progress.offset)
      BY <2>2, <3>1 DEF ImportInv, ProgressTrue
    <3> QED
      BY <3>1, <3>2, <3>3
  <2> QED
    BY <2>1, <2>2
<1>4. ImportTypeOK'
  BY <1>1, <1>3 DEF ImportInv, ImportTypeOK, MakeImport
<1>5. ImporterTrue'
  <2>1. Reached(b, p, n)'
    BY <1>1, <1>3, StoreStays
  <2>2. import'.at = "insert" /\ import'.bundle = b /\ import'.phase = p /\ import'.offset = n
    BY <1>3 DEF MakeImport
  <2>3. progress' # Null => import'.bundle = progress'.bundle /\ progress'.phase # 4
    BY <1>1, <1>3, <2>2
  <2> QED
    BY <1>3, <2>1, <2>2, <2>3 DEF ImporterTrue, Reached
<1> QED
  BY <1>1, <1>4, <1>5, StoreStays, RecordStays DEF ImportInv

LEMMA RecheckStep ==
  ASSUME ImportInv, Recheck
  PROVE  ImportInv'
<1>1. /\ UNCHANGED <<backend, progress, store>> /\ progress # Null /\ progress.phase = 4
      /\ import' = MakeImport("repair", progress.bundle, 3, 0)
  BY DEF Recheck
<1>2. PICK b \in Bundle : b = progress.bundle /\ Accepted(b) /\ AllReached(b)
  BY <1>1 DEF ImportInv, ImportTypeOK, ProgressTrue
<1>3. ImportTypeOK'
  BY <1>1, <1>2 DEF ImportInv, ImportTypeOK, MakeImport, Phase
<1>4. ImporterTrue'
  <2>1. AllReached(b)'
    BY <1>1, <1>2, StoreStays
  <2>2. import'.at = "repair" /\ import'.bundle = b /\ import'.phase = 3
    BY <1>1, <1>2 DEF MakeImport
  <2>3. progress' # Null => import'.bundle = progress'.bundle
    BY <1>1, <1>2, <2>2
  <2> QED
    BY <1>2, <2>1, <2>2, <2>3 DEF ImporterTrue, AllReached, Reached
<1> QED
  BY <1>1, <1>3, <1>4, StoreStays, RecordStays DEF ImportInv

LEMMA InsertFailsStep ==
  ASSUME ImportInv, InsertFails
  PROVE  ImportInv'
<1>1. CASE Sourced
  <2>1. PICK S \in SUBSET WithVector : Stop(S)
    BY <1>1 DEF InsertFails
  <2>2. S \in SUBSET DOMAIN ItemBatch
    BY DEF WithVector
  <2> QED
    BY <1>1, <2>1, <2>2, StopStep DEF InsertFails
<1>2. CASE ~Sourced
  BY <1>2, IdleStep DEF InsertFails
<1> QED
  BY <1>1, <1>2

LEMMA KillStep ==
  ASSUME ImportInv, KillImport
  PROVE  ImportInv'
<1>1. CASE import' = NoImport /\ UNCHANGED <<backend, progress, store>>
  BY <1>1, IdleStep
<1>2. CASE import.at = "insert" /\ Insertable /\ \E S \in SUBSET DOMAIN ItemBatch : Stop(S)
  BY <1>2, StopStep DEF Insertable
<1> QED
  BY <1>1, <1>2 DEF KillImport

LEMMA SaveStep ==
  ASSUME ImportInv, Save
  PROVE  ImportInv'
<1>1. /\ import.at = "save" /\ UNCHANGED <<backend, store>>
      /\ progress' = [bundle |-> import.bundle, phase |-> import.phase, offset |-> import.offset]
      /\ import' = [import EXCEPT !.at = "insert"]
  BY DEF Save
<1>2. PICK b \in Bundle, p \in Phase, n \in Nat :
        /\ b = import.bundle /\ p = import.phase /\ n = import.offset
        /\ Accepted(b) /\ Reached(b, p, n)
  BY <1>1 DEF ImportInv, ImportTypeOK, ImporterTrue, Running
<1>3. ImportTypeOK'
  BY <1>1, <1>2 DEF ImportInv, ImportTypeOK, Phase
<1>4. Reached(b, p, n)' /\ p # 4
  BY <1>1, <1>2, StoreStays DEF Phase
<1>5. /\ progress'.bundle = b /\ progress'.phase = p /\ progress'.offset = n
      /\ import'.at = "insert" /\ import'.bundle = b /\ import'.phase = p /\ import'.offset = n
  BY <1>1, <1>2 DEF ImportInv, ImportTypeOK
<1>6. ProgressTrue'
  BY <1>2, <1>4, <1>5 DEF ProgressTrue, Reached
<1>7. ImporterTrue'
  BY <1>2, <1>4, <1>5 DEF ImporterTrue, Reached
<1> QED
  BY <1>1, <1>3, <1>6, <1>7, StoreStays DEF ImportInv

LEMMA NextPhaseStep ==
  ASSUME ImportInv, NextPhase
  PROVE  ImportInv'
<1>1. /\ import.at = "next" /\ UNCHANGED <<backend, store>>
      /\ progress' = [bundle |-> import.bundle,
                      phase |-> IF import.phase = 3 THEN 3 ELSE import.phase + 1,
                      offset |-> IF import.phase = 3 THEN import.offset ELSE 0]
      /\ import' = IF import.phase = 3 THEN [import EXCEPT !.at = "repair"]
                   ELSE MakeImport("insert", import.bundle, import.phase + 1, 0)
  BY DEF NextPhase
<1>2. PICK b \in Bundle, p \in Phase, n \in Nat :
        /\ b = import.bundle /\ p = import.phase /\ n = import.offset
        /\ Accepted(b) /\ Reached(b, p, n) /\ n = Len(ItemsIn[b][p])
  BY <1>1 DEF ImportInv, ImportTypeOK, ImporterTrue, Running
<1>3. CASE p = 3
  <2>1. AllReached(b) /\ AllReached(b)'
    BY <1>1, <1>2, <1>3, StoreStays DEF AllReached
  <2>2. Reached(b, p, n)'
    BY <1>1, <1>2, StoreStays
  <2>3. /\ progress' = [bundle |-> b, phase |-> 3, offset |-> n]
        /\ import' = [import EXCEPT !.at = "repair"]
    BY <1>1, <1>2, <1>3
  <2>4. ImportTypeOK'
    BY <1>1, <1>2, <2>3 DEF ImportInv, ImportTypeOK, Phase
  <2>5. /\ progress'.bundle = b /\ progress'.phase = p /\ progress'.offset = n /\ p # 4
        /\ import'.at = "repair" /\ import'.bundle = b /\ import'.phase = 3
    <3>1. progress'.bundle = b /\ progress'.phase = p /\ progress'.offset = n /\ p # 4
      BY <1>3, <2>3
    <3>2. import'.at = "repair" /\ import'.bundle = import.bundle /\ import'.phase = import.phase
      BY <2>3 DEF ImportInv, ImportTypeOK
    <3> QED
      BY <1>2, <1>3, <3>1, <3>2
  <2>6. ProgressTrue'
    BY <1>2, <1>3, <2>2, <2>5 DEF ProgressTrue, Reached
  <2>7. ImporterTrue'
    BY <1>2, <2>1, <2>5 DEF ImporterTrue, AllReached, Reached
  <2> QED
    BY <1>1, <2>4, <2>6, <2>7, StoreStays DEF ImportInv
<1>4. CASE p # 3
  <2>1. PICK q \in Phase : q = p + 1 /\ q # 4
    BY <1>2, <1>4 DEF Phase
  <2>2. Reached(b, q, 0)
    <3>1. Len(ItemsIn[b][q]) \in Nat
      BY RowsOfBundle
    <3>2. ASSUME NEW x \in Phase, NEW j \in DOMAIN ItemsIn[b][x], x < q \/ (x = q /\ j <= 0)
          PROVE  Landed(b, x, j)
      <4>1. j \in 1..Len(ItemsIn[b][x]) /\ Len(ItemsIn[b][x]) \in Nat
        BY RowsOfBundle
      <4>2. x < p \/ (x = p /\ j <= n)
        BY <1>2, <2>1, <3>2, <4>1 DEF Phase
      <4> QED
        BY <1>2, <4>2 DEF Reached
    <3> QED
      BY <3>1, <3>2 DEF Reached
  <2>3. Reached(b, q, 0)'
    BY <1>1, <2>2, StoreStays
  <2>4. /\ progress' = [bundle |-> b, phase |-> q, offset |-> 0]
        /\ import' = MakeImport("insert", b, q, 0)
    BY <1>1, <1>2, <1>4, <2>1
  <2>5. ImportTypeOK'
    BY <1>1, <1>2, <2>4 DEF ImportInv, ImportTypeOK, Phase, MakeImport
  <2>6. /\ progress'.bundle = b /\ progress'.phase = q /\ progress'.offset = 0
        /\ import'.at = "insert" /\ import'.bundle = b /\ import'.phase = q
        /\ import'.offset = 0
    BY <2>4 DEF MakeImport
  <2>7. ProgressTrue'
    BY <1>2, <2>1, <2>3, <2>6 DEF ProgressTrue, Reached
  <2>8. ImporterTrue'
    BY <1>2, <2>1, <2>3, <2>6 DEF ImporterTrue, Reached
  <2> QED
    BY <1>1, <2>5, <2>7, <2>8, StoreStays DEF ImportInv
<1> QED
  BY <1>3, <1>4

(* The repair itself, when its count agrees.                               *)
LEMMA RepairKeeps ==
  ASSUME ImportInv, import.at = "repair", Counted(RepairedVdb),
         store' = [store EXCEPT !.vdb = RepairedVdb], UNCHANGED <<backend, progress>>,
         NEW b \in Bundle, b = import.bundle
  PROVE  /\ Accepted(b) /\ AllReached(b)' /\ Whole(b)'
         /\ progress # Null => progress.bundle = b
         /\ store'.nodes = store.nodes /\ store'.edges = store.edges
         /\ store'.vdb \in [RelationId -> Entry \cup {Null}]
         /\ IsFiniteSet(Ids(store.vdb))' /\ OwnVectors' /\ ProgressTrue'
<1>1. /\ Accepted(b) /\ AllReached(b) /\ (progress # Null => progress.bundle = b)
      /\ ImportTypeOK /\ OwnVectors /\ IsFiniteSet(Ids(store.vdb))
  BY DEF ImportInv, ImporterTrue, Running
<1>2. store'.nodes = store.nodes /\ store'.edges = store.edges /\ store'.vdb = RepairedVdb
  BY <1>1 DEF ImportTypeOK
<1>3. /\ RepairedVdb \in [RelationId -> Entry \cup {Null}]
      /\ IsFiniteSet(Ids(RepairedVdb))
      /\ \A d \in Ids(RepairedVdb) : Own(RepairedVdb[d])
  BY <1>1, RepairedTyped
<1>4. Whole(b)'
  <2>1. /\ {RepairedVdb[d].item : d \in Ids(RepairedVdb)} = Relations(b)
        /\ Cardinality(Ids(RepairedVdb)) = Cardinality(Relations(b))
    BY <1>1, CountedWhole
  <2> QED
    BY <1>2, <2>1 DEF Whole, Ids
<1>5. ASSUME NEW q \in Phase, NEW j \in DOMAIN ItemsIn[b][q], Landed(b, q, j)
      PROVE  Landed(b, q, j)'
  <2> DEFINE r == ItemsIn[b][q][j]
  <2>1. ASSUME q = 3, r \notin Affected(b)
        PROVE  LET d == <<"canon", Canon[Pair(r)]>> IN store'.vdb[d] # Null /\ store'.vdb[d].item = r
    <3>1. r \in Relations(b)
      BY <2>1 DEF Relations
    <3> QED
      BY <1>1, <1>2, <2>1, <3>1, RepairPlaces DEF InPlace, Place
  <2> QED
    BY <1>2, <1>5, <2>1 DEF Landed
<1>6. AllReached(b)'
  BY <1>1, <1>5 DEF AllReached, Reached
<1>7. ProgressTrue'
  <2>1. PICK x, y, z : x = progress.bundle /\ y = progress.phase /\ z = progress.offset
    OBVIOUS
  <2>2. x = progress'.bundle /\ y = progress'.phase /\ z = progress'.offset
    BY <2>1
  <2>3. ASSUME progress # Null
        PROVE  /\ x = b /\ Accepted(x)
               /\ y \in Phase => Reached(x, y, z)'
               /\ y = 4 => AllReached(x)' /\ Whole(x)'
    <3>1. x = b
      BY <1>1, <2>1, <2>3
    <3>2. y \in Phase => Reached(b, y, z)
      BY <1>1, <2>1, <2>3, <3>1 DEF ImportInv, ProgressTrue
    <3>3. y \in Phase => Reached(b, y, z)'
      BY <1>5, <3>2 DEF Reached
    <3> QED
      BY <1>1, <1>4, <1>6, <3>1, <3>3
  <2> QED
    BY <2>2, <2>3 DEF ProgressTrue, AllReached, Reached, Whole
<1>8. IsFiniteSet(Ids(store.vdb))' /\ OwnVectors'
  <2>1. \A k \in Keys : store.nodes[k] # Null => Own(store.nodes[k])
    BY <1>1 DEF OwnVectors
  <2> QED
    BY <1>2, <1>3, <2>1 DEF OwnVectors, Ids
<1> QED
  BY <1>1, <1>2, <1>3, <1>4, <1>6, <1>7, <1>8

(* The importer goes on to finish, or ends.                                *)
LEMMA AfterRepair ==
  ASSUME ImportInv, NEW b \in Bundle, b = import.bundle, import.at = "repair",
         Accepted(b), AllReached(b)', Whole(b)',
         progress' # Null => progress'.bundle = b,
         import' = [import EXCEPT !.at = "finish"]
  PROVE  ImporterTrue'
<1>1. import.phase = 3
  BY DEF ImportInv, ImporterTrue, Running
<1>2. import'.at = "finish" /\ import'.bundle = b /\ import'.phase = 3
  BY <1>1 DEF ImportInv, ImportTypeOK
<1> QED
  BY <1>2 DEF ImporterTrue, AllReached, Reached, Whole

LEMMA StoreRepaired ==
  ASSUME ImportInv, import.at = "repair", Counted(RepairedVdb),
         store' = [store EXCEPT !.vdb = RepairedVdb], UNCHANGED <<backend, progress>>,
         import' \in {NoImport, [import EXCEPT !.at = "finish"]}
  PROVE  ImportInv'
<1>1. PICK b \in Bundle : b = import.bundle
  BY DEF ImportInv, ImporterTrue, Running
<1>2. /\ Accepted(b) /\ AllReached(b)' /\ Whole(b)'
      /\ progress # Null => progress.bundle = b
      /\ store'.nodes = store.nodes /\ store'.edges = store.edges
      /\ store'.vdb \in [RelationId -> Entry \cup {Null}]
      /\ IsFiniteSet(Ids(store.vdb))' /\ OwnVectors' /\ ProgressTrue'
  BY <1>1, RepairKeeps
<1>3. import' \in [at : {"idle", "insert", "save", "next", "repair", "finish"},
                   bundle : Bundle \cup {Null}, phase : Phase, offset : Nat]
  BY DEF ImportInv, ImportTypeOK, NoImport, MakeImport, Phase
<1>4. ImportTypeOK'
  BY <1>2, <1>3 DEF ImportInv, ImportTypeOK
<1>5. ImporterTrue'
  <2>1. CASE import' = NoImport
    BY <2>1 DEF ImporterTrue, Running, NoImport, MakeImport
  <2>2. CASE import' = [import EXCEPT !.at = "finish"]
    <3>1. progress' # Null => progress'.bundle = b
      BY <1>2
    <3> QED
      BY <1>1, <1>2, <2>2, <3>1, AfterRepair
  <2> QED
    BY <2>1, <2>2
<1> QED
  BY <1>2, <1>4, <1>5 DEF ImportInv

LEMMA PostgresStep ==
  ASSUME ImportInv, RepairPostgres
  PROVE  ImportInv'
<1>1. CASE Distinct /\ Counted(RepairedVdb)
  BY <1>1, StoreRepaired DEF RepairPostgres
<1>2. CASE ~(Distinct /\ Counted(RepairedVdb))
  BY <1>2, IdleStep DEF RepairPostgres
<1> QED
  BY <1>1, <1>2

LEMMA NanoStep ==
  ASSUME ImportInv, RepairNano
  PROVE  ImportInv'
<1>1. /\ import.at = "repair" /\ UNCHANGED <<backend, progress>>
      /\ \/ /\ Counted(RepairedVdb) /\ store' = [store EXCEPT !.vdb = RepairedVdb]
            /\ import' \in {NoImport, [import EXCEPT !.at = "finish"]}
         \/ store' = store /\ import' = NoImport
  BY DEF RepairNano
<1>2. CASE Counted(RepairedVdb) /\ store' = [store EXCEPT !.vdb = RepairedVdb]
           /\ import' \in {NoImport, [import EXCEPT !.at = "finish"]}
  BY <1>1, <1>2, StoreRepaired
<1>3. CASE store' = store /\ import' = NoImport
  BY <1>1, <1>3, IdleStep
<1> QED
  BY <1>1, <1>2, <1>3

LEMMA NothingStep ==
  ASSUME ImportInv, RepairNothing
  PROVE  ImportInv'
<1>1. /\ import.at = "repair" /\ backend = "other" /\ UNCHANGED <<backend, progress, store>>
      /\ import' = [import EXCEPT !.at = "finish"]
  BY DEF RepairNothing
<1>2. PICK b \in Bundle : /\ b = import.bundle /\ Accepted(b) /\ AllReached(b)
                          /\ progress # Null => progress.bundle = b
  BY <1>1 DEF ImportInv, ImporterTrue, Running
<1>3. AllReached(b)' /\ Whole(b)' /\ (progress' # Null => progress'.bundle = b)
  BY <1>1, <1>2, StoreStays DEF Whole
<1>4. ImportTypeOK'
  BY <1>1 DEF ImportInv, ImportTypeOK
<1>5. ImporterTrue'
  BY <1>1, <1>2, <1>3, AfterRepair
<1> QED
  BY <1>1, <1>4, <1>5, StoreStays, RecordStays DEF ImportInv

LEMMA FinishStep ==
  ASSUME ImportInv, FinishImport
  PROVE  ImportInv'
<1>1. /\ import.at = "finish" /\ UNCHANGED <<backend, store>> /\ import' = NoImport
      /\ progress' = [bundle |-> import.bundle, phase |-> 4, offset |-> 0]
  BY DEF FinishImport
<1>2. PICK b \in Bundle : b = import.bundle /\ Accepted(b) /\ AllReached(b) /\ Whole(b)
  BY <1>1 DEF ImportInv, ImporterTrue, Running
<1>3. ImportTypeOK'
  BY <1>1, <1>2 DEF ImportInv, ImportTypeOK, NoImport, MakeImport, Phase
<1>4. ProgressTrue'
  <2>1. AllReached(b)' /\ Whole(b)'
    BY <1>1, <1>2, StoreStays
  <2>2. progress'.bundle = b /\ progress'.phase = 4 /\ progress'.phase \notin Phase
    BY <1>1, <1>2 DEF Phase
  <2> QED
    BY <1>2, <2>1, <2>2 DEF ProgressTrue, AllReached, Reached, Whole
<1>5. ImporterTrue'
  BY <1>1 DEF ImporterTrue, Running, NoImport, MakeImport
<1> QED
  BY <1>1, <1>3, <1>4, <1>5, StoreStays DEF ImportInv

LEMMA ForgetStep ==
  ASSUME ImportInv, ForgetState
  PROVE  ImportInv'
<1>1. UNCHANGED <<backend, store, import>> /\ progress' = Null /\ ~Running
  BY DEF ForgetState
<1>2. ImportTypeOK'
  BY <1>1 DEF ImportInv, ImportTypeOK
<1>3. ProgressTrue' /\ ImporterTrue'
  BY <1>1 DEF ProgressTrue, ImporterTrue, Running
<1> QED
  BY <1>1, <1>2, <1>3, StoreStays DEF ImportInv

LEMMA ImporterStays ==
  ASSUME ImportInv, UNCHANGED importVars
  PROVE  ImportInv'
<1>1. UNCHANGED <<backend, progress, store, import>>
  BY DEF importVars
<1>2. ImportTypeOK'
  BY <1>1 DEF ImportInv, ImportTypeOK
<1>3. ImporterTrue'
  <2>1. PICK b, p, n, a : /\ b = import.bundle /\ p = import.phase /\ n = import.offset
                          /\ a = import.at
    OBVIOUS
  <2>2. /\ b = import'.bundle /\ p = import'.phase /\ n = import'.offset /\ a = import'.at
        /\ Running' = Running
    BY <1>1, <2>1 DEF Running
  <2>3. ASSUME Running
        PROVE  /\ b \in Bundle /\ Accepted(b)
               /\ progress # Null => b = progress.bundle
               /\ progress # Null /\ progress.phase = 4 => a \in {"repair", "finish"}
               /\ a \in {"insert", "save"} => Reached(b, p, n)'
               /\ a = "next" => n = Len(ItemsIn[b][p]) /\ Reached(b, p, n)'
               /\ a \in {"repair", "finish"} => p = 3 /\ AllReached(b)'
               /\ a = "finish" => Whole(b)'
    BY <1>1, <2>1, <2>3, StoreStays DEF ImportInv, ImporterTrue
  <2> QED
    BY <1>1, <2>2, <2>3 DEF ImporterTrue, AllReached, Reached, Whole
<1> QED
  BY <1>1, <1>2, <1>3, StoreStays, RecordStays DEF ImportInv
-----------------------------------------------------------------------------
(* The load of the provenance beside it.                                   *)

(* Bundle b is in the database but for what is left to write.              *)
InBut(b, sources, checkpoints, evidence, mappings) ==
  /\ Catalogued[b] \subseteq db.sources \cup sources
  /\ Catalogued[b] \subseteq db.checkpoints \cup checkpoints
  /\ Chunks(b) \subseteq db.evidence \cup evidence
  /\ \A k \in Mapped[b] \ mappings : db.mappings[BasenameOf[k]] = k

LoadTypeOK ==
  /\ db \in [sources : SUBSET Book, checkpoints : SUBSET Book, evidence : SUBSET Item,
             mappings : [Basename -> Item \cup {Null}]]
  /\ load \in [bundle : Bundle \cup {Null}, sources : SUBSET Book,
               checkpoints : SUBSET Book, evidence : SUBSET Item, mappings : SUBSET Item]

LoaderTrue ==
  IF Loading
  THEN /\ Valid(load.bundle)
       /\ load.sources \cup load.checkpoints \subseteq Catalogued[load.bundle]
       /\ load.evidence \cup load.mappings \subseteq Chunks(load.bundle)
       /\ InBut(load.bundle, load.sources, load.checkpoints, load.evidence, load.mappings)
  ELSE load = NoLoad

LoadedTrue == \A b \in loaded : b \in Bundle /\ Valid(b) /\ InBut(b, {}, {}, {}, {})

LoadInv == LoadTypeOK /\ NothingDangles /\ LoaderTrue /\ LoadedTrue

LEMMA ImportInitially ==
  ASSUME ImportInit
  PROVE  ImportInv
<1>1. /\ backend \in Backend /\ progress = Null /\ import = NoImport
      /\ store = [nodes |-> [k \in Keys |-> Null], vdb |-> [d \in RelationId |-> Null],
                  edges |-> {}]
  BY DEF ImportInit
<1>2. ImportTypeOK
  BY <1>1 DEF ImportTypeOK, NoImport, MakeImport, Phase
<1>3. Ids(store.vdb) = {}
  BY <1>1 DEF Ids
<1>4. OwnVectors
  BY <1>1, <1>3 DEF OwnVectors
<1>5. ProgressTrue /\ ImporterTrue
  BY <1>1 DEF ProgressTrue, ImporterTrue, Running, NoImport, MakeImport
<1> QED
  BY <1>2, <1>3, <1>4, <1>5, FS_EmptySet DEF ImportInv

LEMMA ImportStep ==
  ASSUME ImportInv, ImportNext \/ UNCHANGED importVars
  PROVE  ImportInv'
BY BeginStep, RecheckStep, InsertStep, InsertFailsStep, SaveStep, NextPhaseStep, PostgresStep,
   NanoStep, NothingStep, FinishStep, KillStep, ForgetStep, ImporterStays DEF ImportNext

LEMMA LoadInitially ==
  ASSUME ServerInit
  PROVE  LoadInv
<1>1. /\ db = [sources |-> {}, checkpoints |-> {}, evidence |-> {},
               mappings |-> [n \in Basename |-> Null]]
      /\ load = NoLoad /\ loaded = {}
  BY DEF ServerInit
<1>2. LoadTypeOK /\ LoaderTrue
  BY <1>1 DEF LoadTypeOK, LoaderTrue, Loading, NoLoad, MakeLoad
<1>3. NothingDangles
  BY <1>1 DEF NothingDangles
<1> QED
  BY <1>1, <1>2, <1>3 DEF LoadInv, LoadedTrue

(* What was there stays there: rows are added, and a mapping is never      *)
(* bound to another fragment.                                              *)
LEMMA InStays ==
  ASSUME LoadTypeOK, NEW b \in Bundle, Mapped[b] \subseteq Item,
         db.sources \subseteq db'.sources, db.checkpoints \subseteq db'.checkpoints,
         db.evidence \subseteq db'.evidence,
         \A n \in Basename : db.mappings[n] \in {Null, db'.mappings[n]},
         NEW s, NEW c, NEW e, NEW m, InBut(b, s, c, e, m)
  PROVE  InBut(b, s, c, e, m)'
<1>1. \A k \in Mapped[b] : BasenameOf[k] \in Basename /\ k # Null
  BY DeploymentAssumption, NullAssumption
<1> QED
  BY <1>1 DEF InBut

LEMMA LoadedStays ==
  ASSUME LoadInv, UNCHANGED loaded,
         db.sources \subseteq db'.sources, db.checkpoints \subseteq db'.checkpoints,
         db.evidence \subseteq db'.evidence,
         \A n \in Basename : db.mappings[n] \in {Null, db'.mappings[n]}
  PROVE  LoadedTrue'
<1> SUFFICES ASSUME NEW b \in loaded
             PROVE  b \in Bundle /\ Valid(b) /\ InBut(b, {}, {}, {}, {})'
  BY DEF LoadedTrue
<1>1. b \in Bundle /\ Valid(b) /\ InBut(b, {}, {}, {}, {})
  BY DEF LoadInv, LoadedTrue
<1>2. Mapped[b] \subseteq Item
  BY <1>1, DeploymentAssumption
<1> QED
  BY <1>1, <1>2, InStays DEF LoadInv

LEMMA ValidBundle ==
  ASSUME NEW b \in Bundle, Valid(b)
  PROVE  /\ Mapped[b] = Chunks(b) /\ Chunks(b) \subseteq Item
         /\ Catalogued[b] = {BookOf[k] : k \in Chunks(b)} /\ Catalogued[b] \subseteq Book
         /\ \A k, m \in Mapped[b] : BasenameOf[k] = BasenameOf[m] => k = m
BY AllRowsTyped, DeploymentAssumption DEF Valid, Materialized, Chained

LEMMA LoadStarts ==
  ASSUME LoadInv, BeginLoad
  PROVE  LoadInv'
<1>1. PICK b \in Bundle :
        /\ Valid(b) /\ UNCHANGED <<db, loaded>>
        /\ load' = MakeLoad(b, Catalogued[b], Catalogued[b], Chunks(b), Mapped[b])
  BY DEF BeginLoad
<1>2. /\ Mapped[b] = Chunks(b) /\ Chunks(b) \subseteq Item /\ Catalogued[b] \subseteq Book
      /\ b # Null
  BY <1>1, ValidBundle, ImportAssumption
<1>3. LoadTypeOK'
  BY <1>1, <1>2 DEF LoadInv, LoadTypeOK, MakeLoad
<1>4. InBut(b, Catalogued[b], Catalogued[b], Chunks(b), Mapped[b])'
  BY DEF InBut
<1>5. /\ load'.bundle = b /\ load'.sources = Catalogued[b] /\ load'.checkpoints = Catalogued[b]
      /\ load'.evidence = Chunks(b) /\ load'.mappings = Mapped[b]
  BY <1>1 DEF MakeLoad
<1>6. LoaderTrue'
  BY <1>1, <1>2, <1>4, <1>5 DEF LoaderTrue, Loading, InBut
<1>7. NothingDangles' /\ LoadedTrue'
  BY <1>1, LoadedStays DEF LoadInv, NothingDangles
<1> QED
  BY <1>3, <1>6, <1>7 DEF LoadInv

(* A load that ends leaves what it has written.                            *)
LEMMA LoadEnds ==
  ASSUME LoadInv, UNCHANGED <<db, loaded>>, load' = NoLoad
  PROVE  LoadInv'
<1>1. LoadTypeOK' /\ LoaderTrue'
  BY DEF LoadInv, LoadTypeOK, LoaderTrue, Loading, NoLoad, MakeLoad
<1>2. NothingDangles' /\ LoadedTrue'
  BY LoadedStays DEF LoadInv, NothingDangles
<1> QED
  BY <1>1, <1>2 DEF LoadInv

LEMMA LoadingWhat ==
  ASSUME LoadInv,
         ~(load.sources = {} /\ load.checkpoints = {} /\ load.evidence = {} /\ load.mappings = {})
           \/ Loading
  PROVE  /\ Loading /\ load.bundle \in Bundle /\ Valid(load.bundle)
         /\ load.sources \cup load.checkpoints \subseteq Catalogued[load.bundle]
         /\ load.evidence \cup load.mappings \subseteq Chunks(load.bundle)
         /\ InBut(load.bundle, load.sources, load.checkpoints, load.evidence, load.mappings)
<1>1. Loading
  BY DEF LoadInv, LoaderTrue, NoLoad, MakeLoad
<1> QED
  BY <1>1 DEF LoadInv, LoaderTrue, LoadTypeOK, Loading

LEMMA SourceStep ==
  ASSUME LoadInv, UpsertSource
  PROVE  LoadInv'
<1>1. PICK s \in load.sources : /\ db' = [db EXCEPT !.sources = @ \cup {s}]
                                /\ load' = [load EXCEPT !.sources = @ \ {s}]
  BY DEF UpsertSource
<1>2. UNCHANGED loaded /\ LoadTypeOK
  BY DEF UpsertSource, LoadInv
<1>3. PICK b \in Bundle : b = load.bundle /\ Loading /\ Valid(b)
  BY <1>1, LoadingWhat
<1>4. /\ load.sources \cup load.checkpoints \subseteq Catalogued[b]
      /\ load.evidence \cup load.mappings \subseteq Chunks(b)
      /\ InBut(b, load.sources, load.checkpoints, load.evidence, load.mappings)
      /\ Catalogued[b] \subseteq Book
  BY <1>1, <1>3, LoadingWhat, ValidBundle
<1>5. LoadTypeOK'
  BY <1>1, <1>2, <1>4 DEF LoadTypeOK
<1>6. /\ db'.sources = db.sources \cup {s} /\ db'.checkpoints = db.checkpoints
      /\ db'.evidence = db.evidence /\ db'.mappings = db.mappings
      /\ load'.bundle = b /\ load'.sources = load.sources \ {s}
      /\ load'.checkpoints = load.checkpoints /\ load'.evidence = load.evidence
      /\ load'.mappings = load.mappings
  BY <1>1, <1>2, <1>3 DEF LoadTypeOK
<1>7. LoaderTrue'
  BY <1>3, <1>4, <1>6 DEF LoaderTrue, Loading, InBut
<1>8. NothingDangles'
  BY <1>6 DEF LoadInv, NothingDangles
<1>9. LoadedTrue'
  BY <1>2, <1>6, LoadedStays
<1> QED
  BY <1>5, <1>7, <1>8, <1>9 DEF LoadInv

LEMMA CheckpointStep ==
  ASSUME LoadInv, SaveCheckpoint
  PROVE  LoadInv'
<1>1. PICK s \in load.checkpoints : /\ db' = [db EXCEPT !.checkpoints = @ \cup {s}]
                                    /\ load' = [load EXCEPT !.checkpoints = @ \ {s}]
  BY DEF SaveCheckpoint
<1>2. UNCHANGED loaded /\ LoadTypeOK /\ load.sources = {}
  BY DEF SaveCheckpoint, LoadInv
<1>3. PICK b \in Bundle : b = load.bundle /\ Loading /\ Valid(b)
  BY <1>1, LoadingWhat
<1>4. /\ load.sources \cup load.checkpoints \subseteq Catalogued[b]
      /\ load.evidence \cup load.mappings \subseteq Chunks(b)
      /\ InBut(b, load.sources, load.checkpoints, load.evidence, load.mappings)
      /\ Catalogued[b] \subseteq Book
  BY <1>1, <1>3, LoadingWhat, ValidBundle
<1>5. LoadTypeOK'
  BY <1>1, <1>2, <1>4 DEF LoadTypeOK
<1>6. /\ db'.checkpoints = db.checkpoints \cup {s} /\ db'.sources = db.sources
      /\ db'.evidence = db.evidence /\ db'.mappings = db.mappings
      /\ load'.bundle = b /\ load'.checkpoints = load.checkpoints \ {s}
      /\ load'.sources = load.sources /\ load'.evidence = load.evidence
      /\ load'.mappings = load.mappings
  BY <1>1, <1>2, <1>3 DEF LoadTypeOK
<1>7. LoaderTrue'
  BY <1>3, <1>4, <1>6 DEF LoaderTrue, Loading, InBut
<1>8. NothingDangles'
  <2>1. s \in db.sources
    BY <1>2, <1>4 DEF InBut
  <2> QED
    BY <1>6, <2>1 DEF LoadInv, NothingDangles
<1>9. LoadedTrue'
  BY <1>2, <1>6, LoadedStays
<1> QED
  BY <1>5, <1>7, <1>8, <1>9 DEF LoadInv

LEMMA EvidenceStep ==
  ASSUME LoadInv, PersistEvidence
  PROVE  LoadInv'
<1>1. PICK B \in SUBSET load.evidence : /\ db' = [db EXCEPT !.evidence = @ \cup B]
                                        /\ load' = [load EXCEPT !.evidence = @ \ B]
  BY DEF PersistEvidence, BatchOf
<1>2. UNCHANGED loaded /\ LoadTypeOK /\ load.checkpoints = {} /\ load.evidence # {}
  BY DEF PersistEvidence, LoadInv
<1>3. PICK b \in Bundle : b = load.bundle /\ Loading /\ Valid(b)
  BY <1>2, LoadingWhat
<1>4. /\ load.sources \cup load.checkpoints \subseteq Catalogued[b]
      /\ load.evidence \cup load.mappings \subseteq Chunks(b)
      /\ InBut(b, load.sources, load.checkpoints, load.evidence, load.mappings)
      /\ Catalogued[b] = {BookOf[k] : k \in Chunks(b)} /\ Chunks(b) \subseteq Item
  BY <1>2, <1>3, LoadingWhat, ValidBundle
<1>5. LoadTypeOK'
  BY <1>1, <1>2, <1>4 DEF LoadTypeOK
<1>6. /\ db'.evidence = db.evidence \cup B /\ db'.sources = db.sources
      /\ db'.checkpoints = db.checkpoints /\ db'.mappings = db.mappings
      /\ load'.bundle = b /\ load'.evidence = load.evidence \ B
      /\ load'.sources = load.sources /\ load'.checkpoints = load.checkpoints
      /\ load'.mappings = load.mappings
  BY <1>1, <1>2, <1>3 DEF LoadTypeOK
<1>7. LoaderTrue'
  BY <1>3, <1>4, <1>6 DEF LoaderTrue, Loading, InBut
<1>8. NothingDangles'
  <2>1. {BookOf[k] : k \in B} \subseteq db.checkpoints
    BY <1>2, <1>4 DEF InBut
  <2> QED
    BY <1>6, <2>1 DEF LoadInv, NothingDangles
<1>9. LoadedTrue'
  BY <1>2, <1>6, LoadedStays
<1> QED
  BY <1>5, <1>7, <1>8, <1>9 DEF LoadInv

LEMMA MappingsStep ==
  ASSUME LoadInv, PersistMappings
  PROVE  LoadInv'
<1>1. PICK B \in SUBSET load.mappings :
        IF Free(B)
        THEN /\ db' = [db EXCEPT !.mappings =
                         [n \in Basename |-> IF \E k \in B : BasenameOf[k] = n
                                             THEN CHOOSE k \in B : BasenameOf[k] = n
                                             ELSE db.mappings[n]]]
             /\ load' = [load EXCEPT !.mappings = @ \ B]
        ELSE db' = db /\ load' = NoLoad
  BY DEF PersistMappings, BatchOf
<1>2. UNCHANGED loaded /\ LoadTypeOK /\ load.evidence = {} /\ load.mappings # {}
  BY DEF PersistMappings, LoadInv, Traced
<1>3. CASE ~Free(B)
  BY <1>1, <1>2, <1>3, LoadEnds
<1>4. CASE Free(B)
  <2> DEFINE bound == [n \in Basename |-> IF \E k \in B : BasenameOf[k] = n
                                          THEN CHOOSE k \in B : BasenameOf[k] = n
                                          ELSE db.mappings[n]]
  <2>1. PICK b \in Bundle : b = load.bundle /\ Loading /\ Valid(b)
    BY <1>2, LoadingWhat
  <2>2. /\ load.sources \cup load.checkpoints \subseteq Catalogued[b]
        /\ load.evidence \cup load.mappings \subseteq Chunks(b)
        /\ InBut(b, load.sources, load.checkpoints, load.evidence, load.mappings)
        /\ Mapped[b] = Chunks(b) /\ Chunks(b) \subseteq Item
        /\ \A k, m \in Mapped[b] : BasenameOf[k] = BasenameOf[m] => k = m
    BY <1>2, <2>1, LoadingWhat, ValidBundle
  <2>3. \A n \in Basename : \/ bound[n] \in B /\ BasenameOf[bound[n]] = n
                            \/ bound[n] = db.mappings[n] /\ \A k \in B : BasenameOf[k] # n
    <3> SUFFICES ASSUME NEW n \in Basename
                 PROVE  \/ bound[n] \in B /\ BasenameOf[bound[n]] = n
                        \/ bound[n] = db.mappings[n] /\ \A k \in B : BasenameOf[k] # n
      OBVIOUS
    <3>1. CASE \E k \in B : BasenameOf[k] = n
      <4>1. bound[n] = CHOOSE k \in B : BasenameOf[k] = n
        BY <3>1
      <4> HIDE DEF bound
      <4> QED
        BY <3>1, <4>1
    <3>2. CASE ~\E k \in B : BasenameOf[k] = n
      BY <3>2
    <3> QED
      BY <3>1, <3>2
  <2>4. bound = [n \in Basename |-> bound[n]]
    OBVIOUS
  <2>5. db' = [db EXCEPT !.mappings = bound] /\ load' = [load EXCEPT !.mappings = @ \ B]
    BY <1>1, <1>4
  <2> HIDE DEF bound
  <2>6. bound \in [Basename -> Item \cup {Null}]
    BY <1>2, <2>2, <2>3, <2>4 DEF LoadTypeOK
  <2>7. LoadTypeOK'
    BY <1>2, <2>2, <2>5, <2>6 DEF LoadTypeOK
  <2>8. /\ db'.mappings = bound /\ db'.sources = db.sources
        /\ db'.checkpoints = db.checkpoints /\ db'.evidence = db.evidence
        /\ load'.bundle = b /\ load'.mappings = load.mappings \ B
        /\ load'.sources = load.sources /\ load'.checkpoints = load.checkpoints
        /\ load'.evidence = load.evidence
    BY <1>2, <2>1, <2>5 DEF LoadTypeOK
  <2>9. \A n \in Basename : db.mappings[n] \in {Null, bound[n]}
    BY <1>4, <2>3 DEF Free
  <2>10. \A k \in B : bound[BasenameOf[k]] = k
    BY <2>2, <2>3, DeploymentAssumption
  <2>11. InBut(load.bundle, load.sources, load.checkpoints, load.evidence, load.mappings)'
    <3>1. \A k \in Mapped[b] \ load.mappings : bound[BasenameOf[k]] = k
      BY <2>2, <2>9, DeploymentAssumption, NullAssumption DEF InBut
    <3>2. \A k \in Mapped[b] \ (load.mappings \ B) : bound[BasenameOf[k]] = k
      BY <2>10, <3>1
    <3> QED
      BY <2>2, <2>8, <3>2 DEF InBut
  <2>12. LoaderTrue'
    BY <2>1, <2>2, <2>8, <2>11 DEF LoaderTrue, Loading, InBut
  <2>13. NothingDangles'
    <3>1. B \subseteq db.evidence
      BY <1>2, <2>2 DEF InBut
    <3>2. \A n \in Basename : bound[n] \in db.evidence \cup {Null}
      BY <2>3, <3>1 DEF LoadInv, NothingDangles
    <3> QED
      BY <2>8, <3>2 DEF LoadInv, NothingDangles
  <2>14. LoadedTrue'
    BY <1>2, <2>8, <2>9, LoadedStays
  <2> QED
    BY <2>7, <2>12, <2>13, <2>14 DEF LoadInv
<1> QED
  BY <1>3, <1>4

LEMMA FinishLoadStep ==
  ASSUME LoadInv, FinishLoad
  PROVE  LoadInv'
<1>1. /\ Loading /\ load.sources = {} /\ load.checkpoints = {} /\ load.evidence = {}
      /\ load.mappings = {} /\ loaded' = loaded \cup {load.bundle} /\ load' = NoLoad
      /\ UNCHANGED db
  BY DEF FinishLoad, Traced
<1>2. PICK b \in Bundle : b = load.bundle /\ Valid(b) /\ InBut(b, {}, {}, {}, {})
  BY <1>1, LoadingWhat
<1>3. LoadTypeOK' /\ LoaderTrue'
  BY <1>1 DEF LoadInv, LoadTypeOK, LoaderTrue, Loading, NoLoad, MakeLoad
<1>4. \A x \in loaded' : x \in Bundle /\ Valid(x) /\ InBut(x, {}, {}, {}, {})
  BY <1>1, <1>2 DEF LoadInv, LoadedTrue
<1>5. LoadedTrue'
  BY <1>1, <1>4 DEF LoadedTrue, InBut
<1> QED
  BY <1>1, <1>3, <1>5 DEF LoadInv, NothingDangles

LEMMA LoaderStays ==
  ASSUME LoadInv, UNCHANGED <<db, load, loaded>>
  PROVE  LoadInv'
<1>1. LoadTypeOK' /\ NothingDangles'
  BY DEF LoadInv, LoadTypeOK, NothingDangles
<1>2. LoaderTrue'
  BY DEF LoadInv, LoaderTrue, Loading, InBut
<1>3. LoadedTrue'
  BY DEF LoadInv, LoadedTrue, InBut
<1> QED
  BY <1>1, <1>2, <1>3 DEF LoadInv
-----------------------------------------------------------------------------
LEMMA ServerInitially ==
  ASSUME ServerInit
  PROVE  ImportInv /\ LoadInv
BY ImportInitially, LoadInitially DEF ServerInit

LEMMA ServerStep ==
  ASSUME ImportInv /\ LoadInv, [ServerNext]_serverVars
  PROVE  ImportInv' /\ LoadInv'
<1>1. CASE ImportNext /\ UNCHANGED <<db, load, loaded>>
  BY <1>1, ImportStep, LoaderStays
<1>2. CASE LoadStep /\ UNCHANGED importVars
  <2>1. ImportInv'
    BY <1>2, ImportStep
  <2>2. LoadInv'
    <3>1. CrashLoad => LoadInv'
      BY LoadEnds DEF CrashLoad
    <3> QED
      BY <1>2, <3>1, LoadStarts, SourceStep, CheckpointStep, EvidenceStep, MappingsStep,
         FinishLoadStep DEF LoadStep
  <2> QED
    BY <2>1, <2>2
<1>3. CASE UNCHANGED serverVars
  <2>1. UNCHANGED importVars /\ UNCHANGED <<db, load, loaded>>
    BY <1>3 DEF serverVars, importVars
  <2> QED
    BY <2>1, ImportStep, LoaderStays
<1> QED
  BY <1>1, <1>2, <1>3 DEF ServerNext

(* What the two imports of a server keep: see ImportInv and LoadInv.       *)
THEOREM ServerInvariance == ServerSpec => [](ImportInv /\ LoadInv)
<1>1. ServerInit => ImportInv /\ LoadInv
  BY ServerInitially
<1>2. (ImportInv /\ LoadInv) /\ [ServerNext]_serverVars => (ImportInv /\ LoadInv)'
  BY ServerStep
<1> QED
  BY <1>1, <1>2, PTL DEF ServerSpec

(* No row in LightRAG has the vector of another row's text, though the     *)
(* archive is asked by the cleaned text (PrecomputedEmbeddingLookup), but  *)
(* for a row whose text is another's after one cleaning and not yet clean. *)
THEOREM VectorsAreOwn == ServerSpec => []OwnVectors
<1>1. ImportInv /\ LoadInv => OwnVectors
  BY DEF ImportInv
<1> QED
  BY <1>1, ServerInvariance, PTL

(* A state file that says completed says so of a store with every chunk,   *)
(* every entity and exactly the relationships of the bundle in it,         *)
(* whatever ids collide and whatever crashes and restarts led there.       *)
THEOREM CompletedIsWhole == ServerSpec => []CompletedWhole
<1>1. ImportInv => CompletedWhole
  <2> SUFFICES ASSUME ImportInv, progress # Null, progress.phase = 4
               PROVE  LET b == progress.bundle IN
                      /\ \A i \in Chunks(b) \cup Entities(b) : store.nodes[Key(i)] # Null
                      /\ backend # "other" =>
                           /\ {store.vdb[d].item : d \in Ids(store.vdb)} = Relations(b)
                           /\ Cardinality(Ids(store.vdb)) = Cardinality(Relations(b))
    BY DEF CompletedWhole
  <2>1. PICK b \in Bundle : b = progress.bundle
    BY DEF ImportInv, ImportTypeOK
  <2>2. AllReached(b) /\ Whole(b)
    BY <2>1 DEF ImportInv, ProgressTrue
  <2>3. \A q \in {1, 2} : \A j \in DOMAIN ItemsIn[b][q] :
          store.nodes[Key(ItemsIn[b][q][j])] # Null
    BY <2>2 DEF AllReached, Reached, Landed, Phase
  <2>4. \A i \in Chunks(b) \cup Entities(b) : store.nodes[Key(i)] # Null
    BY <2>3 DEF Chunks, Entities
  <2> QED
    BY <2>1, <2>2, <2>4 DEF Whole
<1>2. ImportInv /\ LoadInv => CompletedWhole
  BY <1>1
<1> QED
  BY <1>2, ServerInvariance, PTL

(* The repair never fails for want of rows: with no relationship of        *)
(* another bundle in the store its count agrees.                           *)
THEOREM CollisionsAreRepaired == ServerSpec => []Repairable
<1>1. ImportInv => Repairable
  <2> SUFFICES ASSUME ImportInv, import.at = "repair",
                      Ids(store.vdb) \subseteq OwnIds(import.bundle)
               PROVE  Counted(RepairedVdb)
    BY DEF Repairable
  <2>1. PICK b \in Bundle : b = import.bundle /\ Accepted(b) /\ AllReached(b)
    BY DEF ImportInv, ImporterTrue, Running
  <2>2. ImportTypeOK /\ OwnVectors /\ IsFiniteSet(Ids(store.vdb))
    BY DEF ImportInv
  <2> QED
    BY <2>1, <2>2, OwnIdsRepaired
<1>2. ImportInv /\ LoadInv => Repairable
  BY <1>1
<1> QED
  BY <1>2, ServerInvariance, PTL

(* Whatever is served of a bundle that both imports have reported is       *)
(* traced to its fragment, checkpoint and source, and no row of the        *)
(* provenance ever refers to one that is not there.                        *)
THEOREM ProvenanceIsWhole == ServerSpec => []ProvenanceStands
<1>1. ImportInv /\ LoadInv => Traceable
  <2> SUFFICES ASSUME ImportInv, LoadInv, progress # Null, progress.phase = 4,
                      progress.bundle \in loaded, NEW i \in AllRows(progress.bundle)
               PROVE  LET fragment == db.mappings[BasenameOf[SourceOf[i]]] IN
                      /\ fragment = SourceOf[i] /\ fragment \in db.evidence
                      /\ BookOf[fragment] \in db.checkpoints
                      /\ BookOf[fragment] \in db.sources
    BY DEF Traceable
  <2>1. PICK b \in Bundle : /\ b = progress.bundle /\ AllReached(b)
                            /\ Valid(b) /\ InBut(b, {}, {}, {}, {})
    BY DEF ImportInv, ProgressTrue, LoadInv, LoadedTrue
  <2>2. SourceOf[i] \in Chunks(b)
    <3>1. PICK q \in Phase : \E j \in DOMAIN ItemsIn[b][q] : i = ItemsIn[b][q][j]
      BY <2>1 DEF AllRows, Chunks, Entities, Relations, Phase
    <3>2. PICK j \in DOMAIN ItemsIn[b][q] : i = ItemsIn[b][q][j]
      BY <3>1
    <3>3. Landed(b, q, j)
      <4>1. q < 3 \/ (q = 3 /\ j <= Len(ItemsIn[b][3]))
        BY RowsOfBundle DEF Phase
      <4> QED
        BY <2>1, <4>1 DEF AllReached, Reached
    <3> QED
      BY <3>2, <3>3 DEF Landed
  <2>3. Mapped[b] = Chunks(b) /\ Catalogued[b] = {BookOf[k] : k \in Chunks(b)}
    BY <2>1, ValidBundle
  <2> QED
    BY <2>1, <2>2, <2>3 DEF InBut
<1>2. ImportInv /\ LoadInv => ProvenanceStands
  BY <1>1 DEF ProvenanceStands, LoadInv
<1> QED
  BY <1>2, ServerInvariance, PTL
=============================================================================
