------------------------------ MODULE SourceCatalog ------------------------------
(***************************************************************************)
(* PostgresSourceCatalogRepository.upsert of postgres.py as concurrent     *)
(* transactions over knowledge_sources and knowledge_source_relations: the *)
(* sources with one digest point to the canonical one, and IS_VERSION_OF   *)
(* relates the canonical sources that share a DOI.                         *)
(*                                                                         *)
(* A transaction takes advisory locks, and row locks as its statements go; *)
(* each statement sees what was committed when it began (READ COMMITTED)   *)
(* and the transaction's own writes.  Anything may end it before its       *)
(* commit: a lost connection, a unique violation, PostgreSQL's deadlock    *)
(* detector.                                                               *)
(*                                                                         *)
(* Source ids, digests and DOIs are numbers in the order in which the code *)
(* sorts them.  Operators named ..._Variant are faulty variants of the one *)
(* below them; no action uses them.                                        *)
(***************************************************************************)
EXTENDS Integers, FiniteSets

CONSTANTS
  Writer,
  Source,      \* source ids; each is derived from one path
  Primary,     \* sources of the root document_data_1
  Digest, Doi,
  Field,       \* what else _metadata_completeness counts
  Incoming,    \* Incoming[s]: the records an upsert may bring for source s
  Nil

(* The fields that a record has a value for, and the metadata keys that it *)
(* names without a value.                                                  *)
Said == [sha : Digest \cup {Nil}, doi : Doi \cup {Nil},
         fields : SUBSET Field, blank : SUBSET Field]
Row == [sha : Digest \cup {Nil}, doi : Doi \cup {Nil}, fields : SUBSET Field,
        canonical : Source \cup {Nil}]

ASSUME CatalogAssumption ==
  /\ Source \subseteq Nat /\ Digest \subseteq Nat /\ Doi \subseteq Nat
  /\ IsFiniteSet(Source) /\ IsFiniteSet(Field) /\ Primary \subseteq Source
  /\ Incoming \in [Source -> SUBSET Said]
  /\ Nil \notin Nat \cup Row

VARIABLES
  source,    \* source[s]: the committed row of s
  relation,  \* relation[<<s, t>>]: the DOI under which s IS_VERSION_OF t
  tx,        \* tx[w]: the upsert of writer w in progress
  alone,     \* history: no two upserts have overlapped so far
  doubled    \* history: two DOIs have related the same pair at once

history == <<alone, doubled>>
vars == <<source, relation, tx, history>>

Pair == {p \in Source \X Source : p[1] # p[2]}
Identity == ({"path"} \X Source) \cup ({"sha"} \X Digest) \cup ({"doi"} \X Doi)

Present(values) == values \ {Nil}
Least(S) == CHOOSE x \in S : \A y \in S : x <= y
Overlay(base, writes) ==
  [x \in DOMAIN base |-> IF x \in DOMAIN writes THEN writes[x] ELSE base[x]]
Write(writes, S, Value(_)) ==
  [x \in (DOMAIN writes) \cup S |-> IF x \in S THEN Value(x) ELSE writes[x]]
Nothing == [x \in {} |-> Nil]

NoUpsert ==
  [at |-> "idle", id |-> Nil, incoming |-> Nil, was |-> Nil, locks |-> {},
   rows |-> Nothing, rels |-> Nothing, shares |-> {}, digests |-> {}, dois |-> {}, pairs |-> {}]

Init ==
  /\ source = [s \in Source |-> Nil]
  /\ relation = [p \in Pair |-> Nil]
  /\ tx = [w \in Writer |-> NoUpsert]
  /\ alone = TRUE /\ doubled = FALSE
-----------------------------------------------------------------------------
(* _metadata_completeness and choose_canonical_source, over rows of one    *)
(* view of the table.                                                      *)
Completeness(row) == Cardinality(row.fields) + Cardinality(Present({row.sha, row.doi}))

Preferred(row, s, t) ==
  LET richer == Completeness(row[s]) - Completeness(row[t]) IN
    \/ richer > 0
    \/ richer = 0 /\ s \in Primary /\ t \notin Primary
    \/ richer = 0 /\ (s \in Primary <=> t \in Primary) /\ s <= t

Described(view, S) ==
  [s \in S |-> [sha |-> view[s].sha, doi |-> view[s].doi, fields |-> view[s].fields]]
ChooseCanonical(view, S) ==
  LET row == Described(view, S) IN CHOOSE s \in S : \A t \in S : Preferred(row, s, t)

(* _merge_records: what is incoming wins where it has a value; in the      *)
(* metadata, wherever it has the key.                                      *)
Prefer(incoming, existing) == IF incoming # Nil THEN incoming ELSE existing

Merged(was, incoming) ==
  LET old == IF was = Nil THEN [sha |-> Nil, doi |-> Nil, fields |-> {}] ELSE was IN
    [sha |-> Prefer(incoming.sha, old.sha), doi |-> Prefer(incoming.doi, old.doi),
     fields |-> (old.fields \ incoming.blank) \cup incoming.fields, canonical |-> Nil]

Stored(t) == Merged(t.was, t.incoming)
Digests_Current(t) == Present({Stored(t).sha})
Digests(t) == Present({Stored(t).sha} \cup (IF t.was = Nil THEN {} ELSE {t.was.sha}))
Dois(t) == Present({Stored(t).doi} \cup (IF t.was = Nil THEN {} ELSE {t.was.doi}))

View(w) == Overlay(source, tx[w].rows)
Relations(w) == Overlay(relation, tx[w].rels)
Others(w) == Writer \ {w}

(* Advisory locks; a row locked FOR UPDATE, and for a foreign key.         *)
Free(w, identity) == \A v \in Others(w) : identity \notin tx[v].locks
Lockable(w, S) == \A v \in Others(w) : S \cap (DOMAIN tx[v].rows \cup tx[v].shares) = {}
Shareable(w, S) == \A v \in Others(w) : S \cap DOMAIN tx[v].rows = {}

(* The locks of path, digests and DOIs, taken in the order of their names. *)
IdentitiesOf(t) == ({"sha"} \X Digests(t)) \cup ({"doi"} \X Dois(t))
NextIdentity(t) ==
  LET missing(kind) == {i \in IdentitiesOf(t) \ t.locks : i[1] = kind}
      first == IF missing("doi") # {} THEN missing("doi") ELSE missing("sha")
  IN CHOOSE i \in first : \A j \in first : i[2] <= j[2]

(* Where the transaction goes on once a digest or a DOI is done.           *)
Onward(digests, dois) ==
  CASE digests # {} -> "sha" [] digests = {} /\ dois # {} -> "scan" [] OTHER -> "commit"

(* The rows of one digest, and the pairs that one DOI relates.             *)
Group(view, digest) == {s \in Source : view[s] # Nil /\ view[s].sha = digest}
Canonical(view, s) == IF view[s].canonical = Nil THEN s ELSE view[s].canonical
Versions(view, doi) ==
  {Canonical(view, s) : s \in {m \in Source : /\ view[m] # Nil /\ view[m].doi = doi
                                              /\ view[m].sha # Nil}}
VersionPairs(view, doi) ==
  LET versions == Versions(view, doi)
      canonical == ChooseCanonical(view, versions)
  IN IF Cardinality(versions) < 2 THEN {} ELSE (versions \ {canonical}) \X {canonical}
Doubles(view) ==
  \E d, e \in Doi : d # e /\ VersionPairs(view, d) \cap VersionPairs(view, e) # {}
-----------------------------------------------------------------------------
Begin(w) ==
  /\ tx[w].at = "idle"
  /\ \E s \in Source : \E record \in Incoming[s] :
       tx' = [tx EXCEPT ![w].at = "path", ![w].id = s, ![w].incoming = record]
  /\ alone' = (alone /\ \A v \in Writer : tx[v].at = "idle")
  /\ UNCHANGED <<source, relation, doubled>>

LockPath(w) ==
  /\ tx[w].at = "path"
  /\ Free(w, <<"path", tx[w].id>>)
  /\ tx' = [tx EXCEPT ![w].at = "read", ![w].locks = {<<"path", tx[w].id>>}]
  /\ UNCHANGED <<source, relation, history>>

(* _SELECT_SOURCE_BY_PATH, FOR UPDATE.                                     *)
Read(w) ==
  LET s == tx[w].id
      found == IF source[s] = Nil THEN {} ELSE {s}
  IN /\ tx[w].at = "read"
     /\ Lockable(w, found)
     /\ tx' = [tx EXCEPT ![w].at = "locks", ![w].was = source[s],
                         ![w].rows = [x \in found |-> source[x]]]
     /\ UNCHANGED <<source, relation, history>>

LockIdentity(w) ==
  LET next == NextIdentity(tx[w]) IN
    /\ tx[w].at = "locks"
    /\ ~(IdentitiesOf(tx[w]) \subseteq tx[w].locks)
    /\ Free(w, next)
    /\ tx' = [tx EXCEPT ![w].locks = @ \cup {next}]
    /\ UNCHANGED <<source, relation, history>>

(* _UPSERT_SOURCE; what is left to reconcile.                              *)
Upsert(w) ==
  LET t == tx[w]
      stored == Stored(t)
  IN /\ t.at = "locks"
     /\ IdentitiesOf(t) \subseteq t.locks
     /\ tx' = [tx EXCEPT ![w].at = Onward(Digests(t), Dois(t)),
                         ![w].rows = Write(@, {t.id}, LAMBDA x : stored),
                         ![w].digests = Digests(t), ![w].dois = Dois(t)]
     /\ UNCHANGED <<source, relation, history>>

(* _reconcile_sha: the rows of a digest, locked, point to the canonical    *)
(* one.  Its DOIs are reconciled next, without their locks.                *)
GroupDois(view, group) == Present({view[s].doi : s \in group})

ReconcileSha(w) ==
  LET view == View(w)
      digest == Least(tx[w].digests)
      group == Group(view, digest)
      canonical == ChooseCanonical(view, group)
      pointed(s) == [view[s] EXCEPT !.canonical = IF s = canonical THEN Nil ELSE canonical]
      digests == tx[w].digests \ {digest}
      dois == tx[w].dois \cup GroupDois(view, group)
  IN /\ tx[w].at = "sha"
     /\ Lockable(w, group)
     /\ tx' = [tx EXCEPT ![w].at = Onward(digests, dois), ![w].digests = digests,
                         ![w].dois = dois, ![w].rows = Write(@, group, pointed)]
     /\ UNCHANGED <<source, relation, history>>

(* _reconcile_doi: the DELETE finds its rows, and deletes those that no    *)
(* other transaction has touched when it comes to them.                    *)
ScanRelations(w) ==
  /\ tx[w].at = "scan"
  /\ tx' = [tx EXCEPT ![w].at = "delete",
                      ![w].pairs = {p \in Pair : Relations(w)[p] = Least(tx[w].dois)}]
  /\ UNCHANGED <<source, relation, history>>

DeleteRelations(w) ==
  LET pairs == tx[w].pairs IN
    /\ tx[w].at = "delete"
    /\ \A v \in Others(w) : pairs \cap DOMAIN tx[v].rels = {}
    /\ tx' = [tx EXCEPT ![w].at = "select", ![w].pairs = {},
                        ![w].rels = Write(@, pairs, LAMBDA p : Nil)]
    /\ UNCHANGED <<source, relation, history>>

(* The SELECT: the canonical sources of the DOI and the one they are       *)
(* versions of.                                                            *)
SelectVersions(w) ==
  LET doi == Least(tx[w].dois)
      pairs == VersionPairs(View(w), doi)
      dois == tx[w].dois \ {doi}
  IN /\ tx[w].at = "select"
     /\ tx' = IF pairs = {}
              THEN [tx EXCEPT ![w].at = Onward({}, dois), ![w].dois = dois]
              ELSE [tx EXCEPT ![w].at = "insert", ![w].pairs = pairs]
     /\ UNCHANGED <<source, relation, history>>

(* One INSERT ... ON CONFLICT DO UPDATE.  It waits for whoever has touched *)
(* its key or the (doi, source) of the second unique constraint, and for   *)
(* the two rows its foreign keys refer to.  Another target under the same  *)
(* DOI is a unique violation: Abort.                                       *)
InsertRelation(w) ==
  LET doi == Least(tx[w].dois)
      pairs == tx[w].pairs
      pair == CHOOSE p \in pairs : \A q \in pairs : p[1] <= q[1]
      rest == pairs \ {pair}
      fresh == IF Relations(w)[pair] = Nil THEN {pair[1], pair[2]} ELSE {}
      ofSource == {p \in Pair : p[1] = pair[1]}
      dois == IF rest = {} THEN tx[w].dois \ {doi} ELSE tx[w].dois
  IN /\ tx[w].at = "insert"
     /\ \A v \in Others(w) : \A p \in ofSource \cap DOMAIN tx[v].rels :
          p # pair /\ doi \notin {relation[p], tx[v].rels[p]}
     /\ \A p \in ofSource \ {pair} : Relations(w)[p] # doi
     /\ Shareable(w, fresh)
     /\ tx' = [tx EXCEPT ![w].at = IF rest = {} THEN Onward({}, dois) ELSE "insert",
                         ![w].pairs = rest, ![w].dois = dois, ![w].shares = @ \cup fresh,
                         ![w].rels = Write(@, {pair}, LAMBDA p : doi)]
     /\ UNCHANGED <<source, relation, history>>

(* A row another DELETE has found, and that was changed since, is none of  *)
(* its rows any more.                                                      *)
Commit(w) ==
  LET t == tx[w] IN
    /\ t.at = "commit"
    /\ source' = View(w)
    /\ relation' = Relations(w)
    /\ tx' = [v \in Writer |->
                CASE v = w -> NoUpsert
                  [] v # w /\ tx[v].at = "delete" ->
                       [tx[v] EXCEPT !.pairs = @ \ DOMAIN t.rels]
                  [] OTHER -> tx[v]]
    /\ doubled' = (doubled \/ Doubles(View(w)))
    /\ UNCHANGED alone

Abort(w) ==
  /\ tx[w].at # "idle"
  /\ tx' = [tx EXCEPT ![w] = NoUpsert]
  /\ UNCHANGED <<source, relation, history>>

Next ==
  \E w \in Writer :
    \/ Begin(w) \/ LockPath(w) \/ Read(w) \/ LockIdentity(w) \/ Upsert(w)
    \/ ReconcileSha(w)
    \/ ScanRelations(w) \/ DeleteRelations(w) \/ SelectVersions(w) \/ InsertRelation(w)
    \/ Commit(w) \/ Abort(w)

Spec == Init /\ [][Next]_vars
-----------------------------------------------------------------------------
(* Types; a lock has one holder, a row that is written one writer, and a   *)
(* transaction that reconciles holds the locks of what it has read.        *)
TypeOK ==
  /\ source \in [Source -> Row \cup {Nil}]
  /\ relation \in [Pair -> Doi \cup {Nil}]
  /\ \A w \in Writer :
       LET t == tx[w] IN
         /\ t.at \in {"idle", "path", "read", "locks", "sha", "scan", "delete", "select",
                      "insert", "commit"}
         /\ t.locks \subseteq Identity /\ t.shares \subseteq Source
         /\ t.digests \subseteq Digest /\ t.dois \subseteq Doi /\ t.pairs \subseteq Pair
         /\ DOMAIN t.rows \subseteq Source /\ DOMAIN t.rels \subseteq Pair
         /\ t.at \notin {"idle", "path", "read", "locks"} => IdentitiesOf(t) \subseteq t.locks
  /\ \A v, w \in Writer : v # w =>
       tx[v].locks \cap tx[w].locks = {} /\ DOMAIN tx[v].rows \cap DOMAIN tx[w].rows = {}

(* Whatever overlaps: the sources of one digest always point to the        *)
(* richest of them, which points to none, so that canonical_for has found  *)
(* the canonical source after one step; a source without a digest points   *)
(* to none.                                                                *)
CanonicalAgrees ==
  \A s \in Source : source[s] # Nil =>
    LET group == Group(source, source[s].sha)
        canonical == ChooseCanonical(source, group)
    IN source[s].canonical = IF source[s].sha = Nil \/ s = canonical THEN Nil ELSE canonical

(* The catalogue's in-memory double recomputes all relations after each    *)
(* upsert; those of the database come of no other DOI than they say, in    *)
(* any sequence of upserts that do not overlap.                            *)
Resting == \A w \in Writer : tx[w].at = "idle"
RelationsTrue ==
  alone /\ Resting =>
    \A p \in Pair : relation[p] # Nil => p \in VersionPairs(source, relation[p])

(* Sources that share a DOI and differ in their digest are versions of the *)
(* one that is canonical among them, and related to it: the test           *)
(* test_same_doi_with_different_sha_creates_version_relation_without_merging *)
(* says so of two of them.                                                 *)
VersionsRelated ==
  alone /\ Resting =>
    \A doi \in Doi : \A p \in VersionPairs(source, doi) : relation[p] # Nil

(* They are, unless two DOIs have related the same pair: it has one row,   *)
(* which goes when the DOI that took it over goes.                         *)
RelationsAgreeAlone == RelationsTrue /\ (~doubled => VersionsRelated)

(* The two relations that upsert maintains beside the row: canonical       *)
(* sources, whatever overlaps, and versions, if nothing does.              *)
CatalogAgrees == CanonicalAgrees /\ RelationsAgreeAlone
===============================================================================
