------------------------------- MODULE FactGraph -------------------------------
(***************************************************************************)
(* The contracts of knowledge/facts.py over the outputs of the extractor:  *)
(* _build_fact_batch turns an output into a batch that cites the fragment  *)
(* it was extracted from, the validators of FactBatch refuse it or give    *)
(* its items their content-derived ids, project_fact_batch lays it out as  *)
(* nodes and edges, and InMemoryGlobalKnowledgeGraphWriter.write_batch     *)
(* merges these into the graph, all of them or none.                       *)
(*                                                                         *)
(* One generation of extraction.  A digest is what it is computed from;    *)
(* Fold is str.casefold.  Identifiers, conditions, units and values are    *)
(* part of a fact's label, and both of its quality gates one flag, sure:   *)
(* confidence above a half, or more than low quality.                      *)
(***************************************************************************)
EXTENDS OpenAIFactExtractor, FiniteSets

CONSTANTS
  Fold,    \* Fold[n]: the name n in folded case
  OutputOf \* OutputOf[o]: the entities and facts of the output o

ASSUME OutputAssumption ==
  /\ \A n \in DOMAIN Fold : Fold[n] \in DOMAIN Fold /\ Fold[Fold[n]] = Fold[n]
  /\ \A t \in DOMAIN Parsed : Parsed[t] \in DOMAIN OutputOf
  /\ None \notin DOMAIN OutputOf
  /\ \A o \in DOMAIN OutputOf : \A i \in DOMAIN OutputOf[o].facts :
       OutputOf[o].facts[i].kind \in {"relation", "observation"}

VARIABLES
  batches,  \* batches[f]: the output of f whose batch is in the graph, or None
  graph     \* nodes and edges

factVars == <<call, batches, graph>>
-----------------------------------------------------------------------------
Entities(o) == OutputOf[o].entities
Facts(o) == OutputOf[o].facts
Items(s) == {s[i] : i \in DOMAIN s}

(* Identities; the case of a name is not part of them.                     *)
EntityId(e) == <<"entity", e.type, Fold[e.name]>>
EvidenceId(f) == <<"evidence", f>>
Label(x) == IF x.kind = "observation" THEN Fold[x.label] ELSE x.label
FactId(x, f) ==
  <<x.kind, EntityId(x.subject), IF x.kind = "relation" THEN EntityId(x.object) ELSE None,
    Label(x), x.unknown, x.sure, EvidenceId(f)>>

(* The entities a fact names.                                              *)
Named(x) == IF x.kind = "relation" THEN {x.subject, x.object} ELSE {x.subject}

Role(type) == IF type = "sample" THEN {"sample"}
              ELSE IF type \in {"material", "composition"} THEN {"material"} ELSE {}

(* The validators of RelationAssertion, PropertyObservation and FactBatch. *)
Declared_ById(o) ==
  \A x \in Items(Facts(o)) : \E e \in Items(Entities(o)) : EntityId(x.subject) = EntityId(e)
Declared(o) == \A x \in Items(Facts(o)) : Named(x) \subseteq Items(Entities(o))

Distinct(ids) == \A i, j \in DOMAIN ids : ids[i] = ids[j] => i = j

Valid(o, f) ==
  /\ Facts(o) # <<>> /\ Declared(o)
  /\ Distinct([i \in DOMAIN Entities(o) |-> EntityId(Entities(o)[i])])
  /\ Distinct([i \in DOMAIN Facts(o) |-> FactId(Facts(o)[i], f)])
  /\ \A x \in Items(Facts(o)) :
       /\ ~(x.unknown /\ x.sure)
       /\ x.kind = "observation" => x.role \in Role(x.subject.type)
-----------------------------------------------------------------------------
(* project_fact_batch.                                                     *)
MakeNode(id, core, aliases) == [id |-> id, core |-> core, aliases |-> aliases]
MakeEdge(type, from, to, role) == [type |-> type, from |-> from, to |-> to, role |-> role]

EntityNode(e) == MakeNode(EntityId(e), <<e.type, e.name>>, e.aliases)
FactNode(x, f) == MakeNode(FactId(x, f), <<x.kind, x.label>>, {})
NodesOf(o, f) ==
  {EntityNode(e) : e \in Items(Entities(o))} \cup {FactNode(x, f) : x \in Items(Facts(o))}
    \cup {MakeNode(EvidenceId(f), <<"evidence">>, {})}
EdgesOf(o, f) ==
  UNION {LET id == FactId(x, f) IN
           {MakeEdge("SUPPORTED_BY", id, EvidenceId(f), x.evidence)}
             \cup (IF x.kind = "observation"
                   THEN {MakeEdge("OBSERVED_ON", id, EntityId(x.subject), None)}
                   ELSE {MakeEdge("ASSERTION_SUBJECT", EntityId(x.subject), id, None),
                         MakeEdge("ASSERTION_OBJECT", id, EntityId(x.object), None)})
         : x \in Items(Facts(o))}

(* _add_node, and validate_graph_integrity.                                *)
Projected(o, f) ==
  LET nodes == NodesOf(o, f)
      ids == {n.id : n \in nodes}
  IN /\ \A m, n \in nodes : m.id = n.id => m = n
     /\ \A e \in EdgesOf(o, f) : e.from \in ids /\ e.to \in ids

(* _merge_entity_aliases: nodes of an entity may differ in their aliases.  *)
Mergeable_Same(m, n) == m = n
Mergeable(m, n) == m.core = n.core

Merged_Newest(m, n) == n
Merged(m, n) == MakeNode(m.id, m.core, m.aliases \cup n.aliases)

(* write_batch, where no batch with that key has been written.             *)
Conflicts(o, f) ==
  \E m \in graph.nodes, n \in NodesOf(o, f) : m.id = n.id /\ ~Mergeable(m, n)
Written(o, f) ==
  LET new == NodesOf(o, f)
      kept == {m \in graph.nodes : \A n \in new : n.id # m.id}
  IN [nodes |-> kept \cup {IF \E m \in graph.nodes : m.id = n.id
                           THEN Merged(CHOOSE m \in graph.nodes : m.id = n.id, n)
                           ELSE n : n \in new},
      edges |-> graph.edges \cup EdgesOf(o, f)]
-----------------------------------------------------------------------------
FactInit ==
  /\ call = [c \in Caller |-> NoCall]
  /\ batches = [f \in Fragment |-> None]
  /\ graph = [nodes |-> {}, edges |-> {}]

(* An output that is refused, and a conflict, write nothing; a batch that  *)
(* is there is acknowledged, another one of its fragment is a conflict.    *)
Write(c) ==
  LET f == call[c].fragment
      o == Output(c)
  IN /\ call[c].at = "write"
     /\ Ends(c)
     /\ IF batches[f] = None /\ Valid(o, f) /\ Projected(o, f) /\ ~Conflicts(o, f)
        THEN graph' = Written(o, f) /\ batches' = [batches EXCEPT ![f] = o]
        ELSE UNCHANGED <<batches, graph>>

FactNext ==
  \E c \in Caller :
    \/ \E b \in Binding, f \in Fragment : Begin(c, b, f) /\ UNCHANGED <<batches, graph>>
    \/ (CallStep(c) \/ Cancel(c)) /\ UNCHANGED <<batches, graph>>
    \/ Write(c)

FactSpec == FactInit /\ [][FactNext]_factVars

(* The client has a timeout, the coordinator and the sink answer, and what *)
(* was begun goes on unless it is cancelled.                               *)
FairFactSpec ==
  /\ FactSpec
  /\ \A c \in Caller : WF_factVars((CallStep(c) /\ UNCHANGED <<batches, graph>>) \/ Write(c))
-----------------------------------------------------------------------------
(* A batch that its validators accept can always be projected: no two      *)
(* items claim one id with different content and no edge lacks an end, so  *)
(* that "invalid_graph_projection" is never the fate of a paid extraction. *)
Projectable ==
  \A c \in Caller : call[c].at = "write" =>
    (Valid(Output(c), call[c].fragment) => Projected(Output(c), call[c].fragment))

(* The graph depends on which batches were accepted and not on their       *)
(* order: it holds their nodes, each with the aliases all of them know,    *)
(* their edges, and nothing of a batch that was refused.                   *)
Accepted == {f \in Fragment : batches[f] # None}
All == UNION {NodesOf(batches[f], f) : f \in Accepted}
GraphIsMerged ==
  /\ graph.edges = UNION {EdgesOf(batches[f], f) : f \in Accepted}
  /\ graph.nodes = {MakeNode(n.id, n.core, UNION {m.aliases : m \in {k \in All : k.id = n.id}})
                      : n \in All}

(* A batch of a fragment that has none conflicts with the graph for one    *)
(* reason only: one of its entities is there under the same name in        *)
(* another case, which the identity folds and the node keeps.              *)
ConflictOnlyByCase ==
  \A c \in Caller :
    ( /\ call[c].at = "write" /\ batches[call[c].fragment] = None
      /\ Valid(Output(c), call[c].fragment) /\ Conflicts(Output(c), call[c].fragment) )
    => \E f \in Accepted : \E d \in Items(Entities(batches[f])), e \in Items(Entities(Output(c))) :
         EntityId(d) = EntityId(e) /\ d.name # e.name

(* Every call ends, whatever the provider answers: with an output, or with *)
(* an error that counts its attempts.                                      *)
EveryCallEnds == \A c \in Caller : call[c].at # "idle" ~> call[c].at = "idle"
=============================================================================
