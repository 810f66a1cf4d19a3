------------------------------- MODULE AgeWriter -------------------------------
(***************************************************************************)
(* PostgresAGEGlobalKnowledgeGraphWriter.write_batch: concurrent           *)
(* transactions that take advisory locks on the batch key and on every     *)
(* node and edge, read the ledger, read the stored items, merge the        *)
(* aliases of the entities, and write the relational mirror, the AGE graph *)
(* and the ledger in one commit.  Reads see committed data only; a         *)
(* transaction that ends, in whichever way, releases its locks.            *)
(*                                                                         *)
(* Nodes and edges are items: a core (labels, type, end points, every      *)
(* property but the aliases) and a set of aliases, empty for all items but *)
(* entities.  The row locks of SELECT ... FOR UPDATE are subsumed by the   *)
(* advisory locks, which name the same rows and those not yet inserted.    *)
(*                                                                         *)
(* An operator whose name ends in _Unsorted or the like is a faulty        *)
(* variant of the one below it; no action uses it.                         *)
(***************************************************************************)
EXTENDS Naturals

CONSTANTS
  Writer,    \* write_batch calls in progress at one time
  Batch, Key, Item, Alias,
  KeyOf,     \* idempotency key of each batch
  Content,   \* Content[b]: function from the batch's items to core and aliases
  Core,      \* cores of items
  LockRank,  \* the order of lock keys (ORDER BY lock_key)
  Nil

Lock == Key \cup Item

ASSUME WriterAssumption ==
  /\ KeyOf \in [Batch -> Key]
  /\ \A b \in Batch : /\ DOMAIN Content[b] \subseteq Item
                      /\ \A i \in DOMAIN Content[b] :
                           Content[b][i] \in [core : Core, aliases : SUBSET Alias]
  /\ LockRank \in [Lock -> Nat]
  /\ \A k, l \in Lock : LockRank[k] = LockRank[l] => k = l
  /\ Key \cap Item = {}
  /\ Nil \notin Batch \cup Writer \cup [core : Core, aliases : SUBSET Alias]

VARIABLES
  ledger,    \* knowledge_graph_batches
  stored,    \* knowledge_graph_nodes and _edges, and with them the AGE graph
  owner,     \* who holds each advisory lock
  tx,        \* tx[w]: the transaction of writer w
  answers    \* history: what write_batch has returned or raised

vars == <<ledger, stored, owner, tx, answers>>

StoredItem == [core : Core, aliases : SUBSET Alias]
TxAt == {"idle", "locking", "ledger", "items", "commit"}
MakeTx(at, batch, writes) == [at |-> at, batch |-> batch, writes |-> writes]
NoTx == MakeTx("idle", Nil, <<>>)
Status == {"written", "already_present", "conflict"}

ItemsOf(b) == DOMAIN Content[b]
LocksOf(b) == {KeyOf[b]} \cup ItemsOf(b)

Locked(w) == \A l \in LocksOf(tx[w].batch) : owner[l] = w

(* The types, and that a transaction reads and writes under its locks and  *)
(* leaves none behind.                                                     *)
TypeOK ==
  /\ ledger \in [Key -> Batch \cup {Nil}]
  /\ stored \in [Item -> StoredItem \cup {Nil}]
  /\ owner \in [Lock -> Writer \cup {Nil}]
  /\ DOMAIN tx = Writer
  /\ \A w \in Writer :
       \/ tx[w] = NoTx
       \/ /\ tx[w] = MakeTx(tx[w].at, tx[w].batch, tx[w].writes)
          /\ tx[w].at \in TxAt \ {"idle"}
          /\ tx[w].batch \in Batch
          /\ tx[w].at # "locking" => Locked(w)
          /\ tx[w].at = "commit" => tx[w].writes \in [ItemsOf(tx[w].batch) -> StoredItem]
  /\ \A l \in Lock : owner[l] # Nil =>
       tx[owner[l]] # NoTx /\ l \in LocksOf(tx[owner[l]].batch)
  /\ answers \subseteq [batch : Batch, status : Status]

Init ==
  /\ ledger = [k \in Key |-> Nil]
  /\ stored = [i \in Item |-> Nil]
  /\ owner = [l \in Lock |-> Nil]
  /\ tx = [w \in Writer |-> NoTx]
  /\ answers = {}

-------------------------------------------------------------------------------
BeginTx(w, b) ==
  /\ tx[w] = NoTx
  /\ tx' = [tx EXCEPT ![w] = MakeTx("locking", b, <<>>)]
  /\ UNCHANGED <<ledger, stored, owner, answers>>

Missing_BatchOnly(w) == {KeyOf[tx[w].batch]} \ {l \in Lock : owner[l] = w}
Missing(w) == LocksOf(tx[w].batch) \ {l \in Lock : owner[l] = w}

(* One statement takes the locks one after the other, in their order.      *)
Turn_Unsorted(w, l) == l \in Missing(w)
Turn(w, l) ==
  /\ l \in Missing(w)
  /\ \A k \in Missing(w) : LockRank[l] <= LockRank[k]

TakeLock(w, l) ==
  /\ tx[w].at = "locking"
  /\ Turn(w, l)
  /\ owner[l] = Nil
  /\ owner' = [owner EXCEPT ![l] = w]
  /\ UNCHANGED <<ledger, stored, tx, answers>>

Goes(w, s) == tx' = [tx EXCEPT ![w] = MakeTx(s, tx[w].batch, <<>>)]

AllLocked(w) ==
  /\ tx[w].at = "locking"
  /\ Missing(w) = {}
  /\ Goes(w, "ledger")
  /\ UNCHANGED <<ledger, stored, owner, answers>>

(* The transaction ends: commit or rollback.                               *)
EndTx(w) ==
  /\ tx' = [tx EXCEPT ![w] = NoTx]
  /\ owner' = [l \in Lock |-> IF owner[l] = w THEN Nil ELSE owner[l]]

Answer(w, status) ==
  answers' = answers \cup {[batch |-> tx[w].batch, status |-> status]}

(* The ledger is looked up by key; the stored digest names the projection. *)
ReadLedger(w) ==
  /\ tx[w].at = "ledger"
  /\ LET b == tx[w].batch
         recorded == ledger[KeyOf[b]]
     IN
     \/ recorded = Nil /\ Goes(w, "items") /\ UNCHANGED <<owner, answers>>
     \/ recorded = b /\ EndTx(w) /\ Answer(w, "already_present")
     \/ recorded \notin {Nil, b} /\ EndTx(w) /\ Answer(w, "conflict")
  /\ UNCHANGED <<ledger, stored>>

(* An item that is stored already must agree but for its aliases, which    *)
(* are merged.                                                             *)
Agrees_Whole(b) == \A i \in ItemsOf(b) : stored[i] \in {Nil, Content[b][i]}
Agrees(b) ==
  \A i \in ItemsOf(b) : stored[i] # Nil => stored[i].core = Content[b][i].core

Merge(b, i) ==
  [core |-> Content[b][i].core,
   aliases |-> Content[b][i].aliases
               \cup (IF stored[i] = Nil THEN {} ELSE stored[i].aliases)]

ReadItems(w) ==
  /\ tx[w].at = "items"
  /\ LET b == tx[w].batch IN
     \/ /\ Agrees(b)
        /\ tx' = [tx EXCEPT ![w] =
             MakeTx("commit", b, [i \in ItemsOf(b) |-> Merge(b, i)])]
        /\ UNCHANGED <<owner, answers>>
     \/ ~Agrees(b) /\ EndTx(w) /\ Answer(w, "conflict")
  /\ UNCHANGED <<ledger, stored>>

(* The upserts and the ledger row become visible together.  The caller may *)
(* not learn of it.                                                        *)
Upserted(w) ==
  [i \in Item |-> IF i \in ItemsOf(tx[w].batch) THEN tx[w].writes[i] ELSE stored[i]]

Commit(w) ==
  /\ tx[w].at = "commit"
  /\ ledger' = [ledger EXCEPT ![KeyOf[tx[w].batch]] = tx[w].batch]
  /\ stored' = Upserted(w)
  /\ EndTx(w)
  /\ Answer(w, "written") \/ UNCHANGED answers

(* An error of the driver or of AGE, or a crash: nothing was written.      *)
Abort(w) ==
  /\ tx[w] # NoTx
  /\ EndTx(w)
  /\ UNCHANGED <<ledger, stored, answers>>

Step(w) ==
  \/ \E l \in Lock : TakeLock(w, l)
  \/ AllLocked(w)
  \/ ReadLedger(w)
  \/ ReadItems(w)
  \/ Commit(w)

Next ==
  \/ \E w \in Writer, b \in Batch : BeginTx(w, b)
  \/ \E w \in Writer, l \in Lock : TakeLock(w, l)
  \/ \E w \in Writer : AllLocked(w)
  \/ \E w \in Writer : ReadLedger(w)
  \/ \E w \in Writer : ReadItems(w)
  \/ \E w \in Writer : Commit(w)
  \/ \E w \in Writer : Abort(w)

Spec == Init /\ [][Next]_vars

(* The database goes on with a transaction that can go on, and hands a     *)
(* lock that comes free again and again to each of those who wait for it.  *)
FairSpec ==
  /\ Spec
  /\ \A w \in Writer : /\ WF_vars(Step(w))
                       /\ SF_vars(\E l \in Lock : TakeLock(w, l))

-------------------------------------------------------------------------------
(* Properties.                                                             *)

(* Every write is one whole batch merged into what was there: two writers  *)
(* that share an entity lose neither's aliases, and a batch is entered     *)
(* once however many writers carry it.                                     *)
Graph == INSTANCE MergedGraph
ImplementsMergedGraph == Graph!Spec

(* A conflict is reported as permanent, so it must never go away: there is *)
(* another batch under the key, or an item that differs in its core.       *)
(* "Written" and "already present" stay true as well.                      *)
AnswersFinal ==
  \A a \in answers :
    LET recorded == ledger[KeyOf[a.batch]] IN
    /\ a.status = "conflict" =>
         \/ recorded \notin {Nil, a.batch}
         \/ \E i \in ItemsOf(a.batch) :
              stored[i] # Nil /\ stored[i].core # Content[a.batch][i].core
    /\ a.status \in {"written", "already_present"} => recorded = a.batch

(* No transaction waits for ever: the order of the locks prevents that two *)
(* writers wait for each other.                                            *)
EveryWriteEnds == \A w \in Writer : tx[w] # NoTx ~> tx[w] = NoTx
===============================================================================
