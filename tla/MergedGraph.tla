------------------------------- MODULE MergedGraph -------------------------------
(***************************************************************************)
(* What the global knowledge graph promises: it grows by whole batches.  A *)
(* batch enters at most once per idempotency key, only if it agrees with   *)
(* everything stored, and the aliases of an entity are exactly those of    *)
(* the batches that named it, in whichever order they came.                *)
(***************************************************************************)
CONSTANTS
  Batch, Key, Item, Alias,
  KeyOf,     \* idempotency key of each batch
  Content,   \* Content[b]: the items of batch b, each with its core and aliases
  Nil

VARIABLES
  ledger,    \* ledger[k]: the batch recorded under idempotency key k
  stored     \* stored[i]: the node or edge in the graph

ItemsOf(b) == DOMAIN Content[b]

Agrees(b) ==
  \A i \in ItemsOf(b) : stored[i] # Nil => stored[i].core = Content[b][i].core

AliasesIn(i) == IF stored[i] = Nil THEN {} ELSE stored[i].aliases

Merged(b, i) == [core |-> Content[b][i].core,
                 aliases |-> AliasesIn(i) \cup Content[b][i].aliases]

Init ==
  /\ ledger = [k \in Key |-> Nil]
  /\ stored = [i \in Item |-> Nil]

Accept(b) ==
  /\ ledger[KeyOf[b]] = Nil
  /\ Agrees(b)
  /\ ledger' = [ledger EXCEPT ![KeyOf[b]] = b]
  /\ stored' = [i \in Item |-> IF i \in ItemsOf(b) THEN Merged(b, i) ELSE stored[i]]

Next == \E b \in Batch : Accept(b)

Spec == Init /\ [][Next]_<<ledger, stored>>
===============================================================================
