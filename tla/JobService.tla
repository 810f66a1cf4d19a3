------------------------------ MODULE JobService ------------------------------
(***************************************************************************)
(* What the knowledge job queue promises its callers, without leases,      *)
(* clocks, workers or retries: an accepted job is handed out at most       *)
(* MaxAttempts times, is resolved at most once, is resolved only after it  *)
(* was handed out, and keeps its answer for ever.                          *)
(***************************************************************************)
EXTENDS Naturals

CONSTANTS Job, Result, MaxAttempts, Nil

VARIABLE ledger   \* ledger[j]: what the service has promised about job j

Phase == {"absent", "pending", "succeeded", "failed"}

Entry == [phase : Phase, deliveries : Nat, result : Result \cup {Nil}]

MakeEntry(phase, deliveries, result) ==
  [phase |-> phase, deliveries |-> deliveries, result |-> result]

Absent == MakeEntry("absent", 0, Nil)

Init == ledger = [j \in Job |-> Absent]

(* The relation between an entry and its successor, one per event.         *)
Submitted(old, new) ==
  /\ old = Absent
  /\ new = MakeEntry("pending", 0, Nil)

Delivered(old, new) ==
  /\ old.phase = "pending"
  /\ old.deliveries < MaxAttempts
  /\ new = MakeEntry("pending", old.deliveries + 1, Nil)

Resolved(old, new) ==
  /\ old.phase = "pending"
  /\ old.deliveries > 0
  /\ \/ \E r \in Result : new = MakeEntry("succeeded", old.deliveries, r)
     \/ new = MakeEntry("failed", old.deliveries, Nil)

Advance(old, new) ==
  Submitted(old, new) \/ Delivered(old, new) \/ Resolved(old, new)

(* One call of the service may resolve several jobs: a claim also fails    *)
(* every job whose last lease ran out.                                     *)
Next ==
  /\ ledger' \in [Job -> Entry]
  /\ \A j \in Job : ledger'[j] = ledger[j] \/ Advance(ledger[j], ledger'[j])

Spec == Init /\ [][Next]_ledger
===============================================================================
