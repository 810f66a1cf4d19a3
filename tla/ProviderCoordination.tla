-------------------------- MODULE ProviderCoordination --------------------------
(***************************************************************************)
(* providers/coordination.py for one provider scope: every process that    *)
(* calls the provider takes a leased slot from one row of                  *)
(* provider_runtime_state and rows of provider_runtime_claims, and reports *)
(* how the call went.  The callers are _send_attempt of the fact extractor *)
(* (bulk) and any holder of SyncProviderCoordinator.slot (interactive).    *)
(*                                                                         *)
(* Every operation on the row is one transaction behind SELECT ... FOR     *)
(* UPDATE, so its effect is one step.  The time it works with is not the   *)
(* time of that step: PostgreSQL's now() is when the transaction began,    *)
(* before it waited for the row.                                           *)
(*                                                                         *)
(* Times are relative to the present, which is 0: Tick moves every stored  *)
(* time one unit into the past and forgets how long ago a time was once    *)
(* no comparison can tell.                                                 *)
(*                                                                         *)
(* An operator whose name ends in _NoReserve or the like is a faulty       *)
(* variant of the one below it; no action uses it.                         *)
(***************************************************************************)
EXTENDS Integers, FiniteSets

CONSTANTS
  Caller,
  Bulk,                 \* callers of the bulk workload; the others are interactive
  Estimate,             \* Estimate[c]: estimated_tokens of c's calls
  Id,                   \* lease tokens
  TotalSlots, ReservedSlots, BulkInitial, BulkHardMax,
  Requests, ReservedRequests,       \* requests per minute
  Tokens, ReservedTokens,           \* tokens per minute
  Ttl, OpenFor, Minute, LimitWindow, \* in time units
  CircuitThreshold, RecoverySuccesses,
  MaxLag,               \* bound: longest wait of a transaction for the row
  Nil

Smaller(a, b) == IF a <= b THEN a ELSE b
Larger(a, b) == IF a <= b THEN b ELSE a

ASSUME PolicyAssumption ==
  /\ Bulk \subseteq Caller
  /\ Estimate \in [Caller -> 1..Tokens]
  /\ IsFiniteSet(Id)
  /\ {TotalSlots, ReservedSlots, BulkInitial, BulkHardMax, Requests, ReservedRequests,
      Tokens, ReservedTokens, Ttl, OpenFor, Minute, LimitWindow, CircuitThreshold,
      RecoverySuccesses} \subseteq Nat \ {0}
  /\ MaxLag \in Nat
  /\ BulkInitial <= BulkHardMax /\ BulkHardMax <= TotalSlots - ReservedSlots
  /\ ReservedRequests < Requests /\ ReservedTokens < Tokens
  /\ Nil \notin Int \cup Id \cup [bulk : BOOLEAN, probe : BOOLEAN, until : Int]

VARIABLES
  circuit,  \* circuit_state, consecutive_failures, circuit_open_until
  quota,    \* quota_window_started_at, requests_used, tokens_reserved
  bulk,     \* bulk_limit, bulk_successes, last_429_window
  claims,   \* claims[i]: the row of provider_runtime_claims with token i
  call,     \* call[c]: the attempt caller c is making
  began,    \* began[c]: now() of c's transaction in progress
  phase,    \* the present within the fixed rate-limit window
  spent     \* history: what interactive callers were granted of the quota

vars == <<circuit, quota, bulk, claims, call, began, phase, spent>>

At == {"idle", "acquire", "poll", "provider", "record", "release"}
Reply == {"success", "failure", "limited", "rejected"}
MakeCall(at, id, reply) == [at |-> at, id |-> id, reply |-> reply]
NoCall == MakeCall("idle", Nil, Nil)

MakeCircuit(state, failures, until) ==
  [state |-> state, failures |-> failures, until |-> until]
MakeQuota(started, requests, tokens) ==
  [started |-> started, requests |-> requests, tokens |-> tokens]
MakeBulk(limit, successes, last429) ==
  [limit |-> limit, successes |-> successes, last429 |-> last429]
MakeClaim(isBulk, probe, until) == [bulk |-> isBulk, probe |-> probe, until |-> until]

(* Stored times, oldest first; the window of a 429 counts from the present *)
(* window.                                                                 *)
Began == -MaxLag .. 0
Until == -MaxLag .. Larger(Ttl, OpenFor)
Started == -(MaxLag + Minute) .. 0
WindowOf(t) == (phase + t) \div LimitWindow
OldestWindow == -((MaxLag + LimitWindow - 1) \div LimitWindow) - 1

Rows == {i \in Id : claims[i] # Nil}
Good(i, now) == claims[i] # Nil /\ claims[i].until > now
Active(now) == {i \in Id : Good(i, now)}
Probes == {i \in Rows : claims[i].probe}
OfBulk(ids) == {i \in ids : claims[i].bulk}

TypeOK ==
  /\ circuit \in [state : {"closed", "open", "half_open"}, failures : 0..CircuitThreshold,
                  until : Until \cup {Nil}]
  /\ quota \in [started : Started, requests : 0..Requests, tokens : 0..Tokens]
  /\ bulk \in [limit : 1..BulkHardMax, successes : 0..RecoverySuccesses - 1,
               last429 : OldestWindow..0 \cup {Nil}]
  /\ claims \in [Id -> [bulk : BOOLEAN, probe : BOOLEAN, until : Until] \cup {Nil}]
  /\ call \in [Caller -> [at : At, id : Id \cup {Nil}, reply : Reply \cup {Nil}]]
  /\ began \in [Caller -> Began \cup {Nil}]
  /\ phase \in 0..LimitWindow - 1
  /\ spent \in [requests : 0..Requests, tokens : 0..Tokens]

Init ==
  /\ circuit = MakeCircuit("closed", 0, Nil)
  /\ quota = MakeQuota(0, 0, 0)
  /\ bulk = MakeBulk(BulkInitial, 0, Nil)
  /\ claims = [i \in Id |-> Nil]
  /\ call = [c \in Caller |-> NoCall]
  /\ began = [c \in Caller |-> Nil]
  /\ phase = 0
  /\ spent = [requests |-> 0, tokens |-> 0]
-----------------------------------------------------------------------------
(* Where c's attempt goes; a step that starts a transaction records now(). *)
Goes(c, next) ==
  /\ call' = [call EXCEPT ![c] = next]
  /\ began' = [began EXCEPT ![c] = IF next.at \in {"acquire", "record"} THEN 0 ELSE Nil]

(* consecutive_failures is only compared with the threshold: it stops      *)
(* there.                                                                  *)
OneMore(failures) == Smaller(failures + 1, CircuitThreshold)

Opened(now, failures) == MakeCircuit("open", failures, now + OpenFor)

(* _advance_state: a probe that expired reopens the circuit, and an open   *)
(* circuit past its time is half open.                                     *)
Reopened(now, ci) ==
  IF ci.state = "half_open" /\ \E i \in Rows : ~Good(i, now) /\ claims[i].probe
  THEN Opened(now, CircuitThreshold)
  ELSE ci

Cooled(now, ci) ==
  IF ci.state = "open" /\ ci.until <= now
  THEN MakeCircuit("half_open", ci.failures, Nil)
  ELSE ci

AdvancedCircuit(now) == Cooled(now, Reopened(now, circuit))

NewWindow(now) == now - quota.started >= Minute
AdvancedQuota(now) == IF NewWindow(now) THEN MakeQuota(now, 0, 0) ELSE quota
AdvancedSpent(now) == IF NewWindow(now) THEN [requests |-> 0, tokens |-> 0] ELSE spent

Kept(now) == [i \in Id |-> IF Good(i, now) THEN claims[i] ELSE Nil]

Cap_NoReserve(c) == [requests |-> Requests, tokens |-> Tokens]
Cap(c) ==
  IF c \in Bulk
  THEN [requests |-> Requests - ReservedRequests, tokens |-> Tokens - ReservedTokens]
  ELSE [requests |-> Requests, tokens |-> Tokens]

BulkCap == Smaller(bulk.limit, Smaller(BulkHardMax, TotalSlots - ReservedSlots))

SlotsLeft_BulkOnly(c, now) ==
  IF c \in Bulk THEN Cardinality(OfBulk(Active(now))) < BulkCap
  ELSE Cardinality(Active(now) \ OfBulk(Active(now))) < TotalSlots
SlotsLeft(c, now) ==
  LET active == Active(now) IN
    /\ Cardinality(active) < TotalSlots
    /\ c \in Bulk => Cardinality(OfBulk(active)) < BulkCap

ProbeBusy(ci, now) ==
  ci.state = "half_open" /\ \E i \in Rows : Good(i, now) /\ claims[i].probe

Admission(c, now) ==
  LET ci == AdvancedCircuit(now)
      qu == AdvancedQuota(now)
  IN CASE ci.state = "open" -> "circuit_open"
       [] /\ ci.state # "open"
          /\ ~ProbeBusy(ci, now)
          /\ qu.requests + 1 <= Cap(c).requests
          /\ qu.tokens + Estimate[c] <= Cap(c).tokens
          /\ SlotsLeft(c, now) -> "ready"
       [] OTHER -> "wait"
-----------------------------------------------------------------------------
(* slot() and acquire(): start a try_acquire.                              *)
Ask(c) ==
  /\ call[c].at \in {"idle", "poll"}
  /\ Goes(c, MakeCall("acquire", Nil, Nil))
  /\ UNCHANGED <<circuit, quota, bulk, claims, phase, spent>>

(* try_acquire grants a lease.  Its answer may be lost after the commit:   *)
(* the row stays and its caller does not know of it.                       *)
Grant(c) ==
  LET now == began[c]
      ci == AdvancedCircuit(now)
      qu == AdvancedQuota(now)
      held == {call[d].id : d \in Caller}
  IN /\ call[c].at = "acquire"
     /\ Admission(c, now) = "ready"
     /\ \E i \in Id \ (Active(now) \cup held) :
          /\ claims' = [Kept(now) EXCEPT
                          ![i] = MakeClaim(c \in Bulk, ci.state = "half_open", now + Ttl)]
          /\ Goes(c, MakeCall("provider", i, Nil)) \/ Goes(c, NoCall)
     /\ circuit' = ci
     /\ quota' = MakeQuota(qu.started, qu.requests + 1, qu.tokens + Estimate[c])
     /\ spent' = IF c \in Bulk THEN AdvancedSpent(now)
                 ELSE [requests |-> AdvancedSpent(now).requests + 1,
                       tokens |-> AdvancedSpent(now).tokens + Estimate[c]]
     /\ UNCHANGED <<bulk, phase>>

(* What a refused try_acquire and a snapshot write: the clean-up.          *)
Advance(now) ==
  /\ circuit' = AdvancedCircuit(now)
  /\ quota' = AdvancedQuota(now)
  /\ spent' = AdvancedSpent(now)
  /\ claims' = Kept(now)
  /\ UNCHANGED <<bulk, phase>>

(* try_acquire says no: acquire() polls while it waits for capacity, until *)
(* its deadline has passed, and gives up at once when the circuit is open. *)
Refuse(c) ==
  /\ call[c].at = "acquire"
  /\ LET answer == Admission(c, began[c]) IN
       /\ answer # "ready"
       /\ \/ answer = "wait" /\ Goes(c, MakeCall("poll", Nil, Nil))
          \/ Goes(c, NoCall)
  /\ Advance(began[c])

(* _send_once returns or raises; only some replies are recorded.           *)
Replied(c) ==
  /\ call[c].at = "provider"
  /\ \E reply \in Reply :
       Goes(c, MakeCall(IF reply = "rejected" THEN "release" ELSE "record",
                        call[c].id, reply))
  /\ UNCHANGED <<circuit, quota, bulk, claims, phase, spent>>

(* _VERIFY_CLAIM: the row is there and was not expired when the            *)
(* transaction began.                                                      *)
Verified(c) == Good(call[c].id, began[c])

ProbeOf(c) == claims[call[c].id].probe

(* _record_success_state.                                                  *)
AfterSuccess_AnyLease(c) == MakeCircuit("closed", 0, Nil)
AfterSuccess(c) ==
  CASE ProbeOf(c) -> MakeCircuit("closed", 0, Nil)
    [] ~ProbeOf(c) /\ circuit.state = "closed" -> MakeCircuit("closed", 0, circuit.until)
    [] OTHER -> circuit

(* bulk_successes counts up to one more slot for bulk callers.             *)
Grown(c) ==
  CASE c \notin Bulk -> bulk
    [] c \in Bulk /\ bulk.successes + 1 < RecoverySuccesses ->
         MakeBulk(bulk.limit, bulk.successes + 1, bulk.last429)
    [] OTHER -> MakeBulk(Smaller(BulkHardMax, bulk.limit + 1), 0, bulk.last429)

(* _record_failure_state.                                                  *)
AfterFailure_Uncounted(c) ==
  IF ProbeOf(c) \/ circuit.failures + 1 > CircuitThreshold
  THEN Opened(began[c], OneMore(circuit.failures))
  ELSE MakeCircuit(circuit.state, OneMore(circuit.failures), circuit.until)
AfterFailure(c) ==
  CASE ProbeOf(c) \/ circuit.failures + 1 >= CircuitThreshold ->
         Opened(began[c], OneMore(circuit.failures))
    [] ~ProbeOf(c) /\ circuit.failures + 1 < CircuitThreshold /\ circuit.state = "closed" ->
         MakeCircuit("closed", circuit.failures + 1, circuit.until)
    [] OTHER -> circuit

(* _record_429_state: half the slots, once per window.                     *)
Halved(now) ==
  IF bulk.last429 = WindowOf(now) THEN bulk
  ELSE MakeBulk(Larger(1, bulk.limit \div 2), 0, WindowOf(now))

(* One transaction of _outcome or record_429.  A lost lease, or a lost     *)
(* answer, ends the attempt in the same release as a recorded outcome.     *)
Record(c) ==
  /\ call[c].at = "record"
  /\ Goes(c, MakeCall("release", call[c].id, Nil))
  /\ \/ /\ call[c].reply = "success" /\ Verified(c)
        /\ circuit' = AfterSuccess(c) /\ bulk' = Grown(c)
     \/ /\ call[c].reply = "failure" /\ Verified(c)
        /\ circuit' = AfterFailure(c) /\ bulk' = bulk
     \/ /\ call[c].reply = "limited"
        /\ circuit' = circuit /\ bulk' = Halved(began[c])
     \/ /\ call[c].reply # "limited" /\ ~Verified(c)
        /\ UNCHANGED <<circuit, bulk>>
  /\ UNCHANGED <<quota, claims, phase, spent>>

(* The transaction fails before it commits.                                *)
Unavailable(c) ==
  /\ \/ call[c].at = "acquire" /\ Goes(c, NoCall)
     \/ call[c].at = "record" /\ Goes(c, MakeCall("release", call[c].id, Nil))
  /\ UNCHANGED <<circuit, quota, bulk, claims, phase, spent>>

(* release(): one DELETE, whose failure leaves the row to expire.          *)
Release(c) ==
  /\ call[c].at = "release"
  /\ Goes(c, NoCall)
  /\ claims' \in {claims, [claims EXCEPT ![call[c].id] = Nil]}
  /\ UNCHANGED <<circuit, quota, bulk, phase, spent>>

Crash(c) ==
  /\ call[c].at # "idle"
  /\ Goes(c, NoCall)
  /\ UNCHANGED <<circuit, quota, bulk, claims, phase, spent>>

(* snapshot(), in a transaction that began up to MaxLag ago.               *)
Snapshot ==
  /\ \E now \in Began : Advance(now)
  /\ UNCHANGED <<call, began>>

(* Time passes, but no transaction waits for longer than MaxLag.           *)
Older(t, oldest) == IF t = Nil THEN Nil ELSE Larger(t - 1, oldest)

Tick ==
  /\ \A c \in Caller : began[c] # -MaxLag
  /\ began' = [c \in Caller |-> Older(began[c], -MaxLag)]
  /\ circuit' = MakeCircuit(circuit.state, circuit.failures, Older(circuit.until, -MaxLag))
  /\ quota' = MakeQuota(Older(quota.started, -(MaxLag + Minute)), quota.requests, quota.tokens)
  /\ claims' = [i \in Id |-> IF claims[i] = Nil THEN Nil
                             ELSE MakeClaim(claims[i].bulk, claims[i].probe,
                                            Older(claims[i].until, -MaxLag))]
  /\ phase' = (phase + 1) % LimitWindow
  /\ bulk' = IF phase' # 0 THEN bulk
             ELSE MakeBulk(bulk.limit, bulk.successes, Older(bulk.last429, OldestWindow))
  /\ UNCHANGED <<call, spent>>

Next ==
  \/ \E c \in Caller :
       \/ Ask(c) \/ Grant(c) \/ Refuse(c)
       \/ Replied(c) \/ Record(c) \/ Unavailable(c) \/ Release(c) \/ Crash(c)
  \/ Snapshot
  \/ Tick

Spec == Init /\ [][Next]_vars
-----------------------------------------------------------------------------
(* Leases that are good at this moment.                                    *)
Live == Active(0)

(* Of the leases good at any moment, over all processes, whatever crashed, *)
(* expired or waited for the row: never more than total_slots, and bulk    *)
(* never in the slots reserved for interactive callers.                    *)
SlotsBounded ==
  /\ Cardinality(Live) <= TotalSlots
  /\ Cardinality(OfBulk(Live)) <= TotalSlots - ReservedSlots

(* The columns of the circuit agree: it is closed exactly while fewer than *)
(* circuit_failure_threshold failures are on record, and open exactly      *)
(* while it has a time to end; and at most one probe is on record.         *)
CircuitAgrees ==
  /\ (circuit.state = "closed") <=> (circuit.failures < CircuitThreshold)
  /\ (circuit.state = "open") <=> (circuit.until # Nil)
  /\ \A i, j \in Probes : i = j

(* This step records the outcome of a lease that is still good.            *)
Reports(c, reply) ==
  /\ call[c].at = "record" /\ call[c].reply = reply /\ Verified(c)
  /\ call'[c].at = "release"

(* A circuit that is not closed closes by the success of a probe, and by   *)
(* nothing else.  A half-open one opens again by a failure (the probe's,   *)
(* or a late one of a lease from before it opened) or by a probe whose     *)
(* lease ran out; an open one is left by the probe's success or when its   *)
(* time is over.                                                           *)
CircuitDecided ==
  /\ circuit.state # "closed" /\ circuit'.state = "closed" =>
       \E c \in Caller : Reports(c, "success") /\ ProbeOf(c)
  /\ circuit.state = "half_open" /\ circuit'.state = "open" =>
       \/ \E c \in Caller : Reports(c, "failure")
       \/ \E i \in Probes : claims[i].until <= 0
  /\ circuit.state = "open" /\ circuit'.state = "half_open" => circuit.until <= 0

(* The circuit means what it says: its columns agree, whatever outcomes of *)
(* leases from before it opened come in late, and while it is not closed   *)
(* such a late outcome can open it again but never close it.               *)
CircuitTruthful == []CircuitAgrees /\ [][CircuitDecided]_circuit

(* The reservation is worth what it says: while the circuit is closed, an  *)
(* interactive caller that asks now is admitted if interactive callers     *)
(* hold fewer than reserved_interactive_slots and were granted less than   *)
(* the reserved requests and tokens of this window, whatever bulk did.     *)
InteractiveServed ==
  \A c \in Caller \ Bulk :
    ( /\ circuit.state = "closed"
      /\ Cardinality(Live \ OfBulk(Live)) < ReservedSlots
      /\ spent.requests < ReservedRequests
      /\ spent.tokens + Estimate[c] <= ReservedTokens )
    => Admission(c, 0) = "ready"
===============================================================================
