----------------------- MODULE ProviderCoordinationProofs -----------------------
(***************************************************************************)
(* Proofs about the shared provider, for every policy, any number of       *)
(* callers and any wait for the row: the slots are never oversold and the  *)
(* circuit's columns agree.                                                *)
(***************************************************************************)
EXTENDS ProviderCoordination, FiniteSetTheorems, TLAPS

Circuits == [state : {"closed", "open", "half_open"}, failures : 0..CircuitThreshold,
             until : Int \cup {Nil}]
Claims == [bulk : BOOLEAN, probe : BOOLEAN, until : Int]
Calls == [at : At, id : Id \cup {Nil}, reply : Reply \cup {Nil}]
Holding == {"provider", "record", "release"}
Working == {"acquire", "record"}

(* As much of the types as the arguments below need.                       *)
Shape ==
  /\ circuit \in Circuits
  /\ bulk.limit \in Int
  /\ claims \in [Id -> Claims \cup {Nil}]
  /\ call \in [Caller -> Calls]
  /\ began \in [Caller -> Int \cup {Nil}]
  /\ \A c \in Caller : call[c].at \in Working => began[c] \in Int /\ began[c] <= 0

Agrees(ci) ==
  /\ (ci.state = "closed") <=> (ci.failures < CircuitThreshold)
  /\ (ci.state = "open") <=> (ci.until # Nil)

(* A caller with a lease has a token no other caller has.                  *)
Owned ==
  /\ \A c \in Caller : call[c].at \in Holding <=> call[c].id # Nil
  /\ \A c, d \in Caller : call[c].id = call[d].id /\ call[c].id # Nil => c = d

(* A probe that has not reported yet finds the circuit not closed.         *)
Pending(c) ==
  /\ call[c].at \in {"provider", "record"}
  /\ call[c].id \in Probes
Deciding == \A c \in Caller : Pending(c) => circuit.state # "closed"

IInv == Shape /\ CircuitAgrees /\ SlotsBounded /\ Owned /\ Deciding

LEMMA Policy ==
  /\ IsFiniteSet(Id) /\ Nil \notin Int /\ Nil \notin Id /\ Nil \notin Claims
  /\ TotalSlots \in Nat /\ ReservedSlots \in Nat /\ BulkHardMax \in Int
  /\ BulkInitial \in Int /\ BulkHardMax <= TotalSlots - ReservedSlots
  /\ CircuitThreshold \in Nat /\ CircuitThreshold > 0
  /\ OpenFor \in Nat /\ Ttl \in Nat /\ MaxLag \in Nat
BY PolicyAssumption DEF Claims

(* Fewer live leases, of the same workloads, are still within the slots.   *)
LEMMA Shrinks ==
  ASSUME Shape, SlotsBounded,
         \A i \in Id : Good(i, 0)' => Good(i, 0) /\ claims'[i].bulk = claims[i].bulk
  PROVE  SlotsBounded'
<1> DEFINE L == Active(0)
           M == Active(0)'
           B == OfBulk(Active(0))
           C == OfBulk(Active(0))'
<1>1. /\ M \in SUBSET L /\ L \in SUBSET Id
      /\ C \in SUBSET B /\ B \in SUBSET Id
  BY DEF Active, OfBulk
<1>2. /\ IsFiniteSet(L) /\ IsFiniteSet(B)
  BY <1>1, Policy, FS_Subset
<1>3. /\ Cardinality(M) <= Cardinality(L) /\ Cardinality(C) <= Cardinality(B)
  BY <1>1, <1>2, FS_Subset
<1>4. /\ IsFiniteSet(M) /\ IsFiniteSet(C)
  BY <1>1, <1>2, FS_Subset
<1>5. /\ Cardinality(M) \in Nat /\ Cardinality(L) \in Nat
      /\ Cardinality(C) \in Nat /\ Cardinality(B) \in Nat
  BY <1>2, <1>4, FS_CardinalityType
<1>6. /\ Cardinality(L) <= TotalSlots /\ Cardinality(B) <= TotalSlots - ReservedSlots
  BY DEF SlotsBounded, Live
<1>7. SlotsBounded' <=> /\ Cardinality(M) <= TotalSlots
                        /\ Cardinality(C) <= TotalSlots - ReservedSlots
  BY DEF SlotsBounded, Live
<1> HIDE DEF L, M, B, C
<1> QED BY <1>3, <1>5, <1>6, <1>7, Policy

(* _advance_state neither closes a circuit nor opens a closed one.         *)
LEMMA CoolingAgrees ==
  ASSUME NEW ci \in Circuits, Agrees(ci), NEW now \in Int
  PROVE  /\ Cooled(now, ci) \in Circuits
         /\ Agrees(Cooled(now, ci))
         /\ (Cooled(now, ci).state = "closed") <=> (ci.state = "closed")
<1>1. /\ ci.state \in {"closed", "open", "half_open"}
      /\ ci.failures \in 0..CircuitThreshold
  BY DEF Circuits
<1>2. CASE ci.state = "open" /\ ci.until <= now
  <2>1. Cooled(now, ci) = MakeCircuit("half_open", ci.failures, Nil)
    BY <1>2 DEF Cooled
  <2>2. ~(ci.failures < CircuitThreshold)
    BY <1>2 DEF Agrees
  <2> QED BY <1>1, <1>2, <2>1, <2>2, Policy DEF MakeCircuit, Circuits, Agrees
<1>3. CASE ~(ci.state = "open" /\ ci.until <= now)
  BY <1>3 DEF Cooled
<1> QED BY <1>2, <1>3

LEMMA AdvanceAgrees ==
  ASSUME Shape, CircuitAgrees, NEW now \in Int
  PROVE  /\ AdvancedCircuit(now) \in Circuits
         /\ Agrees(AdvancedCircuit(now))
         /\ (AdvancedCircuit(now).state = "closed") <=> (circuit.state = "closed")
<1>1. circuit \in Circuits /\ Agrees(circuit)
  BY DEF Shape, CircuitAgrees, Agrees
<1>2. PICK r : r = Reopened(now, circuit)
  OBVIOUS
<1>3. /\ r \in Circuits /\ Agrees(r)
      /\ (r.state = "closed") <=> (circuit.state = "closed")
  BY <1>1, <1>2, Policy DEF Reopened, Opened, MakeCircuit, Circuits, Agrees
<1>4. AdvancedCircuit(now) = Cooled(now, r)
  BY <1>2 DEF AdvancedCircuit
<1>5. /\ Cooled(now, r) \in Circuits /\ Agrees(Cooled(now, r))
      /\ (Cooled(now, r).state = "closed") <=> (r.state = "closed")
  BY <1>3, CoolingAgrees
<1> QED BY <1>3, <1>4, <1>5

(* A caller whose move keeps its lease or gives it up, and leaves the      *)
(* tables alone.                                                           *)
LEMMA CallMoves ==
  ASSUME IInv, NEW c \in Caller, NEW next \in Calls, Goes(c, next),
         UNCHANGED <<circuit, bulk, claims>>,
         next.at \in Holding <=> next.id # Nil,
         next.id \in {Nil, call[c].id},
         next.at \in {"provider", "record"} => call[c].at \in {"provider", "record"}
  PROVE  IInv'
<1> USE DEF IInv
<1>1. /\ call' \in [Caller -> Calls] /\ call'[c] = next
      /\ \A d \in Caller \ {c} : call'[d] = call[d] /\ began'[d] = began[d]
      /\ began' \in [Caller -> Int \cup {Nil}]
      /\ next.at \in Working => began'[c] = 0
  BY DEF Goes, Shape, Working
<1>2. Shape'
  BY <1>1 DEF Shape
<1>3. SlotsBounded' /\ CircuitAgrees'
  BY DEF SlotsBounded, Live, Active, OfBulk, Good, CircuitAgrees, Probes, Rows
<1>4. Owned'
  BY <1>1 DEF Owned
<1>5. Deciding'
  BY <1>1 DEF Deciding, Pending, Probes, Rows, Holding
<1> QED BY <1>2, <1>3, <1>4, <1>5

LEMMA InitHolds == Init => IInv
<1> SUFFICES ASSUME Init PROVE IInv
  OBVIOUS
<1>1. Shape
  BY Policy DEF Init, Shape, Circuits, Calls, At, NoCall, MakeCall, MakeCircuit, MakeBulk, Working
<1>2. CircuitAgrees
  BY Policy DEF Init, CircuitAgrees, MakeCircuit, Probes, Rows
<1>3. SlotsBounded
  <2>1. Active(0) = {} /\ OfBulk(Active(0)) = {}
    BY DEF Init, Active, OfBulk, Good
  <2> QED BY <2>1, Policy, FS_EmptySet, PolicyAssumption DEF SlotsBounded, Live
<1>4. Owned /\ Deciding
  BY DEF Init, Owned, Deciding, Pending, NoCall, MakeCall, Holding
<1> QED BY <1>1, <1>2, <1>3, <1>4 DEF IInv

(* The clean-up of a refused try_acquire or of a snapshot.                 *)
LEMMA AdvanceKeeps ==
  ASSUME IInv, NEW now \in Int, now <= 0, Advance(now)
  PROVE  /\ circuit' \in Circuits /\ claims' \in [Id -> Claims \cup {Nil}]
         /\ CircuitAgrees' /\ SlotsBounded'
         /\ \A i \in Id : claims'[i] \in {claims[i], Nil}
         /\ (circuit'.state = "closed") <=> (circuit.state = "closed")
<1> USE DEF IInv
<1>1. /\ circuit' = AdvancedCircuit(now)
      /\ circuit' \in Circuits /\ Agrees(circuit')
      /\ (circuit'.state = "closed") <=> (circuit.state = "closed")
  BY AdvanceAgrees DEF Advance
<1>2. claims' \in [Id -> Claims \cup {Nil}] /\ \A i \in Id : claims'[i] \in {claims[i], Nil}
  BY DEF Advance, Kept, Shape
<1>3. SlotsBounded'
  <2>1. \A i \in Id : Good(i, 0)' => Good(i, 0) /\ claims'[i].bulk = claims[i].bulk
    BY <1>2 DEF Good
  <2> QED BY <2>1, Shrinks
<1>4. \A i \in Id : i \in Probes' => i \in Probes
  BY <1>2 DEF Probes, Rows
<1>5. CircuitAgrees'
  BY <1>1, <1>4 DEF CircuitAgrees, Agrees, Probes, Rows
<1> QED BY <1>1, <1>2, <1>3, <1>5

(* A try_acquire that is granted: room is counted among the leases that    *)
(* were good when the transaction began, which are at least those that     *)
(* are good now.                                                           *)
LEMMA GrantKeeps ==
  ASSUME IInv, NEW c \in Caller, Grant(c) PROVE IInv'
<1> USE DEF IInv
<1> DEFINE now == began[c]
           ci == AdvancedCircuit(now)
           S == Active(now)
           held == {call[d].id : d \in Caller}
<1>1. /\ call[c].at = "acquire" /\ now \in Int /\ now <= 0
  BY DEF Grant, Shape, Working
<1>2. PICK i \in Id \ (S \cup held) :
        /\ claims' = [Kept(now) EXCEPT
                         ![i] = MakeClaim(c \in Bulk, ci.state = "half_open", now + Ttl)]
        /\ Goes(c, MakeCall("provider", i, Nil)) \/ Goes(c, NoCall)
  BY DEF Grant
<1>3. /\ circuit' = ci /\ UNCHANGED bulk
      /\ Admission(c, now) = "ready"
  BY DEF Grant
<1>4. /\ ci \in Circuits /\ Agrees(ci)
      /\ (ci.state = "closed") <=> (circuit.state = "closed")
  BY <1>1, AdvanceAgrees
<1>5. /\ ci.state # "open" /\ ~ProbeBusy(ci, now) /\ SlotsLeft(c, now)
  BY <1>3 DEF Admission
<1>6. /\ \A j \in Id \ {i} : claims'[j] = IF Good(j, now) THEN claims[j] ELSE Nil
      /\ claims'[i] = MakeClaim(c \in Bulk, ci.state = "half_open", now + Ttl)
      /\ DOMAIN claims' = Id
  BY <1>2 DEF Kept
<1>a. (claims'[i].probe <=> ci.state = "half_open") /\ (claims'[i].bulk <=> c \in Bulk)
  <2> DEFINE b == c \in Bulk
             p == ci.state = "half_open"
  <2>1. claims'[i] = [bulk |-> b, probe |-> p, until |-> now + Ttl]
    BY <1>6 DEF MakeClaim
  <2> HIDE DEF b, p, now
  <2>2. claims'[i].bulk = b /\ claims'[i].probe = p
    BY <2>1
  <2> QED BY <2>2 DEF b, p
<1>7. claims' \in [Id -> Claims \cup {Nil}]
  <2>1. claims'[i] \in Claims
    BY <1>1, <1>6, Policy DEF MakeClaim, Claims
  <2>2. claims' = [j \in Id |-> claims'[j]]
    BY <1>2 DEF Kept
  <2>3. \A j \in Id : claims'[j] \in Claims \cup {Nil}
    BY <1>6, <2>1 DEF Shape
  <2> QED BY <2>2, <2>3
<1>8. /\ \A d \in Caller \ {c} : call'[d] = call[d] /\ began'[d] = began[d]
      /\ call'[c] = MakeCall("provider", i, Nil) \/ call'[c] = NoCall
      /\ call' \in [Caller -> Calls] /\ began' \in [Caller -> Int \cup {Nil}]
  BY <1>2 DEF Goes, Shape, Calls, MakeCall, NoCall, At
<1>9. Shape'
  BY <1>3, <1>4, <1>7, <1>8 DEF Shape, MakeCall, NoCall, Working
<1>10. CircuitAgrees'
  <2>1. \A j \in Probes' : j = i \/ (j \in Probes /\ Good(j, now))
    BY <1>6 DEF Probes, Rows
  <2>2. i \in Probes' => ci.state = "half_open"
    BY <1>a DEF Probes
  <2>3. \A j, k \in Probes' : j = k
    BY <1>5, <2>1, <2>2 DEF CircuitAgrees, ProbeBusy, Probes
  <2> QED BY <1>3, <1>4, <2>3 DEF CircuitAgrees, Agrees
<1>11. SlotsBounded'
  <2> DEFINE B == OfBulk(S)
             M == Active(0)'
             C == OfBulk(Active(0))'
  <2>1. /\ M \in SUBSET (S \cup {i})
        /\ c \in Bulk => C \in SUBSET (B \cup {i})
        /\ c \notin Bulk => C \in SUBSET OfBulk(Active(0))
    <3>1. \A j \in M : j = i \/ j \in S
      BY <1>6 DEF Active, Good
    <3>2. \A j \in C : j # i => j \in S /\ claims'[j] = claims[j]
      BY <1>6, <3>1 DEF Active, Good, OfBulk
    <3>3. \A j \in C : j # i => j \in Active(0) /\ claims[j].bulk /\ j \in B
      BY <3>2 DEF Active, Good, OfBulk
    <3>4. c \notin Bulk => i \notin C
      BY <1>a DEF OfBulk
    <3> QED BY <3>1, <3>3, <3>4 DEF OfBulk
  <2>2. /\ IsFiniteSet(S) /\ IsFiniteSet(B) /\ IsFiniteSet(OfBulk(Active(0)))
    <3>1. S \in SUBSET Id /\ B \in SUBSET Id /\ OfBulk(Active(0)) \in SUBSET Id
      BY DEF Active, OfBulk
    <3> QED BY <3>1, Policy, FS_Subset
  <2>3. /\ Cardinality(S) \in Nat /\ Cardinality(B) \in Nat
        /\ Cardinality(OfBulk(Active(0))) \in Nat
        /\ Cardinality(S) < TotalSlots
        /\ c \in Bulk => Cardinality(B) < BulkCap
        /\ Cardinality(OfBulk(Active(0))) <= TotalSlots - ReservedSlots
    BY <1>5, <2>2, FS_CardinalityType DEF SlotsLeft, SlotsBounded, Live
  <2>4. BulkCap \in Int /\ BulkCap <= TotalSlots - ReservedSlots
    BY Policy DEF BulkCap, Smaller, Shape
  <2> HIDE DEF S, B, M, C
  <2>a. /\ IsFiniteSet(S \cup {i}) /\ IsFiniteSet(B \cup {i})
        /\ Cardinality(S \cup {i}) = IF i \in S THEN Cardinality(S) ELSE Cardinality(S) + 1
        /\ Cardinality(B \cup {i}) = IF i \in B THEN Cardinality(B) ELSE Cardinality(B) + 1
    BY <2>2, FS_AddElement
  <2>5. /\ IsFiniteSet(S \cup {i}) /\ IsFiniteSet(B \cup {i})
        /\ Cardinality(S \cup {i}) \in Nat /\ Cardinality(B \cup {i}) \in Nat
        /\ Cardinality(S \cup {i}) <= Cardinality(S) + 1
        /\ Cardinality(B \cup {i}) <= Cardinality(B) + 1
    BY <2>3, <2>a, FS_CardinalityType
  <2>6. /\ Cardinality(M) <= Cardinality(S \cup {i}) /\ Cardinality(M) \in Nat
    BY <2>1, <2>5, FS_Subset, FS_CardinalityType
  <2>7. /\ c \in Bulk => Cardinality(C) <= Cardinality(B \cup {i}) /\ Cardinality(C) \in Nat
        /\ c \notin Bulk => /\ Cardinality(C) <= Cardinality(OfBulk(Active(0)))
                            /\ Cardinality(C) \in Nat
    BY <2>1, <2>2, <2>5, FS_Subset, FS_CardinalityType
  <2>8. /\ Cardinality(M) <= TotalSlots /\ Cardinality(C) <= TotalSlots - ReservedSlots
    BY <2>3, <2>4, <2>5, <2>6, <2>7, Policy
  <2> QED BY <2>8 DEF SlotsBounded, Live, M, C
<1>12. Owned'
  BY <1>1, <1>2, <1>8, Policy DEF Owned, MakeCall, NoCall, Holding
<1>13. Deciding'
  <2>1. SUFFICES ASSUME NEW d \in Caller, Pending(d)' PROVE circuit'.state # "closed"
    BY DEF Deciding
  <2>2. CASE d = c
    BY <1>3, <1>a, <1>8, <2>1, <2>2 DEF Pending, MakeCall, NoCall, Probes
  <2>3. CASE d # c
    <3>1. call'[d] = call[d] /\ call[d].id # i /\ call[d].id \in Probes'
      BY <1>2, <1>8, <2>1, <2>3 DEF Pending
    <3>2. call[d].id \in Probes
      BY <1>6, <3>1 DEF Probes, Rows
    <3> QED BY <1>3, <1>4, <2>1, <3>1, <3>2 DEF Deciding, Pending
  <2> QED BY <2>2, <2>3
<1> QED BY <1>9, <1>10, <1>11, <1>12, <1>13

(* Once the tables have been cleaned up, the caller that found no room     *)
(* holds no lease.                                                         *)
LEMMA CleanUpKeeps ==
  ASSUME IInv, NEW now \in Int, now <= 0, Advance(now), NEW c \in Caller,
         \/ UNCHANGED <<call, began>>
         \/ /\ call[c].at = "acquire"
            /\ Goes(c, MakeCall("poll", Nil, Nil)) \/ Goes(c, NoCall)
  PROVE  IInv'
<1> USE DEF IInv
<1>1. /\ circuit' \in Circuits /\ claims' \in [Id -> Claims \cup {Nil}]
      /\ CircuitAgrees' /\ SlotsBounded'
      /\ \A i \in Id : claims'[i] \in {claims[i], Nil}
      /\ (circuit'.state = "closed") <=> (circuit.state = "closed")
      /\ UNCHANGED bulk
  BY AdvanceKeeps DEF Advance
<1>2. /\ \A d \in Caller : \/ call'[d] = call[d] /\ began'[d] = began[d]
                          \/ /\ call'[d].at \in {"poll", "idle"} /\ call'[d].id = Nil
                             /\ call[d].id = Nil
      /\ call' \in [Caller -> Calls] /\ began' \in [Caller -> Int \cup {Nil}]
  BY DEF Goes, Shape, Calls, MakeCall, NoCall, At, Owned, Holding
<1>3. Shape'
  BY <1>1, <1>2 DEF Shape, Working
<1>4. Owned'
  BY <1>2 DEF Owned, Holding
<1>5. Deciding'
  <2>1. \A i \in Id : i \in Probes' => i \in Probes
    BY <1>1 DEF Probes, Rows
  <2>2. \A d \in Caller : Pending(d)' => Pending(d)
    BY <1>2, <2>1 DEF Pending, Probes, Rows
  <2> QED BY <1>1, <2>2 DEF Deciding
<1> QED BY <1>1, <1>3, <1>4, <1>5

(* An outcome changes the circuit and nothing of the leases.  A probe that *)
(* succeeds closes the circuit, but it was the only probe on record.       *)
LEMMA RecordKeeps ==
  ASSUME IInv, NEW c \in Caller, Record(c) PROVE IInv'
<1> USE DEF IInv
<1>1. /\ call[c].at = "record" /\ call[c].id \in Id /\ call[c].id # Nil
      /\ UNCHANGED claims
      /\ began[c] \in Int
  BY DEF Record, Shape, Owned, Holding, Calls, Working
<1>2. /\ \A d \in Caller \ {c} : call'[d] = call[d] /\ began'[d] = began[d]
      /\ call'[c] = MakeCall("release", call[c].id, Nil)
      /\ call' \in [Caller -> Calls] /\ began' \in [Caller -> Int \cup {Nil}]
  BY <1>1 DEF Record, Goes, Shape, Calls, MakeCall, At
<1>3. bulk'.limit \in Int
  <2>1. \/ bulk' = bulk \/ bulk' = Grown(c) \/ bulk' = Halved(began[c])
    BY DEF Record
  <2>2. Grown(c).limit \in Int
    BY Policy DEF Shape, Grown, MakeBulk, Smaller
  <2>3. Halved(began[c]).limit \in Int
    BY Policy DEF Shape, Halved, MakeBulk, Larger
  <2> QED BY <2>1, <2>2, <2>3 DEF Shape
<1>4. circuit \in Circuits /\ Agrees(circuit)
  BY DEF Shape, CircuitAgrees, Agrees
<1>5. \/ circuit' = circuit
      \/ call[c].id \in Rows /\ circuit' \in {AfterSuccess(c), AfterFailure(c)}
  BY <1>1 DEF Record, Verified, Good, Rows
<1>6. ProbeOf(c) /\ call[c].id \in Rows => Pending(c) /\ circuit.state # "closed"
  BY <1>1 DEF ProbeOf, Pending, Probes, Deciding
<1>7. /\ circuit' \in Circuits /\ Agrees(circuit')
      /\ (circuit'.state = "closed" /\ circuit.state # "closed") =>
           ProbeOf(c) /\ call[c].id \in Rows
  <2>1. CASE circuit' = circuit
    BY <1>4, <2>1
  <2>2. CASE call[c].id \in Rows /\ circuit' = AfterSuccess(c)
    <3>1. CASE ProbeOf(c)
      BY <2>2, <3>1, Policy DEF AfterSuccess, MakeCircuit, Circuits, Agrees
    <3>2. CASE ~ProbeOf(c)
      BY <1>4, <2>2, <3>2, Policy DEF AfterSuccess, MakeCircuit, Circuits, Agrees
    <3> QED BY <3>1, <3>2
  <2>3. CASE call[c].id \in Rows /\ circuit' = AfterFailure(c)
    <3> DEFINE f == circuit.failures
    <3>1. f \in 0..CircuitThreshold /\ began[c] + OpenFor \in Int
      BY <1>1, <1>4, Policy DEF Circuits
    <3>2. CASE ProbeOf(c) \/ f + 1 >= CircuitThreshold
      <4>1. OneMore(f) = CircuitThreshold
        BY <1>4, <1>6, <2>3, <3>1, <3>2, Policy DEF OneMore, Smaller, Agrees
      <4>2. AfterFailure(c) = Opened(began[c], OneMore(f))
        BY <3>1, <3>2, Policy DEF AfterFailure
      <4>3. circuit' = Opened(began[c], CircuitThreshold)
        BY <2>3, <4>1, <4>2
      <4> QED BY <3>1, <4>3, Policy DEF Opened, MakeCircuit, Circuits, Agrees
    <3>3. CASE ~ProbeOf(c) /\ f + 1 < CircuitThreshold
      BY <1>4, <2>3, <3>1, <3>3, Policy DEF AfterFailure, MakeCircuit, Circuits, Agrees
    <3> QED BY <3>1, <3>2, <3>3, Policy
  <2> QED BY <1>5, <2>1, <2>2, <2>3
<1>8. Shape' /\ Owned'
  <2>1. Shape'
    BY <1>1, <1>2, <1>3, <1>7 DEF Shape, MakeCall, Working
  <2>2. Owned'
    BY <1>1, <1>2 DEF Owned, MakeCall, Holding
  <2> QED BY <2>1, <2>2
<1>9. Probes' = Probes /\ Rows' = Rows /\ SlotsBounded'
  BY <1>1 DEF Probes, Rows, SlotsBounded, Live, Active, OfBulk, Good
<1>10. CircuitAgrees'
  BY <1>7, <1>9 DEF CircuitAgrees, Agrees
<1>11. Deciding'
  <2>1. SUFFICES ASSUME NEW d \in Caller, Pending(d)', circuit'.state = "closed"
                 PROVE  FALSE
    BY DEF Deciding
  <2>2. d # c /\ Pending(d)
    BY <1>2, <1>9, <2>1 DEF Pending, MakeCall
  <2>3. circuit.state # "closed"
    BY <2>2 DEF Deciding
  <2>4. call[c].id \in Probes
    BY <1>7, <2>1, <2>3 DEF ProbeOf, Probes
  <2>5. call[d].id = call[c].id
    BY <2>2, <2>4 DEF Pending, CircuitAgrees
  <2> QED BY <1>1, <2>2, <2>5 DEF Owned
<1> QED BY <1>8, <1>9, <1>10, <1>11

LEMMA ReleaseKeeps ==
  ASSUME IInv, NEW c \in Caller, Release(c) PROVE IInv'
<1> USE DEF IInv
<1>1. /\ \A i \in Id : claims'[i] \in {claims[i], Nil}
      /\ claims' \in [Id -> Claims \cup {Nil}]
      /\ UNCHANGED <<circuit, bulk>>
  BY DEF Release, Shape
<1>2. /\ \A d \in Caller \ {c} : call'[d] = call[d] /\ began'[d] = began[d]
      /\ call'[c] = NoCall
      /\ call' \in [Caller -> Calls] /\ began' \in [Caller -> Int \cup {Nil}]
  BY DEF Release, Goes, Shape, Calls, MakeCall, NoCall, At
<1>3. Shape'
  BY <1>1, <1>2 DEF Shape, NoCall, MakeCall, Working
<1>4. SlotsBounded'
  <2>1. \A i \in Id : Good(i, 0)' => Good(i, 0) /\ claims'[i].bulk = claims[i].bulk
    BY <1>1 DEF Good
  <2> QED BY <2>1, Shrinks
<1>5. \A i \in Id : i \in Probes' => i \in Probes
  BY <1>1 DEF Probes, Rows
<1>6. CircuitAgrees'
  BY <1>1, <1>5 DEF CircuitAgrees, Probes, Rows
<1>7. Owned'
  BY <1>2 DEF Owned, NoCall, MakeCall, Holding
<1>8. Deciding'
  BY <1>1, <1>2, <1>5 DEF Deciding, Pending, NoCall, MakeCall, Probes, Rows
<1> QED BY <1>3, <1>4, <1>6, <1>7, <1>8

(* Time only takes leases away.                                            *)
LEMMA TickKeeps ==
  ASSUME IInv, Tick PROVE IInv'
<1> USE DEF IInv
<1>1. /\ UNCHANGED call
      /\ circuit'.state = circuit.state /\ circuit'.failures = circuit.failures
      /\ (circuit'.until = Nil) <=> (circuit.until = Nil)
      /\ circuit' \in Circuits
  BY Policy DEF Tick, MakeCircuit, Older, Larger, Shape, Circuits
<1>2. bulk'.limit = bulk.limit
  BY DEF Tick, MakeBulk
<1>3. \A i \in Id : \/ claims'[i] = Nil /\ claims[i] = Nil
                    \/ /\ claims[i] # Nil /\ claims'[i] # Nil
                       /\ claims'[i] \in Claims
                       /\ claims'[i].bulk = claims[i].bulk
                       /\ claims'[i].probe = claims[i].probe
                       /\ claims'[i].until > 0 => claims[i].until > 0
  <2>1. SUFFICES ASSUME NEW i \in Id, claims[i] # Nil
                 PROVE  /\ claims'[i] # Nil /\ claims'[i] \in Claims
                        /\ claims'[i].bulk = claims[i].bulk
                        /\ claims'[i].probe = claims[i].probe
                        /\ claims'[i].until > 0 => claims[i].until > 0
    BY DEF Tick
  <2>2. claims[i] \in Claims
    BY <2>1 DEF Shape
  <2>3. claims'[i] = MakeClaim(claims[i].bulk, claims[i].probe, Older(claims[i].until, -MaxLag))
    BY <2>1 DEF Tick
  <2>4. /\ Older(claims[i].until, -MaxLag) \in Int
        /\ Older(claims[i].until, -MaxLag) > 0 => claims[i].until > 0
    BY <2>2, Policy DEF Claims, Older, Larger
  <2>5. claims'[i] \in Claims
    BY <2>2, <2>3, <2>4 DEF MakeClaim, Claims
  <2>6. claims'[i] # Nil
    BY <2>5, Policy
  <2> QED BY <2>2, <2>3, <2>4, <2>5, <2>6 DEF MakeClaim
<1>4. claims' \in [Id -> Claims \cup {Nil}]
  BY <1>3 DEF Tick
<1>5. began' \in [Caller -> Int \cup {Nil}]
      /\ \A c \in Caller : call[c].at \in Working => began'[c] \in Int /\ began'[c] <= 0
  BY Policy DEF Tick, Older, Larger, Shape
<1>6. Shape'
  BY <1>1, <1>2, <1>4, <1>5 DEF Shape
<1>7. Probes' = Probes
  BY <1>3 DEF Probes, Rows
<1>8. SlotsBounded'
  <2>1. \A i \in Id : Good(i, 0)' => Good(i, 0) /\ claims'[i].bulk = claims[i].bulk
    BY <1>3 DEF Good
  <2> QED BY <2>1, Shrinks
<1>9. CircuitAgrees' /\ Owned' /\ Deciding'
  BY <1>1, <1>7 DEF CircuitAgrees, Owned, Deciding, Pending
<1> QED BY <1>6, <1>8, <1>9

LEMMA StepKeeps == IInv /\ [Next]_vars => IInv'
<1> SUFFICES ASSUME IInv, [Next]_vars PROVE IInv'
  OBVIOUS
<1>1. ASSUME NEW c \in Caller, Ask(c) PROVE IInv'
  <2>1. MakeCall("acquire", Nil, Nil) \in Calls
    BY DEF MakeCall, Calls, At
  <2> QED BY <1>1, <2>1, CallMoves DEF Ask, MakeCall, Holding
<1>2. ASSUME NEW c \in Caller, Refuse(c) PROVE IInv'
  <2>1. call[c].at = "acquire" /\ began[c] \in Int /\ began[c] <= 0
    BY <1>2 DEF Refuse, IInv, Shape, Working
  <2> QED BY <1>2, <2>1, CleanUpKeeps DEF Refuse
<1>3. ASSUME NEW c \in Caller, Replied(c) PROVE IInv'
  <2>1. PICK reply \in Reply :
          Goes(c, MakeCall(IF reply = "rejected" THEN "release" ELSE "record",
                           call[c].id, reply))
    BY <1>3 DEF Replied
  <2> DEFINE next == MakeCall(IF reply = "rejected" THEN "release" ELSE "record",
                              call[c].id, reply)
  <2>2. /\ call[c].at = "provider" /\ call[c].id \in Id \cup {Nil} /\ call[c].id # Nil
    BY <1>3 DEF Replied, IInv, Shape, Calls, Owned, Holding
  <2>3. /\ next \in Calls /\ next.at \in Holding /\ next.id = call[c].id
    BY <2>2 DEF MakeCall, Calls, At, Holding
  <2> QED BY <1>3, <2>1, <2>2, <2>3, CallMoves DEF Replied
<1>4. ASSUME NEW c \in Caller, Unavailable(c) PROVE IInv'
  <2>1. PICK next \in {NoCall, MakeCall("release", call[c].id, Nil)} :
          /\ Goes(c, next)
          /\ next # NoCall => call[c].at = "record"
    BY <1>4 DEF Unavailable
  <2>2. /\ call[c].at = "record" => call[c].id # Nil
        /\ call[c].id \in Id \cup {Nil}
    BY DEF IInv, Shape, Calls, Owned, Holding
  <2>3. /\ next \in Calls /\ next.id \in {Nil, call[c].id}
        /\ next.at \in Holding <=> next.id # Nil
        /\ next.at \notin {"provider", "record"}
    BY <2>1, <2>2 DEF NoCall, MakeCall, Calls, At, Holding
  <2> QED BY <1>4, <2>1, <2>3, CallMoves DEF Unavailable
<1>5. ASSUME NEW c \in Caller, Crash(c) PROVE IInv'
  <2>1. NoCall \in Calls /\ NoCall.id = Nil /\ NoCall.at = "idle"
    BY DEF NoCall, MakeCall, Calls, At
  <2> QED BY <1>5, <2>1, CallMoves DEF Crash, Holding
<1>6. ASSUME Snapshot PROVE IInv'
  <2>1. PICK now \in Began : Advance(now)
    BY <1>6 DEF Snapshot
  <2>2. now \in Int /\ now <= 0
    BY Policy DEF Began
  <2>3. CASE Caller = {}
    BY <1>6, <2>1, <2>2, <2>3, AdvanceKeeps
       DEF IInv, Shape, Owned, Deciding, Snapshot, Advance
  <2>4. CASE \E c \in Caller : TRUE
    BY <1>6, <2>1, <2>2, <2>4, CleanUpKeeps DEF Snapshot
  <2> QED BY <2>3, <2>4
<1>7. ASSUME UNCHANGED vars PROVE IInv'
  BY <1>7 DEF vars, IInv, Shape, CircuitAgrees, SlotsBounded, Live, Active, OfBulk, Good,
              Owned, Deciding, Pending, Probes, Rows
<1> QED BY <1>1, <1>2, <1>3, <1>4, <1>5, <1>6, <1>7, GrantKeeps, RecordKeeps, ReleaseKeeps,
           TickKeeps DEF Next

THEOREM Invariant == Spec => []IInv
BY InitHolds, StepKeeps, PTL DEF Spec

(* However many processes share the provider, whatever they crash in and   *)
(* however long their transactions wait for the row, no more than          *)
(* total_slots leases are good at a time, nor more of bulk than leave the  *)
(* interactive slots free.                                                 *)
THEOREM SlotsAreBounded == Spec => []SlotsBounded
<1>1. IInv => SlotsBounded
  BY DEF IInv
<1> QED BY <1>1, Invariant, PTL

(* The circuit's columns agree, and a circuit that is not closed is closed *)
(* by a probe that succeeded and by nothing else.                          *)
LEMMA AdvanceDecides ==
  ASSUME Shape, CircuitAgrees, NEW now \in Int, now <= 0, circuit' = AdvancedCircuit(now)
  PROVE  CircuitDecided
<1>1. circuit.state # "closed" => circuit'.state # "closed"
  BY DEF AdvancedCircuit, Cooled, Reopened, Opened, MakeCircuit
<1>2. \A i \in Probes : claims[i].until \in Int /\ claims[i].probe
  BY Policy DEF Shape, Probes, Rows, Claims
<1>3. ASSUME circuit.state = "half_open", circuit'.state = "open"
      PROVE  \E i \in Probes : claims[i].until <= 0
  <2>1. PICK i \in Rows : ~Good(i, now) /\ claims[i].probe
    BY <1>3 DEF AdvancedCircuit, Cooled, Reopened
  <2>2. i \in Probes
    BY <2>1 DEF Probes
  <2> QED BY <1>2, <2>1, <2>2 DEF Good, Rows
<1>4. ASSUME circuit.state = "open", circuit'.state = "half_open"
      PROVE  circuit.until <= 0
  <2>1. circuit.until <= now
    BY <1>4 DEF AdvancedCircuit, Cooled, Reopened, MakeCircuit
  <2>2. circuit.until \in Int
    BY <1>4 DEF CircuitAgrees, Shape, Circuits
  <2> QED BY <2>1, <2>2
<1> QED BY <1>1, <1>3, <1>4 DEF CircuitDecided

LEMMA StepDecides == IInv /\ [Next]_vars => [CircuitDecided]_circuit
<1> SUFFICES ASSUME IInv, Next, circuit' # circuit PROVE CircuitDecided
  BY DEF vars
<1>1. ASSUME NEW c \in Caller, Grant(c) \/ Refuse(c) PROVE CircuitDecided
  <2>1. began[c] \in Int /\ began[c] <= 0
    BY <1>1 DEF Grant, Refuse, IInv, Shape, Working
  <2>2. circuit' = AdvancedCircuit(began[c])
    BY <1>1 DEF Grant, Refuse, Advance
  <2> QED BY <2>1, <2>2, AdvanceDecides DEF IInv
<1>2. ASSUME NEW c \in Caller, Record(c) PROVE CircuitDecided
  <2>1. call[c].at = "record" /\ call'[c].at = "release"
    BY <1>2 DEF Record, Goes, MakeCall, IInv, Shape
  <2>2. \/ Reports(c, "success") /\ circuit' = AfterSuccess(c)
        \/ Reports(c, "failure") /\ circuit' = AfterFailure(c)
    BY <1>2, <2>1 DEF Record, Reports
  <2>3. CASE Reports(c, "success") /\ circuit' = AfterSuccess(c)
    BY <2>3 DEF AfterSuccess, MakeCircuit, CircuitDecided
  <2>4. CASE Reports(c, "failure") /\ circuit' = AfterFailure(c)
    BY <2>4 DEF AfterFailure, Opened, MakeCircuit, CircuitDecided
  <2> QED BY <2>2, <2>3, <2>4
<1>3. ASSUME Snapshot PROVE CircuitDecided
  <2>1. PICK now \in Began : circuit' = AdvancedCircuit(now)
    BY <1>3 DEF Snapshot, Advance
  <2> QED BY <2>1, Policy, AdvanceDecides DEF Began, IInv
<1>4. ASSUME Tick PROVE CircuitDecided
  BY <1>4 DEF Tick, MakeCircuit, CircuitDecided
<1> QED BY <1>1, <1>2, <1>3, <1>4
       DEF Next, Ask, Replied, Unavailable, Release, Crash

(* The columns of the circuit agree, and what is known of a circuit that   *)
(* is not closed is decided by a probe: it closes by nothing else.         *)
THEOREM CircuitIsTruthful == Spec => CircuitTruthful
<1>1. IInv => CircuitAgrees
  BY DEF IInv
<1>2. IInv /\ [Next]_vars => [CircuitDecided]_circuit
  BY StepDecides
<1> QED BY <1>1, <1>2, Invariant, PTL DEF Spec, CircuitTruthful

-----------------------------------------------------------------------------
(* The quota of the present window.                                        *)

(* What is used beyond what interactive callers were granted was granted   *)
(* to bulk callers, who never get at the reserve.                          *)
Reserved(qu, sp) ==
  /\ qu.requests \in Nat /\ qu.tokens \in Nat
  /\ sp.requests \in Nat /\ sp.tokens \in Nat
  /\ qu.requests - sp.requests <= Requests - ReservedRequests
  /\ qu.tokens - sp.tokens <= Tokens - ReservedTokens

ReserveKept == Reserved(quota, spent)

LEMMA QuotaPolicy ==
  /\ Requests \in Nat /\ ReservedRequests \in Nat /\ ReservedRequests < Requests
  /\ Tokens \in Nat /\ ReservedTokens \in Nat /\ ReservedTokens < Tokens
  /\ \A c \in Caller : Estimate[c] \in Nat /\ 1 <= Estimate[c] /\ Estimate[c] <= Tokens
<1>1. Requests \in Nat \ {0} /\ ReservedRequests \in Nat /\ Tokens \in Nat /\ ReservedTokens \in Nat
  BY PolicyAssumption
<1>2. ReservedRequests < Requests /\ ReservedTokens < Tokens
  BY PolicyAssumption
<1>3. \A c \in Caller : Estimate[c] \in 1..Tokens
  BY PolicyAssumption
<1> QED BY <1>1, <1>2, <1>3

(* A new window starts the account afresh.                                 *)
LEMMA WindowReserved ==
  ASSUME ReserveKept, NEW now
  PROVE  /\ Reserved(AdvancedQuota(now), AdvancedSpent(now))
         /\ NewWindow(now) => /\ AdvancedQuota(now).requests = 0
                              /\ AdvancedQuota(now).tokens = 0
         /\ ~NewWindow(now) => AdvancedQuota(now) = quota
<1>1. CASE NewWindow(now)
  <2>1. /\ AdvancedQuota(now) = MakeQuota(now, 0, 0)
        /\ AdvancedSpent(now) = [requests |-> 0, tokens |-> 0]
    BY <1>1 DEF AdvancedQuota, AdvancedSpent
  <2> QED BY <1>1, <2>1, QuotaPolicy DEF MakeQuota, Reserved
<1>2. CASE ~NewWindow(now)
  BY <1>2 DEF AdvancedQuota, AdvancedSpent, ReserveKept
<1> QED BY <1>1, <1>2

LEMMA GrantReserved ==
  ASSUME ReserveKept, NEW c \in Caller, Grant(c)
  PROVE  ReserveKept'
<1> DEFINE qu == AdvancedQuota(began[c])
           sp == AdvancedSpent(began[c])
<1>1. Reserved(qu, sp)
  BY WindowReserved
<1>2. /\ qu.requests + 1 <= Cap(c).requests
      /\ qu.tokens + Estimate[c] <= Cap(c).tokens
  BY DEF Grant, Admission
<1>3. /\ quota' = MakeQuota(qu.started, qu.requests + 1, qu.tokens + Estimate[c])
      /\ spent' = IF c \in Bulk THEN sp
                  ELSE [requests |-> sp.requests + 1, tokens |-> sp.tokens + Estimate[c]]
  BY DEF Grant
<1> HIDE DEF qu, sp
<1>4. quota'.requests = qu.requests + 1 /\ quota'.tokens = qu.tokens + Estimate[c]
  BY <1>3 DEF MakeQuota
<1>5. CASE c \in Bulk
  BY <1>1, <1>2, <1>3, <1>4, <1>5, QuotaPolicy DEF Reserved, ReserveKept, Cap
<1>6. CASE c \notin Bulk
  <2>1. spent'.requests = sp.requests + 1 /\ spent'.tokens = sp.tokens + Estimate[c]
    BY <1>3, <1>6
  <2> QED BY <1>1, <1>4, <2>1, QuotaPolicy DEF Reserved, ReserveKept
<1> QED BY <1>5, <1>6

LEMMA StepReserved == ReserveKept /\ [Next]_vars => ReserveKept'
<1> SUFFICES ASSUME ReserveKept, [Next]_vars PROVE ReserveKept'
  OBVIOUS
<1>1. ASSUME NEW now, Advance(now) PROVE ReserveKept'
  BY <1>1, WindowReserved DEF Advance, ReserveKept
<1>2. ASSUME Tick PROVE ReserveKept'
  BY <1>2 DEF Tick, MakeQuota, ReserveKept, Reserved
<1>3. ASSUME UNCHANGED <<quota, spent>> PROVE ReserveKept'
  BY <1>3 DEF ReserveKept
<1> QED
  BY <1>1, <1>2, <1>3, GrantReserved DEF Next, vars, Ask, Refuse, Replied, Record,
     Unavailable, Release, Crash, Snapshot

(* An interactive caller that asks now is not held up by bulk callers:     *)
(* while the circuit is closed, fewer than reserved_interactive_slots of   *)
(* its workload are good and the reserved quota is not spent on it, it is  *)
(* admitted, in a window of any age and after any late outcome.            *)
THEOREM InteractiveIsServed == Spec => []InteractiveServed
<1>1. Init => ReserveKept
  BY QuotaPolicy DEF Init, MakeQuota, ReserveKept, Reserved
<1>2. IInv /\ ReserveKept => InteractiveServed
  <2> SUFFICES ASSUME IInv, ReserveKept, NEW c \in Caller \ Bulk,
                      circuit.state = "closed",
                      Cardinality(Live \ OfBulk(Live)) < ReservedSlots,
                      spent.requests < ReservedRequests,
                      spent.tokens + Estimate[c] <= ReservedTokens
               PROVE  Admission(c, 0) = "ready"
    BY DEF InteractiveServed
  <2>1. AdvancedCircuit(0).state = "closed"
    BY AdvanceAgrees DEF IInv
  <2>2. /\ AdvancedQuota(0).requests + 1 <= Cap(c).requests
        /\ AdvancedQuota(0).tokens + Estimate[c] <= Cap(c).tokens
    <3>1. Cap(c) = [requests |-> Requests, tokens |-> Tokens]
      BY DEF Cap
    <3>2. CASE NewWindow(0)
      BY <3>1, <3>2, WindowReserved, QuotaPolicy
    <3>3. CASE ~NewWindow(0)
      <4>1. AdvancedQuota(0) = quota
        BY <3>3, WindowReserved
      <4> QED BY <3>1, <4>1, QuotaPolicy DEF ReserveKept, Reserved
    <3> QED BY <3>2, <3>3
  <2>3. SlotsLeft(c, 0)
    <3> DEFINE B == OfBulk(Live)
               R == Live \ B
    <3>1. IsFiniteSet(Live) /\ B \subseteq Live /\ Live = B \cup R /\ B \cap R = {}
      BY Policy, FS_Subset DEF Live, Active, OfBulk
    <3>2. IsFiniteSet(B) /\ IsFiniteSet(R)
      BY <3>1, FS_Subset
    <3>3. Cardinality(Live) = Cardinality(B) + Cardinality(R)
      <4>1. Cardinality(B \cap R) = 0
        BY <3>1, FS_EmptySet
      <4>2. /\ Cardinality(B) \in Nat /\ Cardinality(R) \in Nat
            /\ Cardinality(B \cup R) = Cardinality(B) + Cardinality(R) - Cardinality(B \cap R)
        BY <3>2, FS_CardinalityType, FS_Union
      <4> HIDE DEF B, R
      <4> QED BY <3>1, <4>1, <4>2
    <3>4. Cardinality(B) \in Nat /\ Cardinality(R) \in Nat
      BY <3>2, FS_CardinalityType
    <3>5. Cardinality(B) <= TotalSlots - ReservedSlots /\ Cardinality(R) < ReservedSlots
      BY DEF IInv, SlotsBounded
    <3> HIDE DEF B, R
    <3>6. Cardinality(Live) < TotalSlots
      BY <3>3, <3>4, <3>5, Policy
    <3> QED BY <3>6 DEF SlotsLeft, Live
  <2>4. ~ProbeBusy(AdvancedCircuit(0), 0)
    BY <2>1 DEF ProbeBusy
  <2> QED BY <2>1, <2>2, <2>3, <2>4 DEF Admission
<1> QED BY <1>1, <1>2, Invariant, StepReserved, PTL DEF Spec
===============================================================================
