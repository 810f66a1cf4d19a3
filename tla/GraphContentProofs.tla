---------------------------- MODULE GraphContentProofs ----------------------------
(***************************************************************************)
(* Proofs about what enters the knowledge graph.                           *)
(*                                                                         *)
(* FactGraph and the calls of OpenAIFactExtractor it runs on, for every    *)
(* number of callers, fragments and attempts, every body a provider may    *)
(* answer with, and every output a body may hold: an answer is paid for    *)
(* once and taken only whole, a valid batch can be projected, and the      *)
(* graph is the merge of the batches that were accepted.                   *)
(*                                                                         *)
(* AgeWriter, for every number of writers, batches, keys and items, every  *)
(* content of the batches and every lock order: the concurrent             *)
(* transactions produce a merge of whole batches, and what an answer says  *)
(* is never undone.                                                        *)
(***************************************************************************)
EXTENDS FactGraph, AgeWriter, WellFoundedInduction, TLAPS

(* Calls, by where they are: an attempt starts without a 2xx reply, every  *)
(* such reply but the one at hand was lost to the coordinator, and what is *)
(* traced or written has been decoded.                                     *)
Starting == {"credential", "slot", "provider", "sleep"}
CallType ==
  [at : At, binding : Binding \cup {None}, fragment : Fragment \cup {None}, attempt : Nat,
   reply : Replies \cup {NoReply}, paid : Nat, lost : Nat]
CallOK(k) ==
  /\ k \in CallType
  /\ k.paid <= k.lost + (IF Answered(k.reply) THEN 1 ELSE 0)
  /\ k.at \in Starting => ~Answered(k.reply)
  /\ k.at # "idle" => k.binding \in Binding /\ k.fragment \in Fragment
  /\ k.at \in {"trace", "write"} =>
       /\ k.reply.kind = "ok"
       /\ Decoded(k.binding, k.reply.body) \notin Code
CallsOK == /\ call \in [Caller -> CallType]
           /\ \A c \in Caller : CallOK(call[c])

(* A reply to an attempt, and the error that takes its place.              *)
LEMMA ReplyKinds ==
  /\ ~Answered(NoReply) /\ NoReply.kind # "ok"
  /\ \A r \in Replies : r.kind = "ok" => r.body \in Body
BY DEF NoReply, MakeReply, Replies, Answered

(* No call, or one more that is as it should be.                           *)
LEMMA NoCallOK == CallOK(NoCall)
BY ReplyKinds DEF NoCall, MakeCall, CallOK, CallType, At, Starting

LEMMA OneCall ==
  ASSUME CallsOK, NEW c \in Caller, NEW k, CallOK(k), call' = [call EXCEPT ![c] = k]
  PROVE  CallsOK'
<1> HIDE DEF CallType
<1>1. k \in CallType
  BY DEF CallOK
<1> QED
  BY <1>1 DEF CallsOK

(* Every step of a call keeps it so.                                       *)
LEMMA CallStepKeeps ==
  ASSUME CallsOK, NEW c \in Caller, CallStep(c)
  PROVE  CallsOK'
<1> DEFINE k == call[c]
<1>k. /\ CallOK(k) /\ k \in CallType
      /\ \A v : call' = [call EXCEPT ![c] = v] /\ CallOK(v) => CallsOK'
  BY OneCall DEF CallsOK
<1>e. Ends(c) => CallsOK'
  BY <1>k, NoCallOK DEF Ends
<1>m. ASSUME NEW at \in At, CallOK([k EXCEPT !.at = at]), Moves(c, at)
      PROVE  CallsOK'
  <2>1. call' = [call EXCEPT ![c] = [k EXCEPT !.at = at]]
    BY <1>m DEF Moves
  <2> QED
    BY <2>1, <1>k, <1>m
<1> HIDE DEF k
<1> USE DEF CallOK, CallType, Starting, At
<1>1. CASE Credential(c)
  <2>1. k.at = "credential"
    BY <1>1 DEF Credential, k
  <2>2. CallOK([k EXCEPT !.at = "slot"]) /\ CallOK([k EXCEPT !.at = "provider"])
    BY <2>1, <1>k
  <2> QED
    BY <1>1, <1>e, <1>m, <2>2 DEF Credential
<1>f. ASSUME NEW at \in {"release", "decide"}, Fails(c, at), k.at # "idle"
      PROVE  CallsOK'
  <2> DEFINE v == MakeCall(at, k.binding, k.fragment, k.attempt, NoReply, k.paid + 0,
                           k.lost + (IF Answered(k.reply) THEN 1 ELSE 0))
  <2>1. CallOK(v)
    BY <1>f, <1>k, ReplyKinds DEF MakeCall
  <2>2. call' = [call EXCEPT ![c] = v]
    BY <1>f DEF Fails, Turns, k
  <2> QED
    BY <2>1, <2>2, <1>k
<1>2. CASE Admit(c)
  <2>1. k.at = "slot"
    BY <1>2 DEF Admit, k
  <2>2. CallOK([k EXCEPT !.at = "provider"])
    BY <2>1, <1>k
  <2> DEFINE v == MakeCall("decide", k.binding, k.fragment, k.attempt, NoReply, k.paid + 0,
                           k.lost + 0)
  <2>3. CallOK(v)
    BY <2>1, <1>k, ReplyKinds DEF MakeCall
  <2>4. Turns(c, "decide", NoReply, 0, 0) => call' = [call EXCEPT ![c] = v]
    BY DEF Turns, k
  <2> QED
    BY <1>2, <1>k, <1>m, <2>2, <2>3, <2>4 DEF Admit
<1>3. CASE Post(c)
  <2>1. PICK r \in Replies : Turns(c, After(r.kind), r, IF Answered(r) THEN 1 ELSE 0, 0)
    BY <1>3 DEF Post
  <2> DEFINE v == MakeCall(After(r.kind), k.binding, k.fragment, k.attempt, r,
                           k.paid + (IF Answered(r) THEN 1 ELSE 0), k.lost + 0)
  <2>2. k.at = "provider"
    BY <1>3 DEF Post, k
  <2>3. After(r.kind) \in {"decide", "release", "report"}
    BY DEF After
  <2>4. CallOK(v)
    BY <2>2, <2>3, <1>k DEF MakeCall
  <2>5. call' = [call EXCEPT ![c] = v]
    BY <2>1 DEF Turns, k
  <2> QED
    BY <2>4, <2>5, <1>k
<1>4. CASE Report(c)
  <2>1. k.at = "report"
    BY <1>4 DEF Report, k
  <2>2. CallOK([k EXCEPT !.at = "release"])
    BY <2>1, <1>k
  <2> QED
    BY <1>4, <1>m, <1>f, <2>1, <2>2 DEF Report
<1>5. CASE Release(c)
  <2>1. k.at = "release"
    BY <1>5 DEF Release, k
  <2>2. CallOK([k EXCEPT !.at = "decide"])
    BY <2>1, <1>k
  <2> QED
    BY <1>5, <1>m, <1>f, <2>1, <2>2 DEF Release
<1>6. CASE Decide(c)
  <2>1. k.at = "decide"
    BY <1>6 DEF Decide, k
  <2>2. CASE Again(c) /\ Moves(c, "sleep")
    <3>1. CallOK([k EXCEPT !.at = "sleep"])
      BY <2>1, <2>2, <1>k DEF Again, Answered, k
    <3> QED
      BY <3>1, <2>2, <1>m
  <2>3. CASE /\ Moves(c, "trace") /\ k.reply.kind = "ok"
             /\ Decoded(k.binding, k.reply.body) \notin Code
    <3>1. CallOK([k EXCEPT !.at = "trace"])
      BY <2>1, <2>3, <1>k
    <3> QED
      BY <3>1, <2>3, <1>m
  <2> QED
    BY <1>6, <2>2, <2>3, <1>e DEF Decide, k
<1>7. CASE Wake(c)
  <2>1. k.at = "sleep"
    BY <1>7 DEF Wake, k
  <2>2. Counted(c) = k.attempt + 1
    BY DEF Counted, k
  <2> DEFINE v == MakeCall("credential", k.binding, k.fragment, Counted(c), k.reply,
                           k.paid, k.lost)
  <2>3. CallOK(v)
    BY <2>1, <2>2, <1>k DEF MakeCall
  <2>4. call' = [call EXCEPT ![c] = v]
    BY <1>7 DEF Wake, k
  <2> QED
    BY <1>k, <2>3, <2>4
<1>8. CASE Trace(c)
  <2>1. k.at = "trace"
    BY <1>8 DEF Trace, k
  <2>2. CallOK([k EXCEPT !.at = "write"])
    BY <2>1, <1>k
  <2> QED
    BY <1>8, <1>e, <1>m, <2>2 DEF Trace
<1> QED
  BY <1>1, <1>2, <1>3, <1>4, <1>5, <1>6, <1>7, <1>8 DEF CallStep

(* The invariant of the calls.                                             *)
LEMMA CallsInvariant == FactSpec => []CallsOK
<1>1. FactInit => CallsOK
  BY NoCallOK DEF FactInit, CallsOK, CallOK
<1>2. CallsOK /\ [FactNext]_factVars => CallsOK'
  <2> SUFFICES ASSUME CallsOK, [FactNext]_factVars PROVE CallsOK'
    OBVIOUS
  <2>1. CASE UNCHANGED factVars
    BY <2>1 DEF factVars, CallsOK
  <2>2. ASSUME NEW c \in Caller, NEW b \in Binding, NEW f \in Fragment, Begin(c, b, f)
        PROVE  CallsOK'
    <3> DEFINE v == MakeCall("credential", b, f, 1, NoReply, 0, 0)
    <3>1. CallOK(v)
      BY ReplyKinds DEF MakeCall, CallOK, CallType, At, Starting
    <3> QED
      BY <3>1, <2>2, OneCall DEF Begin
  <2>3. ASSUME NEW c \in Caller, CallStep(c) PROVE CallsOK'
    BY <2>3, CallStepKeeps
  <2>4. ASSUME NEW c \in Caller, Ends(c) PROVE CallsOK'
    BY <2>4, NoCallOK, OneCall DEF Ends
  <2> QED
    BY <2>1, <2>2, <2>3, <2>4 DEF FactNext, Cancel, Write
<1> QED
  BY <1>1, <1>2, PTL DEF FactSpec

(* An answer is paid for once, but for those the coordinator lost.         *)
THEOREM AnswersPaidOnce == FactSpec => []PaidOnce
<1>1. CallsOK => PaidOnce
  <2> SUFFICES ASSUME CallsOK, NEW c \in Caller PROVE call[c].paid <= call[c].lost + 1
    BY DEF PaidOnce
  <2>1. CallOK(call[c]) /\ call[c].paid \in Nat /\ call[c].lost \in Nat
    BY DEF CallsOK, CallType
  <2> QED
    BY <2>1 DEF CallOK
<1> QED
  BY <1>1, CallsInvariant, PTL
-----------------------------------------------------------------------------
(* The first of a set of places of a sequence is one of them.              *)
LEMMA First ==
  ASSUME NEW S \in SUBSET Nat, S # {}
  PROVE  (CHOOSE i \in S : \A k \in S : i <= k) \in S
<1>1. PICK i \in S : \A k \in S : ~(<<k, i>> \in OpToRel(<, Nat))
  BY NatLessThanWellFounded, WFMin
<1>2. \A k \in S : ~(k < i)
  BY <1>1 DEF OpToRel
<1>3. \A k \in S : i <= k
  BY <1>2
<1> QED
  BY <1>3

(* What an item or a part is refused for is one of the codes.              *)
LEMMA Codes ==
  /\ None \notin Code /\ None # "refused" /\ None # "invalid_response"
  /\ None # "tool_calls_forbidden" /\ None # "incomplete" /\ None # "markdown_forbidden"
BY ExtractorAssumption DEF Code

LEMMA CleanParts ==
  ASSUME NEW parts, DOMAIN parts = 1..Len(parts), Len(parts) \in Nat
  PROVE  /\ PartOffence(parts) \in Code \cup {None}
         /\ PartOffence(parts) = None => \A j \in DOMAIN parts : parts[j] # "refusal"
BY Codes DEF PartOffence, Code

LEMMA ItemCodes ==
  ASSUME NEW b \in Body, NEW i \in DOMAIN b.items
  PROVE  /\ Offence(b.items, i) \in Code \cup {None}
         /\ Offence(b.items, i) = None =>
              /\ b.items[i].kind \in {"reasoning", "message"}
              /\ b.items[i].kind = "message" =>
                   /\ \A j \in 1..i - 1 : b.items[j].kind # "message"
                   /\ \A j \in DOMAIN b.items[i].parts : b.items[i].parts[j] # "refusal"
<1> DEFINE items == b.items  parts == items[i].parts
<1>1. /\ items[i].kind \in {"reasoning", "tool", "message", "other"}
      /\ DOMAIN parts = 1..Len(parts) /\ Len(parts) \in Nat
  BY ExtractorAssumption
<1>2. /\ PartOffence(parts) \in Code \cup {None}
      /\ PartOffence(parts) = None => \A j \in DOMAIN parts : parts[j] # "refusal"
  BY <1>1, CleanParts
<1> HIDE DEF parts
<1>3. Offence(items, i) =
        CASE items[i].kind = "reasoning" -> None
          [] items[i].kind = "tool" -> "tool_calls_forbidden"
          [] \/ items[i].kind = "other"
             \/ items[i].kind = "message" /\ \E j \in 1..i - 1 : items[j].kind = "message" ->
               "invalid_response"
          [] OTHER -> IF parts = <<>> THEN "invalid_response" ELSE PartOffence(parts)
  BY DEF Offence, parts
<1> HIDE DEF items
<1> DEFINE second == items[i].kind = "message" /\ \E j \in 1..i - 1 : items[j].kind = "message"
<1>4. /\ items[i].kind = "reasoning" => Offence(items, i) = None
      /\ items[i].kind = "tool" => Offence(items, i) = "tool_calls_forbidden"
      /\ items[i].kind = "other" \/ second => Offence(items, i) = "invalid_response"
      /\ items[i].kind = "message" /\ ~second =>
           Offence(items, i) \in {"invalid_response", PartOffence(parts)}
  BY <1>3
<1> HIDE DEF second
<1>5. /\ Offence(items, i) \in Code \cup {None}
      /\ Offence(items, i) = None =>
           \/ items[i].kind = "reasoning"
           \/ items[i].kind = "message" /\ ~second /\ PartOffence(parts) = None
  BY <1>1, <1>2, <1>4, Codes DEF Code, items
<1> QED
  BY <1>1, <1>2, <1>5 DEF items, parts, second

(* The text of an answer without an offence is the one message it has.     *)
LEMMA OneMessage ==
  ASSUME NEW b \in Body, \A i \in DOMAIN b.items : Offence(b.items, i) = None
  PROVE  /\ \A i, j \in Messages(b) : i = j
         /\ \A i \in Messages(b) : ResponsesText(b) = b.items[i].parts
<1>1. DOMAIN b.items = 1..Len(b.items) /\ Len(b.items) \in Nat
  BY ExtractorAssumption
<1>2. ASSUME NEW i \in Messages(b), NEW j \in Messages(b) PROVE i = j
  <2>1. /\ \A k \in 1..i - 1 : b.items[k].kind # "message"
        /\ \A k \in 1..j - 1 : b.items[k].kind # "message"
    BY ItemCodes DEF Messages
  <2>2. i \in 1..Len(b.items) /\ j \in 1..Len(b.items)
    BY <1>1 DEF Messages
  <2>3. ~(i < j) /\ ~(j < i)
    BY <1>1, <2>1, <2>2 DEF Messages
  <2> QED
    BY <1>1, <2>2, <2>3
<1>3. ASSUME NEW i \in Messages(b) PROVE ResponsesText(b) = b.items[i].parts
  <2>1. i \in DOMAIN b.items /\ b.items[i].kind = "message"
    BY DEF Messages
  <2>2. (CHOOSE k \in DOMAIN b.items : b.items[k].kind = "message") = i
    BY <1>2, <2>1 DEF Messages
  <2>3. Nested(b.items) = b.items[i].parts
    BY <2>1, <2>2 DEF Nested
  <2> QED
    BY <2>1, <2>3, ExtractorAssumption DEF ResponsesText
<1> QED
  BY <1>2, <1>3

(* A responses envelope that is not refused is whole.                      *)
LEMMA ResponsesWhole ==
  ASSUME NEW b \in Body
  PROVE  /\ ResponsesError(b) \in Code \cup {None}
         /\ ResponsesError(b) = None => Whole("responses_json_schema", b)
<1> DEFINE bad == {i \in DOMAIN b.items : Offence(b.items, i) # None}
           first == CHOOSE i \in bad : \A k \in bad : i <= k
           text == ResponsesText(b)
<1>1. /\ b.status \in {"completed", "incomplete", "other"} /\ b.flags \subseteq Flag
      /\ DOMAIN b.items = 1..Len(b.items) /\ Len(b.items) \in Nat
  BY ExtractorAssumption
<1>2. bad # {} => Offence(b.items, first) \in Code
  <2>1. bad \in SUBSET Nat
    BY <1>1
  <2>2. bad # {} => first \in bad
    BY <2>1, First
  <2> QED
    BY <2>2, ItemCodes
<1> HIDE DEF bad, first, text
<1>3. ResponsesError(b) =
        IF b.status = "incomplete" THEN "incomplete"
        ELSE IF b.status = "other" THEN "invalid_response"
        ELSE IF "refusal" \in b.flags THEN "refused"
        ELSE IF b.flags # {} \/ b.top = <<>> THEN "invalid_response"
        ELSE IF bad # {} THEN Offence(b.items, first)
        ELSE IF text = None \/ b.top \notin {None, text} THEN "invalid_response"
        ELSE None
  BY DEF ResponsesError, bad, first, text
<1>4. ResponsesError(b) \in Code \cup {None}
  BY <1>2, <1>3 DEF Code
<1>5. ASSUME ResponsesError(b) = None PROVE Whole("responses_json_schema", b)
  <2>1. b.status = "completed" /\ b.flags = {} /\ bad = {} /\ b.top \in {None, text}
    BY <1>1, <1>2, <1>3, <1>5, Codes
  <2>2. \A i \in DOMAIN b.items : Offence(b.items, i) = None
    BY <2>1 DEF bad
  <2>3. /\ \A i \in DOMAIN b.items : b.items[i].kind # "tool"
        /\ \A i \in Messages(b) :
             \A j \in DOMAIN b.items[i].parts : b.items[i].parts[j] # "refusal"
    BY <2>2, ItemCodes DEF Messages
  <2>4. /\ \A i, j \in Messages(b) : i = j
        /\ \A i \in Messages(b) : text = b.items[i].parts
    BY <2>2, OneMessage DEF text
  <2> QED
    BY <2>1, <2>3, <2>4 DEF Whole
<1> QED
  BY <1>4, <1>5

(* So is a chat completion.                                                *)
LEMMA ChatWhole ==
  ASSUME NEW b \in Body
  PROVE  /\ ChatError(b) \in Code \cup {None}
         /\ ChatError(b) = None => Whole("chat_json_schema", b)
BY Codes DEF ChatError, Code, Whole

LEMMA DecodedWhole ==
  ASSUME NEW b \in Body, NEW binding \in Binding, Decoded(binding, b) \notin Code
  PROVE  Whole(binding, b) /\ Decoded(binding, b) \in DOMAIN OutputOf
<1>1. binding \in {"responses_json_schema", "chat_json_schema"}
  BY ExtractorAssumption
<1> DEFINE error == IF binding = "chat_json_schema" THEN ChatError(b) ELSE ResponsesError(b)
           text == IF binding = "chat_json_schema" THEN b.top ELSE ResponsesText(b)
<1>2. error \in Code \cup {None}
  BY ResponsesWhole, ChatWhole
<1>3. error = None => Whole(binding, b)
  BY <1>1, ResponsesWhole, ChatWhole
<1> HIDE DEF error, text
<1>4. Decoded(binding, b) =
        IF error # None THEN error
        ELSE IF \E i \in DOMAIN text : text[i] = "fence" THEN "markdown_forbidden"
        ELSE IF text \in DOMAIN Parsed THEN Parsed[text] ELSE "invalid_response"
  BY DEF Decoded, error, text
<1>5. error = None /\ Decoded(binding, b) = Parsed[text] /\ text \in DOMAIN Parsed
  BY <1>2, <1>4 DEF Code
<1> QED
  BY <1>3, <1>5, OutputAssumption

(* An output is taken only from a whole answer.                            *)
THEOREM OutputsAreWhole == FactSpec => []OnlyWhole
<1>1. CallsOK => OnlyWhole
  <2> SUFFICES ASSUME CallsOK, NEW c \in Caller, call[c].at \in {"trace", "write"}
               PROVE  Whole(call[c].binding, call[c].reply.body)
    BY DEF OnlyWhole
  <2>1. /\ CallOK(call[c]) /\ call[c] \in CallType
    BY DEF CallsOK
  <2>2. /\ call[c].binding \in Binding /\ call[c].reply.kind = "ok"
        /\ Decoded(call[c].binding, call[c].reply.body) \notin Code
    BY <2>1 DEF CallOK
  <2>3. call[c].reply \in Replies \cup {NoReply}
    BY <2>1 DEF CallType
  <2>4. call[c].reply.body \in Body
    BY <2>2, <2>3, ReplyKinds
  <2> QED
    BY <2>2, <2>4, DecodedWhole
<1> QED
  BY <1>1, CallsInvariant, PTL
-----------------------------------------------------------------------------
(* What a node of a batch stands for; its id says which kind it is.        *)
LEMMA NodeKinds ==
  ASSUME NEW o \in DOMAIN OutputOf, NEW f, NEW n \in NodesOf(o, f)
  PROVE  \/ \E e \in Items(Entities(o)) : n = EntityNode(e)
         \/ \E x \in Items(Facts(o)) : n = FactNode(x, f)
         \/ n = MakeNode(EvidenceId(f), <<"evidence">>, {})
BY DEF NodesOf

LEMMA IdKinds ==
  ASSUME NEW o \in DOMAIN OutputOf
  PROVE  /\ \A e : EntityId(e)[1] = "entity"
         /\ \A x \in Items(Facts(o)) : \A f : FactId(x, f)[1] \in {"relation", "observation"}
         /\ \A f : EvidenceId(f)[1] = "evidence"
<1>1. \A x \in Items(Facts(o)) : x.kind \in {"relation", "observation"}
  BY OutputAssumption DEF Items, Facts
<1>2. \A x \in Items(Facts(o)) : \A f : FactId(x, f)[1] = x.kind
  BY DEF FactId
<1> QED
  BY <1>1, <1>2 DEF EntityId, EvidenceId

(* What the validators accept can be projected.                            *)
LEMMA ValidProjects ==
  ASSUME NEW o \in DOMAIN OutputOf, NEW f, Valid(o, f)
  PROVE  Projected(o, f)
<1>1. ASSUME NEW m \in NodesOf(o, f), NEW n \in NodesOf(o, f), m.id = n.id
      PROVE  m = n
  <2>1. ASSUME NEW d \in Items(Entities(o)), NEW e \in Items(Entities(o)),
               EntityId(d) = EntityId(e)
        PROVE  d = e
    BY <2>1 DEF Valid, Distinct, Items
  <2>2. ASSUME NEW x \in Items(Facts(o)), NEW y \in Items(Facts(o)), FactId(x, f) = FactId(y, f)
        PROVE  x = y
    BY <2>2 DEF Valid, Distinct, Items
  <2>3. /\ \A e : EntityNode(e).id = EntityId(e)
        /\ \A x : FactNode(x, f).id = FactId(x, f)
        /\ MakeNode(EvidenceId(f), <<"evidence">>, {}).id = EvidenceId(f)
    BY DEF EntityNode, FactNode, MakeNode
  <2> QED
    BY <1>1, <2>1, <2>2, <2>3, NodeKinds, IdKinds
<1>2. ASSUME NEW e \in EdgesOf(o, f)
      PROVE  e.from \in {n.id : n \in NodesOf(o, f)} /\ e.to \in {n.id : n \in NodesOf(o, f)}
  <2> DEFINE ids == {n.id : n \in NodesOf(o, f)}
  <2>1. /\ EvidenceId(f) \in ids
        /\ \A x \in Items(Facts(o)) : FactId(x, f) \in ids
        /\ \A d \in Items(Entities(o)) : EntityId(d) \in ids
    <3>1. /\ MakeNode(EvidenceId(f), <<"evidence">>, {}) \in NodesOf(o, f)
          /\ \A x \in Items(Facts(o)) : FactNode(x, f) \in NodesOf(o, f)
          /\ \A d \in Items(Entities(o)) : EntityNode(d) \in NodesOf(o, f)
      BY DEF NodesOf
    <3>2. /\ MakeNode(EvidenceId(f), <<"evidence">>, {}).id = EvidenceId(f)
          /\ \A x : FactNode(x, f).id = FactId(x, f)
          /\ \A d : EntityNode(d).id = EntityId(d)
      BY DEF EntityNode, FactNode, MakeNode
    <3> QED
      BY <3>1, <3>2
  <2>2. PICK x \in Items(Facts(o)) :
          e \in {MakeEdge("SUPPORTED_BY", FactId(x, f), EvidenceId(f), x.evidence)}
             \cup (IF x.kind = "observation"
                   THEN {MakeEdge("OBSERVED_ON", FactId(x, f), EntityId(x.subject), None)}
                   ELSE {MakeEdge("ASSERTION_SUBJECT", EntityId(x.subject), FactId(x, f), None),
                         MakeEdge("ASSERTION_OBJECT", FactId(x, f), EntityId(x.object), None)})
    BY DEF EdgesOf
  <2>3. x.kind \in {"relation", "observation"}
    BY OutputAssumption DEF Items, Facts
  <2>4. /\ EntityId(x.subject) \in ids
        /\ x.kind # "observation" => EntityId(x.object) \in ids
    BY <2>1, <2>3 DEF Valid, Declared, Named
  <2> HIDE DEF ids
  <2>5. e.from \in ids /\ e.to \in ids
    BY <2>1, <2>2, <2>4 DEF MakeEdge
  <2> QED
    BY <2>5 DEF ids
<1> QED
  BY <1>1, <1>2 DEF Projected

(* What a call is about to write is an output.                             *)
LEMMA WrittenOutput ==
  ASSUME CallsOK, NEW c \in Caller, call[c].at = "write"
  PROVE  Output(c) \in DOMAIN OutputOf /\ call[c].fragment \in Fragment
<1>1. CallOK(call[c]) /\ call[c] \in CallType
  BY DEF CallsOK
<1>2. /\ call[c].binding \in Binding /\ call[c].reply.kind = "ok"
      /\ Decoded(call[c].binding, call[c].reply.body) \notin Code
      /\ call[c].fragment \in Fragment
  BY <1>1 DEF CallOK
<1>3. call[c].reply.body \in Body
  BY <1>1, <1>2, ReplyKinds DEF CallType
<1> QED
  BY <1>2, <1>3, DecodedWhole DEF Output

(* A batch that its validators accept can always be projected.             *)
THEOREM BatchesProject == FactSpec => []Projectable
<1>1. CallsOK => Projectable
  <2> SUFFICES ASSUME CallsOK, NEW c \in Caller, call[c].at = "write",
                      Valid(Output(c), call[c].fragment)
               PROVE  Projected(Output(c), call[c].fragment)
    BY DEF Projectable
  <2>1. Output(c) \in DOMAIN OutputOf
    BY WrittenOutput
  <2> QED
    BY <2>1, ValidProjects
<1> QED
  BY <1>1, CallsInvariant, PTL
-----------------------------------------------------------------------------
(* Nodes of some batches, those of one id made one.                        *)
Aliases(S, id) == UNION {m.aliases : m \in {k \in S : k.id = id}}
Gathered(n, S) == MakeNode(n.id, n.core, Aliases(S, n.id))
Gather(S) == {Gathered(n, S) : n \in S}


LEMMA AliasesUnion ==
  ASSUME NEW A, NEW N, NEW id
  PROVE  Aliases(A \cup N, id) = Aliases(A, id) \cup Aliases(N, id)
BY DEF Aliases

LEMMA AliasesNone ==
  ASSUME NEW S, NEW id, \A k \in S : k.id # id
  PROVE  Aliases(S, id) = {}
BY DEF Aliases

LEMMA AliasesOne ==
  ASSUME NEW S, NEW n \in S, \A k \in S : k.id = n.id => k = n
  PROVE  Aliases(S, n.id) = n.aliases
<1>1. {k \in S : k.id = n.id} = {n}
  OBVIOUS
<1>2. UNION {m.aliases : m \in {n}} = n.aliases
  OBVIOUS
<1> QED
  BY <1>1, <1>2 DEF Aliases

(* A node as it is written: merged with the one of its id, if there is.    *)
Write1(G, n) ==
  IF \E m \in G : m.id = n.id THEN Merged(CHOOSE m \in G : m.id = n.id, n) ELSE n

LEMMA WriteGathers ==
  ASSUME NEW A, NEW N,
         \A n \in N : n = MakeNode(n.id, n.core, n.aliases),
         \A m, n \in N : m.id = n.id => m = n,
         \A m \in Gather(A), n \in N : m.id = n.id => m.core = n.core
  PROVE  {m \in Gather(A) : \A n \in N : n.id # m.id} \cup {Write1(Gather(A), n) : n \in N}
           = Gather(A \cup N)
<1> DEFINE G == Gather(A)
<1>g. ASSUME NEW k, NEW S
      PROVE  /\ Gathered(k, S).id = k.id /\ Gathered(k, S).core = k.core
             /\ Gathered(k, S).aliases = Aliases(S, k.id)
  BY DEF Gathered, MakeNode
<1>u. \A id : Aliases(A \cup N, id) = Aliases(A, id) \cup Aliases(N, id)
  BY AliasesUnion
<1>1. ASSUME NEW n \in N PROVE Write1(G, n) = Gathered(n, A \cup N)
  <2>1. Aliases(N, n.id) = n.aliases
    BY AliasesOne
  <2>2. CASE \E m \in G : m.id = n.id
    <3> DEFINE m == CHOOSE x \in G : x.id = n.id
    <3>1. m \in G /\ m.id = n.id
      BY <2>2
    <3>4. Write1(G, n) = MakeNode(m.id, m.core, m.aliases \cup n.aliases)
      BY <2>2 DEF Write1, Merged
    <3> HIDE DEF m
    <3>2. m.core = n.core
      BY <3>1
    <3>3. m.aliases = Aliases(A, n.id)
      <4>1. PICK k \in A : m = Gathered(k, A)
        BY <3>1 DEF Gather
      <4>2. m.aliases = Aliases(A, k.id) /\ m.id = k.id
        BY <4>1, <1>g
      <4> QED
        BY <3>1, <4>2
    <3> QED
      BY <2>1, <3>1, <3>2, <3>3, <3>4, <1>u DEF Gathered
  <2>3. CASE ~\E m \in G : m.id = n.id
    <3>1. \A k \in A : k.id # n.id
      BY <2>3, <1>g DEF Gather
    <3>2. Aliases(A \cup N, n.id) = n.aliases
      BY <2>1, <3>1, <1>u, AliasesNone
    <3> QED
      BY <2>3, <3>2 DEF Write1, Gathered
  <2> QED
    BY <2>2, <2>3
<1>2. ASSUME NEW k \in A, \A n \in N : n.id # k.id
      PROVE  Gathered(k, A \cup N) = Gathered(k, A)
  <2>1. Aliases(N, k.id) = {}
    BY <1>2, AliasesNone
  <2> QED
    BY <2>1, <1>u DEF Gathered
<1>3. ASSUME NEW k \in A, NEW n \in N, n.id = k.id
      PROVE  Gathered(k, A \cup N) = Gathered(n, A \cup N)
  <2>1. Gathered(k, A) \in G
    BY DEF Gather
  <2>2. k.core = n.core
    BY <1>3, <2>1, <1>g
  <2> QED
    BY <1>3, <2>2 DEF Gathered
<1>4. ASSUME NEW p \in G, \A n \in N : n.id # p.id PROVE p \in Gather(A \cup N)
  <2>1. PICK k \in A : p = Gathered(k, A)
    BY DEF Gather
  <2>2. p = Gathered(k, A \cup N)
    BY <1>2, <1>4, <2>1, <1>g
  <2> QED
    BY <2>2 DEF Gather
<1>5. ASSUME NEW n \in N PROVE Write1(G, n) \in Gather(A \cup N)
  BY <1>1 DEF Gather
<1>6. ASSUME NEW p \in Gather(A \cup N)
      PROVE  \/ p \in G /\ \A n \in N : n.id # p.id
             \/ \E n \in N : p = Write1(G, n)
  <2>1. PICK k \in A \cup N : p = Gathered(k, A \cup N)
    BY DEF Gather
  <2>2. CASE k \in N
    BY <1>1, <2>1, <2>2
  <2>3. CASE k \in A /\ \E n \in N : n.id = k.id
    BY <1>1, <1>3, <2>1, <2>3
  <2>4. CASE k \in A /\ \A n \in N : n.id # k.id
    <3>1. p = Gathered(k, A) /\ p.id = k.id
      BY <1>2, <2>1, <2>4, <1>g
    <3> QED
      BY <2>4, <3>1 DEF Gather
  <2> QED
    BY <2>1, <2>2, <2>3, <2>4
<1> HIDE DEF G
<1>7. {m \in G : \A n \in N : n.id # m.id} \cup {Write1(G, n) : n \in N} = Gather(A \cup N)
  BY <1>4, <1>5, <1>6
<1> QED
  BY <1>7 DEF G

LedgerOK == batches \in [Fragment -> DOMAIN OutputOf \cup {None}]

AcceptedEdges == UNION {EdgesOf(batches[f], f) : f \in Accepted}

LEMMA MergedIsGathered ==
  /\ GraphIsMerged <=> graph.edges = AcceptedEdges /\ graph.nodes = Gather(All)
  /\ GraphIsMerged' <=> graph'.edges = AcceptedEdges' /\ graph'.nodes = Gather(All')
BY DEF GraphIsMerged, Gather, Gathered, Aliases, AcceptedEdges

(* The batch of a fragment that has none joins the accepted ones.          *)
LEMMA OneMore ==
  ASSUME LedgerOK, NEW f \in Fragment, batches[f] = None, NEW o \in DOMAIN OutputOf,
         batches' = [batches EXCEPT ![f] = o]
  PROVE  /\ LedgerOK'
         /\ All' = All \cup NodesOf(o, f)
         /\ AcceptedEdges' = AcceptedEdges \cup EdgesOf(o, f)
<1>1. LedgerOK' /\ None \notin DOMAIN OutputOf
  BY OutputAssumption DEF LedgerOK
<1>2. f \notin Accepted /\ Accepted' = Accepted \cup {f}
  BY <1>1 DEF LedgerOK, Accepted
<1>3. batches'[f] = o /\ \A g \in Accepted : batches'[g] = batches[g]
  BY <1>2 DEF LedgerOK, Accepted
<1>4. All' = UNION {NodesOf(batches'[g], g) : g \in Accepted'}
  BY DEF All
<1>5. All' = All \cup NodesOf(o, f)
  BY <1>2, <1>3, <1>4 DEF All
<1>6. AcceptedEdges' = UNION {EdgesOf(batches'[g], g) : g \in Accepted'}
  BY DEF AcceptedEdges
<1>7. AcceptedEdges' = AcceptedEdges \cup EdgesOf(o, f)
  BY <1>2, <1>3, <1>6 DEF AcceptedEdges
<1> QED
  BY <1>1, <1>5, <1>7

LEMMA WriteKeepsMerged ==
  ASSUME LedgerOK, GraphIsMerged, NEW f \in Fragment, NEW o \in DOMAIN OutputOf,
         batches[f] = None, Projected(o, f), ~Conflicts(o, f),
         graph' = Written(o, f), batches' = [batches EXCEPT ![f] = o]
  PROVE  LedgerOK' /\ GraphIsMerged'
<1> DEFINE N == NodesOf(o, f)
<1>1. /\ LedgerOK' /\ All' = All \cup N
      /\ AcceptedEdges' = AcceptedEdges \cup EdgesOf(o, f)
  BY OneMore
<1>2. graph.nodes = Gather(All)
  BY MergedIsGathered
<1>3. \A n \in N : n = MakeNode(n.id, n.core, n.aliases)
  BY NodeKinds DEF EntityNode, FactNode, MakeNode
<1>4. \A m, n \in N : m.id = n.id => m = n
  BY DEF Projected
<1>5. \A m \in Gather(All), n \in N : m.id = n.id => m.core = n.core
  BY <1>2 DEF Conflicts, Mergeable
<1>6. graph'.nodes = {m \in graph.nodes : \A n \in N : n.id # m.id}
                       \cup {Write1(graph.nodes, n) : n \in N}
  BY DEF Written, Write1
<1>7. graph'.edges = graph.edges \cup EdgesOf(o, f)
  BY DEF Written
<1> HIDE DEF N
<1>8. {m \in Gather(All) : \A n \in N : n.id # m.id} \cup {Write1(Gather(All), n) : n \in N}
        = Gather(All \cup N)
  BY <1>3, <1>4, <1>5, WriteGathers
<1>9. graph'.nodes = Gather(All')
  BY <1>1, <1>2, <1>6, <1>8
<1> QED
  BY <1>1, <1>7, <1>9, MergedIsGathered

(* The graph is the merge of the batches that were accepted.               *)
GInv == CallsOK /\ LedgerOK /\ GraphIsMerged

LEMMA GraphInvariant == FactSpec => []GInv
<1>1. FactInit => LedgerOK /\ GraphIsMerged
  BY DEF FactInit, LedgerOK, GraphIsMerged, Accepted, All, AcceptedEdges
<1>2. CallsOK /\ LedgerOK /\ GraphIsMerged /\ [FactNext]_factVars => LedgerOK' /\ GraphIsMerged'
  <2> SUFFICES ASSUME CallsOK, LedgerOK, GraphIsMerged, [FactNext]_factVars
               PROVE  LedgerOK' /\ GraphIsMerged'
    OBVIOUS
  <2>1. ASSUME UNCHANGED <<batches, graph>> PROVE LedgerOK' /\ GraphIsMerged'
    <3>1. Accepted' = Accepted
      BY <2>1 DEF Accepted
    <3>2. All' = All
      BY <2>1, <3>1 DEF All
    <3>3. AcceptedEdges' = AcceptedEdges
      BY <2>1, <3>1 DEF AcceptedEdges
    <3> QED
      BY <2>1, <3>2, <3>3, MergedIsGathered DEF LedgerOK
  <2>2. ASSUME NEW c \in Caller, Write(c) PROVE LedgerOK' /\ GraphIsMerged'
    <3> DEFINE f == call[c].fragment  o == Output(c)
    <3>1. o \in DOMAIN OutputOf /\ f \in Fragment
      BY <2>2, WrittenOutput DEF Write
    <3>2. CASE batches[f] = None /\ Valid(o, f) /\ Projected(o, f) /\ ~Conflicts(o, f)
      <4>1. graph' = Written(o, f) /\ batches' = [batches EXCEPT ![f] = o]
        BY <2>2, <3>2 DEF Write
      <4> QED
        BY <3>1, <3>2, <4>1, WriteKeepsMerged
    <3>3. CASE ~(batches[f] = None /\ Valid(o, f) /\ Projected(o, f) /\ ~Conflicts(o, f))
      <4>1. UNCHANGED <<batches, graph>>
        BY <2>2, <3>3 DEF Write
      <4> QED
        BY <2>1, <4>1
    <3> QED
      BY <3>2, <3>3
  <2> QED
    BY <2>1, <2>2 DEF FactNext, factVars
<1> QED
  BY <1>1, <1>2, CallsInvariant, PTL DEF FactSpec, GInv

THEOREM GraphMerged == FactSpec => []GraphIsMerged
BY GraphInvariant, PTL DEF GInv

(* A conflict comes from the case of a name and from nothing else.         *)
THEOREM ConflictsAreOfCase == FactSpec => []ConflictOnlyByCase
<1>1. GInv => ConflictOnlyByCase
  <2> SUFFICES ASSUME GInv, NEW c \in Caller, call[c].at = "write",
                      batches[call[c].fragment] = None,
                      Conflicts(Output(c), call[c].fragment)
               PROVE  \E g \in Accepted :
                        \E d \in Items(Entities(batches[g])), e \in Items(Entities(Output(c))) :
                          EntityId(d) = EntityId(e) /\ d.name # e.name
    BY DEF ConflictOnlyByCase
  <2> DEFINE f == call[c].fragment  o == Output(c)
  <2>1. o \in DOMAIN OutputOf
    BY WrittenOutput DEF GInv
  <2>2. PICK m \in graph.nodes, n \in NodesOf(o, f) : m.id = n.id /\ m.core # n.core
    BY DEF Conflicts, Mergeable
  <2>3. PICK k \in All : m = Gathered(k, All)
    BY <2>2, MergedIsGathered DEF GInv, Gather
  <2>4. k.id = n.id /\ k.core # n.core
    BY <2>2, <2>3 DEF Gathered, MakeNode
  <2>5. PICK g \in Accepted : k \in NodesOf(batches[g], g)
    BY DEF All
  <2>6. batches[g] \in DOMAIN OutputOf /\ g # f
    BY <2>5 DEF Accepted, GInv, LedgerOK
  <2> HIDE DEF f, o
  <2>7. /\ \A e : EntityNode(e).id = EntityId(e) /\ EntityNode(e).core = <<e.type, e.name>>
        /\ \A x, h : FactNode(x, h).id = FactId(x, h)
        /\ \A h : MakeNode(EvidenceId(h), <<"evidence">>, {}).id = EvidenceId(h)
    BY DEF EntityNode, FactNode, MakeNode
  <2>8. /\ EvidenceId(f) # EvidenceId(g)
        /\ \A x, y : FactId(x, f) # FactId(y, g)
    BY <2>6 DEF EvidenceId, FactId
  <2>9. PICK e \in Items(Entities(o)), d \in Items(Entities(batches[g])) :
          n = EntityNode(e) /\ k = EntityNode(d)
    <3>1. \/ \E e \in Items(Entities(o)) : n = EntityNode(e) /\ n.id[1] = "entity"
          \/ \E x \in Items(Facts(o)) :
               n.id = FactId(x, f) /\ n.id[1] \in {"relation", "observation"}
          \/ n.id = EvidenceId(f) /\ n.id[1] = "evidence"
      BY <2>1, <2>2, <2>7, NodeKinds, IdKinds
    <3>2. \/ \E d \in Items(Entities(batches[g])) : k = EntityNode(d) /\ k.id[1] = "entity"
          \/ \E x \in Items(Facts(batches[g])) :
               k.id = FactId(x, g) /\ k.id[1] \in {"relation", "observation"}
          \/ k.id = EvidenceId(g) /\ k.id[1] = "evidence"
      BY <2>5, <2>6, <2>7, NodeKinds, IdKinds
    <3> QED
      BY <2>4, <2>8, <3>1, <3>2
  <2>10. EntityId(d) = EntityId(e) /\ d.name # e.name
    <3>1. EntityId(d) = EntityId(e) /\ <<d.type, d.name>> # <<e.type, e.name>>
      BY <2>4, <2>7, <2>9
    <3>2. d.type = e.type
      BY <3>1 DEF EntityId
    <3> QED
      BY <3>1, <3>2
  <2> QED
    BY <2>5, <2>9, <2>10 DEF o
<1> QED
  BY <1>1, GraphInvariant, PTL

-----------------------------------------------------------------------------
(* The transactions of the writer to PostgreSQL and AGE.                   *)


(* What a transaction has read under its locks is still so.                *)
Fresh(w) ==
  tx[w].at \in {"items", "commit"} => ledger[KeyOf[tx[w].batch]] = Nil

Ready(w) ==
  tx[w].at = "commit" =>
    /\ Agrees(tx[w].batch)
    /\ \A i \in ItemsOf(tx[w].batch) : tx[w].writes[i] = Merge(tx[w].batch, i)

IInv == TypeOK /\ \A w \in Writer : Fresh(w) /\ Ready(w)

LEMMA BatchTypes ==
  ASSUME NEW b \in Batch
  PROVE  /\ KeyOf[b] \in Key
         /\ ItemsOf(b) \subseteq Item
         /\ LocksOf(b) \subseteq Lock
         /\ \A i \in ItemsOf(b) : Content[b][i] \in StoredItem
BY WriterAssumption DEF ItemsOf, LocksOf, Lock, StoredItem

(* Two transactions past their locks have none in common.                  *)
LEMMA Disjoint ==
  ASSUME TypeOK, NEW v \in Writer, NEW w \in Writer, v # w,
         tx[v] # NoTx, tx[v].at # "locking", tx[w] # NoTx, tx[w].at # "locking"
  PROVE  LocksOf(tx[v].batch) \cap LocksOf(tx[w].batch) = {}
BY DEF TypeOK, Locked, MakeTx, NoTx

LEMMA MergeType ==
  ASSUME TypeOK, NEW b \in Batch, NEW i \in ItemsOf(b)
  PROVE  Merge(b, i) \in StoredItem
<1>1. stored[i] = Nil \/ stored[i] \in StoredItem
  BY BatchTypes DEF TypeOK
<1>2. Content[b][i].core \in Core /\ Content[b][i].aliases \subseteq Alias
  BY BatchTypes DEF StoredItem
<1> QED BY <1>1, <1>2 DEF Merge, StoredItem

LEMMA InitInv == Init => IInv
BY DEF Init, IInv, TypeOK, Fresh, Ready, NoTx, MakeTx

-------------------------------------------------------------------------------
(* One lemma per kind of step.                                             *)

LEMMA BeginInv ==
  ASSUME IInv, NEW w \in Writer, NEW b \in Batch, BeginTx(w, b)
  PROVE  IInv'
<1>1. /\ tx[w] = NoTx
      /\ tx'[w] = MakeTx("locking", b, <<>>)
      /\ \A v \in Writer : v # w => tx'[v] = tx[v]
      /\ DOMAIN tx' = Writer
      /\ UNCHANGED <<ledger, stored, owner, answers>>
  BY DEF BeginTx, IInv, TypeOK
<1>2. /\ tx'[w].at = "locking" /\ tx'[w].batch = b /\ tx'[w].writes = <<>>
      /\ tx'[w] # NoTx
  BY <1>1 DEF MakeTx, NoTx
<1>3. TypeOK'
  BY <1>1, <1>2 DEF IInv, TypeOK, TxAt, Locked
<1>4. \A v \in Writer : Fresh(v)' /\ Ready(v)'
  BY <1>1, <1>2 DEF IInv, Fresh, Ready, Agrees, Merge
<1> QED BY <1>3, <1>4 DEF IInv

LEMMA TakeLockInv ==
  ASSUME IInv, NEW w \in Writer, NEW l \in Lock, TakeLock(w, l)
  PROVE  IInv'
<1>1. /\ tx[w].at = "locking"
      /\ l \in LocksOf(tx[w].batch)
      /\ owner[l] = Nil
      /\ owner'[l] = w
      /\ owner' \in [Lock -> Writer \cup {Nil}]
      /\ \A k \in Lock : k # l => owner'[k] = owner[k]
      /\ UNCHANGED <<ledger, stored, tx, answers>>
  BY DEF TakeLock, Turn, Missing, IInv, TypeOK
<1>2. tx[w] # NoTx /\ w # Nil
  BY <1>1, WriterAssumption DEF NoTx, MakeTx
<1>3. \A v \in Writer : Locked(v) /\ tx[v].batch \in Batch => Locked(v)'
  BY <1>1, BatchTypes, WriterAssumption DEF Locked
<1>4. TypeOK'
  BY <1>1, <1>2, <1>3 DEF IInv, TypeOK
<1>5. \A v \in Writer : Fresh(v)' /\ Ready(v)'
  BY <1>1 DEF IInv, Fresh, Ready, Agrees, Merge
<1> QED BY <1>4, <1>5 DEF IInv

(* A step that only moves a transaction on, with what it has just read.    *)
LEMMA MoveInv ==
  ASSUME IInv, NEW w \in Writer, NEW at \in TxAt \ {"idle"}, NEW writes,
         tx[w] # NoTx, Locked(w),
         tx' = [tx EXCEPT ![w] = MakeTx(at, tx[w].batch, writes)],
         UNCHANGED <<ledger, stored, owner, answers>>,
         at \in {"items", "commit"} => ledger[KeyOf[tx[w].batch]] = Nil,
         at = "commit" => /\ Agrees(tx[w].batch)
                          /\ writes = [i \in ItemsOf(tx[w].batch) |-> Merge(tx[w].batch, i)]
  PROVE  IInv'
<1>1. /\ tx'[w] = MakeTx(at, tx[w].batch, writes)
      /\ \A v \in Writer : v # w => tx'[v] = tx[v]
      /\ DOMAIN tx' = Writer
      /\ tx[w].batch \in Batch
  BY DEF IInv, TypeOK
<1>2. tx'[w].at = at /\ tx'[w].batch = tx[w].batch /\ tx'[w].writes = writes
  BY <1>1 DEF MakeTx
<1>3. tx'[w] # NoTx
  BY <1>2 DEF NoTx, MakeTx
<1>4. at = "commit" => writes \in [ItemsOf(tx[w].batch) -> StoredItem]
  BY <1>1, MergeType DEF IInv
<1>5. TypeOK'
  BY <1>1, <1>2, <1>3, <1>4 DEF IInv, TypeOK, Locked
<1>6. \A v \in Writer : Fresh(v)' /\ Ready(v)'
  <2>1. \A v \in Writer : v # w => Fresh(v)' /\ Ready(v)'
    BY <1>1 DEF IInv, Fresh, Ready, Agrees, Merge
  <2>2. Fresh(w)'
    BY <1>2 DEF Fresh
  <2>3. Ready(w)'
    <3>0. PICK b \in Batch : b = tx[w].batch
      BY <1>1
    <3>1. at = "commit" => \A i \in ItemsOf(b) : writes[i] = Merge(b, i)
      BY <3>0
    <3>2. Agrees(b)' <=> Agrees(b)
      BY DEF Agrees, ItemsOf
    <3>3. \A i \in ItemsOf(b) : Merge(b, i)' = Merge(b, i)
      BY DEF Merge
    <3> QED BY <1>2, <3>0, <3>1, <3>2, <3>3 DEF Ready
  <2> QED BY <2>1, <2>2, <2>3
<1> QED BY <1>5, <1>6 DEF IInv

(* A transaction that ends without a write.                                *)
LEMMA EndInv ==
  ASSUME IInv, NEW w \in Writer, tx[w] # NoTx, EndTx(w),
         UNCHANGED <<ledger, stored>>,
         answers' \subseteq [batch : Batch, status : Status]
  PROVE  IInv'
<1>1. /\ tx'[w] = NoTx
      /\ \A v \in Writer : v # w => tx'[v] = tx[v]
      /\ DOMAIN tx' = Writer
      /\ owner' = [l \in Lock |-> IF owner[l] = w THEN Nil ELSE owner[l]]
  BY DEF EndTx, IInv, TypeOK
<1>2. owner' \in [Lock -> Writer \cup {Nil}]
  BY <1>1 DEF IInv, TypeOK
<1>3. \A v \in Writer : v # w /\ Locked(v) /\ tx[v].batch \in Batch => Locked(v)'
  BY <1>1, BatchTypes DEF Locked
<1>4. \A l \in Lock : owner'[l] # Nil =>
        tx'[owner'[l]] # NoTx /\ l \in LocksOf(tx'[owner'[l]].batch)
  BY <1>1 DEF IInv, TypeOK
<1>5. \A v \in Writer :
        \/ tx'[v] = NoTx
        \/ /\ tx'[v] = MakeTx(tx'[v].at, tx'[v].batch, tx'[v].writes)
           /\ tx'[v].at \in TxAt \ {"idle"}
           /\ tx'[v].batch \in Batch
           /\ tx'[v].at # "locking" => Locked(v)'
           /\ tx'[v].at = "commit" => tx'[v].writes \in [ItemsOf(tx'[v].batch) -> StoredItem]
  BY <1>1, <1>3 DEF IInv, TypeOK
<1>6. TypeOK'
  BY <1>1, <1>2, <1>4, <1>5 DEF IInv, TypeOK
<1>7. \A v \in Writer : Fresh(v)' /\ Ready(v)'
  <2>1. \A v \in Writer : v # w => Fresh(v)' /\ Ready(v)'
    BY <1>1 DEF IInv, Fresh, Ready, Agrees, Merge
  <2>2. Fresh(w)' /\ Ready(w)'
    BY <1>1 DEF Fresh, Ready, NoTx, MakeTx
  <2> QED BY <2>1, <2>2
<1> QED BY <1>6, <1>7 DEF IInv

(* The commit: nobody else past its locks touches the same key or items.   *)
LEMMA CommitInv ==
  ASSUME IInv, NEW w \in Writer, Commit(w)
  PROVE  IInv'
<1>1. /\ tx[w] # NoTx /\ tx[w].at = "commit" /\ tx[w].batch \in Batch
      /\ tx[w].writes \in [ItemsOf(tx[w].batch) -> StoredItem]
  BY DEF Commit, IInv, TypeOK, NoTx, MakeTx
<1>2. PICK b \in Batch : b = tx[w].batch
  BY <1>1
<1>3. /\ tx'[w] = NoTx
      /\ \A v \in Writer : v # w => tx'[v] = tx[v]
      /\ DOMAIN tx' = Writer
      /\ owner' = [l \in Lock |-> IF owner[l] = w THEN Nil ELSE owner[l]]
  BY DEF Commit, EndTx, IInv, TypeOK
<1>4. /\ ledger' = [ledger EXCEPT ![KeyOf[b]] = b]
      /\ stored' = [i \in Item |-> IF i \in ItemsOf(b) THEN tx[w].writes[i] ELSE stored[i]]
      /\ answers' \subseteq [batch : Batch, status : Status]
  <2>1. [batch |-> b, status |-> "written"] \in [batch : Batch, status : Status]
    BY DEF Status
  <2> QED BY <1>2, <2>1 DEF Commit, Upserted, Answer, IInv, TypeOK
<1>5. ledger' \in [Key -> Batch \cup {Nil}] /\ stored' \in [Item -> StoredItem \cup {Nil}]
  BY <1>1, <1>2, <1>4, BatchTypes DEF IInv, TypeOK
<1>6. owner' \in [Lock -> Writer \cup {Nil}]
  BY <1>3 DEF IInv, TypeOK
<1>7. \A v \in Writer : v # w /\ Locked(v) /\ tx[v].batch \in Batch => Locked(v)'
  BY <1>3, BatchTypes DEF Locked
<1>8. \A l \in Lock : owner'[l] # Nil =>
        tx'[owner'[l]] # NoTx /\ l \in LocksOf(tx'[owner'[l]].batch)
  BY <1>3 DEF IInv, TypeOK
<1>9. \A v \in Writer :
        \/ tx'[v] = NoTx
        \/ /\ tx'[v] = MakeTx(tx'[v].at, tx'[v].batch, tx'[v].writes)
           /\ tx'[v].at \in TxAt \ {"idle"}
           /\ tx'[v].batch \in Batch
           /\ tx'[v].at # "locking" => Locked(v)'
           /\ tx'[v].at = "commit" => tx'[v].writes \in [ItemsOf(tx'[v].batch) -> StoredItem]
  BY <1>3, <1>7 DEF IInv, TypeOK
<1>10. TypeOK'
  BY <1>3, <1>4, <1>5, <1>6, <1>8, <1>9 DEF TypeOK
<1>11. \A v \in Writer : Fresh(v)' /\ Ready(v)'
  <2>1. ASSUME NEW v \in Writer, v # w, tx[v].at \in {"items", "commit"}
        PROVE  Fresh(v)' /\ Ready(v)'
    <3>1. tx[v] # NoTx /\ tx[v].batch \in Batch
      BY <2>1 DEF IInv, TypeOK, NoTx, MakeTx
    <3>2. PICK c \in Batch : c = tx[v].batch
      BY <3>1
    <3>3. LocksOf(c) \cap LocksOf(b) = {}
      BY <1>1, <1>2, <2>1, <3>1, <3>2, Disjoint DEF IInv
    <3>4. KeyOf[c] # KeyOf[b] /\ ItemsOf(c) \cap ItemsOf(b) = {}
      BY <3>3 DEF LocksOf
    <3>5. ledger'[KeyOf[c]] = ledger[KeyOf[c]]
      BY <1>4, <3>4, BatchTypes DEF IInv, TypeOK
    <3>6. \A i \in ItemsOf(c) : stored'[i] = stored[i]
      BY <1>4, <3>4, BatchTypes
    <3>7. Agrees(c)' <=> Agrees(c)
      BY <3>6 DEF Agrees, ItemsOf
    <3>8. \A i \in ItemsOf(c) : Merge(c, i)' = Merge(c, i)
      BY <3>6 DEF Merge
    <3>9. tx'[v] = tx[v] /\ Fresh(v) /\ Ready(v)
      BY <1>3, <2>1 DEF IInv
    <3> QED BY <3>2, <3>5, <3>7, <3>8, <3>9 DEF Fresh, Ready
  <2>2. ASSUME NEW v \in Writer, v # w, tx[v].at \notin {"items", "commit"}
        PROVE  Fresh(v)' /\ Ready(v)'
    BY <1>3, <2>2 DEF Fresh, Ready
  <2>3. Fresh(w)' /\ Ready(w)'
    BY <1>3 DEF Fresh, Ready, NoTx, MakeTx
  <2> QED BY <2>1, <2>2, <2>3
<1> QED BY <1>10, <1>11 DEF IInv

LEMMA NextInv ==
  ASSUME IInv, [Next]_vars
  PROVE  IInv'
<1>1. \A w \in Writer : \A s \in Status :
        tx[w] # NoTx => [batch |-> tx[w].batch, status |-> s] \in [batch : Batch, status : Status]
  BY DEF IInv, TypeOK
<1>2. ASSUME NEW w \in Writer, AllLocked(w) PROVE IInv'
  <2>1. tx[w] # NoTx /\ Locked(w)
    BY <1>2, BatchTypes DEF AllLocked, Missing, Locked, IInv, TypeOK, NoTx, MakeTx
  <2> QED BY <1>2, <2>1, MoveInv DEF AllLocked, Goes, TxAt
<1>3. ASSUME NEW w \in Writer, ReadLedger(w) PROVE IInv'
  <2>1. tx[w] # NoTx /\ Locked(w) /\ tx[w].batch \in Batch
    BY <1>3 DEF ReadLedger, IInv, TypeOK, NoTx, MakeTx
  <2>2. CASE ledger[KeyOf[tx[w].batch]] = Nil
    <3>1. Goes(w, "items") /\ UNCHANGED <<ledger, stored, owner, answers>>
      BY <1>3, <2>1, <2>2, WriterAssumption DEF ReadLedger
    <3> QED BY <2>1, <2>2, <3>1, MoveInv DEF Goes, TxAt
  <2>3. CASE ledger[KeyOf[tx[w].batch]] # Nil
    <3>1. EndTx(w) /\ UNCHANGED <<ledger, stored>>
          /\ (Answer(w, "already_present") \/ Answer(w, "conflict"))
      BY <1>3, <2>3 DEF ReadLedger
    <3>2. answers' \subseteq [batch : Batch, status : Status]
      BY <3>1, <2>1, <1>1 DEF Answer, IInv, TypeOK, Status
    <3> QED BY <2>1, <3>1, <3>2, EndInv
  <2> QED BY <2>2, <2>3
<1>4. ASSUME NEW w \in Writer, ReadItems(w) PROVE IInv'
  <2>1. /\ tx[w] # NoTx /\ Locked(w) /\ tx[w].batch \in Batch
        /\ ledger[KeyOf[tx[w].batch]] = Nil
    BY <1>4 DEF ReadItems, IInv, TypeOK, Fresh, NoTx, MakeTx
  <2>2. CASE Agrees(tx[w].batch)
    <3>1. /\ tx' = [tx EXCEPT ![w] = MakeTx("commit", tx[w].batch,
                      [i \in ItemsOf(tx[w].batch) |-> Merge(tx[w].batch, i)])]
          /\ UNCHANGED <<ledger, stored, owner, answers>>
      BY <1>4, <2>2 DEF ReadItems
    <3> QED BY <2>1, <2>2, <3>1, MoveInv DEF TxAt
  <2>3. CASE ~Agrees(tx[w].batch)
    <3>1. EndTx(w) /\ UNCHANGED <<ledger, stored>> /\ Answer(w, "conflict")
      BY <1>4, <2>3 DEF ReadItems
    <3>2. answers' \subseteq [batch : Batch, status : Status]
      BY <3>1, <2>1, <1>1 DEF Answer, IInv, TypeOK, Status
    <3> QED BY <2>1, <3>1, <3>2, EndInv
  <2> QED BY <2>2, <2>3
<1>5. ASSUME NEW w \in Writer, Abort(w) PROVE IInv'
  BY <1>5, EndInv DEF Abort, IInv, TypeOK
<1>6. ASSUME UNCHANGED vars PROVE IInv'
  <2>1. TypeOK'
    BY <1>6 DEF vars, IInv, TypeOK, Locked
  <2>2. \A v \in Writer : Fresh(v)' /\ Ready(v)'
    BY <1>6 DEF vars, IInv, Fresh, Ready, Agrees, Merge
  <2> QED BY <2>1, <2>2 DEF IInv
<1> QED
  BY <1>2, <1>3, <1>4, <1>5, <1>6, BeginInv, TakeLockInv, CommitInv DEF Next

-------------------------------------------------------------------------------
(* Every transaction reads and writes under all of its locks, in every     *)
(* reachable state.                                                        *)
THEOREM TypeCorrect == Spec => []TypeOK
<1>1. IInv => TypeOK
  BY DEF IInv
<1> QED BY <1>1, InitInv, NextInv, PTL DEF Spec

(* Concurrent writers produce what some serial order of whole batches      *)
(* would: no alias is lost and no batch is entered twice or in part.       *)
THEOREM Refinement == Spec => ImplementsMergedGraph
<1>1. Init => Graph!Init
  BY DEF Init, Graph!Init
<1>2. ASSUME IInv, [Next]_vars PROVE [Graph!Next]_<<ledger, stored>>
  <2>1. ASSUME NEW w \in Writer, Commit(w) PROVE Graph!Next
    <3>1. /\ tx[w].at = "commit" /\ tx[w].batch \in Batch
          /\ Fresh(w) /\ Ready(w)
      <4>1. tx[w].at = "commit" /\ tx[w].batch \in Batch
        BY <1>2, <2>1 DEF Commit, IInv, TypeOK, NoTx, MakeTx
      <4>2. Fresh(w) /\ Ready(w)
        BY <1>2 DEF IInv
      <4> QED BY <4>1, <4>2
    <3>2. PICK b \in Batch : b = tx[w].batch
      BY <3>1
    <3>3. ledger[KeyOf[b]] = Nil /\ Agrees(b)
      BY <3>1, <3>2 DEF Fresh, Ready
    <3>4. \A i \in ItemsOf(b) : tx[w].writes[i] = Merge(b, i)
      BY <3>1, <3>2 DEF Ready
    <3>5. \A i \in ItemsOf(b) : Merge(b, i) = Graph!Merged(b, i)
      BY DEF Merge, Graph!Merged, Graph!AliasesIn
    <3>6. stored' = [i \in Item |-> IF i \in ItemsOf(b) THEN Graph!Merged(b, i)
                                                       ELSE stored[i]]
      BY <2>1, <3>2, <3>4, <3>5 DEF Commit, Upserted
    <3>7. ledger' = [ledger EXCEPT ![KeyOf[b]] = b]
      BY <2>1, <3>2 DEF Commit
    <3>8. Graph!Accept(b)
      BY <3>3, <3>6, <3>7 DEF Graph!Accept, Graph!Agrees, Graph!ItemsOf, Agrees, ItemsOf
    <3> QED BY <3>8 DEF Graph!Next
  <2> QED
    BY <1>2, <2>1 DEF Next, vars, BeginTx, TakeLock, AllLocked, ReadLedger, ReadItems, Abort
<1>3. Spec => []IInv
  BY InitInv, NextInv, PTL DEF Spec
<1> QED BY <1>1, <1>2, <1>3, PTL DEF Spec, ImplementsMergedGraph, Graph!Spec

-------------------------------------------------------------------------------
(* What an answer says cannot be undone: the ledger keeps its rows and an  *)
(* item its core, whoever commits next.                                    *)
Lasting ==
  /\ \A k \in Key : ledger[k] # Nil => ledger'[k] = ledger[k]
  /\ \A i \in Item : stored[i] # Nil =>
       stored'[i] # Nil /\ stored'[i].core = stored[i].core

(* The last two bodies of AnswersFinal, of one batch.                      *)
Refuted(b) ==
  \/ ledger[KeyOf[b]] \notin {Nil, b}
  \/ \E i \in ItemsOf(b) : stored[i] # Nil /\ stored[i].core # Content[b][i].core
Recorded(b) == ledger[KeyOf[b]] = b

LEMMA AnswersFinalMeaning ==
  AnswersFinal <=>
    \A a \in answers : /\ a.status = "conflict" => Refuted(a.batch)
                       /\ a.status \in {"written", "already_present"} => Recorded(a.batch)
BY DEF AnswersFinal, Refuted, Recorded

LEMMA StepsLast ==
  ASSUME IInv, [Next]_vars
  PROVE  Lasting
<1>1. ASSUME NEW w \in Writer, Commit(w) PROVE Lasting
  <2>1. /\ tx[w].at = "commit" /\ tx[w].batch \in Batch
        /\ tx[w].writes \in [ItemsOf(tx[w].batch) -> StoredItem]
        /\ Fresh(w) /\ Ready(w)
    <3>1. tx[w].at = "commit" /\ tx[w] # NoTx
      BY <1>1 DEF Commit, NoTx, MakeTx
    <3> QED BY <3>1 DEF IInv, TypeOK
  <2>2. PICK b \in Batch : b = tx[w].batch
    BY <2>1
  <2>3. /\ ledger' = [ledger EXCEPT ![KeyOf[b]] = b]
        /\ stored' = [i \in Item |-> IF i \in ItemsOf(b) THEN tx[w].writes[i] ELSE stored[i]]
    BY <1>1, <2>2 DEF Commit, Upserted
  <2>4. ledger[KeyOf[b]] = Nil /\ Agrees(b)
    BY <2>1, <2>2 DEF Fresh, Ready
  <2>5. \A k \in Key : ledger[k] # Nil => ledger'[k] = ledger[k]
    BY <2>3, <2>4, BatchTypes DEF IInv, TypeOK
  <2>6. ASSUME NEW i \in Item, stored[i] # Nil
        PROVE  stored'[i] # Nil /\ stored'[i].core = stored[i].core
    <3>1. CASE i \in ItemsOf(b)
      <4>1. stored'[i] = tx[w].writes[i] /\ tx[w].writes[i] \in StoredItem
        BY <2>1, <2>2, <2>3, <3>1
      <4>2. tx[w].writes[i] = Merge(b, i)
        BY <2>1, <2>2, <3>1 DEF Ready
      <4>3. Merge(b, i).core = stored[i].core
        BY <2>4, <2>6, <3>1 DEF Merge, Agrees
      <4> QED BY <4>1, <4>2, <4>3, WriterAssumption DEF StoredItem
    <3> QED BY <2>3, <2>6, <3>1
  <2> QED BY <2>5, <2>6 DEF Lasting
<1>2. ASSUME UNCHANGED <<ledger, stored>> PROVE Lasting
  BY <1>2 DEF Lasting
<1> QED
  BY <1>1, <1>2 DEF Next, vars, BeginTx, TakeLock, AllLocked, ReadLedger, ReadItems, Abort

LEMMA AnswersLast ==
  ASSUME IInv, Lasting, NEW b \in Batch
  PROVE  /\ Refuted(b) => Refuted(b)'
         /\ Recorded(b) => Recorded(b)'
BY BatchTypes, WriterAssumption DEF Lasting, Refuted, Recorded, ItemsOf

(* A new answer is true when it is given.                                  *)
LEMMA AnswersTrue ==
  ASSUME IInv, [Next]_vars, NEW a \in answers' \ answers
  PROVE  /\ a.batch \in Batch
         /\ a.status = "conflict" => Refuted(a.batch)'
         /\ a.status \in {"written", "already_present"} => Recorded(a.batch)'
<1> DEFINE Goal == /\ a.batch \in Batch
                   /\ a.status = "conflict" => Refuted(a.batch)'
                   /\ a.status \in {"written", "already_present"} => Recorded(a.batch)'
<1>1. ASSUME NEW w \in Writer, ReadLedger(w) PROVE Goal
  <2>1. PICK b \in Batch : b = tx[w].batch
    BY <1>1 DEF ReadLedger, IInv, TypeOK, NoTx, MakeTx
  <2>2. UNCHANGED <<ledger, stored>>
    BY <1>1 DEF ReadLedger
  <2>3. \/ ledger[KeyOf[b]] = b /\ a = [batch |-> b, status |-> "already_present"]
        \/ ledger[KeyOf[b]] \notin {Nil, b} /\ a = [batch |-> b, status |-> "conflict"]
    BY <1>1, <2>1 DEF ReadLedger, Answer
  <2> QED BY <2>2, <2>3 DEF Refuted, Recorded
<1>2. ASSUME NEW w \in Writer, ReadItems(w) PROVE Goal
  <2>1. PICK b \in Batch : b = tx[w].batch
    BY <1>2 DEF ReadItems, IInv, TypeOK, NoTx, MakeTx
  <2>2. UNCHANGED <<ledger, stored>>
    BY <1>2 DEF ReadItems
  <2>3. ~Agrees(b) /\ a = [batch |-> b, status |-> "conflict"]
    BY <1>2, <2>1 DEF ReadItems, Answer
  <2> QED BY <2>2, <2>3 DEF Refuted, Agrees, ItemsOf
<1>3. ASSUME NEW w \in Writer, Commit(w) PROVE Goal
  <2>1. PICK b \in Batch : b = tx[w].batch
    BY <1>3 DEF Commit, IInv, TypeOK, NoTx, MakeTx
  <2>2. ledger'[KeyOf[b]] = b
    BY <1>3, <2>1, BatchTypes DEF Commit, IInv, TypeOK
  <2>3. a = [batch |-> b, status |-> "written"]
    BY <1>3, <2>1 DEF Commit, Answer
  <2> QED BY <2>2, <2>3 DEF Recorded
<1> QED
  BY <1>1, <1>2, <1>3 DEF Next, vars, BeginTx, TakeLock, AllLocked, Abort

LEMMA AnswersInv ==
  ASSUME IInv, AnswersFinal, [Next]_vars
  PROVE  AnswersFinal'
<1>1. Lasting
  BY StepsLast
<1>2. ASSUME NEW a \in answers'
      PROVE  /\ a.status = "conflict" => Refuted(a.batch)'
             /\ a.status \in {"written", "already_present"} => Recorded(a.batch)'
  <2>1. CASE a \in answers
    <3>1. a.batch \in Batch
      BY <2>1 DEF IInv, TypeOK
    <3>2. /\ a.status = "conflict" => Refuted(a.batch)
          /\ a.status \in {"written", "already_present"} => Recorded(a.batch)
      BY <2>1, AnswersFinalMeaning
    <3> QED BY <1>1, <3>1, <3>2, AnswersLast
  <2>2. CASE a \notin answers
    BY <1>2, <2>2, AnswersTrue
  <2> QED BY <2>1, <2>2
<1> QED BY <1>2 DEF AnswersFinal, Refuted, Recorded

(* A conflict is raised as permanent, and the pipeline gives the write up: *)
(* no later commit of another writer makes the batch acceptable.  Written  *)
(* and already present stay true as well.                                  *)
THEOREM AnswersAreFinal == Spec => []AnswersFinal
<1>1. Init => AnswersFinal
  BY DEF Init, AnswersFinal
<1> QED BY <1>1, InitInv, NextInv, AnswersInv, PTL DEF Spec
=============================================================================
