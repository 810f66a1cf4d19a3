-------------------------- MODULE OpenAIFactExtractor --------------------------
(***************************************************************************)
(* OpenAIFactExtractor.extract (knowledge/openai_fact_extractor.py): a     *)
(* bounded loop of attempts at one chat or responses request, each under a *)
(* fresh credential and a bulk slot of the provider coordinator, whose     *)
(* outcome is reported to the coordinator before it is looked at.  What is *)
(* transient is tried again, an answer is decoded strictly, and an output  *)
(* is handed over after its trace is recorded.                             *)
(*                                                                         *)
(* The slot's own life is that of ProviderCoordination: here the           *)
(* coordinator grants or refuses, records or fails.  A text is a sequence  *)
(* of tokens, and Parsed says what JSON object a text is.                  *)
(*                                                                         *)
(* An operator whose name ends in _FirstMessage or the like is a faulty    *)
(* variant of the one below it; no action uses it.                         *)
(***************************************************************************)
EXTENDS Naturals, Sequences

CONSTANTS
  Caller,
  Fragment,
  MaxAttempts,
  Binding,      \* the extractors' bindings
  Coordinated,  \* a coordinator is configured
  Body,         \* the bodies of a 2xx response
  Parsed,       \* Parsed[text]: the object a text is, if it is one
  None

Flag == {"refusal", "error", "anonymous"}
Code == {"invalid_response", "incomplete", "refused", "tool_calls_forbidden",
         "markdown_forbidden"}

ASSUME ExtractorAssumption ==
  /\ MaxAttempts \in 1..8 /\ Coordinated \in BOOLEAN
  /\ Binding \subseteq {"responses_json_schema", "chat_json_schema"}
  /\ \A b \in Body :
       /\ b.status \in {"completed", "incomplete", "other"} /\ b.flags \subseteq Flag
       /\ DOMAIN b.items = 1..Len(b.items) /\ Len(b.items) \in Nat
       /\ \A i \in DOMAIN b.items :
            LET parts == b.items[i].parts IN
              /\ b.items[i].kind \in {"reasoning", "tool", "message", "other"}
              /\ parts # None /\ DOMAIN parts = 1..Len(parts) /\ Len(parts) \in Nat
  /\ None \notin Body /\ None \notin Code
  /\ \A t \in DOMAIN Parsed : Parsed[t] \notin Code

VARIABLE call  \* call[c]: the attempt of c's call, its reply, 2xx replies so far,
               \* and those whose attempt the coordinator failed
At == {"idle", "credential", "slot", "provider", "report", "release", "decide",
       "sleep", "trace", "write"}

(* What came of an attempt: a 2xx reply with a body or one too large; a    *)
(* timeout, a transport error, a 429 or 5xx; another status; the           *)
(* coordinator's error.                                                    *)
MakeReply(kind, body) == [kind |-> kind, body |-> body]
Replies == {MakeReply(k, None) : k \in {"failed", "rejected", "oversized"}}
             \cup {MakeReply("ok", b) : b \in Body}
NoReply == MakeReply("coordination", None)
Answered(reply) == reply.kind \in {"ok", "oversized"}

MakeCall(at, binding, fragment, attempt, reply, paid, lost) ==
  [at |-> at, binding |-> binding, fragment |-> fragment, attempt |-> attempt,
   reply |-> reply, paid |-> paid, lost |-> lost]
NoCall == MakeCall("idle", None, None, 0, NoReply, 0, 0)

Moves(c, at) == call' = [call EXCEPT ![c].at = at]
Turns(c, at, reply, paid, lost) ==
  call' = [call EXCEPT ![c] = MakeCall(at, @.binding, @.fragment, @.attempt, reply,
                                       @.paid + paid, @.lost + lost)]
Ends(c) == call' = [call EXCEPT ![c] = NoCall]
-----------------------------------------------------------------------------
(* What an item of the output of a responses envelope is refused for: the  *)
(* loop stops at the first that is.                                        *)
PartOffence(parts) ==
  LET bad == {j \in DOMAIN parts : parts[j] \in {"refusal", "other"}} IN
    IF bad = {} THEN None
    ELSE IF parts[CHOOSE j \in bad : \A k \in bad : j <= k] = "refusal" THEN "refused"
    ELSE "invalid_response"

Offence_FirstMessage(items, i) ==
  CASE items[i].kind \in {"reasoning", "message"} /\ \E j \in 1..i - 1 : items[j].kind = "message" -> None
    [] items[i].kind = "tool" -> "tool_calls_forbidden"
    [] items[i].kind = "other" -> "invalid_response"
    [] items[i].kind = "message" -> PartOffence(items[i].parts)
    [] OTHER -> None
Offence(items, i) ==
  CASE items[i].kind = "reasoning" -> None
    [] items[i].kind = "tool" -> "tool_calls_forbidden"
    [] \/ items[i].kind = "other"
       \/ items[i].kind = "message" /\ \E j \in 1..i - 1 : items[j].kind = "message" ->
         "invalid_response"
    [] OTHER -> IF items[i].parts = <<>> THEN "invalid_response"
                ELSE PartOffence(items[i].parts)

Nested(items) ==
  IF \E i \in DOMAIN items : items[i].kind = "message"
  THEN items[CHOOSE i \in DOMAIN items : items[i].kind = "message"].parts ELSE None

(* _responses_text: why there is no text, and the text.                    *)
ResponsesText(b) == IF Nested(b.items) # None THEN Nested(b.items) ELSE b.top
ResponsesError(b) ==
  LET bad == {i \in DOMAIN b.items : Offence(b.items, i) # None}
      text == ResponsesText(b)
  IN IF b.status = "incomplete" THEN "incomplete"
     ELSE IF b.status = "other" THEN "invalid_response"
     ELSE IF "refusal" \in b.flags THEN "refused"
     ELSE IF b.flags # {} \/ b.top = <<>> THEN "invalid_response"
     ELSE IF bad # {} THEN Offence(b.items, CHOOSE i \in bad : \A k \in bad : i <= k)
     ELSE IF text = None \/ b.top \notin {None, text} THEN "invalid_response"
     ELSE None

(* The same for a chat completion, whose message is the top-level text.    *)
ChatError(b) ==
  IF "anonymous" \in b.flags \/ b.top \in {None, <<>>} THEN "invalid_response"
  ELSE IF b.status # "completed" THEN "incomplete"
  ELSE IF "refusal" \in b.flags THEN "refused"
  ELSE IF \E i \in DOMAIN b.items : b.items[i].kind = "tool" THEN "tool_calls_forbidden"
  ELSE None

(* _decode_success: an error, or the object that the text is.              *)
Decoded(binding, b) ==
  LET chat == binding = "chat_json_schema"
      error == IF chat THEN ChatError(b) ELSE ResponsesError(b)
      text == IF chat THEN b.top ELSE ResponsesText(b)
  IN IF error # None THEN error
     ELSE IF \E i \in DOMAIN text : text[i] = "fence" THEN "markdown_forbidden"
     ELSE IF text \in DOMAIN Parsed THEN Parsed[text] ELSE "invalid_response"
-----------------------------------------------------------------------------
Begin(c, binding, f) ==
  /\ call[c].at = "idle"
  /\ call' = [call EXCEPT ![c] = MakeCall("credential", binding, f, 1, NoReply, 0, 0)]

(* _credential, read anew for every attempt; a failure ends the call.      *)
Credential(c) ==
  /\ call[c].at = "credential"
  /\ Moves(c, IF Coordinated THEN "slot" ELSE "provider") \/ Ends(c)

(* Entering coordinator.slot: a lease, or an error.                        *)
Admit(c) ==
  /\ call[c].at = "slot"
  /\ \/ Moves(c, "provider")
     \/ Turns(c, "decide", NoReply, 0, 0)

(* _send_once.  A status that is neither failure nor success goes          *)
(* unreported, and so does a body that is too large.                       *)
After(kind) ==
  IF ~Coordinated THEN "decide"
  ELSE IF kind \in {"rejected", "oversized"} THEN "release" ELSE "report"
Post(c) ==
  /\ call[c].at = "provider"
  /\ \E r \in Replies :
       Turns(c, After(r.kind), r, IF Answered(r) THEN 1 ELSE 0, 0)

(* The coordinator fails: its error takes the place of the reply.          *)
Fails(c, at) ==
  Turns(c, at, NoReply, 0, IF Answered(call[c].reply) THEN 1 ELSE 0)

Report(c) == call[c].at = "report" /\ (Moves(c, "release") \/ Fails(c, "release"))
Release(c) == call[c].at = "release" /\ (Moves(c, "decide") \/ Fails(c, "decide"))

(* What is tried again, while attempts are left.                           *)
Again_Oversized(c) ==
  call[c].reply.kind \in {"coordination", "failed", "oversized"} /\ call[c].attempt < MaxAttempts
Again(c) ==
  call[c].reply.kind \in {"coordination", "failed"} /\ call[c].attempt < MaxAttempts

Decide(c) ==
  /\ call[c].at = "decide"
  /\ \/ Again(c) /\ Moves(c, "sleep")
     \/ ~Again(c) /\ call[c].reply.kind # "ok" /\ Ends(c)
     \/ /\ call[c].reply.kind = "ok"
        /\ IF Decoded(call[c].binding, call[c].reply.body) \in Code THEN Ends(c) ELSE Moves(c, "trace")

Counted_Never(c) == call[c].attempt
Counted(c) == call[c].attempt + 1

Wake(c) ==
  /\ call[c].at = "sleep"
  /\ call' = [call EXCEPT ![c] = MakeCall("credential", @.binding, @.fragment, Counted(c),
                                          @.reply, @.paid, @.lost)]

(* The sink takes the trace, or its failure costs the output.              *)
Trace(c) == call[c].at = "trace" /\ (Moves(c, "write") \/ Ends(c))

(* The job is cancelled, or its process dies.                              *)
Cancel(c) == call[c].at # "idle" /\ Ends(c)

CallStep(c) ==
  \/ Credential(c) \/ Admit(c) \/ Post(c) \/ Report(c) \/ Release(c)
  \/ Decide(c) \/ Wake(c) \/ Trace(c)
-----------------------------------------------------------------------------
Output(c) == Decoded(call[c].binding, call[c].reply.body)

(* No call gets a second 2xx reply but when the coordinator failed the     *)
(* attempt that had one: no defect of an answer is a reason to ask again.  *)
PaidOnce == \A c \in Caller : call[c].paid <= call[c].lost + 1

(* An output is taken only from an answer that is complete, has no refusal *)
(* and no tool call in any part, and says one thing: the loop over the     *)
(* items and the early returns let nothing through that a look at the      *)
(* whole answer would refuse.                                              *)
Messages(b) == {i \in DOMAIN b.items : b.items[i].kind = "message"}
Whole(binding, b) ==
  /\ b.status = "completed" /\ "refusal" \notin b.flags
  /\ \A i \in DOMAIN b.items : b.items[i].kind # "tool"
  /\ binding = "responses_json_schema" =>
       /\ b.flags = {}
       /\ \A i, j \in Messages(b) : i = j
       /\ \A i \in Messages(b) :
            /\ \A j \in DOMAIN b.items[i].parts : b.items[i].parts[j] # "refusal"
            /\ b.top \in {None, b.items[i].parts}
OnlyWhole ==
  \A c \in Caller : call[c].at \in {"trace", "write"} => 
    Whole(call[c].binding, call[c].reply.body)
=============================================================================
