----------------------------- MODULE MCFactGraph -----------------------------
(***************************************************************************)
(* An extractor of either binding, over three fragments.  The bodies       *)
(* are whole answers and one of each defect _responses_text and the chat   *)
(* decoder look for; the outputs differ in the case of a name, in aliases, *)
(* in an entity that is not declared, and in the quality of a fact.        *)
(***************************************************************************)
EXTENDS FactGraph, TLC

Item(kind, parts) == [kind |-> kind, parts |-> parts]
Message(text) == Item("message", text)
Answer(status, flags, top, items) ==
  [status |-> status, flags |-> flags, top |-> top, items |-> items]

MCBody ==
  { \* whole answers, in either place and in both
    Answer("completed", {}, <<"low">>, <<>>),
    Answer("completed", {}, None, <<Item("reasoning", <<>>), Message(<<"upper">>)>>),
    Answer("completed", {}, <<"aka", "other">>, <<Message(<<"aka", "other">>)>>),
    Answer("completed", {}, <<"loose">>, <<>>),
    Answer("completed", {}, <<"sure">>, <<>>),
    \* defects
    Answer("completed", {}, <<"upper">>, <<Message(<<"low">>)>>),
    Answer("completed", {}, None, <<Message(<<"low">>), Message(<<"upper">>)>>),
    Answer("completed", {}, <<"low">>, <<Message(<<"low">>), Item("tool", <<>>)>>),
    Answer("completed", {}, None, <<Message(<<"low", "refusal">>)>>),
    Answer("completed", {"refusal"}, <<"low">>, <<>>),
    Answer("incomplete", {}, <<"low">>, <<>>),
    Answer("completed", {}, <<"fence", "low">>, <<>>),
    Answer("completed", {"error"}, <<"upper">>, <<>>) }

MCParsed ==
  (<<"low">> :> "low") @@ (<<"upper">> :> "upper") @@ (<<"aka", "other">> :> "aka")
    @@ (<<"loose">> :> "loose") @@ (<<"sure">> :> "sure")

MCFold == ("steel" :> "steel") @@ ("Steel" :> "steel") @@ ("grain" :> "grain")

Entity(type, name, aliases) == [type |-> type, name |-> name, aliases |-> aliases]
Observation(subject, label, unknown, sure) ==
  [kind |-> "observation", subject |-> subject, role |-> "material", label |-> label,
   unknown |-> unknown, sure |-> sure, evidence |-> "supports"]
Relation(subject, object) ==
  [kind |-> "relation", subject |-> subject, object |-> object, label |-> "grain",
   unknown |-> FALSE, sure |-> TRUE, evidence |-> "supports"]

Steel == Entity("material", "steel", {})
SteelAka == Entity("material", "steel", {"iron"})
SteelUpper == Entity("material", "Steel", {})
Grain == Entity("process", "grain", {})

MCOutputOf ==
  [low |-> [entities |-> <<Steel, Grain>>,
            facts |-> <<Relation(Steel, Grain), Observation(Steel, "grain", TRUE, FALSE)>>],
   upper |-> [entities |-> <<SteelUpper>>,
              facts |-> <<Observation(SteelUpper, "grain", FALSE, TRUE)>>],
   aka |-> [entities |-> <<SteelAka>>,
            facts |-> <<Observation(SteelAka, "grain", FALSE, FALSE)>>],
   loose |-> [entities |-> <<Steel>>, facts |-> <<Relation(Steel, Grain)>>],
   sure |-> [entities |-> <<Steel>>,
             facts |-> <<Observation(Steel, "grain", TRUE, TRUE)>>]]
=============================================================================
