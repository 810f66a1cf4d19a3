--------------------------- MODULE EvidenceRetention ---------------------------
(***************************************************************************)
(* From what the parser returns to the evidence that is kept:              *)
(* MinerUClient._normalize_content_list turns the rows of a content list   *)
(* into blocks with the path of headings they stand under,                 *)
(* GenericEvidenceAssessmentProvider.assess rates each block, and          *)
(* EvidenceSelector.retain keeps the best few, no text twice.              *)
(*                                                                         *)
(* A row is [kind, text, level, page]; level is 0 if it is no heading.     *)
(* A text is a value with a length, white space collapsed, and two signals *)
(* (About), Blank if nothing is left of it; confidence is in thousandths.  *)
(*                                                                         *)
(* An operator whose name ends in _CutFirst or the like is a faulty        *)
(* variant of the one below it; nothing else uses it.                      *)
(***************************************************************************)
EXTENDS Naturals, Sequences, SequencesExt, FiniteSets

CONSTANTS
  About,         \* About[text]: [length, measured, scientific]
  Blank,
  Substantive,   \* minimum_text_characters of the provider
  LeastLength,   \* and of the policy of the selector
  LeastRating,   \* minimum_confidence
  MaxFragments   \* max_fragments_per_source

ASSUME RetentionAssumption ==
  /\ \A t \in DOMAIN About : About[t].length \in Nat
  /\ Substantive \in Nat /\ LeastLength \in Nat /\ LeastRating \in 0..1000
  /\ MaxFragments \in Nat \ {0}
  /\ Blank \notin DOMAIN About

(* _heading_level answers no negative number.                              *)
ContentRow ==
  [kind : STRING, text : (DOMAIN About) \cup {Blank}, level : Nat, page : Nat]

Auxiliary == {"header", "footer", "page_number", "aside_text"}
-----------------------------------------------------------------------------
(* The stack of headings after rows 1..i.  A heading of a level replaces   *)
(* the one of that level and drops those below it.                         *)
Pushed(stack, level, text) ==
  [l \in 1..level |->
     IF l = level THEN text ELSE IF l <= Len(stack) THEN stack[l] ELSE Blank]

Stacks(rows) ==
  LET after[i \in 0..Len(rows)] ==
        IF i = 0 THEN <<>>
        ELSE IF rows[i].text # Blank /\ rows[i].level > 0
             THEN Pushed(after[i - 1], rows[i].level, rows[i].text)
             ELSE after[i - 1]
  IN after

MakeBlock(index, row, section) ==
  [index |-> index, kind |-> row.kind, text |-> row.text, page |-> row.page,
   section |-> section]

(* The path of headings: the levels that were skipped are left out.        *)
Path(stack) ==
  FoldLeft(LAMBDA path, text : IF text = Blank THEN path ELSE Append(path, text), <<>>, stack)

(* _normalize_content_list: rows without text give no block; the section   *)
(* is the path of headings.                                                *)
Normalized(rows) ==
  LET stacks == Stacks(rows) IN
    {MakeBlock(i, rows[i], Path(stacks[i])) : i \in {j \in DOMAIN rows : rows[j].text # Blank}}

(* GenericEvidenceAssessmentProvider.assess.                               *)
MakeAssessment(block, accepted, rating) ==
  [block |-> block, accepted |-> accepted, rating |-> rating]
Bonus(holds, points) == IF holds THEN points ELSE 0

(* The sum is of doubles: 0.65 + 0.05 + 0.05 comes out a last place above  *)
(* 0.65 + 0.10, which breaks what would be a tie.                          *)
Rating(b) ==
  LET table == b.kind = "table"
      headed == b.section # <<>>
      scientific == About[b.text].scientific
      rating == 650 + Bonus(About[b.text].measured, 150) + Bonus(scientific, 100)
                    + Bonus(table, 50) + Bonus(headed, 50)
                    + Bonus(table /\ headed /\ ~scientific, 1)
  IN IF rating > 950 THEN 950 ELSE rating
Assessed(b) ==
  IF b.kind \in Auxiliary THEN MakeAssessment(b, FALSE, 0)
  ELSE IF About[b.text].length < Substantive THEN MakeAssessment(b, FALSE, 200)
  ELSE MakeAssessment(b, TRUE, Rating(b))

(* EvidenceSelector.retain: down the ranking, until there are enough.      *)
Before(a, b) ==
  a.rating > b.rating \/ (a.rating = b.rating /\ a.block.index < b.block.index)
Eligible(a) ==
  /\ a.accepted /\ a.rating >= LeastRating
  /\ a.block.kind \notin Auxiliary
  /\ About[a.block.text].length >= LeastLength

Texts(kept) == {kept[i].text : i \in DOMAIN kept}
Kept(kept, a) ==
  IF Eligible(a) /\ a.block.text \notin Texts(kept) /\ Len(kept) < MaxFragments
  THEN Append(kept, a.block) ELSE kept

(* The n-th is the one that n - 1 others come before.                      *)
Ranked(blocks) ==
  LET assessed == {Assessed(b) : b \in blocks}
      better(a) == {b \in assessed : Before(b, a)}
  IN [n \in 1..Cardinality(assessed) |->
        CHOOSE a \in assessed : Cardinality(better(a)) = n - 1]
Retained_CutFirst(blocks) ==
  LET ranked == Ranked(blocks)
      first == SubSeq(ranked, 1, IF Len(ranked) < MaxFragments THEN Len(ranked) ELSE MaxFragments)
  IN FoldLeft(Kept, <<>>, first)
Retained(blocks) == FoldLeft(Kept, <<>>, Ranked(blocks))

FragmentsOf(rows) == Retained(Normalized(rows))
-----------------------------------------------------------------------------
(* The same said of the whole list: row i stands under the heading h if    *)
(* no heading after h, up to i, is of its level or above, and the best     *)
(* evidence is what no better block with the same text and no              *)
(* MaxFragments better texts exclude.                                      *)
Heading(rows, h) == rows[h].text # Blank /\ rows[h].level > 0
Under(rows, i) ==
  {h \in 1..i : Heading(rows, h) /\
     \A k \in h + 1..i : Heading(rows, k) => rows[k].level > rows[h].level}

StandsUnder(rows, b) ==
  LET headings == Under(rows, b.index) IN
    /\ DOMAIN b.section = 1..Cardinality(headings)
    /\ \A h \in headings :
         b.section[Cardinality({g \in headings : g <= h})] = rows[h].text

Best(rows) ==
  LET worth == {a \in {Assessed(b) : b \in Normalized(rows)} : Eligible(a)}
      first == {a \in worth : \A b \in worth : b.block.text = a.block.text => ~Before(b, a)}
  IN {a.block : a \in {x \in first : Cardinality({b \in first : Before(b, x)}) < MaxFragments}}
=============================================================================
