---------------------------- MODULE MCTextbookBundle ----------------------------
(* Two corpora over four rows, of which three share a text.  They have as  *)
(* many rows of each kind, and the second repeats one.  The fallback has   *)
(* two candidate models, which no action and no property tells apart.      *)
EXTENDS ServerAdmission, TLC
CONSTANTS c1, e1, r1, r2, A, B
MCRow == {c1, e1, r1, r2}
MCText == {"s", "t"}
MCRows == <<<<<<c1>>, <<e1>>, <<r1, r2>>>>,
            <<<<c1>>, <<e1>>, <<r2, r2>>>>>>
MCTextOf == [r \in MCRow |-> IF r = r2 THEN "t" ELSE "s"]
MCCandidates == <<A, B>>
MCSymmetry == Permutations({A, B})
=============================================================================
