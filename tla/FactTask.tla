-------------------------------- MODULE FactTask --------------------------------
(***************************************************************************)
(* What the extraction of one evidence fragment promises: a bounded number *)
(* of attempts, and then one verdict that stands.  Everybody who is told   *)
(* anything is told that verdict.                                          *)
(***************************************************************************)
EXTENDS Naturals

CONSTANTS
  Verdict,     \* a fact batch or a terminal error, with the content it is for
  MaxAttempts,
  Nil

VARIABLES
  attempts,
  verdict,
  told         \* verdicts that calls returned or raised

vars == <<attempts, verdict, told>>

Init == attempts \in 0..MaxAttempts /\ verdict = Nil /\ told = {}

Try ==
  /\ verdict = Nil
  /\ attempts' \in attempts..MaxAttempts
  /\ UNCHANGED <<verdict, told>>

Decide(v) ==
  /\ verdict = Nil
  /\ verdict' = v
  /\ attempts' \in attempts..MaxAttempts
  /\ told' \in {told, told \cup {v}}

Tell ==
  /\ verdict # Nil
  /\ told' = told \cup {verdict}
  /\ UNCHANGED <<attempts, verdict>>

Next == Try \/ (\E v \in Verdict : Decide(v)) \/ Tell

Spec == Init /\ [][Next]_vars
===============================================================================
