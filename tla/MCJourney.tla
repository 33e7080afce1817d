----------------------------- MODULE MCJourney -----------------------------
(***************************************************************************)
(* Journey for TLC: two sessions of one device over a scenario of two      *)
(* steps with a retry and a scenario of one step.                          *)
(***************************************************************************)
EXTENDS Journey, Bitwise

OrOf(x, y) == x | y
TwoScenarios == <<<<2, 1>>, <<1>>>>
OneRetry == <<1, 0>>
OnFailure == <<{"5xx"}, {}>>
Masks == <<{"ok", "5xx"}, {"ok", "4xx"}>>
OneDevice == [g \in Sessions |-> 7]
AllOrLast(S) == {S} \cup {{x} : x \in {Max({0} \cup S)} \cap S}
=============================================================================
