---------------------------- MODULE MCProjection ----------------------------
(***************************************************************************)
(* Projection for TLC: two BFF endpoints, three services in two layers,    *)
(* one of them with two endpoints, an external service, two scenarios.     *)
(***************************************************************************)
EXTENDS Projection

ThreeServices == [o \in ServiceOps |-> IF o = 3 THEN 1 ELSE IF o = 6 THEN 3 ELSE 2]
UnevenScenarios == <<2, 1>>
SomeMeasures == [s \in StopVectors |-> IF s = 0 THEN 2 ELSE 1]
OneRetry == <<1, 0>>
ThreeOutcomes == {"ok", "slow", "err"}
SecondIsNeverSlow == <<Outcomes, {"ok", "err"}>>
TwoCalls == {<<2, 6>>, <<3, 4>>}
TimesThatTell == {<<3, 4>>, <<6, 4>>, <<2, 7>>}
ClientMasks == <<{"ok", "err"}, {"ok", "err"}>>
LatentAndMetrics == {{}, {"intensity", "load", "pool", "health"}}
=============================================================================
