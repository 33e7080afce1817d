-------------------------- MODULE Targets_proofs --------------------------
(***************************************************************************)
(* Theorems about the target graphs: about CallGraph and Projection, for   *)
(* any endpoints, services, layers, fan-outs, scenarios, retries and       *)
(* outcomes; then about Cpdag and Score, for any acyclic graph and for any *)
(* targets, floors and predictions.                                        *)
(***************************************************************************)
EXTENDS Projection, Score, FiniteSetTheorems, WellFoundedInduction, TLAPS

(***************************************************************************)
(* Types.                                                                  *)
(***************************************************************************)
\* What journeys of increasing endpoints are.
LEMMA IncreasingTyped ==
  ASSUME NEW S \in SUBSET BffOps, NEW q \in Increasing(S)
  PROVE  q \in Seq(BffOps) /\ ToSet(q) = S
<1>1. IsFiniteSet(S)
  <2>1. S \in SUBSET Ops
    BY DEF Ops
  <2> QED
    BY <2>1, FS_Subset, CallGraphAssumption
<1>2. Cardinality(S) \in Nat
  BY <1>1, FS_CardinalityType
<1>3. q \in [1 .. Cardinality(S) -> S] /\ ToSet(q) = S
  BY DEF Increasing
<1>4. q \in Seq(S)
  BY <1>2, <1>3
<1>5. q \in Seq(BffOps)
  BY <1>4
<1> QED
  BY <1>3, <1>5

\* How the actions add calls.
LEMMA AddedCalls ==
  ASSUME TypeOK, NEW new \in SUBSET (Ops \X Ops), AddCalls(new)
  PROVE  /\ calls' = calls \cup new /\ calls' \subseteq Ops \X Ops
         /\ cached' \subseteq calls' /\ critical' \subseteq calls' /\ attached \subseteq calls'
BY DEF AddCalls, TypeOK

LEMMA CandidatesAreOps ==
  ASSUME NEW u \in BffOps \cup ServiceOps
  PROVE  Candidates(u) \subseteq ServiceOps
BY DEF Candidates, AtDepth, Deeper

LEMMA GraphTypeInit == Init => TypeOK
<1> SUFFICES ASSUME Init PROVE TypeOK
  OBVIOUS
<1>1. journeys \in Seq(Seq(BffOps))
  BY DEF Init
<1> QED
  BY <1>1, CallGraphAssumption DEF Init, TypeOK, Ops

LEMMA PlaceTyped ==
  ASSUME TypeOK, PlaceServices
  PROVE  TypeOK'
<1>1. layer' \in [Services -> 1 .. Levels]
  BY DEF PlaceServices
<1>2. layer' \in [Services -> 0 .. Levels]
  BY <1>1, CallGraphAssumption
<1> QED
  BY <1>2 DEF PlaceServices, TypeOK, journeyVars, calVars

LEMMA WireTyped ==
  ASSUME TypeOK, NEW u \in todo, Wire(u)
  PROVE  TypeOK'
<1>1. u \in BffOps \cup ServiceOps
  BY DEF TypeOK
<1>2. /\ calls' \subseteq Ops \X Ops /\ attached \subseteq calls'
      /\ cached' \subseteq calls' /\ critical' \subseteq calls'
  <2>1. CASE u \in ServiceOps /\ Deeper(Depth(u)) = {}
    BY <2>1 DEF Wire, TypeOK
  <2>2. CASE ~(u \in ServiceOps /\ Deeper(Depth(u)) = {})
    <3>1. PICK K \in SUBSET Candidates(u), X \in SUBSET ExternalOps : AddCalls({u} \X (K \cup X))
      BY <2>2 DEF Wire
    <3>2. {u} \X (K \cup X) \in SUBSET (Ops \X Ops)
      BY <1>1, <3>1, CandidatesAreOps DEF Ops
    <3> QED
      BY <3>1, <3>2, AddedCalls
  <2> QED
    BY <2>1, <2>2
<1> QED
  BY <1>2 DEF Wire, TypeOK, journeyVars, calVars

LEMMA AttachTyped ==
  ASSUME TypeOK, NEW o \in Orphans, Attach(o)
  PROVE  TypeOK'
<1>1. PICK c \in ShallowerThan(o) :
        /\ AddCalls({<<c, o>>}) /\ attached' = attached \cup {<<c, o>>}
        /\ reachable' = reachable \cup Reach({c}, calls')
  BY DEF Attach
<1>2. <<c, o>> \in Ops \X Ops
  BY DEF ShallowerThan, Orphans, Ops
<1>3. /\ calls' = calls \cup {<<c, o>>} /\ calls' \subseteq Ops \X Ops
      /\ cached' \subseteq calls' /\ critical' \subseteq calls'
  BY <1>1, <1>2, AddedCalls
<1>4. reachable' \subseteq Ops
  BY <1>1 DEF TypeOK, Reach
<1> QED
  BY <1>1, <1>3, <1>4 DEF Attach, TypeOK, journeyVars, calVars

\* What a drawn scenario has.
LEMMA DrawnScenario ==
  ASSUME TypeOK, DrawScenario
  PROVE  \E steps \in Nat \ {0}, first \in SUBSET uncovered, drawn \in SUBSET BffOps :
           \E journey \in Seq(BffOps) :
             /\ Cardinality(first) = (IF steps < Cardinality(uncovered) THEN steps
                                      ELSE Cardinality(uncovered))
             /\ ToSet(journey) = drawn /\ first \subseteq drawn
             /\ journeys' = Append(journeys, journey)
             /\ uncovered' = uncovered \ first
             /\ cursor' = cursor + steps
<1> DEFINE steps == Steps[Len(journeys) + 1]
<1> DEFINE k == IF steps < Cardinality(uncovered) THEN steps ELSE Cardinality(uncovered)
<1>1. PICK first \in kSubset(k, uncovered) :
        \E rest \in kSubset(steps - k, BffOps \ first) :
          /\ \E journey \in Increasing(first \cup rest) : journeys' = Append(journeys, journey)
          /\ uncovered' = uncovered \ first
          /\ cursor' = cursor + steps
  BY DEF DrawScenario
<1>2. PICK rest \in kSubset(steps - k, BffOps \ first) :
          /\ \E journey \in Increasing(first \cup rest) : journeys' = Append(journeys, journey)
          /\ uncovered' = uncovered \ first
          /\ cursor' = cursor + steps
  BY <1>1
<1>3. PICK journey \in Increasing(first \cup rest) : journeys' = Append(journeys, journey)
  BY <1>2
<1>4. first \cup rest \in SUBSET BffOps /\ first \in SUBSET uncovered /\ Cardinality(first) = k
  BY <1>1, <1>2 DEF kSubset, TypeOK
<1>5. journey \in Seq(BffOps) /\ ToSet(journey) = first \cup rest
  BY <1>3, <1>4, IncreasingTyped
<1>6. steps \in Nat \ {0}
  <2>1. Len(journeys) + 1 \in 1 .. Len(Steps)
    BY CallGraphAssumption DEF DrawScenario, TypeOK
  <2> QED
    BY <2>1, CallGraphAssumption
<1> HIDE DEF steps
<1> QED
  BY <1>2, <1>3, <1>4, <1>5, <1>6

LEMMA DrawTyped ==
  ASSUME TypeOK, DrawScenario
  PROVE  TypeOK'
<1>1. PICK steps \in Nat \ {0}, first \in SUBSET uncovered, journey \in Seq(BffOps) :
        /\ journeys' = Append(journeys, journey)
        /\ uncovered' = uncovered \ first
        /\ cursor' = cursor + steps
  BY DrawnScenario
<1>2. journeys' \in Seq(Seq(BffOps)) /\ uncovered' \subseteq BffOps /\ cursor' \in Nat
  BY <1>1 DEF TypeOK
<1> QED
  BY <1>2 DEF DrawScenario, TypeOK, graphVars, calVars

LEMMA CalibrateTyped ==
  ASSUME TypeOK, Calibrate
  PROVE  TypeOK'
<1>1. stop' \in StopVectors
  BY DEF Calibrate, TypeOK
<1>2. calSteps' \in 0 .. MaxSteps
  BY CallGraphAssumption DEF Calibrate, TypeOK
<1>3. best' = NoStep \/ (best'.stop \in StopVectors /\ best'.step \in 1 .. calSteps')
  <2>1. CASE best' = best
    BY <2>1, CallGraphAssumption DEF Calibrate, TypeOK
  <2>2. CASE best' = [tv |-> Measured[stop], stop |-> stop, step |-> calSteps + 1]
    BY <2>2, CallGraphAssumption DEF Calibrate, TypeOK
  <2> QED
    BY <2>1, <2>2 DEF Calibrate, Kept
<1> QED
  BY <1>1, <1>2, <1>3 DEF Calibrate, TypeOK, graphVars, journeyVars

LEMMA ShipTyped ==
  ASSUME TypeOK, Ship, best # NoStep
  PROVE  TypeOK'
BY DEF Ship, TypeOK, graphVars, journeyVars

LEMMA GraphTypeStep ==
  ASSUME TypeOK, Ship => best # NoStep, [Build]_vars
  PROVE  TypeOK'
<1>1. CASE PlaceServices
  BY <1>1, PlaceTyped
<1>2. CASE \E u \in todo : Wire(u)
  BY <1>2, WireTyped
<1>3. CASE StartAttaching
  BY <1>3 DEF StartAttaching, Reach, TypeOK, journeyVars, calVars
<1>4. CASE \E o \in Orphans : Attach(o)
  BY <1>4, AttachTyped
<1>5. CASE StartScenarios
  BY <1>5 DEF StartScenarios, TypeOK, graphVars, journeyVars, calVars
<1>6. CASE DrawScenario
  BY <1>6, DrawTyped
<1>7. CASE StartCalibration
  BY <1>7 DEF StartCalibration, TypeOK, graphVars, journeyVars, calVars
<1>8. CASE Calibrate
  BY <1>8, CalibrateTyped
<1>9. CASE Ship
  BY <1>9, ShipTyped
<1>10. CASE UNCHANGED vars
  BY <1>10 DEF TypeOK, vars, graphVars, journeyVars, calVars
<1> QED
  BY <1>1, <1>2, <1>3, <1>4, <1>5, <1>6, <1>7, <1>8, <1>9, <1>10 DEF Build

(***************************************************************************)
(* Depths.                                                                 *)
(***************************************************************************)
\* Nothing is called before services are placed; then none is in the BFF's layer.
Placed == IF pc = "place" THEN calls = {} ELSE layer \in [Services -> 1 .. Levels]

LEMMA DepthOf ==
  ASSUME layer \in [Services -> 1 .. Levels], NEW o \in Ops
  PROVE  /\ o \in BffOps => Depth(o) = 0
         /\ o \in ExternalOps => Depth(o) = Levels + 1
         /\ o \in ServiceOps => Depth(o) \in 1 .. Levels
BY CallGraphAssumption DEF Depth, Ops

LEMMA CandidatesAreDeeper ==
  ASSUME layer \in [Services -> 1 .. Levels], NEW u \in BffOps \cup ServiceOps,
         NEW v \in Candidates(u) \cup ExternalOps
  PROVE  Depth(u) < Depth(v)
<1>1. u \in Ops /\ v \in Ops
  BY CandidatesAreOps DEF Ops
<1>2. CASE v \in ExternalOps
  BY <1>1, <1>2, DepthOf, CallGraphAssumption
<1>3. CASE u \in BffOps /\ v \in Candidates(u)
  BY <1>1, <1>3, DepthOf DEF Candidates, AtDepth
<1>4. CASE u \in ServiceOps /\ u \notin BffOps /\ v \in Candidates(u)
  <2>1. Depth(u) \in 1 .. Levels
    BY <1>1, <1>4, DepthOf
  <2> QED
    BY <1>4, <2>1, CallGraphAssumption DEF Candidates, AtDepth, Deeper
<1> QED
  BY <1>2, <1>3, <1>4

LEMMA WireGoesDeeper ==
  ASSUME TypeOK, Placed, CallsGoDeeper, NEW u \in todo, Wire(u)
  PROVE  CallsGoDeeper'
<1>1. u \in BffOps \cup ServiceOps /\ layer \in [Services -> 1 .. Levels] /\ layer' = layer
  BY DEF Wire, TypeOK, Placed
<1>2. CASE u \in ServiceOps /\ Deeper(Depth(u)) = {}
  BY <1>1, <1>2 DEF Wire, CallsGoDeeper, Depth
<1>3. CASE ~(u \in ServiceOps /\ Deeper(Depth(u)) = {})
  <2>1. PICK K \in SUBSET Candidates(u), X \in SUBSET ExternalOps : AddCalls({u} \X (K \cup X))
    BY <1>3 DEF Wire
  <2>2. calls' = calls \cup ({u} \X (K \cup X))
    BY <2>1 DEF AddCalls
  <2>3. \A e \in {u} \X (K \cup X) : Depth(e[1]) < Depth(e[2])
    BY <1>1, CandidatesAreDeeper
  <2> QED
    BY <1>1, <2>2, <2>3 DEF CallsGoDeeper, Depth
<1> QED
  BY <1>2, <1>3

LEMMA AttachGoesDeeper ==
  ASSUME TypeOK, Placed, CallsGoDeeper, NEW o \in Orphans, Attach(o)
  PROVE  CallsGoDeeper'
<1>1. PICK c \in ShallowerThan(o) : AddCalls({<<c, o>>})
  BY DEF Attach
<1>2. layer \in [Services -> 1 .. Levels] /\ layer' = layer /\ o \in ServiceOps
  BY DEF Attach, Placed, Orphans
<1>3. Depth(c) < Depth(o)
  <2>1. CASE Depth(o) = 1
    <3>1. c \in BffOps
      BY <2>1 DEF ShallowerThan
    <3> QED
      BY <1>2, <2>1, <3>1, DepthOf DEF Ops
  <2>2. CASE Depth(o) # 1
    BY <2>2 DEF ShallowerThan
  <2> QED
    BY <2>1, <2>2
<1>4. calls' = calls \cup {<<c, o>>}
  BY <1>1 DEF AddCalls
<1> QED
  BY <1>2, <1>3, <1>4 DEF CallsGoDeeper, Depth

\* Every call leads to a deeper endpoint.
DepthInv == TypeOK /\ Placed /\ CallsGoDeeper

LEMMA DepthStep ==
  ASSUME DepthInv, [Build]_vars
  PROVE  Placed' /\ CallsGoDeeper'
<1> USE DEF DepthInv
<1>1. CASE PlaceServices
  <2>1. Placed'
    BY <1>1 DEF PlaceServices, Placed
  <2>2. calls = {} /\ calls' = {}
    BY <1>1 DEF PlaceServices, Placed
  <2> QED
    BY <2>1, <2>2 DEF CallsGoDeeper
<1>2. CASE \E u \in todo : Wire(u)
  BY <1>2, WireGoesDeeper DEF Wire, Placed
<1>3. CASE StartAttaching \/ StartScenarios \/ DrawScenario \/ StartCalibration \/ Calibrate \/ Ship
             \/ UNCHANGED vars
  <2>1. layer' = layer /\ calls' = calls /\ (pc = "place" <=> pc' = "place")
    BY <1>3 DEF StartAttaching, StartScenarios, DrawScenario, StartCalibration, Calibrate, Ship,
                vars, graphVars
  <2> QED
    BY <2>1 DEF Placed, CallsGoDeeper, Depth
<1>4. CASE \E o \in Orphans : Attach(o)
  BY <1>4, AttachGoesDeeper DEF Attach, Placed
<1> QED
  BY <1>1, <1>2, <1>3, <1>4 DEF Build

(***************************************************************************)
(* Reachability.                                                           *)
(***************************************************************************)
\* More starting points and more calls reach more.
LEMMA ReachMonotone ==
  ASSUME NEW R, NEW Roots, NEW E, NEW E2, R \subseteq Roots, E \subseteq E2
  PROVE  Reach(R, E) \subseteq Reach(Roots, E2)
BY DEF Reach

\* The starting points are reached.
LEMMA ReachHolds ==
  ASSUME NEW R \in SUBSET Ops, NEW E
  PROVE  R \subseteq Reach(R, E)
BY DEF Reach

\* So are the callees of what is reached.
LEMMA ReachStep ==
  ASSUME NEW R, NEW E, NEW e \in E, e[1] \in Reach(R, E), e[2] \in Ops
  PROVE  e[2] \in Reach(R, E)
BY DEF Reach

\* What is reached from reached endpoints is itself reached.
LEMMA ReachClosed ==
  ASSUME NEW R, NEW E, E \subseteq Ops \X Ops, NEW Roots, Roots \subseteq Reach(R, E)
  PROVE  Reach(Roots, E) \subseteq Reach(R, E)
<1>1. Reach(R, E) \in SUBSET Ops
  BY DEF Reach
<1>2. \A e \in E : e[1] \in Reach(R, E) => e[2] \in Reach(R, E)
  BY ReachStep
<1> QED
  BY <1>1, <1>2 DEF Reach

\* What is noted as reached is, and once nobody is left to attach everybody is.
ReachInv ==
  /\ pc = "attach" => reachable \subseteq Reach(BffOps, calls)
  /\ pc \in {"scenarios", "calibrate", "ready"} => ServiceOps \subseteq Reach(BffOps, calls)

LEMMA AttachReaches ==
  ASSUME TypeOK, ReachInv, NEW o \in Orphans, Attach(o)
  PROVE  reachable' \subseteq Reach(BffOps, calls')
<1>1. PICK c \in ShallowerThan(o) :
        /\ AddCalls({<<c, o>>})
        /\ reachable' = reachable \cup Reach({c}, calls')
  BY DEF Attach
<1>2. calls' = calls \cup {<<c, o>>} /\ calls' \subseteq Ops \X Ops
  BY <1>1, AddedCalls DEF ShallowerThan, Orphans, Ops
<1>3. reachable \subseteq Reach(BffOps, calls')
  <2>1. Reach(BffOps, calls) \subseteq Reach(BffOps, calls')
    BY <1>2, ReachMonotone
  <2> QED
    BY <2>1 DEF Attach, ReachInv
<1>4. c \in Reach(BffOps, calls')
  <2>1. BffOps \subseteq Reach(BffOps, calls')
    BY ReachHolds DEF Ops
  <2> QED
    BY <1>3, <2>1 DEF ShallowerThan
<1>5. Reach({c}, calls') \subseteq Reach(BffOps, calls')
  BY <1>2, <1>4, ReachClosed
<1> QED
  BY <1>1, <1>3, <1>5

LEMMA ReachInvStep ==
  ASSUME TypeOK, ReachInv, [Build]_vars
  PROVE  ReachInv'
<1>1. CASE PlaceServices \/ \E u \in todo : Wire(u)
  BY <1>1 DEF PlaceServices, Wire, ReachInv
<1>2. CASE StartAttaching
  BY <1>2 DEF StartAttaching, ReachInv
<1>3. CASE \E o \in Orphans : Attach(o)
  BY <1>3, AttachReaches DEF Attach, ReachInv
<1>4. CASE StartScenarios
  BY <1>4 DEF StartScenarios, ReachInv, Orphans, graphVars
<1>5. CASE DrawScenario \/ StartCalibration \/ Calibrate \/ Ship
  <2>1. calls' = calls /\ pc \in {"scenarios", "calibrate"} /\ pc' # "attach"
    BY <1>5 DEF DrawScenario, StartCalibration, Calibrate, Ship, graphVars
  <2> QED
    BY <2>1 DEF ReachInv
<1>6. CASE UNCHANGED vars
  BY <1>6 DEF ReachInv, vars, graphVars
<1> QED
  BY <1>1, <1>2, <1>3, <1>4, <1>5, <1>6 DEF Build

(***************************************************************************)
(* Scenarios.                                                              *)
(***************************************************************************)
\* A BFF endpoint that no scenario drew first is all that a journey can miss, and
\* while there is one every step has drawn another.
CoverInv ==
  /\ BffOps \ uncovered \subseteq Visited
  /\ uncovered # {} => Cardinality(uncovered) + cursor = Cardinality(BffOps)

LEMMA DrawVisits ==
  ASSUME TypeOK, NEW journey \in Seq(BffOps), journeys' = Append(journeys, journey)
  PROVE  Visited' = Visited \cup ToSet(journey)
<1>1. journeys \in Seq(Seq(BffOps))
  BY DEF TypeOK
<1>2. DOMAIN journeys' = DOMAIN journeys \cup {Len(journeys) + 1}
  BY <1>1
<1>3. /\ \A i \in DOMAIN journeys : journeys'[i] = journeys[i]
      /\ journeys'[Len(journeys) + 1] = journey
  BY <1>1
<1> QED
  BY <1>2, <1>3 DEF Visited

LEMMA DrawCovers ==
  ASSUME TypeOK, CoverInv, DrawScenario
  PROVE  CoverInv'
<1>1. PICK steps \in Nat \ {0}, first \in SUBSET uncovered, drawn \in SUBSET BffOps :
        \E journey \in Seq(BffOps) :
             /\ Cardinality(first) = (IF steps < Cardinality(uncovered) THEN steps
                                      ELSE Cardinality(uncovered))
             /\ ToSet(journey) = drawn /\ first \subseteq drawn
             /\ journeys' = Append(journeys, journey)
             /\ uncovered' = uncovered \ first
             /\ cursor' = cursor + steps
  BY DrawnScenario
<1>2. Visited' = Visited \cup drawn /\ first \subseteq drawn
  BY <1>1, DrawVisits
<1>3. BffOps \ uncovered' \subseteq Visited'
  BY <1>1, <1>2 DEF CoverInv
<1>4. IsFiniteSet(uncovered) /\ Cardinality(uncovered) \in Nat
  <2>1. uncovered \subseteq Ops
    BY DEF TypeOK, Ops
  <2> QED
    BY <2>1, FS_Subset, FS_CardinalityType, CallGraphAssumption
<1>5. Cardinality(uncovered') = Cardinality(uncovered) - Cardinality(first)
  <2>1. uncovered' = uncovered \ first /\ uncovered \cap first = first
    BY <1>1
  <2> QED
    BY <1>4, <2>1, FS_Difference
<1>6. ASSUME uncovered' # {}
      PROVE  Cardinality(uncovered') + cursor' = Cardinality(BffOps)
  <2>1. Cardinality(uncovered') # 0
    <3>1. IsFiniteSet(uncovered')
      BY <1>1, <1>4, FS_Subset
    <3> QED
      BY <1>6, <3>1, FS_EmptySet
  <2>2. Cardinality(first) = steps /\ uncovered # {}
    BY <1>1, <1>4, <1>5, <1>6, <2>1
  <2> QED
    BY <1>1, <1>4, <1>5, <2>2 DEF CoverInv, TypeOK
<1> QED
  BY <1>3, <1>6 DEF CoverInv

LEMMA CoverStep ==
  ASSUME TypeOK, CoverInv, [Build]_vars
  PROVE  CoverInv'
<1>1. CASE DrawScenario
  BY <1>1, DrawCovers
<1>2. CASE ~DrawScenario
  <2>1. UNCHANGED journeyVars
    BY <1>2 DEF Build, PlaceServices, Wire, StartAttaching, Attach, StartScenarios,
                StartCalibration, Calibrate, Ship, vars
  <2> QED
    BY <2>1 DEF CoverInv, Visited, journeyVars
<1> QED
  BY <1>1, <1>2

(***************************************************************************)
(* Calibration.                                                            *)
(***************************************************************************)
\* The best step is one that was measured, and none worse than the first; the graph
\* is ready only with the probabilities of that step.
CalInv ==
  /\ calSteps = 0 <=> best = NoStep
  /\ calSteps = 0 => stop = ClosedForm
  /\ best # NoStep => best.tv = Measured[best.stop] /\ best.tv <= Measured[ClosedForm]
  /\ pc = "ready" => best # NoStep /\ callP = [e \in calls |-> CallRule(e, best.stop)]

\* A step that has been taken is not NoStep.
LEMMA StepTaken ==
  ASSUME TypeOK, NEW tv, NEW s, NEW n \in Nat
  PROVE  [tv |-> tv, stop |-> s, step |-> n + 1] # NoStep
<1>1. [tv |-> tv, stop |-> s, step |-> n + 1].step = n + 1 /\ NoStep.step = 0
  BY DEF NoStep
<1> QED
  BY <1>1

LEMMA CalibrateKeepsBest ==
  ASSUME TypeOK, CalInv, Calibrate
  PROVE  CalInv'
<1>1. calSteps \in Nat /\ calSteps' = calSteps + 1 /\ pc' = "calibrate"
  BY CallGraphAssumption DEF Calibrate, TypeOK
<1>2. /\ best' # NoStep /\ best'.tv = Measured[best'.stop]
      /\ best'.tv <= Measured[ClosedForm]
  <2>1. CASE best # NoStep /\ ~(Measured[stop] < best.tv)
    BY <2>1 DEF Calibrate, Kept, CalInv
  <2>2. CASE best = NoStep
    <3>1. best' = [tv |-> Measured[stop], stop |-> stop, step |-> calSteps + 1]
      BY <2>2 DEF Calibrate, Kept
    <3>2. stop = ClosedForm
      BY <2>2 DEF CalInv
    <3> QED
      BY <1>1, <3>1, <3>2, StepTaken, CallGraphAssumption
  <2>3. CASE best # NoStep /\ Measured[stop] < best.tv
    <3>1. best' = [tv |-> Measured[stop], stop |-> stop, step |-> calSteps + 1]
      BY <2>3 DEF Calibrate, Kept
    <3>2. Measured[stop] \in Nat /\ best.tv \in Nat /\ Measured[ClosedForm] \in Nat
      BY <2>3, CallGraphAssumption DEF CalInv, TypeOK
    <3>3. best' # NoStep
      BY <1>1, <3>1, StepTaken
    <3> QED
      BY <2>3, <3>1, <3>2, <3>3 DEF CalInv
  <2> QED
    BY <2>1, <2>2, <2>3
<1> QED
  BY <1>1, <1>2 DEF CalInv

\* The graph ships only after a step.
LEMMA ShipHasBest ==
  ASSUME TypeOK, CalInv, Ship
  PROVE  best # NoStep
<1>1. calSteps = MaxSteps => calSteps # 0
  BY CallGraphAssumption
<1> QED
  BY <1>1 DEF Ship, CloseEnough, CalInv

LEMMA ShipsBest ==
  ASSUME TypeOK, CalInv, Ship
  PROVE  CalInv'
<1>1. callP' = [e \in calls |-> CallRule(e, best.stop)]
  BY DEF Ship, SetCallProbabilities
<1>2. /\ calls' = calls /\ attached' = attached /\ layer' = layer
      /\ best' = best /\ calSteps' = calSteps
  BY DEF Ship, graphVars
<1>3. [e \in calls |-> CallRule(e, best.stop)]' = [e \in calls |-> CallRule(e, best.stop)]
  BY <1>2 DEF CallRule, Callees, Depth
<1>4. best # NoStep /\ calSteps # 0
  BY ShipHasBest DEF CalInv
<1> QED
  BY <1>1, <1>2, <1>3, <1>4 DEF CalInv

LEMMA CalStep ==
  ASSUME TypeOK, CalInv, [Build]_vars
  PROVE  CalInv'
<1>1. CASE Calibrate
  BY <1>1, CalibrateKeepsBest
<1>2. CASE Ship
  BY <1>2, ShipsBest
<1>3. CASE PlaceServices \/ (\E u \in todo : Wire(u)) \/ StartAttaching
             \/ (\E o \in Orphans : Attach(o)) \/ StartScenarios \/ DrawScenario
             \/ StartCalibration
  <2>1. UNCHANGED calVars /\ pc' # "ready"
    BY <1>3 DEF PlaceServices, Wire, StartAttaching, Attach, StartScenarios, DrawScenario,
                StartCalibration
  <2> QED
    BY <2>1 DEF CalInv, calVars
<1>4. CASE UNCHANGED vars
  <2>1. UNCHANGED <<pc, layer, calls, attached, callP, stop, best, calSteps>>
    BY <1>4 DEF vars, graphVars, calVars
  <2>2. [e \in calls |-> CallRule(e, best.stop)]' = [e \in calls |-> CallRule(e, best.stop)]
    BY <2>1 DEF CallRule, Callees, Depth
  <2> QED
    BY <2>1, <2>2 DEF CalInv
<1> QED
  BY <1>1, <1>2, <1>3, <1>4 DEF Build

(***************************************************************************)
(* The theorems.                                                           *)
(***************************************************************************)
GraphInv == DepthInv /\ ReachInv /\ CoverInv /\ CalInv

LEMMA GraphInvInit == Init => GraphInv
<1> SUFFICES ASSUME Init PROVE GraphInv
  OBVIOUS
<1>1. TypeOK
  BY GraphTypeInit
<1>2. Placed /\ CallsGoDeeper /\ ReachInv /\ CalInv
  BY DEF Init, Placed, CallsGoDeeper, ReachInv, CalInv
<1>3. CoverInv
  <2>1. IsFiniteSet(BffOps)
    <3>1. BffOps \in SUBSET Ops
      BY DEF Ops
    <3> QED
      BY <3>1, FS_Subset, CallGraphAssumption
  <2>2. Cardinality(BffOps) \in Nat
    BY <2>1, FS_CardinalityType
  <2> QED
    BY <2>2 DEF Init, CoverInv
<1> QED
  BY <1>1, <1>2, <1>3 DEF GraphInv, DepthInv

LEMMA GraphInvStep == GraphInv /\ [Build]_vars => GraphInv'
<1> SUFFICES ASSUME GraphInv, [Build]_vars PROVE GraphInv'
  OBVIOUS
<1>1. TypeOK'
  BY GraphTypeStep, ShipHasBest DEF GraphInv, DepthInv
<1>2. Placed' /\ CallsGoDeeper'
  BY DepthStep DEF GraphInv
<1>3. ReachInv' /\ CoverInv' /\ CalInv'
  BY ReachInvStep, CoverStep, CalStep DEF GraphInv, DepthInv
<1> QED
  BY <1>1, <1>2, <1>3 DEF GraphInv, DepthInv

LEMMA GraphInvHolds == GraphSpec => []GraphInv
BY GraphInvInit, GraphInvStep, PTL DEF GraphSpec

\* The graph, the journeys and the calibration stay what build_topology,
\* build_scenarios and assign_call_probabilities declare them to be.
THEOREM GraphTypeCorrect == GraphSpec => []TypeOK
<1>1. GraphInv => TypeOK
  BY DEF GraphInv, DepthInv
<1> QED
  BY <1>1, GraphInvHolds, PTL

\* No endpoint ever calls one that is not deeper, so that a request is a tree.
THEOREM GraphCallsGoDeeper == GraphSpec => []CallsGoDeeper
<1>1. GraphInv => CallsGoDeeper
  BY DEF GraphInv, DepthInv
<1> QED
  BY <1>1, GraphInvHolds, PTL

\* When the scenarios have enough steps, every backend endpoint is reached from an
\* endpoint that some journey visits.
THEOREM EveryOpReached == GraphSpec => []EveryOpOnJourney
<1>1. GraphInv => EveryOpOnJourney
  <2> SUFFICES ASSUME GraphInv, pc = "ready", cursor >= Cardinality(BffOps)
               PROVE  ServiceOps \subseteq Reach(Visited, calls)
    BY DEF EveryOpOnJourney
  <2>1. uncovered = {}
    <3> SUFFICES ASSUME uncovered # {} PROVE FALSE
      OBVIOUS
    <3>1. uncovered \subseteq BffOps /\ BffOps \subseteq Ops /\ cursor \in Nat
      BY DEF GraphInv, DepthInv, TypeOK, Ops
    <3>2. IsFiniteSet(BffOps) /\ IsFiniteSet(uncovered)
      BY <3>1, FS_Subset, CallGraphAssumption
    <3>3. Cardinality(uncovered) \in Nat \ {0} /\ Cardinality(BffOps) \in Nat
      BY <3>2, FS_EmptySet, FS_CardinalityType
    <3>4. Cardinality(uncovered) + cursor = Cardinality(BffOps)
      BY DEF GraphInv, CoverInv
    <3> QED
      BY <3>1, <3>3, <3>4
  <2>2. Reach(BffOps, calls) \subseteq Reach(Visited, calls)
    BY <2>1, ReachMonotone DEF GraphInv, CoverInv
  <2> QED
    BY <2>2 DEF GraphInv, ReachInv
<1> QED
  BY <1>1, GraphInvHolds, PTL

\* The probabilities that ship are those whose calibration is recorded, and none
\* is further from the profile than the closed form.
THEOREM BestShips == GraphSpec => []ShippedIsBest
<1>1. GraphInv => ShippedIsBest
  BY DEF GraphInv, CalInv, ShippedIsBest
<1> QED
  BY <1>1, GraphInvHolds, PTL

(***************************************************************************)
(* Recursion over the natural numbers.                                     *)
(***************************************************************************)
Less == {p \in Nat \X Nat : p[1] < p[2]}

LEMMA LeastNatural ==
  ASSUME NEW S \in SUBSET Nat, S # {}
  PROVE  \E x \in S : \A y \in S : x <= y
<1>1. IsWellFoundedOn(Less, Nat)
  BY NatLessThanWellFounded DEF OpToRel, Less
<1>2. PICK x \in S : \A y \in S : ~(<<y, x>> \in Less)
  BY <1>1, WFMin
<1>3. ASSUME NEW y \in S PROVE x <= y
  <2>1. x \in Nat /\ y \in Nat /\ ~(<<y, x>> \in Less)
    BY <1>2
  <2> QED
    BY <2>1 DEF Less
<1> QED
  BY <1>3

\* A set of naturals that has 0 and the successor of each member has them all.
LEMMA InductionOnNat ==
  ASSUME NEW S \in SUBSET Nat, 0 \in S, \A n \in S : n + 1 \in S
  PROVE  S = Nat
<1> SUFFICES ASSUME Nat \ S # {} PROVE FALSE
  OBVIOUS
<1>1. PICK x \in Nat \ S : \A y \in Nat \ S : x <= y
  BY LeastNatural
<1>2. x # 0 /\ x - 1 \in Nat /\ ~(x <= x - 1)
  BY <1>1
<1>3. x - 1 \in S
  BY <1>1, <1>2
<1>4. x - 1 + 1 = x
  BY <1>1
<1> QED
  BY <1>1, <1>3, <1>4

\* The first n values of a recursion.
Recurs(f, n, a0, step) == f[0] = a0 /\ \A i \in 0 .. n - 1 : f[i + 1] = step[f[i]]

LEMMA RecursionIsUnique ==
  ASSUME NEW V, NEW a0 \in V, NEW step \in [V -> V], NEW n \in Nat, NEW m \in Nat, n <= m,
         NEW f \in [0 .. n -> V], NEW g \in [0 .. m -> V],
         Recurs(f, n, a0, step), Recurs(g, m, a0, step)
  PROVE  \A i \in 0 .. n : f[i] = g[i]
<1> DEFINE S == {i \in Nat : i <= n => f[i] = g[i]}
<1>1. 0 \in S
  BY DEF Recurs
<1>2. ASSUME NEW i \in S PROVE i + 1 \in S
  <2> SUFFICES ASSUME i + 1 <= n PROVE f[i + 1] = g[i + 1]
    OBVIOUS
  <2>1. i \in 0 .. n - 1 /\ i \in 0 .. m - 1 /\ f[i] = g[i]
    OBVIOUS
  <2> QED
    BY <2>1 DEF Recurs
<1>3. S = Nat
  <2>1. S \in SUBSET Nat
    OBVIOUS
  <2> HIDE DEF S
  <2> QED
    BY <1>1, <1>2, <2>1, InductionOnNat
<1> QED
  BY <1>3

LEMMA FirstValuesExist ==
  ASSUME NEW V, NEW a0 \in V, NEW step \in [V -> V]
  PROVE  \A n \in Nat : \E f \in [0 .. n -> V] : Recurs(f, n, a0, step)
<1> DEFINE S == {n \in Nat : \E f \in [0 .. n -> V] : Recurs(f, n, a0, step)}
<1>1. 0 \in S
  <2> DEFINE f == [i \in 0 .. 0 |-> a0]
  <2>1. f \in [0 .. 0 -> V] /\ Recurs(f, 0, a0, step)
    BY DEF Recurs
  <2> QED
    BY <2>1
<1>2. ASSUME NEW n \in S PROVE n + 1 \in S
  <2>1. PICK f \in [0 .. n -> V] : Recurs(f, n, a0, step)
    OBVIOUS
  <2> DEFINE g == [i \in 0 .. n + 1 |-> IF i = n + 1 THEN step[f[n]] ELSE f[i]]
  <2>2. n \in 0 .. n /\ \A i \in 0 .. n + 1 : i # n + 1 => i \in 0 .. n
    OBVIOUS
  <2>3. g \in [0 .. n + 1 -> V]
    BY <2>1, <2>2
  <2>4. g[0] = a0
    BY <2>1 DEF Recurs
  <2>5. ASSUME NEW i \in 0 .. n + 1 - 1 PROVE g[i + 1] = step[g[i]]
    <3>1. g[i] = f[i] /\ i + 1 \in 0 .. n + 1
      OBVIOUS
    <3>2. CASE i = n
      <4>1. g[i + 1] = step[f[n]]
        BY <3>1, <3>2
      <4> QED
        BY <3>1, <3>2, <4>1
    <3>3. CASE i # n
      <4>1. g[i + 1] = f[i + 1] /\ i \in 0 .. n - 1
        BY <3>1, <3>3
      <4> QED
        BY <2>1, <3>1, <4>1 DEF Recurs
    <3> QED
      BY <3>2, <3>3
  <2> HIDE DEF g
  <2>6. Recurs(g, n + 1, a0, step)
    BY <2>4, <2>5 DEF Recurs
  <2> QED
    BY <2>3, <2>6
<1>3. S = Nat
  <2>1. S \in SUBSET Nat
    OBVIOUS
  <2> HIDE DEF S
  <2> QED
    BY <1>1, <1>2, <2>1, InductionOnNat
<1> QED
  BY <1>3

\* A recursion over the naturals has a value at each of them.
LEMMA RecursionExists ==
  ASSUME NEW V, NEW a0 \in V, NEW step \in [V -> V]
  PROVE  \E W \in [Nat -> V] : W[0] = a0 /\ \A n \in Nat : W[n + 1] = step[W[n]]
<1> DEFINE First(n) == CHOOSE f \in [0 .. n -> V] : Recurs(f, n, a0, step)
<1>1. \A n \in Nat : First(n) \in [0 .. n -> V] /\ Recurs(First(n), n, a0, step)
  BY FirstValuesExist
<1> HIDE DEF First
<1> DEFINE W == [n \in Nat |-> First(n)[n]]
<1>2. W \in [Nat -> V]
  <2> SUFFICES ASSUME NEW n \in Nat PROVE First(n)[n] \in V
    OBVIOUS
  <2>1. n \in 0 .. n
    OBVIOUS
  <2> QED
    BY <1>1, <2>1
<1>3. W[0] = a0
  BY <1>1 DEF Recurs
<1>4. ASSUME NEW n \in Nat PROVE W[n + 1] = step[W[n]]
  <2>1. /\ First(n) \in [0 .. n -> V] /\ Recurs(First(n), n, a0, step)
        /\ First(n + 1) \in [0 .. n + 1 -> V] /\ Recurs(First(n + 1), n + 1, a0, step)
    BY <1>1
  <2>2. \A i \in 0 .. n : First(n)[i] = First(n + 1)[i]
    BY <2>1, RecursionIsUnique
  <2>3. n \in 0 .. n /\ n \in 0 .. n + 1 - 1
    OBVIOUS
  <2>4. First(n + 1)[n + 1] = step[First(n + 1)[n]]
    BY <2>1, <2>3 DEF Recurs
  <2> QED
    BY <2>2, <2>3, <2>4
<1> HIDE DEF W
<1> QED
  BY <1>2, <1>3, <1>4

(***************************************************************************)
(* What Spread reaches.                                                    *)
(***************************************************************************)
OneRound(X, kids, M) == X \cup UNION {kids[x] : x \in X \cap M}

\* Rounds are what the definition of Spread counts.
IsRounds(W, kids, M) ==
  LET D == DOMAIN kids IN
  /\ W \in [Nat -> [SUBSET D -> SUBSET D]]
  /\ \A X \in SUBSET D : W[0][X] = X
  /\ \A n \in Nat : \A X \in SUBSET D :
       W[n + 1][X] = IF OneRound(X, kids, M) = X THEN X ELSE W[n][OneRound(X, kids, M)]

IsKids(kids, D) == kids \in [D -> SUBSET D]

LEMMA OneRoundTyped ==
  ASSUME NEW D, NEW kids, IsKids(kids, D), NEW M, NEW X \in SUBSET D
  PROVE  OneRound(X, kids, M) \in SUBSET D
BY DEF OneRound, IsKids

LEMMA RoundsExist ==
  ASSUME NEW D, NEW kids, IsKids(kids, D), NEW M
  PROVE  \E W : IsRounds(W, kids, M)
<1> DEFINE Maps == [SUBSET D -> SUBSET D]
           same == [X \in SUBSET D |-> X]
           further == [h \in Maps |-> [X \in SUBSET D |-> IF OneRound(X, kids, M) = X THEN X
                                                          ELSE h[OneRound(X, kids, M)]]]
<1>1. same \in Maps
  OBVIOUS
<1>2. further \in [Maps -> Maps]
  <2> SUFFICES ASSUME NEW h \in Maps
               PROVE  [X \in SUBSET D |-> IF OneRound(X, kids, M) = X THEN X
                                         ELSE h[OneRound(X, kids, M)]] \in Maps
    OBVIOUS
  <2> SUFFICES ASSUME NEW X \in SUBSET D
               PROVE  (IF OneRound(X, kids, M) = X THEN X ELSE h[OneRound(X, kids, M)]) \in SUBSET D
    OBVIOUS
  <2> QED
    BY OneRoundTyped
<1>3. PICK W \in [Nat -> Maps] : W[0] = same /\ \A n \in Nat : W[n + 1] = further[W[n]]
  <2> HIDE DEF Maps, same, further
  <2> QED
    BY <1>1, <1>2, RecursionExists
<1>4. \A n \in Nat : W[n] \in Maps /\ W[n + 1] =
        [X \in SUBSET D |-> IF OneRound(X, kids, M) = X THEN X ELSE W[n][OneRound(X, kids, M)]]
  BY <1>3
<1>5. W \in [Nat -> [SUBSET D -> SUBSET D]] /\ \A X \in SUBSET D : W[0][X] = X
  BY <1>3
<1>6. ASSUME NEW n \in Nat, NEW X \in SUBSET D
      PROVE  W[n + 1][X] = IF OneRound(X, kids, M) = X THEN X ELSE W[n][OneRound(X, kids, M)]
  BY <1>4
<1>7. DOMAIN kids = D
  BY DEF IsKids
<1>8. IsRounds(W, kids, M)
  BY <1>5, <1>6, <1>7 DEF IsRounds
<1> QED
  BY <1>8

\* Spread is the rounds, as many as there are nodes.
LEMMA SpreadIsRounds ==
  ASSUME NEW D, NEW kids, IsKids(kids, D), NEW M, NEW R \in SUBSET D
  PROVE  \E W : IsRounds(W, kids, M) /\ Spread(R, kids, M) = W[Cardinality(D)][R]
<1> DEFINE Eqn(W) == W = [n \in Nat |->
        IF n = 0 THEN [X \in SUBSET DOMAIN kids |-> X]
        ELSE [X \in SUBSET DOMAIN kids |->
                IF OneRound(X, kids, M) = X THEN X ELSE W[n - 1][OneRound(X, kids, M)]]]
<1> DEFINE G == CHOOSE W : Eqn(W)
<1>1. ASSUME NEW W, IsRounds(W, kids, M) PROVE Eqn(W)
  <2>1. DOMAIN kids = D /\ W \in [Nat -> [SUBSET D -> SUBSET D]]
    BY <1>1 DEF IsRounds, IsKids
  <2>2. W[0] = [X \in SUBSET D |-> X]
    BY <1>1, <2>1 DEF IsRounds
  <2>3. ASSUME NEW n \in Nat, n # 0
        PROVE  W[n] = [X \in SUBSET D |-> IF OneRound(X, kids, M) = X THEN X
                                          ELSE W[n - 1][OneRound(X, kids, M)]]
    <3>1. n - 1 \in Nat /\ n - 1 + 1 = n
      BY <2>3
    <3>2. W[n] \in [SUBSET D -> SUBSET D]
      BY <2>1
    <3>3. \A X \in SUBSET D : W[n][X] = IF OneRound(X, kids, M) = X THEN X
                                          ELSE W[n - 1][OneRound(X, kids, M)]
      BY <1>1, <2>1, <3>1 DEF IsRounds
    <3> QED
      BY <3>2, <3>3
  <2> QED
    BY <2>1, <2>2, <2>3
<1>2. Eqn(G)
  BY <1>1, RoundsExist
<1>3. PICK W : IsRounds(W, kids, M)
  BY RoundsExist
<1>7. Eqn(W)
  BY <1>1, <1>3
<1>5. Spread(R, kids, M) = G[Cardinality(DOMAIN kids)][R]
  BY DEF Spread, OneRound
<1> HIDE DEF G
<1>4. G = W
  <2> DEFINE S == {n \in Nat : G[n] = W[n]}
  <2>1. 0 \in S
    BY <1>2, <1>7
  <2>2. ASSUME NEW n \in S PROVE n + 1 \in S
    <3>1. n + 1 \in Nat /\ n + 1 # 0 /\ n + 1 - 1 = n /\ G[n] = W[n]
      OBVIOUS
    <3>2. G[n + 1] = [X \in SUBSET DOMAIN kids |->
                IF OneRound(X, kids, M) = X THEN X ELSE G[n + 1 - 1][OneRound(X, kids, M)]]
      BY <1>2, <3>1
    <3>3. W[n + 1] = [X \in SUBSET DOMAIN kids |->
                IF OneRound(X, kids, M) = X THEN X ELSE W[n + 1 - 1][OneRound(X, kids, M)]]
      BY <1>7, <3>1
    <3>4. G[n + 1] = W[n + 1]
      BY <3>1, <3>2, <3>3
    <3> QED
      BY <3>1, <3>4
  <2>3. S = Nat
    <3>1. S \in SUBSET Nat
      OBVIOUS
    <3> HIDE DEF S
    <3> QED
      BY <2>1, <2>2, <3>1, InductionOnNat
  <2>4. G = [n \in Nat |-> G[n]] /\ W = [n \in Nat |-> W[n]]
    BY <1>2, <1>7
  <2> QED
    BY <2>3, <2>4
<1>6. DOMAIN kids = D
  BY DEF IsKids
<1> QED
  BY <1>3, <1>4, <1>5, <1>6

ClosedUnder(S, kids, M) == \A x \in S \cap M : kids[x] \subseteq S

\* What holds of the nodes that rounds start from and of the nodes of every round
\* holds of all.
LEMMA RoundsWithin ==
  ASSUME NEW D, NEW kids, IsKids(kids, D), NEW M, NEW W, IsRounds(W, kids, M),
         NEW S \in SUBSET D, ClosedUnder(S, kids, M)
  PROVE  \A n \in Nat : \A X \in SUBSET S : W[n][X] \subseteq S
<1> DEFINE G == {n \in Nat : \A X \in SUBSET S : W[n][X] \subseteq S}
<1>1. DOMAIN kids = D
  BY DEF IsKids
<1>2. 0 \in G
  BY <1>1 DEF IsRounds
<1>3. ASSUME NEW n \in G PROVE n + 1 \in G
  <2> SUFFICES ASSUME NEW X \in SUBSET S PROVE W[n + 1][X] \subseteq S
    OBVIOUS
  <2>1. OneRound(X, kids, M) \in SUBSET S
    BY DEF OneRound, ClosedUnder
  <2>2. W[n + 1][X] = IF OneRound(X, kids, M) = X THEN X ELSE W[n][OneRound(X, kids, M)]
    BY <1>1 DEF IsRounds
  <2> QED
    BY <2>1, <2>2
<1>4. G = Nat
  <2>1. G \in SUBSET Nat
    OBVIOUS
  <2> HIDE DEF G
  <2> QED
    BY <1>2, <1>3, <2>1, InductionOnNat
<1> QED
  BY <1>4

\* Rounds keep the nodes they start from.
LEMMA RoundsGrow ==
  ASSUME NEW D, NEW kids, IsKids(kids, D), NEW M, NEW W, IsRounds(W, kids, M)
  PROVE  \A n \in Nat : \A X \in SUBSET D : X \subseteq W[n][X]
<1> DEFINE G == {n \in Nat : \A X \in SUBSET D : X \subseteq W[n][X]}
<1>1. DOMAIN kids = D
  BY DEF IsKids
<1>2. 0 \in G
  BY <1>1 DEF IsRounds
<1>3. ASSUME NEW n \in G PROVE n + 1 \in G
  <2> SUFFICES ASSUME NEW X \in SUBSET D PROVE X \subseteq W[n + 1][X]
    OBVIOUS
  <2>1. OneRound(X, kids, M) \in SUBSET D /\ X \subseteq OneRound(X, kids, M)
    BY OneRoundTyped DEF OneRound
  <2>2. W[n + 1][X] = IF OneRound(X, kids, M) = X THEN X ELSE W[n][OneRound(X, kids, M)]
    BY <1>1 DEF IsRounds
  <2>3. OneRound(X, kids, M) \subseteq W[n][OneRound(X, kids, M)]
    BY <2>1
  <2> QED
    BY <2>1, <2>2, <2>3
<1>4. G = Nat
  <2>1. G \in SUBSET Nat
    OBVIOUS
  <2> HIDE DEF G
  <2> QED
    BY <1>2, <1>3, <2>1, InductionOnNat
<1> QED
  BY <1>4

\* As many rounds as there are nodes left to add leave none to add.
LEMMA RoundsClose ==
  ASSUME NEW D, NEW kids, IsKids(kids, D), IsFiniteSet(D), NEW M, NEW W, IsRounds(W, kids, M)
  PROVE  \A n \in Nat : \A X \in SUBSET D : Cardinality(D \ X) <= n =>
           OneRound(W[n][X], kids, M) = W[n][X]
<1> DEFINE G == {n \in Nat : \A X \in SUBSET D : Cardinality(D \ X) <= n =>
                    OneRound(W[n][X], kids, M) = W[n][X]}
<1>1. DOMAIN kids = D
  BY DEF IsKids
<1>2. \A X \in SUBSET D : IsFiniteSet(D \ X) /\ Cardinality(D \ X) \in Nat
  BY FS_Difference, FS_CardinalityType
<1>3. 0 \in G
  <2> SUFFICES ASSUME NEW X \in SUBSET D, Cardinality(D \ X) <= 0
               PROVE  OneRound(W[0][X], kids, M) = W[0][X]
    OBVIOUS
  <2>1. D \ X = {}
    BY <1>2, FS_EmptySet
  <2>2. X = D /\ W[0][X] = X
    BY <1>1, <2>1 DEF IsRounds
  <2>3. OneRound(X, kids, M) \in SUBSET D /\ X \subseteq OneRound(X, kids, M)
    BY OneRoundTyped DEF OneRound
  <2> QED
    BY <2>2, <2>3
<1>4. ASSUME NEW n \in G PROVE n + 1 \in G
  <2>0. n \in Nat /\ n + 1 \in Nat
    OBVIOUS
  <2> SUFFICES \A X \in SUBSET D : Cardinality(D \ X) <= n + 1 =>
                 OneRound(W[n + 1][X], kids, M) = W[n + 1][X]
    BY <2>0
  <2> TAKE X \in SUBSET D
  <2> HAVE Cardinality(D \ X) <= n + 1
  <2> DEFINE Y == OneRound(X, kids, M)
  <2>1. W[n + 1][X] = IF Y = X THEN X ELSE W[n][Y]
    BY <1>1 DEF IsRounds
  <2>2. Y \in SUBSET D /\ X \subseteq Y
    BY OneRoundTyped DEF OneRound
  <2>3. CASE Y = X
    BY <2>1, <2>3
  <2>4. CASE Y # X
    <3> HIDE DEF Y
    <3>1. D \ Y \in SUBSET (D \ X) /\ D \ Y # D \ X
      BY <2>2, <2>4
    <3>2. Cardinality(D \ Y) <= Cardinality(D \ X) /\ Cardinality(D \ Y) # Cardinality(D \ X)
      BY <1>2, <3>1, FS_Subset
    <3>a. Cardinality(D \ Y) \in Nat /\ Cardinality(D \ X) \in Nat
      BY <1>2, <2>2
    <3>3. Cardinality(D \ Y) <= n
      <4> HIDE DEF G
      <4> QED
        BY <2>0, <3>a, <3>2
    <3>4. OneRound(W[n][Y], kids, M) = W[n][Y]
      BY <2>2, <3>3
    <3> QED
      BY <2>1, <2>4, <3>4
  <2> QED
    BY <2>3, <2>4
<1>5. G = Nat
  <2>1. G \in SUBSET Nat
    OBVIOUS
  <2> HIDE DEF G
  <2> QED
    BY <1>3, <1>4, <2>1, InductionOnNat
<1> QED
  BY <1>5

\* Spread is the least set that holds R and the children of its members in M.
LEMMA SpreadHolds ==
  ASSUME NEW D, NEW kids, IsKids(kids, D), IsFiniteSet(D), NEW M, NEW R \in SUBSET D
  PROVE  /\ R \subseteq Spread(R, kids, M) /\ Spread(R, kids, M) \subseteq D
         /\ \A x \in Spread(R, kids, M) \cap M : kids[x] \subseteq Spread(R, kids, M)
<1>1. PICK W : IsRounds(W, kids, M) /\ Spread(R, kids, M) = W[Cardinality(D)][R]
  BY SpreadIsRounds
<1>2. DOMAIN kids = D
  BY DEF IsKids
<1>3. Cardinality(D) \in Nat
  BY FS_CardinalityType
<1>4. Cardinality(D \ R) <= Cardinality(D)
  BY FS_Subset
<1>5. OneRound(Spread(R, kids, M), kids, M) = Spread(R, kids, M)
  BY <1>1, <1>3, <1>4, RoundsClose
<1>6. R \subseteq Spread(R, kids, M)
  BY <1>1, <1>3, RoundsGrow
<1>7. Spread(R, kids, M) \subseteq D
  BY <1>1, <1>2, <1>3 DEF IsRounds
<1> QED
  BY <1>5, <1>6, <1>7 DEF OneRound

LEMMA SpreadWithin ==
  ASSUME NEW D, NEW kids, IsKids(kids, D), IsFiniteSet(D), NEW M, NEW R \in SUBSET D,
         NEW S, R \subseteq S, \A x \in D : x \in S /\ x \in M => kids[x] \subseteq S
  PROVE  Spread(R, kids, M) \subseteq S
<1> DEFINE S2 == S \cap D
<1>1. PICK W : IsRounds(W, kids, M) /\ Spread(R, kids, M) = W[Cardinality(D)][R]
  BY SpreadIsRounds
<1>2. ClosedUnder(S2, kids, M)
  BY DEF IsKids, ClosedUnder
<1>3. S2 \in SUBSET D /\ R \in SUBSET S2
  OBVIOUS
<1>4. Cardinality(D) \in Nat
  BY FS_CardinalityType
<1>5. Spread(R, kids, M) \subseteq S2
  <2> HIDE DEF S2
  <2>1. \A n \in Nat : \A X \in SUBSET S2 : W[n][X] \subseteq S2
    BY <1>1, <1>2, <1>3, RoundsWithin
  <2> QED
    BY <1>1, <1>3, <1>4, <2>1
<1> QED
  BY <1>5

(***************************************************************************)
(* Journeys.                                                               *)
(***************************************************************************)
\* Journeys visit the BFF's endpoints in the global order, and there are no more of
\* them than scenarios.
JourneyInv ==
  /\ Len(journeys) <= Len(Steps)
  /\ pc \in {"calibrate", "ready"} => Len(journeys) = Len(Steps)
  /\ \A s \in DOMAIN journeys : \A i, j \in DOMAIN journeys[s] :
       i < j => journeys[s][i] < journeys[s][j]

LEMMA DrawKeepsOrder ==
  ASSUME TypeOK, JourneyInv, DrawScenario
  PROVE  JourneyInv'
<1> DEFINE steps == Steps[Len(journeys) + 1]
<1> DEFINE k == IF steps < Cardinality(uncovered) THEN steps ELSE Cardinality(uncovered)
<1>1. PICK first \in kSubset(k, uncovered) :
        \E rest \in kSubset(steps - k, BffOps \ first) :
          /\ \E journey \in Increasing(first \cup rest) : journeys' = Append(journeys, journey)
          /\ uncovered' = uncovered \ first
          /\ cursor' = cursor + steps
  BY DEF DrawScenario
<1>2. PICK rest \in kSubset(steps - k, BffOps \ first) :
          \E journey \in Increasing(first \cup rest) : journeys' = Append(journeys, journey)
  BY <1>1
<1>3. PICK journey \in Increasing(first \cup rest) : journeys' = Append(journeys, journey)
  BY <1>2
<1>4. \A i, j \in DOMAIN journey : i < j => journey[i] < journey[j]
  BY <1>3 DEF Increasing
<1>5. journeys \in Seq(Seq(BffOps)) /\ Len(Steps) \in Nat
  BY CallGraphAssumption DEF TypeOK
<1>6. Len(journeys') = Len(journeys) + 1 /\ Len(journeys) < Len(Steps) /\ pc' = "scenarios"
  BY <1>3, <1>5 DEF DrawScenario
<1>7. /\ DOMAIN journeys' = DOMAIN journeys \cup {Len(journeys) + 1}
      /\ \A s \in DOMAIN journeys : journeys'[s] = journeys[s]
      /\ journeys'[Len(journeys) + 1] = journey
  BY <1>3, <1>5
<1>8. \A s \in DOMAIN journeys' : \A i, j \in DOMAIN journeys'[s] :
        i < j => journeys'[s][i] < journeys'[s][j]
  BY <1>4, <1>7 DEF JourneyInv
<1>9. Len(journeys') <= Len(Steps)
  BY <1>5, <1>6
<1> QED
  BY <1>6, <1>8, <1>9 DEF JourneyInv

LEMMA JourneyStep ==
  ASSUME TypeOK, JourneyInv, [Build]_vars
  PROVE  JourneyInv'
<1>1. CASE DrawScenario
  BY <1>1, DrawKeepsOrder
<1>2. CASE StartCalibration
  BY <1>2 DEF StartCalibration, JourneyInv, journeyVars
<1>3. CASE ~DrawScenario /\ ~StartCalibration
  <2>1. journeys' = journeys /\ (pc' \in {"calibrate", "ready"} => pc \in {"calibrate", "ready"})
    BY <1>3 DEF Build, PlaceServices, Wire, StartAttaching, Attach, StartScenarios,
                Calibrate, Ship, vars, journeyVars
  <2> QED
    BY <2>1 DEF JourneyInv
<1> QED
  BY <1>1, <1>2, <1>3

\* Once the instance is ready nothing builds it any further.
LEMMA ReadyStays ==
  ASSUME pc = "ready", [Build]_vars
  PROVE  UNCHANGED vars
BY DEF Build, PlaceServices, Wire, StartAttaching, Attach, StartScenarios, DrawScenario,
       StartCalibration, Calibrate, Ship

(***************************************************************************)
(* The mechanism.                                                          *)
(***************************************************************************)
LEMMA NodesStay ==
  ASSUME UNCHANGED vars
  PROVE  Nodes' = Nodes
<1>1. journeys' = journeys
  BY DEF vars, journeyVars
<1>2. Scenarios' = Scenarios /\ \A s : StepsOf(s)' = StepsOf(s)
  BY <1>1 DEF Scenarios, StepsOf
<1>3. LatentNodes' = LatentNodes /\ BackendNodes' = BackendNodes
  BY <1>2 DEF LatentNodes, BackendNodes
<1>4. JourneyNodes' = JourneyNodes
  BY <1>2 DEF JourneyNodes
<1> QED
  BY <1>3, <1>4 DEF Nodes

LEMMA ParentsStay ==
  ASSUME UNCHANGED vars, NEW n
  PROVE  Parents(n)' = Parents(n)
<1>1. journeys' = journeys /\ calls' = calls /\ cached' = cached
  BY DEF vars, graphVars, journeyVars
<1>2. Scenarios' = Scenarios /\ \A s : StepsOf(s)' = StepsOf(s)
  BY <1>1 DEF Scenarios, StepsOf
<1>3. LatentNodes' = LatentNodes /\ BackendNodes' = BackendNodes
  BY <1>2 DEF LatentNodes, BackendNodes
<1>4. \A u : Callees(u)' = Callees(u) /\ Callers(u)' = Callers(u)
  BY <1>1 DEF Callees, Callers
<1>5. ASSUME NEW u PROVE Presence(u)' = Presence(u)
  <2> DEFINE At(s) == {i \in StepsOf(s) : journeys[s][i] = u}
             Of(s) == {IBff(s, j, k) : j \in At(s), k \in ClientAttempts(s)}
  <2>1. \A s : At(s)' = At(s)
    BY <1>1, <1>2
  <2>2. \A s : Of(s)' = Of(s)
    <3> HIDE DEF At
    <3> QED
      BY <2>1
  <2>3. Presence(u) = IF u \notin BffOps THEN {I(u)} ELSE UNION {Of(s) : s \in Scenarios}
    BY DEF Presence
  <2>4. Presence(u)' = IF u \notin BffOps THEN {I(u)} ELSE UNION {Of(s)' : s \in Scenarios'}
    BY DEF Presence
  <2> HIDE DEF Of
  <2> QED
    BY <1>2, <2>2, <2>3, <2>4
<1>6. \A u : InvokeParents(u)' = InvokeParents(u)
  BY <1>1, <1>4, <1>5 DEF InvokeParents
<1>7. \A u : StateParents(u)' = StateParents(u)
  BY <1>1 DEF StateParents
<1>8. \A u : CalleeParents(u)' = CalleeParents(u)
  BY <1>4 DEF CalleeParents
<1>9. BackendParents(n)' = BackendParents(n)
  BY <1>6, <1>7, <1>8 DEF BackendParents
<1>10. JourneyParents(n)' = JourneyParents(n)
  BY <1>1, <1>7, <1>8 DEF JourneyParents, BffPresenceParents
<1> QED
  BY <1>3, <1>9, <1>10 DEF Parents, LatentParents

(***************************************************************************)
(* The projection.                                                         *)
(***************************************************************************)
\* What each part has worked out, once it has.
Felt(src, g) == {n \in Endpoints(src, Kids, Through(g)) \ {src} : HasEffect(src, n)}
Directed(g) == UNION {{<<src, dst>> : dst \in Felt(src, g)} : src \in Sources}
HiddenNodes == {n \in DOMAIN mech : Hidden(n)}

StageInv ==
  /\ phase \in {"mechanism", "directed", "groups", "done"}
  /\ phase # "mechanism" => pc = "ready" /\ mech = [n \in Nodes |-> Parents(n)]
  /\ phase \in {"groups", "done"} => pairs = [g \in Grains |-> Directed(g)]
  /\ phase = "done" => groups = [l \in HiddenNodes |-> Group(l, Kids, Through("request"))]

LEMMA KidsStay ==
  ASSUME UNCHANGED <<mech, exposed>>
  PROVE  /\ Kids' = Kids /\ Sources' = Sources /\ HiddenNodes' = HiddenNodes
         /\ \A g : Through(g)' = Through(g)
<1>1. \A n : Hidden(n)' = Hidden(n)
  BY DEF Hidden
<1>2. Kids' = Kids
  BY DEF Kids
<1>3. Sources' = Sources
  BY <1>1 DEF Sources
<1>4. \A g : Through(g)' = Through(g)
  BY <1>1 DEF Through
<1>5. HiddenNodes' = HiddenNodes
  BY <1>1 DEF HiddenNodes
<1> QED
  BY <1>2, <1>3, <1>4, <1>5

LEMMA EffectStays ==
  ASSUME UNCHANGED vars, NEW src, NEW dst
  PROVE  HasEffect(src, dst)' = HasEffect(src, dst)
<1>1. journeys' = journeys /\ critical' = critical
  BY DEF vars, graphVars, journeyVars
<1>2. OpOf(src)' = OpOf(src) /\ OpOf(dst)' = OpOf(dst)
  BY <1>1 DEF OpOf
<1>3. ASSUME NEW e, NEW S PROVE Feels(e, S)' = Feels(e, S)
  BY <1>1 DEF Feels
<1> QED
  BY <1>2, <1>3 DEF HasEffect

LEMMA DirectedStays ==
  ASSUME UNCHANGED <<mech, exposed>>, UNCHANGED vars
  PROVE  [g \in Grains |-> Directed(g)]' = [g \in Grains |-> Directed(g)]
<1>1. \A g : Directed(g)' = Directed(g)
  <2> SUFFICES ASSUME NEW g PROVE Directed(g)' = Directed(g)
    OBVIOUS
  <2> DEFINE P(src) == {<<src, dst>> : dst \in Felt(src, g)}
  <2>1. \A src : Felt(src, g)' = Felt(src, g)
    <3> SUFFICES ASSUME NEW src PROVE Felt(src, g)' = Felt(src, g)
      OBVIOUS
    <3>1. Endpoints(src, Kids, Through(g))' = Endpoints(src, Kids, Through(g))
      BY KidsStay DEF Endpoints
    <3>2. \A n : HasEffect(src, n)' = HasEffect(src, n)
      BY EffectStays
    <3> QED
      BY <3>1, <3>2 DEF Felt
  <2>2. \A src : P(src)' = P(src)
    BY <2>1
  <2>3. Directed(g) = UNION {P(src) : src \in Sources}
    BY DEF Directed
  <2>4. Directed(g)' = UNION {P(src)' : src \in Sources'}
    BY DEF Directed
  <2> HIDE DEF P
  <2> QED
    BY <2>2, <2>3, <2>4, KidsStay
<1> QED
  BY <1>1

LEMMA GroupsStay ==
  ASSUME UNCHANGED <<mech, exposed>>
  PROVE  [l \in HiddenNodes |-> Group(l, Kids, Through("request"))]' =
           [l \in HiddenNodes |-> Group(l, Kids, Through("request"))]
<1>1. \A l : Group(l, Kids, Through("request"))' = Group(l, Kids, Through("request"))
  <2> SUFFICES ASSUME NEW l
               PROVE  Group(l, Kids, Through("request"))' = Group(l, Kids, Through("request"))
    OBVIOUS
  <2>1. Endpoints(l, Kids, Through("request"))' = Endpoints(l, Kids, Through("request"))
    BY KidsStay DEF Endpoints
  <2> QED
    BY <2>1 DEF Group
<1> QED
  BY <1>1, KidsStay

LEMMA StageStep ==
  ASSUME StageInv, [Next]_<<vars, targetVars>>
  PROVE  StageInv'
<1>1. CASE (Build \/ UNCHANGED vars) /\ UNCHANGED targetVars
  <2>1. UNCHANGED <<phase, exposed, mech, pairs, groups>>
    BY <1>1 DEF targetVars
  <2>2. CASE phase = "mechanism"
    BY <2>1, <2>2 DEF StageInv
  <2>3. CASE phase # "mechanism"
    <3>1. UNCHANGED vars /\ pc' = pc
      BY <1>1, <2>3, ReadyStays DEF StageInv, vars
    <3>2. [n \in Nodes |-> Parents(n)]' = [n \in Nodes |-> Parents(n)]
      BY <3>1, NodesStay, ParentsStay
    <3> QED
      BY <2>1, <3>1, <3>2, DirectedStays, GroupsStay DEF StageInv
  <2> QED
    BY <2>2, <2>3
<1>2. CASE BuildMechanism
  <2>1. UNCHANGED vars /\ pc' = "ready"
    BY <1>2 DEF BuildMechanism, vars
  <2>2. [n \in Nodes |-> Parents(n)]' = [n \in Nodes |-> Parents(n)]
    BY <2>1, NodesStay, ParentsStay
  <2> QED
    BY <1>2, <2>1, <2>2 DEF BuildMechanism, StageInv
<1>3. CASE ProjectDirected
  <2>1. UNCHANGED vars /\ pc' = pc /\ UNCHANGED <<mech, exposed>>
    BY <1>3 DEF ProjectDirected, vars
  <2>2. [n \in Nodes |-> Parents(n)]' = [n \in Nodes |-> Parents(n)]
    BY <2>1, NodesStay, ParentsStay
  <2>3. pairs' = [g \in Grains |-> Directed(g)]
    BY <1>3 DEF ProjectDirected, Directed, Felt
  <2> QED
    BY <1>3, <2>1, <2>2, <2>3, DirectedStays DEF ProjectDirected, StageInv
<1>4. CASE ProjectGroups
  <2>1. UNCHANGED vars /\ pc' = pc /\ UNCHANGED <<mech, exposed>>
    BY <1>4 DEF ProjectGroups, vars
  <2>2. [n \in Nodes |-> Parents(n)]' = [n \in Nodes |-> Parents(n)]
    BY <2>1, NodesStay, ParentsStay
  <2>3. groups' = [l \in HiddenNodes |-> Group(l, Kids, Through("request"))]
    BY <1>4 DEF ProjectGroups, HiddenNodes
  <2> QED
    BY <1>4, <2>1, <2>2, <2>3, DirectedStays, GroupsStay DEF ProjectGroups, StageInv
<1> QED
  BY <1>1, <1>2, <1>3, <1>4 DEF Next

TargetInv == GraphInv /\ JourneyInv /\ StageInv

LEMMA TargetInvHolds == Spec => []TargetInv
<1>1. TargetInit => TargetInv
  <2> SUFFICES ASSUME TargetInit PROVE TargetInv
    OBVIOUS
  <2>1. GraphInv /\ StageInv
    BY GraphInvInit DEF TargetInit, StageInv
  <2>2. JourneyInv
    BY CallGraphAssumption DEF TargetInit, Init, JourneyInv
  <2> QED
    BY <2>1, <2>2 DEF TargetInv
<1>2. TargetInv /\ [Next]_<<vars, targetVars>> => TargetInv'
  <2> SUFFICES ASSUME TargetInv, [Next]_<<vars, targetVars>> PROVE TargetInv'
    OBVIOUS
  <2>1. [Build]_vars
    BY DEF Next, BuildMechanism, ProjectDirected, ProjectGroups
  <2>2. GraphInv'
    BY <2>1, GraphInvStep DEF TargetInv
  <2>3. JourneyInv'
    BY <2>1, JourneyStep DEF TargetInv, GraphInv, DepthInv
  <2>4. StageInv'
    BY StageStep DEF TargetInv
  <2> QED
    BY <2>2, <2>3, <2>4 DEF TargetInv
<1> QED
  BY <1>1, <1>2, PTL DEF Spec

(***************************************************************************)
(* Nodes and their parents.                                                *)
(***************************************************************************)
LatentTags == {"intensity", "load", "pool", "cache", "health", "net", "auth"}

Owners == {0} \cup Ops \cup {Svc(o) : o \in Ops} \cup Scenarios

LEMMA LatentShape ==
  ASSUME NEW n \in LatentNodes
  PROVE  \E tag \in LatentTags : \E x \in Owners : n = <<tag, x, 0, 0>>
<1>1. CASE \E o \in Ops : n \in {Load(Svc(o)), Pool(Svc(o)), Cache(Svc(o)), Health(o)}
  <2>1. PICK o \in Ops : n \in {Load(Svc(o)), Pool(Svc(o)), Cache(Svc(o)), Health(o)}
    BY <1>1
  <2>2. o \in Owners /\ Svc(o) \in Owners
    BY DEF Owners
  <2> QED
    BY <2>1, <2>2 DEF LatentTags, Load, Pool, Cache, Health
<1>2. CASE \E s \in Scenarios : n \in {Net(s), Auth(s)}
  BY <1>2 DEF LatentTags, Net, Auth, Owners
<1>3. CASE n = Intensity
  BY <1>3 DEF LatentTags, Intensity, Owners
<1> DEFINE OfOps == UNION {{Load(Svc(o)), Pool(Svc(o)), Cache(Svc(o)), Health(o)} : o \in Ops}
           OfScenarios == UNION {{Net(s), Auth(s)} : s \in Scenarios}
<1>4. LatentNodes = {Intensity} \cup OfOps \cup OfScenarios
  BY DEF LatentNodes
<1>5. n \in OfOps => \E o \in Ops : n \in {Load(Svc(o)), Pool(Svc(o)), Cache(Svc(o)), Health(o)}
  OBVIOUS
<1>6. n \in OfScenarios => \E s \in Scenarios : n \in {Net(s), Auth(s)}
  OBVIOUS
<1> HIDE DEF OfOps, OfScenarios
<1> QED
  BY <1>1, <1>2, <1>3, <1>4, <1>5, <1>6

LEMMA BackendShape ==
  ASSUME NEW n \in BackendNodes
  PROVE  /\ n[2] \in Backend
         /\ n = I(n[2]) \/ n = F(n[2]) \/ (n[4] \in Attempts /\ n = A(n[2], n[4]))
<1>1. PICK o \in Backend : n \in {I(o), F(o)} \cup {A(o, k) : k \in Attempts}
  BY DEF BackendNodes
<1>2. CASE n = I(o) \/ n = F(o)
  BY <1>2 DEF I, F
<1>3. CASE n \in {A(o, k) : k \in Attempts}
  BY <1>3 DEF A
<1> QED
  BY <1>1, <1>2, <1>3

LEMMA JourneyShape ==
  ASSUME NEW n \in JourneyNodes
  PROVE  /\ n[2] \in Scenarios /\ n[3] \in StepsOf(n[2])
         /\ \/ n = CF(n[2], n[3])
            \/ /\ n[4] \in ClientAttempts(n[2])
               /\ n \in {IBff(n[2], n[3], n[4]), T(n[2], n[3], n[4]), C(n[2], n[3], n[4])}
<1>1. PICK s \in Scenarios :
        n \in UNION {{CF(s, j)} \cup UNION {{IBff(s, j, k), T(s, j, k), C(s, j, k)} :
                                         k \in ClientAttempts(s)} :
                j \in StepsOf(s)}
  BY DEF JourneyNodes
<1>2. PICK j \in StepsOf(s) :
        n \in {CF(s, j)} \cup UNION {{IBff(s, j, k), T(s, j, k), C(s, j, k)} :
                                         k \in ClientAttempts(s)}
  BY <1>1
<1>3. CASE n = CF(s, j)
  BY <1>3 DEF CF
<1>4. CASE n # CF(s, j)
  <2>1. PICK k \in ClientAttempts(s) : n \in {IBff(s, j, k), T(s, j, k), C(s, j, k)}
    BY <1>2, <1>4
  <2>2. n[2] = s /\ n[3] = j /\ n[4] = k
    BY <2>1 DEF IBff, T, C
  <2> QED
    BY <2>1, <2>2
<1> QED
  BY <1>3, <1>4

\* The group of a node says which of the three kinds it is.
LEMMA NodeKinds ==
  ASSUME NEW n \in Nodes
  PROVE  /\ n[1] \in LatentTags => n \in LatentNodes
         /\ n[1] \in {"I", "A", "F"} => n \in BackendNodes /\ n \notin LatentNodes
         /\ n[1] \in {"I:bff", "T", "C", "C:F"} =>
              n \in JourneyNodes /\ n \notin LatentNodes /\ n \notin BackendNodes
         /\ n[1] \in LatentTags \cup {"I", "A", "F", "I:bff", "T", "C", "C:F"}
<1>1. n \in LatentNodes => n[1] \in LatentTags
  <2> SUFFICES ASSUME n \in LatentNodes PROVE n[1] \in LatentTags
    OBVIOUS
  <2>1. PICK tag \in LatentTags : \E x \in Owners : n = <<tag, x, 0, 0>>
    BY LatentShape
  <2> QED
    BY <2>1
<1>2. n \in BackendNodes => n[1] \in {"I", "A", "F"}
  BY BackendShape DEF I, A, F
<1>3. n \in JourneyNodes => n[1] \in {"I:bff", "T", "C", "C:F"}
  BY JourneyShape DEF IBff, T, C, CF
<1>4. n \in LatentNodes \cup BackendNodes \cup JourneyNodes
  BY DEF Nodes
<1> QED
  BY <1>1, <1>2, <1>3, <1>4 DEF LatentTags

LEMMA LatentsOfLatents ==
  ASSUME NEW n \in Nodes, n[1] \in LatentTags, NEW p \in Parents(n)
  PROVE  p[1] \in LatentTags
<1>1. p \in LatentParents(n)
  BY NodeKinds DEF Parents
<1> QED
  BY <1>1 DEF LatentParents, LatentTags, Intensity, Load, Pool

LEMMA PresenceShape ==
  ASSUME NEW u, NEW p \in Presence(u)
  PROVE  p[1] \in {"I", "I:bff"}
<1>1. CASE u \notin BffOps
  BY <1>1 DEF Presence, I
<1>2. CASE u \in BffOps
  <2>1. PICK s \in Scenarios :
          p \in {IBff(s, j, k) : j \in {i \in StepsOf(s) : journeys[s][i] = u},
                               k \in ClientAttempts(s)}
    BY <1>2 DEF Presence
  <2> QED
    BY <2>1 DEF IBff
<1> QED
  BY <1>1, <1>2

LEMMA StateShape ==
  ASSUME NEW u, NEW p \in StateParents(u)
  PROVE  p[1] \in LatentTags
BY DEF StateParents, LatentTags, Health, Pool, Cache

LEMMA CalleeShape ==
  ASSUME NEW u, NEW p \in CalleeParents(u)
  PROVE  \E w \in Callees(u) : p = F(w) \/ (Retries > 0 /\ p = A(w, 0))
BY DEF CalleeParents

\* An endpoint is made present by the presence of a caller, past a cache.
LEMMA ParentsOfI ==
  ASSUME NEW n \in Nodes, n[1] = "I", NEW p \in Parents(n)
  PROVE  p[1] \in {"I", "I:bff"} \cup LatentTags
<1>1. p \in InvokeParents(n[2])
  BY NodeKinds DEF Parents, BackendParents
<1>2. PICK u \in Callers(n[2]) :
        p \in Presence(u) \cup {Cache(Svc(u)) : e \in {<<u, n[2]>>} \cap cached}
  BY <1>1 DEF InvokeParents
<1>3. CASE p \in Presence(u)
  BY <1>3, PresenceShape
<1>4. CASE p \in {Cache(Svc(u)) : e \in {<<u, n[2]>>} \cap cached}
  BY <1>4 DEF Cache, LatentTags
<1> QED
  BY <1>2, <1>3, <1>4

\* An attempt depends on the attempt before and on what its callees answer.
LEMMA ParentsOfA ==
  ASSUME NEW n \in Nodes, n[1] = "A", NEW p \in Parents(n)
  PROVE  \/ p[1] \in LatentTags
         \/ p = I(n[2])
         \/ \E k : p = A(n[2], k)
         \/ \E w \in Callees(n[2]) : p = F(w) \/ p = A(w, 0)
<1>1. p \in {IF n[4] = 0 THEN I(n[2]) ELSE A(n[2], n[4] - 1)}
              \cup StateParents(n[2]) \cup CalleeParents(n[2])
  BY NodeKinds DEF Parents, BackendParents
<1>2. CASE p \in StateParents(n[2])
  BY <1>2, StateShape
<1>3. CASE p \in CalleeParents(n[2])
  BY <1>3, CalleeShape
<1>4. CASE p = I(n[2]) \/ p = A(n[2], n[4] - 1)
  BY <1>4
<1> QED
  BY <1>1, <1>2, <1>3, <1>4

LEMMA ParentsOfF ==
  ASSUME NEW n \in Nodes, n[1] = "F", NEW p \in Parents(n)
  PROVE  \E k : p = A(n[2], k)
<1>1. p \in {A(n[2], i) : i \in Attempts}
  BY NodeKinds DEF Parents, BackendParents
<1> QED
  BY <1>1

\* A request of a step starts after the answer to the attempt before or after the
\* step before.
LEMMA ParentsOfIBff ==
  ASSUME NEW n \in Nodes, n[1] = "I:bff", NEW p \in Parents(n)
  PROVE  \/ \E k : p = T(n[2], n[3], k)
         \/ n[3] > 1 /\ p = CF(n[2], n[3] - 1)
<1>1. p \in BffPresenceParents(n[2], n[3], n[4])
  BY NodeKinds DEF Parents, JourneyParents
<1> QED
  BY <1>1 DEF BffPresenceParents

LEMMA ParentsOfT ==
  ASSUME NEW n \in Nodes, n[1] = "T", NEW p \in Parents(n)
  PROVE  \/ p[1] \in LatentTags
         \/ p = IBff(n[2], n[3], n[4])
         \/ \E w \in Callees(journeys[n[2]][n[3]]) : p = F(w) \/ p = A(w, 0)
<1>1. p \in {IBff(n[2], n[3], n[4]), Auth(n[2])} \cup StateParents(journeys[n[2]][n[3]])
              \cup CalleeParents(journeys[n[2]][n[3]])
  BY NodeKinds DEF Parents, JourneyParents
<1>2. CASE p \in StateParents(journeys[n[2]][n[3]])
  BY <1>2, StateShape
<1>3. CASE p \in CalleeParents(journeys[n[2]][n[3]])
  BY <1>3, CalleeShape
<1>4. CASE p = Auth(n[2])
  BY <1>4 DEF Auth, LatentTags
<1> QED
  BY <1>1, <1>2, <1>3, <1>4

LEMMA ParentsOfC ==
  ASSUME NEW n \in Nodes, n[1] = "C", NEW p \in Parents(n)
  PROVE  p[1] \in LatentTags \/ p = T(n[2], n[3], n[4])
<1>1. p \in {T(n[2], n[3], n[4]), Net(n[2])}
  BY NodeKinds DEF Parents, JourneyParents
<1> QED
  BY <1>1 DEF Net, LatentTags

LEMMA ParentsOfCF ==
  ASSUME NEW n \in Nodes, n[1] = "C:F", NEW p \in Parents(n)
  PROVE  \E k : p = C(n[2], n[3], k)
<1>1. p \in {C(n[2], n[3], i) : i \in ClientAttempts(n[2])}
  BY NodeKinds DEF Parents, JourneyParents
<1> QED
  BY <1>1

(***************************************************************************)
(* A mechanism has finitely many nodes.                                    *)
(***************************************************************************)
LEMMA FiniteUnion ==
  ASSUME NEW S, IsFiniteSet(S), NEW f, DOMAIN f = S, \A x \in S : IsFiniteSet(f[x])
  PROVE  IsFiniteSet(UNION {f[x] : x \in S})
<1> DEFINE R == {f[x] : x \in S}
           g == [x \in S |-> f[x]]
<1>1. g \in Surjection(S, R)
  BY DEF Surjection
<1>2. IsFiniteSet(R)
  <2> HIDE DEF R, g
  <2> QED
    BY <1>1, FS_Surjection
<1>3. \A X \in R : IsFiniteSet(X)
  OBVIOUS
<1> HIDE DEF R
<1>4. IsFiniteSet(UNION R)
  BY <1>2, <1>3, FS_UNION
<1> QED
  BY <1>4 DEF R

LEMMA FiniteQuads ==
  ASSUME NEW Q1, NEW Q2, NEW Q3, NEW Q4,
         IsFiniteSet(Q1), IsFiniteSet(Q2), IsFiniteSet(Q3), IsFiniteSet(Q4)
  PROVE  IsFiniteSet(Q1 \X Q2 \X Q3 \X Q4)
<1> DEFINE Nested == Q1 \X (Q2 \X (Q3 \X Q4))
           Flat == Q1 \X Q2 \X Q3 \X Q4
           f == [q \in Nested |-> <<q[1], q[2][1], q[2][2][1], q[2][2][2]>>]
<1>1. IsFiniteSet(Nested)
  <2>1. IsFiniteSet(Q3 \X Q4)
    BY FS_Product
  <2>2. IsFiniteSet(Q2 \X (Q3 \X Q4))
    BY <2>1, FS_Product
  <2> QED
    BY <2>2, FS_Product
<1>2. f \in [Nested -> Flat]
  OBVIOUS
<1>3. ASSUME NEW t \in Flat PROVE \E q \in Nested : f[q] = t
  <2>1. PICK a \in Q1, b \in Q2, c \in Q3, d \in Q4 : t = <<a, b, c, d>>
    OBVIOUS
  <2>2. <<a, <<b, <<c, d>>>>>> \in Nested
    OBVIOUS
  <2>3. f[<<a, <<b, <<c, d>>>>>>] = t
    BY <2>1, <2>2
  <2> QED
    BY <2>2, <2>3
<1>4. f \in Surjection(Nested, Flat)
  BY <1>2, <1>3 DEF Surjection
<1> HIDE DEF Nested, Flat, f
<1>5. IsFiniteSet(Flat)
  BY <1>1, <1>4, FS_Surjection
<1> QED
  BY <1>5 DEF Flat

LEMMA FiniteTags == IsFiniteSet(LatentTags \cup {"I", "A", "F", "I:bff", "T", "C", "C:F"})
<1> DEFINE Q1 == LatentTags \cup {"I", "A", "F", "I:bff", "T", "C", "C:F"}
           f == [i \in 1 .. 14 |->
                   CASE i = 1 -> "intensity" [] i = 2 -> "load" [] i = 3 -> "pool"
                     [] i = 4 -> "cache" [] i = 5 -> "health" [] i = 6 -> "net"
                     [] i = 7 -> "auth" [] i = 8 -> "I" [] i = 9 -> "A" [] i = 10 -> "F"
                     [] i = 11 -> "I:bff" [] i = 12 -> "T" [] i = 13 -> "C" [] i = 14 -> "C:F"]
<1>1. f \in [1 .. 14 -> Q1]
  <2> SUFFICES ASSUME NEW i \in 1 .. 14 PROVE f[i] \in Q1
    OBVIOUS
  <2> QED
    BY DEF LatentTags
<1>2. /\ f[1] = "intensity" /\ f[2] = "load" /\ f[3] = "pool" /\ f[4] = "cache"
      /\ f[5] = "health" /\ f[6] = "net" /\ f[7] = "auth" /\ f[8] = "I" /\ f[9] = "A"
      /\ f[10] = "F" /\ f[11] = "I:bff" /\ f[12] = "T" /\ f[13] = "C" /\ f[14] = "C:F"
  OBVIOUS
<1>3. \A t \in Q1 : \E i \in 1 .. 14 : f[i] = t
  BY <1>2 DEF LatentTags
<1>4. f \in Surjection(1 .. 14, Q1)
  BY <1>1, <1>3 DEF Surjection
<1> HIDE DEF Q1, f
<1>5. IsFiniteSet(1 .. 14)
  <2>1. 1 \in Int /\ 14 \in Int
    OBVIOUS
  <2> QED
    BY <2>1, FS_Interval
<1>6. IsFiniteSet(Q1)
  BY <1>4, <1>5, FS_Surjection
<1> QED
  BY <1>6 DEF Q1

LEMMA NodesFinite ==
  ASSUME TypeOK, JourneyInv
  PROVE  IsFiniteSet(Nodes)
<1> DEFINE Q1 == LatentTags \cup {"I", "A", "F", "I:bff", "T", "C", "C:F"}
           Q3 == {0} \cup UNION {StepsOf(s) : s \in Scenarios}
           Q4 == {0} \cup Attempts \cup UNION {ClientAttempts(s) : s \in Scenarios}
<1>1. journeys \in Seq(Seq(BffOps)) /\ Len(journeys) \in Nat /\ Len(journeys) <= Len(Steps)
  BY DEF TypeOK, JourneyInv
<1>2. IsFiniteSet(Scenarios)
  BY <1>1, FS_Interval DEF Scenarios
<1>3. ASSUME NEW s \in Scenarios
      PROVE  IsFiniteSet(StepsOf(s)) /\ IsFiniteSet(ClientAttempts(s))
  <2>1. Len(journeys[s]) \in Nat
    BY <1>1 DEF Scenarios
  <2>2. ClientRetries[s] \in Nat
    <3>1. s \in 1 .. Len(Steps)
      BY <1>1, CallGraphAssumption DEF Scenarios
    <3> QED
      BY <3>1, MechanismAssumption
  <2>3. IsFiniteSet(1 .. Len(journeys[s]))
    BY <2>1, FS_Interval
  <2>4. IsFiniteSet(0 .. ClientRetries[s])
    BY <2>2, FS_Interval
  <2> QED
    BY <2>3, <2>4 DEF StepsOf, ClientAttempts
<1>4. IsFiniteSet(Owners)
  <2> DEFINE f == [o \in Ops |-> {Svc(o)}]
  <2>1. IsFiniteSet(Ops)
    BY CallGraphAssumption
  <2>2. \A o \in Ops : IsFiniteSet(f[o])
    BY FS_Singleton
  <2>3. DOMAIN f = Ops
    OBVIOUS
  <2>4. UNION {f[o] : o \in Ops} = {Svc(o) : o \in Ops}
    OBVIOUS
  <2> HIDE DEF f
  <2>5. IsFiniteSet({Svc(o) : o \in Ops})
    BY <2>1, <2>2, <2>3, <2>4, FiniteUnion
  <2>6. IsFiniteSet({0})
    BY FS_Singleton
  <2>7. IsFiniteSet({0} \cup Ops)
    BY <2>1, <2>6, FS_Union
  <2>8. IsFiniteSet({0} \cup Ops \cup {Svc(o) : o \in Ops})
    BY <2>5, <2>7, FS_Union
  <2> QED
    BY <1>2, <2>8, FS_Union DEF Owners
<1>5. IsFiniteSet(Q3)
  <2> DEFINE f == [s \in Scenarios |-> StepsOf(s)]
  <2>1. DOMAIN f = Scenarios /\ \A s \in Scenarios : IsFiniteSet(f[s])
    BY <1>3
  <2>2. UNION {f[s] : s \in Scenarios} = UNION {StepsOf(s) : s \in Scenarios}
    OBVIOUS
  <2> HIDE DEF f
  <2>3. IsFiniteSet(UNION {StepsOf(s) : s \in Scenarios})
    BY <1>2, <2>1, <2>2, FiniteUnion
  <2> QED
    BY <2>3, FS_Singleton, FS_Union
<1>6. IsFiniteSet(Q4)
  <2> DEFINE f == [s \in Scenarios |-> ClientAttempts(s)]
  <2>1. DOMAIN f = Scenarios /\ \A s \in Scenarios : IsFiniteSet(f[s])
    BY <1>3
  <2>2. UNION {f[s] : s \in Scenarios} = UNION {ClientAttempts(s) : s \in Scenarios}
    OBVIOUS
  <2> HIDE DEF f
  <2>3. IsFiniteSet(UNION {ClientAttempts(s) : s \in Scenarios})
    BY <1>2, <2>1, <2>2, FiniteUnion
  <2>4. IsFiniteSet(0 .. Retries)
    BY FS_Interval, MechanismAssumption
  <2>5. IsFiniteSet({0} \cup Attempts)
    BY <2>4, FS_Singleton, FS_Union DEF Attempts
  <2> QED
    BY <2>3, <2>5, FS_Union
<1>7. ASSUME NEW n \in Nodes PROVE n \in Q1 \X Owners \X Q3 \X Q4
  <2>1. CASE n \in LatentNodes
    BY <2>1, LatentShape
  <2>2. CASE n \in BackendNodes
    <3>1. n[2] \in Owners
      BY <2>2, BackendShape DEF Owners, Backend, Ops
    <3> QED
      BY <2>2, <3>1, BackendShape DEF I, F, A
  <2>3. CASE n \in JourneyNodes
    <3>1. n[2] \in Owners /\ n[3] \in Q3
      BY <2>3, JourneyShape DEF Owners
    <3>2. CASE n = CF(n[2], n[3])
      BY <3>1, <3>2 DEF CF
    <3>3. CASE n # CF(n[2], n[3])
      <4>1. n[4] \in Q4
        BY <2>3, <3>3, JourneyShape
      <4> HIDE DEF Q3, Q4
      <4> QED
        BY <2>3, <3>1, <3>3, <4>1, JourneyShape DEF IBff, T, C
    <3> QED
      BY <3>2, <3>3
  <2> QED
    BY <2>1, <2>2, <2>3 DEF Nodes
<1>8. IsFiniteSet(Q1 \X Owners \X Q3 \X Q4)
  <2> HIDE DEF Q3, Q4
  <2> QED
    BY <1>4, <1>5, <1>6, FiniteTags, FiniteQuads
<1> HIDE DEF Q1, Q3, Q4
<1>9. Nodes \in SUBSET (Q1 \X Owners \X Q3 \X Q4)
  BY <1>7
<1> QED
  BY <1>8, <1>9, FS_Subset

(***************************************************************************)
(* What a path of the mechanism passes.                                    *)
(***************************************************************************)
\* The mechanism is worked out.
Ready == TargetInv /\ phase # "mechanism"

LEMMA MechanismKids ==
  ASSUME Ready
  PROVE  /\ IsKids(Kids, Nodes) /\ IsFiniteSet(Nodes) /\ DOMAIN mech = Nodes
         /\ \A n, c \in Nodes : c \in Kids[n] <=> n \in Parents(c)
<1>1. mech = [n \in Nodes |-> Parents(n)]
  BY DEF Ready, TargetInv, StageInv
<1>2. DOMAIN mech = Nodes
  BY <1>1
<1>3. IsKids(Kids, Nodes)
  BY <1>2 DEF Kids, IsKids
<1>4. IsFiniteSet(Nodes)
  BY NodesFinite DEF Ready, TargetInv, GraphInv, DepthInv
<1>5. \A n, c \in Nodes : c \in Kids[n] <=> n \in Parents(c)
  BY <1>1, <1>2 DEF Kids
<1> QED
  BY <1>2, <1>3, <1>4, <1>5

\* What a token-bearing node is not.
LEMMA TokensNotPassed ==
  ASSUME NEW g, NEW n \in Through(g)
  PROVE  ~IsToken(n) /\ (g = "request" => n[1] # "I:bff")
BY DEF Through, Hidden, Latent, IsToken, Derived

LEMMA DerivedPassed ==
  ASSUME Ready, NEW n \in Nodes, n[1] \in {"I", "F", "C:F", "I:bff"}
  PROVE  /\ n \in Through("session")
         /\ n[1] # "I:bff" => n \in Through("request")
BY MechanismKids DEF Through, Derived

(***************************************************************************)
(* The groups of latents.                                                  *)
(***************************************************************************)
\* No latent decides whether a step happens, but through a token.
Decided == {n \in Nodes : n[1] \notin {"I:bff", "C:F"}}

LEMMA LatentsDecideNoStep ==
  ASSUME Ready, NEW n \in Decided, ~IsToken(n), NEW c \in Kids[n]
  PROVE  c \in Decided
<1>1. c \in Nodes /\ n \in Parents(c)
  BY MechanismKids DEF Decided, IsKids
<1>2. CASE c[1] = "I:bff"
  BY <1>1, <1>2, ParentsOfIBff DEF Decided, IsToken, T, CF
<1>3. CASE c[1] = "C:F"
  BY <1>1, <1>3, ParentsOfCF DEF Decided, IsToken, C
<1> QED
  BY <1>1, <1>2, <1>3 DEF Decided

LEMMA GrainsSpreadAlike ==
  ASSUME Ready, NEW l \in Nodes, Latent(l)
  PROVE  Spread(Kids[l], Kids, Through("request")) = Spread(Kids[l], Kids, Through("session"))
<1> DEFINE Rq == Spread(Kids[l], Kids, Through("request"))
           Se == Spread(Kids[l], Kids, Through("session"))
<1>1. IsKids(Kids, Nodes) /\ IsFiniteSet(Nodes) /\ Kids[l] \in SUBSET Nodes
  BY MechanismKids DEF IsKids
<1>2. Kids[l] \subseteq Decided
  <2>1. l \in Decided /\ ~IsToken(l)
    BY DEF Latent, Derived, Decided
  <2> QED
    BY <2>1, LatentsDecideNoStep
<1>3. Rq \subseteq Decided
  <2>1. \A x \in Nodes : x \in Decided /\ x \in Through("request") => Kids[x] \subseteq Decided
    BY TokensNotPassed, LatentsDecideNoStep
  <2> QED
    BY <1>1, <1>2, <2>1, SpreadWithin
<1>4. /\ Kids[l] \subseteq Rq /\ Rq \subseteq Nodes
      /\ \A x \in Rq \cap Through("request") : Kids[x] \subseteq Rq
  BY <1>1, SpreadHolds
<1>5. /\ Kids[l] \subseteq Se /\ Se \subseteq Nodes
      /\ \A x \in Se \cap Through("session") : Kids[x] \subseteq Se
  BY <1>1, SpreadHolds
<1>6. Through("request") \subseteq Through("session")
  BY DEF Through
<1> HIDE DEF Rq, Se
<1>7. \A x \in Nodes : x \in Rq /\ x \in Through("session") => Kids[x] \subseteq Rq
  <2> SUFFICES ASSUME NEW x \in Nodes, x \in Rq, x \in Through("session")
               PROVE  Kids[x] \subseteq Rq
    OBVIOUS
  <2>1. x \in Through("request")
    BY <1>3 DEF Decided, Through
  <2> QED
    BY <1>4, <2>1
<1>8. \A x \in Nodes : x \in Se /\ x \in Through("request") => Kids[x] \subseteq Se
  BY <1>5, <1>6
<1>9. Se \subseteq Rq
  BY <1>1, <1>4, <1>7, SpreadWithin DEF Se
<1>10. Rq \subseteq Se
  BY <1>1, <1>5, <1>8, SpreadWithin DEF Rq
<1> QED
  BY <1>9, <1>10 DEF Rq, Se

\* A latent confounds the same tokens in a request as in a journey: that
\* bidirected_groups runs once, with the request grain's projector, loses nothing.
THEOREM GroupsSameAtBothGrains == Spec => []GroupsGrainIndependent
<1>1. TargetInv => GroupsGrainIndependent
  <2> SUFFICES ASSUME TargetInv, phase = "done", NEW l \in DOMAIN groups
               PROVE  groups[l] = Group(l, Kids, Through("session"))
    BY DEF GroupsGrainIndependent, Projected
  <2>1. groups = [h \in HiddenNodes |-> Group(h, Kids, Through("request"))]
    BY DEF TargetInv, StageInv
  <2>2. Ready
    BY DEF Ready
  <2>3. l \in Nodes /\ Latent(l) /\ groups[l] = Group(l, Kids, Through("request"))
    BY <2>1, <2>2, MechanismKids DEF HiddenNodes, Hidden
  <2>4. Endpoints(l, Kids, Through("request")) = Endpoints(l, Kids, Through("session"))
    BY <2>2, <2>3, GrainsSpreadAlike DEF Endpoints
  <2> QED
    BY <2>3, <2>4 DEF Group
<1> QED
  BY <1>1, TargetInvHolds, PTL

(***************************************************************************)
(* Edges of a journey.                                                     *)
(***************************************************************************)
\* A request of a step can only bring about later requests of its journey, and
\* attempts of endpoints.
After(s, j) ==
  {n \in Nodes : \/ n[1] \in {"I", "A"}
                 \/ /\ n[1] \in {"I:bff", "T", "C", "C:F"}
                    /\ n[2] = s /\ n[3] >= j}

\* A step of a scenario is a number.
LEMMA StepsAreNumbers ==
  ASSUME TypeOK, NEW n \in JourneyNodes
  PROVE  /\ n[2] \in DOMAIN journeys /\ n[3] \in DOMAIN journeys[n[2]] /\ n[3] \in Nat
         /\ journeys[n[2]][n[3]] \in BffOps
<1>1. journeys \in Seq(Seq(BffOps))
  BY DEF TypeOK
<1>2. n[2] \in 1 .. Len(journeys) /\ n[3] \in 1 .. Len(journeys[n[2]])
  BY JourneyShape DEF Scenarios, StepsOf
<1>3. n[2] \in DOMAIN journeys /\ journeys[n[2]] \in Seq(BffOps)
  BY <1>1, <1>2
<1> QED
  BY <1>2, <1>3

LEMMA StepNumber ==
  ASSUME Ready, NEW n \in Nodes, n[1] \in {"I:bff", "T", "C", "C:F"}
  PROVE  n[3] \in Nat
BY NodeKinds, StepsAreNumbers DEF Ready, TargetInv, GraphInv, DepthInv

LEMMA LaterStepsFollow ==
  ASSUME Ready, NEW s, NEW j \in Nat, NEW n \in After(s, j), n \in Through("session"),
         NEW c \in Kids[n]
  PROVE  c \in After(s, j)
<1>1. c \in Nodes /\ n \in Nodes /\ n \in Parents(c)
  BY MechanismKids DEF After, IsKids
<1>2. n[1] \in {"I", "I:bff", "C:F"} /\ (n[1] # "I" => n[2] = s /\ n[3] \in Nat /\ n[3] >= j)
  BY <1>1, TokensNotPassed, StepNumber DEF After, IsToken
<1>3. CASE c[1] \in LatentTags
  BY <1>1, <1>2, <1>3, LatentsOfLatents DEF LatentTags
<1>4. CASE c[1] \in {"I", "A"}
  BY <1>1, <1>4 DEF After
<1>5. CASE c[1] = "F"
  BY <1>1, <1>2, <1>5, ParentsOfF DEF A
<1>6. CASE c[1] = "I:bff"
  <2>1. c[3] \in Nat
    BY <1>1, <1>6, StepNumber
  <2>2. c[3] > 1 /\ n = CF(c[2], c[3] - 1)
    BY <1>1, <1>2, <1>6, ParentsOfIBff DEF T
  <2>3. n[1] = "C:F" /\ n[2] = c[2] /\ n[3] = c[3] - 1
    BY <2>2 DEF CF
  <2>4. c[2] = s /\ c[3] >= j
    BY <1>2, <2>1, <2>3
  <2> QED
    BY <1>1, <1>6, <2>4 DEF After
<1>7. CASE c[1] = "T"
  <2>1. n = IBff(c[2], c[3], c[4])
    BY <1>1, <1>2, <1>7, ParentsOfT DEF F, A, LatentTags
  <2>2. c[2] = s /\ c[3] >= j
    BY <1>2, <2>1 DEF IBff
  <2> QED
    BY <1>1, <1>7, <2>2 DEF After
<1>8. CASE c[1] = "C"
  BY <1>1, <1>2, <1>8, ParentsOfC DEF T, LatentTags
<1>9. CASE c[1] = "C:F"
  BY <1>1, <1>2, <1>9, ParentsOfCF DEF C
<1> QED
  BY <1>1, <1>3, <1>4, <1>5, <1>6, <1>7, <1>8, <1>9, NodeKinds

\* From the BFF's answer of a step only this step and later ones are reached; from the
\* client's only later ones and the client's final of this one.
LEMMA FromStep ==
  ASSUME Ready, NEW n \in Nodes, n[1] = "T"
  PROVE  Spread(Kids[n], Kids, Through("session")) \subseteq After(n[2], n[3])
<1>1. IsKids(Kids, Nodes) /\ IsFiniteSet(Nodes) /\ Kids[n] \in SUBSET Nodes
  BY MechanismKids DEF IsKids
<1>2. n[3] \in Nat
  BY StepNumber
<1>3. ASSUME NEW c \in Kids[n] PROVE c \in After(n[2], n[3])
  <2>1. c \in Nodes /\ n \in Parents(c)
    BY <1>1, MechanismKids
  <2>2. CASE c[1] \in LatentTags
    BY <2>1, <2>2, LatentsOfLatents DEF LatentTags
  <2>3. CASE c[1] \in {"I", "A"}
    BY <2>1, <2>3 DEF After
  <2>4. CASE c[1] = "F"
    BY <2>1, <2>4, ParentsOfF DEF A
  <2>5. CASE c[1] = "I:bff"
    <3>1. c[2] = n[2] /\ c[3] = n[3]
      BY <2>1, <2>5, ParentsOfIBff DEF T, CF
    <3> QED
      BY <1>2, <2>1, <2>5, <3>1 DEF After
  <2>6. CASE c[1] = "T"
    BY <2>1, <2>6, ParentsOfT DEF F, A, LatentTags, IBff
  <2>7. CASE c[1] = "C"
    <3>1. c[2] = n[2] /\ c[3] = n[3]
      BY <2>1, <2>7, ParentsOfC DEF T, LatentTags
    <3> QED
      BY <1>2, <2>1, <2>7, <3>1 DEF After
  <2>8. CASE c[1] = "C:F"
    BY <2>1, <2>8, ParentsOfCF DEF C
  <2> QED
    BY <2>1, <2>2, <2>3, <2>4, <2>5, <2>6, <2>7, <2>8, NodeKinds
<1>4. \A x \in Nodes : x \in After(n[2], n[3]) /\ x \in Through("session") =>
        Kids[x] \subseteq After(n[2], n[3])
  BY <1>2, LaterStepsFollow
<1>5. Kids[n] \subseteq After(n[2], n[3])
  BY <1>3
<1> QED
  BY <1>1, <1>4, <1>5, SpreadWithin

LEMMA FromClient ==
  ASSUME Ready, NEW n \in Nodes, n[1] = "C"
  PROVE  Spread(Kids[n], Kids, Through("session")) \subseteq
           {CF(n[2], n[3])} \cup After(n[2], n[3] + 1)
<1> DEFINE S == {CF(n[2], n[3])} \cup After(n[2], n[3] + 1)
<1>1. IsKids(Kids, Nodes) /\ IsFiniteSet(Nodes) /\ Kids[n] \in SUBSET Nodes
  BY MechanismKids DEF IsKids
<1>2. n[3] \in Nat
  BY StepNumber
<1>3. ASSUME NEW c \in Kids[n] PROVE c = CF(n[2], n[3])
  <2>1. c \in Nodes /\ n \in Parents(c)
    BY <1>1, MechanismKids
  <2>2. CASE c[1] \in LatentTags
    BY <2>1, <2>2, LatentsOfLatents DEF LatentTags
  <2>3. CASE c[1] = "I"
    BY <2>1, <2>3, ParentsOfI DEF LatentTags
  <2>4. CASE c[1] = "A"
    BY <2>1, <2>4, ParentsOfA DEF I, A, F, LatentTags
  <2>5. CASE c[1] = "F"
    BY <2>1, <2>5, ParentsOfF DEF A
  <2>6. CASE c[1] = "I:bff"
    BY <2>1, <2>6, ParentsOfIBff DEF T, CF
  <2>7. CASE c[1] = "T"
    BY <2>1, <2>7, ParentsOfT DEF F, A, LatentTags, IBff
  <2>8. CASE c[1] = "C"
    BY <2>1, <2>8, ParentsOfC DEF T, LatentTags
  <2>9. CASE c[1] = "C:F"
    <3>1. c = CF(c[2], c[3])
      BY <2>1, <2>9, NodeKinds, JourneyShape DEF IBff, T, C
    <3>2. c[2] = n[2] /\ c[3] = n[3]
      BY <2>1, <2>9, ParentsOfCF DEF C
    <3> QED
      BY <3>1, <3>2
  <2> QED
    BY <2>1, <2>2, <2>3, <2>4, <2>5, <2>6, <2>7, <2>8, <2>9, NodeKinds
<1>4. ASSUME NEW x \in Nodes, x = CF(n[2], n[3]), NEW c \in Kids[x]
      PROVE  c \in After(n[2], n[3] + 1)
  <2>1. c \in Nodes /\ x \in Parents(c) /\ x[1] = "C:F" /\ x[2] = n[2] /\ x[3] = n[3]
    BY <1>1, <1>4, MechanismKids DEF IsKids, CF
  <2>2. CASE c[1] \in LatentTags
    BY <2>1, <2>2, LatentsOfLatents DEF LatentTags
  <2>3. CASE c[1] \in {"I", "A"}
    BY <2>1, <2>3 DEF After
  <2>4. CASE c[1] = "F"
    BY <2>1, <2>4, ParentsOfF DEF A
  <2>5. CASE c[1] = "I:bff"
    <3>1. c[3] \in Nat
      BY <2>1, <2>5, StepNumber
    <3>2. x = CF(c[2], c[3] - 1)
      BY <2>1, <2>5, ParentsOfIBff DEF T
    <3>3. c[2] = n[2] /\ n[3] = c[3] - 1
      BY <2>1, <3>2 DEF CF
    <3>4. c[3] >= n[3] + 1
      BY <3>1, <3>3
    <3> QED
      BY <2>1, <2>5, <3>3, <3>4 DEF After
  <2>6. CASE c[1] = "T"
    BY <2>1, <2>6, ParentsOfT DEF F, A, LatentTags, IBff
  <2>7. CASE c[1] = "C"
    BY <2>1, <2>7, ParentsOfC DEF T, LatentTags
  <2>8. CASE c[1] = "C:F"
    BY <2>1, <2>8, ParentsOfCF DEF C
  <2> QED
    BY <2>1, <2>2, <2>3, <2>4, <2>5, <2>6, <2>7, <2>8, NodeKinds
<1>5. \A x \in Nodes : x \in S /\ x \in Through("session") => Kids[x] \subseteq S
  BY <1>2, <1>4, LaterStepsFollow
<1>6. Kids[n] \subseteq S
  BY <1>3
<1> HIDE DEF S
<1>7. Spread(Kids[n], Kids, Through("session")) \subseteq S
  BY <1>1, <1>5, <1>6, SpreadWithin
<1> QED
  BY <1>7 DEF S

\* The place of an operation in the global order: of a step, the BFF's endpoint
\* before the client.
Rank(op) == IF op[1] = "client" THEN 2 * journeys[op[2]][op[3]] + 1 ELSE 2 * op[2]

LEMMA OnJourneyTags ==
  ASSUME Ready, NEW n \in Nodes, OnJourney(OpOf(n))
  PROVE  n[1] \in {"T", "C"}
<1>1. CASE n[1] = "A"
  <2>1. n[2] \in Backend
    BY <1>1, NodeKinds, BackendShape
  <2>2. OpOf(n) = <<"op", n[2], 0>>
    BY <1>1 DEF OpOf
  <2>3. n[2] \notin BffOps
    BY <2>1, CallGraphAssumption DEF Backend
  <2> QED
    BY <2>2, <2>3 DEF OnJourney
<1>2. CASE n[1] \notin {"A", "T", "C"}
  <2>1. OpOf(n) = <<"state", n, 0>>
    BY <1>2 DEF OpOf
  <2> QED
    BY <2>1 DEF OnJourney, IsServer
<1> QED
  BY <1>1, <1>2

LEMMA StepOps ==
  ASSUME Ready, NEW n \in Nodes, n[1] \in {"T", "C"}
  PROVE  /\ n[1] = "T" => OpOf(n) = <<"op", journeys[n[2]][n[3]], 0>>
         /\ n[1] = "C" => OpOf(n) = <<"client", n[2], n[3]>>
         /\ n[2] \in DOMAIN journeys /\ n[3] \in DOMAIN journeys[n[2]] /\ n[3] \in Nat
         /\ journeys[n[2]][n[3]] \in Nat
         /\ n[1] = "T" => Rank(OpOf(n)) = 2 * journeys[n[2]][n[3]]
         /\ n[1] = "C" => Rank(OpOf(n)) = 2 * journeys[n[2]][n[3]] + 1
<1>1. /\ n[1] = "T" => OpOf(n) = <<"op", journeys[n[2]][n[3]], 0>>
      /\ n[1] = "C" => OpOf(n) = <<"client", n[2], n[3]>>
  BY DEF OpOf
<1>2. /\ n[2] \in DOMAIN journeys /\ n[3] \in DOMAIN journeys[n[2]] /\ n[3] \in Nat
      /\ journeys[n[2]][n[3]] \in BffOps
  BY NodeKinds, StepsAreNumbers DEF Ready, TargetInv, GraphInv, DepthInv
<1>3. journeys[n[2]][n[3]] \in Nat
  BY <1>2, CallGraphAssumption
<1>4. n[1] = "T" => Rank(OpOf(n)) = 2 * journeys[n[2]][n[3]]
  BY <1>1 DEF Rank
<1>5. n[1] = "C" => Rank(OpOf(n)) = 2 * journeys[n[2]][n[3]] + 1
  BY <1>1 DEF Rank
<1> QED
  BY <1>1, <1>2, <1>3, <1>4, <1>5

\* What a pair of the target is.
LEMMA PairShape ==
  ASSUME Ready, phase \in {"groups", "done"}, NEW g \in Grains, NEW p \in pairs[g]
  PROVE  \E src, dst \in Nodes :
           /\ p = <<src, dst>> /\ src # dst /\ src \in Sources /\ IsToken(dst)
           /\ dst \in Spread(Kids[src], Kids, Through(g)) /\ HasEffect(src, dst)
<1>1. pairs = [h \in Grains |-> Directed(h)]
  BY DEF Ready, TargetInv, StageInv
<1>2. p \in Directed(g)
  BY <1>1
<1>3. PICK src \in Sources : \E dst \in Felt(src, g) : p = <<src, dst>>
  BY <1>2 DEF Directed
<1>4. PICK dst \in Endpoints(src, Kids, Through(g)) \ {src} :
        p = <<src, dst>> /\ HasEffect(src, dst)
  BY <1>3 DEF Felt
<1>5. src \in Nodes
  BY MechanismKids DEF Sources
<1>6. Kids[src] \in SUBSET Nodes /\ IsKids(Kids, Nodes) /\ IsFiniteSet(Nodes)
  BY <1>5, MechanismKids DEF IsKids
<1>7. Spread(Kids[src], Kids, Through(g)) \subseteq Nodes
  BY <1>6, SpreadHolds
<1>8. dst \in Spread(Kids[src], Kids, Through(g)) /\ IsToken(dst) /\ dst # src
  BY <1>4 DEF Endpoints
<1> QED
  BY <1>3, <1>4, <1>5, <1>7, <1>8

\* Along an edge of a journey the rank rises.
LEMMA EdgesRise ==
  ASSUME Ready, phase = "done", NEW e \in OpEdges("session"),
         OnJourney(e[1]), OnJourney(e[2]), e[1] # e[2]
  PROVE  Rank(e[1]) \in Nat /\ Rank(e[2]) \in Nat /\ Rank(e[1]) < Rank(e[2])
<1>1. PICK p \in pairs["session"] : e = <<OpOf(p[1]), OpOf(p[2])>>
  BY DEF OpEdges, KeptPairs
<1>2. PICK src, dst \in Nodes :
        /\ p = <<src, dst>> /\ src # dst /\ src \in Sources /\ IsToken(dst)
        /\ dst \in Spread(Kids[src], Kids, Through("session"))
  BY <1>1, PairShape DEF Grains
<1>3. e[1] = OpOf(src) /\ e[2] = OpOf(dst)
  BY <1>1, <1>2
<1>4. src[1] \in {"T", "C"} /\ dst[1] \in {"T", "C"}
  BY <1>3, OnJourneyTags
<1> DEFINE s == src[2]
           j == src[3]
           i == dst[3]
<1>5. j \in Nat /\ i \in Nat
  BY <1>4, StepOps
<1>6. /\ dst[2] = s
      /\ src[1] = "T" => i >= j
      /\ src[1] = "C" => i >= j + 1
  <2>1. CASE src[1] = "T"
    BY <1>2, <1>4, <2>1, FromStep DEF After
  <2>2. CASE src[1] = "C"
    <3>1. dst \in {CF(src[2], src[3])} \cup After(src[2], src[3] + 1)
      BY <1>2, <2>2, FromClient
    <3>2. dst \in After(src[2], src[3] + 1)
      BY <1>4, <3>1 DEF CF
    <3> QED
      BY <1>4, <2>2, <3>2 DEF After
  <2> QED
    BY <1>4, <2>1, <2>2
<1>7. /\ s \in DOMAIN journeys /\ j \in DOMAIN journeys[s] /\ i \in DOMAIN journeys[s]
      /\ journeys[s][j] \in Nat /\ journeys[s][i] \in Nat
  BY <1>4, <1>6, StepOps
<1>8. i > j => journeys[s][j] < journeys[s][i]
  BY <1>5, <1>7 DEF Ready, TargetInv, JourneyInv
<1>9. /\ Rank(e[1]) = IF src[1] = "T" THEN 2 * journeys[s][j] ELSE 2 * journeys[s][j] + 1
      /\ Rank(e[2]) = IF dst[1] = "T" THEN 2 * journeys[s][i] ELSE 2 * journeys[s][i] + 1
  BY <1>3, <1>4, <1>6, StepOps
<1>10. i = j => src[1] = "T" /\ dst[1] = "C"
  <2>1. i = j => src[1] = "T"
    BY <1>4, <1>5, <1>6
  <2>2. i = j /\ dst[1] = "T" => e[1] = e[2]
    BY <1>3, <1>6, <2>1, StepOps
  <2> QED
    BY <1>4, <2>1, <2>2
<1> HIDE DEF s, j, i
<1>11. i > j \/ i = j
  BY <1>4, <1>5, <1>6
<1> DEFINE b == journeys[s][j]
           d == journeys[s][i]
<1>12. b \in Nat /\ d \in Nat /\ (i > j => b < d) /\ (i = j => b = d)
  BY <1>7, <1>8
<1>13. /\ Rank(e[1]) = IF src[1] = "T" THEN 2 * b ELSE 2 * b + 1
       /\ Rank(e[2]) = IF dst[1] = "T" THEN 2 * d ELSE 2 * d + 1
  BY <1>9
<1> HIDE DEF b, d
<1> QED
  BY <1>4, <1>10, <1>11, <1>12, <1>13

\* Edges along which a number rises have no cycle.
LEMMA RisingHasNoCycle ==
  ASSUME NEW E, NEW V, IsFiniteSet(V), E \subseteq V \X V,
         \A e \in E : Rank(e[1]) \in Nat /\ Rank(e[2]) \in Nat /\ Rank(e[1]) < Rank(e[2])
  PROVE  HasNoCycle(E)
<1> DEFINE N == {e[1] : e \in E} \cup {e[2] : e \in E}
           out == [n \in N |-> {e[2] : e \in {x \in E : x[1] = n}}]
<1> SUFFICES ASSUME NEW n \in N PROVE n \notin Spread(out[n], out, N)
  BY DEF HasNoCycle
<1>1. IsFiniteSet(N)
  <2>1. N \in SUBSET V
    OBVIOUS
  <2> HIDE DEF N
  <2> QED
    BY <2>1, FS_Subset
<1>2. \A m \in N : out[m] \subseteq N
  OBVIOUS
<1>3. IsKids(out, N)
  <2>1. DOMAIN out = N /\ out = [m \in N |-> out[m]]
    OBVIOUS
  <2> HIDE DEF N, out
  <2> QED
    BY <1>2, <2>1 DEF IsKids
<1>4. \A m \in N : Rank(m) \in Nat
  OBVIOUS
<1>5. \A m \in N : \A k \in out[m] : k \in N /\ Rank(m) < Rank(k)
  OBVIOUS
<1> HIDE DEF N, out
<1> DEFINE S == {m \in N : Rank(n) < Rank(m)}
<1>6. out[n] \subseteq S
  BY <1>5
<1>7. \A x \in N : x \in S /\ x \in N => out[x] \subseteq S
  <2> SUFFICES ASSUME NEW x \in S, NEW k \in out[x] PROVE k \in S
    OBVIOUS
  <2>1. k \in N /\ Rank(x) < Rank(k) /\ Rank(n) < Rank(x)
    BY <1>5
  <2>2. Rank(n) \in Nat /\ Rank(x) \in Nat /\ Rank(k) \in Nat
    BY <1>4, <2>1
  <2>3. Rank(n) < Rank(k)
    BY <2>1, <2>2
  <2> QED
    BY <2>1, <2>3
<1>8. n \notin S
  BY <1>4
<1> HIDE DEF S
<1>9. Spread(out[n], out, N) \subseteq S
  BY <1>1, <1>2, <1>3, <1>6, <1>7, SpreadWithin
<1> QED
  BY <1>8, <1>9

\* Within a journey, and across all the scenarios' journeys, no outcome of a later
\* step reaches an earlier one: the session target has no cycle over the BFF's and the
\* client's operations, for any number of steps, retries and scenarios.
THEOREM JourneysHaveNoCycle == Spec => []JourneyEdgesAcyclic
<1>1. TargetInv => JourneyEdgesAcyclic
  <2> SUFFICES ASSUME TargetInv, phase = "done"
               PROVE  HasNoCycle({e \in OpEdges("session") : /\ OnJourney(e[1]) /\ OnJourney(e[2])
                                                             /\ e[1] # e[2]})
    BY DEF JourneyEdgesAcyclic, Projected
  <2> DEFINE E == {e \in OpEdges("session") : /\ OnJourney(e[1]) /\ OnJourney(e[2])
                                              /\ e[1] # e[2]}
             f == [n \in Nodes |-> {OpOf(n)}]
             V == UNION {f[n] : n \in Nodes}
  <2>1. Ready
    BY DEF Ready
  <2>2. IsFiniteSet(V)
    <3>1. IsFiniteSet(Nodes)
      BY <2>1, MechanismKids
    <3>2. DOMAIN f = Nodes /\ \A n \in Nodes : IsFiniteSet(f[n])
      BY FS_Singleton
    <3> HIDE DEF f
    <3> QED
      BY <3>1, <3>2, FiniteUnion
  <2>3. E \subseteq V \X V
    <3> SUFFICES ASSUME NEW e \in OpEdges("session") PROVE e \in V \X V
      OBVIOUS
    <3>1. PICK p \in pairs["session"] : e = <<OpOf(p[1]), OpOf(p[2])>>
      BY DEF OpEdges, KeptPairs
    <3>2. PICK src, dst \in Nodes : p = <<src, dst>>
      BY <2>1, <3>1, PairShape DEF Grains
    <3> QED
      BY <3>1, <3>2
  <2>4. \A e \in E : Rank(e[1]) \in Nat /\ Rank(e[2]) \in Nat /\ Rank(e[1]) < Rank(e[2])
    BY <2>1, EdgesRise
  <2> HIDE DEF E, V
  <2>5. HasNoCycle(E)
    BY <2>2, <2>3, <2>4, RisingHasNoCycle
  <2> QED
    BY <2>5 DEF E
<1> QED
  BY <1>1, TargetInvHolds, PTL

(***************************************************************************)
(* The request target and the published prior.                             *)
(***************************************************************************)
LEMMA ServerTags ==
  ASSUME NEW n, IsServer(OpOf(n))
  PROVE  n[1] \in {"A", "T"}
<1>1. n[1] \notin {"A", "T", "C"} => OpOf(n) = <<"state", n, 0>>
  BY DEF OpOf
<1>2. n[1] = "C" => OpOf(n) = <<"client", n[2], n[3]>>
  BY DEF OpOf
<1> QED
  BY <1>1, <1>2 DEF IsServer

LEMMA CalleesAreCalls ==
  ASSUME TypeOK, NEW u, NEW w
  PROVE  w \in Callees(u) <=> <<u, w>> \in calls
<1>1. calls \subseteq Ops \X Ops
  BY DEF TypeOK
<1> QED
  BY <1>1 DEF Callees

\* Within a request the outcome of an endpoint reaches the attempts of its callers.
CallersOf(v) ==
  {n \in Nodes : \/ n[1] \in {"A", "F"} /\ n[2] = v
                 \/ n[1] = "A" /\ <<n[2], v>> \in calls
                 \/ n[1] = "T" /\ <<journeys[n[2]][n[3]], v>> \in calls}

LEMMA OutcomeReaches ==
  ASSUME Ready, NEW n \in Nodes, n[1] \in {"A", "F"}, NEW c \in Kids[n]
  PROVE  c \in CallersOf(n[2])
<1>1. c \in Nodes /\ n \in Parents(c)
  BY MechanismKids DEF IsKids
<1>2. CASE c[1] \in LatentTags
  BY <1>1, <1>2, LatentsOfLatents DEF LatentTags
<1>3. CASE c[1] = "I"
  BY <1>1, <1>3, ParentsOfI DEF LatentTags
<1>4. CASE c[1] = "A"
  <2>1. \/ \E k : n = A(c[2], k)
        \/ \E w \in Callees(c[2]) : n = F(w) \/ n = A(w, 0)
    BY <1>1, <1>4, ParentsOfA DEF I, LatentTags
  <2>2. n[2] = c[2] \/ n[2] \in Callees(c[2])
    BY <2>1 DEF A, F
  <2> QED
    BY <1>1, <1>4, <2>2, CalleesAreCalls DEF CallersOf, Ready, TargetInv, GraphInv, DepthInv
<1>5. CASE c[1] = "F"
  BY <1>1, <1>5, ParentsOfF DEF A, CallersOf
<1>6. CASE c[1] = "I:bff"
  BY <1>1, <1>6, ParentsOfIBff DEF T, CF
<1>7. CASE c[1] = "T"
  <2>1. \E w \in Callees(journeys[c[2]][c[3]]) : n = F(w) \/ n = A(w, 0)
    BY <1>1, <1>7, ParentsOfT DEF LatentTags, IBff
  <2>2. n[2] \in Callees(journeys[c[2]][c[3]])
    BY <2>1 DEF A, F
  <2> QED
    BY <1>1, <1>7, <2>2, CalleesAreCalls DEF CallersOf, Ready, TargetInv, GraphInv, DepthInv
<1>8. CASE c[1] = "C"
  BY <1>1, <1>8, ParentsOfC DEF T, LatentTags
<1>9. CASE c[1] = "C:F"
  <2>1. \E k : n = C(c[2], c[3], k)
    BY <1>1, <1>9, ParentsOfCF
  <2> QED
    BY <2>1 DEF C
<1> QED
  BY <1>1, <1>2, <1>3, <1>4, <1>5, <1>6, <1>7, <1>8, <1>9, NodeKinds

LEMMA FromAttempt ==
  ASSUME Ready, NEW n \in Nodes, n[1] = "A"
  PROVE  Spread(Kids[n], Kids, Through("request")) \subseteq CallersOf(n[2])
<1>1. IsKids(Kids, Nodes) /\ IsFiniteSet(Nodes) /\ Kids[n] \in SUBSET Nodes
  BY MechanismKids DEF IsKids
<1>2. Kids[n] \subseteq CallersOf(n[2])
  BY OutcomeReaches
<1>3. ASSUME NEW x \in Nodes, x \in CallersOf(n[2]), x \in Through("request")
      PROVE  Kids[x] \subseteq CallersOf(n[2])
  <2>1. x[1] = "F" /\ x[2] = n[2]
    BY <1>3, TokensNotPassed DEF CallersOf, IsToken
  <2> QED
    BY <2>1, OutcomeReaches
<1>4. \A x \in Nodes : x \in CallersOf(n[2]) /\ x \in Through("request") =>
        Kids[x] \subseteq CallersOf(n[2])
  BY <1>3
<1> QED
  BY <1>1, <1>2, <1>4, SpreadWithin

\* What the BFF answers reaches no endpoint of its request.
LEMMA FromAnswer ==
  ASSUME Ready, NEW n \in Nodes, n[1] = "T"
  PROVE  Spread(Kids[n], Kids, Through("request")) \subseteq
           {x \in Nodes : x[1] \in {"I:bff", "C"}}
<1> DEFINE S == {x \in Nodes : x[1] \in {"I:bff", "C"}}
<1>1. IsKids(Kids, Nodes) /\ IsFiniteSet(Nodes) /\ Kids[n] \in SUBSET Nodes
  BY MechanismKids DEF IsKids
<1>2. ASSUME NEW c \in Kids[n] PROVE c \in S
  <2>1. c \in Nodes /\ n \in Parents(c)
    BY <1>1, MechanismKids
  <2>2. CASE c[1] \in LatentTags
    BY <2>1, <2>2, LatentsOfLatents DEF LatentTags
  <2>3. CASE c[1] = "I"
    BY <2>1, <2>3, ParentsOfI DEF LatentTags
  <2>4. CASE c[1] = "A"
    BY <2>1, <2>4, ParentsOfA DEF I, A, F, LatentTags
  <2>5. CASE c[1] = "F"
    BY <2>1, <2>5, ParentsOfF DEF A
  <2>6. CASE c[1] = "T"
    BY <2>1, <2>6, ParentsOfT DEF F, A, LatentTags, IBff
  <2>7. CASE c[1] = "C:F"
    BY <2>1, <2>7, ParentsOfCF DEF C
  <2>8. CASE c[1] \in {"I:bff", "C"}
    BY <2>1, <2>8
  <2> QED
    BY <2>1, <2>2, <2>3, <2>4, <2>5, <2>6, <2>7, <2>8, NodeKinds
<1>3. \A x \in Nodes : x \in S /\ x \in Through("request") => Kids[x] \subseteq S
  BY TokensNotPassed DEF IsToken
<1>4. Kids[n] \subseteq S
  BY <1>2
<1> HIDE DEF S
<1>5. Spread(Kids[n], Kids, Through("request")) \subseteq S
  BY <1>1, <1>3, <1>4, SpreadWithin
<1> QED
  BY <1>5 DEF S

\* Every outcome that a token-bearing node shows is in its operation's alphabet.
LEMMA ShownIsEmitted ==
  ASSUME Ready, NEW n \in Nodes, IsToken(n), NEW y \in Shows(n)
  PROVE  <<OpOf(n), y>> \in Alphabet
<1>1. CASE n[1] = "A"
  <2>1. n[2] \in Backend
    BY <1>1, NodeKinds, BackendShape
  <2>2. OpOf(n) = <<"op", n[2], 0>> /\ y \in Repertoire
    BY <1>1 DEF OpOf, Shows
  <2> QED
    BY <2>1, <2>2 DEF Alphabet
<1>2. CASE n[1] \in {"T", "C"}
  <2> DEFINE s == n[2]
             j == n[3]
             At(i) == ({<<"op", journeys[s][i], 0>>} \X BffMask[s])
                        \cup ({<<"client", s, i>>} \X ClientMask[s])
  <2>1. s \in Scenarios /\ j \in StepsOf(s)
    BY <1>2, NodeKinds, JourneyShape
  <2>2. <<OpOf(n), y>> \in At(j)
    BY <1>2, StepOps DEF Shows
  <2>3. <<OpOf(n), y>> \in UNION {At(i) : i \in StepsOf(s)}
    BY <2>1, <2>2
  <2> QED
    BY <2>1, <2>3 DEF Alphabet
<1> QED
  BY <1>1, <1>2 DEF IsToken

\* The calls whose callee the caller feels, over all that it can show.
FeltCall(u, w) == Feels(<<u, w>>, Shown(u))

LEMMA FeltByOne ==
  ASSUME NEW u, NEW w, NEW S, Feels(<<u, w>>, S), S \subseteq Shown(u)
  PROVE  FeltCall(u, w)
BY DEF Feels, FeltCall

LEMMA ShownByAttempt ==
  ASSUME Ready, NEW n \in Nodes, IsToken(n), NEW u, OpOf(n) = <<"op", u, 0>>
  PROVE  Shows(n) \subseteq Shown(u)
<1> SUFFICES ASSUME NEW y \in Shows(n) PROVE y \in Shown(u)
  OBVIOUS
<1>1. <<<<"op", u, 0>>, y>> \in Alphabet
  BY ShownIsEmitted
<1> QED
  BY <1>1 DEF Shown

LEMMA TargetEdgeIsCall ==
  ASSUME Ready, phase = "done", NEW e \in OpEdges("request"),
         IsServer(e[1]), IsServer(e[2]), e[1] # e[2]
  PROVE  e \in {x \in Prior : FeltCall(x[2][2], x[1][2])}
<1>1. PICK p \in pairs["request"] : e = <<OpOf(p[1]), OpOf(p[2])>>
  BY DEF OpEdges, KeptPairs
<1>2. PICK src, dst \in Nodes :
        /\ p = <<src, dst>> /\ IsToken(dst) /\ HasEffect(src, dst)
        /\ dst \in Spread(Kids[src], Kids, Through("request"))
  BY <1>1, PairShape DEF Grains
<1>3. e = <<OpOf(src), OpOf(dst)>>
  BY <1>1, <1>2
<1>4. src[1] \in {"A", "T"} /\ dst[1] \in {"A", "T"}
  BY <1>3, ServerTags
<1>5. src[1] = "A"
  BY <1>2, <1>4, FromAnswer
<1>6. OpOf(src) = <<"op", src[2], 0>>
  BY <1>5 DEF OpOf
<1>7. dst \in CallersOf(src[2])
  BY <1>2, <1>5, FromAttempt
<1>8. ASSUME NEW u, OpOf(dst) = <<"op", u, 0>>, <<u, src[2]>> \in calls
      PROVE  e \in {x \in Prior : FeltCall(x[2][2], x[1][2])}
  <2>1. Feels(<<u, src[2]>>, Shows(dst))
    BY <1>2, <1>3, <1>5, <1>8 DEF HasEffect
  <2>2. FeltCall(u, src[2])
    BY <1>2, <1>8, <2>1, ShownByAttempt, FeltByOne
  <2>3. e = <<<<"op", src[2], 0>>, <<"op", u, 0>>>>
    BY <1>3, <1>6, <1>8
  <2>4. e \in Prior
    BY <1>8, <2>3 DEF Prior
  <2> QED
    BY <2>2, <2>3, <2>4
<1>9. CASE dst[1] = "A"
  <2>1. OpOf(dst) = <<"op", dst[2], 0>>
    BY <1>9 DEF OpOf
  <2>2. dst[2] # src[2]
    BY <1>3, <1>6, <2>1
  <2>3. <<dst[2], src[2]>> \in calls
    BY <1>7, <1>9, <2>2 DEF CallersOf
  <2> QED
    BY <1>8, <2>1, <2>3
<1>10. CASE dst[1] = "T"
  <2>1. OpOf(dst) = <<"op", journeys[dst[2]][dst[3]], 0>>
    BY <1>10 DEF OpOf
  <2>2. <<journeys[dst[2]][dst[3]], src[2]>> \in calls
    BY <1>7, <1>10 DEF CallersOf
  <2> QED
    BY <1>8, <2>1, <2>2
<1> QED
  BY <1>4, <1>9, <1>10

\* Only the BFF and services call, and only backend endpoints are called.
LEMMA CallEnds ==
  ASSUME Ready, NEW u, NEW v, <<u, v>> \in calls
  PROVE  u \in BffOps \cup ServiceOps /\ v \in Backend /\ u # v
<1>1. TypeOK /\ layer \in [Services -> 1 .. Levels] /\ CallsGoDeeper
  BY DEF Ready, TargetInv, StageInv, GraphInv, DepthInv, Placed
<1>2. u \in Ops /\ v \in Ops /\ Depth(u) < Depth(v)
  BY <1>1 DEF TypeOK, CallsGoDeeper
<1>3. Levels \in Nat \ {0}
  BY CallGraphAssumption
<1>4. Depth(v) <= Levels + 1 /\ Depth(v) \in Nat
  BY <1>1, <1>2, <1>3, DepthOf DEF Ops
<1>5. u \notin ExternalOps
  BY <1>1, <1>2, <1>3, <1>4, DepthOf
<1>6. Depth(u) \in Nat
  BY <1>1, <1>2, <1>3, DepthOf DEF Ops
<1>7. v \notin BffOps
  BY <1>1, <1>2, <1>6, DepthOf
<1>8. u # v
  BY <1>2, <1>4
<1> QED
  BY <1>2, <1>5, <1>7, <1>8 DEF Ops, Backend

\* Caller and callee share the requests of some BFF endpoint.
LEMMA CallSharesRequest ==
  ASSUME Ready, NEW u, NEW v, <<u, v>> \in calls
  PROVE  {<<"op", v, 0>>, <<"op", u, 0>>} \in RequestSupport
<1> DEFINE R == UNION {Reach({b}, calls) : b \in BffOps}
<1>1. calls \subseteq Ops \X Ops /\ ServiceOps \subseteq Reach(BffOps, calls)
  BY DEF Ready, TargetInv, StageInv, GraphInv, DepthInv, TypeOK, ReachInv
<1>2. u \in BffOps \cup ServiceOps /\ u \in Ops /\ v \in Ops
  BY <1>1, CallEnds
<1>3. BffOps \subseteq R
  <2>1. ASSUME NEW b \in BffOps PROVE b \in Reach({b}, calls)
    BY ReachHolds DEF Ops
  <2> QED
    BY <2>1
<1>4. R \in SUBSET Ops
  BY DEF Reach
<1>5. \A e \in calls : e[1] \in R => e[2] \in R
  <2> SUFFICES ASSUME NEW e \in calls, NEW b \in BffOps, e[1] \in Reach({b}, calls)
               PROVE  e[2] \in Reach({b}, calls)
    OBVIOUS
  <2> QED
    BY <1>1, ReachStep
<1> HIDE DEF R
<1>6. u \in R
  BY <1>1, <1>2, <1>3, <1>4, <1>5 DEF Reach
<1>7. PICK b \in BffOps : u \in Reach({b}, calls)
  BY <1>6 DEF R
<1>8. v \in Reach({b}, calls)
  BY <1>2, <1>7, ReachStep
<1>9. <<"op", v, 0>> \in ServerOps(ReachableFrom(b)) /\ <<"op", u, 0>> \in ServerOps(ReachableFrom(b))
  BY <1>7, <1>8 DEF ServerOps, ReachableFrom
<1>10. {<<"op", v, 0>>, <<"op", u, 0>>} \in Pairs(ServerOps(ReachableFrom(b)))
  BY <1>9 DEF Pairs
<1> QED
  BY <1>10 DEF RequestSupport

LEMMA FinalReachesCallers ==
  ASSUME Ready, NEW u, NEW v, <<u, v>> \in calls, NEW n \in Nodes,
         \/ n = A(u, 0) /\ u \notin BffOps
         \/ \E s, j : n = T(s, j, 0) /\ journeys[s][j] = u
  PROVE  F(v) \in Parents(n)
<1>1. v \in Callees(u)
  BY CalleesAreCalls DEF Ready, TargetInv, GraphInv, DepthInv
<1>2. F(v) \in CalleeParents(u)
  BY <1>1 DEF CalleeParents
<1>3. CASE n = A(u, 0)
  <2>1. n[1] = "A" /\ n[2] = u
    BY <1>3 DEF A
  <2>2. Parents(n) = BackendParents(n)
    BY <2>1, NodeKinds DEF Parents
  <2> QED
    BY <1>2, <2>1, <2>2 DEF BackendParents
<1>4. CASE \E s, j : n = T(s, j, 0) /\ journeys[s][j] = u
  <2>1. n[1] = "T" /\ journeys[n[2]][n[3]] = u
    BY <1>4 DEF T
  <2>2. Parents(n) = JourneyParents(n)
    BY <2>1, NodeKinds DEF Parents
  <2> QED
    BY <1>2, <2>1, <2>2 DEF JourneyParents
<1> QED
  BY <1>3, <1>4

\* What an endpoint can show, one of its attempts shows.
LEMMA ShownHasAttempt ==
  ASSUME Ready, NEW u, NEW x \in Shown(u)
  PROVE  \E n \in Nodes :
           /\ \/ n = A(u, 0) /\ u \notin BffOps
              \/ \E s, j : n = T(s, j, 0) /\ journeys[s][j] = u
           /\ n[1] \in {"A", "T"} /\ OpOf(n) = <<"op", u, 0>> /\ x \in Shows(n)
<1> DEFINE At(s, j) == ({<<"op", journeys[s][j], 0>>} \X BffMask[s])
                         \cup ({<<"client", s, j>>} \X ClientMask[s])
           t == <<<<"op", u, 0>>, x>>
<1>1. t \in Alphabet
  <2>1. PICK y \in Alphabet : y[1] = <<"op", u, 0>> /\ x = y[2]
    BY DEF Shown
  <2>2. y = <<y[1], y[2]>>
    BY <2>1 DEF Alphabet
  <2> QED
    BY <2>1, <2>2
<1>2. \/ t \in {<<<<"op", o, 0>>, y>> : o \in Backend, y \in Repertoire}
      \/ \E s \in Scenarios : \E j \in StepsOf(s) : t \in At(s, j)
  BY <1>1 DEF Alphabet
<1>3. CASE t \in {<<<<"op", o, 0>>, y>> : o \in Backend, y \in Repertoire}
  <2>1. u \in Backend /\ x \in Repertoire
    BY <1>3
  <2>2. A(u, 0) \in {A(u, k) : k \in Attempts}
    BY MechanismAssumption DEF Attempts
  <2>3. A(u, 0) \in BackendNodes
    BY <2>1, <2>2 DEF BackendNodes
  <2>4. A(u, 0)[1] = "A" /\ A(u, 0)[2] = u
    BY DEF A
  <2>5. OpOf(A(u, 0)) = <<"op", u, 0>> /\ x \in Shows(A(u, 0))
    BY <2>1, <2>4 DEF OpOf, Shows
  <2>6. u \notin BffOps
    BY <2>1, CallGraphAssumption DEF Backend
  <2> QED
    BY <2>3, <2>4, <2>5, <2>6 DEF Nodes
<1>4. ASSUME NEW s \in Scenarios, NEW j \in StepsOf(s), t \in At(s, j)
      PROVE  \E n \in Nodes :
               /\ n = T(s, j, 0) /\ journeys[s][j] = u
               /\ n[1] \in {"A", "T"} /\ OpOf(n) = <<"op", u, 0>> /\ x \in Shows(n)
  <2>1. journeys[s][j] = u /\ x \in BffMask[s]
    BY <1>4
  <2>2. Len(journeys) = Len(Steps)
    BY DEF Ready, TargetInv, StageInv, JourneyInv
  <2>3. 0 \in ClientAttempts(s)
    <3>1. s \in 1 .. Len(Steps)
      BY <2>2 DEF Scenarios
    <3> QED
      BY <3>1, MechanismAssumption DEF ClientAttempts
  <2>4. T(s, j, 0) \in JourneyNodes
    <3>1. T(s, j, 0) \in UNION {{IBff(s, j, k), T(s, j, k), C(s, j, k)} : k \in ClientAttempts(s)}
      BY <2>3
    <3>2. T(s, j, 0) \in UNION {{CF(s, i)} \cup UNION {{IBff(s, i, k), T(s, i, k), C(s, i, k)} :
                                         k \in ClientAttempts(s)} :
                i \in StepsOf(s)}
      BY <3>1
    <3> QED
      BY <3>2 DEF JourneyNodes
  <2>5. T(s, j, 0)[1] = "T" /\ T(s, j, 0)[2] = s /\ T(s, j, 0)[3] = j
    BY DEF T
  <2>6. OpOf(T(s, j, 0)) = <<"op", u, 0>> /\ x \in Shows(T(s, j, 0))
    BY <2>1, <2>5 DEF OpOf, Shows
  <2> QED
    BY <2>1, <2>4, <2>5, <2>6 DEF Nodes
<1> QED
  BY <1>2, <1>3, <1>4

LEMMA CallIsTargetEdge ==
  ASSUME Ready, phase = "done", NEW u, NEW v, <<u, v>> \in calls, FeltCall(u, v)
  PROVE  <<<<"op", v, 0>>, <<"op", u, 0>>>> \in OpEdges("request")
<1>1. u \in BffOps \cup ServiceOps /\ v \in Backend /\ u # v
  BY CallEnds
<1>2. PICK dst \in Nodes :
           /\ \/ dst = A(u, 0) /\ u \notin BffOps
              \/ \E s, j : dst = T(s, j, 0) /\ journeys[s][j] = u
           /\ dst[1] \in {"A", "T"} /\ OpOf(dst) = <<"op", u, 0>>
           /\ Feels(<<u, v>>, Shows(dst))
  <2>1. PICK x \in Shown(u) : \A S : x \in S => Feels(<<u, v>>, S)
    BY DEF FeltCall, Feels
  <2> QED
    BY <2>1, ShownHasAttempt
<1> DEFINE src == A(v, Retries)
<1>3. src \in Nodes /\ F(v) \in Nodes
  <2>1. src \in {A(v, k) : k \in Attempts}
    BY MechanismAssumption DEF Attempts
  <2> QED
    BY <1>1, <2>1 DEF BackendNodes, Nodes
<1>4. src[1] = "A" /\ src[2] = v /\ OpOf(src) = <<"op", v, 0>>
  BY DEF A, OpOf
<1>5. src \in Parents(F(v))
  <2>1. F(v)[1] = "F" /\ F(v)[2] = v
    BY DEF F
  <2>2. Parents(F(v)) = BackendParents(F(v))
    BY <1>3, <2>1, NodeKinds DEF Parents
  <2>3. BackendParents(F(v)) = {A(v, i) : i \in Attempts}
    BY <2>1 DEF BackendParents
  <2> QED
    BY <2>2, <2>3, MechanismAssumption DEF Attempts
<1>6. F(v) \in Parents(dst)
  BY <1>2, FinalReachesCallers
<1>7. F(v) \in Kids[src] /\ dst \in Kids[F(v)]
  BY <1>2, <1>3, <1>5, <1>6, MechanismKids
<1>8. F(v) \in Through("request")
  BY <1>3, DerivedPassed DEF F
<1> HIDE DEF src
<1>9. dst \in Spread(Kids[src], Kids, Through("request"))
  <2>1. IsKids(Kids, Nodes) /\ IsFiniteSet(Nodes) /\ Kids[src] \in SUBSET Nodes
    BY <1>3, MechanismKids DEF IsKids
  <2>2. F(v) \in Spread(Kids[src], Kids, Through("request"))
    BY <1>7, <2>1, SpreadHolds
  <2> QED
    BY <1>7, <1>8, <2>1, <2>2, SpreadHolds
<1>10. dst # src
  BY <1>1, <1>2, <1>4
<1>11. dst \in Felt(src, "request")
  <2>1. dst \in Endpoints(src, Kids, Through("request")) \ {src}
    BY <1>2, <1>9, <1>10 DEF Endpoints, IsToken
  <2>2. HasEffect(src, dst)
    BY <1>2, <1>4 DEF HasEffect
  <2> QED
    BY <2>1, <2>2 DEF Felt
<1>12. src \in Sources
  BY <1>3, <1>4, MechanismKids DEF Sources, IsToken
<1>13. <<src, dst>> \in Directed("request")
  BY <1>11, <1>12 DEF Directed
<1>14. pairs["request"] = Directed("request")
  BY DEF Ready, TargetInv, StageInv, Grains
<1>15. InSupport(OpOf(src), OpOf(dst), Support("request"))
  BY <1>1, <1>2, <1>4, CallSharesRequest DEF InSupport, Support
<1>16. <<src, dst>> \in KeptPairs("request") /\ <<src, dst>>[1] = src /\ <<src, dst>>[2] = dst
  BY <1>13, <1>14, <1>15 DEF KeptPairs
<1> QED
  BY <1>2, <1>4, <1>16 DEF OpEdges

\* Between endpoints the request target has, for any calls, masks, retries and scenarios,
\* the calls of the published prior whose callee the caller feels, reversed, and no
\* other edge: a critical call of a caller that can show a failure is there, and no
\* outcome of a caller reaches a callee.
THEOREM RequestTargetReversesCalls == Spec => []RequestTargetIsPrior
<1>1. TargetInv => RequestTargetIsPrior
  <2> SUFFICES ASSUME TargetInv, phase = "done"
               PROVE  {e \in OpEdges("request") :
                         IsServer(e[1]) /\ IsServer(e[2]) /\ e[1] # e[2]} =
                        {e \in Prior : FeltCall(e[2][2], e[1][2])}
    BY DEF RequestTargetIsPrior, Projected, FeltCall, Feels
  <2>1. Ready
    BY DEF Ready
  <2>2. ASSUME NEW e \in OpEdges("request"), IsServer(e[1]), IsServer(e[2]), e[1] # e[2]
        PROVE  e \in {x \in Prior : FeltCall(x[2][2], x[1][2])}
    BY <2>1, <2>2, TargetEdgeIsCall
  <2>3. ASSUME NEW e \in Prior, FeltCall(e[2][2], e[1][2])
        PROVE  e \in OpEdges("request") /\ IsServer(e[1]) /\ IsServer(e[2]) /\ e[1] # e[2]
    <3>1. PICK c \in calls : e = <<<<"op", c[2], 0>>, <<"op", c[1], 0>>>>
      BY DEF Prior
    <3>2. c = <<c[1], c[2]>>
      BY DEF TargetInv, GraphInv, DepthInv, TypeOK
    <3>3. c[1] # c[2]
      BY <2>1, <3>2, CallEnds
    <3>4. FeltCall(c[1], c[2])
      BY <2>3, <3>1
    <3>5. e \in OpEdges("request")
      BY <2>1, <3>1, <3>2, <3>4, CallIsTargetEdge
    <3> QED
      BY <3>1, <3>3, <3>5 DEF IsServer
  <2> QED
    BY <2>2, <2>3
<1> QED
  BY <1>1, TargetInvHolds, PTL

(***************************************************************************)
(* The target against itself.                                              *)
(***************************************************************************)
\* Nothing is masked: every outcome a source can be forced to is one it can show.
NothingMasked ==
  /\ Outcomes \subseteq Repertoire
  /\ \A s \in 1 .. Len(Steps) : Outcomes \subseteq BffMask[s] /\ {"ok", "err"} \subseteq ClientMask[s]

\* A source is forced to outcomes it shows, when nothing is masked.
LEMMA ForcedIsShown ==
  ASSUME NothingMasked, Ready, NEW n \in Nodes, IsToken(n)
  PROVE  SourceValues(n) \subseteq Shows(n)
<1>1. CASE n[1] = "A"
  BY <1>1 DEF SourceValues, Shows, NothingMasked
<1>2. CASE n[1] \in {"T", "C"}
  <2>1. n[2] \in 1 .. Len(Steps)
    <3>1. n[2] \in Scenarios
      BY <1>2, NodeKinds, JourneyShape
    <3> QED
      BY <3>1 DEF Scenarios, Ready, TargetInv, StageInv, JourneyInv
  <2> QED
    BY <1>2, <2>1 DEF SourceValues, Shows, NothingMasked
<1> QED
  BY <1>1, <1>2 DEF IsToken

\* When nothing is masked, every edge the target keeps, at either grain, is one of the
\* token pairs that are scored: the target scored against itself is perfect.
THEOREM TargetScoresPerfectly ==
  ASSUME NothingMasked
  PROVE  Spec => []SelfCheckPerfect
<1>1. TargetInv => SelfCheckPerfect
  <2> SUFFICES ASSUME TargetInv, phase = "done", NEW g \in Grains, NEW e \in TargetEdges(g)
               PROVE  InUniverse(e[1], e[2], Alphabet, Support(g))
    BY DEF SelfCheckPerfect, Projected
  <2>1. Ready
    BY DEF Ready
  <2>2. PICK p \in KeptPairs(g) : e \in TokenEdges(p)
    BY DEF TargetEdges
  <2>3. p \in pairs[g] /\ InSupport(OpOf(p[1]), OpOf(p[2]), Support(g))
    BY <2>2 DEF KeptPairs
  <2>4. PICK src, dst \in Nodes : p = <<src, dst>> /\ src \in Sources /\ IsToken(dst)
    BY <2>1, <2>3, PairShape
  <2>5. PICK x \in SourceValues(src), y \in Shows(dst) :
          e = <<<<OpOf(src), x>>, <<OpOf(dst), y>>>>
    BY <2>2, <2>4 DEF TokenEdges
  <2>6. <<OpOf(dst), y>> \in Alphabet
    BY <2>1, <2>4, ShownIsEmitted
  <2>7. CASE IsToken(src)
    <3>1. <<OpOf(src), x>> \in Alphabet
      BY <2>1, <2>7, ForcedIsShown, ShownIsEmitted
    <3> QED
      BY <2>3, <2>4, <2>5, <2>6, <3>1 DEF InUniverse, InSupport
  <2>8. CASE ~IsToken(src)
    <3>1. OpOf(src) = <<"state", src, 0>>
      BY <2>8 DEF OpOf, IsToken
    <3> QED
      BY <2>5, <2>6, <3>1 DEF InUniverse, IsState
  <2> QED
    BY <2>7, <2>8
<1> QED
  BY <1>1, TargetInvHolds, PTL

\* Projecting the target leaves the deployment alone: what holds of the deployments
\* that GraphSpec builds holds of those whose target is projected.
THEOREM TargetKeepsGraph == Spec => GraphSpec
<1>1. TargetInit => Init
  BY DEF TargetInit
<1>2. [Next]_<<vars, targetVars>> => [Build]_vars
  BY DEF Next, BuildMechanism, ProjectDirected, ProjectGroups
<1> QED
  BY <1>1, <1>2, PTL DEF Spec, GraphSpec

\* A set of subsets of a finite set that has the empty one, and a set whenever it has
\* that set less any one element, has them all.
LEMMA SubsetInduction ==
  ASSUME NEW S, IsFiniteSet(S), NEW Q \in SUBSET SUBSET S, {} \in Q,
         \A s \in SUBSET S : s # {} /\ (\A x \in s : s \ {x} \in Q) => s \in Q
  PROVE  Q = SUBSET S
<1> DEFINE N == {n \in Nat : \A s \in SUBSET S : Cardinality(s) = n => s \in Q}
<1>1. \A s \in SUBSET S : IsFiniteSet(s) /\ Cardinality(s) \in Nat
  BY FS_Subset, FS_CardinalityType
<1>2. 0 \in N
  BY <1>1, FS_EmptySet
<1>3. ASSUME NEW n \in N PROVE n + 1 \in N
  <2> SUFFICES ASSUME NEW s \in SUBSET S, Cardinality(s) = n + 1 PROVE s \in Q
    OBVIOUS
  <2>1. s # {}
    BY FS_EmptySet
  <2>2. ASSUME NEW x \in s PROVE s \ {x} \in Q
    <3>1. Cardinality(s \ {x}) = n + 1 - 1
      BY <1>1, FS_RemoveElement
    <3>2. n + 1 - 1 = n
      OBVIOUS
    <3> QED
      BY <3>1, <3>2
  <2> QED
    BY <2>1, <2>2
<1>4. N = Nat
  <2>1. N \in SUBSET Nat
    OBVIOUS
  <2> HIDE DEF N
  <2> QED
    BY <1>2, <1>3, <2>1, InductionOnNat
<1> QED
  BY <1>1, <1>4

(***************************************************************************)
(* Numbers on finite sets.                                                 *)
(***************************************************************************)
LEMMA NumbersAreBounded ==
  ASSUME NEW S, IsFiniteSet(S), NEW f, \A v \in S : f[v] \in Int
  PROVE  \E b \in Nat : \A v \in S : -b < f[v] /\ f[v] < b
<1> DEFINE Q == {s \in SUBSET S : \E b \in Nat : \A v \in s : -b < f[v] /\ f[v] < b}
<1>1. {} \in Q
  OBVIOUS
<1>2. ASSUME NEW s \in SUBSET S, s # {}, \A x \in s : s \ {x} \in Q PROVE s \in Q
  <2>1. PICK x \in s : TRUE
    BY <1>2
  <2>2. PICK b \in Nat : \A v \in s \ {x} : -b < f[v] /\ f[v] < b
    BY <1>2, <2>1
  <2>3. f[x] \in Int
    BY <2>1
  <2>4. PICK c \in Nat : b <= c /\ -c < f[x] /\ f[x] < c
    <3>1. CASE f[x] >= 0
      <4>1. b + f[x] + 1 \in Nat /\ b <= b + f[x] + 1 /\ -(b + f[x] + 1) < f[x] /\ f[x] < b + f[x] + 1
        BY <2>3, <3>1
      <4> QED
        BY <4>1
    <3>2. CASE f[x] < 0
      <4>1. b - f[x] + 1 \in Nat /\ b <= b - f[x] + 1 /\ -(b - f[x] + 1) < f[x] /\ f[x] < b - f[x] + 1
        BY <2>3, <3>2
      <4> QED
        BY <4>1
    <3> QED
      BY <2>3, <3>1, <3>2
  <2>5. \A v \in s : -c < f[v] /\ f[v] < c
    <3> SUFFICES ASSUME NEW v \in s PROVE -c < f[v] /\ f[v] < c
      OBVIOUS
    <3>1. f[v] \in Int
      OBVIOUS
    <3>2. v = x \/ (-b < f[v] /\ f[v] < b)
      BY <2>2
    <3> QED
      BY <2>4, <3>1, <3>2
  <2> QED
    BY <2>5
<1>3. Q = SUBSET S
  <2>1. Q \in SUBSET SUBSET S
    OBVIOUS
  <2> HIDE DEF Q
  <2> QED
    BY <1>1, <1>2, <2>1, SubsetInduction
<1> QED
  BY <1>3

LEMMA LargestExists ==
  ASSUME NEW S, IsFiniteSet(S), S # {}, NEW f, \A v \in S : f[v] \in Int
  PROVE  \E m \in S : \A v \in S : f[v] <= f[m]
<1>1. PICK b \in Nat : \A v \in S : -b < f[v] /\ f[v] < b
  BY NumbersAreBounded
<1> DEFINE Gaps == {b - f[v] : v \in S}
<1>2. Gaps \in SUBSET Nat /\ Gaps # {}
  BY <1>1
<1>3. PICK x \in Gaps : \A y \in Gaps : x <= y
  <2> HIDE DEF Gaps
  <2> QED
    BY <1>2, LeastNatural
<1>4. PICK m \in S : x = b - f[m]
  BY <1>3
<1>5. ASSUME NEW v \in S PROVE f[v] <= f[m]
  <2>1. b - f[m] <= b - f[v]
    BY <1>3, <1>4
  <2>2. f[v] \in Int /\ f[m] \in Int
    OBVIOUS
  <2> QED
    BY <2>1, <2>2
<1> QED
  BY <1>5

(***************************************************************************)
(* Graphs.                                                                 *)
(***************************************************************************)
IsGraph(E) == IsFiniteSet(E) /\ \A e \in E : e = <<e[1], e[2]>>

LEMMA NodesTyped ==
  ASSUME NEW E, IsGraph(E)
  PROVE  /\ IsFiniteSet(NodesOf(E))
         /\ \A a, b : <<a, b>> \in E => a \in NodesOf(E) /\ b \in NodesOf(E)
         /\ \A a, b : Adjacent(E, a, b) => a \in NodesOf(E) /\ b \in NodesOf(E)
<1>1. IsFiniteSet({e[1] : e \in E}) /\ IsFiniteSet({e[2] : e \in E})
  <2> DEFINE I1 == {e[1] : e \in E}
             J == {e[2] : e \in E}
             f == [e \in E |-> e[1]]
             g == [e \in E |-> e[2]]
  <2>1. f \in Surjection(E, I1) /\ g \in Surjection(E, J)
    BY DEF Surjection
  <2> HIDE DEF f, g, I1, J
  <2>2. IsFiniteSet(I1) /\ IsFiniteSet(J)
    BY <2>1, FS_Surjection DEF IsGraph
  <2> QED
    BY <2>2 DEF I1, J
<1>2. IsFiniteSet(NodesOf(E))
  BY <1>1, FS_Union DEF NodesOf
<1>3. ASSUME NEW a, NEW b, <<a, b>> \in E PROVE a \in NodesOf(E) /\ b \in NodesOf(E)
  <2>1. <<a, b>>[1] = a /\ <<a, b>>[2] = b
    OBVIOUS
  <2> QED
    BY <1>3, <2>1 DEF NodesOf
<1> QED
  BY <1>2, <1>3 DEF Adjacent

\* Short cycles.
LEMMA NoShortCycles ==
  ASSUME NEW G, IsGraph(G), IsAcyclic(G)
  PROVE  /\ \A a, b : <<a, b>> \in G => <<b, a>> \notin G /\ a # b
         /\ \A a, b, c : <<a, b>> \in G /\ <<b, c>> \in G => <<c, a>> \notin G
         /\ \A a, b, c, d : <<a, b>> \in G /\ <<b, c>> \in G /\ <<c, d>> \in G => <<d, a>> \notin G
<1> DEFINE Sink(S) == \E n \in S : \A m \in S : <<n, m>> \notin G
<1>1. ASSUME NEW S \in SUBSET NodesOf(G), S # {} PROVE Sink(S)
  <2>1. PICK n \in S : \A e \in G : e[1] = n => e[2] \notin S
    BY <1>1 DEF IsAcyclic
  <2>2. ASSUME NEW m \in S, <<n, m>> \in G PROVE FALSE
    <3>1. <<n, m>>[1] = n /\ <<n, m>>[2] = m
      OBVIOUS
    <3> QED
      BY <2>1, <2>2, <3>1
  <2> QED
    BY <2>2
<1>2. ASSUME NEW a, NEW b, <<a, b>> \in G, <<b, a>> \in G \/ a = b PROVE FALSE
  <2>1. a \in NodesOf(G) /\ b \in NodesOf(G)
    BY <1>2, NodesTyped
  <2>2. {a, b} \in SUBSET NodesOf(G) /\ {a, b} # {}
    BY <2>1
  <2>3. Sink({a, b})
    <3> HIDE DEF Sink
    <3> QED
      BY <1>1, <2>2
  <2> QED
    BY <1>2, <2>3
<1>3. ASSUME NEW a, NEW b, NEW c, <<a, b>> \in G, <<b, c>> \in G, <<c, a>> \in G PROVE FALSE
  <2>1. a \in NodesOf(G) /\ b \in NodesOf(G) /\ c \in NodesOf(G)
    BY <1>3, NodesTyped
  <2>2. {a, b, c} \in SUBSET NodesOf(G) /\ {a, b, c} # {}
    BY <2>1
  <2>3. Sink({a, b, c})
    <3> HIDE DEF Sink
    <3> QED
      BY <1>1, <2>2
  <2> QED
    BY <1>3, <2>3
<1>4. ASSUME NEW a, NEW b, NEW c, NEW d, <<a, b>> \in G, <<b, c>> \in G, <<c, d>> \in G, <<d, a>> \in G
      PROVE  FALSE
  <2>1. a \in NodesOf(G) /\ b \in NodesOf(G) /\ c \in NodesOf(G) /\ d \in NodesOf(G)
    BY <1>4, NodesTyped
  <2>2. {a, b, c, d} \in SUBSET NodesOf(G) /\ {a, b, c, d} # {}
    BY <2>1
  <2>3. Sink({a, b, c, d})
    <3> HIDE DEF Sink
    <3> QED
      BY <1>1, <2>2
  <2> QED
    BY <1>4, <2>3
<1> HIDE DEF Sink
<1> QED
  BY <1>2, <1>3, <1>4

\* The nodes of an acyclic graph can be numbered along its edges.
LEMMA OrderExists ==
  ASSUME NEW E, IsGraph(E), IsAcyclic(E)
  PROVE  \E t \in [NodesOf(E) -> Int] : \A a, b : <<a, b>> \in E => t[a] < t[b]
<1> DEFINE V == NodesOf(E)
           Numbered(S, t) == \A a, b \in S : <<a, b>> \in E => t[a] < t[b]
           Q == {S \in SUBSET V : \E t \in [S -> Int] : Numbered(S, t)}
<1>1. {} \in Q
  <2>1. [v \in {} |-> 0] \in [{} -> Int] /\ Numbered({}, [v \in {} |-> 0])
    OBVIOUS
  <2> QED
    BY <2>1
<1>2. ASSUME NEW S \in SUBSET V, S # {}, \A x \in S : S \ {x} \in Q PROVE S \in Q
  <2>1. PICK n \in S : \A e \in E : e[1] = n => e[2] \notin S
    BY <1>2 DEF IsAcyclic
  <2>2. ASSUME NEW m \in S, <<n, m>> \in E PROVE FALSE
    <3>1. <<n, m>>[1] = n /\ <<n, m>>[2] = m
      OBVIOUS
    <3> QED
      BY <2>1, <2>2, <3>1
  <2>3. PICK t \in [S \ {n} -> Int] : Numbered(S \ {n}, t)
    BY <1>2, <2>1
  <2>4. PICK b \in Nat : \A v \in S \ {n} : -b < t[v] /\ t[v] < b
    <3>1. IsFiniteSet(S \ {n})
      BY NodesTyped, FS_Subset
    <3>2. \A v \in S \ {n} : t[v] \in Int
      OBVIOUS
    <3> QED
      BY <3>1, <3>2, NumbersAreBounded
  <2> DEFINE h == [v \in S |-> IF v = n THEN b ELSE t[v]]
  <2>5. h \in [S -> Int]
    OBVIOUS
  <2>6. Numbered(S, h)
    BY <2>2, <2>3, <2>4
  <2> QED
    BY <2>5, <2>6
<1>3. Q = SUBSET V
  <2>1. Q \in SUBSET SUBSET V /\ IsFiniteSet(V)
    BY NodesTyped
  <2> HIDE DEF Q, V
  <2> QED
    BY <1>1, <1>2, <2>1, SubsetInduction
<1>4. PICK t \in [V -> Int] : Numbered(V, t)
  <2>1. V \in Q
    BY <1>3
  <2> QED
    BY <2>1
<1>5. ASSUME NEW a, NEW b, <<a, b>> \in E PROVE t[a] < t[b]
  <2>1. a \in V /\ b \in V
    BY <1>5, NodesTyped
  <2> QED
    BY <1>4, <1>5, <2>1
<1> QED
  BY <1>5

\* A graph is acyclic when its edges rise, by one numbering or, where that is level, by
\* another.
LEMMA RisingIsAcyclic ==
  ASSUME NEW G, IsGraph(G), NEW p, NEW q,
         \A v \in NodesOf(G) : p[v] \in Int /\ q[v] \in Int,
         \A a, b : <<a, b>> \in G => p[a] < p[b] \/ (p[a] = p[b] /\ q[a] < q[b])
  PROVE  IsAcyclic(G)
<1> SUFFICES ASSUME NEW S \in SUBSET NodesOf(G), S # {}
             PROVE  \E n \in S : \A e \in G : e[1] = n => e[2] \notin S
  BY DEF IsAcyclic
<1>1. IsFiniteSet(S)
  BY NodesTyped, FS_Subset
<1>2. PICK m \in S : \A v \in S : p[v] <= p[m]
  BY <1>1, LargestExists
<1> DEFINE O == {v \in S : p[v] = p[m]}
<1>3. IsFiniteSet(O) /\ O # {} /\ \A v \in O : q[v] \in Int
  BY <1>1, <1>2, FS_Subset
<1>4. PICK n \in O : \A v \in O : q[v] <= q[n]
  <2> HIDE DEF O
  <2> QED
    BY <1>3, LargestExists
<1>5. ASSUME NEW e \in G, e[1] = n, e[2] \in S PROVE FALSE
  <2>1. <<n, e[2]>> \in G
    BY <1>5 DEF IsGraph
  <2>2. p[n] \in Int /\ p[e[2]] \in Int /\ q[n] \in Int /\ q[e[2]] \in Int /\ p[n] = p[m]
    BY <1>4, <1>5
  <2>3. p[e[2]] <= p[n]
    BY <1>2, <1>5, <2>2
  <2>4. p[n] = p[e[2]] /\ q[n] < q[e[2]]
    BY <2>1, <2>2, <2>3
  <2>5. e[2] \in O
    BY <1>5, <2>2, <2>4
  <2> QED
    BY <1>4, <2>2, <2>4, <2>5
<1> QED
  BY <1>4, <1>5

(***************************************************************************)
(* Equivalent graphs.                                                      *)
(***************************************************************************)
LEMMA EquivalentGraphs ==
  ASSUME NEW E, IsGraph(E), NEW G \in Equivalent(E)
  PROVE  /\ IsGraph(G) /\ IsAcyclic(G) /\ Triples(G) = Triples(E)
         /\ \A a, b : Adjacent(G, a, b) <=> Adjacent(E, a, b)
         /\ NodesOf(G) = NodesOf(E)
<1>1. PICK S \in SUBSET E : G = (E \ S) \cup {<<e[2], e[1]>> : e \in S}
  BY DEF Equivalent
<1>2. IsAcyclic(G) /\ Triples(G) = Triples(E)
  BY DEF Equivalent
<1> DEFINE J == {<<e[2], e[1]>> : e \in S}
           f == [e \in S |-> <<e[2], e[1]>>]
<1>3. IsFiniteSet(J)
  <2>1. f \in Surjection(S, J)
    BY DEF Surjection
  <2>2. IsFiniteSet(S)
    BY FS_Subset DEF IsGraph
  <2> HIDE DEF f, J
  <2> QED
    BY <2>1, <2>2, FS_Surjection
<1>4. IsFiniteSet(G)
  <2>1. IsFiniteSet(E \ S) /\ G = (E \ S) \cup J
    BY <1>1, FS_Difference DEF IsGraph
  <2> HIDE DEF J
  <2> QED
    BY <1>3, <2>1, FS_Union
<1>5. \A e \in G : e = <<e[1], e[2]>>
  BY <1>1 DEF IsGraph
<1>6. ASSUME NEW a, NEW b PROVE <<a, b>> \in J <=> <<b, a>> \in S
  <2>1. ASSUME <<a, b>> \in J PROVE <<b, a>> \in S
    <3>1. PICK e \in S : <<a, b>> = <<e[2], e[1]>>
      BY <2>1
    <3>2. e = <<e[1], e[2]>> /\ a = e[2] /\ b = e[1]
      BY <3>1 DEF IsGraph
    <3> QED
      BY <3>2
  <2>2. ASSUME <<b, a>> \in S PROVE <<a, b>> \in J
    <3>1. <<b, a>>[1] = b /\ <<b, a>>[2] = a
      OBVIOUS
    <3> QED
      BY <2>2, <3>1
  <2> QED
    BY <2>1, <2>2
<1> HIDE DEF J
<1>7. G = (E \ S) \cup J
  BY <1>1 DEF J
<1>8. \A a, b : Adjacent(G, a, b) <=> Adjacent(E, a, b)
  BY <1>6, <1>7 DEF Adjacent
<1>9. NodesOf(G) = NodesOf(E)
  <2>1. ASSUME NEW F1, NEW H, IsGraph(F1), IsGraph(H), \A a, b : Adjacent(F1, a, b) => Adjacent(H, a, b)
        PROVE  NodesOf(F1) \subseteq NodesOf(H)
    <3> SUFFICES ASSUME NEW n \in NodesOf(F1) PROVE n \in NodesOf(H)
      OBVIOUS
    <3>1. PICK e \in F1 : n = e[1] \/ n = e[2]
      BY DEF NodesOf
    <3>2. <<e[1], e[2]>> \in F1
      BY <2>1 DEF IsGraph
    <3>3. Adjacent(H, e[1], e[2])
      BY <2>1, <3>2 DEF Adjacent
    <3>4. e[1] \in NodesOf(H) /\ e[2] \in NodesOf(H)
      BY <2>1, <3>3, NodesTyped
    <3> QED
      BY <3>1, <3>4
  <2>2. IsGraph(G)
    BY <1>4, <1>5 DEF IsGraph
  <2> QED
    BY <1>8, <2>1, <2>2
<1> QED
  BY <1>2, <1>4, <1>5, <1>8, <1>9 DEF IsGraph

LEMMA SelfEquivalent ==
  ASSUME NEW E, IsAcyclic(E)
  PROVE  E \in Equivalent(E)
<1>1. E = (E \ {}) \cup {<<e[2], e[1]>> : e \in {}} /\ {} \in SUBSET E
  OBVIOUS
<1> QED
  BY <1>1 DEF Equivalent

LEMMA TriplesMember ==
  ASSUME NEW E, IsGraph(E), NEW a, NEW b, NEW c
  PROVE  <<a, b, c>> \in Triples(E) <=>
           <<a, b>> \in E /\ <<c, b>> \in E /\ a # c /\ ~Adjacent(E, a, c)
<1> DEFINE t == <<a, b, c>>
<1>1. t[1] = a /\ t[2] = b /\ t[3] = c
  OBVIOUS
<1>2. <<a, b>> \in E /\ <<c, b>> \in E => t \in NodesOf(E) \X NodesOf(E) \X NodesOf(E)
  BY NodesTyped
<1> HIDE DEF t
<1>3. t \in Triples(E) <=> <<a, b>> \in E /\ <<c, b>> \in E /\ a # c /\ ~Adjacent(E, a, c)
  BY <1>1, <1>2 DEF Triples
<1> QED
  BY <1>3 DEF t

LEMMA VStructuresMember ==
  ASSUME NEW E, IsGraph(E), NEW a, NEW b
  PROVE  <<a, b>> \in VStructures(E) <=>
           <<a, b>> \in E /\ \E c : <<c, b>> \in E /\ c # a /\ ~Adjacent(E, c, a)
<1> DEFINE e == <<a, b>>
<1>1. e[1] = a /\ e[2] = b
  OBVIOUS
<1>2. \A c : <<c, b>> \in E => c \in NodesOf(E)
  BY NodesTyped
<1> HIDE DEF e
<1>3. e \in VStructures(E) <=> e \in E /\ \E c : <<c, b>> \in E /\ c # a /\ ~Adjacent(E, c, a)
  BY <1>1, <1>2 DEF VStructures
<1> QED
  BY <1>3 DEF e

\* Where two nodes that are not adjacent have edges into a third, in one graph of the
\* class, both edges are v-structures of each.
LEMMA CollidersAreShared ==
  ASSUME NEW E, IsGraph(E), NEW G \in Equivalent(E), NEW a, NEW b, NEW x,
         <<a, x>> \in G, <<b, x>> \in G, a # b, ~Adjacent(E, a, b)
  PROVE  <<a, x>> \in VStructures(E) /\ <<b, x>> \in VStructures(E)
<1>1. IsGraph(G) /\ Triples(G) = Triples(E) /\ ~Adjacent(G, a, b)
  BY EquivalentGraphs
<1>2. <<a, x, b>> \in Triples(E)
  BY <1>1, TriplesMember
<1>3. <<a, x>> \in E /\ <<b, x>> \in E
  BY <1>2, TriplesMember
<1>4. ~Adjacent(E, b, a)
  BY DEF Adjacent
<1> QED
  BY <1>3, <1>4, VStructuresMember

LEMMA VStructuresAreShared ==
  ASSUME NEW E, IsGraph(E)
  PROVE  VStructures(E) \subseteq SharedEdges(E)
<1> SUFFICES ASSUME NEW e \in VStructures(E), NEW G \in Equivalent(E) PROVE e \in E /\ e \in G
  BY DEF SharedEdges, VStructures
<1>1. e \in E /\ e = <<e[1], e[2]>>
  BY DEF VStructures, IsGraph
<1>2. PICK c : <<c, e[2]>> \in E /\ c # e[1] /\ ~Adjacent(E, c, e[1])
  BY <1>1, VStructuresMember
<1> DEFINE a == e[1]
           b == e[2]
<1>3. <<a, b>> \in E /\ <<c, b>> \in E /\ c # a /\ ~Adjacent(E, c, a)
  BY <1>1, <1>2
<1> HIDE DEF a, b
<1>4. <<c, b, a>> \in Triples(E)
  BY <1>3, TriplesMember
<1>5. IsGraph(G) /\ Triples(G) = Triples(E)
  BY EquivalentGraphs
<1>6. <<a, b>> \in G
  BY <1>4, <1>5, TriplesMember
<1> QED
  BY <1>1, <1>6 DEF a, b

LEMMA UndirectedMember ==
  ASSUME NEW E, IsGraph(E), NEW D, NEW x, NEW y
  PROVE  <<x, y>> \in Undirected(D, E) <=>
           Adjacent(E, x, y) /\ <<x, y>> \notin D /\ <<y, x>> \notin D
<1> DEFINE p == <<x, y>>
           R == {<<e[2], e[1]>> : e \in E}
<1>1. p[1] = x /\ p[2] = y
  OBVIOUS
<1>2. p \in R <=> <<y, x>> \in E
  <2>1. ASSUME p \in R PROVE <<y, x>> \in E
    <3>1. PICK e \in E : <<x, y>> = <<e[2], e[1]>>
      BY <2>1
    <3>2. e = <<e[1], e[2]>> /\ x = e[2] /\ y = e[1]
      BY <3>1 DEF IsGraph
    <3> QED
      BY <3>2
  <2>2. ASSUME <<y, x>> \in E PROVE p \in R
    <3>1. <<y, x>>[1] = y /\ <<y, x>>[2] = x
      OBVIOUS
    <3> QED
      BY <2>2, <3>1
  <2> QED
    BY <2>1, <2>2
<1>3. Undirected(D, E) = {q \in E \cup R : q \notin D /\ <<q[2], q[1]>> \notin D}
  BY DEF Undirected
<1> HIDE DEF R
<1>4. p \in Undirected(D, E) <=> (p \in E \/ <<y, x>> \in E) /\ p \notin D /\ <<y, x>> \notin D
  <2> HIDE DEF p
  <2> QED
    BY <1>1, <1>2, <1>3
<1> QED
  BY <1>4 DEF Adjacent

(***************************************************************************)
(* Soundness.                                                              *)
(***************************************************************************)
LEMMA ForcedIsShared ==
  ASSUME NEW E, IsGraph(E), IsAcyclic(E),
         NEW D \in SUBSET SharedEdges(E), VStructures(E) \subseteq D,
         NEW x, NEW y, <<x, y>> \in Undirected(D, E), Meek(x, y, D, Undirected(D, E), E)
  PROVE  <<x, y>> \in SharedEdges(E)
<1> DEFINE U == Undirected(D, E)
<1>1. ASSUME NEW G \in Equivalent(E) PROVE <<x, y>> \in G
  <2> SUFFICES ASSUME <<y, x>> \in G PROVE FALSE
    <3>1. Adjacent(E, x, y)
      BY UndirectedMember
    <3>2. Adjacent(G, x, y)
      BY <3>1, EquivalentGraphs
    <3> QED
      BY <3>2 DEF Adjacent
  <2>1. IsGraph(G) /\ IsAcyclic(G) /\ D \subseteq G
    BY EquivalentGraphs DEF SharedEdges
  <2>2. \A a, b : <<a, b>> \in U => <<a, b>> \in G \/ <<b, a>> \in G
    BY EquivalentGraphs, UndirectedMember DEF Adjacent
  <2>3. \A a, b : <<a, b>> \in U => <<a, b>> \notin VStructures(E) /\ <<b, a>> \notin VStructures(E)
    BY UndirectedMember
  <2>4. \A a, b, c : <<a, c>> \in G /\ <<b, c>> \in G /\ a # b /\ ~Adjacent(E, a, b) =>
          <<a, c>> \in VStructures(E) /\ <<b, c>> \in VStructures(E)
    BY CollidersAreShared
  <2>5. /\ \A a, b : <<a, b>> \in G => <<b, a>> \notin G /\ a # b
        /\ \A a, b, c : <<a, b>> \in G /\ <<b, c>> \in G => <<c, a>> \notin G
        /\ \A a, b, c, d : <<a, b>> \in G /\ <<b, c>> \in G /\ <<c, d>> \in G => <<d, a>> \notin G
    BY <2>1, NoShortCycles
  <2> HIDE DEF U
  <2>6. CASE R1(x, y, D, U, E)
    <3>1. PICK z : <<z, x>> \in D /\ z # y /\ ~Adjacent(E, z, y)
      BY <2>6 DEF R1
    <3>2. <<y, x>> \in VStructures(E)
      BY <2>1, <2>4, <3>1
    <3> QED
      BY <2>3, <3>2 DEF U
  <2>7. CASE R2(x, y, D, U, E)
    BY <2>1, <2>5, <2>7 DEF R2
  <2>8. CASE R3(x, y, D, U, E)
    <3>1. PICK z1, z2 : /\ <<x, z1>> \in U /\ <<z1, y>> \in D /\ <<x, z2>> \in U /\ <<z2, y>> \in D
                        /\ z1 # z2 /\ ~Adjacent(E, z1, z2)
      BY <2>8 DEF R3
    <3>2. <<z1, x>> \in G /\ <<z2, x>> \in G
      BY <2>1, <2>2, <2>5, <3>1
    <3> QED
      BY <2>3, <2>4, <3>1, <3>2
  <2>9. CASE R4(x, y, D, U, E)
    <3>1. PICK z1, z2 : /\ <<x, z1>> \in U /\ <<z1, z2>> \in D /\ <<z2, y>> \in D
                        /\ Adjacent(E, x, z2) /\ ~Adjacent(E, z1, y)
      BY <2>9 DEF R4
    <3>2. <<z1, x>> \in G
      BY <2>1, <2>2, <2>5, <3>1
    <3>3. z1 # y
      BY <2>1, <2>5, <3>1
    <3> QED
      BY <2>3, <2>4, <3>1, <3>2, <3>3
  <2> QED
    BY <2>6, <2>7, <2>8, <2>9 DEF Meek, U
<1> QED
  BY <1>1, SelfEquivalent DEF SharedEdges

(***************************************************************************)
(* The rounds of the rules.                                                *)
(***************************************************************************)
\* The edges directed so far.
IsPart(D, E) == D \subseteq SharedEdges(E) /\ VStructures(E) \subseteq D

\* No rule forces an edge that has no direction.
IsClosed(D, E) ==
  \A x, y : <<x, y>> \in Undirected(D, E) => ~Meek(x, y, D, Undirected(D, E), E)

Adds(x, y, D, E) ==
  /\ <<x, y>> \in Undirected(D, E) /\ Meek(x, y, D, Undirected(D, E), E)
  /\ Orient(D, E) = D \cup {<<x, y>>}

LEMMA OrientCases ==
  ASSUME NEW E, IsGraph(E), NEW D
  PROVE  (Orient(D, E) = D /\ IsClosed(D, E)) \/ (\E x, y : Adds(x, y, D, E))
<1> DEFINE U == Undirected(D, E)
           forced == {e \in U : Meek(e[1], e[2], D, U, E)}
           f == CHOOSE e \in forced : TRUE
<1>1. Orient(D, E) = IF forced = {} THEN D ELSE D \cup {f}
  BY DEF Orient
<1>2. \A e \in U : e = <<e[1], e[2]>> /\ e \notin D
  BY DEF Undirected, IsGraph
<1>3. \A x, y : <<x, y>>[1] = x /\ <<x, y>>[2] = y
  OBVIOUS
<1>4. forced = {} => IsClosed(D, E)
  <2> SUFFICES ASSUME forced = {}, NEW x, NEW y, <<x, y>> \in U PROVE ~Meek(x, y, D, U, E)
    BY DEF IsClosed
  <2>1. <<x, y>> \notin forced
    OBVIOUS
  <2> HIDE DEF U
  <2> QED
    BY <1>3, <2>1
<1>5. CASE forced = {}
  BY <1>1, <1>4, <1>5
<1>6. CASE forced # {}
  <2>1. f \in forced
    BY <1>6
  <2> DEFINE x == f[1]
             y == f[2]
  <2> HIDE DEF f
  <2>2. f = <<x, y>> /\ f \in U /\ f \notin D /\ Meek(x, y, D, U, E)
    BY <1>2, <2>1
  <2> HIDE DEF x, y, forced
  <2>3. Orient(D, E) = D \cup {<<x, y>>}
    BY <1>1, <1>6, <2>2
  <2> QED
    BY <2>2, <2>3 DEF Adds
<1> QED
  BY <1>5, <1>6

LEMMA OrientStep ==
  ASSUME NEW E, IsGraph(E), IsAcyclic(E), NEW D, IsPart(D, E)
  PROVE  IsPart(Orient(D, E), E)
<1>1. ASSUME NEW x, NEW y, Adds(x, y, D, E) PROVE IsPart(Orient(D, E), E)
  <2>1. D \in SUBSET SharedEdges(E) /\ VStructures(E) \subseteq D
    BY DEF IsPart
  <2>2. <<x, y>> \in SharedEdges(E)
    BY <1>1, <2>1, ForcedIsShared DEF Adds
  <2> QED
    BY <1>1, <2>1, <2>2 DEF Adds, IsPart
<1> QED
  BY <1>1, OrientCases

IsRun(W, E) ==
  /\ W[0] = VStructures(E)
  /\ \A n \in Nat : IsPart(W[n], E) /\ W[n + 1] = Orient(W[n], E)

LEMMA RunExists ==
  ASSUME NEW E, IsGraph(E), IsAcyclic(E)
  PROVE  \E W : IsRun(W, E) /\ CompelledEdges(E) = W[Cardinality(E)]
<1> DEFINE P == {D \in SUBSET SharedEdges(E) : VStructures(E) \subseteq D}
           step == [D \in P |-> Orient(D, E)]
           Eqn(W) == W = [n \in Nat |-> IF n = 0 THEN VStructures(E) ELSE Orient(W[n - 1], E)]
           G == CHOOSE W : Eqn(W)
<1>1. VStructures(E) \in P
  BY VStructuresAreShared
<1>2. \A D : D \in P <=> IsPart(D, E)
  BY DEF IsPart
<1>3. step \in [P -> P]
  <2> HIDE DEF P
  <2> QED
    BY <1>2, OrientStep
<1>4. PICK W \in [Nat -> P] : W[0] = VStructures(E) /\ \A n \in Nat : W[n + 1] = step[W[n]]
  <2> HIDE DEF P, step
  <2> QED
    BY <1>1, <1>3, RecursionExists
<1>5. \A n \in Nat : IsPart(W[n], E) /\ W[n + 1] = Orient(W[n], E)
  BY <1>2, <1>4
<1>6. IsRun(W, E)
  BY <1>4, <1>5 DEF IsRun
<1>7. Eqn(W)
  <2>1. ASSUME NEW n \in Nat, n # 0 PROVE W[n] = Orient(W[n - 1], E)
    <3>1. n - 1 \in Nat /\ n - 1 + 1 = n
      BY <2>1
    <3> QED
      BY <1>5, <3>1
  <2> QED
    BY <1>4, <2>1
<1>8. Eqn(G)
  BY <1>7
<1>9. CompelledEdges(E) = G[Cardinality(E)]
  BY DEF CompelledEdges
<1> HIDE DEF G, P, step
<1>10. G = W
  <2> DEFINE S == {n \in Nat : G[n] = W[n]}
  <2>1. 0 \in S
    BY <1>7, <1>8
  <2>2. ASSUME NEW n \in S PROVE n + 1 \in S
    <3>1. n + 1 \in Nat /\ n + 1 # 0 /\ n + 1 - 1 = n /\ G[n] = W[n]
      OBVIOUS
    <3>2. G[n + 1] = Orient(G[n + 1 - 1], E)
      BY <1>8, <3>1
    <3>3. G[n + 1] = W[n + 1]
      BY <1>5, <3>1, <3>2
    <3> QED
      BY <3>1, <3>3
  <2>3. S = Nat
    <3>1. S \in SUBSET Nat
      OBVIOUS
    <3> HIDE DEF S
    <3> QED
      BY <2>1, <2>2, <3>1, InductionOnNat
  <2>4. G = [n \in Nat |-> G[n]] /\ W = [n \in Nat |-> W[n]]
    BY <1>7, <1>8
  <2> QED
    BY <2>3, <2>4
<1> QED
  BY <1>6, <1>9, <1>10

\* After as many rounds as there are edges no rule applies.
LEMMA RunSettles ==
  ASSUME NEW E, IsGraph(E), IsAcyclic(E), NEW W, IsRun(W, E)
  PROVE  IsClosed(W[Cardinality(E)], E)
<1> DEFINE c == Cardinality(E)
<1>1. c \in Nat
  BY FS_CardinalityType DEF IsGraph
<1>2. ASSUME NEW n \in Nat
      PROVE  /\ IsPart(W[n], E) /\ W[n + 1] = Orient(W[n], E)
             /\ W[n] \in SUBSET E /\ IsFiniteSet(W[n]) /\ Cardinality(W[n]) \in Nat
  <2>1. IsPart(W[n], E) /\ W[n + 1] = Orient(W[n], E)
    BY DEF IsRun
  <2>2. W[n] \in SUBSET E
    BY <2>1 DEF IsPart, SharedEdges
  <2> QED
    BY <2>1, <2>2, FS_Subset, FS_CardinalityType DEF IsGraph
<1> DEFINE Q == {n \in Nat : W[n + 1] = W[n] \/ Cardinality(W[n]) >= n}
<1>3. 0 \in Q
  <2>1. Cardinality(W[0]) \in Nat
    BY <1>2
  <2> QED
    BY <2>1
<1>4. ASSUME NEW n \in Q PROVE n + 1 \in Q
  <2>1. n \in Nat /\ n + 1 \in Nat /\ W[n + 1] = Orient(W[n], E) /\ W[n + 1 + 1] = Orient(W[n + 1], E)
    <3>1. n \in Nat /\ n + 1 \in Nat
      OBVIOUS
    <3>2. W[n + 1] = Orient(W[n], E)
      BY <3>1, <1>2
    <3> DEFINE k == n + 1
    <3>3. k \in Nat
      BY <3>1
    <3> HIDE DEF k
    <3>4. W[k + 1] = Orient(W[k], E)
      BY <3>3, <1>2
    <3> QED
      BY <3>1, <3>2, <3>4 DEF k
  <2>2. CASE W[n + 1] = W[n]
    BY <2>1, <2>2
  <2>3. CASE W[n + 1] # W[n]
    <3>1. Cardinality(W[n]) >= n /\ Cardinality(W[n]) \in Nat /\ IsFiniteSet(W[n]) /\ IsPart(W[n], E)
      BY <1>2, <2>3
    <3>2. PICK x, y : Adds(x, y, W[n], E)
      BY <2>1, <2>3, OrientCases
    <3>3. <<x, y>> \notin W[n]
      BY <3>2 DEF Undirected, Adds
    <3>4. Cardinality(W[n + 1]) = Cardinality(W[n]) + 1
      <4> DEFINE D == W[n]
                 e == <<x, y>>
      <4>1. W[n + 1] = D \cup {e} /\ IsFiniteSet(D) /\ e \notin D
        BY <2>1, <3>1, <3>2, <3>3 DEF Adds
      <4> HIDE DEF D, e
      <4>2. Cardinality(D \cup {e}) = Cardinality(D) + 1
        BY <4>1, FS_AddElement
      <4> QED
        BY <4>1, <4>2 DEF D
    <3>5. Cardinality(W[n + 1]) >= n + 1
      BY <2>1, <3>1, <3>4
    <3> QED
      BY <2>1, <3>5
  <2> QED
    BY <2>2, <2>3
<1>5. Q = Nat
  <2>1. Q \in SUBSET Nat
    OBVIOUS
  <2> HIDE DEF Q
  <2> QED
    BY <1>3, <1>4, <2>1, InductionOnNat
<1>6. CASE W[c + 1] = W[c]
  <2>1. W[c] = Orient(W[c], E)
    BY <1>1, <1>2, <1>6
  <2> HIDE DEF c
  <2>2. ~ \E x, y : Adds(x, y, W[c], E)
    BY <2>1 DEF Adds, Undirected
  <2>3. IsClosed(W[c], E)
    BY <2>2, OrientCases
  <2> QED
    BY <2>3 DEF c
<1>7. CASE W[c + 1] # W[c]
  <2>1. Cardinality(W[c]) >= c
    BY <1>1, <1>5, <1>7
  <2>2. W[c] \in SUBSET E /\ Cardinality(W[c]) \in Nat
    BY <1>1, <1>2
  <2>3. IsFiniteSet(E) /\ Cardinality(W[c]) <= c
    BY <2>2, FS_Subset DEF IsGraph
  <2>4. Cardinality(W[c]) = Cardinality(E)
    BY <1>1, <2>1, <2>2, <2>3
  <2>5. W[c] = E
    BY <2>2, <2>3, <2>4, FS_Subset
  <2>6. \A x, y : <<x, y>> \notin Undirected(E, E)
    BY UndirectedMember DEF Adjacent
  <2> QED
    BY <2>5, <2>6 DEF IsClosed
<1> QED
  BY <1>6, <1>7

(***************************************************************************)
(* Where the rules have stopped.                                           *)
(***************************************************************************)
LEMMA ClosedFacts ==
  ASSUME NEW E, IsGraph(E), IsAcyclic(E), NEW D, IsPart(D, E), IsClosed(D, E),
         NEW U, U = Undirected(D, E)
  PROVE  /\ \A x, y, z : <<z, x>> \in D /\ <<x, y>> \in U => z # y /\ Adjacent(E, z, y)
         /\ \A x, y, z : <<x, z>> \in D /\ <<z, y>> \in D => <<x, y>> \notin U
         /\ \A x, y, z1, z2 : <<x, z1>> \in U /\ <<z1, y>> \in D /\ <<x, z2>> \in U /\ <<z2, y>> \in D
                              /\ z1 # z2 /\ ~Adjacent(E, z1, z2) => <<x, y>> \notin U
<1>1. \A x, y : <<x, y>> \in U => ~R1(x, y, D, U, E) /\ ~R2(x, y, D, U, E) /\ ~R3(x, y, D, U, E)
  BY DEF IsClosed, Meek
<1>2. D \subseteq E
  BY DEF IsPart, SharedEdges
<1>3. \A x, y : <<x, y>> \in D => x \in NodesOf(E) /\ y \in NodesOf(E)
  BY <1>2, NodesTyped
<1>4. ASSUME NEW x, NEW y, NEW z, <<z, x>> \in D, <<x, y>> \in U PROVE z # y /\ Adjacent(E, z, y)
  <2>1. z # y
    BY <1>4, UndirectedMember
  <2> QED
    BY <1>1, <1>3, <1>4, <2>1 DEF R1
<1>5. ASSUME NEW x, NEW y, NEW z, <<x, z>> \in D, <<z, y>> \in D PROVE <<x, y>> \notin U
  BY <1>1, <1>3, <1>5 DEF R2
<1>6. ASSUME NEW x, NEW y, NEW z1, NEW z2, <<x, z1>> \in U, <<z1, y>> \in D,
             <<x, z2>> \in U, <<z2, y>> \in D, z1 # z2, ~Adjacent(E, z1, z2)
      PROVE  <<x, y>> \notin U
  BY <1>1, <1>3, <1>6 DEF R3
<1> QED
  BY <1>4, <1>5, <1>6

LEMMA PartFacts ==
  ASSUME NEW E, IsGraph(E), IsAcyclic(E), NEW D, IsPart(D, E), NEW U, U = Undirected(D, E)
  PROVE  /\ \A x, y : <<x, y>> \in U <=> <<y, x>> \in U
         /\ \A x, y : Adjacent(E, x, y) => <<x, y>> \in D \/ <<y, x>> \in D \/ <<x, y>> \in U
         /\ \A x, y : <<x, y>> \in U => <<x, y>> \notin D /\ <<y, x>> \notin D /\ Adjacent(E, x, y) /\ x # y
         /\ \A x, y : <<x, y>> \in D => <<y, x>> \notin D /\ <<x, y>> \in E /\ x # y
         /\ \A x, y, z : <<x, y>> \in D /\ <<y, z>> \in D => <<z, x>> \notin D
         /\ \A x, y, z : <<x, z>> \in D /\ <<y, z>> \in D /\ x # y /\ ~Adjacent(E, x, y) =>
              <<x, z>> \in VStructures(E) /\ <<y, z>> \in VStructures(E)
<1>1. D \subseteq E /\ VStructures(E) \subseteq D
  BY DEF IsPart, SharedEdges
<1>2. /\ \A a, b : <<a, b>> \in E => <<b, a>> \notin E /\ a # b
      /\ \A a, b, c : <<a, b>> \in E /\ <<b, c>> \in E => <<c, a>> \notin E
  BY NoShortCycles
<1>3. \A x, y : <<x, y>> \in U <=> Adjacent(E, x, y) /\ <<x, y>> \notin D /\ <<y, x>> \notin D
  BY UndirectedMember
<1>4. \A x, y, z : <<x, z>> \in E /\ <<y, z>> \in E /\ x # y /\ ~Adjacent(E, x, y) =>
        <<x, z>> \in VStructures(E) /\ <<y, z>> \in VStructures(E)
  BY SelfEquivalent, CollidersAreShared
<1> QED
  BY <1>1, <1>2, <1>3, <1>4 DEF Adjacent

\* An edge into a node of an undirected pair goes on to the other one: of the edge that
\* a rule has forced, when it is so of the edges that forced it.
Carries(F1, D, U) ==
  \A a, b, c : <<a, b>> \in F1 /\ <<b, c>> \in U => <<a, c>> \in D

LEMMA ForcedCarries ==
  ASSUME NEW E, IsGraph(E), IsAcyclic(E), NEW D, IsPart(D, E), IsClosed(D, E),
         NEW U, U = Undirected(D, E), NEW F1 \in SUBSET D, VStructures(E) \subseteq F1,
         NEW a, NEW b, NEW c, <<a, b>> \in D, <<b, c>> \in U,
         \/ <<a, b>> \in VStructures(E)
         \/ /\ <<a, b>> \in Undirected(F1, E) /\ Meek(a, b, F1, Undirected(F1, E), E)
            /\ Carries(F1, D, U)
  PROVE  <<a, c>> \in D
<1>1. /\ \A x, y, z : <<z, x>> \in D /\ <<x, y>> \in U => z # y /\ Adjacent(E, z, y)
      /\ \A x, y, z : <<x, z>> \in D /\ <<z, y>> \in D => <<x, y>> \notin U
      /\ \A x, y, z1, z2 : <<x, z1>> \in U /\ <<z1, y>> \in D /\ <<x, z2>> \in U /\ <<z2, y>> \in D
                           /\ z1 # z2 /\ ~Adjacent(E, z1, z2) => <<x, y>> \notin U
  BY ClosedFacts
<1>2. /\ \A x, y : <<x, y>> \in U <=> <<y, x>> \in U
      /\ \A x, y : Adjacent(E, x, y) => <<x, y>> \in D \/ <<y, x>> \in D \/ <<x, y>> \in U
      /\ \A x, y : <<x, y>> \in U => <<x, y>> \notin D /\ <<y, x>> \notin D /\ Adjacent(E, x, y) /\ x # y
      /\ \A x, y : <<x, y>> \in D => <<y, x>> \notin D /\ <<x, y>> \in E /\ x # y
      /\ \A x, y, z : <<x, y>> \in D /\ <<y, z>> \in D => <<z, x>> \notin D
      /\ \A x, y, z : <<x, z>> \in D /\ <<y, z>> \in D /\ x # y /\ ~Adjacent(E, x, y) =>
           <<x, z>> \in VStructures(E) /\ <<y, z>> \in VStructures(E)
  BY PartFacts
<1>3. \A x, y : Adjacent(E, x, y) <=> Adjacent(E, y, x)
  BY DEF Adjacent
<1>4. \A x, y : <<x, y>> \in Undirected(F1, E) =>
        Adjacent(E, x, y) /\ <<x, y>> \notin VStructures(E) /\ <<y, x>> \notin VStructures(E)
  BY UndirectedMember
<1>5. \A x, y : <<x, y>> \in F1 => <<x, y>> \in D
  OBVIOUS
<1>6. a # c /\ Adjacent(E, a, c) /\ <<c, b>> \in U
  BY <1>1, <1>2
<1>7. <<c, a>> \notin D
  BY <1>1, <1>6
<1> SUFFICES ASSUME <<a, c>> \in U PROVE FALSE
  BY <1>2, <1>6, <1>7
<1>8. <<c, a>> \in U
  BY <1>2
<1>9. CASE <<a, b>> \in VStructures(E)
  <2>1. PICK d : <<d, b>> \in E /\ d # a /\ ~Adjacent(E, d, a)
    BY <1>9, VStructuresMember
  <2>2. <<a, b>> \in E /\ ~Adjacent(E, a, d)
    BY <1>2, <1>3, <2>1
  <2>3. <<d, b>> \in D
    <3>1. <<d, b>> \in VStructures(E)
      BY <2>1, <2>2, VStructuresMember
    <3> QED
      BY <1>5, <3>1
  <2>4. d # c /\ Adjacent(E, d, c)
    BY <1>1, <2>3
  <2>5. <<d, c>> \notin D
    BY <1>1, <1>8, <2>1
  <2>6. <<c, d>> \notin D
    BY <1>1, <1>6, <2>3
  <2>7. <<c, d>> \in U
    BY <1>2, <2>4, <2>5, <2>6
  <2> QED
    BY <1>1, <1>6, <1>8, <2>1, <2>2, <2>3, <2>7
<1>10. CASE /\ <<a, b>> \in Undirected(F1, E) /\ Meek(a, b, F1, Undirected(F1, E), E)
            /\ Carries(F1, D, U)
  <2>5. \A x, y, z : <<x, y>> \in F1 /\ <<y, z>> \in U => <<x, z>> \in D
    BY <1>10 DEF Carries
  <2> DEFINE X == Undirected(F1, E)
  <2> HIDE DEF X
  <2>1. CASE R1(a, b, F1, X, E)
    <3>1. PICK z : <<z, a>> \in F1 /\ z # b /\ ~Adjacent(E, z, b)
      BY <2>1 DEF R1
    <3>2. <<z, c>> \in D
      BY <2>5, <3>1
    <3> QED
      BY <1>1, <1>6, <3>1, <3>2
  <2>2. CASE R2(a, b, F1, X, E)
    <3>1. PICK z : <<a, z>> \in F1 /\ <<z, b>> \in F1
      BY <2>2 DEF R2
    <3>2. <<z, c>> \in D /\ <<a, z>> \in D
      BY <2>5, <3>1
    <3> QED
      BY <1>1, <3>2
  <2>3. CASE R3(a, b, F1, X, E)
    <3>1. PICK z1, z2 : /\ <<a, z1>> \in X /\ <<z1, b>> \in F1 /\ <<a, z2>> \in X /\ <<z2, b>> \in F1
                        /\ z1 # z2 /\ ~Adjacent(E, z1, z2)
      BY <2>3 DEF R3
    <3>2. <<z1, c>> \in D /\ <<z2, c>> \in D
      BY <2>5, <3>1
    <3>3. <<a, z1>> \notin D /\ <<a, z2>> \notin D
      BY <1>1, <3>2
    <3>4. /\ <<z1, a>> \in D \/ <<a, z1>> \in U
          /\ <<z2, a>> \in D \/ <<a, z2>> \in U
      BY <1>2, <1>4, <3>1, <3>3 DEF X
    <3>5. ~(<<z1, a>> \in D /\ <<z2, a>> \in D)
      BY <1>2, <1>4, <3>1 DEF X
    <3>6. ~(<<z1, a>> \in D /\ <<a, z2>> \in U) /\ ~(<<z2, a>> \in D /\ <<a, z1>> \in U)
      BY <1>1, <1>3, <3>1
    <3> QED
      BY <1>1, <3>1, <3>2, <3>4, <3>5, <3>6
  <2>4. CASE R4(a, b, F1, X, E)
    <3>1. PICK z1, z2 : /\ <<a, z1>> \in X /\ <<z1, z2>> \in F1 /\ <<z2, b>> \in F1
                        /\ Adjacent(E, a, z2) /\ ~Adjacent(E, z1, b)
      BY <2>4 DEF R4
    <3>2. <<z2, c>> \in D /\ <<z1, z2>> \in D /\ <<z2, b>> \in D
      BY <2>5, <3>1
    <3>3. <<z2, a>> \in D \/ <<a, z2>> \in U
      BY <1>1, <1>2, <3>1, <3>2
    <3>4. z1 # c /\ z1 # b
      BY <1>2, <3>2
    <3>5. <<z1, a>> \notin D
      <4> SUFFICES ASSUME <<z1, a>> \in D PROVE FALSE
        OBVIOUS
      <4>1. Adjacent(E, z1, c)
        BY <1>1
      <4>2. <<z1, c>> \notin D
        BY <1>1, <1>6, <3>1
      <4>3. <<c, z1>> \notin D
        BY <1>2, <3>2
      <4>4. <<z1, c>> \notin U
        BY <1>1, <3>2
      <4> QED
        BY <1>2, <4>1, <4>2, <4>3, <4>4
    <3>6. <<a, z1>> \notin D
      BY <1>1, <1>2, <3>2, <3>3
    <3>7. <<a, z1>> \in U
      BY <1>2, <1>4, <3>1, <3>5, <3>6 DEF X
    <3>8. <<a, z2>> \in U
      BY <1>1, <1>2, <3>2, <3>3, <3>7
    <3> QED
      BY <1>2, <2>5, <3>1, <3>5, <3>8
  <2> QED
    BY <1>10, <2>1, <2>2, <2>3, <2>4 DEF Meek, X
<1> QED
  BY <1>9, <1>10

LEMMA RunCarries ==
  ASSUME NEW E, IsGraph(E), IsAcyclic(E), NEW W, IsRun(W, E), NEW D, D = W[Cardinality(E)]
  PROVE  IsPart(D, E) /\ IsClosed(D, E) /\ Carries(D, D, Undirected(D, E))
<1> DEFINE c == Cardinality(E)
           U == Undirected(D, E)
           S == {n \in Nat : n <= c => Carries(W[n], D, U)}
<1>1. c \in Nat
  BY FS_CardinalityType DEF IsGraph
<1>2. ASSUME NEW n \in Nat PROVE IsPart(W[n], E) /\ W[n + 1] = Orient(W[n], E)
  BY DEF IsRun
<1>3. IsPart(D, E) /\ IsClosed(D, E)
  BY <1>1, <1>2, RunSettles
<1>4. \A n \in Nat : n <= c => W[n] \subseteq D
  <2> DEFINE O == {n \in Nat : \A m \in Nat : m <= n => W[m] \subseteq W[n]}
  <2>1. 0 \in O
    OBVIOUS
  <2>2. ASSUME NEW n \in O PROVE n + 1 \in O
    <3>1. n \in Nat /\ n + 1 \in Nat /\ \A m \in Nat : m <= n => W[m] \subseteq W[n]
      OBVIOUS
    <3> HIDE DEF O
    <3>2. W[n] \subseteq W[n + 1]
      BY <1>2, <3>1 DEF Orient
    <3>3. ASSUME NEW m \in Nat, m <= n + 1 PROVE W[m] \subseteq W[n + 1]
      <4>1. m <= n \/ m = n + 1
        BY <3>1, <3>3
      <4> QED
        BY <3>1, <3>2, <4>1
    <3> QED
      BY <3>1, <3>3 DEF O
  <2>3. O = Nat
    <3>1. O \in SUBSET Nat
      OBVIOUS
    <3> HIDE DEF O
    <3> QED
      BY <2>1, <2>2, <3>1, InductionOnNat
  <2> QED
    BY <1>1, <2>3
<1>5. 0 \in S
  <2>1. W[0] = VStructures(E) /\ VStructures(E) \in SUBSET D
    BY <1>3 DEF IsRun, IsPart
  <2>2. ASSUME NEW x, NEW y, NEW z, <<x, y>> \in W[0], <<y, z>> \in U PROVE <<x, z>> \in D
    BY <1>3, <2>1, <2>2, ForcedCarries
  <2> QED
    BY <2>2 DEF Carries
<1>6. ASSUME NEW n \in S PROVE n + 1 \in S
  <2> SUFFICES ASSUME n + 1 <= c, NEW x, NEW y, NEW z, <<x, y>> \in W[n + 1], <<y, z>> \in U
               PROVE  <<x, z>> \in D
    BY DEF Carries
  <2>1. n \in Nat /\ n <= c /\ n + 1 \in Nat /\ Carries(W[n], D, U)
    BY <1>1
  <2>2. W[n] \in SUBSET D /\ W[n + 1] \subseteq D /\ IsPart(W[n], E) /\ W[n + 1] = Orient(W[n], E)
    BY <1>2, <1>4, <2>1
  <2> DEFINE F1 == W[n]
  <2> HIDE DEF S, c, F1
  <2>3. CASE <<x, y>> \in F1
    BY <2>1, <2>3 DEF Carries, F1
  <2>4. CASE <<x, y>> \notin F1
    <3>1. IsPart(F1, E) /\ <<x, y>> \in Orient(F1, E) /\ F1 \in SUBSET D /\ <<x, y>> \in D
          /\ Carries(F1, D, U) /\ Orient(F1, E) # F1
      BY <2>1, <2>2, <2>4 DEF F1
    <3>2. PICK a, b : Adds(a, b, F1, E)
      BY <3>1, OrientCases
    <3>3. a = x /\ b = y
      BY <2>4, <3>1, <3>2 DEF Adds
    <3>4. VStructures(E) \subseteq F1
      BY <3>1 DEF IsPart
    <3> QED
      BY <1>3, <3>1, <3>2, <3>3, <3>4, ForcedCarries DEF Adds
  <2> QED
    BY <2>3, <2>4
<1>7. S = Nat
  <2>1. S \in SUBSET Nat
    OBVIOUS
  <2> HIDE DEF S
  <2> QED
    BY <1>5, <1>6, <2>1, InductionOnNat
<1>8. Carries(D, D, U)
  BY <1>1, <1>7
<1> QED
  BY <1>3, <1>8

(***************************************************************************)
(* Perfect orders: of the neighbours of a node, those before it are        *)
(* neighbours of each other.                                               *)
(***************************************************************************)
IsPerfect(f, S, U) ==
  /\ \A a, b \in S : <<a, b>> \in U => f[a] # f[b]
  /\ \A a, b, c \in S : <<a, c>> \in U /\ <<b, c>> \in U /\ f[a] < f[c] /\ f[b] < f[c] /\ a # b =>
       <<a, b>> \in U
IsClique(K, U) == \A a, b \in K : a # b => <<a, b>> \in U
IsFirst(f, S, K, U) == IsPerfect(f, S, U) /\ \A a \in K, b \in S \ K : f[a] < f[b]
IsLinks(U) == \A a, b : <<a, b>> \in U => <<b, a>> \in U /\ a # b

\* From a perfect order of the nodes before s, with the neighbours K of s before the
\* others, one of them all that starts with any clique that has s.
LEMMA PerfectFromLast ==
  ASSUME NEW S, IsFiniteSet(S), NEW U, IsLinks(U), NEW s \in S, NEW O, O = S \ {s},
         NEW Nb \in SUBSET O, \A v \in O : v \in Nb <=> <<v, s>> \in U, IsClique(Nb, U),
         NEW K \in SUBSET S, s \in K, IsClique(K, U),
         NEW g \in [O -> Int], IsFirst(g, O, Nb, U)
  PROVE  \E h \in [S -> Int] : IsFirst(h, S, K, U)
<1>1. PICK B \in Nat : \A v \in O : -B < g[v] /\ g[v] < B
  <2>1. IsFiniteSet(O) /\ \A v \in O : g[v] \in Int
    BY FS_Subset
  <2> QED
    BY <2>1, NumbersAreBounded
<1> DEFINE h == [v \in S |-> IF v = s THEN -(3 * B) ELSE IF v \in K THEN g[v] - 2 * B ELSE g[v]]
<1>2. h \in [S -> Int]
  OBVIOUS
<1>3. /\ h[s] = -(3 * B)
      /\ \A v \in O : /\ v \in S /\ v # s /\ g[v] \in Int /\ -B < g[v] /\ g[v] < B
                      /\ v \in K => h[v] = g[v] - 2 * B /\ v \in Nb
                      /\ v \notin K => h[v] = g[v]
  <2>1. \A v \in O : v \in K => v \in Nb
    BY DEF IsClique
  <2> QED
    BY <1>1, <2>1
<1>4. \A v \in S : v = s \/ v \in O
  OBVIOUS
<1>5. /\ \A a, b \in O : <<a, b>> \in U => g[a] # g[b]
      /\ \A a, b, c \in O : <<a, c>> \in U /\ <<b, c>> \in U /\ g[a] < g[c] /\ g[b] < g[c] /\ a # b =>
           <<a, b>> \in U
  BY DEF IsPerfect, IsFirst
<1>6. /\ \A v : v \in Nb <=> v \in O /\ <<v, s>> \in U
      /\ \A a, b : <<a, b>> \in U => <<b, a>> \in U /\ a # b
      /\ \A a, b \in Nb : a # b => <<a, b>> \in U
      /\ \A a, b \in K : a # b => <<a, b>> \in U
      /\ \A a, b \in O : a \in Nb /\ b \notin Nb => g[a] < g[b]
  BY DEF IsLinks, IsClique, IsFirst
<1> HIDE DEF h
<1>7. ASSUME NEW v \in O PROVE h[s] < h[v] /\ h[v] # h[s]
  <2>1. g[v] \in Int /\ -B < g[v] /\ (h[v] = g[v] - 2 * B \/ h[v] = g[v])
    BY <1>3
  <2> QED
    BY <1>3, <2>1
<1>8. ASSUME NEW a \in S, NEW b \in S, <<a, b>> \in U PROVE h[a] # h[b]
  <2>1. CASE a = s
    BY <1>4, <1>6, <1>8, <1>7, <2>1
  <2>2. CASE b = s
    BY <1>4, <1>6, <1>8, <1>7, <2>2
  <2>3. CASE a # s /\ b # s
    <3>1. a \in O /\ b \in O /\ g[a] # g[b]
      BY <1>4, <1>5, <1>8, <2>3
    <3>2. /\ g[a] \in Int /\ -B < g[a] /\ g[a] < B /\ (h[a] = g[a] - 2 * B \/ h[a] = g[a])
          /\ g[b] \in Int /\ -B < g[b] /\ g[b] < B /\ (h[b] = g[b] - 2 * B \/ h[b] = g[b])
      BY <1>3, <3>1
    <3> QED
      BY <3>1, <3>2
  <2> QED
    BY <2>1, <2>2, <2>3
<1>9. ASSUME NEW a \in S, NEW b \in S, NEW c \in S, <<a, c>> \in U, <<b, c>> \in U,
             h[a] < h[c], h[b] < h[c], a # b
      PROVE  <<a, b>> \in U
  <2>1. c # s
    <3> SUFFICES ASSUME c = s PROVE FALSE
      OBVIOUS
    <3>1. a \in O
      BY <1>4, <1>6, <1>9
    <3>2. h[c] < h[a]
      BY <1>7, <3>1
    <3>3. h[a] \in Int /\ h[c] \in Int
      BY <1>2
    <3> QED
      BY <1>9, <3>2, <3>3
  <2>2. c \in O
    BY <1>4, <2>1
  <2>3. CASE c \in K
    <3>1. ASSUME NEW v \in S, h[v] < h[c] PROVE v \in K
      <4> SUFFICES ASSUME v \notin K PROVE FALSE
        OBVIOUS
      <4>1. v \in O
        BY <1>4
      <4>2. h[v] = g[v] /\ -B < g[v] /\ h[c] = g[c] - 2 * B /\ g[c] < B /\ g[v] \in Int /\ g[c] \in Int
        BY <1>3, <2>2, <2>3, <4>1
      <4> QED
        BY <3>1, <4>2
    <3> QED
      BY <1>6, <1>9, <3>1
  <2>4. CASE c \notin K /\ c \in Nb
    <3>1. ASSUME NEW v \in O, h[v] < h[c] PROVE v \in Nb
      <4>1. CASE v \in K
        BY <1>3, <4>1
      <4>2. CASE v \notin K
        <5>1. h[v] = g[v] /\ h[c] = g[c] /\ g[v] \in Int /\ g[c] \in Int
          BY <1>3, <2>2, <2>4, <4>2
        <5> QED
          BY <1>6, <2>2, <2>4, <3>1, <5>1
      <4> QED
        BY <4>1, <4>2
    <3> QED
      BY <1>4, <1>6, <1>9, <3>1
  <2>5. CASE c \notin K /\ c \notin Nb
    <3>1. ASSUME NEW v \in S, <<v, c>> \in U, h[v] < h[c] PROVE v \in O /\ g[v] < g[c]
      <4>1. v # s
        BY <1>6, <2>2, <2>5, <3>1
      <4>2. v \in O
        BY <1>4, <4>1
      <4>3. CASE v \in K
        BY <1>3, <1>6, <2>2, <2>5, <4>2, <4>3
      <4>4. CASE v \notin K
        BY <1>3, <2>2, <2>5, <3>1, <4>2, <4>4
      <4> QED
        BY <4>2, <4>3, <4>4
    <3> QED
      BY <1>5, <1>9, <2>2, <3>1
  <2> QED
    BY <2>3, <2>4, <2>5
<1>10. ASSUME NEW a \in K, NEW b \in S \ K PROVE h[a] < h[b]
  <2>1. b \in O /\ h[b] = g[b] /\ g[b] \in Int /\ -B < g[b]
    BY <1>3, <1>4
  <2>2. h[a] = -(3 * B) \/ (a \in O /\ h[a] = g[a] - 2 * B /\ g[a] \in Int /\ g[a] < B)
    BY <1>3, <1>4
  <2> QED
    BY <2>1, <2>2
<1> QED
  BY <1>2, <1>8, <1>9, <1>10 DEF IsPerfect, IsFirst

\* Of a graph that has a perfect order, one can start with any clique.
LEMMA PerfectFromAnywhere ==
  ASSUME NEW V, IsFiniteSet(V), NEW U, IsLinks(U), NEW f \in [V -> Int], IsPerfect(f, V, U),
         NEW K \in SUBSET V, IsClique(K, U)
  PROVE  \E g \in [V -> Int] : IsFirst(g, V, K, U)
<1> DEFINE Q == {S \in SUBSET V : \A C1 \in SUBSET S :
                    IsClique(C1, U) => \E g \in [S -> Int] : IsFirst(g, S, C1, U)}
<1>1. {} \in Q
  <2>1. [v \in {} |-> 0] \in [{} -> Int] /\ IsFirst([v \in {} |-> 0], {}, {}, U)
    BY DEF IsPerfect, IsFirst
  <2> QED
    BY <2>1
<1>2. ASSUME NEW S \in SUBSET V, S # {}, \A x \in S : S \ {x} \in Q PROVE S \in Q
  <2> SUFFICES ASSUME NEW C1 \in SUBSET S, IsClique(C1, U) PROVE \E g \in [S -> Int] : IsFirst(g, S, C1, U)
    OBVIOUS
  <2>1. IsFiniteSet(S) /\ \A v \in S : f[v] \in Int
    BY FS_Subset
  <2>2. PICK s \in S : \A v \in S : f[v] <= f[s]
    BY <1>2, <2>1, LargestExists
  <2> DEFINE O == S \ {s}
             Nb == {v \in O : <<v, s>> \in U}
  <2>3. \A X \in SUBSET O : IsClique(X, U) => \E g \in [O -> Int] : IsFirst(g, O, X, U)
    BY <1>2
  <2>4. IsClique(Nb, U)
    <3> SUFFICES ASSUME NEW a \in Nb, NEW b \in Nb, a # b PROVE <<a, b>> \in U
      BY DEF IsClique
    <3>1. f[a] < f[s] /\ f[b] < f[s]
      <4>1. f[a] # f[s] /\ f[b] # f[s] /\ f[a] <= f[s] /\ f[b] <= f[s]
        BY <2>2 DEF IsPerfect
      <4>2. f[a] \in Int /\ f[b] \in Int /\ f[s] \in Int
        BY <2>1
      <4> QED
        BY <4>1, <4>2
    <3> QED
      BY <3>1 DEF IsPerfect
  <2>5. CASE s \in C1
    <3>1. PICK g \in [O -> Int] : IsFirst(g, O, Nb, U)
      BY <2>3, <2>4
    <3>2. Nb \in SUBSET O /\ O = S \ {s} /\ \A v \in O : v \in Nb <=> <<v, s>> \in U
      OBVIOUS
    <3> HIDE DEF Nb, O
    <3> QED
      BY <2>1, <2>4, <2>5, <3>1, <3>2, PerfectFromLast
  <2>6. CASE s \notin C1
    <3>1. PICK g \in [O -> Int] : IsFirst(g, O, C1, U)
      BY <2>3, <2>6
    <3>2. PICK B \in Nat : \A v \in O : -B < g[v] /\ g[v] < B
      <4>1. IsFiniteSet(O) /\ \A v \in O : g[v] \in Int
        BY <2>1, FS_Subset
      <4> HIDE DEF O
      <4> QED
        BY <4>1, NumbersAreBounded
    <3> DEFINE h == [v \in S |-> IF v = s THEN B ELSE g[v]]
    <3>3. h \in [S -> Int] /\ h[s] = B /\ \A v \in O : h[v] = g[v] /\ g[v] < B /\ g[v] \in Int
      BY <3>2
    <3>4. /\ \A v \in S : v = s \/ v \in O
          /\ \A v : v \in Nb <=> v \in O /\ <<v, s>> \in U
          /\ \A a, b : <<a, b>> \in U => <<b, a>> \in U /\ a # b
          /\ \A a, b \in Nb : a # b => <<a, b>> \in U
          /\ \A a, b \in O : <<a, b>> \in U => g[a] # g[b]
          /\ \A a, b, c \in O : <<a, c>> \in U /\ <<b, c>> \in U /\ g[a] < g[c] /\ g[b] < g[c] /\ a # b =>
               <<a, b>> \in U
          /\ \A a \in C1, b \in O \ C1 : g[a] < g[b]
          /\ C1 \subseteq O /\ s \in S
      BY <2>4, <2>6, <3>1 DEF IsLinks, IsClique, IsPerfect, IsFirst
    <3> HIDE DEF h, O, Nb
    <3>5. ASSUME NEW a \in S, NEW b \in S, <<a, b>> \in U PROVE h[a] # h[b]
      BY <3>3, <3>4, <3>5
    <3>6. ASSUME NEW a \in S, NEW b \in S, NEW c \in S, <<a, c>> \in U, <<b, c>> \in U,
                 h[a] < h[c], h[b] < h[c], a # b
          PROVE  <<a, b>> \in U
      <4>1. CASE c = s
        BY <3>4, <3>6, <4>1
      <4>2. CASE c # s
        <5>1. c \in O /\ h[c] < B /\ h[c] \in Int /\ h[c] = g[c]
          BY <3>3, <3>4, <4>2
        <5>2. a # s /\ b # s
          BY <3>3, <3>6, <5>1
        <5>3. a \in O /\ b \in O
          BY <3>4, <5>2
        <5>4. g[a] < g[c] /\ g[b] < g[c]
          BY <3>3, <3>6, <5>1, <5>3
        <5> QED
          BY <3>4, <3>6, <5>1, <5>3, <5>4
      <4> QED
        BY <4>1, <4>2
    <3>7. ASSUME NEW a \in C1, NEW b \in S \ C1 PROVE h[a] < h[b]
      BY <3>3, <3>4
    <3> QED
      BY <3>3, <3>5, <3>6, <3>7 DEF IsPerfect, IsFirst
  <2> QED
    BY <2>5, <2>6
<1>3. Q = SUBSET V
  <2>1. Q \in SUBSET SUBSET V
    OBVIOUS
  <2> HIDE DEF Q
  <2> QED
    BY <1>1, <1>2, <2>1, SubsetInduction
<1> QED
  BY <1>3

(***************************************************************************)
(* Completeness.                                                           *)
(***************************************************************************)
LEMMA EquivalentMember ==
  ASSUME NEW E, IsGraph(E), NEW G, IsGraph(G), IsAcyclic(G),
         \A a, b : Adjacent(G, a, b) <=> Adjacent(E, a, b),
         \A a, b, c : <<a, b, c>> \in Triples(G) <=> <<a, b, c>> \in Triples(E)
  PROVE  G \in Equivalent(E)
<1> DEFINE S == E \ G
           J == {<<e[2], e[1]>> : e \in S}
<1>1. \A a, b : <<a, b>> \in G => <<b, a>> \notin G
  BY NoShortCycles
<1>2. \A e \in G : e = <<e[1], e[2]>>
  BY DEF IsGraph
<1>3. \A e \in E : e = <<e[1], e[2]>>
  BY DEF IsGraph
<1>4. ASSUME NEW e \in J PROVE e \in G
  <2>1. PICK d \in S : e = <<d[2], d[1]>>
    OBVIOUS
  <2>2. <<d[1], d[2]>> \in E /\ <<d[1], d[2]>> \notin G
    BY <1>3
  <2> QED
    BY <2>1, <2>2 DEF Adjacent
<1>5. ASSUME NEW e \in G, e \notin E PROVE e \in J
  <2>1. <<e[1], e[2]>> \in G /\ <<e[1], e[2]>> \notin E
    BY <1>2, <1>5
  <2>2. <<e[2], e[1]>> \in E /\ <<e[2], e[1]>> \notin G
    BY <1>1, <2>1 DEF Adjacent
  <2>3. <<e[2], e[1]>>[1] = e[2] /\ <<e[2], e[1]>>[2] = e[1] /\ <<e[2], e[1]>> \in S
    BY <2>2
  <2>4. <<e[1], e[2]>> \in J
    BY <2>3
  <2> QED
    BY <1>2, <2>4
<1>6. G = (E \ S) \cup J
  BY <1>4, <1>5
<1>7. Triples(G) = Triples(E)
  <2>1. ASSUME NEW F1, NEW H, NEW t \in Triples(F1),
               \A a, b, c : <<a, b, c>> \in Triples(F1) => <<a, b, c>> \in Triples(H)
        PROVE  t \in Triples(H)
    <3>1. t = <<t[1], t[2], t[3]>>
      BY DEF Triples
    <3> QED
      BY <2>1, <3>1
  <2> QED
    BY <2>1
<1>8. S \in SUBSET E
  OBVIOUS
<1> QED
  BY <1>6, <1>7, <1>8 DEF Equivalent

\* An undirected edge has, in some graph of the class, the direction x -> y.
LEMMA EitherDirection ==
  ASSUME NEW E, IsGraph(E), IsAcyclic(E), NEW D, IsPart(D, E), IsClosed(D, E),
         NEW U, U = Undirected(D, E), Carries(D, D, U), NEW x, NEW y, <<x, y>> \in U
  PROVE  \E G \in Equivalent(E) : <<x, y>> \in G
<1> DEFINE V == NodesOf(E)
<1>1. /\ \A a, b : <<a, b>> \in U <=> <<b, a>> \in U
      /\ \A a, b : Adjacent(E, a, b) => <<a, b>> \in D \/ <<b, a>> \in D \/ <<a, b>> \in U
      /\ \A a, b : <<a, b>> \in U => <<a, b>> \notin D /\ <<b, a>> \notin D /\ Adjacent(E, a, b) /\ a # b
      /\ \A a, b : <<a, b>> \in D => <<b, a>> \notin D /\ <<a, b>> \in E /\ a # b
  BY PartFacts
<1>2. D \subseteq E /\ VStructures(E) \subseteq D
  BY DEF IsPart, SharedEdges
<1>3. \A a, b, c : <<a, b>> \in D /\ <<b, c>> \in U => <<a, c>> \in D
  BY DEF Carries
<1>4. IsFiniteSet(V) /\ \A a, b : Adjacent(E, a, b) => a \in V /\ b \in V
  BY NodesTyped
<1>5. PICK t \in [V -> Int] : \A a, b : <<a, b>> \in E => t[a] < t[b]
  BY OrderExists
<1>6. IsLinks(U)
  BY <1>1 DEF IsLinks
<1>7. \A a, b, c : <<a, c>> \in E /\ <<b, c>> \in E /\ a # b /\ ~Adjacent(E, a, b) =>
        <<a, c>> \in D /\ <<b, c>> \in D
  BY <1>2, SelfEquivalent, CollidersAreShared
<1>8. \A a, b : Adjacent(E, a, b) <=> <<a, b>> \in E \/ <<b, a>> \in E
  BY DEF Adjacent
<1> HIDE DEF V
<1>9. IsPerfect(t, V, U)
  <2>1. ASSUME NEW a \in V, NEW b \in V, <<a, b>> \in U PROVE t[a] # t[b]
    <3>1. t[a] \in Int /\ t[b] \in Int
      OBVIOUS
    <3>2. t[a] < t[b] \/ t[b] < t[a]
      BY <1>1, <1>5, <1>8, <2>1
    <3> QED
      BY <3>1, <3>2
  <2>2. ASSUME NEW a \in V, NEW b \in V, NEW c \in V, <<a, c>> \in U, <<b, c>> \in U,
               t[a] < t[c], t[b] < t[c], a # b
        PROVE  <<a, b>> \in U
    <3>1. ASSUME NEW v \in V, <<v, c>> \in U, t[v] < t[c] PROVE <<v, c>> \in E
      <4>1. t[v] \in Int /\ t[c] \in Int /\ ~(t[c] < t[v])
        BY <3>1
      <4> QED
        BY <1>1, <1>5, <1>8, <3>1, <4>1
    <3>2. <<a, c>> \in E /\ <<b, c>> \in E
      BY <2>2, <3>1
    <3>3. Adjacent(E, a, b)
      BY <1>1, <1>7, <2>2, <3>2
    <3>4. <<a, b>> \notin D /\ <<b, a>> \notin D
      BY <1>1, <1>3, <2>2
    <3> QED
      BY <1>1, <3>3, <3>4
  <2> QED
    BY <2>1, <2>2 DEF IsPerfect
<1>10. x \in V /\ y \in V /\ x # y
  BY <1>1, <1>4
<1>11. PICK g \in [V -> Int] : IsPerfect(g, V, U) /\ \A a \in {x}, b \in V \ {x} : g[a] < g[b]
  <2>1. {x} \in SUBSET V /\ IsClique({x}, U)
    BY <1>10 DEF IsClique
  <2> QED
    BY <1>4, <1>6, <1>9, <2>1, PerfectFromAnywhere DEF IsFirst
<1>12. g[x] < g[y]
  BY <1>10, <1>11
<1>13. /\ \A a, b \in V : <<a, b>> \in U => g[a] # g[b]
       /\ \A a, b, c \in V : <<a, c>> \in U /\ <<b, c>> \in U /\ g[a] < g[c] /\ g[b] < g[c] /\ a # b =>
            <<a, b>> \in U
  BY <1>11 DEF IsPerfect
<1> DEFINE G == D \cup {q \in U : g[q[1]] < g[q[2]]}
<1>14. \A a, b : <<a, b>> \in G <=> <<a, b>> \in D \/ (<<a, b>> \in U /\ g[a] < g[b])
  OBVIOUS
<1>15. IsGraph(G)
  <2> DEFINE R == {<<e[2], e[1]>> : e \in E}
             f == [e \in E |-> <<e[2], e[1]>>]
  <2>1. f \in Surjection(E, R)
    BY DEF Surjection
  <2>2. \A e \in E \cup R : e = <<e[1], e[2]>>
    BY DEF IsGraph
  <2>3. G \in SUBSET (E \cup R)
    BY <1>2 DEF Undirected
  <2> HIDE DEF f, R, G
  <2>4. IsFiniteSet(R)
    BY <2>1, FS_Surjection DEF IsGraph
  <2>5. IsFiniteSet(E \cup R)
    BY <2>4, FS_Union DEF IsGraph
  <2>6. IsFiniteSet(G)
    BY <2>3, <2>5, FS_Subset
  <2> QED
    BY <2>2, <2>3, <2>6 DEF IsGraph
<1> HIDE DEF G
<1>16. \A a, b : Adjacent(G, a, b) <=> Adjacent(E, a, b)
  <2>1. ASSUME NEW a, NEW b, Adjacent(E, a, b) PROVE Adjacent(G, a, b)
    <3>1. CASE <<a, b>> \in U
      <4>1. a \in V /\ b \in V /\ <<b, a>> \in U
        BY <1>1, <1>4, <2>1, <3>1
      <4>2. g[a] \in Int /\ g[b] \in Int /\ g[a] # g[b]
        BY <1>13, <3>1, <4>1
      <4>3. g[a] < g[b] \/ g[b] < g[a]
        BY <4>2
      <4> QED
        BY <1>14, <3>1, <4>1, <4>3 DEF Adjacent
    <3>2. CASE <<a, b>> \notin U
      BY <1>1, <1>14, <2>1, <3>2 DEF Adjacent
    <3> QED
      BY <3>1, <3>2
  <2>2. ASSUME NEW a, NEW b, Adjacent(G, a, b) PROVE Adjacent(E, a, b)
    BY <1>1, <1>8, <1>14, <2>2 DEF Adjacent
  <2> QED
    BY <2>1, <2>2
<1>17. IsAcyclic(G)
  <2>1. PICK B \in Nat : \A v \in V : -B < t[v] /\ t[v] < B
    BY <1>4, NumbersAreBounded
  <2> DEFINE Above(v) == {a \in V : <<a, v>> \in D}
             Highest(P, m) == IF P = {} THEN m = -B ELSE m \in {t[a] : a \in P} /\ \A a \in P : t[a] <= m
             Top(P) == CHOOSE m : Highest(P, m)
             p == [v \in V |-> Top(Above(v))]
  <2>2. ASSUME NEW P \in SUBSET V PROVE Highest(P, Top(P))
    <3>1. \E m : Highest(P, m)
      <4>1. CASE P = {}
        BY <4>1
      <4>2. CASE P # {}
        <5>1. IsFiniteSet(P) /\ \A v \in P : t[v] \in Int
          BY <1>4, FS_Subset
        <5>2. PICK n \in P : \A v \in P : t[v] <= t[n]
          BY <4>2, <5>1, LargestExists
        <5>3. Highest(P, t[n])
          BY <4>2, <5>2
        <5> QED
          BY <5>3
      <4> QED
        BY <4>1, <4>2
    <3> HIDE DEF Highest
    <3> QED
      BY <3>1
  <2> HIDE DEF Top
  <2>3. ASSUME NEW v \in V
        PROVE  /\ p[v] \in Int /\ (p[v] = -B \/ \E a \in V : <<a, v>> \in D /\ p[v] = t[a])
               /\ \A a \in V : <<a, v>> \in D => t[a] <= p[v]
    <3>1. p[v] = Top(Above(v)) /\ Above(v) \in SUBSET V
      OBVIOUS
    <3>2. Highest(Above(v), p[v])
      BY <2>2, <3>1
    <3>3. CASE Above(v) = {}
      <4>1. p[v] = -B /\ \A a \in V : <<a, v>> \notin D
        BY <3>2, <3>3
      <4>2. -B \in Int
        OBVIOUS
      <4> HIDE DEF p
      <4> QED
        BY <4>1, <4>2
    <3>4. CASE Above(v) # {}
      <4>1. /\ \E a \in V : <<a, v>> \in D /\ p[v] = t[a]
            /\ \A a \in V : <<a, v>> \in D => t[a] <= p[v]
        BY <3>2, <3>4
      <4> HIDE DEF p
      <4> QED
        BY <4>1
    <3> QED
      BY <3>3, <3>4
  <2>4. ASSUME NEW a \in V, NEW b \in V, <<a, b>> \in U PROVE p[a] = p[b]
    <3>1. Above(a) = Above(b)
      BY <1>1, <1>3, <2>4
    <3> QED
      BY <3>1
  <2> HIDE DEF p
  <2>5. ASSUME NEW a \in V, NEW b \in V, <<a, b>> \in D PROVE p[a] < p[b]
    <3>1. t[a] <= p[b] /\ p[a] \in Int /\ p[b] \in Int /\ t[a] \in Int /\ -B < t[a]
      BY <2>1, <2>3, <2>5
    <3>2. p[a] < t[a]
      <4>1. CASE p[a] = -B
        BY <3>1, <4>1
      <4>2. CASE p[a] # -B
        <5>1. PICK d \in V : <<d, a>> \in D /\ p[a] = t[d]
          BY <2>3, <4>2
        <5> QED
          BY <1>1, <1>5, <5>1
      <4> QED
        BY <4>1, <4>2
    <3> QED
      BY <3>1, <3>2
  <2>6. \A a, b : <<a, b>> \in G => a \in V /\ b \in V
    BY <1>4, <1>16 DEF Adjacent
  <2>7. \A a, b : <<a, b>> \in G => p[a] < p[b] \/ (p[a] = p[b] /\ g[a] < g[b])
    BY <1>14, <2>4, <2>5, <2>6
  <2>8. \A v \in NodesOf(G) : p[v] \in Int /\ g[v] \in Int
    <3> SUFFICES ASSUME NEW v \in NodesOf(G) PROVE v \in V
      BY <2>3
    <3>1. PICK e \in G : v = e[1] \/ v = e[2]
      BY DEF NodesOf
    <3>2. <<e[1], e[2]>> \in G
      BY <1>15 DEF IsGraph
    <3> QED
      BY <2>6, <3>1, <3>2
  <2> QED
    BY <1>15, <2>7, <2>8, RisingIsAcyclic
<1>18. ASSUME NEW a, NEW b, NEW c PROVE <<a, b, c>> \in Triples(G) <=> <<a, b, c>> \in Triples(E)
  <2>1. ASSUME <<a, b>> \in G, <<c, b>> \in G, a # c, ~Adjacent(E, a, c)
        PROVE  <<a, b>> \in E /\ <<c, b>> \in E
    <3>1. a \in V /\ b \in V /\ c \in V
      BY <1>4, <1>16, <2>1 DEF Adjacent
    <3>2. ~(<<a, b>> \in U /\ <<c, b>> \in U)
      BY <1>1, <1>13, <1>14, <2>1, <3>1
    <3>3. ~(<<a, b>> \in D /\ <<c, b>> \in U)
      BY <1>1, <1>3, <1>8, <2>1
    <3>4. ~(<<a, b>> \in U /\ <<c, b>> \in D)
      BY <1>1, <1>3, <1>8, <2>1
    <3> QED
      BY <1>1, <1>14, <2>1, <3>2, <3>3, <3>4
  <2>2. ASSUME <<a, b>> \in E, <<c, b>> \in E, a # c, ~Adjacent(E, a, c)
        PROVE  <<a, b>> \in G /\ <<c, b>> \in G
    BY <1>7, <1>14, <2>2
  <2> QED
    BY <1>15, <1>16, <2>1, <2>2, TriplesMember
<1>19. G \in Equivalent(E)
  BY <1>15, <1>16, <1>17, <1>18, EquivalentMember
<1> QED
  BY <1>12, <1>14, <1>19

\* Meek's rules, applied one at a time from the v-structures on until none forces an
\* edge (cpdag_from_dag), find the edges that all the acyclic graphs with the same
\* adjacencies and v-structures share, and no other.
THEOREM RulesFindShared ==
  ASSUME NEW E, IsGraph(E), IsAcyclic(E)
  PROVE  CompelledEdges(E) = SharedEdges(E)
<1>1. PICK W : IsRun(W, E) /\ CompelledEdges(E) = W[Cardinality(E)]
  BY RunExists
<1> DEFINE D == CompelledEdges(E)
           U == Undirected(D, E)
<1>2. IsPart(D, E) /\ IsClosed(D, E) /\ Carries(D, D, U)
  BY <1>1, RunCarries
<1> HIDE DEF D
<1>3. ASSUME NEW e \in SharedEdges(E), e \notin D PROVE FALSE
  <2>1. e \in E /\ e = <<e[1], e[2]>> /\ \A G \in Equivalent(E) : e \in G
    BY DEF SharedEdges, IsGraph
  <2>2. <<e[2], e[1]>> \in U
    <3>1. <<e[2], e[1]>> \notin E
      BY <2>1, NoShortCycles
    <3>2. <<e[2], e[1]>> \notin D /\ <<e[1], e[2]>> \notin D
      BY <1>2, <1>3, <2>1, <3>1 DEF IsPart, SharedEdges
    <3>3. Adjacent(E, e[2], e[1])
      BY <2>1 DEF Adjacent
    <3> QED
      BY <3>2, <3>3, UndirectedMember
  <2>3. PICK G \in Equivalent(E) : <<e[2], e[1]>> \in G
    BY <1>2, <2>2, EitherDirection
  <2>4. IsGraph(G) /\ IsAcyclic(G) /\ <<e[1], e[2]>> \in G
    BY <2>1, EquivalentGraphs
  <2> QED
    BY <2>3, <2>4, NoShortCycles
<1> QED
  BY <1>2, <1>3 DEF IsPart, D

(***************************************************************************)
(* Sums.                                                                   *)
(***************************************************************************)
Some(s) == CHOOSE x \in s : TRUE
IsSum(f, g) ==
  f = [s \in SUBSET DOMAIN g |-> IF s = {} THEN 0 ELSE g[Some(s)] + f[s \ {Some(s)}]]

IsTerms(g, S) == IsFiniteSet(S) /\ g \in [S -> Nat]

LEMMA SumExists ==
  ASSUME NEW S, NEW g, IsTerms(g, S)
  PROVE  \E f : IsSum(f, g)
<1> DEFINE Small(n) == {s \in SUBSET S : Cardinality(s) <= n}
           Sums(f, n) == \A s \in Small(n) : f[s] = IF s = {} THEN 0 ELSE g[Some(s)] + f[s \ {Some(s)}]
           N == {n \in Nat : \E f \in [Small(n) -> Nat] : Sums(f, n)}
<1>1. DOMAIN g = S /\ IsFiniteSet(S) /\ \A x \in S : g[x] \in Nat
  BY DEF IsTerms
<1>2. \A s \in SUBSET S : IsFiniteSet(s) /\ Cardinality(s) \in Nat
  BY <1>1, FS_Subset, FS_CardinalityType
<1>3. ASSUME NEW s \in SUBSET S, s # {}
      PROVE  /\ Some(s) \in s /\ Some(s) \in S /\ s \ {Some(s)} \in SUBSET S
             /\ Cardinality(s \ {Some(s)}) = Cardinality(s) - 1
  <2>1. Some(s) \in s
    BY <1>3 DEF Some
  <2> QED
    BY <1>2, <2>1, FS_RemoveElement
<1>4. 0 \in N
  <2> DEFINE f == [s \in Small(0) |-> 0]
  <2>1. \A s \in Small(0) : s = {}
    <3> SUFFICES ASSUME NEW s \in Small(0) PROVE s = {}
      OBVIOUS
    <3>1. Cardinality(s) = 0
      BY <1>2
    <3> QED
      BY <1>2, <3>1, FS_EmptySet
  <2>2. f \in [Small(0) -> Nat] /\ Sums(f, 0)
    BY <2>1
  <2> QED
    BY <2>2
<1>5. ASSUME NEW n \in N PROVE n + 1 \in N
  <2>1. PICK f \in [Small(n) -> Nat] : Sums(f, n)
    OBVIOUS
  <2> DEFINE h == [s \in Small(n + 1) |-> IF s \in Small(n) THEN f[s] ELSE g[Some(s)] + f[s \ {Some(s)}]]
  <2>2. n \in Nat /\ {} \in Small(n)
    BY FS_EmptySet
  <2>3. ASSUME NEW s \in Small(n + 1), s # {} PROVE s \ {Some(s)} \in Small(n)
    BY <1>2, <1>3, <2>2, <2>3
  <2>4. \A s \in Small(n) : s \in Small(n + 1) /\ f[s] \in Nat
    BY <1>2, <2>2
  <2>5. h \in [Small(n + 1) -> Nat]
    <3> SUFFICES ASSUME NEW s \in Small(n + 1), s \notin Small(n) PROVE g[Some(s)] + f[s \ {Some(s)}] \in Nat
      BY <2>4
    <3>1. s # {}
      BY <2>2
    <3>2. g[Some(s)] \in Nat /\ f[s \ {Some(s)}] \in Nat
      BY <1>1, <1>3, <2>3, <2>4, <3>1
    <3> QED
      BY <3>2
  <2>6. Sums(h, n + 1)
    <3> SUFFICES ASSUME NEW s \in Small(n + 1)
                 PROVE  h[s] = IF s = {} THEN 0 ELSE g[Some(s)] + h[s \ {Some(s)}]
      OBVIOUS
    <3>1. CASE s = {}
      BY <2>1, <2>2, <3>1
    <3>2. CASE s # {}
      <4>1. s \ {Some(s)} \in Small(n) /\ s \ {Some(s)} \in Small(n + 1)
        BY <2>3, <2>4, <3>2
      <4>2. h[s \ {Some(s)}] = f[s \ {Some(s)}]
        BY <4>1
      <4>3. h[s] = g[Some(s)] + f[s \ {Some(s)}]
        BY <2>1, <3>2
      <4> QED
        BY <3>2, <4>2, <4>3
    <3> QED
      BY <3>1, <3>2
  <2>7. \E k \in [Small(n + 1) -> Nat] : Sums(k, n + 1)
    <3> HIDE DEF h, Small, Sums
    <3> QED
      BY <2>5, <2>6
  <2> HIDE DEF h, Small, Sums
  <2> QED
    BY <2>2, <2>7
<1>6. N = Nat
  <2>1. N \in SUBSET Nat
    OBVIOUS
  <2> HIDE DEF N
  <2> QED
    BY <1>4, <1>5, <2>1, InductionOnNat
<1>7. Small(Cardinality(S)) = SUBSET S /\ Cardinality(S) \in Nat
  BY <1>1, <1>2, FS_Subset
<1>8. PICK f \in [Small(Cardinality(S)) -> Nat] : Sums(f, Cardinality(S))
  BY <1>6, <1>7
<1>9. f \in [SUBSET S -> Nat] /\ \A s \in SUBSET S : f[s] = IF s = {} THEN 0 ELSE g[Some(s)] + f[s \ {Some(s)}]
  BY <1>7, <1>8
<1>10. IsSum(f, g)
  BY <1>1, <1>9 DEF IsSum
<1> QED
  BY <1>10

\* The terms may be taken in any order.
IsTally(f, g, S) ==
  /\ \A s \in SUBSET S : f[s] \in Nat
  /\ f[{}] = 0
  /\ \A s \in SUBSET S : \A x \in s : f[s] = g[x] + f[s \ {x}]

LEMMA SumTally ==
  ASSUME NEW S, NEW g, IsTerms(g, S)
  PROVE  \E f : IsTally(f, g, S) /\ f[S] = SumFunction(g)
<1> DEFINE f == CHOOSE f : IsSum(f, g)
<1>1. IsSum(f, g)
  BY SumExists
<1>2. DOMAIN g = S /\ IsFiniteSet(S) /\ \A x \in S : g[x] \in Nat
  BY DEF IsTerms
<1>3. f[S] = SumFunction(g)
  BY <1>2 DEF IsSum, Some, SumFunction, SumFunctionOnSet, FoldFunctionOnSet, MapThenFoldSet
<1> HIDE DEF f
<1>4. \A s \in SUBSET S : s # {} => Some(s) \in s
  BY DEF Some
<1>5. \A s \in SUBSET S : f[s] = IF s = {} THEN 0 ELSE g[Some(s)] + f[s \ {Some(s)}]
  BY <1>1, <1>2 DEF IsSum
<1>6. f[{}] = 0
  BY <1>5
<1>7. \A s \in SUBSET S : f[s] \in Nat
  <2> DEFINE Q == {s \in SUBSET S : f[s] \in Nat}
  <2>1. {} \in Q
    BY <1>6
  <2>2. ASSUME NEW s \in SUBSET S, s # {}, \A x \in s : s \ {x} \in Q PROVE s \in Q
    <3>1. Some(s) \in s /\ f[s] = g[Some(s)] + f[s \ {Some(s)}]
      BY <1>4, <1>5, <2>2
    <3>2. g[Some(s)] \in Nat /\ f[s \ {Some(s)}] \in Nat
      BY <1>2, <2>2, <3>1
    <3> QED
      BY <3>1, <3>2
  <2>3. Q = SUBSET S
    <3>1. Q \in SUBSET SUBSET S
      OBVIOUS
    <3> HIDE DEF Q
    <3> QED
      BY <1>2, <2>1, <2>2, <3>1, SubsetInduction
  <2> QED
    BY <2>3
<1>8. \A s \in SUBSET S : \A x \in s : f[s] = g[x] + f[s \ {x}]
  <2> DEFINE Q == {s \in SUBSET S : \A x \in s : f[s] = g[x] + f[s \ {x}]}
  <2>1. {} \in Q
    OBVIOUS
  <2>2. ASSUME NEW s \in SUBSET S, s # {}, \A x \in s : s \ {x} \in Q PROVE s \in Q
    <3> SUFFICES ASSUME NEW x \in s PROVE f[s] = g[x] + f[s \ {x}]
      OBVIOUS
    <3> DEFINE c == Some(s)
    <3>1. c \in s /\ f[s] = g[c] + f[s \ {c}]
      BY <1>4, <1>5, <2>2
    <3> HIDE DEF c
    <3>2. CASE x = c
      BY <3>1, <3>2
    <3>3. CASE x # c
      <4>1. s \ {c} \in Q /\ x \in s \ {c} /\ s \ {x} \in Q /\ c \in s \ {x}
        BY <2>2, <3>1, <3>3
      <4>2. (s \ {c}) \ {x} = (s \ {x}) \ {c} /\ (s \ {x}) \ {c} \in SUBSET S
        OBVIOUS
      <4> DEFINE rest == f[(s \ {x}) \ {c}]
      <4>3. f[s \ {c}] = g[x] + rest /\ f[s \ {x}] = g[c] + rest
        BY <4>1, <4>2
      <4>4. g[x] \in Nat /\ g[c] \in Nat /\ rest \in Nat
        BY <1>2, <1>7, <3>1, <4>2
      <4> HIDE DEF rest
      <4> QED
        BY <3>1, <4>3, <4>4
    <3> QED
      BY <3>2, <3>3
  <2>3. Q = SUBSET S
    <3>1. Q \in SUBSET SUBSET S
      OBVIOUS
    <3> HIDE DEF Q
    <3> QED
      BY <1>2, <2>1, <2>2, <3>1, SubsetInduction
  <2> QED
    BY <2>3
<1> QED
  BY <1>3, <1>6, <1>7, <1>8 DEF IsTally

\* Two sums whose terms differ by a constant k on A, and are equal elsewhere.
LEMMA SumShifts ==
  ASSUME NEW S, NEW g, IsTerms(g, S), NEW M \in SUBSET S, NEW k \in Nat, NEW h, h \in [S -> Nat],
         \A x \in S : h[x] = IF x \in M THEN g[x] + k ELSE g[x]
  PROVE  SumFunction(h) = SumFunction(g) + Cardinality(M) * k /\ SumFunction(g) \in Nat
<1>1. IsTerms(h, S) /\ IsFiniteSet(S)
  BY DEF IsTerms
<1>2. PICK f : IsTally(f, g, S) /\ f[S] = SumFunction(g)
  BY SumTally
<1>3. PICK e : IsTally(e, h, S) /\ e[S] = SumFunction(h)
  BY <1>1, SumTally
<1> DEFINE Q == {s \in SUBSET S : e[s] = f[s] + Cardinality(s \cap M) * k}
<1>4. {} \in Q
  <2>1. e[{}] = 0 /\ f[{}] = 0 /\ Cardinality({}) = 0 /\ {} \cap M = {}
    BY <1>2, <1>3, FS_EmptySet DEF IsTally
  <2> QED
    BY <2>1
<1>5. ASSUME NEW s \in SUBSET S, s # {}, \A x \in s : s \ {x} \in Q PROVE s \in Q
  <2>1. PICK x \in s : TRUE
    BY <1>5
  <2> DEFINE r == s \ {x}
             c == Cardinality(r \cap M)
  <2>2. e[s] = h[x] + e[r] /\ f[s] = g[x] + f[r] /\ f[r] \in Nat /\ g[x] \in Nat
    BY <1>2, <1>3 DEF IsTally, IsTerms
  <2>3. e[r] = f[r] + c * k
    BY <1>5
  <2>4. IsFiniteSet(r \cap M) /\ x \notin r \cap M
    BY <1>1, FS_Subset
  <2>5. c \in Nat
    BY <2>4, FS_CardinalityType
  <2>6. CASE x \in M
    <3>1. s \cap M = (r \cap M) \cup {x}
      BY <2>6
    <3>2. Cardinality(s \cap M) = c + 1
      BY <2>4, <3>1, FS_AddElement
    <3>3. h[x] = g[x] + k
      BY <2>6
    <3>4. (c + 1) * k = c * k + k /\ c * k \in Nat
      BY <2>5
    <3> HIDE DEF r, c
    <3>5. e[s] = f[s] + Cardinality(s \cap M) * k
      BY <2>2, <2>3, <3>2, <3>3, <3>4
    <3> QED
      BY <3>5
  <2>7. CASE x \notin M
    <3>1. s \cap M = r \cap M
      BY <2>7
    <3>2. h[x] = g[x]
      BY <2>7
    <3>3. c * k \in Nat
      BY <2>5
    <3>4. Cardinality(s \cap M) = c
      BY <3>1
    <3> HIDE DEF r, c
    <3>5. e[s] = f[s] + Cardinality(s \cap M) * k
      BY <2>2, <2>3, <3>2, <3>3, <3>4
    <3> QED
      BY <3>5
  <2> QED
    BY <2>6, <2>7
<1>6. Q = SUBSET S
  <2>1. Q \in SUBSET SUBSET S
    OBVIOUS
  <2> HIDE DEF Q
  <2> QED
    BY <1>1, <1>4, <1>5, <2>1, SubsetInduction
<1>7. S \in Q /\ S \cap M = M
  BY <1>6
<1>8. SumFunction(h) = SumFunction(g) + Cardinality(M) * k
  BY <1>2, <1>3, <1>7
<1>9. SumFunction(g) \in Nat
  BY <1>2 DEF IsTally
<1> QED
  BY <1>8, <1>9

\* A sum of the terms of T and of as many times k as there are other terms.
LEMMA SumSplits ==
  ASSUME NEW S, NEW g, IsTerms(g, S), NEW O \in SUBSET S, NEW k \in Nat, \A x \in S \ O : g[x] = k,
         NEW h, h \in [O -> Nat], \A x \in O : h[x] = g[x]
  PROVE  SumFunction(g) = SumFunction(h) + Cardinality(S \ O) * k /\ SumFunction(h) \in Nat
<1>1. IsFiniteSet(S) /\ IsTerms(h, O) /\ IsFiniteSet(S \ O)
  BY FS_Subset DEF IsTerms
<1>2. PICK f : IsTally(f, g, S) /\ f[S] = SumFunction(g)
  BY SumTally
<1>3. PICK e : IsTally(e, h, O) /\ e[O] = SumFunction(h)
  BY <1>1, SumTally
<1>4. e[O] = f[O]
  <2> DEFINE Q == {s \in SUBSET O : e[s] = f[s]}
  <2>1. {} \in Q
    BY <1>2, <1>3 DEF IsTally
  <2>2. ASSUME NEW s \in SUBSET O, s # {}, \A x \in s : s \ {x} \in Q PROVE s \in Q
    <3>1. PICK x \in s : TRUE
      BY <2>2
    <3>2. e[s] = h[x] + e[s \ {x}] /\ f[s] = g[x] + f[s \ {x}] /\ h[x] = g[x]
      BY <1>2, <1>3 DEF IsTally
    <3>3. e[s \ {x}] = f[s \ {x}]
      BY <2>2
    <3> QED
      BY <3>2, <3>3
  <2>3. Q = SUBSET O
    <3>1. Q \in SUBSET SUBSET O /\ IsFiniteSet(O)
      BY <1>1 DEF IsTerms
    <3> HIDE DEF Q
    <3> QED
      BY <2>1, <2>2, <3>1, SubsetInduction
  <2> QED
    BY <2>3
<1> DEFINE P == {s \in SUBSET (S \ O) : f[O \cup s] = f[O] + Cardinality(s) * k}
<1>5. f[O] \in Nat
  BY <1>2 DEF IsTally
<1>6. {} \in P
  <2>1. O \cup {} = O /\ Cardinality({}) = 0
    BY FS_EmptySet
  <2> QED
    BY <1>5, <2>1
<1>7. ASSUME NEW s \in SUBSET (S \ O), s # {}, \A x \in s : s \ {x} \in P PROVE s \in P
  <2>1. PICK x \in s : TRUE
    BY <1>7
  <2> DEFINE r == s \ {x}
             c == Cardinality(r)
  <2>2. f[O \cup s] = k + f[O \cup r]
    <3>1. (O \cup s) \ {x} = O \cup r /\ x \in O \cup s /\ O \cup s \in SUBSET S
      BY <2>1
    <3>2. g[x] = k
      BY <2>1
    <3> DEFINE y == O \cup s
    <3>3. y \in SUBSET S /\ x \in y
      BY <3>1
    <3> HIDE DEF y
    <3>4. f[y] = g[x] + f[y \ {x}]
      BY <1>2, <3>3 DEF IsTally
    <3>5. y \ {x} = O \cup r
      BY <3>1 DEF y
    <3> QED
      BY <3>2, <3>4, <3>5 DEF y
  <2>3. f[O \cup r] = f[O] + c * k
    BY <1>7
  <2>4. IsFiniteSet(s) /\ Cardinality(s) \in Nat
    BY <1>1, FS_Subset, FS_CardinalityType
  <2>5. c = Cardinality(s) - 1 /\ c \in Nat
    <3>1. IsFiniteSet(r)
      BY <2>4, FS_Subset
    <3> QED
      BY <2>4, <3>1, FS_RemoveElement, FS_CardinalityType
  <2>6. (c + 1) * k = c * k + k /\ c * k \in Nat /\ Cardinality(s) = c + 1
    BY <2>4, <2>5
  <2> HIDE DEF r, c
  <2>7. f[O \cup s] = f[O] + Cardinality(s) * k
    BY <1>5, <2>2, <2>3, <2>6
  <2> QED
    BY <2>7
<1>8. P = SUBSET (S \ O)
  <2>1. P \in SUBSET SUBSET (S \ O)
    OBVIOUS
  <2> HIDE DEF P
  <2> QED
    BY <1>1, <1>6, <1>7, <2>1, SubsetInduction
<1>9. O \cup (S \ O) = S /\ S \ O \in P
  BY <1>8
<1> QED
  BY <1>2, <1>3, <1>4, <1>5, <1>9

\* The members of a set that are in one part of it or in another.
LEMMA CountsAdd ==
  ASSUME NEW S, IsFiniteSet(S), NEW M \in SUBSET S, NEW B \in SUBSET S, M \cap B = {}
  PROVE  /\ Cardinality(M \cup B) = Cardinality(M) + Cardinality(B)
         /\ Cardinality(M) \in Nat /\ Cardinality(B) \in Nat
<1>1. IsFiniteSet(M) /\ IsFiniteSet(B)
  BY FS_Subset
<1>2. Cardinality(M) \in Nat /\ Cardinality(B) \in Nat /\ Cardinality(M \cap B) = 0
  BY <1>1, FS_CardinalityType, FS_EmptySet
<1>3. Cardinality(M \cup B) = Cardinality(M) + Cardinality(B) - Cardinality(M \cap B)
  BY <1>1, FS_Union
<1> QED
  BY <1>2, <1>3

(***************************************************************************)
(* The sparse axes.                                                        *)
(***************************************************************************)
IsAxis(U, Y, s) ==
  /\ IsFiniteSet(U) /\ Y \subseteq U /\ DOMAIN s \subseteq U /\ \A p \in DOMAIN s : s[p] \in Int

\* What the pairs of a universe are worth: those with a score, and those at zero.
LEMMA AxisValues ==
  ASSUME NEW U, NEW Y, NEW s, IsAxis(U, Y, s), NEW E, E = Explicit(s)
  PROVE  /\ E \subseteq U /\ IsFiniteSet(E) /\ IsFiniteSet(U \ E)
         /\ \A p \in U : Value(s, p) \in Int
         /\ \A p \in E : Value(s, p) = s[p] /\ s[p] \in Int /\ s[p] # 0
         /\ \A p \in U : p \notin E => Value(s, p) = 0
         /\ Cardinality(U) - Cardinality(E) = Cardinality(U \ E)
         /\ Cardinality(U \ E) \in Nat
<1>1. E \subseteq U /\ IsFiniteSet(U)
  BY DEF IsAxis, Explicit
<1>2. IsFiniteSet(E) /\ IsFiniteSet(U \ E)
  BY <1>1, FS_Subset
<1>3. E \cup (U \ E) = U /\ E \cap (U \ E) = {} /\ U \ E \in SUBSET U /\ E \in SUBSET U
  BY <1>1
<1>4. /\ Cardinality(U) = Cardinality(E) + Cardinality(U \ E)
      /\ Cardinality(E) \in Nat /\ Cardinality(U \ E) \in Nat
  <2> DEFINE Z == U \ E
  <2>1. IsFiniteSet(U) /\ E \in SUBSET U /\ Z \in SUBSET U /\ E \cap Z = {}
    BY <1>1
  <2>2. E \cup Z = U
    BY <1>3
  <2> HIDE DEF Z
  <2>3. Cardinality(E \cup Z) = Cardinality(E) + Cardinality(Z)
    BY <2>1, CountsAdd
  <2>4. Cardinality(E) \in Nat /\ Cardinality(Z) \in Nat
    BY <2>1, CountsAdd
  <2> QED
    BY <2>2, <2>3, <2>4 DEF Z
<1>5. Cardinality(U) - Cardinality(E) = Cardinality(U \ E)
  BY <1>4
<1> QED
  BY <1>1, <1>2, <1>4, <1>5 DEF IsAxis, Explicit, Value

LEMMA RanksAgree ==
  ASSUME NEW U, NEW Y, NEW s, IsAxis(U, Y, s)
  PROVE  RankSumSparse(U, Y, s) = RankSumDense(U, Y, s)
<1> DEFINE E == Explicit(s)
           z == Cardinality(U) - Cardinality(E)
           below == Cardinality({p \in E : s[p] < 0})
           First(p) == Cardinality({q \in E : s[q] < s[p]}) + (IF s[p] > 0 THEN z ELSE 0)
           Ties(p) == Cardinality({q \in E : s[q] = s[p]})
           RankE(p) == First(p) + (First(p) + Ties(p) - 1) + 2
           zeroRank == below + (below + z - 1) + 2
           Lower(p) == {q \in U : Value(s, q) < Value(s, p)}
           Equal(p) == {q \in U : Value(s, q) = Value(s, p)}
           PairRank(p) == 2 * Cardinality(Lower(p)) + Cardinality(Equal(p)) + 1
<1>1. /\ E \subseteq U /\ IsFiniteSet(E) /\ IsFiniteSet(U \ E)
      /\ \A p \in U : Value(s, p) \in Int
      /\ \A p \in E : Value(s, p) = s[p] /\ s[p] \in Int /\ s[p] # 0
      /\ \A p \in U : p \notin E => Value(s, p) = 0
      /\ z = Cardinality(U \ E) /\ z \in Nat
  <2> DEFINE X == Explicit(s)
  <2> HIDE DEF X
  <2>1. X = Explicit(s)
    BY DEF X
  <2> QED
    BY <2>1, AxisValues
<1>2. IsFiniteSet(U) /\ IsFiniteSet(Y) /\ Y \in SUBSET U
  BY FS_Subset DEF IsAxis
<1> HIDE DEF E, z
<1>3. ASSUME NEW p \in U PROVE PairRank(p) \in Nat
  <2>1. Lower(p) \in SUBSET U /\ Equal(p) \in SUBSET U
    OBVIOUS
  <2> HIDE DEF Lower, Equal
  <2>2. Cardinality(Lower(p)) \in Nat /\ Cardinality(Equal(p)) \in Nat
    BY <1>2, <2>1, FS_Subset, FS_CardinalityType
  <2> QED
    BY <2>2
<1>4. ASSUME NEW p \in E PROVE PairRank(p) = RankE(p)
  <2> DEFINE L == {q \in E : s[q] < s[p]}
             O == {q \in E : s[q] = s[p]}
  <2>1. Equal(p) = O
    BY <1>1
  <2>2. L \in SUBSET U /\ O \in SUBSET U
    BY <1>1
  <2>3. Cardinality(L) \in Nat /\ Cardinality(O) \in Nat
    <3> HIDE DEF L, O
    <3> QED
      BY <1>2, <2>2, FS_Subset, FS_CardinalityType
  <2>4. Cardinality(Lower(p)) = First(p)
    <3>1. CASE s[p] > 0
      <4>1. Lower(p) = L \cup (U \ E)
        BY <1>1, <3>1
      <4>2. L \cap (U \ E) = {} /\ U \ E \in SUBSET U
        OBVIOUS
      <4>3. Cardinality(L \cup (U \ E)) = Cardinality(L) + Cardinality(U \ E)
        <5> HIDE DEF L
        <5> QED
          BY <1>2, <2>2, <4>2, CountsAdd
      <4>4. First(p) = Cardinality(L) + z
        BY <3>1
      <4> HIDE DEF L, Lower, First
      <4> QED
        BY <1>1, <4>1, <4>3, <4>4
    <3>2. CASE ~(s[p] > 0)
      <4>1. Lower(p) = L
        BY <1>1, <3>2
      <4>2. First(p) = Cardinality(L) + 0
        BY <3>2
      <4> HIDE DEF L, Lower, First
      <4> QED
        BY <2>3, <4>1, <4>2
    <3> QED
      BY <3>1, <3>2
  <2>5. First(p) \in Nat /\ Ties(p) \in Nat
    BY <1>1, <2>3
  <2>6. PairRank(p) = 2 * First(p) + Ties(p) + 1
    <3>1. Cardinality(Equal(p)) = Ties(p)
      BY <2>1
    <3> HIDE DEF Lower, Equal, First, Ties
    <3> QED
      BY <2>4, <3>1
  <2> HIDE DEF First, Ties, Lower, Equal, PairRank
  <2> QED
    BY <2>5, <2>6
<1>5. below \in Nat
  <2> DEFINE B == {p \in E : s[p] < 0}
  <2>1. B \in SUBSET E
    OBVIOUS
  <2> HIDE DEF B
  <2>2. Cardinality(B) \in Nat
    BY <1>1, <2>1, FS_Subset, FS_CardinalityType
  <2> QED
    BY <2>2 DEF B
<1>6. ASSUME NEW p \in U, p \notin E PROVE PairRank(p) = zeroRank
  <2>1. Lower(p) = {q \in E : s[q] < 0} /\ Equal(p) = U \ E
    BY <1>1, <1>6
  <2>2. Cardinality(Lower(p)) = below /\ Cardinality(Equal(p)) = z
    BY <1>1, <2>1
  <2>3. PairRank(p) = 2 * below + z + 1
    <3> HIDE DEF Lower, Equal, below
    <3> QED
      BY <2>2
  <2> HIDE DEF PairRank, below
  <2> QED
    BY <1>1, <1>5, <2>3
<1>7. zeroRank \in Nat
  <2> HIDE DEF below
  <2> QED
    BY <1>1, <1>5
<1> DEFINE g == [p \in Y |-> PairRank(p)]
           h == [p \in Y \cap E |-> RankE(p)]
<1>8. SumFunction(g) = SumFunction(h) + Cardinality(Y \ E) * zeroRank
  <2>1. g \in [Y -> Nat] /\ \A p \in Y \cap E : g[p] = PairRank(p)
    <3> HIDE DEF PairRank
    <3> QED
      BY <1>2, <1>3
  <2>2. h \in [Y \cap E -> Nat] /\ \A p \in Y \cap E : h[p] = g[p]
    <3>1. \A p \in Y \cap E : RankE(p) = PairRank(p) /\ PairRank(p) \in Nat
      <4> HIDE DEF PairRank, RankE
      <4> QED
        BY <1>2, <1>3, <1>4
    <3> HIDE DEF PairRank, RankE
    <3> QED
      BY <3>1
  <2>3. \A p \in Y \ (Y \cap E) : g[p] = zeroRank
    <3> HIDE DEF PairRank, zeroRank
    <3> QED
      BY <1>2, <1>6
  <2> DEFINE O == Y \cap E
  <2>4. O \in SUBSET Y /\ IsTerms(g, Y)
    BY <1>2, <2>1 DEF IsTerms
  <2>5. h \in [O -> Nat] /\ (\A p \in O : h[p] = g[p]) /\ \A p \in Y \ O : g[p] = zeroRank
    BY <2>2, <2>3
  <2>6. Y \ O = Y \ E
    OBVIOUS
  <2> HIDE DEF g, h, zeroRank, O
  <2>7. SumFunction(g) = SumFunction(h) + Cardinality(Y \ O) * zeroRank
    BY <1>7, <2>4, <2>5, SumSplits
  <2> QED
    BY <2>6, <2>7
<1>9. Y = U <=> Cardinality(Y) = Cardinality(U)
  BY <1>2, FS_Subset
<1>10. RankSumDense(U, Y, s) = IF Y = {} \/ Y = U THEN None ELSE SumFunction(g)
  BY DEF RankSumDense
<1>11. RankSumSparse(U, Y, s) = IF Y = {} \/ Cardinality(Y) = Cardinality(U) THEN None
                                ELSE SumFunction(h) + Cardinality(Y \ E) * zeroRank
  BY DEF RankSumSparse, E, z
<1> HIDE DEF g, h, zeroRank
<1> QED
  BY <1>8, <1>9, <1>10, <1>11

LEMMA PlacesAgree ==
  ASSUME NEW U, NEW Y, NEW s, IsAxis(U, Y, s)
  PROVE  PlacesSparse(U, Y, s) = PlacesDense(U, Y, s)
<1> DEFINE E == Explicit(s)
           z == Cardinality(U) - Cardinality(E)
           above == Cardinality({p \in E : s[p] > 0})
           Ahead(p) == {q \in E : s[q] > s[p] \/ (s[q] = s[p] /\ Before(q, p))}
           PlaceE(p) == Cardinality(Ahead(p)) + (IF s[p] > 0 THEN 0 ELSE z)
           Index(p) == Cardinality({q \in U : Before(q, p)})
           Slot(p) == Cardinality({q \in E : Before(q, p)})
           Higher(p) == {q \in U : \/ Value(s, q) > Value(s, p)
                                   \/ Value(s, q) = Value(s, p) /\ Before(q, p)}
<1>1. /\ E \subseteq U /\ IsFiniteSet(E) /\ IsFiniteSet(U \ E)
      /\ \A p \in U : Value(s, p) \in Int
      /\ \A p \in E : Value(s, p) = s[p] /\ s[p] \in Int /\ s[p] # 0
      /\ \A p \in U : p \notin E => Value(s, p) = 0
      /\ z = Cardinality(U \ E) /\ z \in Nat
  <2> DEFINE X == Explicit(s)
  <2> HIDE DEF X
  <2>1. X = Explicit(s)
    BY DEF X
  <2> QED
    BY <2>1, AxisValues
<1>2. IsFiniteSet(U) /\ Y \subseteq U
  BY DEF IsAxis
<1> HIDE DEF E, z
<1>3. ASSUME NEW p \in E PROVE Cardinality(Higher(p)) = PlaceE(p)
  <2> DEFINE M == Ahead(p)
  <2>1. M \in SUBSET U /\ M \cap (U \ E) = {} /\ U \ E \in SUBSET U
    BY <1>1
  <2>2. Cardinality(M) \in Nat /\ Cardinality(M \cup (U \ E)) = Cardinality(M) + Cardinality(U \ E)
    <3> DEFINE Z == U \ E
    <3>1. M \in SUBSET U /\ Z \in SUBSET U /\ M \cap Z = {}
      BY <2>1
    <3> HIDE DEF M, Z
    <3>2. Cardinality(M \cup Z) = Cardinality(M) + Cardinality(Z)
      BY <1>2, <3>1, CountsAdd
    <3>3. Cardinality(M) \in Nat
      BY <1>2, <3>1, CountsAdd
    <3> QED
      BY <3>2, <3>3 DEF Z
  <2>3. CASE s[p] > 0
    <3>1. Higher(p) = M
      BY <1>1, <2>3
    <3>2. PlaceE(p) = Cardinality(M) + 0
      BY <2>3
    <3> HIDE DEF M, Higher, PlaceE
    <3> QED
      BY <2>2, <3>1, <3>2
  <2>4. CASE ~(s[p] > 0)
    <3>1. Higher(p) = M \cup (U \ E)
      BY <1>1, <2>4
    <3>2. PlaceE(p) = Cardinality(M) + z
      BY <2>4
    <3> HIDE DEF M, Higher, PlaceE
    <3> QED
      BY <1>1, <2>2, <3>1, <3>2
  <2> QED
    BY <2>3, <2>4
<1>4. ASSUME NEW p \in U, p \notin E PROVE Cardinality(Higher(p)) = above + Index(p) - Slot(p)
  <2> DEFINE M == {q \in E : s[q] > 0}
             S == {q \in E : Before(q, p)}
             R == {q \in U \ E : Before(q, p)}
             I1 == {q \in U : Before(q, p)}
  <2>1. Higher(p) = M \cup R /\ I1 = S \cup R
    BY <1>1, <1>4
  <2>2. M \in SUBSET U /\ S \in SUBSET U /\ R \in SUBSET U /\ M \cap R = {} /\ S \cap R = {}
    BY <1>1
  <2>3. above = Cardinality(M) /\ Index(p) = Cardinality(I1) /\ Slot(p) = Cardinality(S)
    OBVIOUS
  <2> HIDE DEF M, S, R, I1, Higher, above, Index, Slot
  <2>4. Cardinality(M \cup R) = Cardinality(M) + Cardinality(R)
    BY <1>2, <2>2, CountsAdd
  <2>5. Cardinality(S \cup R) = Cardinality(S) + Cardinality(R)
    BY <1>2, <2>2, CountsAdd
  <2>6. Cardinality(M) \in Nat /\ Cardinality(R) \in Nat
    BY <1>2, <2>2, CountsAdd
  <2>7. Cardinality(S) \in Nat
    BY <1>2, <2>2, CountsAdd
  <2> QED
    BY <2>1, <2>3, <2>4, <2>5, <2>6, <2>7
<1>5. PlacesDense(U, Y, s) = {Cardinality(Higher(p)) : p \in Y}
  BY DEF PlacesDense
<1>6. PlacesSparse(U, Y, s) = {PlaceE(p) : p \in Y \cap E} \cup {above + Index(p) - Slot(p) : p \in Y \ E}
  BY DEF PlacesSparse, E, z
<1> HIDE DEF Higher, PlaceE, above, Index, Slot
<1>7. \A p \in Y \cap E : Cardinality(Higher(p)) = PlaceE(p)
  BY <1>3
<1>8. \A p \in Y \ E : Cardinality(Higher(p)) = above + Index(p) - Slot(p)
  BY <1>2, <1>4
<1> QED
  BY <1>5, <1>6, <1>7, <1>8

(***************************************************************************)
(* The true pairs, scored above the others.                                *)
(***************************************************************************)
\* Twice the number of the pairs of S below p, and that of those level with it.
Term(S, s, p) == 2 * Cardinality({q \in S : s[q] < s[p]}) + Cardinality({q \in S : s[q] = s[p]})

LEMMA TermTyped ==
  ASSUME NEW S, IsFiniteSet(S), NEW s, NEW p
  PROVE  Term(S, s, p) \in Nat
<1> DEFINE L == {q \in S : s[q] < s[p]}
           O == {q \in S : s[q] = s[p]}
<1>1. L \in SUBSET S /\ O \in SUBSET S
  OBVIOUS
<1> HIDE DEF L, O
<1>2. Cardinality(L) \in Nat /\ Cardinality(O) \in Nat
  BY <1>1, FS_Subset, FS_CardinalityType
<1>3. 2 * Cardinality(L) + Cardinality(O) \in Nat
  BY <1>2
<1> QED
  BY <1>3 DEF L, O, Term

\* A pair more, x, adds two to the term of the pairs above it and one to that of those
\* level with it.
LEMMA TermGrows ==
  ASSUME NEW R, IsFiniteSet(R), NEW x, x \notin R, NEW s, \A p \in R \cup {x} : s[p] \in Int,
         NEW p \in R
  PROVE  Term(R \cup {x}, s, p) =
           Term(R, s, p) + (IF s[x] < s[p] THEN 2 ELSE 0) + (IF s[x] = s[p] THEN 1 ELSE 0)
<1> DEFINE L == {q \in R : s[q] < s[p]}
           O == {q \in R : s[q] = s[p]}
           L1 == {q \in R \cup {x} : s[q] < s[p]}
           T1 == {q \in R \cup {x} : s[q] = s[p]}
<1>1. IsFiniteSet(L) /\ IsFiniteSet(O) /\ x \notin L /\ x \notin O
  BY FS_Subset
<1>2. Cardinality(L) \in Nat /\ Cardinality(O) \in Nat
  BY <1>1, FS_CardinalityType
<1>3. Cardinality(L1) = Cardinality(L) + (IF s[x] < s[p] THEN 1 ELSE 0)
  <2>1. CASE s[x] < s[p]
    <3>1. L1 = L \cup {x}
      BY <2>1
    <3> HIDE DEF L, L1
    <3> QED
      BY <1>1, <1>2, <2>1, <3>1, FS_AddElement
  <2>2. CASE ~(s[x] < s[p])
    <3>1. L1 = L
      BY <2>2
    <3> HIDE DEF L, L1
    <3> QED
      BY <1>2, <2>2, <3>1
  <2> QED
    BY <2>1, <2>2
<1>4. Cardinality(T1) = Cardinality(O) + (IF s[x] = s[p] THEN 1 ELSE 0)
  <2>1. CASE s[x] = s[p]
    <3>1. T1 = O \cup {x}
      BY <2>1
    <3> HIDE DEF O, T1
    <3> QED
      BY <1>1, <1>2, <2>1, <3>1, FS_AddElement
  <2>2. CASE s[x] # s[p]
    <3>1. T1 = O
      BY <2>2
    <3> HIDE DEF O, T1
    <3> QED
      BY <1>2, <2>2, <3>1
  <2> QED
    BY <2>1, <2>2
<1>5. Term(R \cup {x}, s, p) = 2 * Cardinality(L1) + Cardinality(T1)
  BY DEF Term
<1>6. Term(R, s, p) = 2 * Cardinality(L) + Cardinality(O)
  BY DEF Term
<1> HIDE DEF L, L1, O, T1
<1> QED
  BY <1>2, <1>3, <1>4, <1>5, <1>6

LEMMA TermsTotal ==
  ASSUME NEW Y, IsFiniteSet(Y), NEW s, \A p \in Y : s[p] \in Int
  PROVE  SumFunction([p \in Y |-> Term(Y, s, p)]) = Cardinality(Y) * Cardinality(Y)
<1> DEFINE Q == {S \in SUBSET Y : SumFunction([p \in S |-> Term(S, s, p)]) = Cardinality(S) * Cardinality(S)}
<1>1. {} \in Q
  <2> DEFINE g == [p \in {} |-> Term({}, s, p)]
  <2>1. IsTerms(g, {}) /\ Cardinality({}) = 0
    BY FS_EmptySet DEF IsTerms
  <2>2. SumFunction(g) = 0
    <3> HIDE DEF g
    <3>1. PICK f : IsTally(f, g, {}) /\ f[{}] = SumFunction(g)
      BY <2>1, SumTally
    <3> QED
      BY <3>1 DEF IsTally
  <2> QED
    BY <2>1, <2>2
<1>2. ASSUME NEW S \in SUBSET Y, S # {}, \A x \in S : S \ {x} \in Q PROVE S \in Q
  <2>1. PICK x \in S : TRUE
    BY <1>2
  <2> DEFINE R == S \ {x}
             M == {p \in R : s[x] < s[p]}
             B == {p \in R : s[p] = s[x]}
             C1 == {p \in R : s[p] < s[x]}
             g == [p \in R |-> Term(R, s, p)]
             m == [p \in R |-> IF p \in M THEN g[p] + 2 ELSE g[p]]
             h == [p \in R |-> Term(S, s, p)]
             f == [p \in S |-> Term(S, s, p)]
             c == Cardinality(R)
  <2>2. IsFiniteSet(S) /\ IsFiniteSet(R) /\ x \notin R /\ S = R \cup {x} /\ R \in SUBSET S /\ S \ R = {x}
    BY <2>1, FS_Subset
  <2>3. M \in SUBSET R /\ B \in SUBSET R /\ C1 \in SUBSET R
    OBVIOUS
  <2>4. c \in Nat /\ Cardinality(S) = c + 1
    <3> HIDE DEF R
    <3> QED
      BY <2>2, FS_AddElement, FS_CardinalityType
  <2>5. Cardinality(M) \in Nat /\ Cardinality(B) \in Nat /\ Cardinality(C1) \in Nat
        /\ c = Cardinality(M) + Cardinality(B) + Cardinality(C1)
    <3>1. IsFiniteSet(R) /\ M \cap B = {}
      BY <2>2
    <3> DEFINE AB == M \cup B
    <3>2. AB \in SUBSET R
      BY <2>3
    <3>3. AB \cap C1 = {}
      BY <2>2
    <3>4. AB \cup C1 = R
      BY <2>2
    <3> HIDE DEF M, B, C1, R
    <3>5. Cardinality(AB) = Cardinality(M) + Cardinality(B)
      BY <2>3, <3>1, CountsAdd
    <3>6. Cardinality(M) \in Nat /\ Cardinality(B) \in Nat
      BY <2>3, <3>1, CountsAdd
    <3> HIDE DEF AB
    <3>7. Cardinality(AB \cup C1) = Cardinality(AB) + Cardinality(C1)
      BY <2>3, <3>1, <3>2, <3>3, CountsAdd
    <3>8. Cardinality(C1) \in Nat
      BY <2>3, <3>1, <3>2, <3>3, CountsAdd
    <3> QED
      BY <3>4, <3>5, <3>6, <3>7, <3>8
  <2>6. \A p \in R : Term(R, s, p) \in Nat
    <3> HIDE DEF R
    <3> QED
      BY <2>2, TermTyped
  <2>7. \A p \in S : Term(S, s, p) \in Nat
    BY <2>2, TermTyped
  <2>8. \A p \in R : Term(S, s, p) = Term(R, s, p) + (IF s[x] < s[p] THEN 2 ELSE 0)
                                                   + (IF s[x] = s[p] THEN 1 ELSE 0)
    <3>1. IsFiniteSet(R) /\ x \notin R /\ \A p \in R \cup {x} : s[p] \in Int
      BY <2>2
    <3> HIDE DEF R
    <3>2. \A p \in R : Term(R \cup {x}, s, p) = Term(R, s, p) + (IF s[x] < s[p] THEN 2 ELSE 0)
                                                              + (IF s[x] = s[p] THEN 1 ELSE 0)
      BY <3>1, TermGrows
    <3> QED
      BY <2>2, <3>2
  <2>9. IsTerms(g, R) /\ IsTerms(m, R) /\ h \in [R -> Nat] /\ IsTerms(f, S)
    <3>1. g \in [R -> Nat] /\ m \in [R -> Nat] /\ h \in [R -> Nat] /\ f \in [S -> Nat]
      BY <2>6, <2>7
    <3> HIDE DEF g, m, h, f, R
    <3> QED
      BY <2>2, <3>1 DEF IsTerms
  <2>10. \A p \in R : m[p] = IF p \in M THEN g[p] + 2 ELSE g[p]
    OBVIOUS
  <2>11. \A p \in R : h[p] = IF p \in B THEN m[p] + 1 ELSE m[p]
    <3> SUFFICES ASSUME NEW p \in R PROVE h[p] = IF p \in B THEN m[p] + 1 ELSE m[p]
      OBVIOUS
    <3>1. h[p] = Term(S, s, p) /\ g[p] = Term(R, s, p) /\ g[p] \in Nat
      BY <2>6
    <3>2. s[x] \in Int /\ s[p] \in Int
      BY <2>1
    <3>3. (p \in B <=> s[x] = s[p]) /\ (p \in M <=> s[x] < s[p])
      OBVIOUS
    <3>4. m[p] = IF p \in M THEN g[p] + 2 ELSE g[p]
      BY <2>10
    <3> HIDE DEF g, m, h, M, B, R
    <3> QED
      BY <2>8, <3>1, <3>2, <3>3, <3>4
  <2>12. f[x] = 2 * Cardinality(C1) + Cardinality(B) + 1
    <3>1. {q \in S : s[q] < s[x]} = C1
      BY <2>1
    <3>2. {q \in S : s[q] = s[x]} = B \cup {x}
      BY <2>1
    <3>3. IsFiniteSet(B) /\ x \notin B
      BY <2>2, FS_Subset
    <3>4. f[x] = 2 * Cardinality(C1) + Cardinality(B \cup {x})
      BY <2>1, <3>1, <3>2 DEF Term
    <3> HIDE DEF B, C1, f
    <3>5. Cardinality(B \cup {x}) = Cardinality(B) + 1
      BY <3>3, FS_AddElement
    <3> QED
      BY <2>5, <3>4, <3>5
  <2>13. SumFunction(g) = c * c
    BY <1>2, <2>1
  <2>14. f[x] \in Nat /\ (\A p \in S \ R : f[p] = f[x]) /\ \A p \in R : h[p] = f[p]
    BY <2>1, <2>7
  <2> HIDE DEF M, B, C1, g, m, h, f, R
  <2>15. SumFunction(m) = SumFunction(g) + Cardinality(M) * 2
    <3>1. m \in [R -> Nat] /\ 2 \in Nat
      BY <2>9 DEF IsTerms
    <3> QED
      BY <2>3, <2>9, <2>10, <3>1, SumShifts
  <2>16. SumFunction(h) = SumFunction(m) + Cardinality(B) * 1
    <3>1. 1 \in Nat
      OBVIOUS
    <3> QED
      BY <2>3, <2>9, <2>11, <3>1, SumShifts
  <2>17. SumFunction(f) = SumFunction(h) + Cardinality(S \ R) * f[x]
    <3>1. R \in SUBSET S /\ h \in [R -> Nat] /\ IsTerms(f, S)
      BY <2>2, <2>9
    <3> QED
      BY <2>14, <3>1, SumSplits
  <2>18. Cardinality(S \ R) = 1
    BY <2>2, FS_Singleton
  <2>19. SumFunction(f) = c * c + Cardinality(M) * 2 + Cardinality(B) + f[x]
    <3>1. c * c \in Nat
      BY <2>4
    <3> HIDE DEF c
    <3> QED
      BY <2>5, <2>13, <2>14, <2>15, <2>16, <2>17, <2>18, <3>1
  <2>20. SumFunction(f) = (c + 1) * (c + 1)
    <3>1. (c + 1) * (c + 1) = c * c + 2 * c + 1 /\ c * c \in Nat
      BY <2>4
    <3> HIDE DEF c
    <3> QED
      BY <2>4, <2>5, <2>12, <2>19, <3>1
  <2> QED
    BY <2>4, <2>20 DEF f
<1>3. Q = SUBSET Y
  <2>1. Q \in SUBSET SUBSET Y
    OBVIOUS
  <2> HIDE DEF Q
  <2> QED
    BY <1>1, <1>2, <2>1, SubsetInduction
<1>4. Y \in Q
  BY <1>3
<1> QED
  BY <1>4

\* When the pairs with a score are the true ones, and all scores are above zero, the
\* true pairs have the highest ranks.
LEMMA PositivesOnTop ==
  ASSUME NEW U, NEW Y, NEW s, IsAxis(U, Y, s), DOMAIN s = Y, \A p \in Y : s[p] > 0
  PROVE  Perfect(U, Y, RankSumDense(U, Y, s))
<1> DEFINE PairRank(p) == 2 * Cardinality({q \in U : Value(s, q) < Value(s, p)})
                        + Cardinality({q \in U : Value(s, q) = Value(s, p)}) + 1
           n == Cardinality(Y)
           Z == U \ Y
           z == Cardinality(Z)
           g == [p \in Y |-> Term(Y, s, p)]
           h == [p \in Y |-> PairRank(p)]
           k == 2 * z + 1
<1>1. IsFiniteSet(U) /\ IsFiniteSet(Y) /\ Y \in SUBSET U /\ \A p \in Y : s[p] \in Int
  BY FS_Subset DEF IsAxis
<1>2. Z \in SUBSET U /\ IsFiniteSet(Z)
  BY <1>1, FS_Subset
<1>3. n \in Nat /\ z \in Nat
  <2> HIDE DEF Z
  <2> QED
    BY <1>1, <1>2, FS_CardinalityType
<1>4. ASSUME NEW p \in Y PROVE PairRank(p) = Term(Y, s, p) + k
  <2> DEFINE L == {q \in Y : s[q] < s[p]}
             O == {q \in Y : s[q] = s[p]}
             L1 == {q \in U : Value(s, q) < Value(s, p)}
             T1 == {q \in U : Value(s, q) = Value(s, p)}
  <2>1. \A q \in U : Value(s, q) = IF q \in Y THEN s[q] ELSE 0
    BY DEF Value
  <2>2. L1 = L \cup Z /\ T1 = O
    BY <1>1, <2>1
  <2>3. L \in SUBSET U /\ O \in SUBSET U /\ L \cap Z = {}
    BY <1>1
  <2>4. PairRank(p) = 2 * Cardinality(L1) + Cardinality(T1) + 1 /\ Term(Y, s, p) = 2 * Cardinality(L) + Cardinality(O)
    BY DEF Term
  <2> HIDE DEF L, O, L1, T1, Z, PairRank
  <2>5. Cardinality(L \cup Z) = Cardinality(L) + z
    BY <1>1, <1>2, <2>3, CountsAdd
  <2>6. Cardinality(L) \in Nat /\ Cardinality(O) \in Nat
    BY <1>1, <2>3, FS_Subset, FS_CardinalityType
  <2> QED
    BY <1>3, <2>2, <2>4, <2>5, <2>6
<1>5. \A p \in Y : Term(Y, s, p) \in Nat
  BY <1>1, TermTyped
<1>6. IsTerms(g, Y) /\ g \in [Y -> Nat]
  BY <1>1, <1>5 DEF IsTerms
<1>7. k \in Nat
  BY <1>3
<1>8. \A p \in Y : h[p] = g[p] + k /\ h[p] \in Nat
  <2> HIDE DEF PairRank, k
  <2> QED
    BY <1>4, <1>5, <1>7
<1>9. h \in [Y -> Nat] /\ \A p \in Y : h[p] = IF p \in Y THEN g[p] + k ELSE g[p]
  <2>1. h = [p \in Y |-> h[p]]
    OBVIOUS
  <2> HIDE DEF h, g, k
  <2> QED
    BY <1>8, <2>1
<1>10. SumFunction(g) = n * n
  BY <1>1, TermsTotal
<1>11. SumFunction(h) = SumFunction(g) + n * k
  <2>1. Y \in SUBSET Y
    OBVIOUS
  <2> HIDE DEF g, h, k
  <2> QED
    BY <1>6, <1>7, <1>9, <2>1, SumShifts
<1>12. SumFunction(h) - n * (n + 1) = 2 * n * z
  <2>1. n * (2 * z + 1) = 2 * n * z + n /\ n * (n + 1) = n * n + n
    BY <1>3
  <2>2. n * n \in Nat /\ 2 * n * z \in Nat
    BY <1>3
  <2>3. SumFunction(h) = n * n + (2 * n * z + n)
    BY <1>10, <1>11, <2>1
  <2> HIDE DEF h, n, z
  <2> QED
    BY <1>3, <2>1, <2>2, <2>3
<1>13. RankSumDense(U, Y, s) = IF Y = {} \/ Y = U THEN None ELSE SumFunction(h)
  BY DEF RankSumDense
<1> HIDE DEF h
<1> QED
  BY <1>12, <1>13 DEF Perfect

(***************************************************************************)
(* The scorer.                                                             *)
(***************************************************************************)
ContextInv == target \in Targets /\ ordered = Universe(target)
TruthsInv == \A f \in DOMAIN truths : f \in Floors /\ truths[f] = Truth(f)
ResultInv ==
  Scored => /\ result.floor \in DOMAIN truths
            /\ AreEdges(result.pred.directed) /\ AreEdges(result.pred.bidirected)
            /\ result.score = ScoreSparse(Truth(result.floor), result.pred)

\* What is kept of a floor is its truth, and a score is one of that truth.
ScoreInv == ContextInv /\ TruthsInv /\ ResultInv

LEMMA ScoreUnmoved ==
  ASSUME target' = target, ordered' = ordered
  PROVE  /\ \A f : Truth(f)' = Truth(f)
         /\ \A t, p : ScoreSparse(t, p)' = ScoreSparse(t, p)
<1>1. ASSUME NEW f PROVE Truth(f)' = Truth(f)
  BY DEF Truth, Unordered
<1>2. ASSUME NEW t, NEW p PROVE ScoreSparse(t, p)' = ScoreSparse(t, p)
  <2>1. Common(t, p)' = Common(t, p)
    BY DEF Common, Unordered
  <2> QED
    BY <2>1 DEF ScoreSparse, Score, Unordered
<1> QED
  BY <1>1, <1>2

LEMMA AsPredictionTyped ==
  ASSUME ContextInv, NEW floor
  PROVE  AreEdges(AsPrediction(floor).directed) /\ AreEdges(AsPrediction(floor).bidirected)
<1>1. ASSUME NEW s, AreEdges(s) PROVE AreEdges([e \in AtFloor(s, floor) |-> s[e]])
  <2> DEFINE M == AtFloor(s, floor)
  <2>1. M \in SUBSET DOMAIN s
    BY DEF AtFloor
  <2> HIDE DEF M
  <2>2. IsFiniteSet(M) /\ M \subseteq Int \X Int /\ \A e \in M : s[e] \in Int
    BY <1>1, <2>1, FS_Subset DEF AreEdges
  <2>3. AreEdges([e \in M |-> s[e]])
    BY <2>2 DEF AreEdges
  <2> QED
    BY <2>3 DEF M
<1>2. AreEdges(target.directed) /\ AreEdges(target.bidirected)
  BY TargetAssumption DEF ContextInv
<1> QED
  BY <1>1, <1>2 DEF AsPrediction

LEMMA ScoreStep ==
  ASSUME ScoreInv, NEW floor \in Floors, NEW pred, AreEdges(pred.directed), AreEdges(pred.bidirected),
         ScoreAtFloor(floor, pred)
  PROVE  ScoreInv'
<1>1. target' = target /\ ordered' = ordered
  BY DEF ScoreAtFloor
<1>2. \A f : Truth(f)' = Truth(f)
  BY <1>1, ScoreUnmoved
<1>3. \A t, p : ScoreSparse(t, p)' = ScoreSparse(t, p)
  BY <1>1, ScoreUnmoved
<1>4. Known(floor) = Truth(floor)
  BY DEF ScoreInv, TruthsInv, Known
<1>5. ContextInv'
  BY <1>1 DEF ScoreInv, ContextInv
<1>6. DOMAIN truths' = DOMAIN truths \cup {floor}
      /\ \A f \in DOMAIN truths' : truths'[f] = IF f = floor THEN Known(floor) ELSE truths[f]
  BY DEF ScoreAtFloor
<1>7. TruthsInv'
  <2> SUFFICES ASSUME NEW f \in DOMAIN truths' PROVE f \in Floors /\ truths'[f] = Truth(f)'
    BY DEF TruthsInv
  <2>1. truths'[f] = Truth(f) /\ f \in Floors
    BY <1>4, <1>6 DEF ScoreInv, TruthsInv
  <2> QED
    BY <1>2, <2>1
<1>8. result'.floor = floor /\ result'.pred = pred /\ result'.score = ScoreSparse(Truth(floor), pred)
  BY <1>4 DEF ScoreAtFloor
<1>9. result'.score = ScoreSparse(Truth(result.floor), result.pred)'
  <2>1. Truth(result.floor)' = Truth(floor)
    BY <1>1, <1>8 DEF Truth, Unordered
  <2>2. ScoreSparse(Truth(result.floor), result.pred)' = ScoreSparse(Truth(floor), pred)
    <3>1. Common(Truth(result.floor), result.pred)' = Common(Truth(floor), pred)
      BY <1>1, <1>8, <2>1 DEF Common, Unordered
    <3> QED
      BY <1>1, <2>1, <3>1 DEF ScoreSparse, Score, Unordered
  <2> QED
    BY <1>8, <2>2
<1>10. ResultInv'
  BY <1>6, <1>8, <1>9 DEF ResultInv
<1> QED
  BY <1>5, <1>7, <1>10 DEF ScoreInv

\* Whatever was scored before with a context, what it keeps of a floor is the target's
\* truth at that floor, and the last result is a score of its prediction against that
\* truth (ScoreContext.truth, score_at_floor).
THEOREM ScoreIsOfTheTruth == ScoreSpec => []ScoreInv
<1>1. InitContext => ScoreInv
  BY DEF InitContext, ScoreInv, ContextInv, TruthsInv, ResultInv, Scored
<1>2. ScoreInv /\ [ScoreNext]_scoreVars => ScoreInv'
  <2> SUFFICES ASSUME ScoreInv, [ScoreNext]_scoreVars PROVE ScoreInv'
    OBVIOUS
  <2>1. CASE UNCHANGED scoreVars
    <3>1. target' = target /\ ordered' = ordered /\ truths' = truths /\ result' = result
      BY <2>1 DEF scoreVars
    <3>2. \A f : Truth(f)' = Truth(f)
      BY <3>1, ScoreUnmoved
    <3>3. ScoreSparse(Truth(result.floor), result.pred)' = ScoreSparse(Truth(result.floor), result.pred)
      <4>1. Truth(result.floor)' = Truth(result.floor)
        BY <3>1 DEF Truth, Unordered
      <4>2. Common(Truth(result.floor), result.pred)' = Common(Truth(result.floor), result.pred)
        BY <3>1, <4>1 DEF Common, Unordered
      <4> QED
        BY <3>1, <4>1, <4>2 DEF ScoreSparse, Score, Unordered
    <3>4. TruthsInv'
      BY <3>1, <3>2 DEF ScoreInv, TruthsInv
    <3> QED
      BY <3>1, <3>3, <3>4 DEF ScoreInv, ContextInv, ResultInv, Scored
  <2>2. CASE Return
    <3>1. target' = target /\ ordered' = ordered /\ truths' = truths /\ ~Scored'
      BY <2>2 DEF Return, Scored
    <3>2. \A f : Truth(f)' = Truth(f)
      BY <3>1, ScoreUnmoved
    <3>3. TruthsInv'
      BY <3>1, <3>2 DEF ScoreInv, TruthsInv
    <3> QED
      BY <3>1, <3>3 DEF ScoreInv, ContextInv, ResultInv
  <2>3. ASSUME NEW floor \in Floors, SelfCheck(floor) PROVE ScoreInv'
    <3>1. AreEdges(AsPrediction(floor).directed) /\ AreEdges(AsPrediction(floor).bidirected)
      BY AsPredictionTyped DEF ScoreInv
    <3> QED
      BY <2>3, <3>1, ScoreStep DEF SelfCheck
  <2>4. ASSUME NEW floor \in Floors, NEW pred \in Predictions(target), ScoreAtFloor(floor, pred)
        PROVE  ScoreInv'
    <3>1. AreEdges(pred.directed) /\ AreEdges(pred.bidirected)
      BY TargetAssumption DEF ScoreInv, ContextInv
    <3> QED
      BY <2>4, <3>1, ScoreStep
  <2> QED
    BY <2>1, <2>2, <2>3, <2>4 DEF ScoreNext
<1> QED
  BY <1>1, <1>2, PTL DEF ScoreSpec

\* The edges of a target at a floor make a graph.
LEMMA FloorIsGraph ==
  ASSUME ContextInv, NEW floor
  PROVE  /\ IsGraph(AtFloor(target.directed, floor))
         /\ AtFloor(target.directed, floor) \subseteq Int \X Int
         /\ AtFloor(target.bidirected, floor) \subseteq Int \X Int
         /\ \A e \in AtFloor(target.bidirected, floor) : e[1] < e[2]
<1>1. AreEdges(target.directed) /\ AreEdges(target.bidirected) /\ \A e \in DOMAIN target.bidirected : e[1] < e[2]
  BY TargetAssumption DEF ContextInv
<1>2. AtFloor(target.directed, floor) \in SUBSET DOMAIN target.directed
  BY DEF AtFloor
<1>3. IsFiniteSet(AtFloor(target.directed, floor))
  BY <1>1, <1>2, FS_Subset DEF AreEdges
<1>4. \A e \in AtFloor(target.directed, floor) : e \in Int \X Int
  BY <1>1, <1>2 DEF AreEdges
<1>5. \A e \in AtFloor(target.bidirected, floor) : e \in Int \X Int /\ e[1] < e[2]
  BY <1>1 DEF AreEdges, AtFloor
<1> QED
  BY <1>3, <1>4, <1>5 DEF IsGraph

LEMMA TruthIsCompelled ==
  ASSUME ScoreInv
  PROVE  CompelledIsShared
<1> SUFFICES ASSUME NEW f \in DOMAIN truths, truths[f].acyclic
             PROVE  truths[f].compelled = SharedEdges(truths[f].td)
  BY DEF CompelledIsShared
<1> DEFINE td == AtFloor(target.directed, f)
<1>1. truths[f] = Truth(f)
  BY DEF ScoreInv, TruthsInv
<1>2. truths[f].td = td
  BY <1>1 DEF Truth
<1>3. truths[f].compelled = IF IsAcyclic(td) THEN CompelledEdges(td) ELSE {}
  BY <1>1 DEF Truth
<1>4. IsGraph(td)
  BY FloorIsGraph DEF ScoreInv
<1>5. IsAcyclic(td)
  <2>1. Truth(f).acyclic
    BY <1>1
  <2>2. Truth(f).acyclic = IsAcyclic(td)
    BY DEF Truth
  <2> QED
    BY <2>1, <2>2
<1> HIDE DEF td
<1> QED
  BY <1>2, <1>3, <1>4, <1>5, RulesFindShared

\* The compelled edges that a context keeps for the orientation axis (cpdag_from_dag in
\* ScoreContext.truth) are those that every graph with the target's adjacencies and
\* v-structures has.
THEOREM CompelledEdgesAreShared == ScoreSpec => []CompelledIsShared
<1>1. ScoreInv => CompelledIsShared
  BY TruthIsCompelled
<1> QED
  BY <1>1, ScoreIsOfTheTruth, PTL

(***************************************************************************)
(* The universe.                                                           *)
(***************************************************************************)
LEMMA UniverseFacts ==
  ASSUME ContextInv
  PROVE  /\ IsFiniteSet(ordered) /\ ordered \subseteq Int \X Int
         /\ IsFiniteSet(Unordered)
         /\ \A k \in Unordered : \E a, b \in Int : k = <<a, b>> /\ a <= b
         /\ \A p \in ordered : Key(p[1], p[2]) \in Unordered
<1>1. IsFiniteSet(target.tokens) /\ target.tokens \subseteq Int
  BY TargetAssumption DEF ContextInv
<1> DEFINE P == target.tokens \X target.tokens
<1>2. IsFiniteSet(P)
  BY <1>1, FS_Product
<1>3. ordered \in SUBSET P
  BY DEF ContextInv, Universe
<1>4. P \subseteq Int \X Int
  BY <1>1
<1>5. IsFiniteSet(ordered)
  <2> HIDE DEF P
  <2> QED
    BY <1>2, <1>3, FS_Subset
<1> HIDE DEF P
<1> DEFINE f == [p \in ordered |-> Key(p[1], p[2])]
<1>6. f \in Surjection(ordered, Unordered)
  BY DEF Surjection, Unordered
<1>7. IsFiniteSet(Unordered)
  <2> HIDE DEF f
  <2> QED
    BY <1>5, <1>6, FS_Surjection
<1>8. ASSUME NEW k \in Unordered PROVE \E a, b \in Int : k = <<a, b>> /\ a <= b
  <2>1. PICK p \in ordered : k = Key(p[1], p[2])
    BY DEF Unordered
  <2>2. p[1] \in Int /\ p[2] \in Int
    BY <1>3, <1>4
  <2>3. CASE p[1] < p[2]
    <3>1. k = <<p[1], p[2]>> /\ p[1] <= p[2]
      BY <2>1, <2>2, <2>3 DEF Key
    <3> QED
      BY <2>2, <3>1
  <2>4. CASE ~(p[1] < p[2])
    <3>1. k = <<p[2], p[1]>> /\ p[2] <= p[1]
      BY <2>1, <2>2, <2>4 DEF Key
    <3> QED
      BY <2>2, <3>1
  <2> QED
    BY <2>3, <2>4
<1>9. \A p \in ordered : Key(p[1], p[2]) \in Unordered
  BY DEF Unordered
<1> QED
  BY <1>3, <1>4, <1>5, <1>7, <1>8, <1>9

LEMMA LargestOfThree ==
  ASSUME NEW a \in Int, NEW b \in Int, NEW c \in Int
  PROVE  Max({a, b, c}) \in {a, b, c} /\ \A x \in {a, b, c} : x <= Max({a, b, c})
<1> DEFINE S == {a, b, c}
<1>1. \E x \in S : \A y \in S : x >= y
  <2>1. a <= b \/ b <= a
    OBVIOUS
  <2>2. a <= c \/ c <= a
    OBVIOUS
  <2>3. b <= c \/ c <= b
    OBVIOUS
  <2> QED
    BY <2>1, <2>2, <2>3
<1> DEFINE m == CHOOSE x \in S : \A y \in S : x >= y
<1>2. m \in S /\ \A y \in S : m >= y
  <2> HIDE DEF S
  <2> QED
    BY <1>1
<1>3. Max(S) = m
  BY DEF Max
<1> HIDE DEF m
<1> QED
  BY <1>2, <1>3

LEMMA ValueTyped ==
  ASSUME NEW s, \A p \in DOMAIN s : s[p] \in Int, NEW p
  PROVE  Value(s, p) \in Int
BY DEF Value

\* What a score is computed from.
LEMMA CommonFacts ==
  ASSUME ContextInv, NEW t, NEW pred, AreEdges(pred.directed), AreEdges(pred.bidirected),
         NEW c, c = Common(t, pred)
  PROVE  /\ DOMAIN c.pd \subseteq ordered /\ \A p \in DOMAIN c.pd : c.pd[p] \in Int
         /\ DOMAIN c.pb \subseteq Unordered /\ \A p \in DOMAIN c.pb : c.pb[p] \in Int
         /\ c.skel = Skeleton(DOMAIN c.pd, DOMAIN c.pb) /\ c.skel \subseteq Unordered
<1>1. /\ c.pd = Inside(pred.directed, ordered) /\ c.pb = Inside(pred.bidirected, Unordered)
      /\ c.skel = Skeleton(DOMAIN c.pd, DOMAIN c.pb)
  BY DEF Common
<1>2. ASSUME NEW s, AreEdges(s), NEW U
      PROVE  DOMAIN Inside(s, U) \subseteq U /\ \A p \in DOMAIN Inside(s, U) : Inside(s, U)[p] \in Int
  BY <1>2 DEF Inside, AreEdges
<1>3. DOMAIN c.pd \subseteq ordered /\ \A p \in DOMAIN c.pd : c.pd[p] \in Int
  BY <1>1, <1>2
<1>4. DOMAIN c.pb \subseteq Unordered /\ \A p \in DOMAIN c.pb : c.pb[p] \in Int
  BY <1>1, <1>2
<1>5. c.skel \subseteq Unordered
  <2>1. \A p \in ordered : Key(p[1], p[2]) \in Unordered
    BY UniverseFacts
  <2> QED
    BY <1>1, <1>3, <1>4, <2>1 DEF Skeleton
<1> QED
  BY <1>1, <1>3, <1>4, <1>5

\* A pair of the universe that neither skeleton has is empty on both sides.
LEMMA DistanceAgrees ==
  ASSUME ContextInv, NEW t, NEW D, NEW B, D \subseteq Int \X Int, B \subseteq Int \X Int,
         t.td \subseteq Int \X Int, t.skel = Skeleton(t.td, t.tb), t.idxS = t.skel \cap Unordered,
         NEW S, S = Skeleton(D, B), S \subseteq Unordered
  PROVE  Differ(t.idxS \cup S, t, D, B) = Differ(Unordered, t, D, B)
<1>1. ASSUME NEW M, NEW C1, M \subseteq Int \X Int, NEW k \in Unordered, k \notin Skeleton(M, C1)
      PROVE  k \notin M /\ <<k[2], k[1]>> \notin M /\ k \notin C1
  <2>1. PICK a \in Int, b \in Int : k = <<a, b>> /\ a <= b
    BY UniverseFacts
  <2>2. k[1] = a /\ k[2] = b
    BY <2>1
  <2>3. k \notin C1
    BY <1>1 DEF Skeleton
  <2>4. Key(a, b) = k /\ Key(b, a) = k
    BY <2>1 DEF Key
  <2>5. \A e \in M : Key(e[1], e[2]) # k
    BY <1>1 DEF Skeleton
  <2>6. <<a, b>> \notin M
    <3>1. <<a, b>>[1] = a /\ <<a, b>>[2] = b
      OBVIOUS
    <3> QED
      BY <2>4, <2>5, <3>1
  <2>7. <<b, a>> \notin M
    <3>1. <<b, a>>[1] = b /\ <<b, a>>[2] = a
      OBVIOUS
    <3> QED
      BY <2>4, <2>5, <3>1
  <2> QED
    BY <2>1, <2>2, <2>3, <2>6, <2>7
<1>2. ASSUME NEW k \in Unordered, k \notin t.idxS \cup S
      PROVE  PairState(k, t.td, t.tb) = PairState(k, D, B)
  <2>1. k \notin Skeleton(t.td, t.tb) /\ k \notin Skeleton(D, B)
    BY <1>2
  <2>2. k \notin t.td /\ <<k[2], k[1]>> \notin t.td /\ k \notin t.tb
    BY <1>1, <2>1
  <2>3. k \notin D /\ <<k[2], k[1]>> \notin D /\ k \notin B
    BY <1>1, <2>1
  <2> QED
    BY <2>2, <2>3 DEF PairState
<1> DEFINE Differs(k) == PairState(k, t.td, t.tb) # PairState(k, D, B)
<1>3. t.idxS \cup S \subseteq Unordered
  OBVIOUS
<1>4. {k \in t.idxS \cup S : Differs(k)} = {k \in Unordered : Differs(k)}
  <2>1. \A k \in Unordered : Differs(k) => k \in t.idxS \cup S
    BY <1>2
  <2> HIDE DEF Differs
  <2> QED
    BY <1>3, <2>1
<1> QED
  BY <1>4 DEF Differ

LEMMA SparseAgrees ==
  ASSUME ContextInv, NEW floor, NEW pred, AreEdges(pred.directed), AreEdges(pred.bidirected)
  PROVE  ScoreSparse(Truth(floor), pred) = ScoreDense(floor, pred)
<1> DEFINE t == Truth(floor)
           c == Common(t, pred)
           ss == [k \in c.skel |-> SkelScore(k, c.pd, c.pb)]
<1>1. /\ DOMAIN c.pd \subseteq ordered /\ \A p \in DOMAIN c.pd : c.pd[p] \in Int
      /\ DOMAIN c.pb \subseteq Unordered /\ \A p \in DOMAIN c.pb : c.pb[p] \in Int
      /\ c.skel = Skeleton(DOMAIN c.pd, DOMAIN c.pb) /\ c.skel \subseteq Unordered
  <2> HIDE DEF t, c
  <2>1. c = Common(t, pred)
    BY DEF c
  <2> QED
    BY <2>1, CommonFacts
<1>2. /\ t.td = AtFloor(target.directed, floor) /\ t.tb = AtFloor(target.bidirected, floor)
      /\ t.skel = Skeleton(t.td, t.tb)
      /\ t.idxD = t.td \cap ordered /\ t.idxS = t.skel \cap Unordered /\ t.idxB = t.tb \cap Unordered
  BY DEF Truth
<1>3. IsFiniteSet(ordered) /\ ordered \subseteq Int \X Int /\ IsFiniteSet(Unordered) /\ Unordered \subseteq Int \X Int
  BY UniverseFacts
<1>4. t.td \subseteq Int \X Int
  <2> HIDE DEF t
  <2> QED
    BY <1>2, FloorIsGraph
<1> HIDE DEF c, t
<1>5. ASSUME NEW k PROVE SkelScore(k, c.pd, c.pb) \in Int
  <2>1. Value(c.pd, k) \in Int /\ Value(c.pd, <<k[2], k[1]>>) \in Int /\ Value(c.pb, k) \in Int
    BY <1>1, ValueTyped
  <2> DEFINE a == Value(c.pd, k)
             b == Value(c.pd, <<k[2], k[1]>>)
             d == Value(c.pb, k)
  <2>2. a \in Int /\ b \in Int /\ d \in Int
    BY <2>1
  <2>3. SkelScore(k, c.pd, c.pb) = Max({a, b, d})
    BY DEF SkelScore
  <2> HIDE DEF a, b, d
  <2> QED
    BY <2>2, <2>3, LargestOfThree
<1>6. DOMAIN ss = c.skel /\ \A k \in DOMAIN ss : ss[k] \in Int
  BY <1>5
<1> HIDE DEF ss
<1>7. IsAxis(ordered, t.idxD, c.pd) /\ IsAxis(Unordered, t.idxS, ss) /\ IsAxis(Unordered, t.idxB, c.pb)
  BY <1>1, <1>2, <1>3, <1>6 DEF IsAxis
<1>8. /\ RankSumSparse(ordered, t.idxD, c.pd) = RankSumDense(ordered, t.idxD, c.pd)
      /\ RankSumSparse(Unordered, t.idxS, ss) = RankSumDense(Unordered, t.idxS, ss)
      /\ RankSumSparse(Unordered, t.idxB, c.pb) = RankSumDense(Unordered, t.idxB, c.pb)
  BY <1>7, RanksAgree
<1>9. /\ PlacesSparse(ordered, t.idxD, c.pd) = PlacesDense(ordered, t.idxD, c.pd)
      /\ PlacesSparse(Unordered, t.idxS, ss) = PlacesDense(Unordered, t.idxS, ss)
      /\ PlacesSparse(Unordered, t.idxB, c.pb) = PlacesDense(Unordered, t.idxB, c.pb)
  BY <1>7, PlacesAgree
<1>10. Differ(t.idxS \cup c.skel, t, DOMAIN c.pd, DOMAIN c.pb) = Differ(Unordered, t, DOMAIN c.pd, DOMAIN c.pb)
  <2> DEFINE D == DOMAIN c.pd
             B == DOMAIN c.pb
             S == c.skel
  <2>1. D \subseteq Int \X Int /\ B \subseteq Int \X Int /\ S = Skeleton(D, B) /\ S \subseteq Unordered
    BY <1>1, <1>3
  <2> HIDE DEF D, B, S
  <2>2. Differ(t.idxS \cup S, t, D, B) = Differ(Unordered, t, D, B)
    BY <1>2, <1>4, <2>1, DistanceAgrees
  <2> QED
    BY <2>2 DEF D, B, S
<1>11. Score(t, c, t.idxS \cup c.skel, RankSumSparse, PlacesSparse) = Score(t, c, Unordered, RankSumDense, PlacesDense)
  BY <1>8, <1>9, <1>10 DEF Score, ss
<1> QED
  BY <1>11 DEF ScoreSparse, ScoreDense, c, t

\* The sparse path, score_at_floor, gives what the walk of the whole universe gives:
\* counts, ranks with ties, places and mixed distance, for any prediction, negative
\* scores and zeros included, whatever was scored before with the same context.
THEOREM SparseScoresAreDense == ScoreSpec => []SparseIsDense
<1>1. ScoreInv => SparseIsDense
  BY SparseAgrees DEF ScoreInv, ResultInv, SparseIsDense
<1> QED
  BY <1>1, ScoreIsOfTheTruth, PTL

(***************************************************************************)
(* The target scored against itself.                                       *)
(***************************************************************************)
LEMMA TopKOfAll ==
  ASSUME NEW s, IsFiniteSet(DOMAIN s), DOMAIN s \subseteq Int \X Int, \A p \in DOMAIN s : s[p] \in Int
  PROVE  TopK(Cardinality(DOMAIN s), s) = DOMAIN s
<1> SUFFICES ASSUME NEW e \in DOMAIN s
             PROVE  Cardinality({f \in DOMAIN s : \/ s[f] > s[e]
                                                  \/ s[f] = s[e] /\ Before(f, e)}) < Cardinality(DOMAIN s)
  BY DEF TopK
<1> DEFINE M == {f \in DOMAIN s : \/ s[f] > s[e]
                                  \/ s[f] = s[e] /\ Before(f, e)}
           D == DOMAIN s
<1>1. s[e] \in Int /\ e[1] \in Int /\ e[2] \in Int
  OBVIOUS
<1>2. e \notin M
  BY <1>1 DEF Before
<1>3. M \in SUBSET D /\ IsFiniteSet(D) /\ e \in D
  OBVIOUS
<1> HIDE DEF M, D
<1>4. IsFiniteSet(M) /\ Cardinality(M) \in Nat /\ Cardinality(D) \in Nat /\ Cardinality(M) <= Cardinality(D)
  BY <1>3, FS_Subset, FS_CardinalityType
<1>5. Cardinality(M) # Cardinality(D)
  BY <1>2, <1>3, FS_Subset
<1>6. Cardinality(M) < Cardinality(D)
  BY <1>4, <1>5
<1> QED
  BY <1>6 DEF M, D

LEMMA PerfectCounts ==
  ASSUME NEW X
  PROVE  Prf(X, X).fp = 0 /\ Prf(X, X).fn = 0
<1>1. X \ X = {} /\ Cardinality({}) = 0
  BY FS_EmptySet
<1> QED
  BY <1>1 DEF Prf

\* The target's edges are all predicted, and each with its strength.
LEMMA SelfCommon ==
  ASSUME ContextInv, NEW floor \in Floors,
         AtFloor(target.directed, floor) \subseteq ordered,
         AtFloor(target.bidirected, floor) \subseteq Unordered,
         NEW c, c = Common(Truth(floor), AsPrediction(floor)), NEW t, t = Truth(floor)
  PROVE  /\ DOMAIN c.pd = t.td /\ DOMAIN c.pb = t.tb /\ c.skel = t.skel
         /\ \A e \in t.td : c.pd[e] \in Int /\ c.pd[e] > 0
         /\ \A e \in t.tb : c.pb[e] \in Int /\ c.pb[e] > 0
         /\ c.counts.outside = 0
<1> DEFINE d == AsPrediction(floor).directed
           b == AsPrediction(floor).bidirected
<1>1. /\ t.td = AtFloor(target.directed, floor) /\ t.tb = AtFloor(target.bidirected, floor)
      /\ t.skel = Skeleton(t.td, t.tb)
  BY DEF Truth
<1>2. d = [e \in AtFloor(target.directed, floor) |-> target.directed[e]]
      /\ b = [e \in AtFloor(target.bidirected, floor) |-> target.bidirected[e]]
  BY DEF AsPrediction
<1>3. /\ AreEdges(target.directed) /\ \A e \in DOMAIN target.directed : target.directed[e] > 0
      /\ AreEdges(target.bidirected) /\ \A e \in DOMAIN target.bidirected : target.bidirected[e] > 0
  BY TargetAssumption DEF ContextInv
<1>4. /\ c.pd = Inside(d, ordered) /\ c.pb = Inside(b, Unordered)
      /\ c.skel = Skeleton(DOMAIN c.pd, DOMAIN c.pb)
      /\ c.counts.outside = Outside(d, ordered) + Outside(b, Unordered)
  BY DEF Common
<1>5. /\ DOMAIN d = t.td /\ \A e \in t.td : d[e] \in Int /\ d[e] > 0
      /\ DOMAIN b = t.tb /\ \A e \in t.tb : b[e] \in Int /\ b[e] > 0
  BY <1>1, <1>2, <1>3 DEF AreEdges, AtFloor
<1> HIDE DEF d, b
<1>6. ASSUME NEW s, NEW U, DOMAIN s \subseteq U
      PROVE  /\ DOMAIN Inside(s, U) = DOMAIN s /\ \A e \in DOMAIN s : Inside(s, U)[e] = s[e]
             /\ Outside(s, U) = 0
  <2>1. DOMAIN s \ U = {} /\ DOMAIN s \cap U = DOMAIN s
    BY <1>6
  <2> QED
    BY <2>1, FS_EmptySet DEF Inside, Outside
<1>7. /\ DOMAIN c.pd = t.td /\ \A e \in t.td : c.pd[e] = d[e]
      /\ Outside(d, ordered) = 0
  BY <1>1, <1>4, <1>5, <1>6
<1>8. /\ DOMAIN c.pb = t.tb /\ \A e \in t.tb : c.pb[e] = b[e]
      /\ Outside(b, Unordered) = 0
  BY <1>1, <1>4, <1>5, <1>6
<1> QED
  BY <1>1, <1>4, <1>5, <1>7, <1>8

LEMMA SelfCounts ==
  ASSUME ContextInv, NEW floor \in Floors,
         AtFloor(target.directed, floor) \subseteq ordered,
         AtFloor(target.bidirected, floor) \subseteq Unordered,
         NEW c, c = Common(Truth(floor), AsPrediction(floor))
  PROVE  /\ \A axis \in {c.counts.directed, c.counts.skeleton, c.counts.bidirected} : axis.fp = 0 /\ axis.fn = 0
         /\ c.counts.orientation.ok = c.counts.orientation.n /\ c.counts.shdTopK = 0
<1> DEFINE t == Truth(floor)
<1>1. /\ DOMAIN c.pd = t.td /\ DOMAIN c.pb = t.tb /\ c.skel = t.skel
      /\ \A e \in t.td : c.pd[e] \in Int /\ c.pd[e] > 0
  <2> HIDE DEF t
  <2>1. t = Truth(floor)
    BY DEF t
  <2> QED
    BY <2>1, SelfCommon
<1>2. IsFiniteSet(t.td) /\ t.td \subseteq Int \X Int
  <2>1. t.td = AtFloor(target.directed, floor)
    BY DEF Truth
  <2> HIDE DEF t
  <2> QED
    BY <2>1, FloorIsGraph DEF IsGraph
<1> HIDE DEF t
<1>3. /\ c.counts.directed = Prf(t.td, DOMAIN c.pd) /\ c.counts.skeleton = Prf(t.skel, c.skel)
      /\ c.counts.bidirected = Prf(t.tb, DOMAIN c.pb)
      /\ c.counts.orientation = Orientation(t, DOMAIN c.pd, c.skel)
      /\ c.counts.shdTopK = Cardinality(SymDiff(t.td, TopK(Cardinality(t.td), c.pd)))
  BY DEF Common, t
<1>4. \A axis \in {c.counts.directed, c.counts.skeleton, c.counts.bidirected} : axis.fp = 0 /\ axis.fn = 0
  BY <1>1, <1>3, PerfectCounts
<1>5. c.counts.orientation.ok = c.counts.orientation.n
  <2> DEFINE J == Judged(t, t.skel)
  <2>1. {e \in J : e \in t.td /\ <<e[2], e[1]>> \notin t.td} = J
    BY DEF Judged
  <2>2. c.counts.orientation = Orientation(t, t.td, t.skel)
    BY <1>1, <1>3
  <2>3. /\ Orientation(t, t.td, t.skel).ok = Cardinality({e \in J : e \in t.td /\ <<e[2], e[1]>> \notin t.td})
        /\ Orientation(t, t.td, t.skel).n = Cardinality(J)
    BY DEF Orientation
  <2> HIDE DEF J
  <2> QED
    BY <2>1, <2>2, <2>3
<1>6. c.counts.shdTopK = 0
  <2>1. TopK(Cardinality(t.td), c.pd) = t.td
    <3> DEFINE s == c.pd
    <3>1. DOMAIN s = t.td /\ \A p \in DOMAIN s : s[p] \in Int
      BY <1>1
    <3> HIDE DEF s
    <3>2. TopK(Cardinality(DOMAIN s), s) = DOMAIN s
      BY <1>2, <3>1, TopKOfAll
    <3> QED
      BY <3>1, <3>2 DEF s
  <2>2. SymDiff(t.td, t.td) = {}
    BY DEF SymDiff
  <2> QED
    BY <1>3, <2>1, <2>2, FS_EmptySet
<1> QED
  BY <1>4, <1>5, <1>6

LEMMA SelfRanks ==
  ASSUME ContextInv, NEW floor \in Floors,
         AtFloor(target.directed, floor) \subseteq ordered,
         AtFloor(target.bidirected, floor) \subseteq Unordered,
         NEW t, t = Truth(floor), NEW s, s = ScoreSparse(t, AsPrediction(floor))
  PROVE  /\ s.shdMixed = 0
         /\ Perfect(ordered, t.idxD, s.ranks[1]) /\ Perfect(Unordered, t.idxS, s.ranks[2])
         /\ Perfect(Unordered, t.idxB, s.ranks[3])
<1> DEFINE c == Common(t, AsPrediction(floor))
           ss == [k \in c.skel |-> SkelScore(k, c.pd, c.pb)]
<1>1. /\ DOMAIN c.pd = t.td /\ DOMAIN c.pb = t.tb /\ c.skel = t.skel
      /\ \A e \in t.td : c.pd[e] \in Int /\ c.pd[e] > 0
      /\ \A e \in t.tb : c.pb[e] \in Int /\ c.pb[e] > 0
  <2> HIDE DEF c
  <2>1. c = Common(Truth(floor), AsPrediction(floor))
    BY DEF c
  <2> QED
    BY <2>1, SelfCommon
<1>2. /\ t.td = AtFloor(target.directed, floor) /\ t.tb = AtFloor(target.bidirected, floor)
      /\ t.skel = Skeleton(t.td, t.tb)
      /\ t.idxD = t.td \cap ordered /\ t.idxS = t.skel \cap Unordered /\ t.idxB = t.tb \cap Unordered
  BY DEF Truth
<1>3. /\ s.shdMixed = Differ(t.idxS \cup c.skel, t, DOMAIN c.pd, DOMAIN c.pb)
      /\ s.ranks[1] = RankSumSparse(ordered, t.idxD, c.pd)
      /\ s.ranks[2] = RankSumSparse(Unordered, t.idxS, ss)
      /\ s.ranks[3] = RankSumSparse(Unordered, t.idxB, c.pb)
  BY DEF ScoreSparse, Score
<1> HIDE DEF c
<1>4. s.shdMixed = 0
  <2> DEFINE K == t.idxS \cup c.skel
  <2>1. {k \in K : PairState(k, t.td, t.tb) # PairState(k, t.td, t.tb)} = {}
    OBVIOUS
  <2>2. s.shdMixed = Differ(K, t, t.td, t.tb)
    BY <1>1, <1>3
  <2> HIDE DEF K
  <2> QED
    BY <2>1, <2>2, FS_EmptySet DEF Differ
<1>5. /\ IsFiniteSet(ordered) /\ ordered \subseteq Int \X Int /\ IsFiniteSet(Unordered)
      /\ \A p \in ordered : Key(p[1], p[2]) \in Unordered
  BY UniverseFacts
<1>6. t.skel \subseteq Unordered
  BY <1>2, <1>5 DEF Skeleton
<1>7. t.idxD = t.td /\ t.idxS = t.skel /\ t.idxB = t.tb
  BY <1>2, <1>6
<1>8. ASSUME NEW p PROVE Value(c.pd, p) \in Int /\ Value(c.pb, p) \in Int
                         /\ (p \in t.td => Value(c.pd, p) > 0) /\ (p \in t.tb => Value(c.pb, p) > 0)
  BY <1>1 DEF Value
<1>9. ASSUME NEW k \in t.skel PROVE SkelScore(k, c.pd, c.pb) \in Int /\ SkelScore(k, c.pd, c.pb) > 0
  <2> DEFINE x == Value(c.pd, k)
             y == Value(c.pd, <<k[2], k[1]>>)
             z == Value(c.pb, k)
  <2>1. x \in Int /\ y \in Int /\ z \in Int
    BY <1>8
  <2>2. x > 0 \/ y > 0 \/ z > 0
    <3>1. CASE k \in t.tb
      BY <1>8, <3>1
    <3>2. CASE k \notin t.tb
      <4>1. PICK e \in t.td : k = Key(e[1], e[2])
        BY <1>2, <3>2 DEF Skeleton
      <4>2. e = <<e[1], e[2]>>
        BY <1>2, <1>5
      <4>3. CASE e[1] < e[2]
        <5>1. k = e
          BY <4>1, <4>2, <4>3 DEF Key
        <5> QED
          BY <1>8, <5>1
      <4>4. CASE ~(e[1] < e[2])
        <5>1. k = <<e[2], e[1]>>
          BY <4>1, <4>4 DEF Key
        <5>2. <<k[2], k[1]>> = e
          BY <4>2, <5>1
        <5> QED
          BY <1>8, <5>2
      <4> QED
        BY <4>3, <4>4
    <3> QED
      BY <3>1, <3>2
  <2>3. SkelScore(k, c.pd, c.pb) = Max({x, y, z})
    BY DEF SkelScore
  <2> HIDE DEF x, y, z
  <2>4. Max({x, y, z}) \in {x, y, z} /\ \A v \in {x, y, z} : v <= Max({x, y, z})
    BY <2>1, LargestOfThree
  <2>5. Max({x, y, z}) \in Int /\ x <= Max({x, y, z}) /\ y <= Max({x, y, z}) /\ z <= Max({x, y, z})
    BY <2>1, <2>4
  <2> QED
    BY <2>1, <2>2, <2>3, <2>5
<1>10. DOMAIN ss = t.skel /\ \A k \in t.skel : ss[k] \in Int /\ ss[k] > 0
  BY <1>1, <1>9
<1> HIDE DEF ss
<1>11. /\ IsAxis(ordered, t.idxD, c.pd) /\ DOMAIN c.pd = t.idxD /\ \A p \in t.idxD : c.pd[p] > 0
       /\ IsAxis(Unordered, t.idxS, ss) /\ DOMAIN ss = t.idxS /\ \A p \in t.idxS : ss[p] > 0
       /\ IsAxis(Unordered, t.idxB, c.pb) /\ DOMAIN c.pb = t.idxB /\ \A p \in t.idxB : c.pb[p] > 0
  BY <1>1, <1>2, <1>5, <1>6, <1>7, <1>10 DEF IsAxis
<1>12. Perfect(ordered, t.idxD, s.ranks[1])
  BY <1>3, <1>11, RanksAgree, PositivesOnTop
<1>13. Perfect(Unordered, t.idxS, s.ranks[2])
  BY <1>3, <1>11, RanksAgree, PositivesOnTop
<1>14. Perfect(Unordered, t.idxB, s.ranks[3])
  BY <1>3, <1>11, RanksAgree, PositivesOnTop
<1> QED
  BY <1>4, <1>12, <1>13, <1>14

\* The target scored against itself (self_check) is perfect on every
\* axis: nothing is missed, added or misoriented, and every positive pair ranks above
\* every other pair.
THEOREM SelfScoresArePerfect == ScoreSpec => []SelfScorePerfect
<1>1. ScoreInv => SelfScorePerfect
  <2> SUFFICES ASSUME ScoreInv, Scored, InAlphabet, result.pred = AsPrediction(result.floor)
               PROVE  LET s == result.score  c == s.counts  t == truths[result.floor] IN
                      /\ \A axis \in {c.directed, c.skeleton, c.bidirected} : axis.fp = 0 /\ axis.fn = 0
                      /\ c.orientation.ok = c.orientation.n /\ c.shdTopK = 0
                      /\ s.shdMixed = 0 /\ c.outside = 0
                      /\ Perfect(ordered, t.idxD, s.ranks[1]) /\ Perfect(Unordered, t.idxS, s.ranks[2])
                      /\ Perfect(Unordered, t.idxB, s.ranks[3])
    BY DEF SelfScorePerfect
  <2> DEFINE f == result.floor
             t == truths[f]
             s == result.score
             c == Common(t, AsPrediction(f))
  <2>1. ContextInv /\ f \in Floors /\ t = Truth(f) /\ s = ScoreSparse(t, AsPrediction(f))
    BY DEF ScoreInv, TruthsInv, ResultInv
  <2>2. AtFloor(target.directed, f) \subseteq ordered /\ AtFloor(target.bidirected, f) \subseteq Unordered
    BY DEF InAlphabet
  <2>3. s.counts = c.counts /\ c = Common(Truth(f), AsPrediction(f))
    BY <2>1 DEF ScoreSparse, Score
  <2> HIDE DEF f, t, s, c
  <2>4. /\ \A axis \in {c.counts.directed, c.counts.skeleton, c.counts.bidirected} : axis.fp = 0 /\ axis.fn = 0
        /\ c.counts.orientation.ok = c.counts.orientation.n /\ c.counts.shdTopK = 0
    BY <2>1, <2>2, <2>3, SelfCounts
  <2>5. c.counts.outside = 0
    BY <2>1, <2>2, <2>3, SelfCommon
  <2>6. /\ s.shdMixed = 0
        /\ Perfect(ordered, t.idxD, s.ranks[1]) /\ Perfect(Unordered, t.idxS, s.ranks[2])
        /\ Perfect(Unordered, t.idxB, s.ranks[3])
    BY <2>1, <2>2, SelfRanks
  <2> QED
    BY <2>3, <2>4, <2>5, <2>6 DEF f, t, s
<1> QED
  BY <1>1, ScoreIsOfTheTruth, PTL
=============================================================================
