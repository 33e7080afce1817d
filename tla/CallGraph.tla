------------------------------ MODULE CallGraph ------------------------------
(***************************************************************************)
(* The deployment that every instance starts from: services are placed in  *)
(* layers, endpoints pick the endpoints they call, endpoints that nobody   *)
(* reaches are attached, the scenarios draw their journeys and the call    *)
(* probabilities are calibrated against the depth profile.                 *)
(*                                                                         *)
(* A random draw is a choice among the values it can have.  Names, pods,   *)
(* addresses and the numbers rho and p_hit of an edge are left out; a call *)
(* probability is known by the rule that sets it, a vector of per-layer    *)
(* stop probabilities by a number, and the Monte Carlo that measures one,  *)
(* whose seeds are fixed, by a function.                                   *)
(***************************************************************************)
EXTENDS Integers, FiniteSets, SequencesExt

CONSTANTS
  BffOps, ServiceOps, ExternalOps,  \* operation ids, in the order they are minted
  Services,                         \* backend services, 1 .. n
  ServiceOf,                        \* [ServiceOps -> Services]
  Levels,                           \* the length of depth_pmf
  FanOut,                           \* the callee counts an endpoint may draw
  Steps,                            \* the number of steps of each scenario
  StopVectors,                      \* the vectors of stop probabilities tried
  ClosedForm,                       \* the first of them
  Measured,                         \* the distance to the profile each one measures
  Close,                            \* CALIBRATION_TV
  MaxSteps,                         \* CALIBRATION_MAX_STEPS
  Marked,                           \* bound: calls that may be cached, or not critical
  ExternalCallers                   \* bound: endpoints that may call an external one

Ops == BffOps \cup ServiceOps \cup ExternalOps

ASSUME CallGraphAssumption ==
  /\ BffOps \subseteq Nat /\ ServiceOps \subseteq Nat /\ ExternalOps \subseteq Nat
  /\ BffOps # {} /\ IsFiniteSet(Ops)
  /\ BffOps \cap ServiceOps = {} /\ ExternalOps \cap (BffOps \cup ServiceOps) = {}
  /\ Levels \in Nat \ {0} /\ Services \subseteq Nat \ {0}
  /\ ServiceOf \in [ServiceOps -> Services]
  /\ Steps \in Seq(Nat \ {0}) /\ FanOut \subseteq Nat \ {0} /\ ClosedForm \in StopVectors
  /\ Measured \in [StopVectors -> Nat] /\ Close \in Nat
  /\ MaxSteps \in Nat \ {0}

VARIABLES
  pc,          \* the part of the instantiation that comes next
  layer,       \* the layer of each backend service
  calls,       \* call edges, <<caller, callee>>
  cached,      \* those fronted by a cache
  critical,    \* those whose callee's failures can reach the caller's outcome
  attached,    \* those added only to reach their callee
  todo,        \* endpoints that have still to pick their callees
  reachable,   \* endpoints known to be reached from the BFF
  journeys,    \* the BFF endpoints of each scenario drawn so far
  uncovered,   \* BFF endpoints no scenario has drawn first
  cursor,      \* client_cursor: client operations the scenarios have used
  callP,       \* the rule behind each edge's call probability
  stop,        \* the stop probabilities of the current calibration step
  best,        \* the best calibration step so far
  calSteps     \* calibration steps done

graphVars == <<layer, calls, cached, critical, attached, todo, reachable>>
journeyVars == <<journeys, uncovered, cursor>>
calVars == <<callP, stop, best, calSteps>>
vars == <<pc, graphVars, journeyVars, calVars>>

-----------------------------------------------------------------------------
Depth(o) == IF o \in BffOps THEN 0
            ELSE IF o \in ExternalOps THEN Levels + 1 ELSE layer[ServiceOf[o]]

AtDepth(d) == {o \in ServiceOps : Depth(o) = d}
Deeper(d) == {o \in ServiceOps : d < Depth(o)}

Callees(u) == {e[2] : e \in {x \in calls : x[1] = u}}
Callers(v) == {e[1] : e \in {x \in calls : x[2] = v}}

\* The endpoints reached from R along the calls E: those in every set that holds
\* R and the callees of its members.
Reach(R, E) ==
  {o \in Ops : \A S \in SUBSET Ops :
     R \subseteq S /\ (\A e \in E : e[1] \in S => e[2] \in S) => o \in S}

\* The endpoints that a BFF endpoint's requests may invoke.
ReachableFrom(b) == Reach({b}, calls)

-----------------------------------------------------------------------------
NoStep == [tv |-> 0, stop |-> 0, step |-> 0]

Init ==
  /\ pc = "place"
  /\ layer = [s \in Services |-> 0]
  /\ calls = {} /\ cached = {} /\ critical = {} /\ attached = {}
  /\ todo = {} /\ reachable = {}
  /\ journeys = <<>> /\ uncovered = BffOps /\ cursor = 0
  /\ callP = <<>> /\ stop = ClosedForm /\ best = NoStep /\ calSteps = 0

\* The first services take one layer each.
PlaceServices ==
  /\ pc = "place"
  /\ layer' \in {l \in [Services -> 1 .. Levels] : \A s \in Services : s <= Levels => l[s] = s}
  /\ todo' = BffOps \cup ServiceOps
  /\ pc' = "wire"
  /\ UNCHANGED <<calls, cached, critical, attached, reachable, journeyVars, calVars>>

\* The callees an endpoint chooses from: the next layer, else any deeper one.
Candidates(u) ==
  IF u \in BffOps THEN AtDepth(1)
  ELSE IF AtDepth(Depth(u) + 1) # {} THEN AtDepth(Depth(u) + 1) ELSE Deeper(Depth(u))

\* Mutant: a cache is noted for a caller, whatever it calls.
AddCalls_AnyCallee(new) ==
  /\ calls' = calls \cup new
  /\ \E C \in SUBSET (Marked \cap {<<e[1], w>> : e \in new, w \in Ops}) : cached' = cached \cup C
  /\ \E N \in SUBSET (Marked \cap new) : critical' = critical \cup (new \ N)

\* Whether a call is cached and whether it is critical are two draws of their own.
AddCalls(new) ==
  /\ calls' = calls \cup new
  /\ \E C \in SUBSET (Marked \cap new) : cached' = cached \cup C
  /\ \E N \in SUBSET (Marked \cap new) : critical' = critical \cup (new \ N)

\* Endpoints are wired layer by layer, in the order of their ids.
Earlier(x, y) == Depth(x) < Depth(y) \/ (Depth(x) = Depth(y) /\ x < y)

\* An endpoint draws how many endpoints it calls and which, and may call one
\* external; one with nothing deeper calls nobody.
Wire(u) ==
  /\ pc = "wire" /\ \A y \in todo \ {u} : Earlier(u, y)
  /\ IF u \in ServiceOps /\ Deeper(Depth(u)) = {} THEN UNCHANGED <<calls, cached, critical>>
     ELSE \E k \in FanOut, X \in SUBSET ExternalOps : \E K \in SUBSET Candidates(u) :
            /\ Cardinality(K) = (IF k < Cardinality(Candidates(u)) THEN k
                                 ELSE Cardinality(Candidates(u)))
            /\ Cardinality(X) <= 1 /\ (X # {} => u \in ExternalCallers)
            /\ AddCalls({u} \X (K \cup X))
  /\ todo' = todo \ {u}
  /\ UNCHANGED <<pc, layer, attached, reachable, journeyVars, calVars>>

StartAttaching ==
  /\ pc = "wire" /\ todo = {}
  /\ reachable' = Reach(BffOps, calls)
  /\ pc' = "attach"
  /\ UNCHANGED <<layer, calls, cached, critical, attached, todo, journeyVars, calVars>>

Orphans == ServiceOps \ reachable

\* Mutant: an orphan is attached to any shallower endpoint, reached or not.
ShallowerThan_Unreached(o) == {c \in BffOps \cup ServiceOps : Depth(c) < Depth(o)}

\* Callers an orphan may be attached to: shallower and themselves reached.
ShallowerThan(o) ==
  IF Depth(o) = 1 THEN BffOps
  ELSE {c \in BffOps \cup ServiceOps : Depth(c) < Depth(o) /\ c \in reachable}

Attach(o) ==
  /\ pc = "attach" /\ \A p \in Orphans : o <= p
  /\ \E c \in ShallowerThan(o) :
       /\ AddCalls({<<c, o>>})
       /\ attached' = attached \cup {<<c, o>>}
       /\ reachable' = reachable \cup Reach({c}, calls')
  /\ UNCHANGED <<pc, layer, todo, journeyVars, calVars>>

StartScenarios ==
  /\ pc = "attach" /\ Orphans = {}
  /\ pc' = "scenarios"
  /\ UNCHANGED <<graphVars, journeyVars, calVars>>

-----------------------------------------------------------------------------
(***************************************************************************)
(* Scenarios.                                                              *)
(***************************************************************************)
Increasing(S) == {q \in [1 .. Cardinality(S) -> S] :
                    ToSet(q) = S /\ \A i, j \in DOMAIN q : i < j => q[i] < q[j]}

\* A scenario draws first from the endpoints no earlier one has taken, then from
\* the rest; its journey visits them in the global order.
DrawScenario ==
  /\ pc = "scenarios" /\ Len(journeys) < Len(Steps)
  /\ LET steps == Steps[Len(journeys) + 1]
         k == IF steps < Cardinality(uncovered) THEN steps ELSE Cardinality(uncovered)
     IN \E first \in kSubset(k, uncovered) :
        \E rest \in kSubset(steps - k, BffOps \ first) :
          /\ \E journey \in Increasing(first \cup rest) : journeys' = Append(journeys, journey)
          /\ uncovered' = uncovered \ first
          /\ cursor' = cursor + steps
  /\ UNCHANGED <<pc, graphVars, calVars>>

StartCalibration ==
  /\ pc = "scenarios" /\ Len(journeys) = Len(Steps)
  /\ pc' = "calibrate"
  /\ UNCHANGED <<graphVars, journeyVars, calVars>>

-----------------------------------------------------------------------------
(***************************************************************************)
(* Call probabilities.                                                     *)
(***************************************************************************)
\* The rule for an edge: always, shared by the caller's m attached layer-1
\* endpoints, or the stop probability s over k callees.
Always == [rule |-> "always", of |-> 1, stop |-> 0]
Shared(m) == [rule |-> "shared", of |-> m, stop |-> 0]
Continue(k, s) == [rule |-> "continue", of |-> k, stop |-> s]

CallRule(e, s) ==
  LET u == e[1]  v == e[2] IN
  IF u \in BffOps
    THEN IF e \in attached /\ Depth(v) = 1
           THEN Shared(Cardinality({x \in attached : x[1] = u /\ Depth(x[2]) = 1}))
         ELSE IF v \in ExternalOps \/ Depth(v) = 1 THEN Always ELSE Continue(1, s)
    ELSE LET k == Cardinality(Callees(u) \cap ServiceOps) IN
         IF Depth(u) = Levels \/ k = 0 THEN Always ELSE Continue(k, s)

SetCallProbabilities(s) == callP' = [e \in calls |-> CallRule(e, s)]

\* One step: measure the current vector and keep it if it is closer than the best.
Kept ==
  IF best = NoStep \/ Measured[stop] < best.tv
    THEN [tv |-> Measured[stop], stop |-> stop, step |-> calSteps + 1] ELSE best

CloseEnough == best # NoStep /\ best.tv <= Close

Calibrate ==
  /\ pc = "calibrate" /\ calSteps < MaxSteps
  /\ ~CloseEnough
  /\ SetCallProbabilities(stop)
  /\ best' = Kept
  /\ calSteps' = calSteps + 1
  /\ IF Measured[stop] <= Close THEN stop' = stop ELSE stop' \in StopVectors
  /\ UNCHANGED <<pc, graphVars, journeyVars>>

\* Mutant: the vector of the step that would have come next ships.
Ship_Last ==
  /\ pc = "calibrate"
  /\ calSteps = MaxSteps \/ CloseEnough
  /\ SetCallProbabilities(stop)
  /\ pc' = "ready"
  /\ UNCHANGED <<graphVars, journeyVars, stop, best, calSteps>>

\* The best vector is set again and its measurement recorded.
Ship ==
  /\ pc = "calibrate"
  /\ calSteps = MaxSteps \/ CloseEnough
  /\ SetCallProbabilities(best.stop)
  /\ stop' = best.stop
  /\ pc' = "ready"
  /\ UNCHANGED <<graphVars, journeyVars, best, calSteps>>

Build == PlaceServices \/ (\E u \in todo : Wire(u))
           \/ StartAttaching \/ (\E o \in Orphans : Attach(o)) \/ StartScenarios
           \/ DrawScenario \/ StartCalibration \/ Calibrate \/ Ship

GraphSpec == Init /\ [][Build]_vars

-----------------------------------------------------------------------------
(***************************************************************************)
(* Properties.                                                             *)
(***************************************************************************)
TypeOK ==
  /\ pc \in {"place", "wire", "attach", "scenarios", "calibrate", "ready"}
  /\ layer \in [Services -> 0 .. Levels]
  /\ calls \subseteq Ops \X Ops /\ attached \subseteq calls
  /\ cached \subseteq calls /\ critical \subseteq calls
  /\ todo \subseteq BffOps \cup ServiceOps /\ reachable \subseteq Ops
  /\ journeys \in Seq(Seq(BffOps)) /\ uncovered \subseteq BffOps /\ cursor \in Nat
  /\ stop \in StopVectors /\ calSteps \in 0 .. MaxSteps
  /\ best = NoStep \/ (best.stop \in StopVectors /\ best.step \in 1 .. calSteps)

\* An endpoint only calls endpoints strictly deeper than itself, those that are
\* attached included, so that every request is a tree.
CallsGoDeeper == \A e \in calls : Depth(e[1]) < Depth(e[2])

\* Every backend endpoint carries traffic: when the scenarios have at least as many
\* steps as there are BFF endpoints, the calls lead to it from a BFF endpoint that a
\* journey visits, also when it had to be attached.
Visited == UNION {ToSet(journeys[i]) : i \in DOMAIN journeys}
EveryOpOnJourney ==
  pc = "ready" /\ cursor >= Cardinality(BffOps) =>
    ServiceOps \subseteq Reach(Visited, calls)

\* The recorded calibration is that of the probabilities that ship, however many
\* steps came after the best one.
ShippedIsBest ==
  pc = "ready" => /\ callP = [e \in calls |-> CallRule(e, best.stop)]
                  /\ best.tv = Measured[best.stop]
                  /\ best.tv <= Measured[ClosedForm]
=============================================================================
