------------------------------ MODULE Mechanism ------------------------------
(***************************************************************************)
(* The mechanism graph of a deployment: the state variables that the       *)
(* simulation carries and, for each, the variables its distribution        *)
(* depends on.  The distributions are left out: what is kept of a variable *)
(* is the outcomes it can show, and of a call whether what the callee does *)
(* can change what the caller shows.                                       *)
(*                                                                         *)
(* A node is <<group, i, j, k>>.  Latents belong to a service, an endpoint *)
(* or a scenario; the variables of an endpoint v are its presence I, its   *)
(* attempts A and its final F; those of step j of scenario s are the BFF's *)
(* presence I:bff and attempt T, the client's outcome C, one for each      *)
(* attempt k, and the client's final C:F.                                  *)
(***************************************************************************)
EXTENDS CallGraph

CONSTANTS
  Retries,        \* max_retries of the endpoints
  ClientRetries,  \* max_retries of each scenario
  Outcomes,       \* the outcomes an attempt can show, "ok" among them
  Repertoire,     \* those of the endpoints
  BffMask,        \* those of the BFF in each scenario
  ClientMask,     \* those of the client in each scenario
  Slowing         \* the calls whose callee's class changes how often the caller is slow

ASSUME MechanismAssumption ==
  Retries \in Nat /\ ClientRetries \in [1 .. Len(Steps) -> Nat]

Svc(o) == IF o \in BffOps THEN 0
          ELSE IF o \in ServiceOps THEN ServiceOf[o] ELSE Cardinality(Services) + 1 + o

Backend == ServiceOps \cup ExternalOps
Scenarios == 1 .. Len(journeys)
StepsOf(s) == 1 .. Len(journeys[s])

Intensity == <<"intensity", 0, 0, 0>>
Load(s)   == <<"load", s, 0, 0>>
Pool(s)   == <<"pool", s, 0, 0>>
Cache(s)  == <<"cache", s, 0, 0>>
Health(o) == <<"health", o, 0, 0>>
Net(s)    == <<"net", s, 0, 0>>
Auth(s)   == <<"auth", s, 0, 0>>
I(o)      == <<"I", o, 0, 0>>
A(o, k)   == <<"A", o, 0, k>>
F(o)      == <<"F", o, 0, 0>>
IBff(s, j, k) == <<"I:bff", s, j, k>>
T(s, j, k) == <<"T", s, j, k>>
C(s, j, k) == <<"C", s, j, k>>
CF(s, j)   == <<"C:F", s, j, 0>>

Attempts == 0 .. Retries
ClientAttempts(s) == 0 .. ClientRetries[s]

LatentNodes ==
  {Intensity}
    \cup (UNION {{Load(Svc(o)), Pool(Svc(o)), Cache(Svc(o)), Health(o)} : o \in Ops})
    \cup UNION {{Net(s), Auth(s)} : s \in Scenarios}

BackendNodes == UNION {{I(o), F(o)} \cup {A(o, k) : k \in Attempts} : o \in Backend}

JourneyNodes ==
  UNION {UNION {{CF(s, j)} \cup UNION {{IBff(s, j, k), T(s, j, k), C(s, j, k)} :
                                         k \in ClientAttempts(s)} :
                j \in StepsOf(s)} : s \in Scenarios}

Nodes == LatentNodes \cup BackendNodes \cup JourneyNodes

\* What makes an endpoint present: the BFF's own presence is one variable for each
\* step that visits it and each attempt.
Presence(u) ==
  IF u \notin BffOps THEN {I(u)}
  ELSE UNION {{IBff(s, j, k) : j \in {i \in StepsOf(s) : journeys[s][i] = u},
                               k \in ClientAttempts(s)} : s \in Scenarios}

\* Callers that some scenario visits, and the cache in front of the call.
InvokeParents(v) ==
  UNION {Presence(u) \cup {Cache(Svc(u)) : e \in {<<u, v>>} \cap cached} :
           u \in {c \in Callers(v) : Presence(c) # {}}}

StateParents(u) ==
  {Health(u), Pool(Svc(u))} \cup {Cache(Svc(u)) : e \in {x \in cached : x[1] = u}}

\* Finals of the callees and, when endpoints retry, their first attempts.
CalleeParents(u) ==
  {F(w) : w \in Callees(u)} \cup (IF Retries > 0 THEN {A(w, 0) : w \in Callees(u)} ELSE {})

BackendParents(n) ==
  LET o == n[2] k == n[4] IN
  CASE n[1] = "I" -> InvokeParents(o)
    [] n[1] = "A" -> {IF k = 0 THEN I(o) ELSE A(o, k - 1)}
                       \cup StateParents(o) \cup CalleeParents(o)
    [] n[1] = "F" -> {A(o, i) : i \in Attempts}

\* Mutant: a step waits for the client's final of its own.
BffPresenceParents_Own(s, j, k) ==
  IF k > 0 THEN {T(s, j, k - 1)} ELSE IF j > 1 THEN {CF(s, j)} ELSE {}

\* Mutant: a flaky network also loses requests before the BFF sees them.
BffPresenceParents_Net(s, j, k) ==
  {Net(s)} \cup IF k > 0 THEN {T(s, j, k - 1)} ELSE IF j > 1 THEN {CF(s, j - 1)} ELSE {}

\* A later step waits for the client's final of the one before, a retry for the
\* BFF's answer to the attempt before.
BffPresenceParents(s, j, k) ==
  IF k > 0 THEN {T(s, j, k - 1)} ELSE IF j > 1 THEN {CF(s, j - 1)} ELSE {}

JourneyParents(n) ==
  LET s == n[2] j == n[3] k == n[4] b == journeys[s][j] IN
  CASE n[1] = "I:bff" -> BffPresenceParents(s, j, k)
    [] n[1] = "T" -> {IBff(s, j, k), Auth(s)} \cup StateParents(b) \cup CalleeParents(b)
    [] n[1] = "C" -> {T(s, j, k), Net(s)}
    [] n[1] = "C:F" -> {C(s, j, i) : i \in ClientAttempts(s)}

\* Tick-level latents also depend on themselves one tick before; those loops are
\* recorded apart and take no part in the projection.
LatentParents(n) ==
  CASE n[1] \in {"intensity", "net", "auth"} -> {}
    [] n[1] = "load" -> {Intensity}
    [] n[1] \in {"pool", "cache"} -> {Load(n[2])}
    [] n[1] = "health" -> {Pool(Svc(n[2]))}

Parents(n) == IF n \in LatentNodes THEN LatentParents(n)
              ELSE IF n \in BackendNodes THEN BackendParents(n) ELSE JourneyParents(n)

-----------------------------------------------------------------------------
\* The outcomes a token-bearing node can show: masked ones never happen.
Shows(n) == CASE n[1] = "A" -> Repertoire
              [] n[1] = "T" -> BffMask[n[2]]
              [] n[1] = "C" -> ClientMask[n[2]]

\* An attempt that shows some outcomes feels a callee in two ways: a failure reaches
\* its class through a critical call, and the callee's time counts towards its own
\* where it may be slow.  How often it is slow then is sampled with fixed seeds.
Failures == {"4xx", "5xx", "err"}
Feels(call, shown) == \/ call \in critical /\ shown \cap Failures # {}
                      \/ call \in Slowing /\ "slow" \in shown

\* The values a source is forced to, absence left out: all of its outcomes, masked
\* or not; of a latent, one stands for all.
SourceValues(n) == CASE n[1] = "C" -> {"ok", "err"}
                     [] n[1] \in {"A", "T"} -> Outcomes
                     [] OTHER -> {"held"}
=============================================================================
