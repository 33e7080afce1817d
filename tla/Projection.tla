----------------------------- MODULE Projection -----------------------------
(***************************************************************************)
(* The scoring targets of an instance: the mechanism graph projected onto  *)
(* (operation, outcome) tokens, once for the tokens of one request and     *)
(* once for those of a whole journey.                                      *)
(*                                                                         *)
(* An effect is known here by the path it takes; its strength is the       *)
(* code's arithmetic.  Of a callee on its caller the model says when that  *)
(* is zero and there is no edge; every other effect that a path and the    *)
(* outcomes' masks allow is taken to be there, so that what is shown of    *)
(* all edges to be absent, or scored, holds of those above any floor.      *)
(***************************************************************************)
EXTENDS Mechanism

CONSTANTS
  Profiles     \* EXPOSURE_PROFILES: the latent groups each variant observes

Grains == {"request", "session"}

VARIABLES
  phase,       \* the part of the projection that comes next
  exposed,     \* the latent groups that are observed
  mech,        \* the parents of each node
  pairs,       \* pairs[g]: the pairs of nodes with a directed edge
  groups       \* the tokens' nodes that each hidden latent reaches

targetVars == <<phase, exposed, mech, pairs, groups>>

Derived(n) == n[1] \in {"I", "I:bff", "F", "C:F"}
IsToken(n) == n[1] \in {"A", "T", "C"}
Latent(n)  == ~Derived(n) /\ ~IsToken(n)
Hidden(n)  == Latent(n) /\ n[1] \notin exposed

\* Mutant: paths of the request target pass the presence of a BFF attempt.
Through_Anywhere(g) == {n \in DOMAIN mech : Hidden(n) \/ Derived(n)}

\* The nodes a path may pass.  At the request grain it may not pass the presence
\* of a BFF attempt: the path would cross into another request.
Through(g) ==
  {n \in DOMAIN mech : /\ Hidden(n) \/ Derived(n)
                       /\ g = "request" => n[1] # "I:bff"}

\* The nodes reached from the nodes of R, expanding those in M only: rounds follow
\* one another until nothing is added.
Spread(R, kids, M) ==
  LET After[n \in Nat] ==
        IF n = 0 THEN [X \in SUBSET DOMAIN kids |-> X]
        ELSE [X \in SUBSET DOMAIN kids |->
                LET next == X \cup UNION {kids[x] : x \in X \cap M} IN
                IF next = X THEN X ELSE After[n - 1][next]]
  IN After[Cardinality(DOMAIN kids)][R]

Kids == [n \in DOMAIN mech |-> {c \in DOMAIN mech : n \in mech[c]}]

\* The token-bearing nodes src reaches through M.
Endpoints(src, kids, M) == {n \in Spread(kids[src], kids, M) : IsToken(n)}

Sources == {n \in DOMAIN mech : IsToken(n) \/ (Latent(n) /\ ~Hidden(n))}

-----------------------------------------------------------------------------
(***************************************************************************)
(* Tokens.                                                                 *)
(***************************************************************************)
\* The operation of a token-bearing node: an endpoint, or a step's client operation.
OpOf(n) == CASE n[1] = "A" -> <<"op", n[2], 0>>
             [] n[1] = "T" -> <<"op", journeys[n[2]][n[3]], 0>>
             [] n[1] = "C" -> <<"client", n[2], n[3]>>
             [] OTHER -> <<"state", n, 0>>

IsServer(op) == op[1] = "op"
IsState(op) == op[1] = "state"

ServerOps(S) == {<<"op", o, 0>> : o \in S}
ClientOps(s) == {<<"client", s, j>> : j \in StepsOf(s)}

\* Pairs of operations that can share a request, or a journey.
Pairs(S) == {{a, b} : a \in S, b \in S}
RequestSupport == UNION {Pairs(ServerOps(ReachableFrom(b))) : b \in BffOps}
SessionSupport ==
  RequestSupport \cup
    UNION {Pairs(ClientOps(s) \cup UNION {ServerOps(ReachableFrom(journeys[s][j])) :
                                            j \in StepsOf(s)}) : s \in Scenarios}
Support(g) == IF g = "request" THEN RequestSupport ELSE SessionSupport

InSupport(a, b, support) == IsState(a) \/ (a # b /\ {a, b} \in support)

\* The pairs that the target keeps, their edges between operations, and those between
\* tokens: a source may be forced to any outcome, a destination shows the outcomes its
\* mask allows.
KeptPairs(g) == LET support == Support(g) IN
  {p \in pairs[g] : InSupport(OpOf(p[1]), OpOf(p[2]), support)}

OpEdges(g) == {<<OpOf(p[1]), OpOf(p[2])>> : p \in KeptPairs(g)}
TokenEdges(p) == {<<OpOf(p[1]), x>> : x \in SourceValues(p[1])} \X
                   {<<OpOf(p[2]), y>> : y \in Shows(p[2])}
TargetEdges(g) == UNION {TokenEdges(p) : p \in KeptPairs(g)}

\* Mutant: external operations emit no tokens.
Alphabet_NoExternals ==
  {<<<<"op", o, 0>>, x>> : o \in ServiceOps, x \in Repertoire}
    \cup UNION {UNION {({<<"op", journeys[s][j], 0>>} \X BffMask[s])
                         \cup ({<<"client", s, j>>} \X ClientMask[s]) :
                       j \in StepsOf(s)} : s \in Scenarios}

\* The tokens an operation can emit; the BFF's masks are joined over the scenarios.
Alphabet ==
  {<<<<"op", o, 0>>, x>> : o \in Backend, x \in Repertoire}
    \cup UNION {UNION {({<<"op", journeys[s][j], 0>>} \X BffMask[s])
                         \cup ({<<"client", s, j>>} \X ClientMask[s]) :
                       j \in StepsOf(s)} : s \in Scenarios}

\* The ordered token pairs that are scored.  A state token is scored against every
\* token of the operations it reaches.
InUniverse(a, b, alphabet, support) ==
  /\ IsState(a[1]) \/ (a \in alphabet /\ {a[1], b[1]} \in support)
  /\ b \in alphabet

\* The published prior: outcomes propagate from a callee to its caller.
Prior == {<<<<"op", e[2], 0>>, <<"op", e[1], 0>>>> : e \in calls}
-----------------------------------------------------------------------------
TargetInit ==
  /\ Init
  /\ phase = "mechanism" /\ exposed = {} /\ mech = <<>> /\ pairs = <<>> /\ groups = <<>>

BuildMechanism ==
  /\ pc = "ready" /\ phase = "mechanism"
  /\ exposed' \in Profiles
  /\ mech' = [n \in Nodes |-> Parents(n)]
  /\ phase' = "directed"
  /\ UNCHANGED <<vars, pairs, groups>>

\* Of the outcomes of an endpoint only its callers' attempts are endpoints of a path,
\* its own attempts apart: the effect is zero on those that do not feel it.
HasEffect(src, dst) ==
  src[1] = "A" /\ OpOf(dst) # OpOf(src) => Feels(<<OpOf(dst)[2], src[2]>>, Shows(dst))

\* directed_token_edges at each grain.
ProjectDirected ==
  /\ phase = "directed"
  /\ LET kids == Kids
         Reached(src, M) == Endpoints(src, kids, M) \ {src}
         Directed(M) == UNION {{<<src, dst>> : dst \in {n \in Reached(src, M) : HasEffect(src, n)}} :
                                 src \in Sources}
     IN pairs' = [g \in Grains |-> Directed(Through(g))]
  /\ phase' = "groups"
  /\ UNCHANGED <<vars, exposed, mech, groups>>

\* The nodes a latent reaches at a grain; one that reaches fewer than two is dropped.
Group(l, kids, M) == LET E == Endpoints(l, kids, M) IN IF Cardinality(E) < 2 THEN {} ELSE E

\* bidirected_groups, once, with the request grain's projector.
ProjectGroups ==
  /\ phase = "groups"
  /\ LET kids == Kids  M == Through("request") IN
     groups' = [l \in {n \in DOMAIN mech : Hidden(n)} |-> Group(l, kids, M)]
  /\ phase' = "done"
  /\ UNCHANGED <<vars, exposed, mech, pairs>>

Next == ( Build /\ UNCHANGED targetVars ) \/ BuildMechanism \/ ProjectDirected \/ ProjectGroups

Spec == TargetInit /\ [][Next]_<<vars, targetVars>>

-----------------------------------------------------------------------------
(***************************************************************************)
(* Properties.                                                             *)
(***************************************************************************)
\* Between endpoints the request target has, of the calls the published prior states,
\* reversed, exactly those whose callee is felt: where the caller can show a failure and
\* the call is critical, or can be slow and the callee's class tells on its time.
\* No outcome of a caller reaches a callee, and a caller on no journey shows nothing.
Projected == phase = "done"
Shown(u) == {t[2] : t \in {x \in Alphabet : x[1] = <<"op", u, 0>>}}
RequestTargetIsPrior ==
  Projected =>
    {e \in OpEdges("request") : IsServer(e[1]) /\ IsServer(e[2]) /\ e[1] # e[2]} =
      {e \in Prior : LET w == e[1][2]  u == e[2][2] IN
         \/ <<u, w>> \in critical /\ Shown(u) \cap Failures # {}
         \/ <<u, w>> \in Slowing /\ "slow" \in Shown(u)}

\* Within a journey no outcome of a later step reaches an earlier one, across all
\* scenarios: over the BFF's and the client's operations the session target has no cycle.
OnJourney(op) == op[1] = "client" \/ (IsServer(op) /\ op[2] \in BffOps)
HasNoCycle(E) ==
  LET N == {e[1] : e \in E} \cup {e[2] : e \in E}
      out == [n \in N |-> {e[2] : e \in {x \in E : x[1] = n}}]
  IN \A n \in N : n \notin Spread(out[n], out, N)
JourneyEdgesAcyclic ==
  Projected => HasNoCycle({e \in OpEdges("session") : /\ OnJourney(e[1]) /\ OnJourney(e[2])
                                                      /\ e[1] # e[2]})

\* A latent confounds the same tokens within a request as within a journey.
GroupsGrainIndependent ==
  Projected => LET kids == Kids  M == Through("session") IN
                 \A l \in DOMAIN groups : groups[l] = Group(l, kids, M)

\* The target scored against itself is perfect: every edge it keeps is one of the
\* pairs that are scored.
SelfCheckPerfect ==
  Projected => \A g \in Grains : LET alphabet == Alphabet  support == Support(g) IN
    \A e \in TargetEdges(g) : InUniverse(e[1], e[2], alphabet, support)
=============================================================================
