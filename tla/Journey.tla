------------------------------- MODULE Journey -------------------------------
(***************************************************************************)
(* The sessions of a shard, which advance in lockstep over the steps and   *)
(* the client's attempts, the keys their records carry and what the        *)
(* correlator makes of those keys.                                         *)
(*                                                                         *)
(* What happens within a request is another module's: here a request ends  *)
(* with some outcome after some time, through the BFF's access line and    *)
(* that of one internal endpoint.  Keys are the values they are hashed     *)
(* from.  Nothing is forced, as when a corpus is generated.                *)
(***************************************************************************)
EXTENDS Integers, FiniteSets, SequencesExt

CONSTANTS
  Sessions,       \* numbers of sessions: gid
  Scenarios,      \* the scenarios a session may draw
  Steps,          \* Steps[s]: the BFF endpoints of a scenario
  MaxRetries,     \* of a scenario
  RetryOn,        \* of a scenario
  BffMask,        \* of a scenario: outcomes of the BFF
  Flaky,          \* sessions with a flaky network
  LoggedIn,       \* sessions whose user is logged in
  Device,         \* the device of a session
  Durations,      \* how long a request may take
  Gaps,           \* pauses between steps
  KeyParts,       \* the part of a split line that holds its keys
  BitOr(_, _),    \* the bitwise or
  Some(_)         \* bound: the subsets of a set that are tried

ASSUME JourneyAssumption ==
  /\ Sessions \subseteq Nat /\ IsFiniteSet(Sessions)
  /\ Steps \in [Scenarios -> Seq(Nat)] /\ MaxRetries \in [Scenarios -> Nat]
  /\ Durations \subseteq Nat /\ Gaps \subseteq Nat /\ KeyParts \subseteq {1, 2}
  /\ \A g \in Sessions, low \in 0 .. 255 : BitOr(g * 256, low) = g * 256 + low

Failures == {"4xx", "5xx", "err"}
Backoff == 1000
ClientDelay == 40

VARIABLES
  pc,          \* the next thing the shard does
  scenario,    \* the scenario of each session
  j, k,        \* the step and the attempt under way
  due,         \* sessions that take this step
  idx,         \* those of them that make this attempt
  stepOk,      \* those for which an attempt of this step went well
  active,      \* sessions whose journey goes on
  clock,       \* when each session's next request may start
  stepsDone,
  finalOk,
  requests,    \* request rows, in order
  clients,     \* client rows, in order
  spans,       \* the normalized records, by <<kind, row, hop>>: their keys
  known,       \* of each connector, the identities and requests seen beside it
  attribution, \* what each is attributed to
  links        \* the access line each client record is linked to

sessionVars == <<j, k, due, idx, stepOk, active, clock, stepsDone, finalOk, requests, clients>>
correlatorVars == <<spans, known, attribution, links>>
vars == <<pc, scenario, sessionVars, correlatorVars>>

NumSteps(g) == Len(Steps[scenario[g]])
BffOp(g) == Steps[scenario[g]][j + 1]

Init ==
  /\ pc = "step" /\ scenario \in [Sessions -> Scenarios]
  /\ j = 0 /\ k = 0 /\ due = {} /\ idx = {} /\ stepOk = {}
  /\ active = Sessions /\ clock = [g \in Sessions |-> 0]
  /\ stepsDone = [g \in Sessions |-> 0] /\ finalOk = {}
  /\ requests = <<>> /\ clients = <<>>
  /\ spans = <<>> /\ known = <<>> /\ attribution = <<>> /\ links = <<>>

-----------------------------------------------------------------------------
(***************************************************************************)
(* run_shard.                                                              *)
(***************************************************************************)
StartStep ==
  /\ pc = "step"
  /\ LET D == {g \in active : NumSteps(g) > j} IN
     /\ D # {}
     /\ due' = D /\ idx' = D
  /\ stepOk' = {} /\ k' = 0 /\ pc' = "attempt"
  /\ UNCHANGED <<scenario, j, active, clock, stepsDone, finalOk, requests, clients, correlatorVars>>

\* The key every draw and id of a request is made of.
ReqGid(g, step, attempt) == BitOr(g * 256, step * 16 + attempt)

\* The sequences that hold each member of a set once.
Enumerations(S) == {q \in [1 .. Cardinality(S) -> S] : \A g \in S : \E i \in DOMAIN q : q[i] = g}

\* The client records of an attempt are in the order of the sessions.
InOrder == {q \in Enumerations(idx) : \A a, b \in DOMAIN q : a < b => q[a] < q[b]}

\* Requests are evaluated one BFF endpoint after another, and within one in the
\* order of the sessions; all of an endpoint take the mask of the first session's scenario.
Rank(x, y) == BffOp(x) < BffOp(y) \/ (BffOp(x) = BffOp(y) /\ x < y)
Evaluated == {q \in Enumerations(idx) : \A a, b \in DOMAIN q : a < b => Rank(q[a], q[b])}

\* Mutant: rows are counted in the order of the sessions.
RequestRow_SessionOrder(order, g) == Len(requests) + Cardinality({h \in idx : h <= g})

RequestRow(order, g) == Len(requests) + (CHOOSE i \in DOMAIN order : order[i] = g)
MaskFor(g) == BffMask[scenario[Min({h \in idx : BffOp(h) = BffOp(g)})]]

\* The client fails with most failures of the BFF, and with a flaky network anyhow;
\* it tries again after some of the BFF's failures.
Attempt ==
  /\ pc = "attempt" /\ idx # {}
  /\ \E out \in [idx -> {"ok"} \cup UNION {MaskFor(g) : g \in idx}], took \in Durations,
        order \in Evaluated, clientOrder \in InOrder :
     \E err \in SUBSET {g \in idx : out[g] \in Failures \/ g \in Flaky} :
     \E again \in SUBSET {g \in err : out[g] \in RetryOn[scenario[g]] /\ MaxRetries[scenario[g]] > k} :
       /\ \A g \in idx : out[g] \in MaskFor(g) \cup {"ok"}
       /\ requests' = requests \o [i \in 1 .. Cardinality(idx) |->
            LET g == order[i] IN
            [reqGid |-> ReqGid(g, j, k), gid |-> g, step |-> j, attempt |-> k, bff |-> BffOp(g),
             start |-> clock[g], end |-> clock[g] + took, outcome |-> out[g]]]
       /\ clients' = clients \o [i \in 1 .. Cardinality(idx) |->
            LET g == clientOrder[i] IN
            [gid |-> g, step |-> j, attempt |-> k, row |-> RequestRow(order, g),
             ts |-> clock[g] + took + ClientDelay, err |-> g \in err, retried |-> g \in again]]
       /\ clock' = [g \in Sessions |-> IF g \in idx THEN clock[g] + took + Backoff ELSE clock[g]]
       /\ stepOk' = stepOk \cup (idx \ err)
       /\ idx' = again
  /\ k' = k + 1
  /\ UNCHANGED <<pc, scenario, j, due, active, stepsDone, finalOk, correlatorVars>>

\* Mutant: a session whose last attempt failed goes on all the same.
EndStep_AllGoOn ==
  /\ pc = "attempt" /\ idx = {}
  /\ stepsDone' = [g \in Sessions |-> IF g \in due THEN stepsDone[g] + 1 ELSE stepsDone[g]]
  /\ j' = j + 1 /\ pc' = "step"
  /\ UNCHANGED <<scenario, k, due, idx, stepOk, active, clock, finalOk, requests, clients, correlatorVars>>

EndStep ==
  /\ pc = "attempt" /\ idx = {}
  /\ stepsDone' = [g \in Sessions |-> IF g \in due THEN stepsDone[g] + 1 ELSE stepsDone[g]]
  /\ active' = (active \ due) \cup stepOk
  /\ \E gap \in Gaps : clock' = [g \in Sessions |-> IF g \in due THEN clock[g] + gap ELSE clock[g]]
  /\ j' = j + 1 /\ pc' = "step"
  /\ UNCHANGED <<scenario, k, due, idx, stepOk, finalOk, requests, clients, correlatorVars>>

EndShard ==
  /\ pc = "step" /\ \A g \in active : NumSteps(g) <= j
  /\ finalOk' = {g \in active : stepsDone[g] >= NumSteps(g)}
  /\ pc' = "emit"
  /\ UNCHANGED <<scenario, j, k, due, idx, stepOk, active, clock, stepsDone, requests, clients,
                 correlatorVars>>

-----------------------------------------------------------------------------
(***************************************************************************)
(* The records, each known by <<kind, row, hop>> of the request or client  *)
(* row it is written for, with the keys that each of its parts shows; and  *)
(* normalize.                                                              *)
(***************************************************************************)
Session(g) == <<"session", g>>
Cart(g) == <<"cart", g>>
Account(g) == <<"account", Device[g]>>
Trace(r) == requests[r].reqGid
RequestId(r, hop) == <<Trace(r), hop>>
FrontTrace(c) == <<clients[c].gid, clients[c].step, clients[c].attempt>>

\* The keys a line may show: each holds no value or one.
KeyNames == {"request", "correlation", "trace", "front", "session", "cart", "device", "account"}
NoKeys == [n \in KeyNames |-> {}]
Split(part, keys) == [p \in 1 .. 2 |-> IF p = part THEN keys ELSE NoKeys]
AccountKey(g) == IF g \in LoggedIn THEN {Account(g)} ELSE {}

Access(r, hop) == <<[NoKeys EXCEPT !.request = {RequestId(r, hop)}, !.trace = {Trace(r)}]>>

\* The platform now and then writes the cart's id where the session's should be.
EdgeAudit(r, fallback, part) ==
  LET g == requests[r].gid IN
  Split(part,
    [NoKeys EXCEPT !.request = {RequestId(r, 0)}, !.correlation = {RequestId(r, 0)}, !.trace = {Trace(r)},
                   !.session = {IF fallback THEN Cart(g) ELSE Session(g)},
                   !.cart = {Cart(g)}, !.device = {Device[g]}])

\* An outbound call is audited by its caller, under the caller's request id.
OutboundAudit(r, part) ==
  Split(part,
    [NoKeys EXCEPT !.request = {RequestId(r, 1)}, !.correlation = {RequestId(r, 0)}, !.trace = {Trace(r)},
                   !.session = {Session(requests[r].gid)}])

AppLine(r) ==
  <<[NoKeys EXCEPT !.request = {RequestId(r, 1)}, !.correlation = {RequestId(r, 0)}, !.trace = {Trace(r)},
                   !.account = AccountKey(requests[r].gid)]>>

\* An error the client tags, which takes a failure of the BFF, shows the request id.
ErrorEvent(c, tagged) ==
  LET g == clients[c].gid  r == clients[c].row IN
  IF tagged /\ requests[r].outcome \in Failures
  THEN <<[NoKeys EXCEPT !.front = {FrontTrace(c)}, !.request = {RequestId(r, 0)},
                        !.device = {Device[g]}, !.account = AccountKey(g)]>>
  ELSE <<[NoKeys EXCEPT !.front = {FrontTrace(c)}]>>

Transaction(c) == <<[NoKeys EXCEPT !.front = {FrontTrace(c)}, !.device = {Device[clients[c].gid]}]>>

\* The parts of a line are merged before its keys are read, which one part holds.
Merged(parts) == [n \in KeyNames |-> UNION {parts[p][n] : p \in DOMAIN parts}]

\* Mutant: a session id that is the cart's is taken at its word.
KeysOf_AnySession(parts) == Merged(parts)

\* A session id that is the cart's is refused.
KeysOf(parts) ==
  LET keys == Merged(parts) IN
  IF keys.session # {} /\ keys.session = keys.cart THEN [keys EXCEPT !.session = {}] ELSE keys

\* The parts that are written for each record.
PartsOf(s, part, fallback, tagged) ==
  CASE s[1] = "access" -> Access(s[2], s[3])
    [] s[1] = "audit" -> IF s[3] = 0 THEN EdgeAudit(s[2], s[2] \in fallback, part)
                         ELSE OutboundAudit(s[2], part)
    [] s[1] = "app" -> AppLine(s[2])
    [] s[1] = "error" -> ErrorEvent(s[2], s[2] \in tagged)
    [] s[1] = "transaction" -> Transaction(s[2])

\* Each request has its access lines and its edge's audit, and of the internal hop
\* an audit or an application's line; each client row a transaction, and an error if it failed.
RecordsOf(internal) ==
  LET R == DOMAIN requests  C == DOMAIN clients IN
  ({"access"} \X R \X {0, 1}) \cup ({"audit"} \X R \X {0})
    \cup ({"audit"} \X internal \X {1}) \cup ({"app"} \X (R \ internal) \X {1})
    \cup ({"error"} \X {c \in C : clients[c].err} \X {0}) \cup ({"transaction"} \X C \X {0})

Emit ==
  /\ pc = "emit"
  /\ \E part \in KeyParts, fallback, internal \in Some(DOMAIN requests) \cap SUBSET DOMAIN requests,
        tagged \in Some(DOMAIN clients) :
       spans' = [s \in RecordsOf(internal) |-> KeysOf(PartsOf(s, part, fallback, tagged))]
  /\ pc' = "gather"
  /\ UNCHANGED <<scenario, sessionVars, known, attribution, links>>

-----------------------------------------------------------------------------
(***************************************************************************)
(* identity_keys, connectors, build_resolution, attribute, client_links.   *)
(***************************************************************************)
LevelsInOrder == <<"session", "device", "account">>
Levels == ToSet(LevelsInOrder)
RequestKeys(keys) == {<<"request", x>> : x \in keys.request \cup keys.correlation}

\* Mutant: the trace id is no connector.
Connectors_NoTrace(keys) ==
  RequestKeys(keys) \cup UNION {{<<n, x>> : x \in keys[n]} : n \in {"front", "cart"}}

Connectors(keys) ==
  RequestKeys(keys) \cup UNION {{<<n, x>> : x \in keys[n]} : n \in {"trace", "front", "cart"}}

\* The identities seen beside each connector, and the requests seen beside it.
Gather ==
  /\ pc = "gather"
  /\ known' = [c \in UNION {Connectors(spans[s]) : s \in DOMAIN spans} |->
                LET beside == {s \in DOMAIN spans : c \in Connectors(spans[s])} IN
                [ids |-> [level \in Levels |-> UNION {spans[s][level] : s \in beside}],
                 requests |-> IF c[1] = "request" THEN {}
                              ELSE UNION {RequestKeys(spans[s]) : s \in beside}]]
  /\ pc' = "propagate"
  /\ UNCHANGED <<scenario, sessionVars, spans, attribution, links>>

\* One round: what is known of the requests seen beside a connector is known of it.
Propagate ==
  /\ pc = "propagate"
  /\ known' = [c \in DOMAIN known |->
       [known[c] EXCEPT !.ids = [level \in Levels |->
          @[level] \cup UNION {known[r].ids[level] : r \in known[c].requests}]]]
  /\ pc' = "attribute"
  /\ UNCHANGED <<scenario, sessionVars, spans, attribution, links>>

CandidatesAt(keys, level) == keys[level] \cup UNION {known[c].ids[level] : c \in Connectors(keys)}

\* The strongest level that has a candidate, and its candidates.
Attribute(keys) ==
  LET found == {i \in DOMAIN LevelsInOrder : CandidatesAt(keys, LevelsInOrder[i]) # {}} IN
  IF found = {} THEN <<"none", {}>>
  ELSE LET level == LevelsInOrder[Min(found)] IN <<level, CandidatesAt(keys, level)>>

\* An error is linked by its request id, a transaction through the error that has its
\* front-end trace.
FromClient(s) == s[1] \in {"error", "transaction"}
RequestsOf(s) ==
  UNION {spans[e].request : e \in {x \in DOMAIN spans : x[1] = "error" /\ spans[x].front = spans[s].front}}
LinkOf(s) == {h \in DOMAIN spans : h[1] = "access" /\ spans[h].request \subseteq RequestsOf(s)}

AttributeAll ==
  /\ pc = "attribute"
  /\ attribution' = [s \in DOMAIN spans |-> Attribute(spans[s])]
  /\ links' = [s \in {t \in DOMAIN spans : FromClient(t)} |-> LinkOf(s)]
  /\ pc' = "done"
  /\ UNCHANGED <<scenario, sessionVars, spans, known>>

Next == StartStep \/ Attempt \/ EndStep \/ EndShard
          \/ Emit \/ Gather \/ Propagate \/ AttributeAll
Spec == Init /\ [][Next]_vars

-----------------------------------------------------------------------------
(***************************************************************************)
(* Properties.                                                             *)
(***************************************************************************)
Rows(g) == {r \in DOMAIN requests : requests[r].gid = g}
ClientOf(r) == CHOOSE c \in ToSet(clients) : c.row = r

\* The requests of a session follow one another: each starts after the client has
\* dealt with the one before; a step is repeated only after a failed attempt and
\* followed only when its last attempt went well; and a session that ends well has
\* done every step.
JourneyInOrder ==
  /\ \A g \in Sessions : \A r, q \in Rows(g) : r < q =>
       /\ ClientOf(r).ts <= requests[q].start
       /\ requests[r].step = requests[q].step => ClientOf(r).retried
       /\ requests[r].step <= requests[q].step
  /\ pc = "done" => \A g \in Sessions :
       g \in finalOk <=> \A s \in 0 .. NumSteps(g) - 1 :
                            \E r \in Rows(g) : requests[r].step = s /\ ~ClientOf(r).err

\* Whatever the order the endpoints' groups are evaluated in, a client record points
\* at its own request, requests have ids of their own, and the correlator links a
\* client record to the edge of that request or to nothing.
ClientLinksOwnRequest ==
  /\ \A c \in ToSet(clients) : LET r == requests[c.row] IN
       <<r.gid, r.step, r.attempt>> = <<c.gid, c.step, c.attempt>>
  /\ \A r, q \in DOMAIN requests : requests[r].reqGid = requests[q].reqGid => r = q
  /\ \A s \in DOMAIN links : links[s] \subseteq {<<"access", clients[s[2]].row, 0>>}

\* A record is attributed to the session, the device or the user it is of: no key
\* leads to another's, whatever sessions share a device.
Truth(g) == [level \in {"session", "device", "account", "none"} |->
               CASE level = "session" -> {Session(g)} [] level = "device" -> {Device[g]}
                 [] level = "account" -> {Account(g)} [] OTHER -> {}]
AttributedTruthfully ==
  \A s \in DOMAIN attribution :
    attribution[s][2] = Truth((IF FromClient(s) THEN clients[s[2]] ELSE requests[s[2]]).gid)[attribution[s][1]]

\* The access lines of a request are attributed alike, at the device or better, also
\* when its session id was lost: a request is never torn between two sequences.
RequestStaysTogether ==
  \A s, t \in {x \in DOMAIN attribution : x[1] = "access"} :
    s[2] = t[2] => /\ attribution[s] = attribution[t]
                         /\ attribution[s][1] \in {"session", "device"}
=============================================================================
