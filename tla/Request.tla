------------------------------- MODULE Request -------------------------------
(***************************************************************************)
(* One request: the engine decides which endpoints it invokes, their       *)
(* outcomes and their times; the emitter writes an access line for each    *)
(* attempt; the correlator, which sees the lines alone, infers the tree    *)
(* again and writes the request's row of the two request views.            *)
(*                                                                         *)
(* The engine computes times in ticks, Ms of which make a millisecond;     *)
(* what is emitted is whole milliseconds: starts are truncated, durations  *)
(* rounded, each apart, and a line's time is read back from text.  A draw  *)
(* is a choice among the values it can have.  Nothing is forced, as when a *)
(* corpus is generated.                                                    *)
(***************************************************************************)
EXTENDS Integers, FiniteSets, SequencesExt

CONSTANTS
  Order,          \* reachable_from: endpoints by depth, the BFF's first
  Calls,          \* the call edges <<caller, callee>>, by index
  Optional,       \* indices of calls a request may leave out, cached ones included
  Critical,       \* indices of calls whose failure is critical to the caller
  ServiceOf,      \* the service of an endpoint
  Ms,             \* ticks of a millisecond
  OwnTimes,       \* own times an attempt can take, in ticks, even so that half is one
  Threshold,      \* of each endpoint, the time in ticks beyond which an attempt is slow
  Classes,        \* classes an attempt can draw
  Mask,           \* the outcomes of the repertoire
  Propagates,     \* by severity: the classes a callee's failure maps onto
  Retries, RetryOn, Backoff,  \* the pause in ticks
  Lossy,          \* durations whose text is read back as a millisecond less
  SpanIdOf,       \* the ids of lines: hashes, so in no order that means anything
  Skews,          \* clock skews of a pod, whole as they are truncated with the stamp
  MaxSkewed,      \* bound: lines whose pod's clock is skewed
  SkewTolerance   \* SKEW_TOLERANCE_MS

Drawn == {"ok", "4xx", "5xx", "err"}
ASSUME RequestAssumption ==
  /\ Order \in Seq(Nat \ {0}) /\ Order # <<>>
  /\ Ms \in Nat \ {0} /\ Lossy \subseteq Nat \ {0}
  /\ OwnTimes \subseteq Nat /\ Threshold \in [ToSet(Order) -> Nat]
  /\ Retries \in Nat /\ Backoff \in Nat
  /\ Classes \subseteq Drawn /\ Mask \subseteq Drawn \cup {"slow"}
  /\ Propagates \in [1 .. 3 -> SUBSET Drawn]
  /\ Skews \subseteq Int /\ SkewTolerance \in Nat

\* reachable_from gives each endpoint once and a callee after its callers.
ASSUME TopologicalOrder ==
  /\ \A i, j \in DOMAIN Order : Order[i] = Order[j] => i = j
  /\ Calls \in Seq(Nat \X Nat)
  /\ \A e \in DOMAIN Calls, i \in DOMAIN Order : Order[i] = Calls[e][1] =>
       \E j \in DOMAIN Order : i < j /\ Order[j] = Calls[e][2]

\* An endpoint has a service, and no two lines have one id.
ASSUME LinesAreTold ==
  /\ \A v \in ToSet(Order) : ServiceOf[v] \in Nat
  /\ \A g, h \in ToSet(Order) \X (1 .. Retries + 1) :
       SpanIdOf[g] \in Nat /\ (SpanIdOf[g] = SpanIdOf[h] => g = h)

Root == Order[1]
EndpointsOf == ToSet(Order)
Severity(out) == CASE out = "4xx" -> 1 [] out = "5xx" -> 2 [] out = "err" -> 3 [] OTHER -> 0

VARIABLES
  pc,          \* what comes next for the request
  at,          \* the position in Order of the endpoint it comes for
  caller,      \* of each endpoint invoked so far, the endpoint whose call it is
  worst,       \* the worst callee severity that reached the current endpoint
  attempts,    \* of each endpoint, its attempts
  start,       \* when each endpoint is first called
  lines,       \* the access lines, by the endpoint and the attempt they are of
  clientTs,    \* the stamp of a client error tagged with the request, or None
  parent       \* the inferred parent of each line

vars == <<pc, at, caller, worst, attempts, start, lines, clientTs, parent>>
None == -1
NoSpan == <<None, None>>

Invoked == DOMAIN caller
EdgesFrom(v) == {e \in DOMAIN Calls : Calls[e][1] = v}
EdgesTo(v) == {e \in DOMAIN Calls : Calls[e][2] = v}

Init ==
  /\ pc = "invoke" /\ at = 2
  /\ caller = [v \in {Root} |-> None]
  /\ worst = None
  /\ attempts = [v \in EndpointsOf |-> <<>>]
  /\ start = <<>> /\ lines = <<>> /\ clientTs = None /\ parent = <<>>

-----------------------------------------------------------------------------
(***************************************************************************)
(* The engine: _evaluate_tree.                                             *)
(***************************************************************************)
\* An endpoint is invoked through every call made by an invoked caller; the first
\* of these calls, by index, is the one it is recorded under.
Invoke ==
  /\ pc = "invoke" /\ at <= Len(Order)
  /\ LET v == Order[at]
         offered == {e \in EdgesTo(v) : Calls[e][1] \in Invoked}
     IN \E made \in SUBSET offered :
          /\ offered \ Optional \subseteq made
          /\ caller' = IF made = {} THEN caller
                       ELSE [w \in Invoked \cup {v} |-> IF w = v THEN Calls[Min(made)][1] ELSE caller[w]]
  /\ at' = at + 1
  /\ UNCHANGED <<pc, worst, attempts, start, lines, clientTs, parent>>

StartEvaluating ==
  /\ pc = "invoke" /\ at > Len(Order)
  /\ pc' = "evaluate" /\ at' = Len(Order)
  /\ UNCHANGED <<caller, worst, attempts, start, lines, clientTs, parent>>

Total(v) == SumFunction([k \in DOMAIN attempts[v] |-> attempts[v][k].total])
Final(v) == IF attempts[v] = <<>> THEN "absent" ELSE Last(attempts[v]).out

\* Mutant: of a callee that was tried again only the last attempt counts.
CalleeTime_LastAttempt(v) ==
  SumFunction([e \in EdgesFrom(v) |-> LET tries == attempts[Calls[e][2]] IN
                                      IF tries = <<>> THEN 0 ELSE Last(tries).total])

\* The time of all callees that have an outcome, whoever invoked them.
CalleeTime(v) == SumFunction([e \in EdgesFrom(v) |-> Total(Calls[e][2])])

\* Each critical call passes its callee's failure on, or does not; once for all attempts.
Failing(v) == {e \in EdgesFrom(v) \cap Critical : Severity(Final(Calls[e][2])) > 0}
WorstOf(v) == {Max({0} \cup {Severity(Final(Calls[e][2])) : e \in passed}) : passed \in SUBSET Failing(v)}

Masked(class) == IF class \in Mask THEN class ELSE "ok"
\* Mutant: an attempt that takes exactly the threshold is slow.
OutcomeFor_AtThreshold(v, class, total) ==
  IF Masked(class) = "ok" /\ "slow" \in Mask /\ total >= Threshold[v] THEN "slow" ELSE Masked(class)

\* Slow is drawn from the exact time, before any rounding.
OutcomeFor(v, class, total) ==
  IF Masked(class) = "ok" /\ "slow" \in Mask /\ total > Threshold[v] THEN "slow" ELSE Masked(class)

MaxAttempts(v) == IF v = Root THEN 1 ELSE Retries + 1
MayAttempt(v) == IF attempts[v] = <<>> THEN v \in Invoked
                 ELSE Final(v) \in RetryOn /\ Len(attempts[v]) < MaxAttempts(v)

\* The BFF refuses a session whose authorisation has expired, whatever its callees did.
Refused(v) == IF v = Root THEN Classes \cap {"4xx"} ELSE {}

\* The first attempt waits for the callees, a retry only for the pause before it.
Attempt ==
  /\ pc = "evaluate" /\ at >= 1
  /\ LET v == Order[at]
         waited == IF attempts[v] = <<>> THEN CalleeTime(v) ELSE Backoff
     IN /\ MayAttempt(v)
        /\ worst' \in (IF worst = None THEN WorstOf(v) ELSE {worst})
        /\ \E own \in OwnTimes :
           \E class \in (IF worst' = 0 THEN Classes ELSE Propagates[worst']) \cup Refused(v) :
             attempts' = [attempts EXCEPT ![v] = Append(@,
               [own |-> own, total |-> own + waited, out |-> OutcomeFor(v, class, own + waited)])]
  /\ UNCHANGED <<pc, at, caller, start, lines, clientTs, parent>>

\* The endpoint was not invoked, or its last attempt is not retried.
Settle ==
  /\ pc = "evaluate" /\ at >= 1
  /\ Order[at] \in Invoked => attempts[Order[at]] # <<>>
  /\ at' = at - 1 /\ worst' = None
  /\ UNCHANGED <<pc, caller, attempts, start, lines, clientTs, parent>>

\* Callees are called one after another, in edge order, from half the caller's own time.
Own(v) == {e \in EdgesFrom(v) : Calls[e][2] \in Invoked /\ caller[Calls[e][2]] = v}
Wait(v, e) == SumFunction([x \in {y \in Own(v) : y < e} |-> Total(Calls[x][2])])
FirstCall(v) == CHOOSE e \in Own(caller[v]) : Calls[e][2] = v

Time ==
  /\ pc = "evaluate" /\ at = 0
  /\ LET T[v \in Invoked] ==
           IF v = Root THEN 0
           ELSE LET u == caller[v] IN
                attempts[u][1].own \div 2 + Wait(u, FirstCall(v)) + T[u]
     IN start' = T
  /\ pc' = "emit"
  /\ UNCHANGED <<at, caller, worst, attempts, lines, clientTs, parent>>

\* Whole milliseconds: astype(int64) truncates, rint rounds a half to the even neighbour.
Floor(t) == t \div Ms
Rint(t) ==
  LET whole == Floor(t)
      over == 2 * (t - Ms * whole)
  IN IF over > Ms \/ (over = Ms /\ whole % 2 = 1) THEN whole + 1 ELSE whole

\* An attempt of an endpoint; a retry begins when the attempts before it have ended.
\* The first start is truncated; the time before a retry and the attempt's own are
\* rounded, each apart.
Hops == {h \in EndpointsOf \X (1 .. Retries + 1) : h[2] \in DOMAIN attempts[h[1]]}
Before(h) == SumFunction([k \in 1 .. h[2] - 1 |-> attempts[h[1]][k].total])
Duration(h) == Rint(attempts[h[1]][h[2]].total)
HopStart(h) == Floor(start[h[1]]) + Rint(Before(h))
HopEnd(h) == HopStart(h) + Duration(h)
ParentHop(h) == <<caller[h[1]], 1>>

-----------------------------------------------------------------------------
(***************************************************************************)
(* The access lines: stamped at completion by the pod's clock, with the    *)
(* time taken, the address of the caller's service and no parent.          *)
(***************************************************************************)
Status(out) == IF out \in {"ok", "slow"} THEN "2xx" ELSE out

LineOf(h, skew) ==
  LET a == attempts[h[1]][h[2]] IN
  [id |-> SpanIdOf[h], op |-> h[1], service |-> ServiceOf[h[1]],
   client |-> IF h[1] = Root THEN None ELSE ServiceOf[caller[h[1]]],
   end |-> HopEnd(h) + skew, time |-> Duration(h), status |-> Status(a.out)]

\* A client error carries the request's id when the BFF failed and the client tags it.
CLIENT_DELAY == 40
Emit ==
  /\ pc = "emit"
  /\ \E late \in UNION {kSubset(n, Hops) : n \in 0 .. MaxSkewed}, skew \in Skews :
       /\ lines' = [h \in Hops |-> LineOf(h, IF h \in late THEN skew ELSE 0)]
       /\ late = {} <=> skew = 0
  /\ clientTs' \in {None} \cup {HopEnd(<<Root, 1>>) + CLIENT_DELAY :
                                  x \in {Final(Root)} \cap {"4xx", "5xx", "err"}}
  /\ pc' = "trees"
  /\ UNCHANGED <<at, caller, worst, attempts, start, parent>>

-----------------------------------------------------------------------------
(***************************************************************************)
(* The correlator: build_trees, build_spans and the row of a view.         *)
(***************************************************************************)
\* request_time is written in seconds to three places, read as a double and truncated
\* to milliseconds, which loses one where the double lies below the decimal.
RequestTime(l) == IF l.time \in Lossy THEN l.time - 1 ELSE l.time
LineStart(l) == l.end - RequestTime(l)
IsEdge(h) == lines[h].client = None
Edge == CHOOSE h \in DOMAIN lines : IsEdge(h)

\* How far a line sticks out of another.
Over(n) == IF n > 0 THEN n ELSE 0
Violation(h, c) == Over(LineStart(lines[c]) - LineStart(lines[h])) + Over(lines[h].end - lines[c].end)

\* Mutant: a violation of exactly the tolerance is refused.
CandidatesOf_Strict(h) == {c \in DOMAIN lines \ {h} : /\ lines[c].service = lines[h].client
                                                     /\ Violation(h, c) < SkewTolerance}

CandidatesOf(h) == {c \in DOMAIN lines \ {h} : /\ lines[c].service = lines[h].client
                                              /\ Violation(h, c) <= SkewTolerance}
Lexicographic(s, t) == \E i \in DOMAIN s : s[i] < t[i] /\ \A j \in 1 .. i - 1 : s[j] = t[j]
Tighter(h, c, d) == Lexicographic(<<Violation(h, c), RequestTime(lines[c]), lines[c].id>>,
                                  <<Violation(h, d), RequestTime(lines[d]), lines[d].id>>)
InferredParent(h) ==
  IF IsEdge(h) THEN NoSpan
  ELSE IF CandidatesOf(h) = {} THEN Edge
  ELSE CHOOSE c \in CandidatesOf(h) : \A d \in CandidatesOf(h) \ {c} : Tighter(h, c, d)

BuildTrees ==
  /\ pc = "trees"
  /\ parent' = [h \in DOMAIN lines |-> InferredParent(h)]
  /\ pc' = "done"
  /\ UNCHANGED <<at, caller, worst, attempts, start, lines, clientTs>>

Next == Invoke \/ StartEvaluating \/ Attempt \/ Settle \/ Time \/ Emit \/ BuildTrees
Spec == Init /\ [][Next]_vars

\* outcome_of: from the status and the time, as the line shows them.
OutcomeOf(l) == IF l.status # "2xx" THEN l.status
                ELSE IF Ms * RequestTime(l) > Threshold[l.op] THEN "slow" ELSE "ok"

\* The spans of the request's row: its lines, and the client's record, which becomes
\* the parent of the edge.
Client == <<0, 1>>
Spans == DOMAIN lines \cup {Client : x \in {clientTs} \ {None}}
SpanParent(s) == IF s = Client THEN NoSpan
                 ELSE IF s = Edge THEN (IF clientTs = None THEN NoSpan ELSE Client) ELSE parent[s]
SpanStart(s) == IF s = Client THEN LineStart(lines[Edge]) - 1 ELSE LineStart(lines[s])
SpanEnd(s) == IF s = Client THEN clientTs ELSE lines[s].end
SpanId(s) == IF s = Client THEN 0 ELSE lines[s].id

\* _rows_for: ties are broken by containment, then by depth under the inferred links.
Depths ==
  LET D[n \in Nat] == IF n = 0 THEN {s \in Spans : SpanParent(s) = NoSpan}
                      ELSE {s \in Spans : SpanParent(s) \in D[n - 1]}
  IN [s \in Spans |-> CHOOSE n \in 0 .. Cardinality(Spans) : s \in D[n]]

\* Mutant: equal stamps fall back on the id at once.
RowBefore_NoDepth(ordering, s, t) ==
  IF ordering = "end" THEN Lexicographic(<<SpanEnd(s), SpanId(s)>>, <<SpanEnd(t), SpanId(t)>>)
  ELSE Lexicographic(<<SpanStart(s), SpanId(s)>>, <<SpanStart(t), SpanId(t)>>)

RowBefore(ordering, s, t) ==
  LET depth == Depths
      Key(x) == IF ordering = "end" THEN <<SpanEnd(x), -SpanStart(x), -depth[x], SpanId(x)>>
                ELSE <<SpanStart(x), -SpanEnd(x), depth[x], SpanId(x)>>
  IN Lexicographic(Key(s), Key(t))

-----------------------------------------------------------------------------
(***************************************************************************)
(* Properties.                                                             *)
(***************************************************************************)
TypeOK ==
  /\ pc \in {"invoke", "evaluate", "emit", "trees", "done"} /\ at \in 0 .. Len(Order) + 1
  /\ Root \in Invoked /\ Invoked \subseteq EndpointsOf
  /\ \A v \in EndpointsOf : Len(attempts[v]) <= MaxAttempts(v) /\ (attempts[v] # <<>> => v \in Invoked)
  /\ DOMAIN lines \subseteq Hops /\ DOMAIN parent \subseteq Hops

\* What the tree inference and the row orders take for granted, as far as the emitted
\* milliseconds keep it: a caller starts no later than its callees, retries included;
\* a callee's first attempt ends at most one millisecond after its caller, a retry at
\* most two; and of two callees of a caller, one's last attempt ends at most one after
\* the other's start.
LastHop(v) == <<v, Len(attempts[v])>>
ChildInsideCaller ==
  pc = "emit" =>
    /\ \A h \in Hops : h[1] # Root =>
         /\ HopStart(ParentHop(h)) <= HopStart(h)
         /\ HopEnd(h) <= HopEnd(ParentHop(h)) + (IF h[2] = 1 THEN 1 ELSE 2)
    /\ \A v, w \in Invoked \ {Root} : v # w /\ caller[v] = caller[w] =>
         \/ HopEnd(LastHop(v)) <= HopStart(<<w, 1>>) + 1
         \/ HopEnd(LastHop(w)) <= HopStart(<<v, 1>>) + 1

\* With clocks that differ by no more than the tolerance less what rounding needs, a
\* line is hung under a line of the service that called it, never under the
\* edge for want of one; under its true caller when that service has no other line.
TrueCallerFound ==
  pc = "done" => \A h \in DOMAIN lines : h[1] # Root =>
    /\ lines[parent[h]].service = lines[ParentHop(h)].service
    /\ Cardinality({c \in DOMAIN lines : lines[c].service = lines[h].client}) = 1
         => parent[h] = ParentHop(h)

\* The token a view shows of a hop is the outcome the engine drew for it, but that the
\* one drew slow from the exact time and the other reads it off whole milliseconds: a
\* slow hop may read ok within a millisecond and a half above its threshold, and an ok
\* one slow within half a millisecond of it.
OutcomesRecovered ==
  pc = "done" => \A h \in DOMAIN lines :
    LET a == attempts[h[1]][h[2]]
        shown == OutcomeOf(lines[h])
        beyond == 2 * (a.total - Threshold[h[1]])
    IN \/ shown = a.out
       \/ a.out = "slow" /\ shown = "ok" /\ 0 < beyond /\ beyond <= 3 * Ms
       \/ a.out = "ok" /\ shown = "slow" /\ beyond <= 0 /\ -beyond < Ms

\* With true clocks, a span sticks out of its parent by at most two milliseconds, what
\* rounding can make; and one that does not stick out precedes its parent in the row
\* ordered by end and follows it in the row ordered by start, equal stamps included.
TrueClocks == \A h \in DOMAIN lines : lines[h].end = HopEnd(h)
Inversion(s) == LET p == SpanParent(s) IN
  Over(SpanStart(p) - SpanStart(s)) + Over(SpanEnd(s) - SpanEnd(p))
ViewsAreCausal ==
  pc = "done" /\ TrueClocks => \A s \in Spans : SpanParent(s) # NoSpan =>
    /\ Inversion(s) <= 2
    /\ Inversion(s) = 0 =>
         RowBefore("end", s, SpanParent(s)) /\ RowBefore("start", SpanParent(s), s)
=============================================================================
