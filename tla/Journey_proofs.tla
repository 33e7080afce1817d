---------------------------- MODULE Journey_proofs ----------------------------
(***************************************************************************)
(* Theorems about Journey, for any sessions, scenarios, outcomes, devices  *)
(* and times.                                                              *)
(***************************************************************************)
EXTENDS Journey, FiniteSetTheorems, TLAPS

N == Len(requests)

(***************************************************************************)
(* The rows of a shard, and the step and attempt under way.                *)
(***************************************************************************)
\* Every request row is the request of one client row and has its session, step and
\* attempt, which the scenario has.
RowsInv ==
  /\ \E S : requests \in Seq(S) /\ clients \in Seq(S)
  /\ Len(clients) = N
  /\ \A r \in 1 .. N :
       /\ requests[r].gid \in Sessions /\ requests[r].start \in Nat
       /\ requests[r].step \in Nat /\ requests[r].step < NumSteps(requests[r].gid)
       /\ requests[r].attempt \in 0 .. MaxRetries[scenario[requests[r].gid]]
       /\ requests[r].reqGid = ReqGid(requests[r].gid, requests[r].step, requests[r].attempt)
       /\ \E c \in 1 .. N : clients[c].row = r
  /\ \A c \in 1 .. N :
       /\ clients[c].row \in 1 .. N /\ clients[c].ts \in Nat
       /\ clients[c].gid = requests[clients[c].row].gid
       /\ clients[c].step = requests[clients[c].row].step
       /\ clients[c].attempt = requests[clients[c].row].attempt
       /\ \A d \in 1 .. N : clients[d].row = clients[c].row => d = c

TypeInv ==
  /\ pc \in {"step", "attempt", "emit", "gather", "propagate", "attribute", "done"}
  /\ scenario \in [Sessions -> Scenarios] /\ j \in Nat /\ k \in Nat
  /\ active \subseteq Sessions /\ clock \in [Sessions -> Nat] /\ stepsDone \in [Sessions -> Nat]
  /\ pc = "attempt" => /\ due = {g \in active : NumSteps(g) > j} /\ idx \subseteq due /\ stepOk \subseteq due
                       /\ \A g \in idx : k <= MaxRetries[scenario[g]]

\* A session's rows are behind its clock, and it tries again only what failed.
FrontierInv ==
  \A c \in 1 .. N :
    /\ pc \in {"step", "attempt"} => clients[c].ts <= clock[clients[c].gid]
    /\ pc = "step" => clients[c].step < j
    /\ pc = "attempt" => /\ clients[c].step <= j
                         /\ clients[c].step = j =>
                              clients[c].attempt < k /\ (clients[c].gid \in idx => clients[c].retried)

OrderInv ==
  /\ \A c, q \in 1 .. N : clients[c].gid = requests[q].gid /\ clients[c].row < q =>
       /\ clients[c].ts <= requests[q].start
       /\ clients[c].step = requests[q].step => clients[c].retried
       /\ clients[c].step <= requests[q].step
  /\ \A q, r \in 1 .. N : <<requests[q].gid, requests[q].step, requests[q].attempt>>
                            = <<requests[r].gid, requests[r].step, requests[r].attempt>> => q = r

\* A session's journey goes on while each of its steps had an attempt that went well.
WentWell(g, s) == \E c \in 1 .. N : clients[c].gid = g /\ clients[c].step = s /\ ~clients[c].err
ActiveInv ==
  /\ pc \in {"step", "attempt"} => \A g \in Sessions :
       /\ g \in active <=> \A s \in 0 .. j - 1 : s < NumSteps(g) => WentWell(g, s)
       /\ g \in active => stepsDone[g] = IF j <= NumSteps(g) THEN j ELSE NumSteps(g)
  /\ pc = "attempt" => \A g \in due : g \in stepOk <=> WentWell(g, j)
  /\ pc \notin {"step", "attempt"} => \A g \in Sessions :
       g \in finalOk <=> \A s \in 0 .. NumSteps(g) - 1 : WentWell(g, s)

JourneyInv == TypeInv /\ RowsInv /\ FrontierInv /\ OrderInv /\ ActiveInv

LEMMA NumStepsType ==
  ASSUME scenario \in [Sessions -> Scenarios], NEW g \in Sessions
  PROVE  NumSteps(g) \in Nat /\ MaxRetries[scenario[g]] \in Nat
<1>1. Steps \in [Scenarios -> Seq(Nat)] /\ MaxRetries \in [Scenarios -> Nat]
  BY JourneyAssumption
<1> QED
  BY <1>1 DEF NumSteps

LEMMA JourneyInit == Init => JourneyInv
<1> SUFFICES ASSUME Init PROVE JourneyInv
  OBVIOUS
<1>1. N = 0 /\ Len(clients) = 0 /\ requests \in Seq({}) /\ clients \in Seq({})
  BY DEF Init, N
<1>2. TypeInv
  BY DEF Init, TypeInv
<1>3. RowsInv
  BY <1>1 DEF RowsInv
<1>4. FrontierInv /\ OrderInv
  BY <1>1 DEF FrontierInv, OrderInv
<1>5. ActiveInv
  <2>1. \A g \in Sessions : 0 <= NumSteps(g)
    BY NumStepsType DEF Init
  <2> QED
    BY <2>1 DEF Init, ActiveInv
<1> QED
  BY <1>2, <1>3, <1>4, <1>5 DEF JourneyInv

\* Rows that are added at the end leave the others where they are.
LEMMA Appended ==
  ASSUME NEW S, NEW s \in Seq(S), NEW n \in Nat, NEW f, f = [i \in 1 .. n |-> f[i]]
  PROVE  /\ \E T : s \o f \in Seq(S \cup T)
         /\ Len(s \o f) = Len(s) + n
         /\ \A i \in 1 .. Len(s) : (s \o f)[i] = s[i]
         /\ \A i \in 1 .. n : (s \o f)[Len(s) + i] = f[i]
<1> DEFINE T == {f[i] : i \in 1 .. n}
<1>1. f \in Seq(T) /\ Len(f) = n
  <2>1. f \in [1 .. n -> T]
    <3>1. \A i \in 1 .. n : f[i] \in T
      OBVIOUS
    <3> HIDE DEF T
    <3> QED
      BY <3>1
  <2> HIDE DEF T
  <2> QED
    BY <2>1
<1> HIDE DEF T
<1>2. s \in Seq(S \cup T) /\ f \in Seq(S \cup T)
  BY <1>1
<1>3. s \o f \in Seq(S \cup T)
  BY <1>2
<1>4. Len(s) \in Nat /\ Len(s \o f) = Len(s) + n
  BY <1>1
<1>5. \A i \in 1 .. Len(s) : (s \o f)[i] = s[i]
  BY <1>1, <1>2
<1>6. \A i \in 1 .. n : (s \o f)[Len(s) + i] = f[i]
  BY <1>1, <1>2, <1>4
<1> QED
  BY <1>3, <1>4, <1>5, <1>6

LEMMA AttemptKeeps ==
  ASSUME JourneyInv, Attempt
  PROVE  JourneyInv'
<1> DEFINE n == Cardinality(idx)
<1>1. /\ pc = "attempt" /\ pc' = "attempt" /\ k' = k + 1
      /\ UNCHANGED <<scenario, j, due, active, stepsDone, finalOk>>
      /\ scenario \in [Sessions -> Scenarios] /\ j \in Nat /\ k \in Nat /\ N \in Nat
      /\ idx \subseteq due /\ due \subseteq active /\ active \subseteq Sessions /\ stepOk \subseteq due
      /\ due = {g \in active : NumSteps(g) > j} /\ \A g \in idx : k <= MaxRetries[scenario[g]]
      /\ clock \in [Sessions -> Nat]
  <2>1. TypeInv /\ RowsInv
    BY DEF JourneyInv
  <2>2. N \in Nat
    BY <2>1 DEF RowsInv, N
  <2> QED
    BY <2>1, <2>2 DEF Attempt, TypeInv
<1>2. n \in Nat /\ Sessions \subseteq Nat /\ Durations \subseteq Nat /\ idx \subseteq Sessions
  <2>1. IsFiniteSet(Sessions) /\ idx \subseteq Sessions /\ Sessions \subseteq Nat /\ Durations \subseteq Nat
    BY <1>1, JourneyAssumption
  <2> QED
    BY <2>1, FS_Subset, FS_CardinalityType
<1>3. PICK out \in [idx -> {"ok"} \cup UNION {MaskFor(g) : g \in idx}], took \in Durations,
           order \in Evaluated, clientOrder \in InOrder :
     \E err \in SUBSET {g \in idx : out[g] \in Failures \/ g \in Flaky} :
     \E again \in SUBSET {g \in err : out[g] \in RetryOn[scenario[g]] /\ MaxRetries[scenario[g]] > k} :
       /\ \A g \in idx : out[g] \in MaskFor(g) \cup {"ok"}
       /\ requests' = requests \o [i \in 1 .. n |->
            LET g == order[i] IN
            [reqGid |-> ReqGid(g, j, k), gid |-> g, step |-> j, attempt |-> k, bff |-> BffOp(g),
             start |-> clock[g], end |-> clock[g] + took, outcome |-> out[g]]]
       /\ clients' = clients \o [i \in 1 .. n |->
            LET g == clientOrder[i] IN
            [gid |-> g, step |-> j, attempt |-> k, row |-> RequestRow(order, g),
             ts |-> clock[g] + took + ClientDelay, err |-> g \in err, retried |-> g \in again]]
       /\ clock' = [g \in Sessions |-> IF g \in idx THEN clock[g] + took + Backoff ELSE clock[g]]
       /\ stepOk' = stepOk \cup (idx \ err)
       /\ idx' = again
  BY DEF Attempt
<1>3a. PICK err \in SUBSET {g \in idx : out[g] \in Failures \/ g \in Flaky} :
     \E again \in SUBSET {g \in err : out[g] \in RetryOn[scenario[g]] /\ MaxRetries[scenario[g]] > k} :
       /\ \A g \in idx : out[g] \in MaskFor(g) \cup {"ok"}
       /\ requests' = requests \o [i \in 1 .. n |->
            LET g == order[i] IN
            [reqGid |-> ReqGid(g, j, k), gid |-> g, step |-> j, attempt |-> k, bff |-> BffOp(g),
             start |-> clock[g], end |-> clock[g] + took, outcome |-> out[g]]]
       /\ clients' = clients \o [i \in 1 .. n |->
            LET g == clientOrder[i] IN
            [gid |-> g, step |-> j, attempt |-> k, row |-> RequestRow(order, g),
             ts |-> clock[g] + took + ClientDelay, err |-> g \in err, retried |-> g \in again]]
       /\ clock' = [g \in Sessions |-> IF g \in idx THEN clock[g] + took + Backoff ELSE clock[g]]
       /\ stepOk' = stepOk \cup (idx \ err)
       /\ idx' = again
  BY <1>3
<1>4. PICK again \in SUBSET {g \in err : out[g] \in RetryOn[scenario[g]] /\ MaxRetries[scenario[g]] > k} :
       /\ \A g \in idx : out[g] \in MaskFor(g) \cup {"ok"}
       /\ requests' = requests \o [i \in 1 .. n |->
            LET g == order[i] IN
            [reqGid |-> ReqGid(g, j, k), gid |-> g, step |-> j, attempt |-> k, bff |-> BffOp(g),
             start |-> clock[g], end |-> clock[g] + took, outcome |-> out[g]]]
       /\ clients' = clients \o [i \in 1 .. n |->
            LET g == clientOrder[i] IN
            [gid |-> g, step |-> j, attempt |-> k, row |-> RequestRow(order, g),
             ts |-> clock[g] + took + ClientDelay, err |-> g \in err, retried |-> g \in again]]
       /\ clock' = [g \in Sessions |-> IF g \in idx THEN clock[g] + took + Backoff ELSE clock[g]]
       /\ stepOk' = stepOk \cup (idx \ err)
       /\ idx' = again
  BY <1>3a
<1>5. /\ DOMAIN order = 1 .. n /\ \A i \in 1 .. n : order[i] \in idx
      /\ \A g \in idx : \E i \in 1 .. n : order[i] = g
      /\ \A a, b \in 1 .. n : order[a] = order[b] => a = b
  <2>1. /\ DOMAIN order = 1 .. n /\ \A i \in 1 .. n : order[i] \in idx
        /\ \A g \in idx : \E i \in 1 .. n : order[i] = g
        /\ \A a, b \in 1 .. n : a < b => Rank(order[a], order[b])
    BY DEF Evaluated, Enumerations
  <2>2. \A g \in idx : BffOp(g) \in Nat /\ g \in Nat
    <3>1. Steps \in [Scenarios -> Seq(Nat)]
      BY JourneyAssumption
    <3>2. ASSUME NEW g \in idx PROVE Steps[scenario[g]] \in Seq(Nat) /\ j + 1 \in 1 .. Len(Steps[scenario[g]])
      BY <1>1, <3>1 DEF NumSteps
    <3> QED
      BY <1>1, <1>2, <3>2 DEF BffOp
  <2>3. \A g \in idx : ~Rank(g, g)
    BY <2>2 DEF Rank
  <2> HIDE DEF n
  <2>4. ASSUME NEW a \in 1 .. n, NEW b \in 1 .. n, order[a] = order[b] PROVE a = b
    <3>1. a < b \/ b < a \/ a = b
      OBVIOUS
    <3> QED
      BY <2>1, <2>3, <2>4, <3>1
  <2> QED
    BY <2>1, <2>4
<1>6. /\ DOMAIN clientOrder = 1 .. n /\ \A i \in 1 .. n : clientOrder[i] \in idx
      /\ \A g \in idx : \E i \in 1 .. n : clientOrder[i] = g
      /\ \A a, b \in 1 .. n : clientOrder[a] = clientOrder[b] => a = b
  <2>1. /\ DOMAIN clientOrder = 1 .. n /\ \A i \in 1 .. n : clientOrder[i] \in idx
        /\ \A g \in idx : \E i \in 1 .. n : clientOrder[i] = g
        /\ \A a, b \in 1 .. n : a < b => clientOrder[a] < clientOrder[b]
    BY DEF InOrder, Enumerations
  <2>2. \A g \in idx : ~(g < g)
    <3>1. \A g \in Nat : ~(g < g)
      OBVIOUS
    <3> QED
      BY <1>2, <3>1
  <2> HIDE DEF n
  <2>3. ASSUME NEW a \in 1 .. n, NEW b \in 1 .. n, clientOrder[a] = clientOrder[b] PROVE a = b
    <3>1. a < b \/ b < a \/ a = b
      OBVIOUS
    <3> QED
      BY <2>1, <2>2, <2>3, <3>1
  <2> QED
    BY <2>1, <2>3
<1> HIDE DEF n
<1> DEFINE req == [i \in 1 .. n |->
            LET g == order[i] IN
            [reqGid |-> ReqGid(g, j, k), gid |-> g, step |-> j, attempt |-> k, bff |-> BffOp(g),
             start |-> clock[g], end |-> clock[g] + took, outcome |-> out[g]]]
           cli == [i \in 1 .. n |->
            LET g == clientOrder[i] IN
            [gid |-> g, step |-> j, attempt |-> k, row |-> RequestRow(order, g),
             ts |-> clock[g] + took + ClientDelay, err |-> g \in err, retried |-> g \in again]]
<1>7. PICK S : requests \in Seq(S) /\ clients \in Seq(S)
  BY DEF JourneyInv, RowsInv
<1>8. /\ \E T : requests' \in Seq(T) /\ clients' \in Seq(T)
      /\ N' = N + n /\ Len(clients') = N + n
      /\ \A q \in 1 .. N : requests'[q] = requests[q] /\ clients'[q] = clients[q]
      /\ \A i \in 1 .. n : requests'[N + i] = req[i] /\ clients'[N + i] = cli[i]
  <2>1. req = [i \in 1 .. n |-> req[i]] /\ cli = [i \in 1 .. n |-> cli[i]]
    OBVIOUS
  <2>2. requests' = requests \o req /\ clients' = clients \o cli
    BY <1>4
  <2> HIDE DEF req, cli
  <2>3. PICK T : requests' \in Seq(S \cup T)
    BY <1>2, <1>7, <2>1, <2>2, Appended
  <2>4. PICK U : clients' \in Seq(S \cup U)
    BY <1>2, <1>7, <2>1, <2>2, Appended
  <2>5. requests' \in Seq(S \cup T \cup U) /\ clients' \in Seq(S \cup T \cup U)
    BY <2>3, <2>4
  <2>6. Len(clients) = N
    BY DEF JourneyInv, RowsInv
  <2>7. /\ Len(requests') = Len(requests) + n
        /\ \A i \in 1 .. Len(requests) : requests'[i] = requests[i]
        /\ \A i \in 1 .. n : requests'[Len(requests) + i] = req[i]
    BY <1>2, <1>7, <2>1, <2>2, Appended
  <2>8. /\ Len(clients') = Len(clients) + n
        /\ \A i \in 1 .. Len(clients) : clients'[i] = clients[i]
        /\ \A i \in 1 .. n : clients'[Len(clients) + i] = cli[i]
    BY <1>2, <1>7, <2>1, <2>2, Appended
  <2> QED
    BY <2>5, <2>6, <2>7, <2>8 DEF N
<1>9. \A q \in N + 1 .. N + n : \E i \in 1 .. n : q = N + i
  <2>1. \A q \in N + 1 .. N + n : q - N \in 1 .. n /\ q = N + (q - N)
    BY <1>1, <1>2
  <2> QED
    BY <2>1
<1>9a. \A i \in 1 .. n :
         /\ req[i].reqGid = ReqGid(order[i], j, k) /\ req[i].gid = order[i] /\ req[i].step = j
         /\ req[i].attempt = k /\ req[i].start = clock[order[i]]
         /\ cli[i].gid = clientOrder[i] /\ cli[i].step = j /\ cli[i].attempt = k
         /\ cli[i].row = RequestRow(order, clientOrder[i])
         /\ cli[i].ts = clock[clientOrder[i]] + took + ClientDelay
         /\ cli[i].err <=> clientOrder[i] \in err
         /\ cli[i].retried <=> clientOrder[i] \in again
  OBVIOUS
<1> HIDE DEF req, cli
\* The new request rows.
<1>10. \A q \in N + 1 .. N + n :
         /\ requests'[q].gid \in idx /\ requests'[q].step = j /\ requests'[q].attempt = k
         /\ requests'[q].start = clock[requests'[q].gid]
         /\ requests'[q].reqGid = ReqGid(requests'[q].gid, j, k)
  <2> SUFFICES ASSUME NEW i \in 1 .. n
               PROVE  /\ requests'[N + i].gid \in idx /\ requests'[N + i].step = j
                      /\ requests'[N + i].attempt = k
                      /\ requests'[N + i].start = clock[requests'[N + i].gid]
                      /\ requests'[N + i].reqGid = ReqGid(requests'[N + i].gid, j, k)
    BY <1>9
  <2> QED
    BY <1>5, <1>8, <1>9a
<1>11. \A q, r \in N + 1 .. N + n : requests'[q].gid = requests'[r].gid => q = r
  <2>1. \A i \in 1 .. n : requests'[N + i].gid = order[i]
    BY <1>8, <1>9a
  <2> QED
    BY <1>5, <1>9, <2>1
\* The new client rows.
<1>12. \A g \in idx : RequestRow(order, g) \in N + 1 .. N + n /\ requests'[RequestRow(order, g)].gid = g
  <2> SUFFICES ASSUME NEW g \in idx
               PROVE  RequestRow(order, g) \in N + 1 .. N + n /\ requests'[RequestRow(order, g)].gid = g
    OBVIOUS
  <2> DEFINE p == CHOOSE i \in DOMAIN order : order[i] = g
  <2>1. p \in 1 .. n /\ order[p] = g
    BY <1>5
  <2>2. RequestRow(order, g) = N + p
    BY DEF RequestRow, N
  <2>3. requests'[N + p].gid = order[p]
    BY <1>8, <1>9a, <2>1
  <2> HIDE DEF p
  <2> QED
    BY <1>1, <1>2, <2>1, <2>2, <2>3
<1>13. \A c \in N + 1 .. N + n :
         /\ clients'[c].gid \in idx /\ clients'[c].step = j /\ clients'[c].attempt = k
         /\ clients'[c].row \in N + 1 .. N + n /\ requests'[clients'[c].row].gid = clients'[c].gid
         /\ clients'[c].ts = clock[clients'[c].gid] + took + ClientDelay
         /\ clients'[c].err <=> clients'[c].gid \in err
         /\ clients'[c].retried <=> clients'[c].gid \in again
  <2> SUFFICES ASSUME NEW i \in 1 .. n
               PROVE  /\ clients'[N + i].gid \in idx /\ clients'[N + i].step = j
                      /\ clients'[N + i].attempt = k /\ clients'[N + i].row \in N + 1 .. N + n
                      /\ requests'[clients'[N + i].row].gid = clients'[N + i].gid
                      /\ clients'[N + i].ts = clock[clients'[N + i].gid] + took + ClientDelay
                      /\ clients'[N + i].err <=> clients'[N + i].gid \in err
                      /\ clients'[N + i].retried <=> clients'[N + i].gid \in again
    BY <1>9
  <2> QED
    BY <1>6, <1>8, <1>9a, <1>12
<1>14. \A g \in idx : \E c \in N + 1 .. N + n : clients'[c].gid = g
  <2>1. \A i \in 1 .. n : N + i \in N + 1 .. N + n
    BY <1>1, <1>2
  <2>2. \A i \in 1 .. n : clients'[N + i].gid = clientOrder[i]
    BY <1>8, <1>9a
  <2> QED
    BY <1>6, <2>1, <2>2
<1>15. \A c, d \in N + 1 .. N + n : clients'[c].gid = clients'[d].gid => c = d
  <2>1. \A i \in 1 .. n : clients'[N + i].gid = clientOrder[i]
    BY <1>8, <1>9a
  <2> QED
    BY <1>6, <1>9, <2>1
<1>16. \A g \in Sessions : clock[g] \in Nat /\ clock'[g] \in Nat /\ clock[g] <= clock'[g]
  BY <1>1, <1>2, <1>4 DEF Backoff
<1>17. \A g \in idx : clock'[g] = clock[g] + took + Backoff
  BY <1>1, <1>4
<1>18. \A g : NumSteps(g)' = NumSteps(g)
  BY <1>1 DEF NumSteps
<1>19. TypeInv'
  <2>1. idx' \subseteq due /\ stepOk' \subseteq due
    BY <1>1, <1>4
  <2>2. \A g \in idx' : k + 1 <= MaxRetries[scenario[g]]
    <3>1. \A g \in idx' : g \in Sessions /\ MaxRetries[scenario[g]] > k
      BY <1>1, <1>4
    <3> QED
      BY <1>1, <3>1, NumStepsType
  <2>3. due' = {g \in active : NumSteps(g) > j}'
    BY <1>1, <1>18
  <2>4. clock' \in [Sessions -> Nat]
    BY <1>1, <1>2, <1>4 DEF Backoff
  <2> QED
    BY <1>1, <2>1, <2>2, <2>3, <2>4 DEF TypeInv, JourneyInv
<1>20. RowsInv'
  <2>1. ASSUME NEW r \in 1 .. N + n
        PROVE  /\ requests'[r].gid \in Sessions /\ requests'[r].start \in Nat
               /\ requests'[r].step \in Nat /\ requests'[r].step < NumSteps(requests'[r].gid)
               /\ requests'[r].attempt \in 0 .. MaxRetries[scenario[requests'[r].gid]]
               /\ requests'[r].reqGid = ReqGid(requests'[r].gid, requests'[r].step, requests'[r].attempt)
               /\ \E c \in 1 .. N + n : clients'[c].row = r
    <3>1. CASE r \in 1 .. N
      <4>1. requests'[r] = requests[r]
        BY <1>8, <3>1
      <4>2. PICK c \in 1 .. N : clients[c].row = r
        BY <3>1 DEF JourneyInv, RowsInv
      <4>3. c \in 1 .. N + n /\ clients'[c].row = r
        BY <1>1, <1>2, <1>8, <4>2
      <4> QED
        BY <3>1, <4>1, <4>3 DEF JourneyInv, RowsInv
    <3>2. CASE r \in N + 1 .. N + n
      <4> DEFINE g == requests'[r].gid
      <4>1. g \in idx /\ requests'[r].step = j /\ requests'[r].attempt = k
            /\ requests'[r].start = clock[g] /\ requests'[r].reqGid = ReqGid(g, j, k)
        BY <1>10, <3>2
      <4>2. PICK c \in N + 1 .. N + n : clients'[c].gid = g
        BY <1>14, <4>1
      <4>3. clients'[c].row = r
        BY <1>11, <1>13, <3>2, <4>2
      <4>4. c \in 1 .. N + n
        BY <1>1, <1>2
      <4>5. g \in Sessions /\ j < NumSteps(g) /\ k \in 0 .. MaxRetries[scenario[g]] /\ clock[g] \in Nat
        <5>1. g \in Sessions /\ NumSteps(g) > j /\ k <= MaxRetries[scenario[g]]
          BY <1>1, <4>1
        <5> QED
          BY <1>1, <1>16, <5>1, NumStepsType
      <4> HIDE DEF g
      <4> QED
        BY <1>1, <4>1, <4>3, <4>4, <4>5 DEF g
    <3> QED
      BY <1>1, <1>2, <3>1, <3>2
  <2>2. ASSUME NEW c \in 1 .. N + n
        PROVE  /\ clients'[c].row \in 1 .. N + n /\ clients'[c].ts \in Nat
               /\ clients'[c].gid = requests'[clients'[c].row].gid
               /\ clients'[c].step = requests'[clients'[c].row].step
               /\ clients'[c].attempt = requests'[clients'[c].row].attempt
               /\ \A d \in 1 .. N + n : clients'[d].row = clients'[c].row => d = c
    <3>1. ASSUME NEW d \in 1 .. N
          PROVE  clients'[d] = clients[d] /\ clients'[d].row \in 1 .. N
      BY <1>8 DEF JourneyInv, RowsInv
    <3>2. ASSUME NEW d \in N + 1 .. N + n PROVE ~(clients'[d].row \in 1 .. N)
      BY <1>1, <1>2, <1>13
    <3>3. CASE c \in 1 .. N
      <4>1. clients'[c] = clients[c] /\ requests'[clients[c].row] = requests[clients[c].row]
        <5>1. clients'[c] = clients[c] /\ clients[c].row \in 1 .. N
          BY <3>1, <3>3
        <5> QED
          BY <1>8, <5>1
      <4>2. \A d \in 1 .. N : clients'[d].row = clients'[c].row => d = c
        BY <3>1, <3>3 DEF JourneyInv, RowsInv
      <4>3. \A d \in N + 1 .. N + n : clients'[d].row # clients'[c].row
        BY <3>1, <3>2, <3>3
      <4>4. clients'[c].row \in 1 .. N + n
        BY <1>1, <1>2, <3>1, <3>3
      <4>5. \A d \in 1 .. N + n : clients'[d].row = clients'[c].row => d = c
        BY <1>1, <1>2, <4>2, <4>3
      <4>6. /\ clients[c].ts \in Nat /\ clients[c].gid = requests[clients[c].row].gid
            /\ clients[c].step = requests[clients[c].row].step
            /\ clients[c].attempt = requests[clients[c].row].attempt
        BY <3>3 DEF JourneyInv, RowsInv
      <4> QED
        BY <4>1, <4>4, <4>5, <4>6
    <3>4. CASE c \in N + 1 .. N + n
      <4>1. \A d \in 1 .. N : clients'[d].row # clients'[c].row
        BY <3>1, <3>2, <3>4
      <4>2. \A d \in N + 1 .. N + n : clients'[d].row = clients'[c].row => d = c
        BY <1>13, <1>15, <3>4
      <4>3. \A d \in 1 .. N + n : clients'[d].row = clients'[c].row => d = c
        BY <1>1, <1>2, <4>1, <4>2
      <4>4. clients'[c].ts \in Nat
        <5>1. clock[clients'[c].gid] \in Nat
          BY <1>1, <1>13, <1>16, <3>4
        <5> QED
          BY <1>2, <1>13, <3>4, <5>1 DEF ClientDelay
      <4>5. clients'[c].row \in 1 .. N + n
        BY <1>1, <1>2, <1>13, <3>4
      <4> QED
        BY <1>10, <1>13, <3>4, <4>3, <4>4, <4>5
    <3> QED
      BY <1>1, <1>2, <3>3, <3>4
  <2>3. \A g, x, y : ReqGid(g, x, y)' = ReqGid(g, x, y)
    BY DEF ReqGid
  <2> QED
    BY <1>1, <1>8, <1>18, <2>1, <2>2, <2>3 DEF RowsInv
<1>21. \A c \in 1 .. N : clients[c].gid \in Sessions /\ clients[c].step \in Nat /\ clients[c].ts \in Nat
                         /\ clients[c].attempt \in Int
  <2> SUFFICES ASSUME NEW c \in 1 .. N
               PROVE  clients[c].gid \in Sessions /\ clients[c].step \in Nat /\ clients[c].ts \in Nat
                      /\ clients[c].attempt \in Int
    OBVIOUS
  <2>1. /\ clients[c].row \in 1 .. N /\ clients[c].ts \in Nat
        /\ clients[c].gid = requests[clients[c].row].gid
        /\ clients[c].step = requests[clients[c].row].step
        /\ clients[c].attempt = requests[clients[c].row].attempt
    BY DEF JourneyInv, RowsInv
  <2>2. \A r \in 1 .. N : /\ requests[r].gid \in Sessions /\ requests[r].step \in Nat
                           /\ requests[r].attempt \in 0 .. MaxRetries[scenario[requests[r].gid]]
    BY DEF JourneyInv, RowsInv
  <2>3. requests[clients[c].row].attempt \in Int
    BY <2>1, <2>2
  <2> QED
    BY <2>1, <2>2, <2>3
<1>22. FrontierInv'
  <2> SUFFICES ASSUME NEW c \in 1 .. N + n
               PROVE  /\ clients'[c].ts <= clock'[clients'[c].gid]
                      /\ clients'[c].step <= j
                      /\ clients'[c].step = j =>
                           clients'[c].attempt < k + 1 /\ (clients'[c].gid \in idx' => clients'[c].retried)
    BY <1>1, <1>8 DEF FrontierInv
  <2>1. CASE c \in 1 .. N
    <3>1. clients'[c] = clients[c] /\ clients[c].gid \in Sessions /\ clients[c].ts \in Nat
          /\ clients[c].attempt \in Int
      BY <1>8, <1>21, <2>1
    <3>2. /\ clients[c].ts <= clock[clients[c].gid] /\ clients[c].step <= j
          /\ clients[c].step = j => clients[c].attempt < k /\ (clients[c].gid \in idx => clients[c].retried)
      BY <1>1, <2>1 DEF JourneyInv, FrontierInv
    <3>3. clients[c].ts <= clock'[clients[c].gid]
      BY <1>16, <3>1, <3>2
    <3>4. idx' \subseteq idx
      BY <1>4
    <3>5. clients[c].attempt < k => clients[c].attempt < k + 1
      BY <1>1, <3>1
    <3> QED
      BY <3>1, <3>2, <3>3, <3>4, <3>5
  <2>2. CASE c \in N + 1 .. N + n
    <3>1. clients'[c].ts <= clock'[clients'[c].gid]
      <4>1. clients'[c].gid \in idx /\ clock[clients'[c].gid] \in Nat
        BY <1>1, <1>13, <1>16, <2>2
      <4> QED
        <5>1. /\ clients'[c].ts = clock[clients'[c].gid] + took + ClientDelay
              /\ clock'[clients'[c].gid] = clock[clients'[c].gid] + took + Backoff
          BY <1>13, <1>17, <2>2, <4>1
        <5>2. took \in Nat
          BY <1>2
        <5>3. \A x \in Nat : x + took + ClientDelay <= x + took + Backoff
          BY <5>2 DEF ClientDelay, Backoff
        <5> QED
          BY <4>1, <5>1, <5>3
    <3>2. clients'[c].gid \in idx' => clients'[c].retried
      BY <1>4, <1>13, <2>2
    <3> QED
      BY <1>1, <1>13, <2>2, <3>1, <3>2
  <2> QED
    BY <1>1, <1>2, <2>1, <2>2
<1>23. OrderInv'
  <2>1. ASSUME NEW c \in 1 .. N + n, NEW q \in 1 .. N + n,
               clients'[c].gid = requests'[q].gid, clients'[c].row < q
        PROVE  /\ clients'[c].ts <= requests'[q].start
               /\ clients'[c].step = requests'[q].step => clients'[c].retried
               /\ clients'[c].step <= requests'[q].step
    <3>1. CASE c \in 1 .. N /\ q \in 1 .. N
      BY <1>8, <2>1, <3>1 DEF JourneyInv, OrderInv
    <3>2. CASE c \in 1 .. N /\ q \in N + 1 .. N + n
      <4>1. clients'[c] = clients[c]
        BY <1>8, <3>2
      <4>2. requests'[q].gid \in idx /\ requests'[q].step = j /\ requests'[q].start = clock[requests'[q].gid]
        BY <1>10, <3>2
      <4> QED
        BY <1>1, <2>1, <3>2, <4>1, <4>2 DEF JourneyInv, FrontierInv
    <3>3. CASE c \in N + 1 .. N + n /\ q \in 1 .. N
      BY <1>1, <1>2, <1>13, <2>1, <3>3
    <3>4. CASE c \in N + 1 .. N + n /\ q \in N + 1 .. N + n
      <4>1. clients'[c].row = q
        BY <1>11, <1>13, <2>1, <3>4
      <4> QED
        BY <2>1, <4>1
    <3> QED
      BY <1>1, <1>2, <3>1, <3>2, <3>3, <3>4
  <2>2. ASSUME NEW q \in 1 .. N, NEW g \in Sessions, requests[q].gid = g, requests[q].step = j,
               requests[q].attempt = k
        PROVE  FALSE
    <3>1. PICK c \in 1 .. N : clients[c].row = q
      BY DEF JourneyInv, RowsInv
    <3>2. clients[c].step = j /\ clients[c].attempt = k
      BY <2>2, <3>1 DEF JourneyInv, RowsInv
    <3>3. k < k
      BY <1>1, <3>2 DEF JourneyInv, FrontierInv
    <3> QED
      BY <1>1, <3>3
  <2>3. ASSUME NEW q \in 1 .. N + n, NEW r \in 1 .. N + n,
               requests'[q].gid = requests'[r].gid, requests'[q].step = requests'[r].step,
               requests'[q].attempt = requests'[r].attempt
        PROVE  q = r
    <3>0. \A p \in 1 .. N : requests'[p] = requests[p] /\ requests[p].gid \in Sessions
      BY <1>8 DEF JourneyInv, RowsInv
    <3>1. CASE q \in 1 .. N /\ r \in 1 .. N
      BY <2>3, <3>0, <3>1 DEF JourneyInv, OrderInv
    <3>2. CASE q \in 1 .. N /\ r \in N + 1 .. N + n
      BY <1>10, <2>2, <2>3, <3>0, <3>2
    <3>3. CASE q \in N + 1 .. N + n /\ r \in 1 .. N
      BY <1>10, <2>2, <2>3, <3>0, <3>3
    <3>4. CASE q \in N + 1 .. N + n /\ r \in N + 1 .. N + n
      BY <1>11, <2>3, <3>4
    <3> QED
      BY <1>1, <1>2, <3>1, <3>2, <3>3, <3>4
  <2> QED
    BY <1>8, <2>1, <2>3 DEF OrderInv
<1>24. ActiveInv'
  <2>1. ASSUME NEW g \in Sessions, NEW s, s # j PROVE WentWell(g, s)' <=> WentWell(g, s)
    <3>1. \A c \in N + 1 .. N + n : clients'[c].step # s
      BY <1>13, <2>1
    <3>2. \A c \in 1 .. N : clients'[c] = clients[c]
      BY <1>8
    <3>3. WentWell(g, s)' <=> \E c \in 1 .. N + n : clients'[c].gid = g /\ clients'[c].step = s /\ ~clients'[c].err
      BY <1>8 DEF WentWell
    <3>4. \A c : c \in 1 .. N + n <=> c \in 1 .. N \/ c \in N + 1 .. N + n
      BY <1>1, <1>2
    <3> QED
      BY <3>1, <3>2, <3>3, <3>4 DEF WentWell
  <2>2. ASSUME NEW g \in Sessions PROVE WentWell(g, j)' <=> WentWell(g, j) \/ g \in idx \ err
    <3>1. \A c \in N + 1 .. N + n : clients'[c].step = j /\ (clients'[c].err <=> clients'[c].gid \in err)
                                    /\ clients'[c].gid \in idx
      BY <1>13
    <3>2. \A c \in 1 .. N : clients'[c] = clients[c]
      BY <1>8
    <3>3. WentWell(g, j)' <=> \E c \in 1 .. N + n : clients'[c].gid = g /\ clients'[c].step = j /\ ~clients'[c].err
      BY <1>1, <1>8 DEF WentWell
    <3>4. \A c : c \in 1 .. N + n <=> c \in 1 .. N \/ c \in N + 1 .. N + n
      BY <1>1, <1>2
    <3> QED
      BY <1>14, <3>1, <3>2, <3>3, <3>4 DEF WentWell
  <2>3. \A s \in 0 .. j - 1 : s # j
    BY <1>1
  <2>4. ASSUME NEW g \in Sessions
        PROVE  /\ g \in active <=> \A s \in 0 .. j - 1 : s < NumSteps(g) => WentWell(g, s)'
               /\ g \in active => stepsDone[g] = IF j <= NumSteps(g) THEN j ELSE NumSteps(g)
    <3>1. /\ g \in active <=> \A s \in 0 .. j - 1 : s < NumSteps(g) => WentWell(g, s)
          /\ g \in active => stepsDone[g] = IF j <= NumSteps(g) THEN j ELSE NumSteps(g)
      BY <1>1 DEF JourneyInv, ActiveInv
    <3> QED
      BY <2>1, <2>3, <3>1
  <2>5. ASSUME NEW g \in due PROVE g \in stepOk' <=> WentWell(g, j)'
    <3>1. g \in Sessions /\ (g \in stepOk <=> WentWell(g, j))
      BY <1>1, <2>5 DEF JourneyInv, ActiveInv
    <3> QED
      BY <1>4, <2>2, <3>1
  <2>6. /\ active' = active /\ stepsDone' = stepsDone /\ due' = due /\ j' = j /\ pc' = "attempt"
    BY <1>1
  <2> QED
    BY <1>18, <2>4, <2>5, <2>6 DEF ActiveInv
<1> QED
  BY <1>19, <1>20, <1>22, <1>23, <1>24 DEF JourneyInv

\* The other steps write no rows.
LEMMA RowsStay ==
  ASSUME RowsInv, UNCHANGED <<scenario, requests, clients>>
  PROVE  RowsInv'
<1>1. N' = N /\ Len(clients') = Len(clients)
  BY DEF N
<1>2. \A g : NumSteps(g)' = NumSteps(g)
  BY DEF NumSteps
<1>3. \A g, x, y : ReqGid(g, x, y)' = ReqGid(g, x, y)
  BY DEF ReqGid
<1>4. PICK S : requests \in Seq(S) /\ clients \in Seq(S)
  BY DEF RowsInv
<1>5. Len(clients') = N' /\ \E T : requests' \in Seq(T) /\ clients' \in Seq(T)
  <2>1. requests' \in Seq(S) /\ clients' \in Seq(S) /\ Len(clients) = N
    BY <1>4 DEF RowsInv
  <2> QED
    BY <1>1, <2>1
<1>6. ASSUME NEW r \in 1 .. N
      PROVE  /\ requests[r].gid \in Sessions /\ requests[r].start \in Nat
             /\ requests[r].step \in Nat /\ requests[r].step < NumSteps(requests[r].gid)
             /\ requests[r].attempt \in 0 .. MaxRetries[scenario[requests[r].gid]]
             /\ requests[r].reqGid = ReqGid(requests[r].gid, requests[r].step, requests[r].attempt)
             /\ \E c \in 1 .. N : clients[c].row = r
  BY DEF RowsInv
<1>7. ASSUME NEW c \in 1 .. N
      PROVE  /\ clients[c].row \in 1 .. N /\ clients[c].ts \in Nat
             /\ clients[c].gid = requests[clients[c].row].gid
             /\ clients[c].step = requests[clients[c].row].step
             /\ clients[c].attempt = requests[clients[c].row].attempt
             /\ \A d \in 1 .. N : clients[d].row = clients[c].row => d = c
  BY DEF RowsInv
<1> QED
  BY <1>1, <1>2, <1>3, <1>5, <1>6, <1>7 DEF RowsInv

LEMMA OrderStays ==
  ASSUME OrderInv, UNCHANGED <<requests, clients>>
  PROVE  OrderInv' /\ N' = N /\ \A g, x : WentWell(g, x)' = WentWell(g, x)
<1>1. N' = N
  BY DEF N
<1> QED
  BY <1>1 DEF OrderInv, WentWell

LEMMA StartStepKeeps ==
  ASSUME JourneyInv, StartStep
  PROVE  JourneyInv'
<1>1. /\ pc = "step" /\ pc' = "attempt" /\ k' = 0 /\ stepOk' = {}
      /\ due' = {g \in active : NumSteps(g) > j} /\ idx' = due'
      /\ UNCHANGED <<scenario, j, active, clock, stepsDone, finalOk, requests, clients>>
      /\ active \subseteq Sessions /\ j \in Nat /\ scenario \in [Sessions -> Scenarios]
  BY DEF JourneyInv, TypeInv, StartStep
<1>2. \A g : NumSteps(g)' = NumSteps(g)
  BY <1>1 DEF NumSteps
<1>3. TypeInv'
  <2>1. \A g \in idx' : 0 <= MaxRetries[scenario[g]]
    BY <1>1, NumStepsType
  <2>2. due' = {g \in active : NumSteps(g) > j}'
    BY <1>1, <1>2
  <2> QED
    BY <1>1, <2>1, <2>2 DEF JourneyInv, TypeInv
<1>4. RowsInv' /\ OrderInv' /\ N' = N /\ \A g, x : WentWell(g, x)' = WentWell(g, x)
  BY <1>1, RowsStay, OrderStays DEF JourneyInv
<1>5. \A c \in 1 .. N : /\ clients[c].step < j /\ clients[c].step \in Nat
                        /\ clients[c].ts <= clock[clients[c].gid]
  <2>1. \A c \in 1 .. N : clients[c].row \in 1 .. N /\ clients[c].step = requests[clients[c].row].step
    BY DEF JourneyInv, RowsInv
  <2>2. \A r \in 1 .. N : requests[r].step \in Nat
    BY DEF JourneyInv, RowsInv
  <2> QED
    BY <1>1, <2>1, <2>2 DEF JourneyInv, FrontierInv
<1>6. FrontierInv'
  <2>1. \A c \in 1 .. N : clients[c].step <= j /\ clients[c].step # j
    BY <1>1, <1>5
  <2> QED
    BY <1>1, <1>4, <1>5, <2>1 DEF FrontierInv
<1>7. ActiveInv'
  <2>1. \A g : ~WentWell(g, j)
    <3>1. \A c \in 1 .. N : clients[c].step # j
      BY <1>1, <1>5
    <3> QED
      BY <3>1 DEF WentWell
  <2>2. \A g \in Sessions :
          /\ g \in active <=> \A s \in 0 .. j - 1 : s < NumSteps(g) => WentWell(g, s)
          /\ g \in active => stepsDone[g] = IF j <= NumSteps(g) THEN j ELSE NumSteps(g)
    BY <1>1 DEF JourneyInv, ActiveInv
  <2> QED
    BY <1>1, <1>2, <1>4, <2>1, <2>2 DEF ActiveInv
<1> QED
  BY <1>3, <1>4, <1>6, <1>7 DEF JourneyInv

LEMMA EndStepKeeps ==
  ASSUME JourneyInv, EndStep
  PROVE  JourneyInv'
<1>1. /\ pc = "attempt" /\ pc' = "step" /\ j' = j + 1
      /\ stepsDone' = [g \in Sessions |-> IF g \in due THEN stepsDone[g] + 1 ELSE stepsDone[g]]
      /\ active' = (active \ due) \cup stepOk
      /\ UNCHANGED <<scenario, k, due, idx, stepOk, finalOk, requests, clients>>
      /\ due = {g \in active : NumSteps(g) > j} /\ stepOk \subseteq due
      /\ active \subseteq Sessions /\ j \in Nat /\ scenario \in [Sessions -> Scenarios]
      /\ k \in Nat /\ clock \in [Sessions -> Nat] /\ stepsDone \in [Sessions -> Nat]
  BY DEF JourneyInv, TypeInv, EndStep
<1>2. PICK gap \in Gaps : clock' = [g \in Sessions |-> IF g \in due THEN clock[g] + gap ELSE clock[g]]
  BY DEF EndStep
<1>3. gap \in Nat
  BY JourneyAssumption
<1>4. \A g : NumSteps(g)' = NumSteps(g)
  BY <1>1 DEF NumSteps
<1>5. \A g \in Sessions : clock[g] \in Nat /\ clock'[g] \in Nat /\ clock[g] <= clock'[g]
  BY <1>1, <1>2, <1>3
<1>6. TypeInv'
  BY <1>1, <1>2, <1>3 DEF TypeInv
<1>7. RowsInv' /\ OrderInv' /\ N' = N /\ \A g, x : WentWell(g, x)' = WentWell(g, x)
  BY <1>1, RowsStay, OrderStays DEF JourneyInv
<1>8. FrontierInv'
  <2> SUFFICES ASSUME NEW c \in 1 .. N
               PROVE  clients[c].ts <= clock'[clients[c].gid] /\ clients[c].step < j + 1
    BY <1>1, <1>7 DEF FrontierInv
  <2>1. /\ clients[c].row \in 1 .. N /\ clients[c].ts \in Nat
        /\ clients[c].gid = requests[clients[c].row].gid
        /\ clients[c].step = requests[clients[c].row].step
    BY DEF JourneyInv, RowsInv
  <2>2. \A r \in 1 .. N : requests[r].gid \in Sessions /\ requests[r].step \in Nat
    BY DEF JourneyInv, RowsInv
  <2>3. clients[c].ts <= clock[clients[c].gid] /\ clients[c].step <= j
    BY <1>1 DEF JourneyInv, FrontierInv
  <2>4. clients[c].gid \in Sessions /\ clients[c].step \in Nat
    BY <2>1, <2>2
  <2> QED
    BY <1>1, <1>5, <2>1, <2>3, <2>4
<1>9. ActiveInv'
  <2> SUFFICES ASSUME NEW g \in Sessions
               PROVE  /\ g \in active' <=> \A s \in 0 .. j : s < NumSteps(g) => WentWell(g, s)
                      /\ g \in active' => stepsDone'[g] = IF j + 1 <= NumSteps(g) THEN j + 1 ELSE NumSteps(g)
    <3>1. (j + 1) - 1 = j
      BY <1>1
    <3> QED
      BY <1>1, <1>4, <1>7, <3>1 DEF ActiveInv
  <2>1. /\ g \in active <=> \A s \in 0 .. j - 1 : s < NumSteps(g) => WentWell(g, s)
        /\ g \in active => stepsDone[g] = IF j <= NumSteps(g) THEN j ELSE NumSteps(g)
        /\ g \in due => (g \in stepOk <=> WentWell(g, j))
    BY <1>1 DEF JourneyInv, ActiveInv
  <2>2. \A s : s \in 0 .. j <=> s \in 0 .. j - 1 \/ s = j
    BY <1>1
  <2>3. NumSteps(g) \in Nat
    BY <1>1, NumStepsType
  <2>4. CASE g \in due
    <3>1. NumSteps(g) > j /\ g \in active /\ (g \in active' <=> g \in stepOk)
      BY <1>1, <2>4
    <3>2. j < NumSteps(g) /\ j + 1 <= NumSteps(g) /\ j <= NumSteps(g)
      BY <1>1, <2>3, <3>1
    <3>3. stepsDone'[g] = j + 1
      BY <1>1, <2>1, <2>4, <3>1, <3>2
    <3> QED
      BY <2>1, <2>2, <2>4, <3>1, <3>2, <3>3
  <2>5. CASE g \notin due
    <3>1. g \in active' <=> g \in active
      BY <1>1, <2>5
    <3>2. stepsDone'[g] = stepsDone[g]
      BY <1>1, <2>5
    <3>3. CASE g \in active
      <4>1. ~(j < NumSteps(g))
        BY <1>1, <2>3, <2>5, <3>3
      <4>2. stepsDone[g] = NumSteps(g) /\ ~(j + 1 <= NumSteps(g))
        BY <1>1, <2>1, <2>3, <3>3, <4>1
      <4> QED
        BY <2>1, <2>2, <3>1, <3>2, <3>3, <4>1, <4>2
    <3>4. CASE g \notin active
      BY <2>1, <2>2, <3>1, <3>4
    <3> QED
      BY <3>3, <3>4
  <2> QED
    BY <2>4, <2>5
<1> QED
  BY <1>6, <1>7, <1>8, <1>9 DEF JourneyInv

LEMMA EndShardKeeps ==
  ASSUME JourneyInv, EndShard
  PROVE  JourneyInv'
<1>1. /\ pc = "step" /\ pc' = "emit" /\ \A g \in active : NumSteps(g) <= j
      /\ finalOk' = {g \in active : stepsDone[g] >= NumSteps(g)}
      /\ UNCHANGED <<scenario, j, k, due, idx, stepOk, active, clock, stepsDone, requests, clients>>
      /\ active \subseteq Sessions /\ j \in Nat /\ scenario \in [Sessions -> Scenarios]
  BY DEF JourneyInv, TypeInv, EndShard
<1>2. \A g : NumSteps(g)' = NumSteps(g)
  BY <1>1 DEF NumSteps
<1>3. TypeInv'
  BY <1>1 DEF JourneyInv, TypeInv
<1>4. RowsInv' /\ OrderInv' /\ N' = N /\ \A g, x : WentWell(g, x)' = WentWell(g, x)
  BY <1>1, RowsStay, OrderStays DEF JourneyInv
<1>5. FrontierInv'
  BY <1>1 DEF FrontierInv
<1>6. ActiveInv'
  <2> SUFFICES ASSUME NEW g \in Sessions
               PROVE  g \in finalOk' <=> \A s \in 0 .. NumSteps(g) - 1 : WentWell(g, s)
    BY <1>1, <1>2, <1>4 DEF ActiveInv
  <2>1. /\ g \in active <=> \A s \in 0 .. j - 1 : s < NumSteps(g) => WentWell(g, s)
        /\ g \in active => stepsDone[g] = IF j <= NumSteps(g) THEN j ELSE NumSteps(g)
    BY <1>1 DEF JourneyInv, ActiveInv
  <2>2. NumSteps(g) \in Nat
    BY <1>1, NumStepsType
  <2>3. g \in active => NumSteps(g) <= j /\ stepsDone[g] = NumSteps(g)
    BY <1>1, <2>1, <2>2
  <2>4. g \in finalOk' <=> g \in active
    BY <1>1, <2>2, <2>3
  <2>5. CASE NumSteps(g) <= j
    <3>1. \A s : s \in 0 .. j - 1 /\ s < NumSteps(g) <=> s \in 0 .. NumSteps(g) - 1
      BY <1>1, <2>2, <2>5
    <3> QED
      BY <2>1, <2>4, <3>1
  \* A session that has more steps has stopped at one that never went well.
  <2>6. CASE ~(NumSteps(g) <= j)
    <3>1. g \notin active
      BY <2>3, <2>6
    <3>2. \A s \in 0 .. j - 1 : s \in 0 .. NumSteps(g) - 1
      BY <1>1, <2>2, <2>6
    <3> QED
      BY <2>1, <2>4, <3>1, <3>2
  <2> QED
    BY <2>5, <2>6
<1> QED
  BY <1>3, <1>4, <1>5, <1>6 DEF JourneyInv

LEMMA CorrelatorKeeps ==
  ASSUME JourneyInv, Emit \/ Gather \/ Propagate \/ AttributeAll
  PROVE  JourneyInv'
<1>1. /\ pc \notin {"step", "attempt"} /\ pc' \in {"gather", "propagate", "attribute", "done"}
      /\ UNCHANGED <<scenario, sessionVars>>
  BY DEF Emit, Gather, Propagate, AttributeAll
<1>2. UNCHANGED <<j, active, clock, stepsDone, finalOk, requests, clients>> /\ k' = k
  BY <1>1 DEF sessionVars
<1>3. \A g : NumSteps(g)' = NumSteps(g)
  BY <1>1 DEF NumSteps
<1>4. RowsInv' /\ OrderInv' /\ N' = N /\ \A g, x : WentWell(g, x)' = WentWell(g, x)
  BY <1>1, <1>2, RowsStay, OrderStays DEF JourneyInv
<1>5. TypeInv'
  BY <1>1, <1>2 DEF JourneyInv, TypeInv
<1>6. FrontierInv'
  BY <1>1 DEF FrontierInv
<1>7. ActiveInv'
  <2>1. \A g \in Sessions : g \in finalOk <=> \A s \in 0 .. NumSteps(g) - 1 : WentWell(g, s)
    BY <1>1 DEF JourneyInv, ActiveInv
  <2> QED
    BY <1>1, <1>2, <1>3, <1>4, <2>1 DEF ActiveInv
<1> QED
  BY <1>4, <1>5, <1>6, <1>7 DEF JourneyInv

LEMMA JourneyStep == JourneyInv /\ [Next]_vars => JourneyInv'
<1> SUFFICES ASSUME JourneyInv, [Next]_vars PROVE JourneyInv'
  OBVIOUS
<1>1. CASE StartStep
  BY <1>1, StartStepKeeps
<1>2. CASE Attempt
  BY <1>2, AttemptKeeps
<1>3. CASE EndStep
  BY <1>3, EndStepKeeps
<1>4. CASE EndShard
  BY <1>4, EndShardKeeps
<1>5. CASE Emit \/ Gather \/ Propagate \/ AttributeAll
  BY <1>5, CorrelatorKeeps
<1>6. CASE UNCHANGED vars
  <2>1. UNCHANGED <<pc, scenario, j, k, due, idx, stepOk, active, clock, stepsDone, finalOk, requests, clients>>
    BY <1>6 DEF vars, sessionVars
  <2>2. \A g : NumSteps(g)' = NumSteps(g)
    BY <2>1 DEF NumSteps
  <2>3. RowsInv' /\ OrderInv' /\ N' = N /\ \A g, x : WentWell(g, x)' = WentWell(g, x)
    BY <2>1, RowsStay, OrderStays DEF JourneyInv
  <2>4. TypeInv' /\ FrontierInv' /\ ActiveInv'
    BY <2>1, <2>2, <2>3 DEF JourneyInv, TypeInv, FrontierInv, ActiveInv
  <2> QED
    BY <2>3, <2>4 DEF JourneyInv
<1> QED
  BY <1>1, <1>2, <1>3, <1>4, <1>5, <1>6 DEF Next

LEMMA JourneyInvariant == Spec => []JourneyInv
  BY JourneyInit, JourneyStep, PTL DEF Spec

\* The one client row of a request row.
LEMMA ClientOfRow ==
  ASSUME RowsInv, NEW r \in 1 .. N
  PROVE  \E c \in 1 .. N : ClientOf(r) = clients[c] /\ clients[c].row = r
                           /\ \A d \in 1 .. N : clients[d].row = r => d = c
<1>1. PICK S : clients \in Seq(S)
  BY DEF RowsInv
<1>2. Len(clients) = N /\ DOMAIN clients = 1 .. N
  BY <1>1 DEF RowsInv
<1>3. PICK c \in 1 .. N : clients[c].row = r
  BY DEF RowsInv
<1>4. \A d \in 1 .. N : clients[d].row = r => d = c
  BY <1>3 DEF RowsInv
<1>5. ToSet(clients) = {clients[i] : i \in 1 .. N}
  BY <1>2 DEF ToSet
<1>6. clients[c] \in ToSet(clients)
  BY <1>5
<1>7. ClientOf(r) \in ToSet(clients) /\ ClientOf(r).row = r
  BY <1>3, <1>6 DEF ClientOf
<1>8. PICK d \in 1 .. N : ClientOf(r) = clients[d]
  BY <1>5, <1>7
<1> QED
  BY <1>4, <1>7, <1>8

\* The requests of a session follow one another in time, a step is repeated only after
\* a failed attempt and followed only when its last attempt went well, and a session
\* ends well just when every step had an attempt that went well.
THEOREM SessionsAdvanceInOrder == Spec => []JourneyInOrder
<1>1. JourneyInv => JourneyInOrder
  <2> SUFFICES ASSUME JourneyInv PROVE JourneyInOrder
    OBVIOUS
  <2>1. RowsInv /\ TypeInv /\ DOMAIN requests = 1 .. N
    <3>1. RowsInv /\ TypeInv
      BY DEF JourneyInv
    <3>2. PICK S : requests \in Seq(S)
      BY <3>1 DEF RowsInv
    <3> QED
      BY <3>1, <3>2 DEF N
  <2>2. ASSUME NEW g \in Sessions, NEW r \in Rows(g), NEW q \in Rows(g), r < q
        PROVE  /\ ClientOf(r).ts <= requests[q].start
               /\ requests[r].step = requests[q].step => ClientOf(r).retried
               /\ requests[r].step <= requests[q].step
    <3>1. r \in 1 .. N /\ q \in 1 .. N /\ requests[r].gid = g /\ requests[q].gid = g
      BY <2>1 DEF Rows
    <3>2. PICK c \in 1 .. N : ClientOf(r) = clients[c] /\ clients[c].row = r
      BY <2>1, <3>1, ClientOfRow
    <3>3. clients[c].gid = g /\ clients[c].step = requests[r].step
      BY <2>1, <3>1, <3>2 DEF RowsInv
    <3> QED
      BY <2>2, <3>1, <3>2, <3>3 DEF JourneyInv, OrderInv
  <2>3. ASSUME pc = "done", NEW g \in Sessions
        PROVE  g \in finalOk <=> \A s \in 0 .. NumSteps(g) - 1 :
                 \E r \in Rows(g) : requests[r].step = s /\ ~ClientOf(r).err
    <3>1. ASSUME NEW s
          PROVE  WentWell(g, s) <=> \E r \in Rows(g) : requests[r].step = s /\ ~ClientOf(r).err
      <4>1. ASSUME NEW c \in 1 .. N, clients[c].gid = g, clients[c].step = s, ~clients[c].err
            PROVE  \E r \in Rows(g) : requests[r].step = s /\ ~ClientOf(r).err
        <5>1. /\ clients[c].row \in 1 .. N
              /\ requests[clients[c].row].gid = g /\ requests[clients[c].row].step = s
          BY <2>1, <4>1 DEF RowsInv
        <5>2. ClientOf(clients[c].row) = clients[c]
          BY <2>1, <5>1, ClientOfRow
        <5> QED
          BY <2>1, <4>1, <5>1, <5>2 DEF Rows
      <4>2. ASSUME NEW r \in Rows(g), requests[r].step = s, ~ClientOf(r).err
            PROVE  WentWell(g, s)
        <5>1. r \in 1 .. N /\ requests[r].gid = g
          BY <2>1 DEF Rows
        <5>2. PICK c \in 1 .. N : ClientOf(r) = clients[c] /\ clients[c].row = r
          BY <2>1, <5>1, ClientOfRow
        <5>3. clients[c].gid = g /\ clients[c].step = s
          BY <2>1, <4>2, <5>1, <5>2 DEF RowsInv
        <5> QED
          BY <4>2, <5>2, <5>3 DEF WentWell
      <4> QED
        BY <4>1, <4>2 DEF WentWell
    <3>2. g \in finalOk <=> \A s \in 0 .. NumSteps(g) - 1 : WentWell(g, s)
      BY <2>3 DEF JourneyInv, ActiveInv
    <3> QED
      BY <3>1, <3>2
  <2> QED
    BY <2>2, <2>3 DEF JourneyInOrder
<1> QED
  BY <1>1, JourneyInvariant, PTL

(***************************************************************************)
(* What the keys of a record tell.                                         *)
(***************************************************************************)
Owner(s) == (IF FromClient(s) THEN clients[s[2]] ELSE requests[s[2]]).gid
RowOf(s) == IF FromClient(s) THEN clients[s[2]].row ELSE s[2]

\* No record shows a key of another session than its own, nor of another request;
\* access lines show no more than their request, the edge's audit always its device.
SpanFacts(s, keys) ==
  /\ keys.session \subseteq {Session(Owner(s))} /\ keys.cart \subseteq {Cart(Owner(s))}
  /\ keys.device \subseteq {Device[Owner(s)]} /\ keys.account \subseteq {Account(Owner(s))}
  /\ keys.request \subseteq {RequestId(RowOf(s), 0), RequestId(RowOf(s), 1)}
  /\ keys.correlation \subseteq {RequestId(RowOf(s), 0)} /\ keys.trace \subseteq {Trace(RowOf(s))}
  /\ keys.front = IF FromClient(s) THEN {FrontTrace(s[2])} ELSE {}
  /\ s[1] = "access" => /\ keys.request = {RequestId(s[2], s[3])} /\ keys.trace = {Trace(s[2])}
                        /\ keys.session = {} /\ keys.device = {} /\ keys.account = {}
                        /\ keys.correlation = {} /\ keys.cart = {}
  /\ s[1] = "audit" /\ s[3] = 0 => keys.trace = {Trace(s[2])} /\ keys.device = {Device[Owner(s)]}
  /\ FromClient(s) => keys.request \subseteq {RequestId(RowOf(s), 0)}

SpansInv ==
  /\ \A s \in DOMAIN spans :
       /\ s = <<s[1], s[2], s[3]>> /\ s[2] \in 1 .. N
       /\ s[1] \in {"access", "audit", "app", "error", "transaction"}
       /\ SpanFacts(s, spans[s])
  /\ \A r \in 1 .. N : /\ <<"access", r, 0>> \in DOMAIN spans /\ <<"access", r, 1>> \in DOMAIN spans
                       /\ <<"audit", r, 0>> \in DOMAIN spans

\* What a line's parts are merged into is what one of them holds.
LEMMA MergedParts ==
  ASSUME NEW keys, NEW parts,
         parts = <<keys>> \/ \E part \in {1, 2} : parts = Split(part, keys)
  PROVE  \A n \in KeyNames : Merged(parts)[n] = keys[n]
<1> SUFFICES ASSUME NEW n \in KeyNames PROVE UNION {parts[p][n] : p \in DOMAIN parts} = keys[n]
  BY DEF Merged
<1>1. CASE parts = <<keys>>
  <2>1. DOMAIN parts = {1} /\ parts[1] = keys
    BY <1>1
  <2> QED
    BY <2>1
<1>2. CASE \E part \in {1, 2} : parts = Split(part, keys)
  <2>1. PICK part \in {1, 2} : parts = Split(part, keys)
    BY <1>2
  <2>2. DOMAIN parts = {1, 2} /\ \A p \in {1, 2} : parts[p] = IF p = part THEN keys ELSE NoKeys
    <3>1. 1 .. 2 = {1, 2}
      OBVIOUS
    <3> QED
      BY <2>1, <3>1 DEF Split
  <2>3. NoKeys[n] = {}
    BY DEF NoKeys
  <2> QED
    BY <2>2, <2>3
<1> QED
  BY <1>1, <1>2

LEMMA KeysOfParts ==
  ASSUME NEW keys, NEW parts,
         parts = <<keys>> \/ \E part \in {1, 2} : parts = Split(part, keys)
  PROVE  /\ KeysOf(parts).request = keys.request /\ KeysOf(parts).correlation = keys.correlation
         /\ KeysOf(parts).trace = keys.trace /\ KeysOf(parts).front = keys.front
         /\ KeysOf(parts).cart = keys.cart /\ KeysOf(parts).device = keys.device
         /\ KeysOf(parts).account = keys.account
         /\ KeysOf(parts).session = IF keys.session # {} /\ keys.session = keys.cart
                                    THEN {} ELSE keys.session
<1> DEFINE M == Merged(parts)
<1>1. \A n \in KeyNames : M[n] = keys[n]
  BY MergedParts
<1>2. /\ M.request = keys.request /\ M.correlation = keys.correlation
      /\ M.trace = keys.trace /\ M.front = keys.front
      /\ M.cart = keys.cart /\ M.device = keys.device
      /\ M.account = keys.account /\ M.session = keys.session
  BY <1>1 DEF KeyNames
<1>3. DOMAIN M = KeyNames /\ M = [n \in KeyNames |-> M[n]]
  BY DEF Merged
<1>4. KeysOf(parts) = IF M.session # {} /\ M.session = M.cart THEN [M EXCEPT !.session = {}] ELSE M
  BY DEF KeysOf
<1> HIDE DEF M
<1>5. CASE M.session # {} /\ M.session = M.cart
  <2>1. KeysOf(parts) = [M EXCEPT !.session = {}]
    BY <1>4, <1>5
  <2>2. /\ KeysOf(parts).session = {} /\ KeysOf(parts).request = M.request
        /\ KeysOf(parts).correlation = M.correlation /\ KeysOf(parts).trace = M.trace
        /\ KeysOf(parts).front = M.front /\ KeysOf(parts).cart = M.cart
        /\ KeysOf(parts).device = M.device /\ KeysOf(parts).account = M.account
    BY <1>3, <2>1 DEF KeyNames
  <2> QED
    BY <1>2, <1>5, <2>2
<1>6. CASE ~(M.session # {} /\ M.session = M.cart)
  BY <1>2, <1>4, <1>6
<1> QED
  BY <1>5, <1>6

LEMMA RecordShape ==
  ASSUME RowsInv, NEW internal \in SUBSET DOMAIN requests, NEW s \in RecordsOf(internal)
  PROVE  /\ s = <<s[1], s[2], s[3]>> /\ s[2] \in 1 .. N /\ s[3] \in {0, 1}
         /\ s[1] \in {"access", "audit", "app", "error", "transaction"}
         /\ FromClient(s) => s[3] = 0
<1>1. DOMAIN requests = 1 .. N /\ DOMAIN clients = 1 .. N
  <2>1. PICK S : requests \in Seq(S) /\ clients \in Seq(S)
    BY DEF RowsInv
  <2> QED
    BY <2>1 DEF RowsInv, N
<1>2. \/ s \in {"access"} \X (1 .. N) \X {0, 1} \/ s \in {"audit"} \X (1 .. N) \X {0}
      \/ s \in {"audit"} \X internal \X {1} \/ s \in {"app"} \X ((1 .. N) \ internal) \X {1}
      \/ s \in {"error"} \X {c \in 1 .. N : clients[c].err} \X {0}
      \/ s \in {"transaction"} \X (1 .. N) \X {0}
  BY <1>1 DEF RecordsOf
<1>3. PICK kind \in {"access", "audit", "app", "error", "transaction"}, row \in 1 .. N, hop \in {0, 1} :
        s = <<kind, row, hop>> /\ (kind \in {"error", "transaction"} => hop = 0)
  <2>1. CASE s \in {"access"} \X (1 .. N) \X {0, 1}
    BY <2>1
  <2>2. CASE s \in {"audit"} \X (1 .. N) \X {0}
    BY <2>2
  <2>3. CASE s \in {"audit"} \X internal \X {1}
    BY <1>1, <2>3
  <2>4. CASE s \in {"app"} \X ((1 .. N) \ internal) \X {1}
    BY <2>4
  <2>5. CASE s \in {"error"} \X {c \in 1 .. N : clients[c].err} \X {0}
    BY <2>5
  <2>6. CASE s \in {"transaction"} \X (1 .. N) \X {0}
    BY <2>6
  <2> QED
    BY <1>2, <2>1, <2>2, <2>3, <2>4, <2>5, <2>6
<1>4. s[1] = kind /\ s[2] = row /\ s[3] = hop
  BY <1>3
<1> QED
  BY <1>3, <1>4 DEF FromClient

\* Whatever parts its keys are in, a record shows what its own request and session give it.
LEMMA EmittedFacts ==
  ASSUME RowsInv, NEW part \in {1, 2}, NEW fallback, NEW tagged,
         NEW internal \in SUBSET DOMAIN requests, NEW s \in RecordsOf(internal)
  PROVE  SpanFacts(s, KeysOf(PartsOf(s, part, fallback, tagged)))
<1> DEFINE r == s[2]  g == Owner(s)  parts == PartsOf(s, part, fallback, tagged)
<1>0. /\ r \in 1 .. N /\ s[3] \in {0, 1} /\ s[1] \in {"access", "audit", "app", "error", "transaction"}
      /\ FromClient(s) => s[3] = 0
  BY RecordShape
<1>1. CASE s[1] = "access"
  <2> DEFINE keys == [NoKeys EXCEPT !.request = {RequestId(r, s[3])}, !.trace = {Trace(r)}]
  <2>1. parts = <<keys>> /\ ~FromClient(s) /\ RowOf(s) = r
    BY <1>1 DEF PartsOf, Access, FromClient, RowOf
  <2>2. /\ keys.request = {RequestId(r, s[3])} /\ keys.trace = {Trace(r)} /\ keys.correlation = {}
        /\ keys.front = {} /\ keys.session = {} /\ keys.cart = {} /\ keys.device = {} /\ keys.account = {}
    BY DEF NoKeys, KeyNames
  <2> HIDE DEF keys, parts
  <2>3. /\ KeysOf(parts).request = {RequestId(r, s[3])} /\ KeysOf(parts).trace = {Trace(r)}
        /\ KeysOf(parts).correlation = {} /\ KeysOf(parts).front = {} /\ KeysOf(parts).session = {}
        /\ KeysOf(parts).cart = {} /\ KeysOf(parts).device = {} /\ KeysOf(parts).account = {}
    BY <2>1, <2>2, KeysOfParts
  <2> QED
    BY <1>0, <1>1, <2>1, <2>3 DEF SpanFacts, parts
<1>2. CASE s[1] = "audit" /\ s[3] = 0
  <2> DEFINE se == IF r \in fallback THEN Cart(g) ELSE Session(g)
             keys == [NoKeys EXCEPT !.request = {RequestId(r, 0)}, !.correlation = {RequestId(r, 0)},
                                    !.trace = {Trace(r)}, !.session = {se},
                                    !.cart = {Cart(g)}, !.device = {Device[g]}]
  <2>1. parts = Split(part, keys) /\ ~FromClient(s) /\ RowOf(s) = r
    BY <1>2 DEF PartsOf, EdgeAudit, FromClient, RowOf, Owner
  <2>2. /\ keys.request = {RequestId(r, 0)} /\ keys.trace = {Trace(r)}
        /\ keys.correlation = {RequestId(r, 0)} /\ keys.front = {} /\ keys.session = {se}
        /\ keys.cart = {Cart(g)} /\ keys.device = {Device[g]} /\ keys.account = {}
    <3> HIDE DEF se, g
    <3> QED
      BY DEF NoKeys, KeyNames
  <2> HIDE DEF keys, parts, se, g
  <2>3. /\ KeysOf(parts).request = {RequestId(r, 0)} /\ KeysOf(parts).trace = {Trace(r)}
        /\ KeysOf(parts).correlation = {RequestId(r, 0)} /\ KeysOf(parts).front = {}
        /\ KeysOf(parts).session = IF keys.session # {} /\ keys.session = keys.cart THEN {} ELSE keys.session
        /\ KeysOf(parts).cart = {Cart(g)} /\ KeysOf(parts).device = {Device[g]} /\ KeysOf(parts).account = {}
    <3>1. /\ KeysOf(parts).request = keys.request /\ KeysOf(parts).correlation = keys.correlation
          /\ KeysOf(parts).trace = keys.trace /\ KeysOf(parts).front = keys.front
          /\ KeysOf(parts).cart = keys.cart /\ KeysOf(parts).device = keys.device
          /\ KeysOf(parts).account = keys.account
          /\ KeysOf(parts).session = IF keys.session # {} /\ keys.session = keys.cart
                                     THEN {} ELSE keys.session
      BY <2>1, KeysOfParts
    <3> QED
      BY <2>2, <3>1
  \* A session id that is the cart's is refused, so that the one taken is the session's.
  <2>4. KeysOf(parts).session \subseteq {Session(g)}
    BY <2>2, <2>3 DEF se
  <2> QED
    BY <1>0, <1>2, <2>1, <2>3, <2>4 DEF SpanFacts, parts, g
<1>3. CASE s[1] = "audit" /\ s[3] = 1
  <2> DEFINE keys == [NoKeys EXCEPT !.request = {RequestId(r, 1)}, !.correlation = {RequestId(r, 0)},
                                    !.trace = {Trace(r)}, !.session = {Session(g)}]
  <2>1. parts = Split(part, keys) /\ ~FromClient(s) /\ RowOf(s) = r
    BY <1>3 DEF PartsOf, OutboundAudit, FromClient, RowOf, Owner
  <2>2. /\ keys.request = {RequestId(r, 1)} /\ keys.trace = {Trace(r)}
        /\ keys.correlation = {RequestId(r, 0)} /\ keys.front = {} /\ keys.session = {Session(g)}
        /\ keys.cart = {} /\ keys.device = {} /\ keys.account = {}
    BY DEF NoKeys, KeyNames
  <2> HIDE DEF keys, parts
  <2>3. /\ KeysOf(parts).request = {RequestId(r, 1)} /\ KeysOf(parts).trace = {Trace(r)}
        /\ KeysOf(parts).correlation = {RequestId(r, 0)} /\ KeysOf(parts).front = {}
        /\ KeysOf(parts).session = {Session(g)}
        /\ KeysOf(parts).cart = {} /\ KeysOf(parts).device = {} /\ KeysOf(parts).account = {}
    BY <2>1, <2>2, KeysOfParts
  <2> HIDE DEF g
  <2> QED
    BY <1>0, <1>3, <2>1, <2>3 DEF SpanFacts, parts, g
<1>4. CASE s[1] = "app"
  <2> DEFINE keys == [NoKeys EXCEPT !.request = {RequestId(r, 1)}, !.correlation = {RequestId(r, 0)},
                                    !.trace = {Trace(r)}, !.account = AccountKey(g)]
  <2>1. parts = <<keys>> /\ ~FromClient(s) /\ RowOf(s) = r
    BY <1>4 DEF PartsOf, AppLine, FromClient, RowOf, Owner
  <2>2. /\ keys.request = {RequestId(r, 1)} /\ keys.trace = {Trace(r)}
        /\ keys.correlation = {RequestId(r, 0)} /\ keys.front = {} /\ keys.session = {}
        /\ keys.cart = {} /\ keys.device = {} /\ keys.account = AccountKey(g)
    BY DEF NoKeys, KeyNames
  <2> HIDE DEF keys, parts
  <2>3. /\ KeysOf(parts).request = {RequestId(r, 1)} /\ KeysOf(parts).trace = {Trace(r)}
        /\ KeysOf(parts).correlation = {RequestId(r, 0)} /\ KeysOf(parts).front = {}
        /\ KeysOf(parts).session = {}
        /\ KeysOf(parts).cart = {} /\ KeysOf(parts).device = {} /\ KeysOf(parts).account = AccountKey(g)
    BY <2>1, <2>2, KeysOfParts
  <2>4. AccountKey(g) \subseteq {Account(g)}
    BY DEF AccountKey
  <2> HIDE DEF g
  <2> QED
    BY <1>0, <1>4, <2>1, <2>3, <2>4 DEF SpanFacts, parts, g
<1>5. CASE s[1] = "error"
  <2> DEFINE shown == r \in tagged /\ requests[clients[r].row].outcome \in Failures
             keys == IF shown
                     THEN [NoKeys EXCEPT !.front = {FrontTrace(r)}, !.request = {RequestId(clients[r].row, 0)},
                                         !.device = {Device[g]}, !.account = AccountKey(g)]
                     ELSE [NoKeys EXCEPT !.front = {FrontTrace(r)}]
  <2>1. parts = <<keys>> /\ FromClient(s) /\ RowOf(s) = clients[r].row
    BY <1>5 DEF PartsOf, ErrorEvent, FromClient, RowOf, Owner
  <2>2. /\ keys.request \subseteq {RequestId(clients[r].row, 0)} /\ keys.trace = {}
        /\ keys.correlation = {} /\ keys.front = {FrontTrace(r)} /\ keys.session = {}
        /\ keys.cart = {} /\ keys.device \subseteq {Device[g]} /\ keys.account \subseteq AccountKey(g)
    BY DEF NoKeys, KeyNames
  <2> HIDE DEF keys, parts
  <2>3. /\ KeysOf(parts).request \subseteq {RequestId(clients[r].row, 0)} /\ KeysOf(parts).trace = {}
        /\ KeysOf(parts).correlation = {} /\ KeysOf(parts).front = {FrontTrace(r)}
        /\ KeysOf(parts).session = {}
        /\ KeysOf(parts).cart = {} /\ KeysOf(parts).device \subseteq {Device[g]}
        /\ KeysOf(parts).account \subseteq AccountKey(g)
    BY <2>1, <2>2, KeysOfParts
  <2>4. AccountKey(g) \subseteq {Account(g)}
    BY DEF AccountKey
  <2> HIDE DEF g
  <2> QED
    BY <1>0, <1>5, <2>1, <2>3, <2>4 DEF SpanFacts, parts, g
<1>6. CASE s[1] = "transaction"
  <2> DEFINE keys == [NoKeys EXCEPT !.front = {FrontTrace(r)}, !.device = {Device[g]}]
  <2>1. parts = <<keys>> /\ FromClient(s) /\ RowOf(s) = clients[r].row
    BY <1>6 DEF PartsOf, Transaction, FromClient, RowOf, Owner
  <2>2. /\ keys.request = {} /\ keys.trace = {}
        /\ keys.correlation = {} /\ keys.front = {FrontTrace(r)} /\ keys.session = {}
        /\ keys.cart = {} /\ keys.device = {Device[g]} /\ keys.account = {}
    BY DEF NoKeys, KeyNames
  <2> HIDE DEF keys, parts
  <2>3. /\ KeysOf(parts).request = {} /\ KeysOf(parts).trace = {}
        /\ KeysOf(parts).correlation = {} /\ KeysOf(parts).front = {FrontTrace(r)}
        /\ KeysOf(parts).session = {}
        /\ KeysOf(parts).cart = {} /\ KeysOf(parts).device = {Device[g]} /\ KeysOf(parts).account = {}
    BY <2>1, <2>2, KeysOfParts
  <2> HIDE DEF g
  <2> QED
    BY <1>0, <1>6, <2>1, <2>3 DEF SpanFacts, parts, g
<1> QED
  BY <1>0, <1>1, <1>2, <1>3, <1>4, <1>5, <1>6

(***************************************************************************)
(* What the correlator has made of the records at each point.              *)
(***************************************************************************)
Beside(c) == {s \in DOMAIN spans : c \in Connectors(spans[s])}
Seen == [c \in UNION {Connectors(spans[s]) : s \in DOMAIN spans} |->
           [ids |-> [level \in Levels |-> UNION {spans[s][level] : s \in Beside(c)}],
            requests |-> IF c[1] = "request" THEN {} ELSE UNION {RequestKeys(spans[s]) : s \in Beside(c)}]]
Spread == [c \in DOMAIN Seen |->
             [Seen[c] EXCEPT !.ids = [level \in Levels |->
                @[level] \cup UNION {Seen[r].ids[level] : r \in Seen[c].requests}]]]

CorrelatorInv ==
  /\ pc \in {"gather", "propagate", "attribute", "done"} => SpansInv
  /\ pc = "propagate" => known = Seen
  /\ pc \in {"attribute", "done"} => known = Spread
  /\ IF pc = "done"
     THEN /\ attribution = [s \in DOMAIN spans |-> Attribute(spans[s])]
          /\ links = [s \in {t \in DOMAIN spans : FromClient(t)} |-> LinkOf(s)]
     ELSE attribution = <<>> /\ links = <<>>

LEMMA SpansStay ==
  ASSUME UNCHANGED <<requests, clients, spans>>
  PROVE  SpansInv' = SpansInv /\ Seen' = Seen /\ Spread' = Spread
<1>1. N' = N
  BY DEF N
<1>2. \A s, keys : SpanFacts(s, keys)' = SpanFacts(s, keys)
  <2>1. \A s : Owner(s)' = Owner(s) /\ RowOf(s)' = RowOf(s) /\ FrontTrace(s)' = FrontTrace(s)
               /\ Trace(s)' = Trace(s)
    BY DEF Owner, RowOf, FrontTrace, Trace
  <2>2. \A r, h : RequestId(r, h)' = RequestId(r, h)
    BY DEF RequestId, Trace
  <2> QED
    BY <2>1, <2>2 DEF SpanFacts
<1>3. SpansInv' = SpansInv
  BY <1>1, <1>2 DEF SpansInv
<1>4. Seen' = Seen
  BY DEF Seen, Beside
<1> QED
  BY <1>3, <1>4 DEF Spread

LEMMA EmitGivesSpans ==
  ASSUME RowsInv, Emit
  PROVE  SpansInv'
<1>1. PICK part \in KeyParts, fallback \in Some(DOMAIN requests) \cap SUBSET DOMAIN requests,
           internal \in Some(DOMAIN requests) \cap SUBSET DOMAIN requests,
           tagged \in Some(DOMAIN clients) :
        spans' = [s \in RecordsOf(internal) |-> KeysOf(PartsOf(s, part, fallback, tagged))]
  BY DEF Emit
<1>2. UNCHANGED <<requests, clients>> /\ part \in {1, 2} /\ internal \in SUBSET DOMAIN requests
  <2>1. KeyParts \subseteq {1, 2}
    BY JourneyAssumption
  <2> QED
    BY <2>1 DEF Emit, sessionVars
<1>3. N' = N /\ DOMAIN spans' = RecordsOf(internal)
  BY <1>1, <1>2 DEF N
<1>4. \A s, keys : SpanFacts(s, keys)' = SpanFacts(s, keys)
  <2>1. \A s : Owner(s)' = Owner(s) /\ RowOf(s)' = RowOf(s) /\ FrontTrace(s)' = FrontTrace(s)
               /\ Trace(s)' = Trace(s)
    BY <1>2 DEF Owner, RowOf, FrontTrace, Trace
  <2>2. \A r, h : RequestId(r, h)' = RequestId(r, h)
    BY <1>2 DEF RequestId, Trace
  <2> QED
    BY <2>1, <2>2 DEF SpanFacts
<1>5. ASSUME NEW s \in RecordsOf(internal)
      PROVE  /\ s = <<s[1], s[2], s[3]>> /\ s[2] \in 1 .. N
             /\ s[1] \in {"access", "audit", "app", "error", "transaction"}
             /\ SpanFacts(s, spans'[s])
  <2>1. spans'[s] = KeysOf(PartsOf(s, part, fallback, tagged))
    BY <1>1
  <2>2. SpanFacts(s, KeysOf(PartsOf(s, part, fallback, tagged)))
    BY <1>2, EmittedFacts
  <2> QED
    BY <1>2, <2>1, <2>2, RecordShape
<1>6. ASSUME NEW r \in 1 .. N
      PROVE  {<<"access", r, 0>>, <<"access", r, 1>>, <<"audit", r, 0>>} \subseteq RecordsOf(internal)
  <2>1. DOMAIN requests = 1 .. N
    <3>1. PICK S : requests \in Seq(S)
      BY DEF RowsInv
    <3> QED
      BY <3>1 DEF N
  <2>2. /\ <<"access", r, 0>> \in {"access"} \X (DOMAIN requests) \X {0, 1}
        /\ <<"access", r, 1>> \in {"access"} \X (DOMAIN requests) \X {0, 1}
        /\ <<"audit", r, 0>> \in {"audit"} \X (DOMAIN requests) \X {0}
    <3>1. r \in DOMAIN requests
      BY <2>1
    <3> QED
      BY <3>1
  <2> QED
    BY <2>2 DEF RecordsOf
<1> QED
  BY <1>3, <1>4, <1>5, <1>6 DEF SpansInv

LEMMA CorrelatorInit == Init => CorrelatorInv
  BY DEF Init, CorrelatorInv

LEMMA CorrelatorStep == JourneyInv /\ CorrelatorInv /\ [Next]_vars => CorrelatorInv'
<1> SUFFICES ASSUME JourneyInv, CorrelatorInv, [Next]_vars PROVE CorrelatorInv'
  OBVIOUS
<1>1. CASE StartStep \/ Attempt \/ EndStep \/ EndShard
  <2>1. /\ pc \in {"step", "attempt"} /\ pc' \in {"step", "attempt", "emit"}
        /\ attribution' = attribution /\ links' = links
    BY <1>1 DEF StartStep, Attempt, EndStep, EndShard, correlatorVars
  <2> QED
    BY <2>1 DEF CorrelatorInv
<1>2. CASE Emit
  <2>1. SpansInv'
    BY <1>2, EmitGivesSpans DEF JourneyInv
  <2> QED
    BY <1>2, <2>1 DEF Emit, CorrelatorInv
<1>3. CASE Gather
  <2>1. pc = "gather" /\ pc' = "propagate" /\ UNCHANGED <<requests, clients, spans, attribution, links>>
    BY <1>3 DEF Gather, sessionVars
  <2>2. known' = Seen
    BY <1>3 DEF Gather, Seen, Beside
  <2> QED
    BY <2>1, <2>2, SpansStay DEF CorrelatorInv
<1>4. CASE Propagate
  <2>1. pc = "propagate" /\ pc' = "attribute" /\ UNCHANGED <<requests, clients, spans, attribution, links>>
    BY <1>4 DEF Propagate, sessionVars
  <2>2. known' = Spread
    <3>1. known = Seen
      BY <2>1 DEF CorrelatorInv
    <3> QED
      BY <1>4, <3>1 DEF Propagate, Spread
  <2> QED
    BY <2>1, <2>2, SpansStay DEF CorrelatorInv
<1>5. CASE AttributeAll
  <2>1. pc = "attribute" /\ pc' = "done" /\ UNCHANGED <<requests, clients, spans, known>>
    BY <1>5 DEF AttributeAll, sessionVars
  <2>2. /\ attribution' = [s \in DOMAIN spans |-> Attribute(spans[s])]
        /\ links' = [s \in {t \in DOMAIN spans : FromClient(t)} |-> LinkOf(s)]
    BY <1>5 DEF AttributeAll
  <2>3. \A s : (Attribute(spans[s]))' = Attribute(spans[s])
    BY <2>1 DEF Attribute, CandidatesAt
  <2>4. \A s : LinkOf(s)' = LinkOf(s)
    BY <2>1 DEF LinkOf, RequestsOf
  <2> QED
    BY <2>1, <2>2, <2>3, <2>4, SpansStay DEF CorrelatorInv
<1>6. CASE UNCHANGED vars
  <2>1. UNCHANGED <<pc, requests, clients, spans, known, attribution, links>>
    BY <1>6 DEF vars, sessionVars, correlatorVars
  <2>3. \A s : (Attribute(spans[s]))' = Attribute(spans[s])
    BY <2>1 DEF Attribute, CandidatesAt
  <2>4. \A s : LinkOf(s)' = LinkOf(s)
    BY <2>1 DEF LinkOf, RequestsOf
  <2> QED
    BY <2>1, <2>3, <2>4, SpansStay DEF CorrelatorInv
<1> QED
  BY <1>1, <1>2, <1>3, <1>4, <1>5, <1>6 DEF Next

LEMMA CorrelatorInvariant == Spec => []CorrelatorInv
  BY JourneyInvariant, CorrelatorInit, CorrelatorStep, PTL DEF Spec

(***************************************************************************)
(* No key leads to another's.  The key a request is made of has four bits  *)
(* for the step and four for the attempt: that no two requests share one   *)
(* takes scenarios that stay within them, which nothing in the code makes  *)
(* sure of.                                                                *)
(***************************************************************************)
FewAttempts == \A s \in Scenarios : Len(Steps[s]) <= 16 /\ MaxRetries[s] <= 15

LEMMA TracesDiffer ==
  ASSUME JourneyInv, FewAttempts, NEW r \in 1 .. N, NEW q \in 1 .. N, Trace(r) = Trace(q)
  PROVE  r = q
<1>1. ASSUME NEW p \in 1 .. N
      PROVE  /\ requests[p].gid \in Nat /\ requests[p].step \in 0 .. 15 /\ requests[p].attempt \in 0 .. 15
             /\ Trace(p) = requests[p].gid * 256 + (requests[p].step * 16 + requests[p].attempt)
  <2> DEFINE g == requests[p].gid  x == requests[p].step  y == requests[p].attempt
  <2>1. /\ g \in Sessions /\ x \in Nat /\ x < NumSteps(g) /\ y \in 0 .. MaxRetries[scenario[g]]
        /\ requests[p].reqGid = ReqGid(g, x, y)
    BY DEF JourneyInv, RowsInv
  <2>2. scenario[g] \in Scenarios /\ NumSteps(g) \in Nat /\ MaxRetries[scenario[g]] \in Nat
    BY <2>1, NumStepsType DEF JourneyInv, TypeInv
  <2>3. NumSteps(g) <= 16 /\ MaxRetries[scenario[g]] <= 15
    BY <2>2 DEF FewAttempts, NumSteps
  <2>4. g \in Nat /\ \A low \in 0 .. 255 : BitOr(g * 256, low) = g * 256 + low
    BY <2>1, JourneyAssumption
  <2> HIDE DEF g, x, y
  <2>5. x \in 0 .. 15 /\ y \in 0 .. 15
    BY <2>1, <2>2, <2>3
  <2>6. x * 16 + y \in 0 .. 255
    BY <2>5
  <2>7. requests[p].reqGid = g * 256 + (x * 16 + y)
    BY <2>1, <2>4, <2>6 DEF ReqGid
  <2> QED
    BY <2>4, <2>5, <2>7 DEF g, x, y, Trace
<1>2. <<requests[r].gid, requests[r].step, requests[r].attempt>>
        = <<requests[q].gid, requests[q].step, requests[q].attempt>>
  <2>1. /\ requests[r].gid \in Nat /\ requests[r].step \in 0 .. 15 /\ requests[r].attempt \in 0 .. 15
        /\ Trace(r) = requests[r].gid * 256 + (requests[r].step * 16 + requests[r].attempt)
    BY <1>1
  <2>2. /\ requests[q].gid \in Nat /\ requests[q].step \in 0 .. 15 /\ requests[q].attempt \in 0 .. 15
        /\ Trace(q) = requests[q].gid * 256 + (requests[q].step * 16 + requests[q].attempt)
    BY <1>1
  <2>3. /\ requests[r].gid = requests[q].gid /\ requests[r].step = requests[q].step
        /\ requests[r].attempt = requests[q].attempt
    <3> DEFINE g == requests[r].gid  x == requests[r].step  y == requests[r].attempt
               h == requests[q].gid  v == requests[q].step  w == requests[q].attempt
    <3>1. g \in Nat /\ x \in 0 .. 15 /\ y \in 0 .. 15 /\ h \in Nat /\ v \in 0 .. 15 /\ w \in 0 .. 15
      BY <2>1, <2>2
    <3>2. g * 256 + (x * 16 + y) = h * 256 + (v * 16 + w)
      BY <2>1, <2>2
    <3> HIDE DEF g, h, x, y, v, w
    <3>3. g = h /\ x = v /\ y = w
      BY <3>1, <3>2
    <3> QED
      BY <3>3 DEF g, h, x, y, v, w
  <2> QED
    BY <2>3
<1> QED
  BY <1>2 DEF JourneyInv, OrderInv

\* The session a connector can only be of.
Belongs(c, g) ==
  \/ \E r \in 1 .. N, h \in {0, 1} : requests[r].gid = g /\ c = <<"request", RequestId(r, h)>>
  \/ \E r \in 1 .. N : requests[r].gid = g /\ c = <<"trace", Trace(r)>>
  \/ \E x \in 1 .. N : clients[x].gid = g /\ c = <<"front", FrontTrace(x)>>
  \/ c = <<"cart", Cart(g)>>

LEMMA BelongsToOne ==
  ASSUME JourneyInv, FewAttempts, NEW c, NEW g, NEW h, Belongs(c, g), Belongs(c, h)
  PROVE  g = h
<1>1. CASE c[1] = "request"
  <2>1. PICK r \in 1 .. N, i \in {0, 1} : requests[r].gid = g /\ c = <<"request", RequestId(r, i)>>
    BY <1>1 DEF Belongs
  <2>2. PICK q \in 1 .. N, hop \in {0, 1} : requests[q].gid = h /\ c = <<"request", RequestId(q, hop)>>
    BY <1>1 DEF Belongs
  <2>3. Trace(r) = Trace(q)
    BY <2>1, <2>2 DEF RequestId
  <2> QED
    BY <2>1, <2>2, <2>3, TracesDiffer
<1>2. CASE c[1] = "trace"
  <2>1. PICK r \in 1 .. N : requests[r].gid = g /\ c = <<"trace", Trace(r)>>
    BY <1>2 DEF Belongs
  <2>2. PICK q \in 1 .. N : requests[q].gid = h /\ c = <<"trace", Trace(q)>>
    BY <1>2 DEF Belongs
  <2>3. Trace(r) = Trace(q)
    BY <2>1, <2>2
  <2> QED
    BY <2>1, <2>2, <2>3, TracesDiffer
<1>3. CASE c[1] = "front"
  BY <1>3 DEF Belongs, FrontTrace
<1>4. CASE c[1] = "cart"
  BY <1>4 DEF Belongs, Cart
<1> QED
  BY <1>1, <1>2, <1>3, <1>4 DEF Belongs

\* A record of a session and the row it is of.
LEMMA OwnerOfSpan ==
  ASSUME JourneyInv, SpansInv, NEW s \in DOMAIN spans
  PROVE  /\ s[2] \in 1 .. N /\ RowOf(s) \in 1 .. N /\ requests[RowOf(s)].gid = Owner(s)
         /\ FromClient(s) => clients[s[2]].gid = Owner(s)
         /\ SpanFacts(s, spans[s])
<1>1. s[2] \in 1 .. N /\ SpanFacts(s, spans[s])
  BY DEF SpansInv
<1> QED
  BY <1>1 DEF RowOf, Owner, JourneyInv, RowsInv

LEMMA SpanConnectors ==
  ASSUME JourneyInv, SpansInv, NEW s \in DOMAIN spans, NEW c \in Connectors(spans[s])
  PROVE  Belongs(c, Owner(s))
<1> DEFINE r == RowOf(s)  g == Owner(s)
<1>1. /\ s[2] \in 1 .. N /\ r \in 1 .. N /\ requests[r].gid = g
      /\ FromClient(s) => clients[s[2]].gid = g
      /\ SpanFacts(s, spans[s])
  BY OwnerOfSpan
<1> HIDE DEF r, g
<1>2. /\ spans[s].request \cup spans[s].correlation \subseteq {RequestId(r, 0), RequestId(r, 1)}
      /\ spans[s].trace \subseteq {Trace(r)} /\ spans[s].cart \subseteq {Cart(g)}
      /\ spans[s].front = IF FromClient(s) THEN {FrontTrace(s[2])} ELSE {}
  BY <1>1 DEF SpanFacts, r, g
<1>3. \/ \E x \in spans[s].request \cup spans[s].correlation : c = <<"request", x>>
      \/ \E x \in spans[s].trace : c = <<"trace", x>>
      \/ \E x \in spans[s].front : c = <<"front", x>>
      \/ \E x \in spans[s].cart : c = <<"cart", x>>
  BY DEF Connectors, RequestKeys
<1>4. Belongs(c, g)
  <2>1. CASE \E x \in spans[s].request \cup spans[s].correlation : c = <<"request", x>>
    BY <1>1, <1>2, <2>1 DEF Belongs
  <2>2. CASE \E x \in spans[s].trace : c = <<"trace", x>>
    BY <1>1, <1>2, <2>2 DEF Belongs
  <2>3. CASE \E x \in spans[s].front : c = <<"front", x>>
    BY <1>1, <1>2, <2>3 DEF Belongs
  <2>4. CASE \E x \in spans[s].cart : c = <<"cart", x>>
    BY <1>2, <2>4 DEF Belongs
  <2> QED
    BY <1>3, <2>1, <2>2, <2>3, <2>4
<1> QED
  BY <1>4 DEF g

LEMMA SpanLevels ==
  ASSUME JourneyInv, SpansInv, NEW s \in DOMAIN spans, NEW level \in Levels
  PROVE  spans[s][level] \subseteq Truth(Owner(s))[level]
<1>1. /\ spans[s].session \subseteq {Session(Owner(s))} /\ spans[s].device \subseteq {Device[Owner(s)]}
      /\ spans[s].account \subseteq {Account(Owner(s))}
  BY OwnerOfSpan DEF SpanFacts
<1>2. level \in {"session", "device", "account"}
  BY DEF Levels, LevelsInOrder, ToSet
<1>3. /\ Truth(Owner(s))["session"] = {Session(Owner(s))} /\ Truth(Owner(s))["device"] = {Device[Owner(s)]}
      /\ Truth(Owner(s))["account"] = {Account(Owner(s))}
  BY DEF Truth
<1> QED
  BY <1>1, <1>2, <1>3

LEMMA SeenIs ==
  ASSUME NEW c \in DOMAIN Seen
  PROVE  /\ c \in UNION {Connectors(spans[s]) : s \in DOMAIN spans}
         /\ DOMAIN Seen[c] = {"ids", "requests"}
         /\ DOMAIN Seen[c].ids = Levels
         /\ \A level \in Levels : Seen[c].ids[level] = UNION {spans[s][level] : s \in Beside(c)}
         /\ Seen[c].requests = IF c[1] = "request" THEN {}
                               ELSE UNION {RequestKeys(spans[s]) : s \in Beside(c)}
  BY DEF Seen

LEMMA SpreadIs ==
  ASSUME NEW c \in DOMAIN Seen, NEW level \in Levels
  PROVE  Spread[c].ids[level] = Seen[c].ids[level] \cup UNION {Seen[r].ids[level] : r \in Seen[c].requests}
<1>1. Spread[c] = [Seen[c] EXCEPT !.ids = [l \in Levels |->
                     @[l] \cup UNION {Seen[r].ids[l] : r \in Seen[c].requests}]]
  BY DEF Spread
<1>2. DOMAIN Seen[c] = {"ids", "requests"}
  BY SeenIs
<1>3. Spread[c].ids = [l \in Levels |-> Seen[c].ids[l] \cup UNION {Seen[r].ids[l] : r \in Seen[c].requests}]
  BY <1>1, <1>2
<1> QED
  BY <1>3

\* What is seen beside a connector, and what spreads to it, is of its session.
LEMMA SeenIsTrue ==
  ASSUME JourneyInv, SpansInv, FewAttempts, NEW c \in DOMAIN Seen, NEW g, Belongs(c, g),
         NEW level \in Levels
  PROVE  /\ Seen[c].ids[level] \subseteq Truth(g)[level]
         /\ \A r \in Seen[c].requests : r \in DOMAIN Seen /\ Belongs(r, g)
<1>1. ASSUME NEW s \in Beside(c) PROVE s \in DOMAIN spans /\ Owner(s) = g
  <2>1. s \in DOMAIN spans /\ c \in Connectors(spans[s])
    BY DEF Beside
  <2> QED
    BY <2>1, SpanConnectors, BelongsToOne
<1>2. \A s \in Beside(c) : spans[s][level] \subseteq Truth(g)[level]
  BY <1>1, SpanLevels
<1>3. ASSUME NEW r \in Seen[c].requests PROVE r \in DOMAIN Seen /\ Belongs(r, g)
  <2>1. r \in UNION {RequestKeys(spans[s]) : s \in Beside(c)}
    BY SeenIs
  <2>2. PICK s \in Beside(c) : r \in RequestKeys(spans[s])
    BY <2>1
  <2>3. s \in DOMAIN spans /\ Owner(s) = g /\ r \in Connectors(spans[s])
    BY <1>1, <2>2 DEF Connectors
  <2>4. r \in DOMAIN Seen
    BY <2>3 DEF Seen
  <2> QED
    BY <2>3, <2>4, SpanConnectors
<1>4. Seen[c].ids[level] = UNION {spans[s][level] : s \in Beside(c)}
  BY SeenIs
<1> QED
  BY <1>2, <1>3, <1>4

LEMMA SpreadIsTrue ==
  ASSUME JourneyInv, SpansInv, FewAttempts, NEW c \in DOMAIN Seen, NEW g, Belongs(c, g),
         NEW level \in Levels
  PROVE  Spread[c].ids[level] \subseteq Truth(g)[level]
<1>1. Seen[c].ids[level] \subseteq Truth(g)[level]
  BY SeenIsTrue
<1>2. ASSUME NEW r \in Seen[c].requests PROVE Seen[r].ids[level] \subseteq Truth(g)[level]
  <2>1. r \in DOMAIN Seen /\ Belongs(r, g)
    BY SeenIsTrue
  <2> QED
    BY <2>1, SeenIsTrue
<1> QED
  BY <1>1, <1>2, SpreadIs

LEMMA CandidatesAreTrue ==
  ASSUME JourneyInv, SpansInv, known = Spread, FewAttempts, NEW s \in DOMAIN spans, NEW level \in Levels
  PROVE  CandidatesAt(spans[s], level) \subseteq Truth(Owner(s))[level]
<1>1. spans[s][level] \subseteq Truth(Owner(s))[level]
  BY SpanLevels
<1>2. ASSUME NEW c \in Connectors(spans[s]) PROVE known[c].ids[level] \subseteq Truth(Owner(s))[level]
  <2>1. c \in DOMAIN Seen
    BY DEF Seen
  <2> QED
    BY <2>1, SpanConnectors, SpreadIsTrue
<1> QED
  BY <1>1, <1>2 DEF CandidatesAt

LEMMA FirstOfThree ==
  ASSUME NEW S \in SUBSET {1, 2, 3}, S # {}
  PROVE  Min(S) \in S /\ \A i \in S : Min(S) <= i
<1>1. 1 \in S \/ 2 \in S \/ 3 \in S
  OBVIOUS
<1>2. \E i \in S : \A x \in S : i <= x
  BY <1>1
<1> QED
  BY <1>2 DEF Min

\* The level a record is attributed at is the first that has candidates.
LEMMA AttributeIs ==
  ASSUME NEW keys
  PROVE  \/ Attribute(keys) = <<"none", {}>> /\ \A level \in Levels : CandidatesAt(keys, level) = {}
         \/ \E level \in Levels : /\ Attribute(keys) = <<level, CandidatesAt(keys, level)>>
                                  /\ CandidatesAt(keys, level) # {}
                                  /\ CandidatesAt(keys, "device") # {} => level \in {"session", "device"}
<1> DEFINE found == {i \in DOMAIN LevelsInOrder : CandidatesAt(keys, LevelsInOrder[i]) # {}}
<1>1. /\ DOMAIN LevelsInOrder = {1, 2, 3} /\ LevelsInOrder[1] = "session" /\ LevelsInOrder[2] = "device"
      /\ LevelsInOrder[3] = "account" /\ Levels = {"session", "device", "account"}
  <2>1. DOMAIN LevelsInOrder = {1, 2, 3} /\ LevelsInOrder[1] = "session" /\ LevelsInOrder[2] = "device"
        /\ LevelsInOrder[3] = "account"
    BY DEF LevelsInOrder
  <2>2. Levels = {LevelsInOrder[i] : i \in DOMAIN LevelsInOrder}
    BY DEF Levels, ToSet
  <2> QED
    BY <2>1, <2>2
<1>2. CASE found = {}
  <2>1. Attribute(keys) = <<"none", {}>>
    BY <1>2 DEF Attribute
  <2> QED
    BY <1>1, <1>2, <2>1
<1>3. CASE found # {}
  <2>1. Min(found) \in found /\ \A i \in found : Min(found) <= i
    <3>1. found \subseteq {1, 2, 3}
      BY <1>1
    <3> HIDE DEF found
    <3> QED
      BY <1>3, <3>1, FirstOfThree
  <2>2. Attribute(keys) = <<LevelsInOrder[Min(found)], CandidatesAt(keys, LevelsInOrder[Min(found)])>>
    BY <1>3 DEF Attribute
  <2>3. Min(found) \in {1, 2, 3} /\ CandidatesAt(keys, LevelsInOrder[Min(found)]) # {}
    BY <1>1, <2>1
  <2>4. CandidatesAt(keys, "device") # {} => Min(found) \in {1, 2}
    <3>1. CandidatesAt(keys, "device") # {} => 2 \in found
      BY <1>1
    <3> HIDE DEF found
    <3> QED
      BY <2>1, <2>3, <3>1
  <2> QED
    BY <1>1, <2>2, <2>3, <2>4
<1> QED
  BY <1>2, <1>3

\* Every record is attributed to the session, the device or the user it is of, whatever
\* sessions share a device and whichever ids the platform wrote wrong.
THEOREM RecordsAreAttributedTruthfully ==
  ASSUME FewAttempts
  PROVE  Spec => []AttributedTruthfully
<1>1. JourneyInv /\ CorrelatorInv => AttributedTruthfully
  <2> SUFFICES ASSUME JourneyInv, CorrelatorInv, NEW s \in DOMAIN attribution
               PROVE  attribution[s][2] = Truth(Owner(s))[attribution[s][1]]
    BY DEF AttributedTruthfully, Owner
  <2>1. pc = "done" /\ SpansInv /\ known = Spread /\ s \in DOMAIN spans
        /\ attribution[s] = Attribute(spans[s])
    BY DEF CorrelatorInv
  <2>2. CASE attribution[s] = <<"none", {}>>
    BY <2>2 DEF Truth
  <2>3. CASE \E level \in Levels : /\ attribution[s] = <<level, CandidatesAt(spans[s], level)>>
                                   /\ CandidatesAt(spans[s], level) # {}
    <3>1. PICK level \in Levels : /\ attribution[s] = <<level, CandidatesAt(spans[s], level)>>
                                  /\ CandidatesAt(spans[s], level) # {}
      BY <2>3
    <3>2. CandidatesAt(spans[s], level) \subseteq Truth(Owner(s))[level]
      BY <2>1, CandidatesAreTrue
    <3>3. level \in {"session", "device", "account"}
      BY DEF Levels, LevelsInOrder, ToSet
    <3>4. \E x : Truth(Owner(s))[level] = {x}
      BY <3>3 DEF Truth
    <3> QED
      BY <3>1, <3>2, <3>4
  <2> QED
    BY <2>1, <2>2, <2>3, AttributeIs
<1> QED
  BY <1>1, JourneyInvariant, CorrelatorInvariant, PTL

\* A client record has the session, step and attempt of the request row it points at,
\* requests have ids of their own, and a client record is linked to the edge's access
\* line of that request or to none.
THEOREM ClientRecordsLinkTheirRequests ==
  ASSUME FewAttempts
  PROVE  Spec => []ClientLinksOwnRequest
<1>1. JourneyInv /\ CorrelatorInv => ClientLinksOwnRequest
  <2> SUFFICES ASSUME JourneyInv, CorrelatorInv PROVE ClientLinksOwnRequest
    OBVIOUS
  <2>1. /\ RowsInv /\ DOMAIN requests = 1 .. N /\ ToSet(clients) = {clients[i] : i \in 1 .. N}
    <3>1. RowsInv
      BY DEF JourneyInv
    <3>2. PICK S : requests \in Seq(S) /\ clients \in Seq(S)
      BY <3>1 DEF RowsInv
    <3> QED
      BY <3>1, <3>2 DEF N, ToSet, RowsInv
  <2>2. ASSUME NEW c \in ToSet(clients)
        PROVE  <<requests[c.row].gid, requests[c.row].step, requests[c.row].attempt>>
                 = <<c.gid, c.step, c.attempt>>
    <3>1. PICK i \in 1 .. N : c = clients[i]
      BY <2>1
    <3> QED
      BY <2>1, <3>1 DEF RowsInv
  <2>3. \A r, q \in DOMAIN requests : requests[r].reqGid = requests[q].reqGid => r = q
    BY <2>1, TracesDiffer DEF Trace
  <2>4. ASSUME NEW s \in DOMAIN links, NEW h \in links[s]
        PROVE  h = <<"access", clients[s[2]].row, 0>>
    <3>1. /\ SpansInv /\ s \in DOMAIN spans /\ FromClient(s) /\ links[s] = LinkOf(s)
      BY DEF CorrelatorInv
    <3>2. h \in DOMAIN spans /\ h[1] = "access" /\ spans[h].request \subseteq RequestsOf(s)
      BY <3>1 DEF LinkOf
    <3>3. h = <<"access", h[2], h[3]>> /\ h[2] \in 1 .. N /\ spans[h].request = {RequestId(h[2], h[3])}
      BY <3>1, <3>2 DEF SpansInv, SpanFacts
    <3>4. PICK e \in DOMAIN spans : /\ e[1] = "error" /\ spans[e].front = spans[s].front
                                    /\ RequestId(h[2], h[3]) \in spans[e].request
      BY <3>2, <3>3 DEF RequestsOf
    <3>5. /\ s[2] \in 1 .. N /\ e[2] \in 1 .. N /\ spans[s].front = {FrontTrace(s[2])}
          /\ spans[e].front = {FrontTrace(e[2])} /\ spans[e].request \subseteq {RequestId(RowOf(e), 0)}
          /\ RowOf(e) = clients[e[2]].row
      BY <3>1, <3>4 DEF SpansInv, SpanFacts, FromClient, RowOf
    <3>6. FrontTrace(s[2]) = FrontTrace(e[2]) /\ RequestId(h[2], h[3]) = RequestId(clients[e[2]].row, 0)
      BY <3>4, <3>5
    <3>7. clients[e[2]].row \in 1 .. N /\ clients[s[2]].row \in 1 .. N
      BY <2>1, <3>5 DEF RowsInv
    <3>8. clients[e[2]].row = clients[s[2]].row
      <4>1. /\ clients[s[2]].gid = clients[e[2]].gid /\ clients[s[2]].step = clients[e[2]].step
            /\ clients[s[2]].attempt = clients[e[2]].attempt
        BY <3>6 DEF FrontTrace
      <4>2. \A c \in 1 .. N : /\ clients[c].gid = requests[clients[c].row].gid
                              /\ clients[c].step = requests[clients[c].row].step
                              /\ clients[c].attempt = requests[clients[c].row].attempt
        BY <2>1 DEF RowsInv
      <4>3. \A q, r \in 1 .. N : <<requests[q].gid, requests[q].step, requests[q].attempt>>
                            = <<requests[r].gid, requests[r].step, requests[r].attempt>> => q = r
        BY DEF JourneyInv, OrderInv
      <4>4. <<requests[clients[e[2]].row].gid, requests[clients[e[2]].row].step, requests[clients[e[2]].row].attempt>>
              = <<requests[clients[s[2]].row].gid, requests[clients[s[2]].row].step, requests[clients[s[2]].row].attempt>>
        BY <3>5, <4>1, <4>2
      <4> QED
        BY <3>7, <4>3, <4>4
    <3>9. h[2] = clients[e[2]].row /\ h[3] = 0
      <4>1. Trace(h[2]) = Trace(clients[e[2]].row) /\ h[3] = 0
        BY <3>6 DEF RequestId
      <4> QED
        BY <3>3, <3>7, <4>1, TracesDiffer
    <3> QED
      BY <3>3, <3>8, <3>9
  <2> QED
    BY <2>2, <2>3, <2>4 DEF ClientLinksOwnRequest
<1> QED
  BY <1>1, JourneyInvariant, CorrelatorInvariant, PTL

\* The access lines of a request are attributed alike, at its device or better: what is
\* seen beside either's request id spreads to the trace id both show, and the edge's
\* audit, which shows the device, has that trace id too.
THEOREM RequestsStayTogether == Spec => []RequestStaysTogether
<1>1. JourneyInv /\ CorrelatorInv => RequestStaysTogether
  <2> SUFFICES ASSUME JourneyInv, CorrelatorInv, pc = "done",
                      NEW s \in DOMAIN spans, NEW t \in DOMAIN spans,
                      s[1] = "access", t[1] = "access", s[2] = t[2]
               PROVE  /\ Attribute(spans[s]) = Attribute(spans[t])
                      /\ Attribute(spans[s])[1] \in {"session", "device"}
    BY DEF RequestStaysTogether, CorrelatorInv
  <2> DEFINE T == <<"trace", Trace(s[2])>>
  <2>1. SpansInv /\ known = Spread
    BY DEF CorrelatorInv
  <2>2. ASSUME NEW x \in DOMAIN spans, x[1] = "access", x[2] = s[2], NEW level \in Levels
        PROVE  CandidatesAt(spans[x], level) = Spread[T].ids[level] /\ T \in DOMAIN Seen
    <3> DEFINE Q == <<"request", RequestId(x[2], x[3])>>
    <3>1. /\ spans[x].request = {RequestId(x[2], x[3])} /\ spans[x].trace = {Trace(s[2])}
          /\ spans[x].session = {} /\ spans[x].device = {} /\ spans[x].account = {}
          /\ spans[x].correlation = {} /\ spans[x].cart = {} /\ spans[x].front = {}
      BY <2>1, <2>2 DEF SpansInv, SpanFacts, FromClient
    <3>2. RequestKeys(spans[x]) = {Q}
      BY <3>1 DEF RequestKeys
    <3>3. Connectors(spans[x]) = {Q, T}
      BY <3>1, <3>2 DEF Connectors
    <3>4. Q \in DOMAIN Seen /\ T \in DOMAIN Seen /\ x \in Beside(T)
      BY <3>3 DEF Seen, Beside
    <3>5. spans[x][level] = {}
      BY <3>1 DEF Levels, LevelsInOrder, ToSet
    <3>6. Q \in Seen[T].requests /\ Seen[Q].requests = {}
      <4>1. T[1] # "request" /\ Q[1] = "request"
        OBVIOUS
      <4> HIDE DEF T, Q
      <4>2. Seen[T].requests = UNION {RequestKeys(spans[y]) : y \in Beside(T)}
        BY <3>4, <4>1, SeenIs
      <4>3. Seen[Q].requests = {}
        BY <3>4, <4>1, SeenIs
      <4>4. Q \in RequestKeys(spans[x])
        BY <3>2
      <4>5. Q \in Seen[T].requests
        BY <3>4, <4>2, <4>4
      <4> QED
        BY <4>3, <4>5
    <3> HIDE DEF T, Q
    <3>7. Spread[Q].ids[level] = Seen[Q].ids[level]
      <4>1. Spread[Q].ids[level] = Seen[Q].ids[level] \cup UNION {Seen[r].ids[level] : r \in Seen[Q].requests}
        BY <3>4, SpreadIs
      <4> QED
        BY <3>6, <4>1
    <3>8. Spread[T].ids[level] = Seen[T].ids[level] \cup UNION {Seen[r].ids[level] : r \in Seen[T].requests}
      BY <3>4, SpreadIs
    <3>9. Seen[Q].ids[level] \subseteq Spread[T].ids[level]
      BY <3>6, <3>8
    <3>10. CandidatesAt(spans[x], level) = Spread[Q].ids[level] \cup Spread[T].ids[level]
      BY <2>1, <3>3, <3>5 DEF CandidatesAt
    <3> QED
      BY <3>4, <3>7, <3>9, <3>10
  <2>3. \A level \in Levels : CandidatesAt(spans[s], level) = CandidatesAt(spans[t], level)
    BY <2>2
  <2>4. CandidatesAt(spans[s], "device") # {}
    <3> DEFINE a == <<"audit", s[2], 0>>
    <3>1. "device" \in Levels
      BY DEF Levels, LevelsInOrder, ToSet
    <3>2. a \in DOMAIN spans /\ a[1] = "audit" /\ a[2] = s[2] /\ a[3] = 0
      BY <2>1 DEF SpansInv
    <3>3. spans[a].trace = {Trace(s[2])} /\ spans[a].device = {Device[Owner(a)]}
      <4> HIDE DEF a
      <4> QED
        BY <2>1, <3>2 DEF SpansInv, SpanFacts
    <3> HIDE DEF a
    <3>4. a \in Beside(T)
      BY <3>2, <3>3 DEF Beside, Connectors
    <3> HIDE DEF T
    <3>5. T \in DOMAIN Seen
      BY <2>2, <3>1
    <3>6. Seen[T].ids["device"] # {}
      <4>1. Seen[T].ids["device"] = UNION {spans[y]["device"] : y \in Beside(T)}
        BY <3>1, <3>5, SeenIs
      <4> QED
        BY <3>3, <3>4, <4>1
    <3>7. Spread[T].ids["device"] # {}
      BY <3>1, <3>5, <3>6, SpreadIs
    <3> QED
      BY <2>2, <3>1, <3>7
  <2>5. Attribute(spans[s]) = Attribute(spans[t])
    <3>1. \A i \in DOMAIN LevelsInOrder : LevelsInOrder[i] \in Levels
      BY DEF Levels, ToSet
    <3>2. \A i \in DOMAIN LevelsInOrder :
            CandidatesAt(spans[s], LevelsInOrder[i]) = CandidatesAt(spans[t], LevelsInOrder[i])
      BY <2>3, <3>1
    <3>3. {i \in DOMAIN LevelsInOrder : CandidatesAt(spans[s], LevelsInOrder[i]) # {}}
            = {i \in DOMAIN LevelsInOrder : CandidatesAt(spans[t], LevelsInOrder[i]) # {}}
      BY <3>2
    <3> DEFINE found == {i \in DOMAIN LevelsInOrder : CandidatesAt(spans[s], LevelsInOrder[i]) # {}}
    <3>4. CASE found = {}
      BY <3>3, <3>4 DEF Attribute
    <3>5. CASE found # {}
      <4>1. Min(found) \in DOMAIN LevelsInOrder
        <5>1. DOMAIN LevelsInOrder = {1, 2, 3}
          BY DEF LevelsInOrder
        <5>2. found \subseteq {1, 2, 3}
          BY <5>1
        <5>3. Min(found) \in found
          <6> HIDE DEF found
          <6> QED
            BY <3>5, <5>2, FirstOfThree
        <5> QED
          BY <5>3
      <4> QED
        BY <3>2, <3>3, <3>5, <4>1 DEF Attribute
    <3> QED
      BY <3>4, <3>5
  <2>6. Attribute(spans[s])[1] \in {"session", "device"}
    <3>1. "device" \in Levels
      BY DEF Levels, LevelsInOrder, ToSet
    <3> QED
      BY <2>4, <3>1, AttributeIs
  <2> QED
    BY <2>5, <2>6
<1> QED
  BY <1>1, JourneyInvariant, CorrelatorInvariant, PTL
=============================================================================
