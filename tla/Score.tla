-------------------------------- MODULE Score --------------------------------
(***************************************************************************)
(* The scorer: predictions are scored against one target, at one floor     *)
(* after another, with a context that keeps what depends on the target     *)
(* alone.  The sparse path looks at the predicted pairs and the true ones; *)
(* the dense path, the reference it must equal, walks the whole universe.  *)
(*                                                                         *)
(* Tokens are numbers, in the order of their names.  A rank is kept        *)
(* doubled and an average precision as the places of the positives, so     *)
(* that all arithmetic is on integers.                                     *)
(***************************************************************************)
EXTENDS Cpdag, FiniteSetsExt, Functions

CONSTANTS
  Targets,         \* the targets, each with its alphabet
  Floors,
  Predictions(_)   \* the predictions made for a target

\* A target is [tokens, op, var, pairs, directed, bidirected, hidden]: its alphabet,
\* the operation of a token (0 of a state token) and its state variable, the pairs
\* of operations in support, the strengths of its edges and what it hides.  A
\* prediction is [directed, bidirected]: the scores of its edges.
AreEdges(s) == IsFiniteSet(DOMAIN s) /\ s \in [DOMAIN s -> Int] /\ DOMAIN s \subseteq Int \X Int

\* build_targets keeps edges of positive strength, and writes a bidirected one once.
ASSUME TargetAssumption ==
  /\ Floors \subseteq Int
  /\ \A g \in Targets :
       /\ IsFiniteSet(g.tokens) /\ g.tokens \subseteq Int
       /\ AreEdges(g.directed) /\ \A e \in DOMAIN g.directed : g.directed[e] > 0
       /\ AreEdges(g.bidirected)
       /\ \A e \in DOMAIN g.bidirected : g.bidirected[e] > 0 /\ e[1] < e[2]
       /\ \A pred \in Predictions(g) : AreEdges(pred.directed) /\ AreEdges(pred.bidirected)

Key(a, b) == IF a < b THEN <<a, b>> ELSE <<b, a>>
Skeleton(D, B) == {Key(e[1], e[2]) : e \in D} \cup B
Before(p, q) == p[1] < q[1] \/ (p[1] = q[1] /\ p[2] < q[2])

VARIABLES
  target,
  ordered,     \* the context: the universe, as ordered pairs of tokens
  truths,      \* the context: what is kept of each floor scored so far
  result       \* the last score, with what it was computed from

scoreVars == <<target, ordered, truths, result>>

-----------------------------------------------------------------------------
\* ordered pairs of tokens of two operations in support, and of a state token with
\* the tokens of the operations its variable reaches in the target.
Reached(g, v) == {g.op[e[2]] : e \in {x \in DOMAIN g.directed : g.op[x[1]] = 0 /\ g.var[x[1]] = v}}

Universe(g) ==
  {p \in g.tokens \X g.tokens :
     LET a == g.op[p[1]] b == g.op[p[2]] IN
     IF a = 0 THEN b # 0 /\ b \in Reached(g, g.var[p[1]]) ELSE {a, b} \in g.pairs}

Unordered == {Key(p[1], p[2]) : p \in ordered}

AtFloor(edges, floor) == {e \in DOMAIN edges : edges[e] >= floor}

\* ScoreContext.truth: what a floor keeps of the target.
Truth(floor) ==
  LET td == AtFloor(target.directed, floor)
      tb == AtFloor(target.bidirected, floor)
      acyclic == IsAcyclic(td)
      skel == Skeleton(td, tb)
  IN [td |-> td, tb |-> tb, skel |-> skel, acyclic |-> acyclic,
      compelled |-> IF acyclic THEN CompelledEdges(td) ELSE {},
      idxD |-> td \cap ordered, idxS |-> skel \cap Unordered, idxB |-> tb \cap Unordered]

-----------------------------------------------------------------------------
(***************************************************************************)
(* Counts.                                                                 *)
(***************************************************************************)
Prf(T, P) == [tp |-> Cardinality(T \cap P), fp |-> Cardinality(P \ T), fn |-> Cardinality(T \ P)]

PairState(k, D, B) == <<k \in D, <<k[2], k[1]>> \in D, k \in B>>
Differ(K, t, D, B) ==
  Cardinality({k \in K : PairState(k, t.td, t.tb) # PairState(k, D, B)})

\* Pairs of both skeletons where the truth has one direction and no latent.
Judged(t, S) == {e \in t.td : /\ Key(e[1], e[2]) \in t.skel \cap S
                              /\ <<e[2], e[1]>> \notin t.td /\ Key(e[1], e[2]) \notin t.tb}
Orientation(t, D, S) ==
  LET J == Judged(t, S)
      ok == {e \in J : e \in D /\ <<e[2], e[1]>> \notin D}
  IN [n |-> Cardinality(J), ok |-> Cardinality(ok),
      compelled |-> Cardinality(J \cap t.compelled),
      compelledOk |-> Cardinality(ok \cap t.compelled)]

\* The k best-scored predicted edges, ties by name.
TopK(k, score) ==
  {e \in DOMAIN score :
     Cardinality({f \in DOMAIN score : \/ score[f] > score[e]
                                       \/ score[f] = score[e] /\ Before(f, e)}) < k}

-----------------------------------------------------------------------------
(***************************************************************************)
(* Ranking axes over a universe U: the positives Y and the scores s of the *)
(* pairs, those without a score at zero.                                   *)
(***************************************************************************)
None == -1
Value(s, p) == IF p \in DOMAIN s THEN s[p] ELSE 0

\* The doubled rank sum of the positives, a tie sharing its mean rank.
RankSumDense(U, Y, s) ==
  LET Rank(p) == 2 * Cardinality({q \in U : Value(s, q) < Value(s, p)})
                   + Cardinality({q \in U : Value(s, q) = Value(s, p)}) + 1
  IN IF Y = {} \/ Y = U THEN None ELSE SumFunction([p \in Y |-> Rank(p)])

\* The places of the positives in descending order of score, ties by position.
PlacesDense(U, Y, s) ==
  {Cardinality({q \in U : \/ Value(s, q) > Value(s, p)
                          \/ Value(s, q) = Value(s, p) /\ Before(q, p)}) : p \in Y}

\* The same two from the pairs with a score other than zero alone: the pairs at zero
\* are one block of size z.
Explicit(s) == {p \in DOMAIN s : s[p] # 0}

RankSumSparse(U, Y, s) ==
  LET E == Explicit(s)
      z == Cardinality(U) - Cardinality(E)
      below == Cardinality({p \in E : s[p] < 0})
      RankE(p) == LET first == Cardinality({q \in E : s[q] < s[p]}) + (IF s[p] > 0 THEN z ELSE 0)
                      ties == Cardinality({q \in E : s[q] = s[p]})
                  IN first + (first + ties - 1) + 2
      zeroRank == below + (below + z - 1) + 2
  IN IF Y = {} \/ Cardinality(Y) = Cardinality(U) THEN None
     ELSE SumFunction([p \in Y \cap E |-> RankE(p)]) + Cardinality(Y \ E) * zeroRank

PlacesSparse(U, Y, s) ==
  LET E == Explicit(s)
      z == Cardinality(U) - Cardinality(E)
      above == Cardinality({p \in E : s[p] > 0})
      PlaceE(p) == Cardinality({q \in E : s[q] > s[p] \/ (s[q] = s[p] /\ Before(q, p))})
                     + (IF s[p] > 0 THEN 0 ELSE z)
      Index(p) == Cardinality({q \in U : Before(q, p)})
      Slot(p) == Cardinality({q \in E : Before(q, p)})
  IN {PlaceE(p) : p \in Y \cap E} \cup {above + Index(p) - Slot(p) : p \in Y \ E}

\* The largest score of a pair in either direction or without one, zero included.
SkelScore(k, pd, pb) == Max({Value(pd, k), Value(pd, <<k[2], k[1]>>), Value(pb, k)})

-----------------------------------------------------------------------------
(***************************************************************************)
(* A score: t is the truth at a floor, axes compute the ranking axes and   *)
(* mixed counts the pairs that differ.                                     *)
(***************************************************************************)
Inside(s, U) == [p \in DOMAIN s \cap U |-> s[p]]
Outside(s, U) == Cardinality(DOMAIN s \ U)

Common(t, pred) ==
  LET pd == Inside(pred.directed, ordered)
      pb == Inside(pred.bidirected, Unordered)
      skel == Skeleton(DOMAIN pd, DOMAIN pb)
      top == TopK(Cardinality(t.td), pd)
  IN [pd |-> pd, pb |-> pb, skel |-> skel,
      counts |-> [outside |-> Outside(pred.directed, ordered) + Outside(pred.bidirected, Unordered),
                  directed |-> Prf(t.td, DOMAIN pd), skeleton |-> Prf(t.skel, skel),
                  bidirected |-> Prf(t.tb, DOMAIN pb),
                  orientation |-> Orientation(t, DOMAIN pd, skel),
                  shdTopK |-> Cardinality(SymDiff(t.td, top))]]

Score(t, c, mixed, Rank(_, _, _), Places(_, _, _)) ==
  LET O == ordered  U == Unordered
      ss == [k \in c.skel |-> SkelScore(k, c.pd, c.pb)]
  IN [counts |-> c.counts, shdMixed |-> Differ(mixed, t, DOMAIN c.pd, DOMAIN c.pb),
      ranks  |-> <<Rank(O, t.idxD, c.pd), Rank(U, t.idxS, ss), Rank(U, t.idxB, c.pb)>>,
      places |-> <<Places(O, t.idxD, c.pd), Places(U, t.idxS, ss), Places(U, t.idxB, c.pb)>>]

ScoreSparse(t, pred) ==
  LET c == Common(t, pred) IN
  Score(t, c, t.idxS \cup c.skel, RankSumSparse, PlacesSparse)

ScoreDense(floor, pred) ==
  LET t == Truth(floor)  c == Common(t, pred) IN
  Score(t, c, Unordered, RankSumDense, PlacesDense)

\* causal_validity: distances are defined between acyclic graphs with nothing hidden.
CausallyValid(floor, pred) ==
  /\ target.hidden = {}
  /\ IsAcyclic(AtFloor(target.directed, floor)) /\ IsAcyclic(DOMAIN pred.directed)

\* Mutant: an edge at the floor itself is left out.
AsPrediction_Above(floor) ==
  [directed   |-> [e \in AtFloor(target.directed, floor + 1) |-> target.directed[e]],
   bidirected |-> [e \in AtFloor(target.bidirected, floor + 1) |-> target.bidirected[e]]]

\* target_as_prediction: the edges at the floor, scored by their strength.
AsPrediction(floor) ==
  [directed   |-> [e \in AtFloor(target.directed, floor) |-> target.directed[e]],
   bidirected |-> [e \in AtFloor(target.bidirected, floor) |-> target.bidirected[e]]]

-----------------------------------------------------------------------------
NoResult == [floor |-> 0]

\* The context of a target.
InitContext == /\ target \in Targets /\ ordered = Universe(target)
               /\ truths = <<>> /\ result = NoResult

\* Mutant: the truth kept of the first floor serves the others.
Known_First(floor) ==
  IF DOMAIN truths = {} THEN Truth(floor) ELSE truths[CHOOSE f \in DOMAIN truths : TRUE]

\* A floor's truth is computed once and kept.
Known(floor) == IF floor \in DOMAIN truths THEN truths[floor] ELSE Truth(floor)

ScoreAtFloor(floor, pred) ==
  /\ result = NoResult
  /\ truths' = [f \in DOMAIN truths \cup {floor} |-> IF f = floor THEN Known(floor) ELSE truths[f]]
  /\ result' = [floor |-> floor, pred |-> pred, score |-> ScoreSparse(Known(floor), pred),
                causal |-> CausallyValid(floor, pred)]
  /\ UNCHANGED <<target, ordered>>

\* The caller takes the score.
Return == /\ result # NoResult /\ result' = NoResult
          /\ UNCHANGED <<target, ordered, truths>>

SelfCheck(floor) == ScoreAtFloor(floor, AsPrediction(floor))

ScoreNext == Return \/ \E floor \in Floors :
               SelfCheck(floor) \/ \E pred \in Predictions(target) : ScoreAtFloor(floor, pred)

ScoreSpec == InitContext /\ [][ScoreNext]_scoreVars

-----------------------------------------------------------------------------
(***************************************************************************)
(* Properties.                                                             *)
(***************************************************************************)
Scored == result # NoResult

\* The sparse path gives what the dense one gives, whatever was scored before it
\* with the same context: counts, ranks with ties, places and the mixed distance.
SparseIsDense == Scored => result.score = ScoreDense(result.floor, result.pred)

\* The edges an orientation is held to account for are those that all graphs with
\* the target's independences share.
CompelledIsShared ==
  \A f \in DOMAIN truths : truths[f].acyclic => truths[f].compelled = SharedEdges(truths[f].td)

\* The target scored against itself is perfect on every axis, when the alphabet
\* holds its tokens: nothing missed, nothing misoriented, every positive ranked
\* above every negative.
Perfect(U, Y, ranks) == ranks # None =>
  ranks - Cardinality(Y) * (Cardinality(Y) + 1) = 2 * Cardinality(Y) * Cardinality(U \ Y)
InAlphabet == /\ AtFloor(target.directed, result.floor) \subseteq ordered
              /\ AtFloor(target.bidirected, result.floor) \subseteq Unordered
SelfScorePerfect ==
  Scored /\ InAlphabet /\ result.pred = AsPrediction(result.floor) =>
    LET s == result.score  c == s.counts  t == truths[result.floor] IN
    /\ \A axis \in {c.directed, c.skeleton, c.bidirected} : axis.fp = 0 /\ axis.fn = 0
    /\ c.orientation.ok = c.orientation.n /\ c.shdTopK = 0
    /\ s.shdMixed = 0 /\ c.outside = 0
    /\ Perfect(ordered, t.idxD, s.ranks[1]) /\ Perfect(Unordered, t.idxS, s.ranks[2])
    /\ Perfect(Unordered, t.idxB, s.ranks[3])
=============================================================================
