------------------------------- MODULE MCScore -------------------------------
(***************************************************************************)
(* Score for TLC.  Targets that orientation is about have four operations  *)
(* with a token each, and only their own self check is scored.  Targets    *)
(* that ranking is about have two operations with three tokens, a state    *)
(* token, 4, and a token outside the alphabet, 5.                          *)
(***************************************************************************)
EXTENDS Score, TLC

Some(S, n) == {x \in SUBSET S : Cardinality(x) <= n}
Weighted(S, n, V) == UNION {[E -> V] : E \in Some(S, n)}

Four == 1 .. 4
Dags == {E \in SUBSET {p \in Four \X Four : p[1] # p[2]} :
           (\A p \in E : <<p[2], p[1]>> \notin E) /\ IsAcyclic(E)}
DagTargets ==
  {[tokens |-> Four, op |-> [t \in Four |-> t], var |-> [t \in Four |-> 0],
    pairs |-> {{a, b} : a, b \in Four}, directed |-> [e \in E |-> 1],
    bidirected |-> <<>>, hidden |-> {}] : E \in Dags}

RankTargets ==
  {[tokens |-> Four, op |-> (1 :> 1) @@ (2 :> 1) @@ (3 :> 2) @@ (4 :> 0) @@ (5 :> 2),
    var |-> [t \in 1 .. 5 |-> 0], pairs |-> {{1, 2}}, directed |-> D,
    bidirected |-> B, hidden |-> {"load"}] :
      D \in Weighted({<<1, 3>>, <<3, 1>>, <<4, 3>>, <<5, 1>>}, 2, {1, 2}),
      B \in Weighted({<<1, 3>>}, 1, {1})}

RankPredictions ==
  {[directed |-> D, bidirected |-> B] :
      D \in Weighted({<<1, 3>>, <<3, 1>>, <<2, 3>>, <<4, 3>>, <<1, 2>>}, 2, {-1, 1, 2}),
      B \in Weighted({<<1, 3>>}, 1, {-1, 1})}

AllTargets == DagTargets \cup RankTargets
PredictionsFor(g) == IF g.hidden = {} THEN {} ELSE RankPredictions
=============================================================================
