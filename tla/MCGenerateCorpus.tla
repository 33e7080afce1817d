-------------------------- MODULE MCGenerateCorpus --------------------------
(***************************************************************************)
(* GenerateCorpus for TLC.                                                 *)
(***************************************************************************)
EXTENDS GenerateCorpus, TLC

CONSTANTS v1, v2, w1, w2

Generate(v, resume, stop, parallel, correlate, override) ==
  [cmd |-> "generate", ver |-> v, resume |-> resume, stop |-> stop,
   parallel |-> parallel, correlate |-> correlate, override |-> override]

Correlate(v) ==
  [cmd |-> "correlate", ver |-> v, resume |-> FALSE, stop |-> -1,
   parallel |-> FALSE, correlate |-> FALSE, override |-> FALSE]

TwoVersions == {v1, v2}
\* v1 has a regime more than v2, and v2 a partition more than v1.
RegimeOrDate == [v \in Versions |->
                  [a \in Aux |-> IF <<v, a>> \in {<<v1, "graphs">>, <<v2, "views">>}
                                 THEN AllPieces ELSE {Fixed}]]
TwoShards   == [v \in Versions |-> 2]
TwoWorkers  == {w1, w2}
NoVersion   == {}
BigVersion  == {v2}

\* Full runs with the pool, fresh and resumed.
FullRuns == {Generate(v, resume, -1, TRUE, TRUE, FALSE) : v \in Versions, resume \in BOOLEAN}

\* Runs without the pool: fresh ones that stop after the first shard, resumed ones
\* that skip the correlator; and the correlator on its own.
PartialRuns ==
  {Generate(v, FALSE, 0, FALSE, TRUE, FALSE) : v \in Versions}
    \cup {Generate(v, TRUE, -1, FALSE, FALSE, TRUE) : v \in Versions}
    \cup {Correlate(v) : v \in Versions}

AllRuns    == FullRuns \cup PartialRuns

\* Full runs, the resumed ones with and without --override-cap.
OverCapRuns ==
  {Generate(v, FALSE, -1, TRUE, TRUE, FALSE) : v \in Versions}
    \cup {Generate(v, TRUE, -1, parallel, FALSE, override) :
             v \in Versions, parallel \in BOOLEAN, override \in BOOLEAN}

\* And runs that stop after the first shard.
LiveRuns == OverCapRuns \cup {Generate(v, TRUE, 0, FALSE, TRUE, FALSE) : v \in Versions \ OverCap}

\* Workers take no part in any order.
Symmetry == Permutations(TwoWorkers)
=============================================================================
