--------------------------- MODULE MCDeriveCorpus ---------------------------
(***************************************************************************)
(* DeriveCorpus for TLC: the source is its record, one shard, a partition  *)
(* of a view and two graphs; v2 has one shard, one partition and one       *)
(* regime less than v1.                                                    *)
(***************************************************************************)
EXTENDS DeriveCorpus

CONSTANTS v1, v2, shard, partition, graph, regime

OneRecord   == {Inst, partition}
OneShard    == {shard}
TwoGraphs   == {graph, regime}
TwoVersions == {v1, v2}
HasFewer    == [v \in Versions |-> IF v = v1 THEN Source ELSE Source \ {partition, regime}]
OneShorter  == [v \in Versions |-> IF v = v1 THEN 2 ELSE 1]
=============================================================================
