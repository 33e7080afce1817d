---------------------------- MODULE MCDatasetHost ----------------------------
(***************************************************************************)
(* DatasetHost for TLC: a corpus is a shard, perhaps a view, its manifest  *)
(* and its marker.                                                         *)
(***************************************************************************)
EXTENDS DatasetHost, TLC

CONSTANTS a, b, u1, u2, f1, f2, t1, shard, view, v1, v2

OneData     == {shard}
TwoData     == {shard, view}
InPlace     == {Manifest, Complete}
TwoVersions == {v1, v2}
OneOwner    == [u \in Uploaders |-> Corpora]
OwnsOne     == [u \in Uploaders |-> {a}]

NoLeftovers  == {Nothing}

\* Versions take no part in any order.
Symmetry == Permutations(Versions)
=============================================================================
