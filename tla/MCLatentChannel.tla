--------------------------- MODULE MCLatentChannel ---------------------------
(***************************************************************************)
(* LatentChannel for TLC: one node of two levels, which a tick keeps or    *)
(* flips, and an intensity that changes once.                              *)
(***************************************************************************)
EXTENDS LatentChannel

CONSTANT n1

Flip == [s \in State |-> [n \in Nodes |-> 1 - s[n]]]
Stay == [s \in State |-> s]
StayOrFlip == {Stay, Flip}

OneChange == {[t \in Ticks |-> IF t < from THEN 0 ELSE 1] : from \in Ticks}

Outage(from, to) == [nodes |-> {n1}, level |-> 1, lo |-> from, hi |-> to]
Outages == {Outage(0, 0), Outage(1, 3), Outage(2, 4), Outage(3, 5)}
=============================================================================
