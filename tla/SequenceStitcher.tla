-------------------------- MODULE SequenceStitcher --------------------------
(***************************************************************************)
(* The correlator's SequenceStitcher: the records of a corpus, read one    *)
(* shard at a time, are put together into sequences, one group of records  *)
(* (an attribution level and a key) at a time.  A session's records form   *)
(* one sequence; a device's, a user's or an address's are cut where they   *)
(* are silent for longer than the gap, and a run of them is closed once no *)
(* record still to be read can join it.                                    *)
(*                                                                         *)
(* A record is known here by its group, its time stamp and its shard.  A   *)
(* shard's journeys may last beyond its end, so that only its beginning    *)
(* bounds the time stamps of what it holds, and the clocks that wrote them *)
(* are off by no more than Margin.                                         *)
(***************************************************************************)
EXTENDS Integers, FiniteSets, SequencesExt

CONSTANTS
  Records,        \* the attributed records of the corpus
  Groups,         \* pairs of an attribution level and a key
  SessionGroups,  \* those of the session level
  GroupOf,        \* [Records -> Groups]
  NumShards,
  ShardLen,       \* shard_ms
  Margin,         \* SKEW_MARGIN_MS
  Gap,            \* gap_ms
  Bucket,         \* the first-minute bucket of a sequence id
  LatestTs        \* bound: the last time stamp

Shards == 0 .. (NumShards - 1)
Stamps == -Margin .. LatestTs

ASSUME StitcherAssumption ==
  /\ IsFiniteSet(Records)
  /\ GroupOf \in [Records -> Groups]
  /\ SessionGroups \subseteq Groups
  /\ NumShards \in Nat \ {0} /\ ShardLen \in Nat \ {0}
  /\ Margin \in Nat /\ LatestTs \in Nat
  /\ Bucket \in Nat \ {0} /\ Gap \in Nat /\ Gap >= Bucket

VARIABLES
  feed,       \* feed[r]: the time stamp and the shard of record r
  present,    \* the shards that have a marker
  read,       \* the shards the correlator has read
  open,       \* open[g]: the records of group g's open runs
  closed,     \* the sequences
  done        \* close_all has run

vars == <<feed, present, read, open, closed, done>>

At(r) == feed[r].ts
Of(g) == {r \in Records : GroupOf[r] = g}
In(k) == {r \in Records : feed[r].shard = k}

(***************************************************************************)
(* Runs of a group's records.                                              *)
(***************************************************************************)
\* The records of M after which the group is silent for longer than the gap.
Ends(M) == {z \in M : \A y \in M : At(y) > At(z) => At(y) - At(z) > Gap}

\* Two records are in the same run when no end comes between them.
SameRun(M, x, y) == \A z \in Ends(M) : At(x) <= At(z) <=> At(y) <= At(z)
Runs(M) == {{y \in M : SameRun(M, x, y)} : x \in M}

\* The code's loop: the records sorted by time and span id, one after another, each
\* joined to the last run so far or else begun a run with.
Before(a, b, id) == At(a) < At(b) \/ (At(a) = At(b) /\ id[a] < id[b])
Latest(M, id) == CHOOSE m \in M : \A a \in M \ {m} : Before(a, m, id)

\* Mutant: the silence is measured from the run's first record.
Join_FromFirst(m, runs) ==
  IF runs # <<>> /\ At(m) - At(Last(runs)[1]) <= Gap
  THEN Front(runs) \o <<Append(Last(runs), m)>>
  ELSE Append(runs, <<m>>)

Join(m, runs) ==
  IF runs # <<>> /\ At(m) - At(Last(Last(runs))) <= Gap
  THEN Front(runs) \o <<Append(Last(runs), m)>>
  ELSE Append(runs, <<m>>)

Loop(M, id) == MapThenFoldSet(Join, <<>>, LAMBDA m : m, LAMBDA S : Latest(S, id), M)

Elements(q) == {q[j] : j \in DOMAIN q}
LoopRuns(M, id) == LET runs == Loop(M, id) IN {Elements(runs[i]) : i \in DOMAIN runs}

(***************************************************************************)
(* Sequences.                                                              *)
(***************************************************************************)
First(R) == Min({At(r) : r \in R})

\* A sequence's id depends on its group and on the bucket of its first record;
\* a session has one sequence.
Id(g, R) == IF g \in SessionGroups THEN <<g>> ELSE <<g, First(R) \div Bucket>>

Sequence(g, R) == [group |-> g, id |-> Id(g, R), members |-> R]

\* The runs of M to close when no record after those of `quiet` can be joined
\* by one still to be read.  Once a run stays open, later ones do too.
Closing(g, M, quiet) ==
  IF g \in SessionGroups THEN {M} \ {{}}
  ELSE {R \in Runs(M) : {m \in M : \E r \in R : At(m) <= At(r)} \subseteq quiet}

(***************************************************************************)
(* Reading the shards.                                                     *)
(***************************************************************************)
Cells == {c \in [ts : Stamps, shard : Shards] : c.ts >= c.shard * ShardLen - Margin}

\* A session's records all lie in the shard of its arrival.
Feeds == {f \in [Records -> Cells] :
            \A r, s \in Records :
              GroupOf[r] = GroupOf[s] /\ GroupOf[r] \in SessionGroups =>
                f[r].shard = f[s].shard}

Init ==
  /\ feed \in Feeds
  /\ present \in {P \in SUBSET Shards : \A r \in Records : feed[r].shard \in P}
  /\ read = {}
  /\ open = [g \in Groups |-> {}]
  /\ closed = {}
  /\ done = FALSE

\* Mutants: no margin for the clocks' skew; the shard's beginning taken for its
\* end.
Quiet_NoMargin(k) == {r \in Records : At(r) + Gap < (k + 1) * ShardLen}
Quiet_ShardStart(k) == {r \in Records : At(r) + Gap < k * ShardLen - Margin}

\* Once shard k has been read, every record stamped before its end, less the
\* margin, has been read.
Quiet(k) == {r \in Records : At(r) + Gap < (k + 1) * ShardLen - Margin}

Stitch(fresh, quiet) ==
  LET M(g) == open[g] \cup (Of(g) \cap fresh)
      C(g) == Closing(g, M(g), quiet)
  IN /\ closed' = closed \cup UNION {{Sequence(g, R) : R \in C(g)} : g \in Groups}
     /\ open' = [g \in Groups |-> M(g) \ UNION C(g)]

AddShard(k) ==
  /\ k \in present \ read
  /\ \A j \in present \ read : k <= j
  /\ read' = read \cup {k}
  /\ Stitch(In(k), Quiet(k))
  /\ UNCHANGED <<feed, present, done>>

CloseAll ==
  /\ read = present
  /\ ~done
  /\ done' = TRUE
  /\ Stitch({}, Records)
  /\ UNCHANGED <<feed, present, read>>

Next == CloseAll \/ \E k \in Shards : AddShard(k)

Spec == Init /\ [][Next]_vars

(***************************************************************************)
(* The properties.                                                         *)
(***************************************************************************)
TypeOK ==
  /\ feed \in Feeds
  /\ present \in SUBSET Shards
  /\ read \subseteq present
  /\ open \in [Groups -> SUBSET Records]
  /\ closed \subseteq {Sequence(g, R) : g \in Groups, R \in (SUBSET Records) \ {{}}}
  /\ done \in BOOLEAN

\* What the stitcher would give for a corpus of a single shard.
Whole(g) == Closing(g, Of(g), Records)
OneShard == UNION {{Sequence(g, R) : R \in Whole(g)} : g \in Groups}

\* "They do not depend on how the corpus is sharded" (the class's doc string):
\* whatever shards the records are cut into, the sequences in the end are those
\* of one shard.
ShardingIndependent == done => closed = OneShard

\* Sequence ids tell sequences apart.
DistinctIds == \A s, t \in closed : s.id = t.id => s = t

\* "Memory is bounded": a run stays open only while a record stamped after
\* what is known may still join it; sessions never stay open.
OpenRunsAreRecent ==
  \A g \in Groups : \A R \in Runs(open[g]) :
    g \notin SessionGroups /\ \A k \in read : \E r \in R : At(r) + Gap >= (k + 1) * ShardLen - Margin

\* The code's loop, whatever the order of the span ids, cuts a group's records
\* into the runs of the definition.
SpanIds == {id \in [Records -> 1 .. Cardinality(Records)] :
              \A r, s \in Records : r # s => id[r] # id[s]}
LoopGivesRuns ==
  read = {} => \A id \in SpanIds, g \in Groups : LoopRuns(Of(g), id) = Runs(Of(g))
=============================================================================
