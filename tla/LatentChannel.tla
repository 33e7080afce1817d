---------------------------- MODULE LatentChannel ----------------------------
(***************************************************************************)
(* The latent chain and what is made of it shard by shard: the checkpoints *)
(* `generate` computes once, the slice of ticks each shard holds (longer   *)
(* than the shard, since journeys run on past its end, and simulated anew, *)
(* longer, when one runs past the slice), the state log of the twin, and   *)
(* the metrics channel of `derive`, one shard behind the simulation.       *)
(*                                                                         *)
(* A shard is named by its first tick.  The shards of `generate` share     *)
(* nothing, so they are run in order here.                                 *)
(***************************************************************************)
EXTENDS Integers

CONSTANTS
  Nodes,       \* load, pool, cache and health of the services and operations
  Intensity,   \* the series of the traffic's intensity, no node of the chain
  Levels, Nominal,
  None,        \* no previous level, no shard pending
  Exposed,     \* the series that the metrics variant exposes
  NumTicks,    \* ticks of the window
  ShardTicks,
  Scrape,      \* ticks between two scrapes
  Spill,       \* the allowance for journeys that run on
  Margin,      \* added to what a journey asked for: SPILL_RETRY_MARGIN
  MaxTries,    \* SPILL_RETRY_MAX
  LastTick,    \* bound: the last tick a journey may ask for
  Moves,       \* what the draws of a tick may do to the chain
  Days,        \* profiles of the intensity
  Faults       \* the faults a configuration may schedule

State  == [Nodes -> Levels]
Series == Nodes \cup {Intensity}
Row    == [Series -> Levels]
Ticks  == 0 .. LastTick
Fault  == [nodes : SUBSET Nodes, level : Levels, lo : Int, hi : Int]
Change == [tick : Ticks, series : Series, value : Levels, previous : Levels]
Shard  == [lo : Ticks, hi : Ticks \cup {LastTick + 1}, rows : [Ticks -> Row],
           before : [Series -> Levels \cup {None}]]

ASSUME ChannelAssumption ==
  /\ Intensity \notin Nodes /\ Nominal \in Levels /\ None \notin Levels \cup Row \cup Shard /\ Exposed \subseteq Series
  /\ {NumTicks, ShardTicks, Scrape, MaxTries} \subseteq Nat \ {0}
  /\ {Spill, Margin, LastTick} \subseteq Nat
  /\ ShardTicks <= NumTicks /\ ShardTicks % Scrape = 0   \* checked by config.py and scrape_ticks
  /\ NumTicks + Spill <= LastTick + 1
  /\ Moves \subseteq [State -> State] /\ Days \subseteq [Ticks -> Levels] /\ Faults \subseteq Fault

VARIABLES
  draw, day, fault,   \* what seed and configuration decide
  truth,              \* the chain over one long run, fault applied
  pc,
  lo, hi,             \* the slice being simulated, hi exclusive
  at, state,          \* its next tick, and the chain before it
  row,                \* row[t]: the levels at tick t of the slice
  checkpoint, saved,  \* checkpoint[t]: the chain before the shard at t, for t in saved
  tries,              \* simulations of the shard that were too short
  log,                \* the twin's log: changes, with their shard
  prev,               \* the levels before the metrics' slice
  pending,            \* the shard of the metrics that waits for the next one's first row
  changes, samples    \* what the metrics' shards hold

inputs == <<draw, day, fault, truth>>
slice == <<lo, hi, at, state, row>>
parent == <<checkpoint, saved>>
output == <<prev, pending, changes, samples>>
vars == <<inputs, pc, slice, parent, tries, log, output>>

AllNominal == [n \in Nodes |-> Nominal]
Before(f, t) == IF t = 0 THEN AllNominal ELSE f[t - 1]
End(l) == IF l + ShardTicks <= NumTicks THEN l + ShardTicks ELSE NumTicks

(***************************************************************************)
(* simulate_latents: a fault that meets the slice overrides its nodes over *)
(* its own ticks, and the chain goes on from the forced levels.            *)
(***************************************************************************)
Forced(t, s) ==
  IF fault.lo <= t /\ t < fault.hi
  THEN [n \in Nodes |-> IF n \in fault.nodes THEN fault.level ELSE s[n]] ELSE s

Advance(t, s, active) == LET moved == draw[t][s] IN IF active THEN Forced(t, moved) ELSE moved

\* Mutant: a fault under way when the slice begins is not among its forcings.
Active_Starts(l, h) == fault.lo >= l /\ fault.lo < h

Active(l, h) == fault.hi > l /\ fault.lo < h

Levelled(s, t) == [x \in Series |-> IF x = Intensity THEN day[t] ELSE s[x]]

IsRun(f) == \A t \in Ticks : f[t] = Advance(t, Before(f, t), TRUE)

Init ==
  /\ draw \in [Ticks -> Moves] /\ day \in Days /\ fault \in Faults
  /\ truth \in {f \in [Ticks -> State] : IsRun(f)}
  /\ pc = "checkpoints"
  /\ lo = 0 /\ hi = 0 /\ at = 0 /\ state = AllNominal
  /\ row = [t \in Ticks |-> [x \in Series |-> Nominal]]
  /\ checkpoint = [t \in Ticks |-> AllNominal] /\ saved = {}
  /\ tries = 0 /\ log = {}
  /\ prev = [x \in Series |-> IF x = Intensity THEN None ELSE Nominal]
  /\ pending = None /\ changes = {} /\ samples = {}

Tick ==
  /\ pc \in {"checkpoints", "slice", "metrics"} /\ at < hi
  /\ LET after == Advance(at, state, Active(lo, hi))
     IN  /\ state' = after
         /\ row' = [row EXCEPT ![at] = Levelled(after, at)]
  /\ at' = at + 1
  /\ UNCHANGED <<inputs, pc, lo, hi, parent, tries, log, output>>

Simulate(l, h, from) == lo' = l /\ hi' = h /\ at' = l /\ state' = from /\ UNCHANGED row

(***************************************************************************)
(* generate.                                                               *)
(***************************************************************************)
\* shard_checkpoints: the chain before each shard, in one sequential pass.
SaveCheckpoint ==
  /\ pc = "checkpoints" /\ at = hi
  /\ checkpoint' = [checkpoint EXCEPT ![hi] = state] /\ saved' = saved \cup {hi}
  /\ IF hi + ShardTicks < NumTicks
     THEN Simulate(hi, hi + ShardTicks, state) /\ UNCHANGED pc
     ELSE Simulate(0, End(0) + Spill, checkpoint'[0]) /\ pc' = "slice"
  /\ UNCHANGED <<inputs, tries, log, output>>

\* The changes of a slice, each with its level and the one before; the first
\* tick's are against `before`, and none where that is not known.
Changes(l, h, rows, before) ==
  {c \in [tick : l .. h - 1, series : Series, value : Levels, previous : Levels] :
     /\ c.value = rows[c.tick][c.series]
     /\ c.previous = IF c.tick = l THEN before[c.series] ELSE rows[c.tick - 1][c.series]
     /\ c.value # c.previous}

\* The twin's log does not know the levels before the shard: it starts from
\* nominal, and from no intensity.
Anchor == [x \in Series |-> IF x = Intensity THEN None ELSE Nominal]

\* Mutant: it starts from the shard's checkpoint.
TwinLog_Checkpoint ==
  {[shard |-> lo, change |-> c] :
     c \in {d \in Changes(lo, hi, row, [x \in Series |-> IF x = Intensity THEN None
                                                         ELSE checkpoint[lo][x]]) :
              lo <= d.tick /\ d.tick < End(lo)}}

\* The changes of the slice that are within the shard.
TwinLog == {[shard |-> lo, change |-> c] :
              c \in {d \in Changes(lo, hi, row, Anchor) : lo <= d.tick /\ d.tick < End(lo)}}

\* The journeys of the shard end within the slice.
RunShard ==
  /\ pc = "slice" /\ at = hi
  /\ log' = log \cup TwinLog
  /\ tries' = 0
  /\ IF lo + ShardTicks < NumTicks
     THEN /\ Simulate(lo + ShardTicks, End(lo + ShardTicks) + Spill, checkpoint[lo + ShardTicks])
          /\ UNCHANGED pc
     ELSE Simulate(0, End(0), AllNominal) /\ pc' = "metrics"
  /\ UNCHANGED <<inputs, parent, output>>

\* A journey needs tick n, which the slice does not hold (SpillExceeded).
OutrunSlice(n) ==
  /\ pc = "slice" /\ at = hi /\ n >= hi
  /\ IF tries = MaxTries - 1
     THEN pc' = "failed" /\ UNCHANGED <<slice, tries>>
     ELSE /\ n + Margin <= LastTick
          /\ LET needed == (n - lo + 1) - (End(lo) - lo) + Margin
             IN  Simulate(lo, End(lo) + needed, checkpoint[lo])
          /\ tries' = tries + 1 /\ UNCHANGED pc
  /\ UNCHANGED <<inputs, parent, log, output>>

(***************************************************************************)
(* derive_metrics.                                                         *)
(***************************************************************************)
\* Mutant: the scrape before the change.
NextScrape_Floor(t) == (t \div Scrape) * Scrape

NextScrape(t) == ((t + Scrape - 1) \div Scrape) * Scrape

\* Whether the next scrape shows the change: it may be the next shard's first.
Visible(c, p, next) ==
  LET g == NextScrape(c.tick)
  IN  IF g < p.hi THEN p.rows[g][c.series] = c.value
      ELSE IF next # None THEN next[c.series] = c.value ELSE None

Flush(p, next) ==
  /\ changes' = changes \cup {[change |-> c, visible |-> Visible(c, p, next)] :
                                c \in Changes(p.lo, p.hi, p.rows, p.before)}
  /\ samples' = samples \cup {s \in [tick : p.lo .. p.hi - 1, series : Exposed, value : Levels] :
                                s.tick % Scrape = 0 /\ s.value = p.rows[s.tick][s.series]}

\* Mutant: the levels before the shard are not passed on.
MetricsShard_Anchored ==
  /\ pc = "metrics" /\ at = hi
  /\ IF pending = None THEN UNCHANGED <<changes, samples>> ELSE Flush(pending, row[lo])
  /\ pending' = [lo |-> lo, hi |-> hi, rows |-> row, before |-> prev]
  /\ UNCHANGED prev
  /\ IF hi < NumTicks THEN Simulate(hi, End(hi), state) /\ UNCHANGED pc
     ELSE UNCHANGED slice /\ pc' = "flush"
  /\ UNCHANGED <<inputs, parent, tries, log>>

\* A shard is simulated: the one before it now has its next row.
MetricsShard ==
  /\ pc = "metrics" /\ at = hi
  /\ IF pending = None THEN UNCHANGED <<changes, samples>> ELSE Flush(pending, row[lo])
  /\ pending' = [lo |-> lo, hi |-> hi, rows |-> row, before |-> prev]
  /\ prev' = row[hi - 1]
  /\ IF hi < NumTicks THEN Simulate(hi, End(hi), state) /\ UNCHANGED pc
     ELSE UNCHANGED slice /\ pc' = "flush"
  /\ UNCHANGED <<inputs, parent, tries, log>>

FlushLast ==
  /\ pc = "flush"
  /\ Flush(pending, None)
  /\ pc' = "done"
  /\ UNCHANGED <<inputs, slice, parent, tries, log, prev, pending>>

Next ==
  \/ Tick
  \/ SaveCheckpoint
  \/ RunShard
  \/ \E n \in Ticks : OutrunSlice(n)
  \/ MetricsShard
  \/ FlushLast

Spec == Init /\ [][Next]_vars

(***************************************************************************)
(* The properties.                                                         *)
(***************************************************************************)
TypeOK ==
  /\ draw \in [Ticks -> Moves] /\ day \in Days /\ fault \in Faults /\ truth \in [Ticks -> State]
  /\ pc \in {"checkpoints", "slice", "metrics", "flush", "done", "failed"}
  /\ {lo, hi, at} \subseteq 0 .. LastTick + 1 /\ state \in State /\ row \in [Ticks -> Row]
  /\ checkpoint \in [Ticks -> State] /\ saved \subseteq Ticks /\ tries \in 0 .. MaxTries - 1
  /\ log \subseteq [shard : Ticks, change : Change]
  /\ prev \in [Series -> Levels \cup {None}] /\ pending \in Shard \cup {None}
  /\ changes \subseteq [change : Change, visible : BOOLEAN \cup {None}]
  /\ samples \subseteq [tick : Ticks, series : Series, value : Levels]

\* Every slice holds, at every tick, what one long run has there: wherever the
\* shards are cut, however long the slice, and whenever a fault began.
SlicesAgree == \A t \in lo .. at - 1 : row[t] = Levelled(truth[t], t)

\* What the metrics' change log holds of the chain is what changed in the
\* window, once each, wherever it was cut; of the intensity, after tick 0.
TrueChanges == Changes(0, NumTicks, [t \in Ticks |-> Levelled(truth[t], t)], Anchor)
ChangesAreTrue == pc = "done" => {c.change : c \in changes} = TrueChanges

\* A change is visible exactly when the next scrape's sample shows it, also where
\* that is another shard's; it is unresolved only if no scrape follows.
VisibleIsSampled ==
  pc = "done" =>
    \A c \in changes :
      LET later == {g \in c.change.tick .. NumTicks - 1 : g % Scrape = 0}
          next == CHOOSE g \in later : \A h \in later : g <= h
      IN  IF later = {} THEN c.visible = None
          ELSE /\ c.visible \in BOOLEAN
               /\ c.change.series \in Exposed =>
                    (c.visible <=> [tick |-> next, series |-> c.change.series,
                                    value |-> c.change.value] \in samples)

\* Read from nominal, the twin's log of a shard gives every node's level at
\* every tick of the shard.
Replayed(l, n, t) ==
  LET seen == {e \in log : e.shard = l /\ e.change.series = n /\ e.change.tick <= t}
  IN  IF seen = {} THEN Nominal
      ELSE (CHOOSE e \in seen : \A d \in seen : d.change.tick <= e.change.tick).change.value
TwinReplays ==
  pc = "done" => \A l \in saved, n \in Nodes : \A t \in l .. End(l) - 1 : Replayed(l, n, t) = truth[t][n]

=============================================================================
