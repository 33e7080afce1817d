------------------------ MODULE LatentChannel_proofs ------------------------
(***************************************************************************)
(* Theorems about LatentChannel, for any chain, draws, fault, window,      *)
(* shards, scrape period and allowance.                                    *)
(***************************************************************************)
EXTENDS LatentChannel, WellFoundedInduction, TLAPS

(***************************************************************************)
(* Slices: where the command is, and what it has from the chain.           *)
(***************************************************************************)
\* The phases keep their place in the window.
PlaceInv ==
  /\ lo <= at /\ at <= hi
  /\ pc = "checkpoints" => hi < NumTicks
  /\ pc = "slice" => lo < NumTicks
  /\ pc = "metrics" => lo < hi /\ hi <= NumTicks
  /\ pc = "flush" => pending \in Shard

\* There is a checkpoint at the start of each shard.
SavedInv ==
  /\ pc = "checkpoints" => /\ hi = 0 \/ 0 \in saved
                           /\ \A t \in saved : t + ShardTicks \in saved \/ t + ShardTicks = hi
  /\ pc = "slice" => /\ lo \in saved
                     /\ \A t \in saved : t + ShardTicks < NumTicks => t + ShardTicks \in saved

\* What is simulated starts from the chain, and so do the checkpoints.
ChainInv ==
  /\ IsRun(truth)
  /\ state = Before(truth, at)
  /\ \A t \in saved : checkpoint[t] = Before(truth, t)

ChannelInv == TypeOK /\ PlaceInv /\ SavedInv /\ ChainInv /\ SlicesAgree

LEMMA EndFacts ==
  ASSUME NEW l \in Nat, l < NumTicks
  PROVE  End(l) \in Nat /\ l < End(l) /\ End(l) <= NumTicks
BY ChannelAssumption DEF End

LEMMA AdvanceType ==
  ASSUME TypeOK, NEW t \in Ticks, NEW s \in State, NEW active \in BOOLEAN
  PROVE  Advance(t, s, active) \in State
<1>1. draw[t][s] \in State
  BY ChannelAssumption DEF TypeOK
<1>2. fault.level \in Levels
  BY ChannelAssumption DEF TypeOK, Fault
<1> QED
  BY <1>1, <1>2 DEF Advance, Forced, State

LEMMA LevelledType ==
  ASSUME TypeOK, NEW t \in Ticks, NEW s \in State
  PROVE  Levelled(s, t) \in Row
<1>1. day[t] \in Levels
  BY ChannelAssumption DEF TypeOK
<1> QED
  BY <1>1 DEF Levelled, Row, State, Series

LEMMA BeforeType ==
  ASSUME TypeOK, NEW t \in 0 .. LastTick + 1
  PROVE  Before(truth, t) \in State
<1>1. AllNominal \in State
  BY ChannelAssumption DEF AllNominal, State
<1>2. t # 0 => t - 1 \in Ticks
  BY ChannelAssumption DEF Ticks
<1> QED
  BY <1>1, <1>2 DEF Before, TypeOK

\* A fault that does not meet a slice forces nothing at its ticks.
LEMMA ActiveIsEnough ==
  ASSUME TypeOK, NEW t \in Ticks, lo <= t, t < hi, NEW s \in State
  PROVE  Advance(t, s, Active(lo, hi)) = Advance(t, s, TRUE)
<1>1. fault.lo \in Int /\ fault.hi \in Int /\ lo \in Int /\ hi \in Int /\ t \in Int
  BY ChannelAssumption DEF TypeOK, Fault, Ticks
<1> QED
  BY <1>1 DEF Advance, Active, Forced

(***************************************************************************)
(* What a slice's changes, samples and shards are made of.                 *)
(***************************************************************************)
LEMMA ChangesType ==
  ASSUME NEW l \in 0 .. LastTick + 1, NEW h \in 0 .. LastTick + 1, NEW rows, NEW before
  PROVE  Changes(l, h, rows, before) \subseteq Change
<1>1. l .. h - 1 \subseteq Ticks
  BY ChannelAssumption DEF Ticks
<1> QED
  BY <1>1 DEF Changes, Change

LEMMA FlushType ==
  ASSUME TypeOK, NEW p \in Shard, NEW next, Flush(p, next)
  PROVE  /\ changes' \subseteq [change : Change, visible : BOOLEAN \cup {None}]
         /\ samples' \subseteq [tick : Ticks, series : Series, value : Levels]
<1>1. p.lo \in 0 .. LastTick + 1 /\ p.hi \in 0 .. LastTick + 1
  BY ChannelAssumption DEF Shard, Ticks
<1>2. Changes(p.lo, p.hi, p.rows, p.before) \subseteq Change
  BY <1>1, ChangesType
<1>3. \A c : Visible(c, p, next) \in BOOLEAN \cup {None}
  BY DEF Visible
<1>4. p.lo .. p.hi - 1 \subseteq Ticks /\ Exposed \subseteq Series
  BY <1>1, ChannelAssumption DEF Ticks
<1> QED
  BY <1>2, <1>3, <1>4 DEF Flush, TypeOK

LEMMA ChannelInit == Init => ChannelInv
<1> SUFFICES ASSUME Init PROVE ChannelInv
  OBVIOUS
<1>1. TypeOK
  <2>1. AllNominal \in State
    BY ChannelAssumption DEF AllNominal, State
  <2>2. row \in [Ticks -> Row] /\ prev \in [Series -> Levels \cup {None}]
    BY ChannelAssumption DEF Init, Row
  <2>3. 0 \in 0 .. LastTick + 1 /\ tries \in 0 .. MaxTries - 1
    BY ChannelAssumption DEF Init
  <2> QED
    BY <2>1, <2>2, <2>3 DEF Init, TypeOK
<1>2. PlaceInv /\ SavedInv
  BY ChannelAssumption DEF Init, PlaceInv, SavedInv
<1>3. ChainInv
  BY DEF Init, ChainInv, Before
<1>4. SlicesAgree
  BY DEF Init, SlicesAgree
<1> QED
  BY <1>1, <1>2, <1>3, <1>4 DEF ChannelInv

(***************************************************************************)
(* The steps.                                                              *)
(***************************************************************************)
LEMMA TickStep ==
  ASSUME ChannelInv, Tick
  PROVE  ChannelInv'
<1> USE DEF ChannelInv
<1>1. at \in Ticks /\ lo \in Int /\ hi \in Int /\ at \in Int /\ 0 <= lo /\ lo <= at /\ at < hi
  BY ChannelAssumption DEF TypeOK, PlaceInv, Tick, Ticks
<1>2. state \in State /\ state = Before(truth, at)
  BY DEF TypeOK, ChainInv
<1>3. state' = truth[at]
  <2>1. state' = Advance(at, state, Active(lo, hi))
    BY DEF Tick
  <2>2. Advance(at, state, Active(lo, hi)) = Advance(at, state, TRUE)
    BY <1>1, <1>2, ActiveIsEnough
  <2>3. truth[at] = Advance(at, Before(truth, at), TRUE)
    BY <1>1 DEF ChainInv, IsRun
  <2> QED
    BY <2>1, <2>2, <2>3, <1>2
<1>4. row' = [row EXCEPT ![at] = Levelled(truth[at], at)]
  BY <1>3 DEF Tick
<1>5. TypeOK'
  <2>1. state' \in State
    BY <1>3, <1>1 DEF TypeOK
  <2>2. row' \in [Ticks -> Row]
    <3>1. Levelled(truth[at], at) \in Row
      BY <1>1, LevelledType DEF TypeOK
    <3> QED
      BY <3>1, <1>4 DEF TypeOK
  <2>3. at' \in 0 .. LastTick + 1
    BY <1>1, ChannelAssumption DEF Tick, TypeOK, Ticks
  <2> QED
    BY <2>1, <2>2, <2>3 DEF TypeOK, Tick, inputs, parent, output
<1>6. PlaceInv' /\ SavedInv'
  BY <1>1 DEF PlaceInv, SavedInv, Tick, parent, output
<1>7. ChainInv'
  <2>1. state' = Before(truth, at)'
    BY <1>3, <1>1 DEF Tick, Before, inputs, Ticks
  <2>2. IsRun(truth)'
    BY DEF ChainInv, IsRun, Advance, Forced, Before, Tick, inputs
  <2> QED
    BY <2>1, <2>2 DEF ChainInv, Tick, parent, inputs, Before
<1>8. SlicesAgree'
  <2>a. at' = at + 1 /\ lo' = lo /\ truth' = truth /\ day' = day
    BY DEF Tick, inputs
  <2>b. at' - 1 = at
    BY <2>a, <1>1
  <2>1. ASSUME NEW t \in lo .. at PROVE row'[t] = Levelled(truth[t], t)
    <3>1. t \in Ticks /\ row \in [Ticks -> Row]
      <4>1. at \in 0 .. LastTick /\ t \in lo .. at
        BY <1>1, <2>1 DEF Ticks
      <4>2. t \in Ticks
        BY <4>1, <1>1, ChannelAssumption DEF Ticks
      <4> QED
        BY <4>2 DEF TypeOK
    <3>2. CASE t = at
      BY <3>1, <3>2, <1>4
    <3>3. CASE t # at
      BY <3>1, <3>3, <1>4, <1>1 DEF SlicesAgree
    <3> QED
      BY <3>2, <3>3
  <2>2. \A t \in lo' .. at' - 1 : row'[t] = Levelled(truth[t], t)
    BY <2>a, <2>b, <2>1
  <2> HIDE DEF ChannelInv
  <2> QED
    BY <2>a, <2>2 DEF SlicesAgree, Levelled
<1> QED
  BY <1>5, <1>6, <1>7, <1>8

\* A new slice from the chain keeps what does not depend on the phase.
LEMMA SimulateStep ==
  ASSUME ChannelInv, NEW l \in 0 .. LastTick + 1, NEW h \in 0 .. LastTick + 1, NEW from,
         from = Before(truth, l), Simulate(l, h, from), UNCHANGED inputs
  PROVE  /\ {lo', hi', at'} \subseteq 0 .. LastTick + 1 /\ state' \in State /\ row' \in [Ticks -> Row]
         /\ IsRun(truth)' /\ state' = Before(truth, at)'
         /\ SlicesAgree'
<1> USE DEF ChannelInv
<1>1. IsRun(truth)'
  BY DEF ChainInv, IsRun, Advance, Forced, Before, inputs
<1>2. state' = Before(truth, at)'
  BY DEF Simulate, inputs, Before
<1>3. state' \in State
  BY BeforeType DEF Simulate
<1>4. SlicesAgree'
  BY ChannelAssumption DEF SlicesAgree, Simulate
<1> QED
  BY <1>1, <1>2, <1>3, <1>4 DEF Simulate, TypeOK

LEMMA SaveCheckpointStep ==
  ASSUME ChannelInv, SaveCheckpoint
  PROVE  ChannelInv'
<1> USE DEF ChannelInv
<1>1. /\ pc = "checkpoints" /\ at = hi /\ hi \in Ticks /\ hi \in Nat /\ hi < NumTicks
      /\ state \in State /\ state = Before(truth, hi)
      /\ UNCHANGED <<inputs, tries, log, output>>
  BY ChannelAssumption DEF SaveCheckpoint, TypeOK, PlaceInv, ChainInv, Ticks
<1>2. checkpoint' = [checkpoint EXCEPT ![hi] = state] /\ saved' = saved \cup {hi}
  BY DEF SaveCheckpoint
<1>3. checkpoint' \in [Ticks -> State] /\ saved' \subseteq Ticks
  BY <1>1, <1>2 DEF TypeOK
<1>4. \A t \in saved' : checkpoint'[t] = Before(truth, t)
  BY <1>1, <1>2 DEF TypeOK, ChainInv
<1>5. CASE hi + ShardTicks < NumTicks
  <2>1. Simulate(hi, hi + ShardTicks, state) /\ pc' = pc
    BY <1>5 DEF SaveCheckpoint
  <2>2. hi \in 0 .. LastTick + 1 /\ hi + ShardTicks \in 0 .. LastTick + 1
    BY <1>1, <1>5, ChannelAssumption
  <2>3. /\ {lo', hi', at'} \subseteq 0 .. LastTick + 1 /\ state' \in State /\ row' \in [Ticks -> Row]
        /\ IsRun(truth)' /\ state' = Before(truth, at)'
        /\ SlicesAgree'
    BY <2>1, <2>2, <1>1, SimulateStep
  <2>4. TypeOK'
    BY <2>1, <2>3, <1>1, <1>3 DEF TypeOK, inputs, output
  <2>5. PlaceInv'
    BY <2>1, <1>1, <1>5, ChannelAssumption DEF PlaceInv, Simulate
  <2>6. SavedInv'
    BY <2>1, <1>1, <1>2, ChannelAssumption DEF SavedInv, Simulate
  <2>7. ChainInv'
    BY <2>3, <1>4, <1>1 DEF ChainInv, Before, inputs
  <2> QED
    BY <2>3, <2>4, <2>5, <2>6, <2>7
<1>6. CASE hi + ShardTicks >= NumTicks
  <2>1. Simulate(0, End(0) + Spill, checkpoint'[0]) /\ pc' = "slice"
    BY <1>6, <1>1, ChannelAssumption DEF SaveCheckpoint
  <2>2. 0 \in saved' /\ checkpoint'[0] = Before(truth, 0)
    BY <1>1, <1>2, <1>4 DEF SavedInv
  <2>3. 0 \in 0 .. LastTick + 1 /\ End(0) + Spill \in 0 .. LastTick + 1
    BY EndFacts, ChannelAssumption
  <2>4. /\ {lo', hi', at'} \subseteq 0 .. LastTick + 1 /\ state' \in State /\ row' \in [Ticks -> Row]
        /\ IsRun(truth)' /\ state' = Before(truth, at)'
        /\ SlicesAgree'
    BY <2>1, <2>2, <2>3, <1>1, SimulateStep
  <2>5. TypeOK'
    BY <2>1, <2>4, <1>1, <1>3 DEF TypeOK, inputs, output
  <2>6. PlaceInv'
    BY <2>1, <2>3, <1>1, ChannelAssumption DEF PlaceInv, Simulate
  <2>7. SavedInv'
    BY <2>1, <2>2, <1>1, <1>2, <1>6, ChannelAssumption DEF SavedInv, Simulate, TypeOK, Ticks
  <2>8. ChainInv'
    BY <2>4, <1>4, <1>1 DEF ChainInv, Before, inputs
  <2> QED
    BY <2>4, <2>5, <2>6, <2>7, <2>8
<1> QED
  BY <1>1, <1>5, <1>6, ChannelAssumption

LEMMA RunShardStep ==
  ASSUME ChannelInv, RunShard
  PROVE  ChannelInv'
<1> USE DEF ChannelInv
<1>1. /\ pc = "slice" /\ at = hi /\ lo \in Ticks /\ lo \in Nat /\ lo < NumTicks /\ lo \in saved
      /\ tries' = 0 /\ UNCHANGED <<inputs, parent, output>>
      /\ lo \in 0 .. LastTick + 1 /\ hi \in 0 .. LastTick + 1
  BY ChannelAssumption DEF RunShard, TypeOK, PlaceInv, SavedInv, Ticks
<1>2. log' \subseteq [shard : Ticks, change : Change]
  <2>1. Changes(lo, hi, row, Anchor) \subseteq Change
    BY <1>1, ChangesType
  <2> QED
    BY <2>1, <1>1 DEF RunShard, TwinLog, TypeOK
<1>3. ChainInv' <=> IsRun(truth)' /\ state' = Before(truth, at)'
  BY <1>1 DEF ChainInv, parent, inputs, Before
<1>4. CASE lo + ShardTicks < NumTicks
  <2> DEFINE l == lo + ShardTicks
  <2>1. Simulate(l, End(l) + Spill, checkpoint[l]) /\ pc' = pc
    BY <1>4 DEF RunShard
  <2>2. l \in saved /\ checkpoint[l] = Before(truth, l)
    BY <1>1, <1>4 DEF SavedInv, ChainInv
  <2>3. l \in 0 .. LastTick + 1 /\ End(l) + Spill \in 0 .. LastTick + 1 /\ l <= End(l) + Spill
    BY <1>1, <1>4, EndFacts, ChannelAssumption
  <2>4. /\ {lo', hi', at'} \subseteq 0 .. LastTick + 1 /\ state' \in State /\ row' \in [Ticks -> Row]
        /\ IsRun(truth)' /\ state' = Before(truth, at)'
        /\ SlicesAgree'
    BY <2>1, <2>2, <2>3, <1>1, SimulateStep
  <2>5. TypeOK'
    BY <2>1, <2>4, <1>1, <1>2, ChannelAssumption DEF TypeOK, inputs, output, parent
  <2>6. PlaceInv' /\ SavedInv'
    BY <2>1, <2>2, <2>3, <1>1, <1>4 DEF PlaceInv, SavedInv, Simulate, parent
  <2> QED
    BY <2>4, <2>5, <2>6, <1>3
<1>5. CASE lo + ShardTicks >= NumTicks
  <2>1. Simulate(0, End(0), AllNominal) /\ pc' = "metrics"
    BY <1>5, <1>1, ChannelAssumption DEF RunShard
  <2>2. AllNominal = Before(truth, 0)
    BY DEF Before
  <2>3. 0 \in 0 .. LastTick + 1 /\ End(0) \in 0 .. LastTick + 1 /\ 0 < End(0) /\ End(0) <= NumTicks
    BY EndFacts, ChannelAssumption
  <2>4. /\ {lo', hi', at'} \subseteq 0 .. LastTick + 1 /\ state' \in State /\ row' \in [Ticks -> Row]
        /\ IsRun(truth)' /\ state' = Before(truth, at)'
        /\ SlicesAgree'
    BY <2>1, <2>2, <2>3, <1>1, SimulateStep
  <2>5. TypeOK'
    BY <2>1, <2>4, <1>1, <1>2, ChannelAssumption DEF TypeOK, inputs, output, parent
  <2>6. PlaceInv' /\ SavedInv'
    BY <2>1, <2>3, <1>1 DEF PlaceInv, SavedInv, Simulate, parent
  <2> QED
    BY <2>4, <2>5, <2>6, <1>3
<1> QED
  BY <1>1, <1>4, <1>5, ChannelAssumption

LEMMA OutrunSliceStep ==
  ASSUME ChannelInv, NEW n \in Ticks, OutrunSlice(n)
  PROVE  ChannelInv'
<1> USE DEF ChannelInv
<1>1. /\ pc = "slice" /\ at = hi /\ lo \in Nat /\ hi \in Nat /\ lo <= hi /\ hi <= n /\ n \in Nat
      /\ lo < NumTicks /\ lo \in saved /\ UNCHANGED <<inputs, parent, log, output>>
      /\ lo \in 0 .. LastTick + 1
  BY ChannelAssumption DEF OutrunSlice, TypeOK, PlaceInv, SavedInv, Ticks
<1>2. ChainInv' <=> IsRun(truth)' /\ state' = Before(truth, at)'
  BY <1>1 DEF ChainInv, parent, inputs, Before
<1>3. CASE tries = MaxTries - 1
  <2>1. pc' = "failed" /\ UNCHANGED <<slice, tries>>
    BY <1>3 DEF OutrunSlice
  <2>2. TypeOK' /\ PlaceInv' /\ SavedInv'
    BY <2>1, <1>1 DEF TypeOK, PlaceInv, SavedInv, inputs, parent, output, slice
  <2>3. ChainInv' /\ SlicesAgree'
    BY <2>1, <1>1 DEF ChainInv, SlicesAgree, IsRun, Advance, Forced, Before, Levelled, inputs, parent, slice
  <2> QED
    BY <2>2, <2>3
<1>4. CASE tries # MaxTries - 1
  <2> DEFINE h == n + 1 + Margin
  <2>1. /\ n + Margin <= LastTick /\ pc' = pc /\ tries' = tries + 1
        /\ Simulate(lo, End(lo) + ((n - lo + 1) - (End(lo) - lo) + Margin), checkpoint[lo])
    BY <1>4 DEF OutrunSlice
  <2>2. End(lo) \in Nat /\ Margin \in Nat /\ LastTick \in Nat
    BY <1>1, EndFacts, ChannelAssumption
  <2>3. Simulate(lo, h, checkpoint[lo]) /\ h \in 0 .. LastTick + 1 /\ lo <= h
    BY <2>1, <2>2, <1>1
  <2>4. checkpoint[lo] = Before(truth, lo)
    BY <1>1 DEF ChainInv
  <2>5. /\ {lo', hi', at'} \subseteq 0 .. LastTick + 1 /\ state' \in State /\ row' \in [Ticks -> Row]
        /\ IsRun(truth)' /\ state' = Before(truth, at)'
        /\ SlicesAgree'
    <3> HIDE DEF h
    <3> QED
      BY <2>3, <2>4, <1>1, SimulateStep
  <2>6. tries' \in 0 .. MaxTries - 1
    <3>1. tries \in 0 .. MaxTries - 1
      BY DEF TypeOK
    <3>2. MaxTries \in Nat \ {0}
      BY ChannelAssumption
    <3> QED
      BY <3>1, <3>2, <2>1, <1>4
  <2>7. TypeOK'
    BY <2>1, <2>5, <2>6, <1>1 DEF TypeOK, inputs, output, parent
  <2>8. PlaceInv' /\ SavedInv'
    BY <2>1, <2>3, <1>1 DEF PlaceInv, SavedInv, Simulate, parent
  <2> QED
    BY <2>5, <2>7, <2>8, <1>2
<1> QED
  BY <1>3, <1>4

LEMMA MetricsShardStep ==
  ASSUME ChannelInv, MetricsShard
  PROVE  ChannelInv'
<1> USE DEF ChannelInv
<1>1. /\ pc = "metrics" /\ at = hi /\ lo \in Nat /\ hi \in Nat /\ lo < hi /\ hi <= NumTicks
      /\ state = Before(truth, hi) /\ UNCHANGED <<inputs, parent, tries, log>>
      /\ lo \in Ticks /\ hi - 1 \in Ticks /\ hi \in 0 .. LastTick + 1
  BY ChannelAssumption DEF MetricsShard, TypeOK, PlaceInv, ChainInv, Ticks
<1>2. /\ changes' \subseteq [change : Change, visible : BOOLEAN \cup {None}]
      /\ samples' \subseteq [tick : Ticks, series : Series, value : Levels]
  <2>1. CASE pending = None
    BY <2>1 DEF MetricsShard, TypeOK
  <2>2. CASE pending # None
    BY <2>2, FlushType DEF MetricsShard, TypeOK
  <2> QED
    BY <2>1, <2>2
<1>3. prev' = row[hi - 1] /\ prev' \in [Series -> Levels \cup {None}]
  BY <1>1 DEF MetricsShard, TypeOK, Row
<1>4. pending' = [lo |-> lo, hi |-> hi, rows |-> row, before |-> prev] /\ pending' \in Shard
  <2>1. hi \in Ticks \cup {LastTick + 1}
    BY <1>1, ChannelAssumption DEF Ticks
  <2>2. row \in [Ticks -> Row] /\ prev \in [Series -> Levels \cup {None}]
    BY DEF TypeOK
  <2>3. pending' = [lo |-> lo, hi |-> hi, rows |-> row, before |-> prev]
    BY DEF MetricsShard
  <2> QED
    BY <2>1, <2>2, <2>3, <1>1 DEF Shard
<1>5. ChainInv' <=> IsRun(truth)' /\ state' = Before(truth, at)'
  BY <1>1 DEF ChainInv, parent, inputs, Before
<1>6. CASE hi < NumTicks
  <2>1. Simulate(hi, End(hi), state) /\ pc' = pc
    BY <1>6 DEF MetricsShard
  <2>2. End(hi) \in 0 .. LastTick + 1 /\ hi < End(hi) /\ End(hi) <= NumTicks
    BY <1>1, <1>6, EndFacts, ChannelAssumption
  <2>3. /\ {lo', hi', at'} \subseteq 0 .. LastTick + 1 /\ state' \in State /\ row' \in [Ticks -> Row]
        /\ IsRun(truth)' /\ state' = Before(truth, at)'
        /\ SlicesAgree'
    BY <2>1, <2>2, <1>1, SimulateStep
  <2>4. TypeOK'
    BY <2>1, <2>3, <1>1, <1>2, <1>3, <1>4 DEF TypeOK, inputs, parent
  <2>5. PlaceInv' /\ SavedInv'
    BY <2>1, <2>2, <1>1 DEF PlaceInv, SavedInv, Simulate
  <2> QED
    BY <2>3, <2>4, <2>5, <1>5
<1>7. CASE ~(hi < NumTicks)
  <2>1. UNCHANGED slice /\ pc' = "flush"
    BY <1>7 DEF MetricsShard
  <2>2. TypeOK'
    BY <2>1, <1>1, <1>2, <1>3, <1>4 DEF TypeOK, inputs, parent, slice
  <2>4. PlaceInv' /\ SavedInv'
    BY <2>1, <1>1, <1>4 DEF PlaceInv, SavedInv, slice, Shard, Row
  <2>5. ChainInv' /\ SlicesAgree'
    BY <2>1, <1>1 DEF ChainInv, SlicesAgree, IsRun, Advance, Forced, Before, Levelled, inputs, parent, slice
  <2> QED
    BY <2>2, <2>4, <2>5
<1> QED
  BY <1>6, <1>7

LEMMA FlushLastStep ==
  ASSUME ChannelInv, FlushLast
  PROVE  ChannelInv'
<1> USE DEF ChannelInv
<1>1. /\ pc' = "done" /\ UNCHANGED <<inputs, slice, parent, tries, log, prev, pending>>
      /\ pending \in Shard /\ Flush(pending, None)
  BY DEF FlushLast, TypeOK, PlaceInv
<1>2. /\ changes' \subseteq [change : Change, visible : BOOLEAN \cup {None}]
      /\ samples' \subseteq [tick : Ticks, series : Series, value : Levels]
  BY <1>1, FlushType
<1>3. TypeOK'
  BY <1>1, <1>2 DEF TypeOK, inputs, slice, parent
<1>4. PlaceInv' /\ SavedInv'
  BY <1>1 DEF PlaceInv, SavedInv, slice
<1>5. ChainInv' /\ SlicesAgree'
  BY <1>1 DEF ChainInv, SlicesAgree, IsRun, Advance, Forced, Before, Levelled, inputs, parent, slice
<1> QED
  BY <1>3, <1>4, <1>5

LEMMA ChannelStep == ChannelInv /\ [Next]_vars => ChannelInv'
<1> SUFFICES ASSUME ChannelInv, [Next]_vars PROVE ChannelInv'
  OBVIOUS
<1>1. CASE Tick
  BY <1>1, TickStep
<1>2. CASE SaveCheckpoint
  BY <1>2, SaveCheckpointStep
<1>3. CASE RunShard
  BY <1>3, RunShardStep
<1>4. CASE \E n \in Ticks : OutrunSlice(n)
  BY <1>4, OutrunSliceStep
<1>5. CASE MetricsShard
  BY <1>5, MetricsShardStep
<1>6. CASE FlushLast
  BY <1>6, FlushLastStep
<1>7. CASE UNCHANGED vars
  BY <1>7 DEF vars, ChannelInv, TypeOK, PlaceInv, SavedInv, ChainInv, SlicesAgree, IsRun, Advance, Forced,
              Before, Levelled, inputs, slice, parent, output
<1> QED
  BY <1>1, <1>2, <1>3, <1>4, <1>5, <1>6, <1>7 DEF Next

LEMMA ChannelInvariant == Spec => []ChannelInv
BY ChannelInit, ChannelStep, PTL DEF Spec

(***************************************************************************)
(* The change log of the metrics channel.                                  *)
(***************************************************************************)
TrueRows == [t \in Ticks |-> Levelled(truth[t], t)]
Passed(l) == IF l = 0 THEN Anchor ELSE TrueRows[l - 1]
Logged == {c.change : c \in changes}

\* The shard that waits is cut out of the one long run, and the log ends where it begins.
PendingInv ==
  /\ pending.lo < pending.hi /\ pending.hi <= NumTicks
  /\ \A t \in pending.lo .. pending.hi - 1 : pending.rows[t] = TrueRows[t]
  /\ pending.before = Passed(pending.lo)
  /\ Logged = Changes(0, pending.lo, TrueRows, Anchor)

LogInv ==
  /\ pc \in {"checkpoints", "slice"} => pending = None /\ changes = {} /\ prev = Anchor
  /\ pc = "metrics" => /\ prev = Passed(lo)
                       /\ pending = None => lo = 0 /\ changes = {}
                       /\ pending # None => PendingInv /\ pending.hi = lo
  /\ pc = "flush" => pending # None /\ PendingInv /\ pending.hi = NumTicks
  /\ ChangesAreTrue

LEMMA ChangesMember ==
  ASSUME NEW l \in Int, NEW h \in Int, NEW rows, NEW before, NEW c
  PROVE  c \in Changes(l, h, rows, before) <=>
           /\ c \in [tick : Int, series : Series, value : Levels, previous : Levels]
           /\ l <= c.tick /\ c.tick < h
           /\ c.value = rows[c.tick][c.series]
           /\ c.previous = IF c.tick = l THEN before[c.series] ELSE rows[c.tick - 1][c.series]
           /\ c.value # c.previous
BY DEF Changes

\* Changes up to a cut and from it on are the changes of the whole.
LEMMA ChangesMeet ==
  ASSUME NEW b \in Nat, NEW h \in Nat, b < h, h <= LastTick + 1, NEW rows, NEW before,
         before = Passed(b), \A t \in b .. h - 1 : rows[t] = TrueRows[t]
  PROVE  Changes(0, b, TrueRows, Anchor) \cup Changes(b, h, rows, before)
           = Changes(0, h, TrueRows, Anchor)
<1> SUFFICES ASSUME NEW c
             PROVE  c \in Changes(0, b, TrueRows, Anchor) \/ c \in Changes(b, h, rows, before)
                      <=> c \in Changes(0, h, TrueRows, Anchor)
  OBVIOUS
<1>1. c \in Changes(0, b, TrueRows, Anchor) <=>
           /\ c \in [tick : Int, series : Series, value : Levels, previous : Levels]
           /\ 0 <= c.tick /\ c.tick < b
           /\ c.value = TrueRows[c.tick][c.series]
           /\ c.previous = IF c.tick = 0 THEN Anchor[c.series] ELSE TrueRows[c.tick - 1][c.series]
           /\ c.value # c.previous
  BY ChangesMember
<1>2. c \in Changes(b, h, rows, before) <=>
           /\ c \in [tick : Int, series : Series, value : Levels, previous : Levels]
           /\ b <= c.tick /\ c.tick < h
           /\ c.value = rows[c.tick][c.series]
           /\ c.previous = IF c.tick = b THEN before[c.series] ELSE rows[c.tick - 1][c.series]
           /\ c.value # c.previous
  BY ChangesMember
<1>3. c \in Changes(0, h, TrueRows, Anchor) <=>
           /\ c \in [tick : Int, series : Series, value : Levels, previous : Levels]
           /\ 0 <= c.tick /\ c.tick < h
           /\ c.value = TrueRows[c.tick][c.series]
           /\ c.previous = IF c.tick = 0 THEN Anchor[c.series] ELSE TrueRows[c.tick - 1][c.series]
           /\ c.value # c.previous
  BY ChangesMember
<1>4. ASSUME c \in [tick : Int, series : Series, value : Levels, previous : Levels],
             b <= c.tick, c.tick < h
      PROVE  /\ rows[c.tick] = TrueRows[c.tick]
             /\ (IF c.tick = b THEN before[c.series] ELSE rows[c.tick - 1][c.series])
                  = (IF c.tick = 0 THEN Anchor[c.series] ELSE TrueRows[c.tick - 1][c.series])
  <2> DEFINE t == c.tick
  <2>1. t \in Int /\ b <= t /\ t < h
    BY <1>4
  <2>2. t \in b .. h - 1 /\ (t # b => t - 1 \in b .. h - 1)
    BY <2>1
  <2>3. rows[t] = TrueRows[t] /\ (t # b => rows[t - 1] = TrueRows[t - 1])
    BY <2>2
  <2>4. t = b => before = IF t = 0 THEN Anchor ELSE TrueRows[t - 1]
    BY DEF Passed
  <2>5. t # b => t # 0
    BY <2>1
  <2> HIDE DEF t
  <2>6. (IF t = b THEN before[c.series] ELSE rows[t - 1][c.series])
          = (IF t = 0 THEN Anchor[c.series] ELSE TrueRows[t - 1][c.series])
    BY <2>3, <2>4, <2>5
  <2> QED
    BY <2>3, <2>6 DEF t
<1>5. c \in [tick : Int, series : Series, value : Levels, previous : Levels] => c.tick \in Int
  OBVIOUS
<1> HIDE DEF Passed
<1> QED
  BY <1>1, <1>2, <1>3, <1>4, <1>5
LEMMA FlushLogs ==
  ASSUME pending \in Shard, PendingInv, NEW next, Flush(pending, next)
  PROVE  Logged' = Changes(0, pending.hi, TrueRows, Anchor)
<1> DEFINE cut == Changes(pending.lo, pending.hi, pending.rows, pending.before)
<1>1. changes' = changes \cup {[change |-> c, visible |-> Visible(c, pending, next)] : c \in cut}
  BY DEF Flush
<1> HIDE DEF cut
<1>2. Logged' = Logged \cup cut
  <2> DEFINE V(c) == [change |-> c, visible |-> Visible(c, pending, next)]
  <2>1. {V(c).change : c \in cut} = cut
    OBVIOUS
  <2>2. changes' = changes \cup {V(c) : c \in cut}
    BY <1>1
  <2> HIDE DEF V
  <2>3. {e.change : e \in changes'} = {e.change : e \in changes} \cup {V(c).change : c \in cut}
    BY <2>2
  <2> QED
    BY <2>1, <2>3 DEF Logged
<1>3. pending.lo \in Nat /\ pending.hi \in Nat /\ pending.lo < pending.hi /\ pending.hi <= LastTick + 1
  BY ChannelAssumption DEF PendingInv, Shard, Ticks
<1>4. Changes(0, pending.lo, TrueRows, Anchor) \cup cut = Changes(0, pending.hi, TrueRows, Anchor)
  BY <1>3, ChangesMeet DEF cut, PendingInv
<1> QED
  BY <1>2, <1>4 DEF PendingInv

LEMMA NothingYet == Changes(0, 0, TrueRows, Anchor) = {}
BY ChangesMember

LEMMA TrueRowsKept == UNCHANGED inputs => TrueRows' = TrueRows /\ (\A l : Passed(l)' = Passed(l))
BY DEF inputs, TrueRows, Passed, Levelled, Anchor

LEMMA LogStep ==
  ASSUME ChannelInv, LogInv, [Next]_vars
  PROVE  LogInv'
<1>0. UNCHANGED inputs
  BY DEF Next, vars, Tick, SaveCheckpoint, RunShard, OutrunSlice, MetricsShard, FlushLast
<1>1. /\ TrueRows' = TrueRows /\ Anchor' = Anchor /\ (\A l : Passed(l)' = Passed(l))
      /\ TrueChanges' = TrueChanges
  BY <1>0, TrueRowsKept DEF TrueChanges, inputs, Levelled, Anchor, Changes
<1>2. UNCHANGED <<pending, changes, prev, pc, lo>> => LogInv'
  <2> SUFFICES ASSUME UNCHANGED <<pending, changes, prev, pc, lo>> PROVE LogInv'
    OBVIOUS
  <2>1. PendingInv => PendingInv'
    BY <1>1 DEF PendingInv, Logged, Changes
  <2>2. Passed(lo)' = Passed(lo)
    BY <1>1 DEF Passed
  <2>3. ChangesAreTrue'
    BY <1>1 DEF LogInv, ChangesAreTrue
  <2> QED
    BY <2>1, <2>2, <2>3, <1>1 DEF LogInv
<1>3. CASE Tick
  BY <1>2, <1>3 DEF Tick, output
<1>4. CASE SaveCheckpoint
  <2>1. pc = "checkpoints" /\ UNCHANGED output /\ (pc' = "checkpoints" \/ pc' = "slice")
    BY <1>4 DEF SaveCheckpoint
  <2> QED
    BY <2>1, <1>1 DEF output, LogInv, ChangesAreTrue
<1>5. CASE RunShard
  <2>1. /\ pc = "slice" /\ UNCHANGED output /\ (pc' = "slice" \/ (pc' = "metrics" /\ lo' = 0))
    BY <1>5 DEF RunShard, Simulate
  <2> QED
    BY <2>1, <1>1 DEF output, LogInv, ChangesAreTrue, Passed
<1>6. CASE \E n \in Ticks : OutrunSlice(n)
  <2>1. pc = "slice" /\ UNCHANGED output /\ (pc' = "slice" \/ pc' = "failed")
    BY <1>6 DEF OutrunSlice
  <2> QED
    BY <2>1, <1>1 DEF output, LogInv, ChangesAreTrue
<1>7. CASE MetricsShard
  <2>1. /\ pc = "metrics" /\ at = hi /\ lo \in Nat /\ hi \in Nat /\ lo < hi /\ hi <= NumTicks
        /\ prev = Passed(lo) /\ row \in [Ticks -> Row] /\ prev \in [Series -> Levels \cup {None}]
        /\ lo \in Ticks /\ hi \in Ticks \cup {LastTick + 1} /\ hi - 1 \in Ticks
    <3>1. at = hi /\ pc = "metrics"
      BY <1>7 DEF MetricsShard
    <3>2. lo < hi /\ hi <= NumTicks /\ prev = Passed(lo)
      BY <3>1 DEF ChannelInv, PlaceInv, LogInv
    <3>3. {lo, hi} \subseteq 0 .. LastTick + 1 /\ row \in [Ticks -> Row]
          /\ prev \in [Series -> Levels \cup {None}]
      BY DEF ChannelInv, TypeOK
    <3> QED
      BY <3>1, <3>2, <3>3, ChannelAssumption DEF Ticks
  <2>2. pending' = [lo |-> lo, hi |-> hi, rows |-> row, before |-> prev] /\ prev' = row[hi - 1]
    BY <1>7 DEF MetricsShard
  <2>3. pending' # None
    <3>1. pending' \in Shard
      BY <2>1, <2>2 DEF Shard
    <3> QED
      BY <3>1, ChannelAssumption
  <2>4. \A t \in lo .. hi - 1 : row[t] = TrueRows[t]
    <3>1. \A t \in lo .. hi - 1 : t \in Ticks
      BY <2>1, ChannelAssumption DEF Ticks
    <3> QED
      BY <2>1, <3>1 DEF ChannelInv, SlicesAgree, TrueRows
  <2>5. Logged' = Changes(0, lo, TrueRows, Anchor)
    <3>1. CASE pending = None
      <4>1. lo = 0 /\ changes = {} /\ changes' = changes
        BY <3>1, <1>7, <2>1 DEF MetricsShard, LogInv
      <4>2. Logged' = {}
        BY <4>1 DEF Logged
      <4> QED
        BY <4>1, <4>2, NothingYet
    <3>2. CASE pending # None
      <4>1. pending \in Shard /\ PendingInv /\ pending.hi = lo /\ Flush(pending, row[lo])
        BY <3>2, <1>7, <2>1 DEF ChannelInv, TypeOK, LogInv, MetricsShard
      <4> QED
        BY <4>1, FlushLogs
    <3> QED
      BY <3>1, <3>2
  <2>6. PendingInv'
    <3>1. pending'.lo = lo /\ pending'.hi = hi /\ pending'.rows = row /\ pending'.before = Passed(lo)
      BY <2>1, <2>2
    <3>2. Logged' = Changes(0, pending'.lo, TrueRows', Anchor')
      BY <2>5, <3>1, <1>1
    <3>3. Passed(pending.lo)' = Passed(lo)
      BY <3>1, <1>1 DEF Passed
    <3> QED
      BY <2>1, <2>4, <3>1, <3>2, <3>3, <1>1 DEF PendingInv, Changes
  <2>7. pc' = "metrics" => lo' = hi /\ prev' = Passed(lo)'
    <3> SUFFICES ASSUME pc' = "metrics" PROVE lo' = hi /\ prev' = Passed(lo)'
      OBVIOUS
    <3>1. lo' = hi
      BY <1>7 DEF MetricsShard, Simulate
    <3>2. prev' = TrueRows[hi - 1] /\ hi # 0
      BY <2>1, <2>2, <2>4
    <3> QED
      BY <3>1, <3>2, <1>1 DEF Passed
  <2>8. pc' = "metrics" \/ (pc' = "flush" /\ hi = NumTicks)
    <3>1. CASE hi < NumTicks
      BY <3>1, <1>7, <2>1 DEF MetricsShard
    <3>2. CASE ~(hi < NumTicks)
      BY <3>2, <1>7, <2>1, ChannelAssumption DEF MetricsShard
    <3> QED
      BY <3>1, <3>2
  <2>9. pending'.hi = hi
    BY <2>2
  <2> QED
    BY <2>3, <2>6, <2>7, <2>8, <2>9 DEF LogInv, ChangesAreTrue
<1>8. CASE FlushLast
  <2>1. pc' = "done" /\ pending \in Shard /\ PendingInv /\ pending.hi = NumTicks /\ Flush(pending, None)
    BY <1>8 DEF FlushLast, ChannelInv, TypeOK, LogInv
  <2>2. Logged' = Changes(0, NumTicks, TrueRows, Anchor)
    BY <2>1, FlushLogs
  <2>3. Logged' = TrueChanges'
    BY <2>2, <1>1 DEF TrueChanges, TrueRows
  <2> QED
    BY <2>1, <2>3 DEF LogInv, ChangesAreTrue, Logged
<1>9. CASE UNCHANGED vars
  BY <1>2, <1>9 DEF vars, slice, output
<1> QED
  BY <1>3, <1>4, <1>5, <1>6, <1>7, <1>8, <1>9 DEF Next

LEMMA LogInvariant == Spec => []LogInv
<1>1. Init => LogInv
  BY DEF Init, LogInv, ChangesAreTrue, Anchor
<1>2. ChannelInv /\ LogInv /\ [Next]_vars => LogInv'
  BY LogStep
<1> QED
  BY <1>1, <1>2, ChannelInvariant, PTL DEF Spec

(***************************************************************************)
(* The log of the twin.                                                    *)
(***************************************************************************)
Less == {p \in Nat \X Nat : p[1] < p[2]}

LEMMA LeastNatural ==
  ASSUME NEW T \in SUBSET Nat, T # {}
  PROVE  \E x \in T : \A y \in T : x <= y
<1>1. IsWellFoundedOn(Less, Nat)
  BY NatLessThanWellFounded DEF OpToRel, Less
<1>2. PICK x \in T : \A y \in T : ~(<<y, x>> \in Less)
  BY <1>1, WFMin
<1>3. ASSUME NEW y \in T PROVE x <= y
  <2>1. x \in Nat /\ y \in Nat /\ ~(<<y, x>> \in Less)
    BY <1>2
  <2> QED
    BY <2>1 DEF Less
<1> QED
  BY <1>3

\* What does not change from one tick to the next does not change at all.
LEMMA QuietStays ==
  ASSUME NEW a \in Nat, NEW b \in Nat, a <= b, NEW f,
         \A u \in a + 1 .. b : f[u] = f[u - 1]
  PROVE  f[b] = f[a]
<1> DEFINE T == {u \in a .. b : f[u] # f[a]}
<1> SUFFICES ASSUME T # {} PROVE FALSE
  <2>1. b \in a .. b
    OBVIOUS
  <2> QED
    BY <2>1
<1>1. T \in SUBSET Nat
  OBVIOUS
<1>2. PICK u \in T : \A y \in T : u <= y
  <2> HIDE DEF T
  <2> QED
    BY <1>1, LeastNatural
<1>3. u \in a + 1 .. b /\ u - 1 \in a .. b
  BY <1>2
<1>4. u - 1 \notin T
  BY <1>2, <1>3
<1> QED
  BY <1>2, <1>3, <1>4

\* The entries of a shard are what changed in it along the one long run.
ShardLogged(l) ==
  \A c : [shard |-> l, change |-> c] \in log <=> c \in Changes(l, End(l), TrueRows, Anchor)

\* Shards do not overlap, and each of those that are done is logged.
TwinInv ==
  /\ \A l \in saved : l < NumTicks /\ \A m \in saved : l < m => l + ShardTicks <= m
  /\ pc = "checkpoints" => log = {} /\ \A l \in saved : l + ShardTicks <= hi
  /\ pc = "slice" => /\ End(lo) <= hi
                     /\ \A e \in log : e.shard < lo
                     /\ \A l \in saved : l < lo => ShardLogged(l)
  /\ pc \in {"metrics", "flush", "done"} => \A l \in saved : ShardLogged(l)

\* What a slice shows of its shard is what the one long run shows of it.
LEMMA TwinLogIsTrue ==
  ASSUME ChannelInv, pc = "slice", at = hi, End(lo) <= hi, NEW c
  PROVE  [shard |-> lo, change |-> c] \in TwinLog <=> c \in Changes(lo, End(lo), TrueRows, Anchor)
<1>1. lo \in Nat /\ hi \in Nat /\ hi <= LastTick + 1 /\ End(lo) \in Nat /\ lo < End(lo)
  BY EndFacts, ChannelAssumption DEF ChannelInv, TypeOK, PlaceInv
<1>2. [shard |-> lo, change |-> c] \in TwinLog
        <=> c \in Changes(lo, hi, row, Anchor) /\ lo <= c.tick /\ c.tick < End(lo)
  <2>1. ASSUME NEW d PROVE [shard |-> lo, change |-> c] = [shard |-> lo, change |-> d] <=> c = d
    <3>1. [shard |-> lo, change |-> c].change = c /\ [shard |-> lo, change |-> d].change = d
      OBVIOUS
    <3> QED
      BY <3>1
  <2> QED
    BY <2>1 DEF TwinLog
<1>3. \A t \in lo .. hi - 1 : row[t] = TrueRows[t]
  <2>1. \A t \in lo .. hi - 1 : t \in Ticks
    BY <1>1, ChannelAssumption DEF Ticks
  <2> QED
    BY <2>1 DEF ChannelInv, SlicesAgree, TrueRows
<1>4. c \in Changes(lo, hi, row, Anchor) <=>
           /\ c \in [tick : Int, series : Series, value : Levels, previous : Levels]
           /\ lo <= c.tick /\ c.tick < hi
           /\ c.value = row[c.tick][c.series]
           /\ c.previous = IF c.tick = lo THEN Anchor[c.series] ELSE row[c.tick - 1][c.series]
           /\ c.value # c.previous
  <2>1. lo \in Int /\ hi \in Int
    BY <1>1
  <2> QED
    BY <2>1 DEF Changes
<1>5. c \in Changes(lo, End(lo), TrueRows, Anchor) <=>
           /\ c \in [tick : Int, series : Series, value : Levels, previous : Levels]
           /\ lo <= c.tick /\ c.tick < End(lo)
           /\ c.value = TrueRows[c.tick][c.series]
           /\ c.previous = IF c.tick = lo THEN Anchor[c.series] ELSE TrueRows[c.tick - 1][c.series]
           /\ c.value # c.previous
  BY <1>1, ChangesMember
<1>6. ASSUME c \in [tick : Int, series : Series, value : Levels, previous : Levels],
             lo <= c.tick, c.tick < hi
      PROVE  row[c.tick] = TrueRows[c.tick] /\ (c.tick # lo => row[c.tick - 1] = TrueRows[c.tick - 1])
  <2>1. c.tick \in Int
    BY <1>6
  <2> QED
    BY <1>1, <1>3, <1>6, <2>1
<1>7. c \in [tick : Int, series : Series, value : Levels, previous : Levels] => c.tick \in Int
  OBVIOUS
<1> QED
  BY <1>1, <1>2, <1>4, <1>5, <1>6, <1>7

\* The log of a shard stays right while nothing is added to it.
LEMMA LoggedKept ==
  ASSUME UNCHANGED inputs, NEW l, ShardLogged(l),
         \A c : [shard |-> l, change |-> c] \in log' <=> [shard |-> l, change |-> c] \in log
  PROVE  ShardLogged(l)'
<1>1. TrueRows' = TrueRows
  BY TrueRowsKept
<1> QED
  BY <1>1 DEF ShardLogged, Changes, Anchor, End

LEMMA TwinStep ==
  ASSUME ChannelInv, TwinInv, [Next]_vars
  PROVE  TwinInv'
<1>0. UNCHANGED inputs
  BY DEF Next, vars, Tick, SaveCheckpoint, RunShard, OutrunSlice, MetricsShard, FlushLast
<1>1. UNCHANGED log => \A l : ShardLogged(l) => ShardLogged(l)'
  BY <1>0, LoggedKept
<1>2. UNCHANGED <<log, saved, pc, lo, hi>> => TwinInv'
  BY <1>1 DEF TwinInv, End
<1>3. CASE Tick
  BY <1>2, <1>3 DEF Tick, parent
<1>4. CASE SaveCheckpoint
  <2>1. /\ pc = "checkpoints" /\ at = hi /\ hi \in Nat /\ hi < NumTicks /\ log' = log /\ log = {}
        /\ saved' = saved \cup {hi} /\ (pc' = "checkpoints" \/ pc' = "slice")
    BY <1>4, ChannelAssumption DEF SaveCheckpoint, ChannelInv, TypeOK, PlaceInv, TwinInv
  <2>2. saved \subseteq Nat /\ \A l \in saved : l + ShardTicks <= hi
    BY <2>1, ChannelAssumption DEF ChannelInv, TypeOK, TwinInv, Ticks
  <2>3. \A l \in saved' : l < NumTicks /\ \A m \in saved' : l < m => l + ShardTicks <= m
    <3>1. \A l \in saved : l < NumTicks /\ \A m \in saved : l < m => l + ShardTicks <= m
      BY DEF TwinInv
    <3>2. \A l \in saved : ~(hi < l)
      BY <2>1, <2>2, ChannelAssumption
    <3> QED
      BY <2>1, <2>2, <3>1, <3>2
  <2>4. CASE hi + ShardTicks < NumTicks
    <3>1. pc' = "checkpoints" /\ hi' = hi + ShardTicks
      BY <1>4, <2>1, <2>4 DEF SaveCheckpoint, Simulate
    <3>2. ASSUME NEW l \in saved' PROVE l + ShardTicks <= hi'
      <4>1. ShardTicks \in Nat /\ l \in Nat /\ (l = hi \/ l + ShardTicks <= hi)
        BY <2>1, <2>2, ChannelAssumption
      <4> QED
        BY <2>1, <3>1, <4>1
    <3> QED
      BY <2>1, <2>3, <3>1, <3>2 DEF TwinInv
  <2>5. CASE ~(hi + ShardTicks < NumTicks)
    <3>1. pc' = "slice" /\ lo' = 0 /\ hi' = End(0) + Spill
      BY <1>4, <2>1, <2>5 DEF SaveCheckpoint, Simulate
    <3>2. End(lo)' = End(0) /\ End(0) \in Nat /\ Spill \in Nat
      BY <3>1, EndFacts, ChannelAssumption DEF End
    <3>3. \A l \in saved' : ~(l < 0)
      BY <2>1, <2>2
    <3> QED
      BY <2>1, <2>3, <3>1, <3>2, <3>3 DEF TwinInv
  <2> QED
    BY <2>4, <2>5
<1>5. CASE RunShard
  <2>1. /\ pc = "slice" /\ at = hi /\ lo \in Nat /\ lo \in saved /\ saved' = saved /\ saved \subseteq Nat
        /\ log' = log \cup TwinLog /\ lo < NumTicks /\ ShardTicks \in Nat \ {0} /\ End(lo) <= hi
    BY <1>5, ChannelAssumption DEF RunShard, ChannelInv, TypeOK, PlaceInv, SavedInv, TwinInv, Ticks, parent
  <2>2. ASSUME NEW l \in saved, l # lo, NEW c
        PROVE  [shard |-> l, change |-> c] \in log' <=> [shard |-> l, change |-> c] \in log
    BY <2>1, <2>2 DEF TwinLog
  <2>3. ASSUME NEW l \in saved, l < lo PROVE ShardLogged(l)'
    <3>1. ShardLogged(l) /\ l # lo
      BY <2>1, <2>3 DEF TwinInv
    <3> QED
      BY <1>0, <2>2, <3>1, LoggedKept
  <2>4. ASSUME NEW k, k = lo PROVE ShardLogged(k)'
    <3>1. ASSUME NEW c
          PROVE  [shard |-> k, change |-> c] \in log' <=> c \in Changes(k, End(k), TrueRows, Anchor)
      <4>1. [shard |-> k, change |-> c] \notin log
        BY <2>1, <2>4 DEF TwinInv
      <4>2. [shard |-> k, change |-> c] \in TwinLog <=> c \in Changes(k, End(k), TrueRows, Anchor)
        BY <2>1, <2>4, TwinLogIsTrue
      <4> QED
        BY <2>1, <4>1, <4>2
    <3>2. TrueRows' = TrueRows
      BY <1>0, TrueRowsKept
    <3> QED
      BY <3>1, <3>2 DEF ShardLogged, Changes, Anchor, End
  <2>5. ASSUME NEW l \in saved, l <= lo PROVE ShardLogged(l)'
    BY <2>1, <2>3, <2>4, <2>5
  <2>6. \A e \in log' : e.shard <= lo
    <3>1. \A e \in log : e.shard < lo /\ e.shard \in Nat
      BY <2>1, ChannelAssumption DEF TwinInv, ChannelInv, TypeOK, Ticks
    <3>2. \A e \in TwinLog : e.shard = lo
      BY DEF TwinLog
    <3> QED
      BY <2>1, <3>1, <3>2
  <2>7. \A l \in saved' : l < NumTicks /\ \A m \in saved' : l < m => l + ShardTicks <= m
    BY <2>1 DEF TwinInv
  <2>8. CASE lo + ShardTicks < NumTicks
    <3> DEFINE k == lo + ShardTicks
    <3>1. pc' = "slice" /\ lo' = k /\ hi' = End(k) + Spill
      BY <1>5, <2>8 DEF RunShard, Simulate
    <3>2. End(k) \in Nat /\ Spill \in Nat /\ k \in Nat /\ lo < k
      BY <2>1, <2>8, EndFacts, ChannelAssumption
    <3>3. End(lo)' = End(k)
      BY <3>1 DEF End
    <3>4. \A l \in saved : l < k => l <= lo
      BY <2>1 DEF TwinInv
    <3>5. \A e \in log' : e.shard < k
      <4>1. \A e \in log' : e.shard \in Int
        BY <2>1, ChannelAssumption DEF TwinLog, ChannelInv, TypeOK, Ticks
      <4> QED
        BY <2>1, <2>6, <3>2, <4>1
    <3> HIDE DEF k
    <3> QED
      BY <2>1, <2>5, <2>7, <3>1, <3>2, <3>3, <3>4, <3>5 DEF TwinInv
  <2>9. CASE ~(lo + ShardTicks < NumTicks)
    <3>1. pc' = "metrics"
      BY <1>5, <2>9 DEF RunShard
    <3>2. \A l \in saved : l <= lo
      <4>1. NumTicks \in Nat
        BY ChannelAssumption
      <4> QED
        BY <2>1, <2>9, <4>1 DEF TwinInv
    <3> QED
      BY <2>1, <2>5, <2>7, <3>1, <3>2 DEF TwinInv
  <2> QED
    BY <2>8, <2>9
<1>6. CASE \E n \in Ticks : OutrunSlice(n)
  <2>1. PICK n \in Ticks : OutrunSlice(n)
    BY <1>6
  <2>2. /\ pc = "slice" /\ log' = log /\ saved' = saved /\ hi \in Nat /\ n \in Nat /\ n >= hi
        /\ lo \in Nat /\ End(lo) \in Nat /\ Margin \in Nat
    BY <2>1, EndFacts, ChannelAssumption DEF OutrunSlice, parent, ChannelInv, TypeOK, PlaceInv, Ticks
  <2>3. CASE tries = MaxTries - 1
    BY <2>1, <2>2, <2>3 DEF OutrunSlice, TwinInv
  <2>4. CASE tries # MaxTries - 1
    <3>1. pc' = pc /\ lo' = lo /\ hi' = End(lo) + ((n - lo + 1) - (End(lo) - lo) + Margin)
      BY <2>1, <2>4 DEF OutrunSlice, Simulate
    <3>2. End(lo)' = End(lo)
      BY <3>1 DEF End
    <3>3. End(lo) <= hi /\ hi <= hi'
      BY <2>2, <3>1 DEF TwinInv
    <3>4. hi' \in Int
      BY <2>2, <3>1
    <3> QED
      BY <1>1, <2>2, <3>1, <3>2, <3>3, <3>4 DEF TwinInv
  <2> QED
    BY <2>3, <2>4
<1>7. CASE MetricsShard \/ FlushLast
  <2>1. /\ pc \in {"metrics", "flush"} /\ pc' \in {"metrics", "flush", "done"}
        /\ log' = log /\ saved' = saved
    BY <1>7 DEF MetricsShard, FlushLast, parent
  <2> QED
    BY <1>1, <2>1 DEF TwinInv
<1>8. CASE UNCHANGED vars
  BY <1>2, <1>8 DEF vars, slice, parent
<1> QED
  BY <1>3, <1>4, <1>5, <1>6, <1>7, <1>8 DEF Next

LEMMA TwinInvariant == Spec => []TwinInv
<1>1. Init => TwinInv
  BY DEF Init, TwinInv
<1>2. ChannelInv /\ TwinInv /\ [Next]_vars => TwinInv'
  BY TwinStep
<1> QED
  BY <1>1, <1>2, ChannelInvariant, PTL DEF Spec

\* A node's level at a tick is that of its last change before, or nominal.
LEMMA ReplayIsTrue ==
  ASSUME ChannelInv, NEW l \in saved, l < NumTicks, ShardLogged(l), NEW n \in Nodes, NEW t \in l .. End(l) - 1
  PROVE  Replayed(l, n, t) = truth[t][n]
<1> DEFINE seen == {e \in log : e.shard = l /\ e.change.series = n /\ e.change.tick <= t}
           level == [u \in Ticks |-> TrueRows[u][n]]
<1>1. /\ l \in Nat /\ End(l) \in Nat /\ t \in Nat /\ l <= t /\ t < End(l) /\ l .. t \subseteq Ticks
      /\ n \in Series /\ n # Intensity
  <2>1. l \in Nat /\ LastTick \in Nat /\ NumTicks \in Nat /\ NumTicks <= LastTick + 1
    BY ChannelAssumption DEF ChannelInv, TypeOK, Ticks
  <2>2. End(l) \in Nat /\ End(l) <= NumTicks
    BY <2>1, EndFacts
  <2>3. n \in Series /\ n # Intensity
    BY ChannelAssumption DEF Series
  <2> QED
    BY <2>1, <2>2, <2>3 DEF Ticks
<1>2. \A u \in Ticks : level[u] = truth[u][n] /\ level[u] \in Levels /\ TrueRows[u][n] = level[u]
  BY <1>1 DEF TrueRows, Levelled, ChannelInv, TypeOK, State
<1>3. Anchor[n] = Nominal /\ Nominal \in Levels
  BY <1>1, ChannelAssumption DEF Anchor
<1>4. ASSUME NEW u \in l .. t, NEW v \in Levels,
             v = IF u = l THEN Nominal ELSE level[u - 1], v # level[u]
      PROVE  \E e \in seen : e.change.tick = u
  <2> DEFINE c == [tick |-> u, series |-> n, value |-> level[u], previous |-> v]
  <2>1. u \in Int /\ u \in Ticks /\ l <= u /\ u < End(l) /\ u <= t /\ (u # l => u - 1 \in Ticks)
    BY <1>1
  <2>2. c \in Changes(l, End(l), TrueRows, Anchor)
    <3>1. c \in [tick : Int, series : Series, value : Levels, previous : Levels]
      BY <1>1, <1>2, <1>4, <2>1
    <3>2. c.tick = u /\ c.series = n /\ c.value = level[u] /\ c.previous = v
      OBVIOUS
    <3>3. c.value = TrueRows[c.tick][c.series] /\ c.value # c.previous
      BY <1>2, <1>4, <2>1, <3>2
    <3>4. c.previous = IF c.tick = l THEN Anchor[c.series] ELSE TrueRows[c.tick - 1][c.series]
      BY <1>2, <1>3, <1>4, <2>1, <3>2
    <3> HIDE DEF c, level
    <3> QED
      BY <1>1, <2>1, <3>1, <3>2, <3>3, <3>4, ChangesMember
  <2>3. [shard |-> l, change |-> c] \in log
    BY <2>2 DEF ShardLogged
  <2> QED
    BY <2>1, <2>3
<1>5. ASSUME NEW e \in seen
      PROVE  e.change.tick \in l .. t /\ e.change.value = level[e.change.tick]
  <2>1. e = [shard |-> l, change |-> e.change] /\ e.change.series = n /\ e.change.tick <= t
    BY DEF ChannelInv, TypeOK
  <2>2. e.change \in Changes(l, End(l), TrueRows, Anchor)
    BY <2>1 DEF ShardLogged
  <2>3. /\ e.change.tick \in Int /\ l <= e.change.tick
        /\ e.change.value = TrueRows[e.change.tick][e.change.series]
    BY <1>1, <2>2 DEF Changes
  <2> QED
    BY <1>1, <1>2, <2>1, <2>3
<1> HIDE DEF level
<1>6. CASE seen = {}
  <2>1. \A u \in l .. t : u = l => level[u] = Nominal
    BY <1>3, <1>4, <1>6
  <2>2. \A u \in l + 1 .. t : level[u] = level[u - 1]
    <3>1. ASSUME NEW u \in l + 1 .. t PROVE u \in l .. t /\ u # l /\ level[u - 1] \in Levels
      BY <1>1, <1>2
    <3> QED
      BY <1>4, <1>6, <3>1
  <2>3. level[t] = level[l]
    BY <1>1, <2>2, QuietStays
  <2> QED
    BY <1>1, <1>2, <1>6, <2>1, <2>3 DEF Replayed
<1>7. CASE seen # {}
  <2> DEFINE T == {t - e.change.tick : e \in seen}
  <2>1. T \in SUBSET Nat /\ T # {}
    BY <1>1, <1>5, <1>7
  <2>2. PICK m \in T : \A y \in T : m <= y
    <3> HIDE DEF T
    <3> QED
      BY <2>1, LeastNatural
  <2>3. PICK e \in seen : m = t - e.change.tick
    BY <2>2
  <2>4. \A d \in seen : d.change.tick <= e.change.tick
    <3>1. \A d \in seen : t - e.change.tick <= t - d.change.tick
      BY <2>2, <2>3
    <3> QED
      BY <1>1, <1>5, <3>1
  <2> DEFINE x == CHOOSE e_1 \in seen : \A d \in seen : d.change.tick <= e_1.change.tick
  <2>5. x \in seen /\ \A d \in seen : d.change.tick <= x.change.tick
    BY <2>4
  <2>6. Replayed(l, n, t) = x.change.value
    BY <1>7 DEF Replayed
  <2> HIDE DEF x, seen
  <2>7. /\ x.change.tick \in l .. t /\ x.change.value = level[x.change.tick]
    BY <1>5, <2>5
  <2> DEFINE a == x.change.tick
  <2>8. \A u \in a + 1 .. t : level[u] = level[u - 1]
    <3> SUFFICES ASSUME NEW u \in a + 1 .. t, level[u] # level[u - 1] PROVE FALSE
      OBVIOUS
    <3>1. u \in l .. t /\ u # l /\ u - 1 \in Ticks /\ u > a /\ u \in Int /\ a \in Int
      BY <1>1, <2>7
    <3>2. PICK d \in seen : d.change.tick = u
      BY <1>2, <1>4, <3>1
    <3> QED
      BY <2>5, <3>1, <3>2
  <2>9. level[t] = level[a]
    <3>1. a \in Nat /\ a <= t
      BY <1>1, <2>7
    <3> HIDE DEF a
    <3> QED
      BY <1>1, <2>8, <3>1, QuietStays
  <2> QED
    BY <1>1, <1>2, <2>6, <2>7, <2>9
<1> QED
  BY <1>6, <1>7

(***************************************************************************)
(* What the scrapes show of the changes.                                   *)
(***************************************************************************)
LEMMA Multiple ==
  ASSUME NEW a \in Nat, NEW m \in Nat \ {0}, a % m = 0
  PROVE  \E k \in Nat : a = k * m
<1>1. a \div m \in Nat /\ a = (a \div m) * m
  OBVIOUS
<1> QED
  BY <1>1

LEMMA TimesDivides ==
  ASSUME NEW k \in Nat, NEW m \in Nat \ {0}
  PROVE  (k * m) % m = 0
OBVIOUS

LEMMA MultiplesAdd ==
  ASSUME NEW a \in Nat, NEW b \in Nat, NEW m \in Nat \ {0}, a % m = 0, b % m = 0
  PROVE  (a + b) % m = 0
<1>1. PICK k \in Nat, l \in Nat : a = k * m /\ b = l * m
  BY Multiple
<1>2. a + b = (k + l) * m /\ k + l \in Nat
  BY <1>1
<1> QED
  BY <1>2, TimesDivides

LEMMA MultiplesApart ==
  ASSUME NEW g \in Nat, NEW h \in Nat, NEW m \in Nat \ {0}, g % m = 0, h % m = 0, h < g
  PROVE  h + m <= g
<1>1. PICK k \in Nat, l \in Nat : g = k * m /\ h = l * m
  BY Multiple
<1>2. l < k
  <2>1. SUFFICES ASSUME k <= l PROVE FALSE
    OBVIOUS
  <2>2. k * m <= l * m
    BY <2>1
  <2> QED
    BY <1>1, <2>2
<1>3. (l + 1) * m <= k * m /\ (l + 1) * m = l * m + m
  BY <1>2
<1> QED
  BY <1>1, <1>3

\* The next scrape is the first at or after a tick.
LEMMA NextScrapeFacts ==
  ASSUME NEW t \in Nat
  PROVE  /\ NextScrape(t) \in Nat /\ t <= NextScrape(t) /\ NextScrape(t) % Scrape = 0
         /\ \A h \in Nat : t <= h /\ h % Scrape = 0 => NextScrape(t) <= h
<1>1. Scrape \in Nat \ {0}
  BY ChannelAssumption
<1>2. /\ NextScrape(t) \in Nat /\ t <= NextScrape(t) /\ NextScrape(t) < t + Scrape
      /\ NextScrape(t) % Scrape = 0
  BY <1>1 DEF NextScrape
<1>3. ASSUME NEW h \in Nat, t <= h, h % Scrape = 0, h < NextScrape(t) PROVE FALSE
  <2>1. h + Scrape <= NextScrape(t)
    BY <1>1, <1>2, <1>3, MultiplesApart
  <2> QED
    BY <1>1, <1>2, <1>3, <2>1
<1> QED
  BY <1>2, <1>3

\* What a change shows of itself is what the next scrape of the window shows of its
\* series, and the samples are those of all scrapes so far.
ShownAt(c) == IF NextScrape(c.tick) < NumTicks THEN TrueRows[NextScrape(c.tick)][c.series] = c.value
              ELSE None
Shown(b) ==
  /\ \A e \in changes : e.visible = ShownAt(e.change)
  /\ samples = {s \in [tick : 0 .. b - 1, series : Exposed, value : Levels] :
                  s.tick % Scrape = 0 /\ s.value = TrueRows[s.tick][s.series]}

\* A shard but the last ends on a scrape, and what is flushed is shown.
ScrapeInv ==
  /\ pc \in {"checkpoints", "slice"} => changes = {} /\ samples = {}
  /\ pc = "metrics" => /\ lo % Scrape = 0
                       /\ hi < NumTicks => hi % Scrape = 0
                       /\ pending = None => changes = {} /\ samples = {}
                       /\ pending # None => Shown(pending.lo)
  /\ pc = "flush" => Shown(pending.lo)
  /\ pc = "done" => Shown(NumTicks)

LEMMA EndOnScrape ==
  ASSUME NEW l \in Nat, l < NumTicks, l % Scrape = 0
  PROVE  End(l) < NumTicks => End(l) % Scrape = 0
<1>1. ShardTicks \in Nat /\ Scrape \in Nat \ {0} /\ ShardTicks % Scrape = 0 /\ NumTicks \in Nat
  BY ChannelAssumption
<1> QED
  <2>1. (l + ShardTicks) % Scrape = 0
    BY <1>1, MultiplesAdd
  <2> QED
    BY <1>1, <2>1 DEF End

\* A shard is flushed with the first row of the one after it, which is a scrape.
LEMMA FlushShows ==
  ASSUME pending \in Shard, PendingInv, NEW next, Flush(pending, next), UNCHANGED inputs,
         Shown(pending.lo), NEW b, b = pending.hi,
         pending.hi < NumTicks => next # None /\ next = TrueRows[pending.hi] /\ pending.hi % Scrape = 0,
         pending.hi = NumTicks => next = None
  PROVE  Shown(b)'
<1> DEFINE p == pending
           cut == Changes(p.lo, p.hi, p.rows, p.before)
<1>1. /\ p.lo \in Nat /\ p.hi \in Nat /\ p.lo < p.hi /\ p.hi <= NumTicks /\ NumTicks \in Nat
      /\ \A t \in p.lo .. p.hi - 1 : p.rows[t] = TrueRows[t]
  BY ChannelAssumption DEF PendingInv, Shard, Ticks
<1>2. TrueRows' = TrueRows
  BY TrueRowsKept
<1>3. ASSUME NEW c \in cut PROVE Visible(c, p, next) = ShownAt(c)
  <2> DEFINE g == NextScrape(c.tick)
  <2>1. c.tick \in Nat /\ p.lo <= c.tick /\ c.tick < p.hi
    BY <1>1 DEF Changes
  <2>2. g \in Nat /\ c.tick <= g /\ \A h \in Nat : c.tick <= h /\ h % Scrape = 0 => g <= h
    BY <2>1, NextScrapeFacts
  <2> HIDE DEF g
  <2>3. CASE g < p.hi
    <3>1. p.rows[g] = TrueRows[g] /\ g < NumTicks
      BY <1>1, <2>1, <2>2, <2>3
    <3> QED
      BY <2>3, <3>1 DEF Visible, ShownAt, g
  <2>4. CASE ~(g < p.hi) /\ p.hi < NumTicks
    <3>1. g = p.hi
      BY <1>1, <2>1, <2>2, <2>4
    <3> QED
      BY <2>4, <3>1 DEF Visible, ShownAt, g
  <2>5. CASE ~(g < p.hi) /\ ~(p.hi < NumTicks)
    <3>1. p.hi = NumTicks
      BY <1>1, <2>5
    <3> QED
      BY <2>5, <3>1 DEF Visible, ShownAt, g
  <2> QED
    BY <2>3, <2>4, <2>5
<1>4. \A e \in changes' : e.visible = ShownAt(e.change)
  <2>1. changes' = changes \cup {[change |-> c, visible |-> Visible(c, p, next)] : c \in cut}
    BY DEF Flush
  <2> HIDE DEF cut
  <2> QED
    BY <1>3, <2>1 DEF Shown
<1>5. \A c : ShownAt(c)' = ShownAt(c)
  BY <1>2 DEF ShownAt, NextScrape
<1>6. samples' = {s \in [tick : 0 .. p.hi - 1, series : Exposed, value : Levels] :
                    s.tick % Scrape = 0 /\ s.value = TrueRows[s.tick][s.series]}
  <2>1. samples = {s \in [tick : 0 .. p.lo - 1, series : Exposed, value : Levels] :
                     s.tick % Scrape = 0 /\ s.value = TrueRows[s.tick][s.series]}
    BY DEF Shown
  <2>2. samples' = samples \cup {s \in [tick : p.lo .. p.hi - 1, series : Exposed, value : Levels] :
                                   s.tick % Scrape = 0 /\ s.value = p.rows[s.tick][s.series]}
    BY DEF Flush
  <2>3. {s \in [tick : p.lo .. p.hi - 1, series : Exposed, value : Levels] :
           s.tick % Scrape = 0 /\ s.value = p.rows[s.tick][s.series]}
          = {s \in [tick : p.lo .. p.hi - 1, series : Exposed, value : Levels] :
               s.tick % Scrape = 0 /\ s.value = TrueRows[s.tick][s.series]}
    BY <1>1
  <2>4. 0 .. p.hi - 1 = (0 .. p.lo - 1) \cup (p.lo .. p.hi - 1)
    BY <1>1
  <2> HIDE DEF p
  <2> QED
    BY <2>1, <2>2, <2>3, <2>4
<1> QED
  BY <1>2, <1>4, <1>5, <1>6 DEF Shown

LEMMA ScrapeStep ==
  ASSUME ChannelInv, LogInv, ScrapeInv, [Next]_vars
  PROVE  ScrapeInv'
<1>0. UNCHANGED inputs
  BY DEF Next, vars, Tick, SaveCheckpoint, RunShard, OutrunSlice, MetricsShard, FlushLast
<1>1. TrueRows' = TrueRows /\ \A c : ShownAt(c)' = ShownAt(c)
  BY <1>0, TrueRowsKept DEF ShownAt, NextScrape
<1>2. UNCHANGED <<changes, samples>> => \A b : Shown(b) => Shown(b)'
  BY <1>1 DEF Shown
<1>3. UNCHANGED <<changes, samples, pending, pc, lo, hi>> => ScrapeInv'
  <2> SUFFICES ASSUME UNCHANGED <<changes, samples, pending, pc, lo, hi>> PROVE ScrapeInv'
    OBVIOUS
  <2>1. Shown(pending.lo) => Shown(pending.lo)'
    BY <1>1 DEF Shown
  <2>2. Shown(NumTicks) => Shown(NumTicks)'
    BY <1>2
  <2> QED
    BY <2>1, <2>2 DEF ScrapeInv
<1>4. CASE Tick
  BY <1>3, <1>4 DEF Tick, output
<1>5. CASE SaveCheckpoint
  <2>1. pc = "checkpoints" /\ UNCHANGED output /\ (pc' = "checkpoints" \/ pc' = "slice")
    BY <1>5 DEF SaveCheckpoint
  <2> QED
    BY <2>1 DEF output, ScrapeInv
<1>6. CASE RunShard
  <2>1. pc = "slice" /\ UNCHANGED output
        /\ (pc' = "slice" \/ (pc' = "metrics" /\ lo' = 0 /\ hi' = End(0)))
    BY <1>6 DEF RunShard, Simulate
  <2>2. 0 % Scrape = 0 /\ (End(0) < NumTicks => End(0) % Scrape = 0)
    BY EndOnScrape, ChannelAssumption
  <2>3. pending = None
    BY <2>1 DEF LogInv
  <2> QED
    BY <2>1, <2>2, <2>3 DEF output, ScrapeInv
<1>7. CASE \E n \in Ticks : OutrunSlice(n)
  <2>1. pc = "slice" /\ UNCHANGED output /\ (pc' = "slice" \/ pc' = "failed")
    BY <1>7 DEF OutrunSlice
  <2> QED
    BY <2>1 DEF output, ScrapeInv
<1>8. CASE MetricsShard
  <2>1. /\ pc = "metrics" /\ at = hi /\ lo \in Nat /\ hi \in Nat /\ lo < hi /\ hi <= NumTicks
        /\ NumTicks \in Nat /\ lo % Scrape = 0 /\ (hi < NumTicks => hi % Scrape = 0)
    BY <1>8, ChannelAssumption DEF MetricsShard, ChannelInv, TypeOK, PlaceInv, ScrapeInv
  <2>2. pending' = [lo |-> lo, hi |-> hi, rows |-> row, before |-> prev] /\ pending'.lo = lo
    BY <1>8 DEF MetricsShard
  <2>3. ASSUME NEW b, b = lo PROVE Shown(b)'
    <3>1. CASE pending = None
      <4>1. changes' = {} /\ samples' = {} /\ b = 0
        BY <1>8, <2>1, <2>3, <3>1 DEF MetricsShard, ScrapeInv, LogInv
      <4> QED
        BY <4>1 DEF Shown
    <3>2. CASE pending # None
      <4>1. pending \in Shard /\ PendingInv /\ pending.hi = lo /\ Flush(pending, row[lo])
            /\ Shown(pending.lo)
        BY <1>8, <2>1, <3>2 DEF ChannelInv, TypeOK, LogInv, ScrapeInv, MetricsShard
      <4>2. row[lo] # None /\ row[lo] = TrueRows[lo]
        <5>1. lo \in Ticks /\ lo \in lo .. at - 1
          BY <2>1, ChannelAssumption DEF Ticks
        <5>2. row[lo] \in Row /\ row[lo] = TrueRows[lo]
          BY <5>1 DEF ChannelInv, TypeOK, SlicesAgree, TrueRows
        <5> QED
          BY <5>2, ChannelAssumption
      <4>3. ~(lo = NumTicks)
        BY <2>1
      <4> QED
        BY <1>0, <2>1, <2>3, <4>1, <4>2, <4>3, FlushShows
    <3> QED
      BY <3>1, <3>2
  <2>4. Shown(pending.lo)'
    <3>1. PICK b : b = lo
      OBVIOUS
    <3>2. Shown(b)' /\ pending'.lo = b
      BY <2>2, <2>3, <3>1
    <3> QED
      BY <3>2 DEF Shown
  <2>5. CASE hi < NumTicks
    <3>1. pc' = "metrics" /\ lo' = hi /\ hi' = End(hi)
      BY <1>8, <2>5 DEF MetricsShard, Simulate
    <3>2. End(hi) < NumTicks => End(hi) % Scrape = 0
      BY <2>1, <2>5, EndOnScrape
    <3>3. pending' # None
      <4>1. {lo, hi} \subseteq 0 .. LastTick + 1 /\ row \in [Ticks -> Row]
            /\ prev \in [Series -> Levels \cup {None}]
        BY DEF ChannelInv, TypeOK
      <4>2. lo \in Ticks /\ hi \in Ticks \cup {LastTick + 1}
        BY <2>1, ChannelAssumption DEF Ticks
      <4>3. pending' \in Shard
        BY <2>2, <4>1, <4>2 DEF Shard
      <4> QED
        BY <4>3, ChannelAssumption
    <3> QED
      BY <2>1, <2>4, <2>5, <3>1, <3>2, <3>3 DEF ScrapeInv
  <2>6. CASE ~(hi < NumTicks)
    <3>1. pc' = "flush"
      BY <1>8, <2>6 DEF MetricsShard
    <3> QED
      BY <2>4, <3>1 DEF ScrapeInv
  <2> QED
    BY <2>5, <2>6
<1>9. CASE FlushLast
  <2>1. /\ pc' = "done" /\ pending \in Shard /\ PendingInv /\ pending.hi = NumTicks
        /\ Flush(pending, None) /\ Shown(pending.lo)
    BY <1>9 DEF FlushLast, ChannelInv, TypeOK, LogInv, ScrapeInv
  <2>2. ~(NumTicks < NumTicks)
    BY ChannelAssumption
  <2>3. Shown(NumTicks)'
    BY <1>0, <2>1, <2>2, FlushShows
  <2> QED
    BY <2>1, <2>3 DEF ScrapeInv
<1>10. CASE UNCHANGED vars
  BY <1>3, <1>10 DEF vars, slice, output
<1> QED
  BY <1>4, <1>5, <1>6, <1>7, <1>8, <1>9, <1>10 DEF Next

LEMMA ScrapeInvariant == Spec => []ScrapeInv
<1>1. Init => ScrapeInv
  BY DEF Init, ScrapeInv
<1>2. ChannelInv /\ LogInv /\ ScrapeInv /\ [Next]_vars => ScrapeInv'
  BY ScrapeStep
<1> QED
  BY <1>1, <1>2, ChannelInvariant, LogInvariant, PTL DEF Spec

\* In the end the changes show what is sampled at the first scrape after them.
LEMMA ShownIsSampled ==
  ASSUME ChannelInv, Shown(NumTicks), NEW e \in changes
  PROVE  LET later == {g \in e.change.tick .. NumTicks - 1 : g % Scrape = 0}
             next == CHOOSE g \in later : \A h \in later : g <= h
         IN  IF later = {} THEN e.visible = None
             ELSE /\ e.visible \in BOOLEAN
                  /\ e.change.series \in Exposed =>
                       (e.visible <=> [tick |-> next, series |-> e.change.series,
                                       value |-> e.change.value] \in samples)
<1> DEFINE later == {g \in e.change.tick .. NumTicks - 1 : g % Scrape = 0}
           next == CHOOSE g \in later : \A h \in later : g <= h
           first == NextScrape(e.change.tick)
<1>1. e.change.tick \in Nat /\ NumTicks \in Nat /\ e.change.value \in Levels
  BY ChannelAssumption DEF ChannelInv, TypeOK, Change, Ticks
<1>2. /\ first \in Nat /\ e.change.tick <= first /\ first % Scrape = 0
      /\ \A h \in Nat : e.change.tick <= h /\ h % Scrape = 0 => first <= h
  BY <1>1, NextScrapeFacts
<1>3. e.visible = IF first < NumTicks THEN TrueRows[first][e.change.series] = e.change.value ELSE None
  BY DEF Shown, ShownAt
<1> HIDE DEF first
<1>4. CASE first < NumTicks
  <2>1. first \in later /\ \A h \in later : first <= h
    BY <1>1, <1>2, <1>4
  <2>2. next = first
    <3>1. \A g \in later : g \in Nat
      BY <1>1
    <3> QED
      BY <1>2, <2>1, <3>1
  <2>3. e.visible = (TrueRows[first][e.change.series] = e.change.value)
    BY <1>3, <1>4
  <2>4. ASSUME e.change.series \in Exposed
        PROVE  [tick |-> first, series |-> e.change.series, value |-> e.change.value] \in samples
                 <=> TrueRows[first][e.change.series] = e.change.value
    <3>1. first \in 0 .. NumTicks - 1
      BY <1>1, <1>2, <1>4
    <3> QED
      BY <1>1, <1>2, <2>4, <3>1 DEF Shown
  <2> HIDE DEF later, next
  <2>5. later # {}
    BY <2>1
  <2>6. e.visible \in BOOLEAN
    BY <2>3
  <2> QED
    BY <2>2, <2>3, <2>4, <2>5, <2>6 DEF later, next
<1>5. CASE ~(first < NumTicks)
  <2>1. later = {}
    BY <1>1, <1>2, <1>5
  <2> QED
    BY <1>3, <1>5, <2>1
<1> QED
  BY <1>4, <1>5

(***************************************************************************)
(* The theorems.                                                           *)
(***************************************************************************)
\* Every state of the simulations and of what is written is of its type.
THEOREM ChannelTypeCorrect == Spec => []TypeOK
<1>1. ChannelInv => TypeOK
  BY DEF ChannelInv
<1> QED
  BY <1>1, ChannelInvariant, PTL

\* Every slice holds what one long run has at its ticks: a shard run again with
\* a longer slice, or simulated again by derive, sees the values it saw before.
THEOREM SlicesOfOneRun == Spec => []SlicesAgree
<1>1. ChannelInv => SlicesAgree
  BY DEF ChannelInv
<1> QED
  BY <1>1, ChannelInvariant, PTL

\* The change log of derive is what changed over the window, each change once
\* with the level before it, however the window is cut into shards.
THEOREM LoggedChangesAreTrue == Spec => []ChangesAreTrue
<1>1. LogInv => ChangesAreTrue
  BY DEF LogInv
<1> QED
  BY <1>1, LogInvariant, PTL

\* Read from nominal, the log that generate writes of a shard gives back the level
\* of every node at every tick of the shard, though it was written without the levels
\* before the shard, from a slice that may have been simulated several times.
THEOREM TwinReplaysTruth == Spec => []TwinReplays
<1>1. ChannelInv /\ TwinInv => TwinReplays
  BY ReplayIsTrue DEF TwinInv, TwinReplays
<1> QED
  BY <1>1, ChannelInvariant, TwinInvariant, PTL

\* A change of the metrics' log is visible exactly when the first scrape at or after
\* it samples its level, whether that scrape is of its own shard or the first of the
\* next, and unresolved only where the window has no scrape left.
THEOREM VisibleChangesAreSampled == Spec => []VisibleIsSampled
<1>1. ChannelInv /\ ScrapeInv => VisibleIsSampled
  BY ShownIsSampled DEF ScrapeInv, VisibleIsSampled
<1> QED
  BY <1>1, ChannelInvariant, ScrapeInvariant, PTL
=============================================================================
