# TLA+ specifications of trace-bench

trace-bench generates benchmark corpora: simulated traces of a microservice
system, the causal ground truth behind them, and the views a method may read.
A corpus is a directory, `<out>/<instance>/<variant>/seed=<k>`, that several
commands write, read, derive from, publish and fetch. The specifications in
this directory model the parts of the program where order matters: who writes
which file when, what a crash leaves, what a later command trusts, and the
algorithms whose result must not depend on how the work was cut up.

Source paths below are relative to `src/src/tracebench/`.

## 1. Inventory

| component | state it keeps | operations | what makes it correct |
|---|---|---|---|
| corpus generation (`generate.py`, `shards.py`) | shard files, done markers, temporary files, in-place artefacts, COMPLETE; a pool of worker processes | `generate`, `run_one_shard`, `write_shard`, `completed_shards`, `--resume`, `--stop-after-shard` | a marker means a whole shard; COMPLETE means every shard; a resumed corpus is the one a fresh run gives |
| manifest (`manifest.py`) | `manifest.json`, COMPLETE | `build_manifest`, `write_manifest`, `refresh_manifest`, `finalize_corpus`, `verify_manifest`, `scan_names` | a command that ends well leaves what its manifest lists |
| dataset host (`publish.py`) | a stage of hard links, the host's files and tags, a scratch directory per fetch | `upload`, `release`, `fetch` | what the host serves is a whole, verified corpus; a tag names verified files; a fetched corpus is whole or absent |
| derived variants (`derive.py`, `metrics.py`) | a second corpus sharing files (hard links) with its source | `validate_source`, `link_source`, `derive`, `derive_metrics` | a derived corpus is the source plus its own channel; the source is untouched; metrics do not depend on shard boundaries or on `--resume` |
| pipeline (`pipeline.py`) | its steps' records | `run_pipeline` | stops at the first failure; uploads only verified corpora |
| latent chain (`latents.py`) | one chain state per tick | `simulate_latents`, `shard_checkpoints` | a slice from a checkpoint equals the same ticks of one long run |
| request engine (`engine.py`) | sessions, requests, hops | `run_shard`, `_evaluate_tree`, spill | a journey never reads a tick the slice does not hold; a record's interval and parent agree with its tree |
| record emission (`emit.py`) | raw records and the oracle's linkage | `emit_shard` | every record is linked to its hop |
| correlator (`correlate/`) | open sequences, views, label counts | `SequenceStitcher`, `build_resolution`, `attribute`, `build_trees`, `ViewBuilder` | sequences do not depend on sharding; a tree has one root and no cycle |
| ground truth (`mechanism.py`, `projection.py`, `graphs.py`, `cpdag.py`) | caches of effects | mechanism graph and tables, projection at two grains, latent groups, targets, CPDAG | between endpoints the request target has the calls of the published prior that matter to their caller; later steps never cause earlier ones; compelled edges are those all equivalent graphs share |
| topology and configuration (`topology.py`, `config.py`, `scenarios.py`, `instantiate.py`, `family.py`, `naming.py`) | the deployment under construction: edges, reached endpoints, journeys, calibration | `build_topology`, `build_scenarios`, `assign_call_probabilities`, validation | the call graph is acyclic; every endpoint lies on a journey; the best calibration ships |
| scoring (`score.py`, `check_mechanism.py`, `realism_check.py`) | a context per target: universe, truth of each floor | `score_at_floor`, `self_check`, interventions | sparse scores equal the dense definition; the target is perfect against itself |
| object store (`artifacts.py`) | `artifacts.json` | `push`, `pull`, `verify` | pull verifies what push listed |
| helpers (`rng.py`, `hashing.py`, `intensity.py`, `regimes.py`, `latency.py`, `tables.py`, `record.py`, `log.py`, `estimate.py`, `realism.py`, `constants.py`, `allowlist.py`) | none | keyed draws, tables, JSON | pure functions |

Components interact through the file system: `generate` writes the corpus,
calls the correlator and then the manifest; `derive` reads one corpus and
writes another that shares its files; `pipeline` calls them in order; `publish`
moves finished corpora to a host and back. Inside `generate` a pool of spawned
processes writes shards while the command waits for their results in order.

The behaviours that are hard: a crash at any file operation, followed by
another run with the same or other arguments; workers that raise, die or are
cancelled while others write; artefacts rewritten in place under a directory
that readers take for finished; files shared by hard links; an upload that is
interrupted and repeated; an algorithm fed shard by shard that must give the
same answer for every cut.

## 2. Plan

The order follows what would hurt most: corpora that are silently wrong on
disk, then corpora that are silently wrong on the host, then algorithms whose
result must not depend on how the work was cut.

| step | modules | composes, implements | state |
|---|---|---|---|
| 1 | `GenerateCorpus`, `AtomicStore` | `GenerateCorpus` implements `AtomicStore` | done, proved |
| 2 | `SequenceStitcher` | implements the stitching of one shard (`OneShard`) | done, proved |
| 3 | `DatasetHost` | uploads, releases and fetches composed over one host | done, proved |
| 4 | `DeriveCorpus` | two corpora, pipeline job and `derive`, over shared files | done, proved |
| 5 | `LatentChannel` | `generate`'s checkpoints and slices and `derive`'s metrics, over one chain | done, proved |
| 6 | `Request` | one request through engine, access lines, trees and rows: the correlator recovers what the engine made | done, proved |
| 7 | `Journey` | the sessions of a shard, their records' keys, attribution and client links | done, proved |
| 8 | `CallGraph`, `Mechanism`, `Projection` | each extends the one before: a deployment, its mechanism graph, its targets | done, proved |
| 9 | `Cpdag`, `Score` | the scorer and its reference definitions | done, proved |
| 10 | two commands at once and orphaned workers in `GenerateCorpus`; the floor sweep and coarsening of `projection.py` | extend 1 and 8 | open |

Steps 6 and 7 share one line of thought: the engine makes a tree of hops or a
session of requests, emission forgets parts of it, the correlator recovers it,
and what it recovers is compared with what was made.

## 3. Modules and code

Every module keeps the code's names where it can; `PROJECT.json` maps each
definition to its lines. An operator whose comment begins with "Mutant" is a
plausible wrong version of the definition after it, and no part of the
specification.

### GenerateCorpus (with AtomicStore)

One corpus directory. A file's bytes are the version of the inputs (configuration
and tool) that wrote it, since the directory is named after instance, variant and
seed only. `files`, `temps` and `markers` are the shards (`shards.write_shard`
writes each file to a temporary name, renames it, and writes the marker last);
`aux` holds what is written in place (instantiation, graphs, labels, views), each
in pieces written one after another and `Torn` between truncation and writing; `Pieces` says
which of them a version has, since the graphs have a file for every regime and
the views one for every part of a partition, and `Fixed` stands for the files that
every version has. What the running version lacks stays as it was, and is listed.
`manifest` and `complete` are
`manifest.json` and COMPLETE. `pc` is where the command is; the pool of processes
is `queue`, `job`, `part`, `opened`. `StartGenerate(r)` takes any argument list of
`Commands` (resume, stop after a shard, one process or a pool, correlate, override
the cap); `StartCorrelate` is the correlator on its own.
What can stop a run: `Raise` (a shard raises: the rest of the queue is cancelled,
shards being written are finished), `WorkerDies` (the pool breaks), `Crash`.

Simplifications: a crash takes the command's workers with it; what reaches the
disk after a power failure is not modelled; one command runs at a time; `run/`,
which no manifest lists, is left out; `views` is `Other` unless computed from
exactly one version's full corpus; a stand-alone `correlate` drops fields of the
manifest that no listing here has.

`AtomicStore` is what a reader may rely on who looks at shards through their
markers: a shard appears at once, whole and of one version, and then stays.

### SequenceStitcher

`SequenceStitcher` of `correlate/__main__.py`. `feed` gives each record a time
stamp and the shard it is in; shards are read in order, and those without a marker
are skipped. `AddShard` is `add_shard` with `close_before`, `CloseAll` is
`close_all`. `Runs` says which records of a group belong together; `LoopRuns` is
the code's loop, a fold that takes the records by time and span id and joins each
to the last run (`Join`). Sessions belong to one shard. Simplifications: the epoch
is 0, the records of a group are known up to time stamp and shard, and a clock is
off by at most `Margin`, which is what `SKEW_MARGIN_MS` supposes. `Gap >= Bucket`
is an assumption (the defaults satisfy it; `--gap-min` can break it).

### DatasetHost

`publish.py`. Each uploader has its corpora, a stage of hard links (what is staged
changes when a file is rewritten in place) and what `upload_large_folder` noted
there as committed; an upload checks the host for each path, stages, sends file
by file (one commit each), and looks for the manifests. An upload may replace what is
there, and may be given another stage directory. `Release` verifies every
corpus whose manifest is on the branch and tags the branch. `Fetch` downloads a
file at a time into the scratch directory of its corpus, verifies there, removes
an unfinished earlier attempt and moves. The hub library is external: it is as
weak as `publish.py`'s calls and comments allow (`snapshot_download` may mix what
the branch held at different times). Corpora are regenerated only whole, and not
while they are uploaded. With `ReleaseAlone` no upload runs beside a release (one
operator publishes). The dataset card and `release.json` are left out.

### DeriveCorpus

A latent corpus and the metrics corpus derived from it, by `derive` or by a
pipeline job. The derived corpus links most files of its source. `InPlace` files
are those commands truncate and write (`write_json`): the link shares the change.
`Replaced` files are renamed into place: the link keeps the old one. `channel`
numbers the parts of the metrics channel: samples, changes and marker of each
shard. The source is generated file by file, in any order, with its manifest and
COMPLETE in one step (`GenerateCorpus` has the details). Versions need not have the
same files: `Has` says which partitions of the views and which per-regime graphs a
version has, `Shards` how many shards of the channel, and neither command removes a
file its version has no counterpart of. `Made(v, files)` is what a complete corpus
of `v` can be sure of, and a fetched source (`Corpora`) may hold left-overs like a
generated one; a torn left-over is not fetched. `LinkFile` walks the files the
source has, `WriteGraph` the graphs of the version that was loaded. Simplifications:
one seed and the variants latent and metrics; one command at a time.

### LatentChannel

The latent chain. `draw` fixes what each tick's uniforms do to the chain: they are
keyed by seed, absolute tick and node, so a tick is a function of the level
before it, whatever slice it is simulated in; any functions (`Moves`) may be
drawn. `truth` is one long run with the fault applied at each of its ticks.
`Tick` is an iteration of `simulate_latents`, with the forcings it selects for
its slice (`Active`). `SaveCheckpoint` is `shard_checkpoints`; `RunShard` and
`OutrunSlice(n)` are `run_one_shard`: a journey that needs tick `n` beyond the
slice has the shard simulated again, longer, at most `MaxTries` times.
`TwinLog` is what `emit_shard` makes of `state_events`. `MetricsShard` and
`FlushLast` are the loop of `derive_metrics`, whose `flush` is one shard behind;
`Visible` is `visible_at_scrape`. Simplifications: one scheduled fault; shards of
`generate` in order (they share nothing); no forced intensity (`check_mechanism`
has it); the journeys are left to which tick they outrun; the markers and files
of `derive_metrics` are in `DeriveCorpus`.

### CallGraph, Mechanism, Projection

`CallGraph` is an instantiation: services are placed in layers, endpoints are
wired one after another in layer order (`Wire` is `pick_callees` with
`add_edge`), those that nobody reaches are attached (`Attach`), scenarios draw
their journeys (`DrawScenario`), and the call probabilities are calibrated
(`Calibrate`, `Ship`). A random draw is a choice among the values it can have. A
call probability is known by the rule that sets it, a vector of stop
probabilities by a number, and the Monte Carlo that measures one, whose seeds are
fixed before the loop, by a function (`Measured`). Each call is drawn `cached` or
not and `critical` or not, which decides whether a failure of the callee can reach
the caller's outcome. Names, pods, addresses, `rho` and `p_hit` are left out.

`Mechanism` is the graph of `mechanism.py`: nodes and parents, for any number of
retries. `Projection` takes the graph of a finished `CallGraph` and projects it at
both grains: `Through` is the set of nodes a path may pass, `Spread` what a path
through them reaches (the code's queue, in rounds), `ProjectDirected` is
`directed_token_edges`, `ProjectGroups` is `bidirected_groups`, and `Alphabet`,
`Support` and `InUniverse` are what the scorer measures against. An effect is
known by the path it takes; that its strength is zero, in which case the code
writes no edge, is modelled for the outcomes of a callee on its caller (`HasEffect`).
They are felt in two ways (`Feels`): a failure, through a critical call, where the
caller's mask lets it show a failure (`worst_pmf`, `attempt_dist`), and the callee's
class, through the caller's time, where it can be slow. Whether the second is more
than zero is sampled with fixed seeds (`p_slow`), and so a set of calls, the
constant `Slowing`. Every other effect that a path and the masks allow is taken to
be there, so that what is said of all edges holds of those above any floor. How
strong an effect is, the floor sweep and the coarsening are left out.

### Cpdag, Score

`Cpdag` has v-structures and Meek's four rules, and beside them what they stand
for: the edges shared by all acyclic graphs with the same adjacencies and
v-structures. `Orient` is one turn of the code's loop; which of the forced edges it
takes is left open, and `CompelledEdges` takes as many turns as there are edges, as
a function of their number. `IsAcyclic` says of sets of nodes what the code's search
finds out. In `Score`, `InitContext` builds the context of a target
and `ScoreAtFloor` scores a prediction with it; `truths` is the context's cache.
`ScoreSparse` follows the code that looks at predicted and true pairs only,
`ScoreDense` walks the universe. Ranks are doubled and an average precision is
kept as the places of the positives, so that everything is an integer. Graph
distances (an external package) are known by when they are computed
(`CausallyValid`); headline statistics are left out. `TargetAssumption` is what
`materialise` (`projection.py:643-664`) writes: finitely many edges, all of positive
strength, a bidirected one once and with its tokens in order. Predictions may have
any scores.

### Request

One request of one BFF endpoint. `Invoke` decides top-down which endpoints are
called, `Attempt` and `Settle` evaluate them bottom-up with their retries, `Time`
sets when each hop starts, `Emit` writes an access line for each attempt by the
clock of its pod and perhaps an error of the client, `BuildTrees` is
`build_trees`; `OutcomeOf`, `Spans` and `RowBefore` are `outcome_of`,
`build_spans` and the sort of `_rows_for`.

The engine's times are in ticks, `Ms` of which make a millisecond; slow is drawn
from them (`OutcomeFor`). What is emitted is in whole milliseconds, converted as the
code does: the first start is truncated (`Floor`), the time before a retry and the
attempt's own are rounded half to even, each apart (`Rint`, `HopStart`, `HopEnd`),
and `request_time` is written in seconds and read back by `int(rt * 1000)`, which
loses a millisecond where the double lies below the decimal. `Lossy` is the set of
these durations (1001, 1003, 2002, ...); the module only assumes that 0 is none of
them, and `MCRequest` gives those that occur in its instance. A pod's skew is
truncated together with the whole stamp, so it is whole.

Nothing is forced, every class of the repertoire may be drawn in every
state, and at most `MaxSkewed` lines carry a skewed clock. Two assumptions:
`Order` has each endpoint once and callees after their callers, which is what
`reachable_from` of `topology.py` returns (`TopologicalOrder`), and no two lines of
the request have one id (`LinesAreTold`: ids are hashes, collisions are left out).

### Journey

The sessions of a shard in lockstep (`StartStep`, `Attempt`, `EndStep`,
`EndShard` are the loops of `run_shard`), the keys of their records (`Emit`,
with the defects: a cart id in place of the session's, split lines, untagged
errors), and what `normalize.py`, `resolve.py` and `client_links` make of them
(`KeysOf`, `Gather`, `Propagate`, `AttributeAll`). A request is the BFF's access
line and one internal endpoint; the requests of one attempt take the same time;
the client's mask is covered by its choosing no error. A key is the value it is
hashed from, so that two keys are equal when their values are. `Some` bounds the
subsets of records that are tried for each defect, `KeyParts` the part of a split
line that holds its keys. `BitOr` is the bitwise or with which the engine packs
step and attempt into a request's number (the module is given it as a constant and
supposes only what the low byte needs; `MCJourney` gives it the operator of
`Bitwise`). Attribution by the client's address, which is off unless it is asked
for, is left out.

## 4. Runs

| run | what it asks | bounds and size |
|---|---|---|
| `gen_faults` | fresh, resumed, stopped and correlating command lines over whatever others left: a run that ends well leaves what its manifest lists, COMPLETE is never early, starting over makes every file of its inputs anew | 2 versions (one has a regime, the other a partition more), 2 shards of 2 files, 2 workers, 1 fault; 3,540,000 states, 2 minutes |
| `gen_resume` | runs that only resume: `AtomicStore`; every command ends; an operator who keeps resuming gets COMPLETE | 2 versions (one over the cap, one with a regime and the other with a partition more), 2 faults; 271,000 states, a minute |
| `stitch` | sequences do not depend on sharding; open runs are recent; the code's loop cuts as defined | 3 records of a device and 1 of a session, 3 shards, every cut and every skew; 83,000 states, a minute |
| `host` | an upload that ends well serves whole corpora; tags verify; what is fetched is whole | 1 corpus of 2 files, a manifest and a marker, 2 versions, another that is asked for and never uploaded; an uploader that dies twice or keeps its stage, 2 regenerations or replacing uploads, a release, a fetch; 1.1M states, 75 s |
| `host_resume` (violated) | an upload is refused only where a whole corpus is | 1 uploader, 1 death |
| `derive` | the source is left alone, all a derivation writes and links is of one version, and derived corpora stop verifying only through shared files | 2 versions, one with a shard, a partition and a regime more, 3 jobs, 2 crashes; 877,000 states |
| `derive_shared` (violated) | a complete derived corpus verifies | the same |
| `channel` | slices, change log, scrapes and twin log are those of one long run | 1 node of 2 levels over 5 ticks, shards of 2 (the last one shorter), scrapes of 2; 151,000 states |
| `target` | every endpoint carries traffic, the best calibration ships; the targets are those the documents describe | 2 BFF endpoints, 4 endpoints of 3 services in 2 layers, 1 external, 2 calls that may be cached or not critical, 2 scenarios, 1 of them never slow at the BFF, 1 retry, 2 exposures; 64,000 states, 150 s |
| `score` | sparse is dense; Meek's rules are complete; self scores are perfect | all 543 acyclic graphs on 4 operations; small targets with up to 2 edges, 2 floors, scores from -1 to 2; 89,000 states |
| `journey` | requests in order; client records find their request; attribution is true | 2 sessions of one device, scenarios of 2 and 1 steps, 1 retry; 40,000 states |
| `request` | callees lie inside callers, outcome and order are recovered from lines, up to rounding; callers are found | a diamond of 4 endpoints, two of one service, 1 retry, 1 skewed line, eighths of a millisecond; 366,000 states, 2 minutes |

Why the bounds are enough to be worth running: two shards give a finished and an
unfinished one, two files per shard a half-written one, two workers an
interleaving, two versions a mixture, one fault a leftover for the next command
(`gen_resume`, `derive` and `host` have two, a leftover of a leftover), and in `host`
two changes of a corpus put another version on the branch while the first is being
fetched. What an upload or a release of several corpora adds (all are checked, then
all are sent; one that does not verify keeps all from being tagged) is left to the
proofs, which cover `host`'s properties for any set of corpora. Three shards in
`stitch` give a run that stays open over a whole shard; the records of a device
are three, so that a middle one can join or part the others. Five ticks in
shards of two give a slice that begins inside a fault, one that ends in it, a
short last shard and a change with no later scrape. The deployments of `target`
include unreached endpoints in both layers, a service with two endpoints, an
external operation that nobody calls, a BFF endpoint that two scenarios
visit, and two calls that may be not critical, one whose callee tells on its
caller's time and one whose callee does not. Four operations are what the four rules of Meek need. The diamond of
`request` has an endpoint with two possible callers of the same service, callers
that end with their callees, and equal stamps; its own times, pause and thresholds
are such that every bound of a property is met (a retry that ends two milliseconds
after its caller, siblings that overlap, slow read as ok and ok as slow, a skewed
line exactly at the tolerance); `journey` has two sessions that
visit the same endpoint at different steps from scenarios with different masks.
Each property is violated when one definition of the model is changed as a bug
would (`mutants` in `PROJECT.json`).

Deadlock is checked in the runs of `GenerateCorpus`, where a command may always
start, and of `Score`, where another prediction may. The others stop when
records, jobs, corpora or faults are used up, or when an instance, a request or
a shard is done.

### Fairness

`RunEnds` assumes `WF_vars(Command)`: a process that can take a step takes one;
starts, crashes, dead workers and raised errors are no part of it.
`EventuallyComplete` adds `SF_vars(FullResume)`, an assumption about the
operator: somebody who can start a full resumed run over and over does. Faults
are bounded, which stands for "faults stop".

### What the violated runs show

- `host_resume`: `upload` refuses every path that exists on the host, so an upload
  that died after its first commit cannot be resumed by the command that
  `publish.py` tells the operator to repeat.
- `derive_shared`: repeating a pipeline job with other inputs writes the source's
  records in place, and with them those of the complete derived corpus, which
  `derive.py` calls complete on its own.

### What is known not to hold

With other values of the constants the models show more; those that matter are
noted with the hazards in `PROJECT.json`.

- A resumed run over markers of other inputs mixes versions, and so does a
  resumed derivation over a changed source.
- Neither `generate`, started over after its configuration changed, nor `derive`,
  repeated after its source did, removes what the new inputs have no file for: view
  partitions, per-regime graphs, shards. `build_manifest` lists them, and the corpus
  verifies with them. `StartedOverIsFresh` and `DerivedOnceIsFresh` say what does hold.
- A crash while a finished shard is written over leaves a temporary file that
  `--resume` keeps and `build_manifest` lists; `docs/primer.md` calls a resumed
  corpus byte-identical to a fresh one.
- `--replace` with a kept stage leaves a corpus that was never sent; a stage that
  outlived its upload sends its corpora with the next one; a partial upload is
  tagged beside the verified corpora; two fetches of one corpus share a scratch
  directory.
- The twin's log misses a change of the intensity at a shard's first tick
  (`latents.py` compares it within the shard), which is where the shipped
  configurations change it.
- The published prior gives every call with probability one, while the request
  target has no edge for a call that is not critical where its caller is never
  slow: `RequestTargetIsPrior` says which calls it has.
- Requests of one BFF endpoint at one step take the mask of the first session's
  scenario (`engine.py:399`), so a session may show outcomes that its own
  scenario's repertoire excludes.
- A caller's time includes callees that another caller invoked (`engine.py:387`),
  while `engine.py`'s opening text speaks of the callees the hop invoked. Intervals
  still nest as far as rounding lets them (`ChildInsideCaller`); they are longer than
  the call needed.
- A callee may end up to two milliseconds after its caller, and a time next to the
  threshold may be drawn slow and read ok or the other way round: starts are
  truncated, durations rounded and times written as text, each apart. `RUN.md` and
  `views.py` speak of such rounding steps.
- Ids of requests coincide from 17 steps or 16 client retries on; `config.py`
  bounds neither.
- Without slow in the repertoire, a time over the threshold is still read as slow
  by `outcome_of`; with a narrower repertoire the target also keeps sources that
  the alphabet lacks, and is not perfect against itself.
- A masked class becomes ok in `engine.py:425`, while `mechanism.py:335` spreads
  its probability over the classes that are left.
- An external operation may be called by nobody: only services' endpoints are
  attached, while `docs/primer.md` speaks of every operation.

## 5. Theorems

Each is proved for every value of the constants that satisfies the module's
assumptions; these say what `config.py`, `topology.py` or the constants file
guarantee (a shard is a multiple of the scrape period, the gap is at least the id
bucket, callees come after their callers) and that model values differ. A theorem
that needs more names it as a hypothesis, and the text below says what the
hypothesis is and what happens without it.

**GenerateCorpus_proofs.** `TypeCorrect`. `MarkedShardsAreWhole`: a worker renames
files in order and writes the marker last, but the invariant also needs that no
two workers have the same shard and that a worker's progress is on disk
(`WorkInv`). `VerifiedWhenOk`: nothing changes between the listing and the end of
the command (`ListedInv`). `CompleteNeverEarly`: a shard of the window is
finished, queued, failed or being written (`WindowInv`), and finished shards stay
finished. `ResumedRunsKeepShards`: a resumed run never holds a finished shard
(`UnmarkedInv`). `MarkersAreHonest` and `ShardsAreAtomic` (every step is a step of
`AtomicStore` or a stutter) assume that no run starts over (`~StartOver`): with it
they do not hold. `StartedOverRunsAreFresh`: a run that starts over has written each
shard of its window again when it leaves the pool, and no temporary file outlives
it there (`RenewInv`); it is closed only if the markers are as many as the window has
shards, so that a shard left by a longer window keeps it partial (`CountInv`); and
the pieces of an artefact are rewritten in order, none is skipped (`AuxInv`).
Nothing is assumed about what the versions share but the fixed names; pieces and
partitions that the running version lacks are left as they are, and the theorem
does not speak of them.

**SequenceStitcher_proofs.** `ShardingTheorem`: after each shard, what is open and
closed of a group is what the records read so far give. It rests on `SplitRuns`
(closing the runs that no later record can join, then adding the rest, gives the
runs of all) and on the bound of the stamps of later shards. `LoopTheorem`: the
code's loop cuts a group where the definition does. By induction over the set of
records: without its latest record a group's runs are those it had, and the latest
either begins a run (`SilenceBeginsRun`) or belongs to the last one
(`NextJoinsRun`). `IdsTheorem`, `RecentTheorem`, `StitcherTypeCorrect`.

**DatasetHost_proofs.** `HostTypeCorrect`. `TaggedCorporaVerify`, when the host
shows hashes and releases run alone: the branch is still what was verified when
the tag is made. `FetchedCorporaAreWhole` and `CompleteCorporaStay`, for one
fetcher: between verification and move the scratch directory is untouched.
`OkUploadsAreServed`: an uploader stages and sends only what it owns, what it
remembers to have sent is on the host (`Known`), and a corpus of which the host had
nothing is sent whole (`UnderWay`, `Served`: together `ServeInv`). It covers the
recovery the refusal prescribes, `--replace` over what an earlier upload left in part,
from a stage that remembers nothing of what is replaced (`ReplaceAfresh`: another
machine, as in RUN.md, or another `--stage-dir`); section 4 says what a stage that does
remember makes of it. Each corpus is uploaded from one place (`OneUploaderEach`).

**DeriveCorpus_proofs.** `DeriveTypeCorrect`, `ChannelMarkersAreHonest`,
`SourceIsKept`, `OnlySharedFilesCanChange`, `DerivationsAreFresh`, from one
invariant, `DeriveInv`: which parts are written at each step, which files are
links and what they hold. Versions have any files (`Has`, `Shards`), so
`DerivationsAreFresh` speaks of the files the loaded version has and of those its
source has, and leaves open what else is there. `ResumedDerivationsArePure` closes
it with `OneJobInv`: as long as one job has run, no complete source is generated
over, so whatever is in the derived corpus, whichever derivation put it there, the
complete source has, or its version, which is also the one loaded (`LoadsNow`).

**LatentChannel_proofs.** `ChannelTypeCorrect`. `SlicesOfOneRun`: the chain at the
next tick of any slice is that of the long run before it, which holds because
checkpoints are (`ChainInv`), because the phases find a checkpoint at each shard's
start (`SavedInv`), and because a fault that a slice does not meet forces nothing
there (`ActiveIsEnough`). It is what `generate.py` claims of a shard run again with
a larger allowance. `LoggedChangesAreTrue`: the log and the waiting shard meet
where the shard begins, with the levels before it (`LogInv`, `ChangesMeet`).
`TwinReplaysTruth`: the entries of each shard written so far are the changes of the
long run within it, the first tick read against nominal (`TwinInv`), and replaying
those gives the level at each tick (`ReplayIsTrue`). `VisibleChangesAreSampled`:
before a shard waits, everything logged is sampled or unresolved as the long run
has it, and the waiting shard's changes find their scrape in it or at the next
one's first (`ScrapeInv`, `ShownIsSampled`).

**Targets_proofs** has first the theorems of `CallGraph`, stated for the deployments
that `GraphSpec` builds, and those of the targets. Of a deployment, from one
invariant, `GraphInv`: `GraphTypeCorrect`. `GraphCallsGoDeeper`: candidates and
callers of orphans are on the right side, and depths never change once services are
placed; so a request is a tree. `EveryOpReached`: `reachable` is what the calls reach
from the BFF, because an orphan is only attached to a reached caller
(`ReachInvStep`), and the scenarios visit every BFF endpoint, because each draws
first from those left (`DrawCovers`); reaching from all BFF endpoints is then
reaching from the visited ones. `BestShips`: the best step's measurement is that of
its vector, which `Ship` sets again. `TargetKeepsGraph` carries all this over to
the deployments whose targets are projected. Of the targets, from `TargetInv`
(`GraphInv`, the order of each journey's endpoints, and what each stage has
computed): what a source reaches is the least set closed under the passable
children, so that a set shown to be closed bounds it (`SpreadWithin`).
`RequestTargetReversesCalls` bounds it by what lies above the source in the call
graph, and finds, for what a caller can show and feels, an attempt that shows it
(`ShownHasAttempt`) and a request that holds both (`CallSharesRequest`);
`JourneysHaveNoCycle` by the rank of a step along the journey, client and BFF
interleaved; `GroupsSameAtBothGrains` by showing each grain's set closed for the
other. `TargetScoresPerfectly` says that every edge of a target is among the pairs
that are scored; it assumes `NothingMasked`, for with a narrower repertoire it does
not hold (section 4).

The second half of **Targets_proofs** is about `Cpdag` and `Score`.
`RulesFindShared` says of every finite acyclic graph that Meek's rules find the edges
all equivalent graphs share. *Sound* (`ForcedIsShared`): if every directed edge so far
is shared and a rule forces `x -> y`, an equivalent graph with `y -> x` would have a
v-structure the graph lacks or a cycle of two or three edges. *Complete*: the loop
comes to rest within as many turns as there are edges (`RunSettles`), and then an edge
into one node of an undirected pair goes on to the other (`ForcedCarries`,
`RunCarries`). The undirected pairs have an order in which the earlier neighbours of
each node are neighbours of one another, read off the graph itself, and such an order
can begin with any clique (`PerfectFromAnywhere`, by induction over sets of nodes).
Beginning with `a, b` or with `b, a` gives two equivalent graphs that disagree on the
pair (`EitherDirection`), so no edge that is left undirected is shared.
`ScoreIsOfTheTruth` is the invariant of the scorer, `ScoreInv`: what is cached of a
floor is the truth at that floor, and the last result was computed from it.
`CompelledEdgesAreShared` is then `RulesFindShared` at each acyclic floor.
`SparseScoresAreDense`: pairs without a score are one block of ties at zero, so that
the rank of an explicit pair is shifted by the whole block or not at all and all
others have the same rank (`RanksAgree`); a place is counted within the explicit pairs
and the block apart (`PlacesAgree`); and a pair in neither skeleton has the same state
in truth and prediction (`DistanceAgrees`). `SelfScoresArePerfect`: the positives
are the pairs with a positive score, so each has all others below it
(`PositivesOnTop`), and their ranks among themselves add up to what ranks without ties
would (`TermsTotal`, by induction over their set). Its premise `InAlphabet` is
that the alphabet has the target's tokens; `TargetScoresPerfectly` says when.

**Request_proofs.** `RequestTypeCorrect`. `OutcomesAreRecovered`: when slow is in
the repertoire, status and time of a line give the outcome drawn, because an
attempt's outcome is that of some class and its total (`Shown`) and a line shows
that total to within half a millisecond above and one and a half below
(`ShownTime`); only ok and slow can be told wrongly, and only so near the
threshold. `CalleesLieWithin`: `TimesInv` says of each stage what it has fixed so far
(callers, settled attempts, durations as sums over the calls, starts, stamps), calls
made one after another end before the sum of their durations does (`CalleeWithin`,
`CalleesApart`, in ticks), and truncating and rounding keep that up to two
milliseconds (`WithinRounded`, `ApartRounded`). A callee that starts in the same
millisecond as its caller does not end after it, because rounding keeps the order of
durations: hence two milliseconds in all, not three, for start and end together.
`TrueCallersAreFound` assumes `ClocksAgree`, that two clocks differ by at most the
tolerance less these two; the code's skews are normal draws and its tolerance of
60 ms is about three standard deviations, so that a rare line of a real corpus is
outside of it. `RowsAreCausal` assumes a tolerance of two or more and
`ServicesLayered`: there is a depth of services that calls increase. `topology.py`
puts all endpoints of a service at one depth and lets calls go deeper; ties of
stamps are then broken as the rows need it.

**Journey_proofs.** `JourneyInv` says of a shard in the middle of a step which rows
each session has: up to which step and attempt (`FrontierInv`), in which order and
at which times (`OrderInv`), and which sessions go on (`ActiveInv`).
`SessionsAdvanceInOrder` follows. For the correlator, `CorrelatorInv` says what each
of its stages has computed; the argument is that every key a record shows, and every
key that reaches it through a request it was seen beside, belongs to its own session
(`Belongs`). `RecordsAreAttributedTruthfully` and
`ClientRecordsLinkTheirRequests` assume `FewAttempts`, at most 16 steps and 15
retries: beyond it ids coincide (section 4). `RequestsStayTogether` needs none.

The provers cannot use the library's induction theorems, which take an operator.
Where a proof needs induction (over the endpoints of a request, the rounds in
which a source's effect spreads, the records of a group) it uses forms of its own,
over the set of numbers or subsets for which the claim holds, which rest on the
least element of a set of naturals (`LeastNatural`, `InductionOnNat`,
`SubsetInduction`); that a recursive function satisfies its equation is proved the
same way (`RecursionExists`).

Every invariant and action property that a run checks is stated by a theorem, some
under the hypotheses named above. Only model-checked are the liveness properties
`RunEnds` and `EventuallyComplete`, which are out of the prover's reach.

## 6. Not modelled

Floating-point numbers: conditional distributions and exact marginals of
`mechanism.py`, how strong the effects of `projection.py` are, with the floor sweep
and the coarsening that depend on them, realism, estimates, latency knots. Random numbers and their
tables; names and their word list; the documents a configuration is validated as;
logging. Forced interventions (`check_mechanism.py`) and the oracle's tables.
Malformed lines, health checks and background records of `emit.py`, which no
actor owns; session rows, labels and the report of the correlator, which are
counting. The object store (`artifacts.py`) is two loops around an external
client.
