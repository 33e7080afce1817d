--------------------------- MODULE GenerateCorpus ---------------------------
(***************************************************************************)
(* `tracebench.generate` and `tracebench.shards` on one corpus directory:  *)
(* the shards written by a pool of workers to temporary names and renamed, *)
(* the done marker that publishes a shard, the artefacts written in place  *)
(* around them, the manifest and the COMPLETE marker, and everything that  *)
(* can stop a run half way (a crash of the command, the death of a worker, *)
(* a shard that raises), followed by any further run over what it left.    *)
(*                                                                         *)
(* The bytes of a file are the version of the inputs that wrote it, and    *)
(* versions need not write the same files: a window has its shards, the    *)
(* graphs a file for every regime, the views one for every part of a       *)
(* partition.  No command removes a file that its inputs do not have.  The *)
(* directory is named after the instance, the variant and the seed         *)
(* (corpus_dir_for), so runs with other inputs (an edited configuration,   *)
(* another tool version) reach the same directory.                         *)
(***************************************************************************)
EXTENDS Integers, FiniteSets

CONSTANTS
  Versions,     \* the inputs a run may be given under this directory's name
  NumShards,    \* [Versions -> number of shards the window is cut into]
  NumFiles,     \* files of one shard, named by their place in the write order
  NumPieces,    \* the artefacts outside the shards are written in pieces
  Pieces,       \* Pieces[v][a]: the pieces of artefact a that version v has
  Workers,      \* processes of the pool
  OverCap,      \* the versions whose size estimate exceeds the cap
  Commands,     \* the argument lists an operator may give
  StartOver,    \* whether a run without --resume may find finished shards
  MaxFaults,    \* bound: crashes, dead workers and raised errors, together
  Absent,       \* no such file
  Torn,         \* a file opened for writing in place and not yet filled
  Other         \* views computed from anything but one version's full corpus

Bounds(v) == 0 .. (NumShards[v] - 1)
Shards    == UNION {Bounds(v) : v \in Versions}
Files     == 1 .. NumFiles
Done      == NumFiles + 1            \* the marker is the last file of a shard
Parts     == 1 .. Done
Aux       == {"instantiation", "graphs", "labels", "views"}
AllPieces == 1 .. NumPieces
Fixed     == NumPieces               \* the files whose names every version shares
NoShard   == -1                      \* an idle worker's job
NoStop    == -1                      \* no --stop-after-shard

Runs == [cmd : {"generate", "correlate"}, ver : Versions, resume : BOOLEAN,
         stop : Shards \cup {NoStop}, parallel : BOOLEAN, correlate : BOOLEAN,
         override : BOOLEAN]

ASSUME ShardsAssumption ==
  /\ NumShards \in [Versions -> Nat \ {0}]
  /\ NumFiles \in Nat \ {0}
  /\ NumPieces \in Nat \ {0}
  /\ Pieces \in [Versions -> [Aux -> SUBSET AllPieces]]
  /\ \A v \in Versions, a \in Aux : Fixed \in Pieces[v][a]
  /\ StartOver \in BOOLEAN
  /\ MaxFaults \in Nat
  /\ OverCap \subseteq Versions
  /\ Commands \subseteq Runs
ASSUME MarkAssumption ==
  /\ Absent \notin Versions /\ Torn \notin Versions /\ Other \notin Versions
  /\ Absent # Torn /\ Absent # Other /\ Torn # Other
  /\ Absent \notin [Files -> Versions \cup {Absent}]

VARIABLES
  files,      \* files[s][f]: the version whose bytes file f of shard s holds
  temps,      \* the <<shard, part>> whose ".tmp" name exists
  markers,    \* markers[s]: the hashes in shard s's done marker, or Absent
  aux,        \* aux[a][p]: the version in piece p of an artefact outside the shards
  manifest,   \* Absent, Torn or the listing it holds
  complete,   \* whether COMPLETE exists
  pc,         \* the running command's next step, "idle" when none runs
  midway,     \* the file pc is about to write has been truncated
  piece,      \* the last piece of pc's artefact that was begun
  run,        \* the arguments of the running, or last, command
  queue,      \* shards submitted and not yet taken by a worker
  job,        \* job[w]: the shard worker w is writing, or NoShard
  part,       \* part[w]: the part of it being written
  opened,     \* opened[w]: that part's temporary file is open
  failed,     \* shards whose job raised in this run
  outcome,    \* how the last command ended
  faults      \* how many faults have happened

disk == <<files, temps, markers, aux, manifest, complete>>
pool == <<queue, job, part, opened, failed>>
vars == <<disk, pc, midway, piece, run, pool, outcome, faults>>

(***************************************************************************)
(* What is on disk.                                                        *)
(***************************************************************************)
Completed == {s \in Shards : markers[s] # Absent}

\* What build_manifest lists: every file under the corpus but the manifest,
\* COMPLETE and run/, stray temporary files included.
Listing == [files |-> files, temps |-> temps, markers |-> markers, aux |-> aux]

Hashes == [Files -> Versions \cup {Absent}]
Listings == [files   : [Shards -> Hashes],
             temps   : SUBSET (Shards \X Parts),
             markers : [Shards -> Hashes \cup {Absent}],
             aux     : [Aux -> [AllPieces -> Versions \cup {Absent, Torn, Other}]]]

Pcs == {"idle", "instantiation", "estimate", "graphs", "plan", "shards", "draining",
        "labels", "views", "manifest", "COMPLETE"}
Outcomes == {"none", "running", "ok", "partial", "refused", "failed", "crashed"}

TypeOK ==
  /\ files \in [Shards -> Hashes]
  /\ temps \subseteq Shards \X Parts
  /\ markers \in [Shards -> Hashes \cup {Absent}]
  /\ aux \in [Aux -> [AllPieces -> Versions \cup {Absent, Torn, Other}]]
  /\ manifest \in Listings \cup {Absent, Torn}
  /\ complete \in BOOLEAN
  /\ pc \in Pcs
  /\ midway \in BOOLEAN
  /\ piece \in 0 .. NumPieces
  /\ run \in Runs
  /\ queue \subseteq Shards
  /\ job \in [Workers -> Shards \cup {NoShard}]
  /\ part \in [Workers -> Parts]
  /\ opened \in [Workers -> BOOLEAN]
  /\ failed \subseteq Shards
  /\ outcome \in Outcomes
  /\ faults \in 0 .. MaxFaults

Init ==
  /\ files = [s \in Shards |-> [f \in Files |-> Absent]]
  /\ temps = {}
  /\ markers = [s \in Shards |-> Absent]
  /\ aux = [a \in Aux |-> [p \in AllPieces |-> Absent]]
  /\ manifest = Absent
  /\ complete = FALSE
  /\ pc = "idle"
  /\ midway = FALSE
  /\ piece = 0
  /\ run \in Commands
  /\ queue = {}
  /\ job = [w \in Workers |-> NoShard]
  /\ part = [w \in Workers |-> 1]
  /\ opened = [w \in Workers |-> FALSE]
  /\ failed = {}
  /\ outcome = "none"
  /\ faults = 0

(***************************************************************************)
(* The commands an operator starts.                                        *)
(***************************************************************************)
Start(r, first) ==
  /\ pc = "idle"
  /\ run' = r
  /\ pc' = first
  /\ outcome' = "running"
  /\ UNCHANGED <<disk, midway, piece, pool, faults>>

\* `python -m tracebench.generate`; no argument is compared with what an
\* earlier run left in the directory.
StartGenerate(r) ==
  /\ r.cmd = "generate"
  /\ r.resume \/ StartOver \/ Completed = {}
  /\ Start(r, "instantiation")

\* `python -m tracebench.correlate` reads the configuration, the alphabet, the
\* faults if they are there, and the shards that have a marker, whether or not the
\* corpus is complete.
StartCorrelate(r) ==
  /\ r.cmd = "correlate"
  /\ aux["instantiation"][Fixed] = r.ver
  /\ aux["graphs"][Fixed] \in Versions
  /\ aux["labels"][Fixed] # Torn
  /\ Start(r, "views")

(***************************************************************************)
(* The artefacts written in place: write_json truncates, then fills; so do *)
(* the parts of a view.  The pieces the version has are written one after  *)
(* another; others stay as an earlier run left them.                       *)
(***************************************************************************)
Rest(a) == {p \in Pieces[run.ver][a] : p > piece}

Truncate(a) ==
  /\ pc = a
  /\ ~midway
  /\ midway' = TRUE
  /\ \E p \in Rest(a) : /\ \A q \in Rest(a) : p <= q
                        /\ piece' = p
                        /\ aux' = [aux EXCEPT ![a][p] = Torn]
  /\ UNCHANGED <<files, temps, markers, manifest, complete, pc, run, pool,
                 outcome, faults>>

Fill(a, content, next) ==
  /\ pc = a
  /\ midway
  /\ midway' = FALSE
  /\ aux' = [aux EXCEPT ![a][piece] = content]
  /\ \/ Rest(a) # {} /\ UNCHANGED <<pc, piece, outcome>>
     \/ /\ Rest(a) = {} /\ pc' = next /\ piece' = 0
        /\ outcome' = IF next = "idle" THEN "partial" ELSE outcome
  /\ UNCHANGED <<files, temps, markers, manifest, complete, run, pool, faults>>

WriteInstantiation == Fill("instantiation", run.ver, "estimate")

\* The cap is checked after the instantiation record has been rewritten.
Refused == run.ver \in OverCap /\ ~run.override

Estimate ==
  /\ pc = "estimate"
  /\ pc' = IF Refused THEN "idle" ELSE "graphs"
  /\ outcome' = IF Refused THEN "refused" ELSE outcome
  /\ UNCHANGED <<disk, midway, piece, run, pool, faults>>

WriteGraphs == Fill("graphs", run.ver, "plan")

\* Mutant: complete as soon as there is something to read.
AllShardsDone_AnyShard == Completed # {}

\* The corpus is complete when the markers are as many as the shards.
AllShardsDone == run.stop = NoStop /\ Cardinality(Completed) = NumShards[run.ver]

WriteLabels ==
  Fill("labels", run.ver,
       IF ~AllShardsDone THEN "idle" ELSE IF run.correlate THEN "views" ELSE "manifest")

\* The correlator reads the shards that have a marker, and of the artefacts the
\* files with fixed names: configuration, alphabet, thresholds, faults.
Views == IF /\ Completed = Bounds(run.ver)
            /\ \A s \in Completed : files[s] = [f \in Files |-> run.ver]
            /\ \A a \in Aux \ {"views"} : aux[a][Fixed] = run.ver
         THEN run.ver ELSE Other

WriteViews == Fill("views", Views, "manifest")

(***************************************************************************)
(* The shards.                                                             *)
(***************************************************************************)
\* Mutants: one shard too many; a run that always resumes; --resume that skips a
\* shard which has any file.
Todo_OneMore == {s \in 0 .. NumShards[run.ver] : /\ run.resume => s \notin Completed
                                                 /\ run.stop # NoStop => s <= run.stop}
Todo_AlwaysResume == {s \in Bounds(run.ver) : /\ s \notin Completed
                                              /\ run.stop # NoStop => s <= run.stop}
Todo_SkipTouched == {s \in Bounds(run.ver) :
                       /\ run.resume => \A f \in Files : files[s][f] = Absent
                       /\ run.stop # NoStop => s <= run.stop}

\* The shards a run writes: with --resume, those without a marker.
Todo == {s \in Bounds(run.ver) : /\ run.resume => s \notin Completed
                                 /\ run.stop # NoStop => s <= run.stop}

\* A pool is used for more than one worker and more than one shard.
Plan ==
  /\ pc = "plan"
  /\ queue' = Todo
  /\ run' = [run EXCEPT !.parallel = @ /\ Cardinality(Todo) > 1]
  /\ pc' = "shards"
  /\ UNCHANGED <<disk, midway, piece, job, part, opened, failed, outcome, faults>>

Busy == {w \in Workers : job[w] # NoShard}

\* A worker takes the next shard in order; without a pool the command itself
\* works on one shard at a time and stops at the first error.
Take(w) ==
  /\ pc \in {"shards", "draining"}
  /\ job[w] = NoShard
  /\ ~run.parallel => Busy = {} /\ failed = {}
  /\ \E s \in queue :
       /\ \A t \in queue : s <= t
       /\ job' = [job EXCEPT ![w] = s]
       /\ queue' = queue \ {s}
  /\ UNCHANGED <<disk, pc, midway, piece, run, part, opened, failed, outcome, faults>>

OpenTemp(w) ==
  /\ job[w] # NoShard
  /\ ~opened[w]
  /\ opened' = [opened EXCEPT ![w] = TRUE]
  /\ temps' = temps \cup {<<job[w], part[w]>>}
  /\ UNCHANGED <<files, markers, aux, manifest, complete, pc, midway, piece, run,
                 queue, job, part, failed, outcome, faults>>

\* os.replace: the temporary name becomes the file's.
Replace(w) ==
  /\ job[w] # NoShard
  /\ opened[w]
  /\ part[w] \in Files
  /\ files' = [files EXCEPT ![job[w]][part[w]] = run.ver]
  /\ temps' = temps \ {<<job[w], part[w]>>}
  /\ part' = [part EXCEPT ![w] = @ + 1]
  /\ opened' = [opened EXCEPT ![w] = FALSE]
  /\ UNCHANGED <<markers, aux, manifest, complete, pc, midway, piece, run, queue, job,
                 failed, outcome, faults>>

\* The worker is ready for another shard.
Release(w) ==
  /\ job' = [job EXCEPT ![w] = NoShard]
  /\ part' = [part EXCEPT ![w] = 1]
  /\ opened' = [opened EXCEPT ![w] = FALSE]

\* Mutant: the marker need not wait for the files.
Publish_Early(w) ==
  /\ job[w] # NoShard
  /\ opened[w]
  /\ markers' = [markers EXCEPT ![job[w]] = files[job[w]]]
  /\ temps' = temps \ {<<job[w], Done>>}
  /\ Release(w)
  /\ UNCHANGED <<files, aux, manifest, complete, pc, midway, piece, run, queue, failed,
                 outcome, faults>>

\* The marker holds the hashes of the files as they are, and is renamed last.
Publish(w) ==
  /\ job[w] # NoShard
  /\ opened[w]
  /\ part[w] = Done
  /\ markers' = [markers EXCEPT ![job[w]] = files[job[w]]]
  /\ temps' = temps \ {<<job[w], Done>>}
  /\ Release(w)
  /\ UNCHANGED <<files, aux, manifest, complete, pc, midway, piece, run, queue, failed,
                 outcome, faults>>

\* The shard's job raises (a journey that outran its slice, a full disk); its
\* temporary file stays.
Raise(w) ==
  /\ job[w] # NoShard
  /\ faults < MaxFaults
  /\ faults' = faults + 1
  /\ failed' = failed \cup {job[w]}
  /\ Release(w)
  /\ UNCHANGED <<disk, pc, midway, piece, run, queue, outcome>>

\* Mutant: an error leaves the pending shards queued, with no one to take them.
Cancel_Keep ==
  /\ pc = "shards"
  /\ \E s \in failed : \A t \in queue \cup {job[w] : w \in Busy} : s < t
  /\ pc' = "draining"
  /\ UNCHANGED <<disk, midway, piece, run, queue, job, part, opened, failed, outcome, faults>>

\* pool.map yields results in order, so an error is seen once every earlier
\* shard has finished.  Pending jobs are cancelled, but for those already
\* handed to the pool; leaving the `with` block waits for what still runs.
Cancel ==
  /\ pc = "shards"
  /\ \E s \in failed : \A t \in queue \cup {job[w] : w \in Busy} : s < t
  /\ \E kept \in SUBSET queue :
       /\ \A s \in kept, t \in queue \ kept : s < t
       /\ ~run.parallel => kept = {}
       /\ queue' = kept
  /\ pc' = "draining"
  /\ UNCHANGED <<disk, midway, piece, run, job, part, opened, failed, outcome, faults>>

Failed ==
  /\ pc = "draining"
  /\ queue = {} /\ Busy = {}
  /\ pc' = "idle"
  /\ outcome' = "failed"
  /\ failed' = {}
  /\ UNCHANGED <<disk, midway, piece, run, queue, job, part, opened, faults>>

ShardsDone ==
  /\ pc = "shards"
  /\ queue = {} /\ Busy = {} /\ failed = {}
  /\ pc' = "labels"
  /\ UNCHANGED <<disk, midway, piece, run, pool, outcome, faults>>

(***************************************************************************)
(* finalize_corpus: the manifest in place, then COMPLETE.                  *)
(***************************************************************************)
TruncateManifest ==
  /\ pc = "manifest"
  /\ ~midway
  /\ midway' = TRUE
  /\ manifest' = Torn
  /\ UNCHANGED <<files, temps, markers, aux, complete, pc, piece, run, pool, outcome,
                 faults>>

\* Mutant: temporary files are left out of the listing.
WriteManifest_NoTemps ==
  /\ pc = "manifest"
  /\ midway
  /\ midway' = FALSE
  /\ manifest' = [Listing EXCEPT !.temps = {}]
  /\ IF run.cmd = "generate"
     THEN pc' = "COMPLETE" /\ UNCHANGED outcome
     ELSE pc' = "idle" /\ outcome' = "ok"
  /\ UNCHANGED <<files, temps, markers, aux, complete, piece, run, pool, faults>>

WriteManifest ==
  /\ pc = "manifest"
  /\ midway
  /\ midway' = FALSE
  /\ manifest' = Listing
  /\ IF run.cmd = "generate"
     THEN pc' = "COMPLETE" /\ UNCHANGED outcome
     ELSE pc' = "idle" /\ outcome' = "ok"
  /\ UNCHANGED <<files, temps, markers, aux, complete, piece, run, pool, faults>>

WriteComplete ==
  /\ pc = "COMPLETE"
  /\ complete' = TRUE
  /\ pc' = "idle"
  /\ outcome' = "ok"
  /\ UNCHANGED <<files, temps, markers, aux, manifest, midway, piece, run, pool, faults>>

(***************************************************************************)
(* What stops a run.                                                       *)
(***************************************************************************)
Stopped(how) ==
  /\ pc' = "idle"
  /\ midway' = FALSE
  /\ piece' = 0
  /\ queue' = {}
  /\ job' = [w \in Workers |-> NoShard]
  /\ outcome' = how
  /\ faults < MaxFaults
  /\ faults' = faults + 1
  /\ part' = [w \in Workers |-> 1]
  /\ opened' = [w \in Workers |-> FALSE]
  /\ failed' = {}
  /\ UNCHANGED <<disk, run>>

\* The command and its workers are killed.
Crash == pc # "idle" /\ Stopped("crashed")

\* BrokenProcessPool: one dead worker ends the others and the run.
WorkerDies == pc \in {"shards", "draining"} /\ run.parallel /\ Stopped("failed")

Writing(w) == Take(w) \/ OpenTemp(w) \/ Replace(w) \/ Publish(w)

Command ==
  \/ \E a \in Aux : Truncate(a)
  \/ WriteInstantiation \/ Estimate \/ WriteGraphs \/ Plan
  \/ \E w \in Workers : Writing(w)
  \/ Cancel \/ Failed \/ ShardsDone
  \/ WriteLabels \/ WriteViews
  \/ TruncateManifest \/ WriteManifest \/ WriteComplete

Next ==
  \/ \E r \in Commands : StartGenerate(r) \/ StartCorrelate(r)
  \/ Command
  \/ \E w \in Workers : Raise(w)
  \/ Crash \/ WorkerDies

Spec == Init /\ [][Next]_vars
(***************************************************************************)
(* The properties.                                                         *)
(***************************************************************************)
Pure(v) == [f \in Files |-> v]
Present(s) == \A f \in Files : files[s][f] # Absent

\* A shard with a marker has every one of its files, whatever crashed,
\* raised, was resumed or was started over.
MarkedIsWhole == \A s \in Completed : Present(s)

\* As long as no run starts over, a marker's hashes are those of the files
\* beside it and all of them come from one version of the inputs, however
\* many versions and interrupted runs the directory has seen: "a shard is
\* either complete or absent" (shards.py).
MarkerHonest ==
  \A s \in Completed : files[s] = markers[s] /\ \E v \in Versions : files[s] = Pure(v)

\* A command that ended well leaves a corpus its manifest describes: no file
\* is missing, changed or unlisted (verify_manifest), whatever was there.
OkMeansVerified == outcome = "ok" => manifest = Listing

\* COMPLETE is never there with a shard of the window unfinished.
CompleteMeansAllShards ==
  complete => \E v \in Versions : Bounds(v) \subseteq Completed

\* A generate run that started over, correlated and ended well has every file that
\* its inputs have, whole, made by them alone, with no temporary file beside a shard of
\* its window and no finished shard beyond it, whatever crashed, failed, stopped or
\* was given other inputs before.  Pieces of other versions may be left and listed.
StartedOverIsFresh ==
  outcome = "ok" /\ run.cmd = "generate" /\ ~run.resume /\ run.correlate =>
    /\ Completed = Bounds(run.ver)
    /\ \A s \in Completed : /\ files[s] = Pure(run.ver) /\ markers[s] = Pure(run.ver)
                           /\ \A p \in Parts : <<s, p>> \notin temps
    /\ \A a \in Aux : \A p \in Pieces[run.ver][a] : aux[a][p] = run.ver

\* A resumed run never touches a shard that had its marker: neither its files,
\* nor the marker, nor a temporary name beside them.
ResumeKeepsShards ==
  [][run.resume /\ pc # "idle" =>
       \A s \in Completed : /\ files'[s] = files[s] /\ markers'[s] = markers[s]
                            /\ \A p \in Parts : <<s, p>> \in temps' <=> <<s, p>> \in temps]_vars

\* Every command ends: no error, dead worker or empty queue leaves it waiting.
Fairness == WF_vars(Command)
FairSpec == Spec /\ Fairness
RunEnds == pc # "idle" ~> pc = "idle"

\* An operator who keeps resuming gets a complete corpus in the end.
FullResume ==
  \E r \in Commands : /\ r.resume /\ r.stop = NoStop
                      /\ r.ver \notin OverCap
                      /\ StartGenerate(r)
OperatorSpec == FairSpec /\ SF_vars(FullResume)
EventuallyComplete == <>complete
\* The shards readers see, through the markers.
Visible == [s \in Shards |-> IF markers[s] = Absent THEN Absent ELSE files[s]]

\* As long as no run starts over, readers of the shards never see anything but
\* what AtomicStore allows: shards that appear whole and then stay.
Promise == INSTANCE AtomicStore WITH
             Wholes  <- {Pure(v) : v \in Versions},
             Windows <- {Bounds(v) : v \in Versions},
             shelf   <- Visible,
             sealed  <- complete
AtomicShards == Promise!Spec
=============================================================================
