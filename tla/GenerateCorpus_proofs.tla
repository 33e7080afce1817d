----------------------- MODULE GenerateCorpus_proofs -----------------------
(***************************************************************************)
(* Theorems about GenerateCorpus, for every set of versions, shards, files *)
(* and workers and any number of faults.                                   *)
(***************************************************************************)
EXTENDS GenerateCorpus, FiniteSetTheorems, TLAPS

(***************************************************************************)
(* Facts about the constants.                                              *)
(***************************************************************************)
LEMMA BoundsInShards == \A v \in Versions : Bounds(v) \subseteq Shards
BY DEF Shards

LEMMA ShardsAreNumbers == Shards \subseteq Nat /\ NoShard \notin Shards
<1>1. \A v \in Versions : Bounds(v) \subseteq Nat
  BY ShardsAssumption DEF Bounds
<1>2. Shards \subseteq Nat
  BY <1>1 DEF Shards
<1> QED
  BY <1>2 DEF NoShard

LEMMA PartsAreNumbers ==
  /\ Done \in Nat /\ Files \subseteq Nat /\ Files \subseteq Parts
  /\ 1 \in Parts /\ Done \in Parts /\ Done \notin Files
  /\ \A p \in Parts : p # Done => p \in Files
  /\ \A p \in Files : p + 1 \in Parts
BY ShardsAssumption DEF Done, Files, Parts

LEMMA PiecesAreNumbers ==
  /\ NumPieces \in Nat /\ 0 \in 0 .. NumPieces /\ AllPieces \subseteq Nat /\ 0 \notin AllPieces
  /\ \A v \in Versions, a \in Aux :
       Pieces[v][a] \subseteq AllPieces /\ Fixed \in Pieces[v][a]
BY ShardsAssumption DEF AllPieces

LEMMA CommandsAreRuns == Commands \subseteq Runs
BY ShardsAssumption

(***************************************************************************)
(* Type correctness.                                                       *)
(***************************************************************************)
LEMMA TypeInit == Init => TypeOK
<1> SUFFICES ASSUME Init PROVE TypeOK
  OBVIOUS
<1> USE ShardsAssumption, PartsAreNumbers, CommandsAreRuns
<1>1. files \in [Shards -> Hashes]
  BY DEF Init, Hashes
<1>2. /\ temps \subseteq Shards \X Parts
      /\ markers \in [Shards -> Hashes \cup {Absent}]
      /\ aux \in [Aux -> [AllPieces -> Versions \cup {Absent, Torn, Other}]]
      /\ manifest \in Listings \cup {Absent, Torn}
  BY DEF Init
<1>3. /\ pc \in Pcs /\ outcome \in Outcomes /\ run \in Runs
      /\ complete \in BOOLEAN /\ midway \in BOOLEAN /\ piece \in 0 .. NumPieces
  BY PiecesAreNumbers DEF Init, Pcs, Outcomes
<1>4. /\ queue \subseteq Shards /\ failed \subseteq Shards
      /\ job \in [Workers -> Shards \cup {NoShard}]
      /\ part \in [Workers -> Parts]
      /\ opened \in [Workers -> BOOLEAN]
      /\ faults \in 0 .. MaxFaults
  BY DEF Init
<1> QED
  BY <1>1, <1>2, <1>3, <1>4 DEF TypeOK

LEMMA ListingType == TypeOK => Listing \in Listings
BY DEF TypeOK, Listing, Listings

\* Publish and Raise free a worker.
LEMMA ReleaseType ==
  ASSUME TypeOK, NEW w \in Workers, Release(w)
  PROVE  /\ job' \in [Workers -> Shards \cup {NoShard}]
         /\ part' \in [Workers -> Parts]
         /\ opened' \in [Workers -> BOOLEAN]
BY PartsAreNumbers DEF TypeOK, Release

LEMMA TypeNext == TypeOK /\ [Next]_vars => TypeOK'
<1> SUFFICES ASSUME TypeOK, [Next]_vars PROVE TypeOK'
  OBVIOUS
<1> USE ShardsAssumption, PartsAreNumbers
<1>1. ASSUME NEW r \in Commands, StartGenerate(r) PROVE TypeOK'
  BY <1>1, CommandsAreRuns DEF TypeOK, StartGenerate, Start, disk, pool, Pcs, Outcomes
<1>2. ASSUME NEW r \in Commands, StartCorrelate(r) PROVE TypeOK'
  BY <1>2, CommandsAreRuns DEF TypeOK, StartCorrelate, Start, disk, pool, Pcs, Outcomes
<1>v. run.ver \in Versions /\ Views \in Versions \cup {Other}
  BY DEF TypeOK, Runs, Views
<1>a. ASSUME NEW a \in Aux, NEW p, NEW content \in Versions \cup {Torn, Other}
      PROVE  [aux EXCEPT ![a][p] = content]
               \in [Aux -> [AllPieces -> Versions \cup {Absent, Torn, Other}]]
  <2>1. [aux[a] EXCEPT ![p] = content] \in [AllPieces -> Versions \cup {Absent, Torn, Other}]
    BY DEF TypeOK
  <2>2. [aux EXCEPT ![a][p] = content] = [aux EXCEPT ![a] = [aux[a] EXCEPT ![p] = content]]
    OBVIOUS
  <2> QED
    BY <2>1, <2>2 DEF TypeOK
<1>3. ASSUME NEW a \in Aux, Truncate(a) PROVE TypeOK'
  <2>1. PICK p \in Rest(a) : piece' = p /\ aux' = [aux EXCEPT ![a][p] = Torn]
    BY <1>3 DEF Truncate
  <2>2. p \in 0 .. NumPieces
    BY <1>v, <2>1, PiecesAreNumbers DEF Rest, AllPieces
  <2>3. aux' \in [Aux -> [AllPieces -> Versions \cup {Absent, Torn, Other}]]
    BY <1>a, <2>1
  <2> QED
    BY <1>3, <2>1, <2>2, <2>3 DEF TypeOK, Truncate, pool
<1>4. ASSUME NEW a \in Aux, NEW content \in Versions \cup {Other}, NEW next \in Pcs,
             Fill(a, content, next)
      PROVE  TypeOK'
  <2>1. aux' \in [Aux -> [AllPieces -> Versions \cup {Absent, Torn, Other}]]
    BY <1>4, <1>a DEF Fill
  <2>2. piece' \in 0 .. NumPieces /\ pc' \in Pcs /\ outcome' \in Outcomes
    BY <1>4, PiecesAreNumbers DEF TypeOK, Fill, Outcomes
  <2> QED
    BY <1>4, <2>1, <2>2 DEF TypeOK, Fill, pool
<1>5. CASE WriteInstantiation
  BY <1>4, <1>5, <1>v DEF WriteInstantiation, Aux, Pcs
<1>6. CASE Estimate
  BY <1>6 DEF TypeOK, Estimate, disk, pool, Pcs, Outcomes
<1>7. CASE WriteGraphs
  BY <1>4, <1>7, <1>v DEF WriteGraphs, Aux, Pcs
<1>8. CASE Plan
  <2>1. queue' \subseteq Shards
    BY <1>8, <1>v, BoundsInShards DEF Plan, Todo
  <2>2. run' \in Runs
    <3>1. run' = [run EXCEPT !.parallel = run.parallel /\ Cardinality(Todo) > 1]
      BY <1>8 DEF Plan
    <3>2. (run.parallel /\ Cardinality(Todo) > 1) \in BOOLEAN
      OBVIOUS
    <3> HIDE DEF Todo
    <3> QED
      BY <3>1, <3>2, Zenon DEF TypeOK, Runs
  <2> QED
    BY <1>8, <2>1, <2>2 DEF TypeOK, Plan, disk, Pcs
<1>9. ASSUME NEW w \in Workers, Take(w) PROVE TypeOK'
  <2>1. queue' \subseteq Shards /\ job' \in [Workers -> Shards \cup {NoShard}]
    BY <1>9 DEF TypeOK, Take
  <2> QED
    BY <1>9, <2>1 DEF TypeOK, Take, disk
<1>10. ASSUME NEW w \in Workers, OpenTemp(w) PROVE TypeOK'
  <2>1. temps' \subseteq Shards \X Parts /\ opened' \in [Workers -> BOOLEAN]
    BY <1>10 DEF TypeOK, OpenTemp
  <2> QED
    BY <1>10, <2>1 DEF TypeOK, OpenTemp
<1>11. ASSUME NEW w \in Workers, Replace(w) PROVE TypeOK'
  <2>1. job[w] \in Shards /\ part[w] \in Files
    BY <1>11 DEF TypeOK, Replace
  <2>2. files' \in [Shards -> Hashes]
    <3>1. files[job[w]] \in Hashes
      BY <2>1 DEF TypeOK
    <3>2. [files[job[w]] EXCEPT ![part[w]] = run.ver] \in Hashes
      BY <2>1, <3>1, <1>v DEF Hashes
    <3>3. files' = [files EXCEPT ![job[w]] = [files[job[w]] EXCEPT ![part[w]] = run.ver]]
      BY <1>11 DEF Replace
    <3> QED
      BY <3>2, <3>3 DEF TypeOK
  <2>3. part' \in [Workers -> Parts] /\ opened' \in [Workers -> BOOLEAN]
    BY <1>11, <2>1 DEF TypeOK, Replace
  <2>4. temps' \subseteq Shards \X Parts
    BY <1>11 DEF TypeOK, Replace
  <2> QED
    BY <1>11, <2>2, <2>3, <2>4 DEF TypeOK, Replace
<1>12. ASSUME NEW w \in Workers, Publish(w) PROVE TypeOK'
  <2>1. job[w] \in Shards
    BY <1>12 DEF TypeOK, Publish
  <2>2. markers' \in [Shards -> Hashes \cup {Absent}]
    BY <1>12, <2>1 DEF TypeOK, Publish
  <2>3. temps' \subseteq Shards \X Parts
    BY <1>12 DEF TypeOK, Publish
  <2>4. Release(w)
    BY <1>12 DEF Publish
  <2> QED
    BY <1>12, <2>2, <2>3, <2>4, ReleaseType DEF TypeOK, Publish
<1>13. ASSUME NEW w \in Workers, Raise(w) PROVE TypeOK'
  <2>1. job[w] \in Shards
    BY <1>13 DEF TypeOK, Raise
  <2>2. faults' \in 0 .. MaxFaults /\ failed' \subseteq Shards
    BY <1>13, <2>1 DEF TypeOK, Raise
  <2>3. Release(w)
    BY <1>13 DEF Raise
  <2> QED
    BY <1>13, <2>2, <2>3, ReleaseType DEF TypeOK, Raise, disk
<1>14. CASE Cancel
  BY <1>14 DEF TypeOK, Cancel, disk, Pcs
<1>15. CASE Failed
  BY <1>15 DEF TypeOK, Failed, disk, Pcs, Outcomes
<1>16. CASE ShardsDone
  BY <1>16 DEF TypeOK, ShardsDone, disk, pool, Pcs
<1>17. CASE WriteLabels
  BY <1>4, <1>17, <1>v DEF WriteLabels, Aux, Pcs
<1>18. CASE WriteViews
  BY <1>4, <1>18, <1>v DEF WriteViews, Aux, Pcs
<1>19. CASE TruncateManifest
  BY <1>19 DEF TypeOK, TruncateManifest, pool
<1>20. CASE WriteManifest
  BY <1>20, ListingType DEF TypeOK, WriteManifest, pool, Pcs, Outcomes
<1>21. CASE WriteComplete
  BY <1>21 DEF TypeOK, WriteComplete, pool, Pcs, Outcomes
<1>22. ASSUME NEW how \in Outcomes, Stopped(how) PROVE TypeOK'
  <2>1. /\ job' \in [Workers -> Shards \cup {NoShard}]
        /\ part' \in [Workers -> Parts]
        /\ opened' \in [Workers -> BOOLEAN]
    BY <1>22 DEF Stopped
  <2>2. faults' \in 0 .. MaxFaults
    BY <1>22 DEF TypeOK, Stopped
  <2> QED
    BY <1>22, <2>1, <2>2, PiecesAreNumbers DEF TypeOK, Stopped, disk, Pcs
<1>23. CASE Crash
  BY <1>22, <1>23 DEF Crash, Outcomes
<1>24. CASE WorkerDies
  BY <1>22, <1>24 DEF WorkerDies, Outcomes
<1>25. CASE UNCHANGED vars
  BY <1>25 DEF TypeOK, vars, disk, pool
<1> QED
  BY <1>1, <1>2, <1>3, <1>5, <1>6, <1>7, <1>8, <1>9, <1>10, <1>11, <1>12, <1>13, <1>14,
     <1>15, <1>16, <1>17, <1>18, <1>19, <1>20, <1>21, <1>23, <1>24, <1>25
  DEF Next, Command, Writing

\* Every variable keeps its type, whatever stops and restarts the command.
THEOREM TypeCorrect == Spec => []TypeOK
BY TypeInit, TypeNext, PTL DEF Spec

(***************************************************************************)
(* The pool: who works on what, and what is written of it.                 *)
(***************************************************************************)
Early == {"instantiation", "estimate", "graphs", "plan"}

IdlePool ==
  pc \notin {"shards", "draining"} =>
    queue = {} /\ failed = {} /\ \A w \in Workers : job[w] = NoShard

JobsApart ==
  /\ \A w \in Workers : job[w] # NoShard => job[w] \notin queue
  /\ \A w, u \in Workers : w # u /\ job[w] # NoShard => job[w] # job[u]

PartsWritten ==
  /\ \A w \in Workers : job[w] = NoShard => part[w] = 1
  /\ \A w \in Workers : job[w] # NoShard =>
       \A f \in Files : f < part[w] => files[job[w]][f] = run.ver

WorkInv == IdlePool /\ JobsApart /\ PartsWritten /\ MarkedIsWhole

LEMMA WorkInit == Init => WorkInv
BY ShardsAreNumbers, PartsAreNumbers
DEF Init, WorkInv, IdlePool, JobsApart, PartsWritten, MarkedIsWhole, Completed

\* A step outside the shard phase that leaves the files and the pool alone.
LEMMA WorkQuiet ==
  ASSUME WorkInv, UNCHANGED <<files, markers, pool>>,
         pc' \in {"shards", "draining"} <=> pc \in {"shards", "draining"},
         run'.ver = run.ver \/ pc \notin {"shards", "draining"}
  PROVE  WorkInv'
BY DEF WorkInv, IdlePool, JobsApart, PartsWritten, MarkedIsWhole, Completed, Present, pool

LEMMA WorkNext == TypeOK /\ WorkInv /\ [Next]_vars => WorkInv'
<1> SUFFICES ASSUME TypeOK, WorkInv, [Next]_vars PROVE WorkInv'
  OBVIOUS
<1> USE PartsAreNumbers, ShardsAreNumbers
<1>1. ASSUME NEW r \in Commands, StartGenerate(r) \/ StartCorrelate(r) PROVE WorkInv'
  BY <1>1, WorkQuiet DEF StartGenerate, StartCorrelate, Start, disk
<1>2. ASSUME NEW a \in Aux, Truncate(a) PROVE WorkInv'
  BY <1>2, WorkQuiet DEF Truncate
<1>3. ASSUME NEW a \in Aux, NEW content, NEW next \in Pcs \ {"shards", "draining"},
             Fill(a, content, next)
      PROVE  WorkInv'
  BY <1>3, WorkQuiet DEF Fill, Aux
<1>4. CASE WriteInstantiation
  BY <1>3, <1>4 DEF WriteInstantiation, Aux, Pcs
<1>5. CASE Estimate
  BY <1>5, WorkQuiet DEF Estimate, disk
<1>6. CASE WriteGraphs
  BY <1>3, <1>6 DEF WriteGraphs, Aux, Pcs
<1>7. CASE Plan
  <2>1. /\ UNCHANGED <<files, markers, job, part, failed>>
        /\ pc = "plan" /\ pc' = "shards"
    BY <1>7 DEF Plan, disk
  <2>2. \A w \in Workers : job[w] = NoShard
    BY <2>1 DEF WorkInv, IdlePool
  <2> QED
    BY <2>1, <2>2
    DEF WorkInv, IdlePool, JobsApart, PartsWritten, MarkedIsWhole, Completed, Present
<1>8. ASSUME NEW w \in Workers, Take(w) PROVE WorkInv'
  <2>1. PICK s \in queue : /\ job' = [job EXCEPT ![w] = s]
                           /\ queue' = queue \ {s}
    BY <1>8 DEF Take
  <2>2. /\ UNCHANGED <<files, markers, part, failed, run, pc>>
        /\ job[w] = NoShard /\ pc \in {"shards", "draining"}
    BY <1>8 DEF Take, disk
  <2>3. IdlePool' /\ MarkedIsWhole'
    BY <2>2 DEF WorkInv, IdlePool, MarkedIsWhole, Completed, Present
  <2>4. JobsApart'
    BY <2>1, <2>2 DEF WorkInv, JobsApart, TypeOK
  <2>5. PartsWritten'
    <3>1. part[w] = 1
      BY <2>2 DEF WorkInv, PartsWritten
    <3>2. \A f \in Files : ~(f < 1)
      BY DEF Files
    <3> QED
      BY <2>1, <2>2, <3>1, <3>2 DEF WorkInv, PartsWritten, TypeOK
  <2> QED
    BY <2>3, <2>4, <2>5 DEF WorkInv
<1>9. ASSUME NEW w \in Workers, OpenTemp(w) PROVE WorkInv'
  BY <1>9 DEF OpenTemp, WorkInv, IdlePool, JobsApart, PartsWritten, MarkedIsWhole,
              Completed, Present
<1>10. ASSUME NEW w \in Workers, Replace(w) PROVE WorkInv'
  <2>1. /\ job[w] \in Shards /\ part[w] \in Files /\ job[w] # NoShard
        /\ files' = [files EXCEPT ![job[w]][part[w]] = run.ver]
        /\ part' = [part EXCEPT ![w] = part[w] + 1]
        /\ UNCHANGED <<markers, queue, job, failed, run, pc>>
    BY <1>10 DEF TypeOK, Replace
  <2>2. IdlePool' /\ JobsApart'
    BY <2>1 DEF WorkInv, IdlePool, JobsApart
  <2>3. \A s \in Shards, f \in Files :
          files'[s][f] = IF s = job[w] /\ f = part[w] THEN run.ver ELSE files[s][f]
    BY <2>1 DEF TypeOK, Hashes
  <2>4. MarkedIsWhole'
    <3>1. run.ver # Absent
      BY MarkAssumption DEF TypeOK, Runs
    <3> QED
      BY <2>1, <2>3, <3>1 DEF WorkInv, MarkedIsWhole, Completed, Present
  <2>5. PartsWritten'
    <3>1. ASSUME NEW u \in Workers, job[u] # NoShard, NEW f \in Files, f < part'[u]
          PROVE  files'[job[u]][f] = run.ver
      <4>1. job[u] \in Shards
        BY <3>1 DEF TypeOK
      <4>2. CASE u = w
        <5>1. f < part[w] \/ f = part[w]
          BY <2>1, <3>1, <4>2 DEF TypeOK, Files
        <5>2. f < part[w] => files[job[w]][f] = run.ver
          BY <2>1 DEF WorkInv, PartsWritten
        <5> QED
          BY <2>3, <4>1, <4>2, <5>1, <5>2
      <4>3. CASE u # w
        <5>1. job[u] # job[w] /\ part'[u] = part[u]
          BY <2>1, <3>1, <4>3 DEF WorkInv, JobsApart, TypeOK
        <5>2. files[job[u]][f] = run.ver
          BY <3>1, <5>1 DEF WorkInv, PartsWritten
        <5> QED
          BY <2>3, <4>1, <5>1, <5>2
      <4> QED
        BY <4>2, <4>3
    <3>2. \A u \in Workers : job[u] = NoShard => part'[u] = 1
      BY <2>1 DEF WorkInv, PartsWritten, TypeOK
    <3> QED
      BY <2>1, <3>1, <3>2 DEF PartsWritten
  <2> QED
    BY <2>2, <2>4, <2>5 DEF WorkInv
<1>11. ASSUME NEW w \in Workers, Release(w), job[w] # NoShard,
              UNCHANGED <<files, queue, run, pc>>, failed' = failed \/ pc \in {"shards", "draining"}
       PROVE  IdlePool' /\ JobsApart' /\ PartsWritten'
  BY <1>11 DEF WorkInv, IdlePool, JobsApart, PartsWritten, Release, TypeOK
<1>12. ASSUME NEW w \in Workers, Publish(w) PROVE WorkInv'
  <2>1. /\ job[w] \in Shards /\ job[w] # NoShard /\ part[w] = Done
        /\ markers' = [markers EXCEPT ![job[w]] = files[job[w]]]
        /\ UNCHANGED <<files, queue, failed, run, pc>> /\ Release(w)
    BY <1>12 DEF TypeOK, Publish
  <2>2. IdlePool' /\ JobsApart' /\ PartsWritten'
    BY <1>11, <2>1
  <2>3. \A f \in Files : files[job[w]][f] = run.ver
    BY <2>1, ShardsAssumption DEF WorkInv, PartsWritten, Files, Done
  <2>4. run.ver # Absent
    BY MarkAssumption DEF TypeOK, Runs
  <2>5. MarkedIsWhole'
    BY <2>1, <2>3, <2>4 DEF WorkInv, MarkedIsWhole, Completed, Present, TypeOK
  <2> QED
    BY <2>2, <2>5 DEF WorkInv
<1>13. ASSUME NEW w \in Workers, Raise(w) PROVE WorkInv'
  <2>1. /\ UNCHANGED <<files, markers, queue, run, pc>>
        /\ Release(w) /\ job[w] # NoShard /\ pc \in {"shards", "draining"}
    BY <1>13 DEF Raise, disk, WorkInv, IdlePool
  <2>2. IdlePool' /\ JobsApart' /\ PartsWritten'
    BY <1>11, <2>1
  <2> QED
    BY <2>1, <2>2 DEF WorkInv, MarkedIsWhole, Completed, Present
<1>14. CASE Cancel
  BY <1>14 DEF Cancel, disk, WorkInv, IdlePool, JobsApart, PartsWritten, MarkedIsWhole,
               Completed, Present
<1>15. CASE Failed
  BY <1>15 DEF Failed, Busy, disk, WorkInv, IdlePool, JobsApart, PartsWritten,
               MarkedIsWhole, Completed, Present
<1>16. CASE ShardsDone
  BY <1>16 DEF ShardsDone, Busy, disk, pool, WorkInv, IdlePool, JobsApart,
               PartsWritten, MarkedIsWhole, Completed, Present
<1>17. CASE WriteLabels
  BY <1>3, <1>17 DEF WriteLabels, Aux, Pcs
<1>18. CASE WriteViews
  BY <1>3, <1>18 DEF WriteViews, Aux, Pcs
<1>19. CASE TruncateManifest
  BY <1>19, WorkQuiet DEF TruncateManifest
<1>20. CASE WriteManifest
  BY <1>20, WorkQuiet DEF WriteManifest
<1>21. CASE WriteComplete
  BY <1>21, WorkQuiet DEF WriteComplete
<1>22. ASSUME NEW how, Stopped(how) PROVE WorkInv'
  BY <1>22 DEF Stopped, disk, WorkInv, IdlePool, JobsApart, PartsWritten,
               MarkedIsWhole, Completed, Present
<1>23. CASE Crash
  BY <1>22, <1>23 DEF Crash
<1>24. CASE WorkerDies
  BY <1>22, <1>24 DEF WorkerDies
<1>25. CASE UNCHANGED vars
  BY <1>25, WorkQuiet DEF vars, disk
<1> QED
  BY <1>1, <1>2, <1>4, <1>5, <1>6, <1>7, <1>8, <1>9, <1>10, <1>12, <1>13, <1>14, <1>15,
     <1>16, <1>17, <1>18, <1>19, <1>20, <1>21, <1>23, <1>24, <1>25
  DEF Next, Command, Writing

LEMMA WorkAlways == Spec => []WorkInv
BY WorkInit, WorkNext, TypeCorrect, PTL DEF Spec

\* A shard with a marker has every one of its files, in every run.
THEOREM MarkedShardsAreWhole == Spec => []MarkedIsWhole
<1>1. WorkInv => MarkedIsWhole
  BY DEF WorkInv
<1> QED
  BY <1>1, WorkAlways, PTL

(***************************************************************************)
(* The manifest and COMPLETE.                                              *)
(***************************************************************************)
ListedInv ==
  /\ outcome = "ok" => pc = "idle"
  /\ outcome = "ok" \/ pc = "COMPLETE" => manifest = Listing

\* What is still owed of a full window while its run goes on.
WindowInv ==
  /\ pc \in Early \cup {"shards", "draining", "labels", "COMPLETE"} => run.cmd = "generate"
  /\ pc = "shards" /\ run.stop = NoStop =>
       \A s \in Bounds(run.ver) :
         s \in Completed \cup queue \cup failed \/ \E w \in Workers : job[w] = s
  /\ pc = "labels" /\ run.stop = NoStop => Bounds(run.ver) \subseteq Completed
  /\ pc \in {"views", "manifest", "COMPLETE"} /\ run.cmd = "generate" =>
       Bounds(run.ver) \subseteq Completed
  /\ CompleteMeansAllShards

LEMMA ListedInit == Init => ListedInv
BY DEF Init, ListedInv

LEMMA ListedNext == WorkInv /\ ListedInv /\ [Next]_vars => ListedInv'
<1> SUFFICES ASSUME WorkInv, ListedInv, [Next]_vars PROVE ListedInv'
  OBVIOUS
<1>1. ASSUME NEW r \in Commands, StartGenerate(r) \/ StartCorrelate(r) PROVE ListedInv'
  BY <1>1 DEF StartGenerate, StartCorrelate, Start, ListedInv
<1>2. ASSUME NEW a \in Aux, Truncate(a) PROVE ListedInv'
  BY <1>2 DEF Truncate, ListedInv, Aux
<1>3. ASSUME NEW a \in Aux, NEW content, NEW next, next # "COMPLETE", Fill(a, content, next)
      PROVE  ListedInv'
  BY <1>3 DEF Fill, ListedInv, Aux
<1>4. CASE WriteInstantiation \/ WriteGraphs \/ WriteLabels \/ WriteViews
  BY <1>3, <1>4 DEF WriteInstantiation, WriteGraphs, WriteLabels, WriteViews, Aux
<1>5. CASE Estimate
  BY <1>5 DEF Estimate, ListedInv
<1>6. CASE Plan
  BY <1>6 DEF Plan, ListedInv
<1>7. ASSUME NEW w \in Workers, Writing(w) \/ Raise(w) PROVE ListedInv'
  <2>1. pc \in {"shards", "draining"} /\ pc' = pc /\ outcome' = outcome
    BY <1>7 DEF Writing, Raise, Take, OpenTemp, Replace, Publish, WorkInv, IdlePool
  <2> QED
    BY <2>1 DEF ListedInv
<1>8. CASE Cancel \/ Failed \/ ShardsDone
  BY <1>8 DEF Cancel, Failed, ShardsDone, ListedInv
<1>9. CASE TruncateManifest
  BY <1>9 DEF TruncateManifest, ListedInv
<1>10. CASE WriteManifest
  <2>1. manifest' = Listing /\ Listing' = Listing
    BY <1>10 DEF WriteManifest, Listing
  <2> QED
    BY <1>10, <2>1 DEF WriteManifest, ListedInv
<1>11. CASE WriteComplete
  <2>1. Listing' = Listing
    BY <1>11 DEF WriteComplete, Listing
  <2> QED
    BY <1>11, <2>1 DEF WriteComplete, ListedInv
<1>12. CASE Crash \/ WorkerDies
  BY <1>12 DEF Crash, WorkerDies, Stopped, ListedInv
<1>13. CASE UNCHANGED vars
  BY <1>13 DEF vars, disk, ListedInv, Listing
<1> QED
  BY <1>1, <1>2, <1>4, <1>5, <1>6, <1>7, <1>8, <1>9, <1>10, <1>11, <1>12, <1>13
  DEF Next, Command

\* After any history of crashes, resumptions and fresh starts, a command that
\* ends well leaves a directory that its manifest lists exactly.
THEOREM VerifiedWhenOk == Spec => []OkMeansVerified
<1>1. Init => ListedInv
  BY ListedInit
<1>2. WorkInv /\ ListedInv /\ [Next]_vars => ListedInv'
  BY ListedNext
<1>3. ListedInv => OkMeansVerified
  BY DEF ListedInv, OkMeansVerified
<1> QED
  BY <1>1, <1>2, <1>3, WorkAlways, PTL DEF Spec

(***************************************************************************)
(* Shards are published once and stay published.                           *)
(***************************************************************************)
\* The only steps that write a marker or a file are a worker's.
LEMMA WhoWrites ==
  ASSUME [Next]_vars
  PROVE  \/ UNCHANGED <<files, markers>>
         \/ \E w \in Workers : Replace(w) \/ Publish(w)
BY DEF Next, vars, disk, Command, Writing, StartGenerate, StartCorrelate, Start, Truncate,
       Fill, WriteInstantiation, Estimate, WriteGraphs, Plan, Take, OpenTemp, Cancel, Failed,
       ShardsDone, WriteLabels, WriteViews, TruncateManifest, WriteManifest, WriteComplete,
       Raise, Crash, WorkerDies, Stopped

LEMMA PublishMarks ==
  ASSUME TypeOK, NEW w \in Workers, Publish(w)
  PROVE  /\ job[w] \in Shards
         /\ Completed' = Completed \cup {job[w]}
<1>1. job[w] \in Shards /\ files[job[w]] \in Hashes
  BY DEF TypeOK, Publish
<1>2. files[job[w]] # Absent
  BY <1>1, MarkAssumption DEF Hashes
<1>3. \A s \in Shards : markers'[s] = IF s = job[w] THEN files[s] ELSE markers[s]
  BY <1>1 DEF Publish, TypeOK
<1> QED
  BY <1>1, <1>2, <1>3 DEF Completed

LEMMA CompletedGrows ==
  ASSUME TypeOK, [Next]_vars
  PROVE  Completed \subseteq Completed'
<1>1. CASE UNCHANGED <<files, markers>>
  BY <1>1 DEF Completed
<1>2. ASSUME NEW w \in Workers, Replace(w) PROVE Completed \subseteq Completed'
  BY <1>2 DEF Replace, Completed
<1>3. ASSUME NEW w \in Workers, Publish(w) PROVE Completed \subseteq Completed'
  BY <1>3, PublishMarks
<1> QED
  BY <1>1, <1>2, <1>3, WhoWrites

LEMMA CompleteStays ==
  ASSUME TypeOK, CompleteMeansAllShards, [Next]_vars, complete' = complete
  PROVE  CompleteMeansAllShards'
BY CompletedGrows DEF CompleteMeansAllShards

LEMMA WindowInit == Init => WindowInv
BY DEF Init, WindowInv, Early, CompleteMeansAllShards

LEMMA WindowNext == TypeOK /\ WorkInv /\ WindowInv /\ [Next]_vars => WindowInv'
<1> SUFFICES ASSUME TypeOK, WorkInv, WindowInv, [Next]_vars PROVE WindowInv'
  OBVIOUS
<1> USE DEF Early
<1>a. complete' = complete => CompleteMeansAllShards'
  BY CompleteStays DEF WindowInv
<1>1. ASSUME NEW r \in Commands, StartGenerate(r) \/ StartCorrelate(r) PROVE WindowInv'
  BY <1>1, <1>a DEF StartGenerate, StartCorrelate, Start, disk, WindowInv
<1>2. ASSUME NEW a \in Aux, Truncate(a) PROVE WindowInv'
  BY <1>2, <1>a DEF Truncate, WindowInv, Aux, Completed, pool
<1>3. CASE WriteInstantiation \/ WriteGraphs
  BY <1>3, <1>a DEF WriteInstantiation, WriteGraphs, Fill, WindowInv
<1>4. CASE Estimate
  BY <1>4, <1>a DEF Estimate, disk, WindowInv
<1>5. CASE Plan
  <2>1. /\ pc = "plan" /\ pc' = "shards" /\ UNCHANGED <<markers, complete>>
        /\ run' = [run EXCEPT !.parallel = run.parallel /\ Cardinality(Todo) > 1]
        /\ queue' = Todo
    BY <1>5 DEF Plan, disk
  <2>2. /\ run'.ver = run.ver /\ run'.stop = run.stop /\ run'.cmd = run.cmd
    <3> HIDE DEF Todo
    <3> QED
      BY <2>1, Zenon DEF TypeOK, Runs
  <2>3. run.stop = NoStop => Bounds(run.ver) \subseteq Completed \cup Todo
    BY DEF Todo
  <2>4. Completed' = Completed /\ Bounds(run.ver) = Bounds(run'.ver)
    BY <2>1, <2>2 DEF Completed
  <2> QED
    BY <2>1, <2>2, <2>3, <2>4, <1>a DEF WindowInv
<1>6. ASSUME NEW w \in Workers, Take(w) PROVE WindowInv'
  <2>1. /\ UNCHANGED <<markers, complete, pc, run, failed>>
        /\ job[w] = NoShard /\ pc \in {"shards", "draining"}
    BY <1>6 DEF Take, disk
  <2>2. PICK s \in queue : job' = [job EXCEPT ![w] = s] /\ queue' = queue \ {s}
    BY <1>6 DEF Take
  <2>3. ASSUME pc = "shards", run.stop = NoStop, NEW t \in Bounds(run.ver)
        PROVE  t \in Completed \cup queue' \cup failed \/ \E u \in Workers : job'[u] = t
    <3>1. t \in Completed \cup queue \cup failed \/ \E u \in Workers : job[u] = t
      BY <2>3 DEF WindowInv
    <3>2. t \in Shards /\ t # NoShard
      BY BoundsInShards, ShardsAreNumbers DEF TypeOK, Runs
    <3>3. job'[w] = s
      BY <2>2 DEF TypeOK
    <3>4. \A u \in Workers : job[u] = t => job'[u] = t
      BY <2>1, <2>2, <3>2 DEF TypeOK
    <3> QED
      BY <2>2, <3>1, <3>3, <3>4
  <2> QED
    BY <2>1, <2>3, <1>a DEF WindowInv, Completed
<1>7. ASSUME NEW w \in Workers, OpenTemp(w) \/ Replace(w) PROVE WindowInv'
  BY <1>7, <1>a DEF OpenTemp, Replace, WindowInv, Completed
<1>8. ASSUME NEW w \in Workers, Publish(w) \/ Raise(w) PROVE WindowInv'
  <2>1. /\ UNCHANGED <<complete, pc, run, queue>>
        /\ job[w] # NoShard /\ Release(w)
    BY <1>8 DEF Publish, Raise, disk
  <2>2. pc \in {"shards", "draining"}
    BY <2>1 DEF WorkInv, IdlePool
  <2>3. job[w] \in Completed' \cup failed' /\ failed \subseteq failed'
    <3>1. CASE Publish(w)
      BY <3>1, PublishMarks DEF Publish
    <3>2. CASE Raise(w)
      BY <3>2 DEF Raise
    <3> QED
      BY <1>8, <3>1, <3>2
  <2>4. \A u \in Workers : u # w => job'[u] = job[u]
    BY <2>1 DEF Release, TypeOK
  <2>5. ASSUME pc = "shards", run.stop = NoStop, NEW t \in Bounds(run.ver)
        PROVE  t \in Completed' \cup queue \cup failed' \/ \E u \in Workers : job'[u] = t
    <3>1. t \in Completed \cup queue \cup failed \/ \E u \in Workers : job[u] = t
      BY <2>5 DEF WindowInv
    <3> QED
      BY <2>3, <2>4, <3>1, CompletedGrows
  <2> QED
    BY <2>1, <2>2, <2>5, <1>a DEF WindowInv
<1>9. CASE Cancel \/ Failed
  BY <1>9, <1>a DEF Cancel, Failed, disk, WindowInv
<1>10. CASE ShardsDone
  <2>1. /\ pc = "shards" /\ pc' = "labels" /\ queue = {} /\ failed = {}
        /\ \A w \in Workers : job[w] = NoShard
        /\ UNCHANGED <<complete, markers, run>>
    BY <1>10 DEF ShardsDone, Busy, disk
  <2>2. \A s \in Bounds(run.ver) : s # NoShard
    BY BoundsInShards, ShardsAreNumbers DEF TypeOK, Runs
  <2> QED
    BY <2>1, <2>2, <1>a DEF WindowInv, Completed
<1>11. CASE WriteLabels
  <2> HIDE DEF Views
  <2>1. /\ pc = "labels" /\ UNCHANGED <<complete, markers, run>>
        /\ pc' \in {"idle", "labels", "views", "manifest"}
        /\ pc' \in {"views", "manifest"} => run.stop = NoStop
    BY <1>11 DEF WriteLabels, Fill, AllShardsDone
  <2> QED
    BY <2>1, <1>a DEF WindowInv, Completed
<1>12. CASE WriteViews
  BY <1>12, <1>a DEF WriteViews, Fill, WindowInv, Completed
<1>13. CASE TruncateManifest \/ WriteManifest
  BY <1>13, <1>a DEF TruncateManifest, WriteManifest, WindowInv, Completed
<1>14. CASE WriteComplete
  <2>1. /\ pc = "COMPLETE" /\ pc' = "idle" /\ UNCHANGED <<markers, run>>
    BY <1>14 DEF WriteComplete
  <2>2. Bounds(run.ver) \subseteq Completed' /\ run.ver \in Versions
    BY <2>1 DEF WindowInv, Completed, TypeOK, Runs
  <2>3. CompleteMeansAllShards'
    BY <2>2 DEF CompleteMeansAllShards
  <2> QED
    BY <2>1, <2>3 DEF WindowInv
<1>15. CASE Crash \/ WorkerDies
  BY <1>15, <1>a DEF Crash, WorkerDies, Stopped, disk, WindowInv
<1>16. CASE UNCHANGED vars
  BY <1>16, <1>a DEF vars, disk, pool, WindowInv, Completed
<1> QED
  BY <1>1, <1>2, <1>3, <1>4, <1>5, <1>6, <1>7, <1>8, <1>9, <1>10, <1>11, <1>12, <1>13,
     <1>14, <1>15, <1>16
  DEF Next, Command, Writing

\* COMPLETE never coexists with an unfinished shard of the window it closes.
THEOREM CompleteNeverEarly == Spec => []CompleteMeansAllShards
<1>1. WindowInv => CompleteMeansAllShards
  BY DEF WindowInv
<1> QED
  BY <1>1, WindowInit, WindowNext, TypeCorrect, WorkAlways, PTL DEF Spec

(***************************************************************************)
(* A run that starts over.                                                 *)
(***************************************************************************)
Fresh == run.cmd = "generate" /\ ~run.resume

\* Whatever was there, the shard is now as this run alone would leave it.
Renewed(s) ==
  /\ files[s] = Pure(run.ver) /\ markers[s] = Pure(run.ver)
  /\ \A p \in Parts : <<s, p>> \notin temps

Closing == pc \in {"views", "manifest", "COMPLETE"} \/ outcome = "ok"

\* A worker has taken over the temporary names of the parts it has passed; a shard is
\* pending, being written, failed or renewed; at the end all are renewed.
RenewInv ==
  Fresh =>
    /\ \A w \in Workers : job[w] # NoShard =>
         \A p \in Parts : p < part[w] => <<job[w], p>> \notin temps
    /\ pc = "shards" /\ run.stop = NoStop =>
         \A s \in Bounds(run.ver) :
           s \in queue \cup failed \/ Renewed(s) \/ \E w \in Workers : job[w] = s
    /\ pc = "labels" /\ run.stop = NoStop => \A s \in Bounds(run.ver) : Renewed(s)
    /\ Closing => \A s \in Bounds(run.ver) : Renewed(s)

\* At the end there are as many markers as the window has shards.
CountInv ==
  /\ IsFiniteSet(Completed)
  /\ Closing /\ run.cmd = "generate" => Cardinality(Completed) = NumShards[run.ver]

\* Every piece the running version has of an artefact is of that version, or every one
\* that has been passed.
Written(a) == \A p \in Pieces[run.ver][a] : aux[a][p] = run.ver
Behind(a) == \A p \in Pieces[run.ver][a] :
               (p < piece \/ (p = piece /\ ~midway)) => aux[a][p] = run.ver

\* The artefacts written in place are of the running version once they are behind.
AuxInv ==
  /\ pc \notin Aux => piece = 0
  /\ run.cmd = "generate" =>
       /\ (pc \in {"instantiation", "graphs", "labels"} \/ (pc = "views" /\ ~run.resume)) =>
            Behind(pc)
       /\ pc \notin {"idle", "instantiation"} \/ outcome = "ok" => Written("instantiation")
       /\ pc \notin {"idle", "instantiation", "estimate", "graphs"} \/ outcome = "ok" =>
            Written("graphs")
       /\ Closing => Written("labels")
       /\ ~run.resume /\ run.correlate /\ pc # "views" /\ Closing => Written("views")

LEMMA RenewInit == Init => RenewInv /\ CountInv /\ AuxInv
<1> SUFFICES ASSUME Init PROVE RenewInv /\ CountInv /\ AuxInv
  OBVIOUS
<1>1. Completed = {}
  BY DEF Init, Completed
<1> QED
  BY <1>1, FS_EmptySet DEF Init, RenewInv, CountInv, AuxInv, Closing, Aux

LEMMA RenewQuiet ==
  ASSUME RenewInv, UNCHANGED <<files, markers, temps, job, part>>,
         run' = run, queue' \cup failed' = queue \cup failed \/ pc' # "shards",
         pc' \in {"shards", "labels"} => pc' = pc,
         Closing' => Closing \/ (pc = "labels" /\ run.stop = NoStop)
  PROVE  RenewInv'
BY DEF RenewInv, Fresh, Renewed

\* A worker's step on its own shard leaves every other one as it was.
LEMMA RenewWriting ==
  ASSUME TypeOK, WorkInv, ListedInv, RenewInv,
         NEW w \in Workers, Writing(w) \/ Raise(w)
  PROVE  RenewInv'
<1> USE PartsAreNumbers, ShardsAreNumbers
<1>1. /\ pc \in {"shards", "draining"} /\ pc' = pc /\ run' = run /\ outcome' = outcome
      /\ outcome # "ok"
  BY DEF Writing, Raise, Take, OpenTemp, Replace, Publish, disk, WorkInv, IdlePool, ListedInv
<1>2. ~Closing' /\ pc' # "labels"
  BY <1>1 DEF Closing
<1> SUFFICES ASSUME Fresh
             PROVE  /\ \A u \in Workers : job'[u] # NoShard =>
                         \A p \in Parts : p < part'[u] => <<job'[u], p>> \notin temps'
                    /\ pc = "shards" /\ run.stop = NoStop =>
                         \A s \in Bounds(run.ver) :
                           s \in queue' \cup failed' \/ Renewed(s)' \/ \E u \in Workers : job'[u] = s
  BY <1>1, <1>2 DEF RenewInv, Fresh
<1>a. \A u \in Workers : job[u] # NoShard =>
        \A p \in Parts : p < part[u] => <<job[u], p>> \notin temps
  BY DEF RenewInv
<1>b. pc = "shards" /\ run.stop = NoStop =>
        \A s \in Bounds(run.ver) :
          s \in queue \cup failed \/ Renewed(s) \/ \E u \in Workers : job[u] = s
  BY DEF RenewInv
<1>d. Bounds(run.ver) \subseteq Shards
  BY BoundsInShards DEF TypeOK, Runs
<1>c. \A u \in Workers : u # w /\ job[u] # NoShard => job[u] # job[w]
  BY DEF WorkInv, JobsApart
<1>3. CASE Take(w)
  <2>1. PICK s \in queue : job' = [job EXCEPT ![w] = s] /\ queue' = queue \ {s}
    BY <1>3 DEF Take
  <2>2. UNCHANGED <<files, markers, temps, part, failed>> /\ job[w] = NoShard
    BY <1>3 DEF Take, disk
  <2>3. part[w] = 1 /\ \A p \in Parts : ~(p < 1)
    BY <2>2 DEF WorkInv, PartsWritten, Parts
  <2>4. \A u \in Workers : job'[u] = IF u = w THEN s ELSE job[u]
    BY <2>1 DEF TypeOK
  <2>5. \A t \in Shards : Renewed(t) => Renewed(t)'
    BY <1>1, <2>2 DEF Renewed
  <2> QED
    <3>1. \A u \in Workers : job'[u] # NoShard =>
            \A p \in Parts : p < part'[u] => <<job'[u], p>> \notin temps'
      BY <1>a, <2>2, <2>3, <2>4
    <3>2. \A t \in Bounds(run.ver) : t \in queue => t \in queue' \/ job'[w] = t
      BY <2>1, <2>4
    <3>3. \A t : (\E u \in Workers : job[u] = t) =>
                 (\E u \in Workers : job'[u] = t) \/ t = NoShard
      BY <2>2, <2>4
    <3> QED
      BY <1>b, <1>d, <2>2, <2>5, <3>1, <3>2, <3>3
<1>4. CASE OpenTemp(w)
  <2>1. /\ UNCHANGED <<files, markers, part, queue, failed, job>> /\ job[w] # NoShard
        /\ temps' = temps \cup {<<job[w], part[w]>>}
    BY <1>4 DEF OpenTemp
  <2>2. \A t \in Shards : t # job[w] /\ Renewed(t) => Renewed(t)'
    BY <1>1, <2>1 DEF Renewed
  <2>3. \A u \in Workers : job[u] # NoShard =>
          \A p \in Parts : p < part[u] => <<job[u], p>> \notin temps'
    BY <1>a, <1>c, <2>1 DEF TypeOK
  <2> QED
    BY <1>b, <1>d, <2>1, <2>2, <2>3
<1>5. CASE Replace(w)
  <2>1. /\ UNCHANGED <<markers, queue, failed, job>> /\ job[w] # NoShard /\ job[w] \in Shards
        /\ part[w] \in Files /\ temps' = temps \ {<<job[w], part[w]>>}
        /\ files' = [files EXCEPT ![job[w]][part[w]] = run.ver]
    BY <1>5 DEF Replace, TypeOK
  <2>2. \A u \in Workers : part'[u] = IF u = w THEN part[w] + 1 ELSE part[u]
    BY <1>5 DEF Replace, TypeOK
  <2>3. \A t \in Shards : t # job[w] => files'[t] = files[t]
    BY <2>1 DEF TypeOK
  <2>4. \A t \in Shards : t # job[w] /\ Renewed(t) => Renewed(t)'
    BY <1>1, <2>1, <2>3 DEF Renewed
  <2>5. ASSUME NEW u \in Workers, job[u] # NoShard, NEW p \in Parts, p < part'[u]
        PROVE  <<job[u], p>> \notin temps'
    <3>1. p < part[u] \/ (u = w /\ p = part[w])
      <4>1. p \in Nat /\ part[u] \in Nat /\ (u = w => part'[u] = part[u] + 1)
        BY <2>2 DEF TypeOK, Parts, Done
      <4>2. u # w => part'[u] = part[u]
        BY <2>2
      <4> QED
        BY <2>5, <4>1, <4>2
    <3> QED
      BY <1>a, <2>1, <2>5, <3>1
  <2> QED
    BY <1>b, <1>d, <2>1, <2>4, <2>5
<1>6. CASE Publish(w)
  <2>1. /\ UNCHANGED <<files, queue, failed>> /\ job[w] # NoShard /\ part[w] = Done
        /\ temps' = temps \ {<<job[w], Done>>} /\ Release(w)
    BY <1>6 DEF Publish
  <2>2. \A u \in Workers : job'[u] = (IF u = w THEN NoShard ELSE job[u])
                          /\ part'[u] = (IF u = w THEN 1 ELSE part[u])
    BY <2>1 DEF Release, TypeOK
  <2>3. PICK k \in Shards : k = job[w]
    BY <2>1 DEF TypeOK
  <2>4. \A s \in Shards : markers'[s] = IF s = k THEN files[s] ELSE markers[s]
    BY <1>6, <2>3 DEF Publish, TypeOK
  <2>5. files[k] = Pure(run.ver)
    <3>1. \A f \in Files : files[k][f] = run.ver
      BY <2>1, <2>3, ShardsAssumption DEF WorkInv, PartsWritten, Files, Done
    <3>2. files[k] \in Hashes
      BY DEF TypeOK
    <3> QED
      BY <3>1, <3>2 DEF Hashes, Pure
  <2>6. \A p \in Parts : <<k, p>> \notin temps'
    <3>1. \A p \in Parts : p = Done \/ p < part[w]
      BY <2>1, ShardsAssumption DEF Parts, Done
    <3> QED
      BY <1>a, <2>1, <2>3, <3>1
  <2>7. Renewed(k)'
    BY <1>1, <2>1, <2>4, <2>5, <2>6 DEF Renewed
  <2>8. \A t \in Shards : t # k /\ Renewed(t) => Renewed(t)'
    BY <1>1, <2>1, <2>4 DEF Renewed
  <2>9. ASSUME NEW u \in Workers, job'[u] # NoShard, NEW p \in Parts, p < part'[u]
        PROVE  <<job'[u], p>> \notin temps'
    BY <1>a, <2>1, <2>2, <2>9
  <2>10. ASSUME pc = "shards", run.stop = NoStop, NEW s \in Bounds(run.ver)
         PROVE  s \in queue' \cup failed' \/ Renewed(s)' \/ \E u \in Workers : job'[u] = s
    <3>1. s \in queue \cup failed \/ Renewed(s) \/ \E u \in Workers : job[u] = s
      BY <1>b, <2>10
    <3> QED
      BY <1>d, <2>1, <2>2, <2>3, <2>7, <2>8, <3>1
  <2> QED
    BY <2>9, <2>10
<1>7. CASE Raise(w)
  <2>1. /\ UNCHANGED <<files, markers, temps, queue>> /\ job[w] # NoShard
        /\ failed' = failed \cup {job[w]} /\ Release(w)
    BY <1>7 DEF Raise, disk
  <2>2. \A u \in Workers : job'[u] = (IF u = w THEN NoShard ELSE job[u])
                          /\ part'[u] = (IF u = w THEN 1 ELSE part[u])
    BY <2>1 DEF Release, TypeOK
  <2>3. \A t \in Shards : Renewed(t) => Renewed(t)'
    BY <1>1, <2>1 DEF Renewed
  <2> QED
    BY <1>a, <1>b, <1>d, <2>1, <2>2, <2>3
<1> QED
  BY <1>3, <1>4, <1>5, <1>6, <1>7 DEF Writing

LEMMA RenewNext ==
  ASSUME TypeOK, WorkInv, ListedInv, RenewInv, [Next]_vars
  PROVE  RenewInv'
<1>1. ASSUME NEW r \in Commands, StartGenerate(r) PROVE RenewInv'
  <2>1. pc' = "instantiation" /\ outcome' = "running" /\ UNCHANGED pool /\ pc = "idle"
    BY <1>1 DEF StartGenerate, Start
  <2> QED
    BY <2>1 DEF RenewInv, Closing, WorkInv, IdlePool, pool
<1>2. ASSUME NEW r \in Commands, StartCorrelate(r) PROVE RenewInv'
  BY <1>2 DEF StartCorrelate, Start, RenewInv, Fresh
<1>3. ASSUME NEW a \in Aux, Truncate(a) PROVE RenewInv'
  BY <1>3, RenewQuiet DEF Truncate, Aux, pool, Closing
<1>4. ASSUME NEW a \in Aux, NEW content, NEW next \in {"idle", "estimate", "plan", "views", "manifest"},
             next \in {"views", "manifest"} =>
               pc = "views" \/ (pc = "labels" /\ run.stop = NoStop),
             Fill(a, content, next)
      PROVE  RenewInv'
  BY <1>4, RenewQuiet DEF Fill, Aux, pool, Closing
<1>5. CASE WriteInstantiation \/ WriteGraphs \/ WriteViews
  <2> HIDE DEF Views
  <2> QED
    BY <1>4, <1>5 DEF WriteInstantiation, WriteGraphs, WriteViews, Fill, Aux
<1>6. CASE WriteLabels
  BY <1>4, <1>6 DEF WriteLabels, AllShardsDone, Fill, Aux
<1>7. CASE Estimate
  BY <1>7, RenewQuiet DEF Estimate, disk, pool, Closing, ListedInv
<1>8. CASE Plan
  <2>1. /\ pc = "plan" /\ pc' = "shards" /\ outcome' = outcome /\ job' = job /\ outcome # "ok"
        /\ run' = [run EXCEPT !.parallel = run.parallel /\ Cardinality(Todo) > 1]
        /\ queue' = Todo
    BY <1>8 DEF Plan, ListedInv
  <2>2. run'.ver = run.ver /\ run'.stop = run.stop /\ run'.resume = run.resume
    <3> HIDE DEF Todo
    <3> QED
      BY <2>1, Zenon DEF TypeOK, Runs
  <2>3. ~run.resume /\ run.stop = NoStop => Bounds(run.ver) \subseteq Todo
    BY DEF Todo
  <2>4. \A w \in Workers : job[w] = NoShard
    BY <2>1 DEF WorkInv, IdlePool
  <2> QED
    BY <2>1, <2>2, <2>3, <2>4 DEF RenewInv, Fresh, Closing
<1>9. ASSUME NEW w \in Workers, Writing(w) \/ Raise(w) PROVE RenewInv'
  BY <1>9, RenewWriting
<1>10. CASE Cancel
  BY <1>10, RenewQuiet DEF Cancel, disk, Closing
<1>11. CASE Failed
  BY <1>11, RenewQuiet DEF Failed, disk, Closing
<1>12. CASE ShardsDone
  <2>1. /\ pc = "shards" /\ pc' = "labels" /\ outcome' = outcome /\ outcome # "ok" /\ run' = run
        /\ UNCHANGED <<files, markers, temps, pool>>
        /\ queue = {} /\ failed = {} /\ \A w \in Workers : job[w] = NoShard
    BY <1>12 DEF ShardsDone, Busy, disk, ListedInv
  <2>2. \A s \in Bounds(run.ver) : s # NoShard
    BY BoundsInShards, ShardsAreNumbers DEF TypeOK, Runs
  <2>3. \A s \in Shards : Renewed(s) => Renewed(s)'
    BY <2>1 DEF Renewed
  <2> QED
    BY <2>1, <2>2, <2>3, BoundsInShards DEF RenewInv, Fresh, Closing, pool, TypeOK, Runs
<1>13. CASE TruncateManifest \/ WriteManifest \/ WriteComplete
  BY <1>13, RenewQuiet DEF TruncateManifest, WriteManifest, WriteComplete, pool, Closing
<1>14. ASSUME NEW how \in {"crashed", "failed"}, Stopped(how) PROVE RenewInv'
  BY <1>14 DEF Stopped, RenewInv, Closing
<1>15. CASE Crash \/ WorkerDies
  BY <1>14, <1>15 DEF Crash, WorkerDies
<1>16. CASE UNCHANGED vars
  BY <1>16, RenewQuiet DEF vars, disk, pool, Closing
<1> QED
  BY <1>1, <1>2, <1>3, <1>5, <1>6, <1>7, <1>8, <1>9, <1>10, <1>11, <1>12, <1>13, <1>15, <1>16
  DEF Next, Command

\* A count of the markers is made before the corpus is closed, and none comes after.
LEMMA CountNext ==
  ASSUME TypeOK, WorkInv, ListedInv, CountInv, [Next]_vars
  PROVE  CountInv'
<1> USE DEF CountInv
<1>1. ASSUME UNCHANGED markers, Closing' /\ run'.cmd = "generate" => Closing,
             (run'.cmd = run.cmd /\ run'.ver = run.ver) \/ ~Closing'
      PROVE  CountInv'
  BY <1>1 DEF Completed
<1>2. ASSUME NEW r \in Commands, StartGenerate(r) PROVE CountInv'
  BY <1>1, <1>2 DEF StartGenerate, Start, disk, Closing
<1>3. ASSUME NEW r \in Commands, StartCorrelate(r) PROVE CountInv'
  BY <1>3 DEF StartCorrelate, Start, disk, Completed
<1>4. ASSUME NEW a \in Aux, Truncate(a) PROVE CountInv'
  BY <1>1, <1>4 DEF Truncate, Closing
<1>5. CASE WriteInstantiation \/ WriteGraphs \/ WriteViews
  <2> HIDE DEF Views
  <2> QED
    BY <1>1, <1>5 DEF WriteInstantiation, WriteGraphs, WriteViews, Fill, Closing, ListedInv
<1>6. CASE WriteLabels
  <2>1. PICK next \in {"idle", "views", "manifest"} :
          Fill("labels", run.ver, next) /\ (next # "idle" => AllShardsDone)
    BY <1>6 DEF WriteLabels
  <2>2. UNCHANGED <<markers, run>> /\ (Closing' => AllShardsDone)
    BY <2>1 DEF Fill, Closing, ListedInv
  <2> QED
    BY <2>2 DEF AllShardsDone, Completed
<1>7. CASE Estimate
  BY <1>1, <1>7 DEF Estimate, disk, Closing
<1>8. CASE Plan
  BY <1>1, <1>8 DEF Plan, disk, Closing, ListedInv
<1>9. ASSUME NEW w \in Workers, Take(w) \/ OpenTemp(w) \/ Replace(w) \/ Raise(w)
      PROVE  CountInv'
  BY <1>1, <1>9 DEF Take, OpenTemp, Replace, Raise, disk, Closing
<1>10. ASSUME NEW w \in Workers, Publish(w) PROVE CountInv'
  <2>1. Completed' = Completed \cup {job[w]}
    BY <1>10, PublishMarks
  <2>2. pc \in {"shards", "draining"} /\ pc' = pc /\ outcome' = outcome /\ outcome # "ok"
    BY <1>10 DEF Publish, WorkInv, IdlePool, ListedInv
  <2> QED
    BY <2>1, <2>2, FS_AddElement DEF Closing
<1>11. CASE Cancel \/ Failed \/ ShardsDone
  BY <1>1, <1>11 DEF Cancel, Failed, ShardsDone, disk, Closing
<1>12. CASE TruncateManifest \/ WriteManifest \/ WriteComplete
  BY <1>1, <1>12 DEF TruncateManifest, WriteManifest, WriteComplete, Closing
<1>13. CASE Crash \/ WorkerDies
  BY <1>1, <1>13 DEF Crash, WorkerDies, Stopped, disk, Closing
<1>14. CASE UNCHANGED vars
  BY <1>1, <1>14 DEF vars, disk, Closing
<1> QED
  BY <1>2, <1>3, <1>4, <1>5, <1>6, <1>7, <1>8, <1>9, <1>10, <1>11, <1>12, <1>13, <1>14
  DEF Next, Command, Writing

\* When as many shards are finished as the window has, and those of the window are,
\* there is no other.
LEMMA NoOtherShard ==
  ASSUME TypeOK, RenewInv, CountInv, Fresh, Closing
  PROVE  Completed = Bounds(run.ver)
<1>1. run.ver \in Versions /\ NumShards[run.ver] \in Nat \ {0}
  BY ShardsAssumption DEF TypeOK, Runs
<1>2. Bounds(run.ver) \subseteq Completed
  <2>1. \A s \in Bounds(run.ver) : markers[s] = Pure(run.ver)
    BY DEF RenewInv, Renewed
  <2>2. Pure(run.ver) \in [Files -> Versions \cup {Absent}]
    BY <1>1 DEF Pure
  <2> QED
    BY <1>1, <2>1, <2>2, BoundsInShards, MarkAssumption DEF Completed
<1>3. Cardinality(Bounds(run.ver)) = NumShards[run.ver]
  <2>1. Cardinality(0 .. (NumShards[run.ver] - 1)) = NumShards[run.ver]
    BY <1>1, FS_Interval
  <2> QED
    BY <2>1 DEF Bounds
<1>4. IsFiniteSet(Completed) /\ Cardinality(Completed) = NumShards[run.ver]
  BY DEF CountInv, Fresh
<1> QED
  BY <1>2, <1>3, <1>4, FS_Subset

\* The correlator of a run that started over reads this run's files only.
LEMMA ViewsOfFresh ==
  ASSUME TypeOK, RenewInv, CountInv, AuxInv, Fresh, pc = "views"
  PROVE  Views = run.ver
<1>1. Completed = Bounds(run.ver) /\ run.ver \in Versions
  BY NoOtherShard DEF Closing, TypeOK, Runs
<1>2. \A s \in Completed : files[s] = [f \in Files |-> run.ver]
  BY <1>1 DEF RenewInv, Closing, Renewed, Pure
<1>3. Written("instantiation") /\ Written("graphs") /\ Written("labels")
  BY DEF AuxInv, Closing, Fresh
<1>4. \A a \in Aux \ {"views"} : aux[a][Fixed] = run.ver
  BY <1>1, <1>3, PiecesAreNumbers DEF Written, Aux
<1> QED
  BY <1>1, <1>2, <1>4 DEF Views

\* Beginning the next piece leaves every piece that is behind as it is.
LEMMA BehindTruncate ==
  ASSUME TypeOK, NEW a \in Aux, Truncate(a), Behind(a)
  PROVE  Behind(a)'
<1>1. PICK q \in Rest(a) : /\ \A p \in Rest(a) : q <= p
                           /\ piece' = q
                           /\ aux' = [aux EXCEPT ![a][q] = Torn]
  BY DEF Truncate
<1>2. midway' /\ ~midway /\ run' = run
  BY DEF Truncate
<1>3. Pieces[run.ver][a] \subseteq AllPieces /\ AllPieces \subseteq Nat /\ piece \in Nat
  BY PiecesAreNumbers DEF TypeOK, Runs
<1>4. \A p \in Pieces[run.ver][a] : p < q => p # q /\ (p < piece \/ p = piece)
  BY <1>1, <1>3 DEF Rest
<1>5. \A p : p # q => aux'[a][p] = aux[a][p]
  BY <1>1 DEF TypeOK
<1> QED
  BY <1>1, <1>2, <1>4, <1>5 DEF Behind

\* Filling a piece: it is behind, and after the last one so is the artefact.
LEMMA BehindFill ==
  ASSUME TypeOK, NEW a \in Aux, NEW next, Fill(a, run.ver, next), Behind(a)
  PROVE  \/ pc' = pc /\ piece' = piece /\ Behind(a)'
         \/ pc' = next /\ piece' = 0 /\ Written(a)'
<1>1. aux' = [aux EXCEPT ![a][piece] = run.ver] /\ midway /\ ~midway' /\ run' = run
  BY DEF Fill
<1>2. Pieces[run.ver][a] \subseteq AllPieces /\ AllPieces \subseteq Nat /\ piece \in Nat
  BY PiecesAreNumbers DEF TypeOK, Runs
<1>3. \A p \in Pieces[run.ver][a] :
        aux'[a][p] = IF p = piece THEN run.ver ELSE aux[a][p]
  BY <1>1, <1>2 DEF TypeOK
<1>4. \A p \in Pieces[run.ver][a] : p < piece \/ p = piece => aux'[a][p] = run.ver
  BY <1>1, <1>3 DEF Behind
<1>5. CASE Rest(a) # {}
  <2>1. pc' = pc /\ piece' = piece
    BY <1>5 DEF Fill
  <2> QED
    BY <1>1, <1>4, <2>1 DEF Behind
<1>6. CASE Rest(a) = {}
  <2>1. pc' = next /\ piece' = 0
    BY <1>6 DEF Fill
  <2>2. \A p \in Pieces[run.ver][a] : p < piece \/ p = piece
    <3>1. \A p \in Pieces[run.ver][a] : ~(p > piece)
      BY <1>6 DEF Rest
    <3>2. \A p \in AllPieces : ~(p > piece) => p < piece \/ p = piece
      BY <1>2
    <3> QED
      BY <1>2, <3>1, <3>2
  <2> QED
    BY <1>1, <1>4, <2>1, <2>2 DEF Written
<1> QED
  BY <1>5, <1>6

\* Before its first piece nothing of an artefact is behind.
LEMMA NoneBehind == TypeOK /\ piece = 0 => \A a \in Aux : Behind(a)
<1> SUFFICES ASSUME TypeOK, piece = 0 PROVE \A a \in Aux : Behind(a)
  OBVIOUS
<1>1. \A a \in Aux : Pieces[run.ver][a] \subseteq AllPieces
  BY PiecesAreNumbers DEF TypeOK, Runs
<1>2. \A p \in AllPieces : ~(p < 0) /\ p # 0
  BY DEF AllPieces
<1> QED
  BY <1>1, <1>2 DEF Behind

LEMMA AuxNext ==
  ASSUME TypeOK, TypeOK', WorkInv, ListedInv, WindowInv, RenewInv, CountInv, AuxInv,
         [Next]_vars
  PROVE  AuxInv'
<1> USE DEF Early
<1>n. piece' = 0 => \A a \in Aux : Behind(a)'
  <2>1. (TypeOK /\ piece = 0 => \A a \in Aux : Behind(a))'
    BY NoneBehind, PTL
  <2> QED
    BY <2>1
<1>1. ASSUME NEW r \in Commands, StartGenerate(r) \/ StartCorrelate(r) PROVE AuxInv'
  <2>1. /\ pc = "idle" /\ piece' = piece /\ outcome' = "running"
        /\ pc' = "instantiation" \/ (pc' = "views" /\ run'.cmd = "correlate")
    BY <1>1 DEF StartGenerate, StartCorrelate, Start
  <2>2. piece' = 0
    BY <2>1 DEF AuxInv, Aux
  <2> QED
    BY <1>n, <2>1, <2>2 DEF AuxInv, Closing, Aux
<1>2. ASSUME NEW a \in Aux, Truncate(a) PROVE AuxInv'
  <2>1. /\ pc = a /\ pc' = pc /\ run' = run /\ outcome' = outcome /\ outcome # "ok"
        /\ \A b \in Aux : b # a => aux'[b] = aux[b]
    BY <1>2 DEF Truncate, Aux, ListedInv, TypeOK
  <2>2. \A b \in Aux : b # a => Written(b)' = Written(b)
    BY <2>1 DEF Written
  <2> QED
    BY <1>2, <2>1, <2>2, BehindTruncate DEF AuxInv, Closing, Aux
<1>3. ASSUME NEW a \in Aux, NEW content, NEW next, Fill(a, content, next)
      PROVE  /\ pc = a /\ run' = run /\ outcome # "ok" /\ outcome' # "ok"
             /\ (pc' = a /\ piece' = piece) \/ (pc' = next /\ piece' = 0)
             /\ \A b \in Aux : b # a => Written(b)' = Written(b)
  <2>1. /\ pc = a /\ run' = run /\ outcome # "ok" /\ outcome' # "ok"
        /\ (pc' = a /\ piece' = piece) \/ (pc' = next /\ piece' = 0)
    BY <1>3 DEF Fill, Aux, ListedInv
  <2>2. \A b \in Aux : b # a => aux'[b] = aux[b]
    BY <1>3 DEF Fill, TypeOK
  <2> QED
    BY <2>1, <2>2 DEF Written
<1>4. CASE WriteInstantiation
  BY <1>3, <1>4, BehindFill DEF WriteInstantiation, AuxInv, Closing, Aux
<1>5. CASE WriteGraphs
  BY <1>3, <1>5, BehindFill DEF WriteGraphs, AuxInv, Closing, Aux
<1>6. CASE WriteLabels
  <2>1. PICK next \in {"idle", "views", "manifest"} :
          /\ Fill("labels", run.ver, next)
          /\ next = "manifest" => ~run.correlate
    BY <1>6 DEF WriteLabels
  <2>2. run.cmd = "generate" => Behind("labels")
    BY <2>1 DEF AuxInv, Fill
  <2>3. run.cmd = "generate" =>
          \/ pc' = "labels" /\ Behind("labels")'
          \/ pc' = next /\ piece' = 0 /\ Written("labels")'
    BY <2>1, <2>2, BehindFill DEF Aux, Fill
  <2> QED
    BY <1>n, <1>3, <2>1, <2>3 DEF AuxInv, Closing, Aux
<1>7. CASE WriteViews
  <2>1. Fill("views", Views, "manifest") /\ pc = "views"
    BY <1>7 DEF WriteViews, Fill
  <2>2. Fresh => Views = run.ver
    BY <2>1, ViewsOfFresh
  <2> HIDE DEF Views
  <2>3. Fresh =>
          (pc' = "views" /\ Behind("views")') \/ (pc' = "manifest" /\ Written("views")')
    BY <2>1, <2>2, BehindFill DEF AuxInv, Aux, Fresh
  <2> QED
    BY <1>3, <2>1, <2>3 DEF AuxInv, Closing, Aux, Fresh
<1>u. aux' = aux /\ run'.ver = run.ver => \A a \in Aux : Written(a)' = Written(a)
  BY DEF Written
<1>8. CASE Plan
  <2>1. /\ aux' = aux /\ piece' = piece /\ outcome' = outcome /\ pc = "plan" /\ pc' = "shards"
        /\ run' = [run EXCEPT !.parallel = run.parallel /\ Cardinality(Todo) > 1]
    BY <1>8 DEF Plan, disk
  <2>2. /\ run'.cmd = run.cmd /\ run'.ver = run.ver /\ run'.resume = run.resume
        /\ run'.correlate = run.correlate
    <3> HIDE DEF Todo
    <3> QED
      BY <2>1, Zenon DEF TypeOK, Runs
  <2> QED
    BY <1>u, <2>1, <2>2 DEF AuxInv, Closing, Aux
<1>9. CASE Estimate
  <2>1. /\ aux' = aux /\ run' = run /\ piece' = piece /\ pc = "estimate" /\ outcome # "ok"
        /\ outcome' # "ok" /\ pc' \in {"idle", "graphs"}
    BY <1>9 DEF Estimate, disk, ListedInv
  <2>2. piece' = 0
    BY <2>1 DEF AuxInv, Aux
  <2> QED
    BY <1>n, <1>u, <2>1, <2>2 DEF AuxInv, Closing, Aux
<1>10. ASSUME NEW w \in Workers, Writing(w) \/ Raise(w) PROVE AuxInv'
  <2>1. /\ aux' = aux /\ run' = run /\ outcome' = outcome /\ pc' = pc /\ piece' = piece
        /\ pc \in {"shards", "draining"}
    BY <1>10 DEF Writing, Raise, Take, OpenTemp, Replace, Publish, disk, WorkInv, IdlePool
  <2> QED
    BY <1>u, <2>1 DEF AuxInv, Closing, Aux
<1>11. CASE Cancel \/ Failed
  <2>1. /\ aux' = aux /\ run' = run /\ piece' = piece /\ pc \in {"shards", "draining"}
        /\ pc' \in {"draining", "idle"} /\ outcome # "ok" /\ outcome' # "ok"
    BY <1>11 DEF Cancel, Failed, disk, ListedInv
  <2> QED
    BY <1>u, <2>1 DEF AuxInv, Closing, Aux
<1>12. CASE ShardsDone
  <2>1. /\ aux' = aux /\ run' = run /\ piece' = piece /\ pc = "shards" /\ pc' = "labels"
        /\ outcome' = outcome /\ outcome # "ok"
    BY <1>12 DEF ShardsDone, disk, ListedInv
  <2>2. piece' = 0
    BY <2>1 DEF AuxInv, Aux
  <2> QED
    BY <1>n, <1>u, <2>1, <2>2 DEF AuxInv, Closing, Aux
<1>13. CASE TruncateManifest \/ WriteManifest \/ WriteComplete
  <2>1. /\ aux' = aux /\ run' = run /\ piece' = piece /\ pc \in {"manifest", "COMPLETE"}
        /\ pc' \in {"manifest", "COMPLETE", "idle"}
    BY <1>13 DEF TruncateManifest, WriteManifest, WriteComplete
  <2> QED
    BY <1>u, <2>1 DEF AuxInv, Closing, Aux
<1>14. ASSUME NEW how \in {"crashed", "failed"}, Stopped(how) PROVE AuxInv'
  BY <1>14 DEF Stopped, AuxInv, Closing
<1>15. CASE Crash \/ WorkerDies
  BY <1>14, <1>15 DEF Crash, WorkerDies
<1>16. CASE UNCHANGED vars
  <2>1. aux' = aux /\ run' = run /\ UNCHANGED <<pc, piece, midway, outcome>>
    BY <1>16 DEF vars, disk
  <2>2. \A a : Behind(a)' = Behind(a)
    BY <2>1 DEF Behind
  <2> QED
    BY <1>u, <2>1, <2>2 DEF AuxInv, Closing, Aux
<1> QED
  BY <1>1, <1>2, <1>4, <1>5, <1>6, <1>7, <1>8, <1>9, <1>10, <1>11, <1>12, <1>13, <1>15, <1>16
  DEF Next, Command

LEMMA RenewedIsFresh ==
  ASSUME TypeOK, ListedInv, RenewInv, CountInv, AuxInv
  PROVE  StartedOverIsFresh
<1> SUFFICES ASSUME outcome = "ok", run.cmd = "generate", ~run.resume, run.correlate
             PROVE  /\ Completed = Bounds(run.ver)
                    /\ \A s \in Completed : Renewed(s)
                    /\ \A a \in Aux : Written(a)
  BY DEF StartedOverIsFresh, Renewed, Written
<1>1. Completed = Bounds(run.ver) /\ \A s \in Bounds(run.ver) : Renewed(s)
  BY NoOtherShard DEF RenewInv, Fresh, Closing
<1>2. pc = "idle"
  BY DEF ListedInv
<1>3. \A a \in Aux : Written(a)
  BY <1>2 DEF AuxInv, Closing, Aux
<1> QED
  BY <1>1, <1>3

\* A run that starts over, correlates and ends well has every shard of its window and
\* every piece of its artefacts from itself alone, and no finished shard beyond the
\* window, whatever crashed, failed, stopped or had other inputs before.
THEOREM StartedOverRunsAreFresh == Spec => []StartedOverIsFresh
<1>1. Spec => []ListedInv
  BY ListedInit, ListedNext, WorkAlways, PTL DEF Spec
<1>2. Spec => []WindowInv
  BY WindowInit, WindowNext, TypeCorrect, WorkAlways, PTL DEF Spec
<1>3. TypeOK /\ TypeOK' /\ WorkInv /\ ListedInv /\ WindowInv
        /\ RenewInv /\ CountInv /\ AuxInv /\ [Next]_vars
        => RenewInv' /\ CountInv' /\ AuxInv'
  <2> SUFFICES ASSUME TypeOK, TypeOK', WorkInv, ListedInv, WindowInv,
                      RenewInv, CountInv, AuxInv, [Next]_vars
               PROVE  RenewInv' /\ CountInv' /\ AuxInv'
    OBVIOUS
  <2>1. RenewInv'
    BY RenewNext
  <2>2. CountInv'
    BY CountNext
  <2>3. AuxInv'
    BY AuxNext
  <2> QED
    BY <2>1, <2>2, <2>3
<1>4. Spec => [](RenewInv /\ CountInv /\ AuxInv)
  BY <1>1, <1>2, <1>3, RenewInit, TypeCorrect, WorkAlways, PTL DEF Spec
<1>5. TypeOK /\ ListedInv /\ RenewInv /\ CountInv /\ AuxInv => StartedOverIsFresh
  BY RenewedIsFresh
<1> QED
  BY <1>1, <1>4, <1>5, TypeCorrect, PTL

(***************************************************************************)
(* What a run that skips finished shards may touch.                        *)
(***************************************************************************)
\* Runs that skip: resumed ones, and every run when none starts over.
Skips == run.resume \/ ~StartOver

\* A shard with a marker is neither pending nor being written.
UnmarkedInv ==
  /\ pc \in Early /\ ~StartOver => run.resume \/ Completed = {}
  /\ Skips => /\ queue \cap Completed = {}
              /\ \A w \in Workers : job[w] # NoShard => job[w] \notin Completed

LEMMA UnmarkedInit == Init => UnmarkedInv
BY ShardsAreNumbers DEF Init, UnmarkedInv, Early

LEMMA UnmarkedNext == TypeOK /\ WorkInv /\ UnmarkedInv /\ [Next]_vars => UnmarkedInv'
<1> SUFFICES ASSUME TypeOK, WorkInv, UnmarkedInv, [Next]_vars PROVE UnmarkedInv'
  OBVIOUS
<1> USE DEF Early, Skips
<1>1. ASSUME NEW r \in Commands, StartGenerate(r) PROVE UnmarkedInv'
  BY <1>1 DEF StartGenerate, Start, disk, pool, UnmarkedInv, WorkInv, IdlePool, Completed
<1>2. ASSUME NEW r \in Commands, StartCorrelate(r) PROVE UnmarkedInv'
  BY <1>2 DEF StartCorrelate, Start, disk, pool, UnmarkedInv, WorkInv, IdlePool, Completed
<1>3. ASSUME NEW a \in Aux, Truncate(a) PROVE UnmarkedInv'
  BY <1>3 DEF Truncate, pool, UnmarkedInv, Completed
<1>4. ASSUME NEW a, NEW content, NEW next, next \in Early => pc \in Early, Fill(a, content, next)
      PROVE  UnmarkedInv'
  BY <1>4 DEF Fill, pool, UnmarkedInv, Completed
<1>5. CASE WriteInstantiation \/ WriteGraphs \/ WriteLabels \/ WriteViews
  BY <1>4, <1>5 DEF WriteInstantiation, WriteGraphs, WriteLabels, WriteViews, Fill
<1>6. CASE Estimate
  BY <1>6 DEF Estimate, disk, pool, UnmarkedInv, Completed
<1>7. CASE Plan
  <2>1. /\ pc = "plan" /\ pc' = "shards" /\ UNCHANGED <<markers, job>>
        /\ run' = [run EXCEPT !.parallel = run.parallel /\ Cardinality(Todo) > 1]
        /\ queue' = Todo
    BY <1>7 DEF Plan, disk
  <2>2. run'.resume = run.resume
    <3> HIDE DEF Todo
    <3> QED
      BY <2>1, Zenon DEF TypeOK, Runs
  <2>3. Skips => Todo \cap Completed = {}
    BY <2>1 DEF Todo, UnmarkedInv
  <2> QED
    BY <2>1, <2>2, <2>3 DEF UnmarkedInv, Completed, WorkInv, IdlePool
<1>8. ASSUME NEW w \in Workers, Take(w) PROVE UnmarkedInv'
  <2>1. PICK s \in queue : job' = [job EXCEPT ![w] = s] /\ queue' = queue \ {s}
    BY <1>8 DEF Take
  <2>2. UNCHANGED <<markers, pc, run>>
    BY <1>8 DEF Take, disk
  <2>3. \A u \in Workers : job'[u] = job[u] \/ job'[u] = s
    BY <2>1 DEF TypeOK
  <2> QED
    BY <2>1, <2>2, <2>3 DEF UnmarkedInv, Completed
<1>9. ASSUME NEW w \in Workers, OpenTemp(w) \/ Replace(w) PROVE UnmarkedInv'
  BY <1>9 DEF OpenTemp, Replace, UnmarkedInv, Completed
<1>10. ASSUME NEW w \in Workers, Publish(w) PROVE UnmarkedInv'
  <2>1. /\ UNCHANGED <<queue, run, pc>> /\ Release(w) /\ job[w] # NoShard
    BY <1>10 DEF Publish
  <2>2. /\ job[w] \notin queue /\ pc \in {"shards", "draining"}
        /\ \A u \in Workers : u # w => job[u] # job[w]
    BY <2>1 DEF WorkInv, IdlePool, JobsApart
  <2>3. \A u \in Workers : job'[u] = IF u = w THEN NoShard ELSE job[u]
    BY <2>1 DEF Release, TypeOK
  <2> QED
    BY <2>1, <2>2, <2>3, <1>10, PublishMarks DEF UnmarkedInv
<1>11. ASSUME NEW w \in Workers, Raise(w) PROVE UnmarkedInv'
  BY <1>11 DEF Raise, Release, disk, UnmarkedInv, Completed, TypeOK
<1>12. CASE Cancel
  BY <1>12 DEF Cancel, disk, UnmarkedInv, Completed
<1>13. CASE Failed \/ ShardsDone
  BY <1>13 DEF Failed, ShardsDone, disk, pool, UnmarkedInv, Completed
<1>14. CASE TruncateManifest \/ WriteManifest \/ WriteComplete
  BY <1>14 DEF TruncateManifest, WriteManifest, WriteComplete, pool, UnmarkedInv, Completed
<1>15. CASE Crash \/ WorkerDies
  BY <1>15 DEF Crash, WorkerDies, Stopped, disk, UnmarkedInv, Completed
<1>16. CASE UNCHANGED vars
  BY <1>16 DEF vars, disk, pool, UnmarkedInv, Completed
<1> QED
  BY <1>1, <1>2, <1>3, <1>5, <1>6, <1>7, <1>8, <1>9, <1>10, <1>11, <1>12, <1>13, <1>14,
     <1>15, <1>16
  DEF Next, Command, Writing

LEMMA UnmarkedAlways == Spec => []UnmarkedInv
BY UnmarkedInit, UnmarkedNext, TypeCorrect, WorkAlways, PTL DEF Spec

\* The only steps that touch a temporary name are a worker's, on its own shard.
LEMMA TempsOfJob ==
  ASSUME TypeOK, [Next]_vars
  PROVE  \/ temps' = temps
         \/ \E w \in Workers : /\ OpenTemp(w) \/ Replace(w) \/ Publish(w)
                              /\ \A s \in Shards, p \in Parts : s # job[w] =>
                                   (<<s, p>> \in temps' <=> <<s, p>> \in temps)
<1>1. ASSUME NEW w \in Workers, OpenTemp(w) \/ Replace(w) \/ Publish(w),
             NEW s \in Shards, NEW p \in Parts, s # job[w]
      PROVE  <<s, p>> \in temps' <=> <<s, p>> \in temps
  BY <1>1 DEF OpenTemp, Replace, Publish
<1>2. temps' = temps \/ \E w \in Workers : OpenTemp(w) \/ Replace(w) \/ Publish(w)
  BY DEF Next, vars, disk, Command, Writing, StartGenerate, StartCorrelate, Start, Truncate,
         Fill, WriteInstantiation, Estimate, WriteGraphs, Plan, Take, Cancel, Failed,
         ShardsDone, WriteLabels, WriteViews, TruncateManifest, WriteManifest, WriteComplete,
         Raise, Crash, WorkerDies, Stopped
<1> QED
  BY <1>1, <1>2

\* A resumed run leaves alone every shard that has its marker.
THEOREM ResumedRunsKeepShards == Spec => ResumeKeepsShards
<1> DEFINE Kept == run.resume /\ pc # "idle" =>
       \A s \in Completed : /\ files'[s] = files[s] /\ markers'[s] = markers[s]
                            /\ \A p \in Parts : <<s, p>> \in temps' <=> <<s, p>> \in temps
<1>1. TypeOK /\ UnmarkedInv /\ [Next]_vars => [Kept]_vars
  <2> SUFFICES ASSUME TypeOK, UnmarkedInv, [Next]_vars, run.resume, NEW s \in Completed
               PROVE  /\ files'[s] = files[s] /\ markers'[s] = markers[s]
                      /\ \A p \in Parts : <<s, p>> \in temps' <=> <<s, p>> \in temps
    OBVIOUS
  <2>1. \A w \in Workers : job[w] # NoShard => job[w] # s
    BY DEF UnmarkedInv, Skips
  <2>2. ASSUME NEW w \in Workers, Replace(w) \/ Publish(w)
        PROVE  files'[s] = files[s] /\ markers'[s] = markers[s]
    BY <2>1, <2>2 DEF Replace, Publish, TypeOK, Completed
  <2>3. files'[s] = files[s] /\ markers'[s] = markers[s]
    BY <2>2, WhoWrites
  <2>4. \A p \in Parts : <<s, p>> \in temps' <=> <<s, p>> \in temps
    BY <2>1, TempsOfJob DEF OpenTemp, Replace, Publish, Completed
  <2> QED
    BY <2>3, <2>4
<1> QED
  BY <1>1, TypeCorrect, UnmarkedAlways, PTL DEF Spec, ResumeKeepsShards

(***************************************************************************)
(* When no run starts over: the marker's hashes, and the promise.          *)
(***************************************************************************)
LEMMA HonestNext ==
  ASSUME ~StartOver, TypeOK, WorkInv, UnmarkedInv, MarkerHonest, [Next]_vars
  PROVE  MarkerHonest'
<1>1. CASE UNCHANGED <<files, markers>>
  BY <1>1 DEF MarkerHonest, Completed
<1>2. ASSUME NEW w \in Workers, Replace(w) PROVE MarkerHonest'
  <2>1. job[w] \notin Completed
    BY <1>2 DEF Replace, UnmarkedInv, Skips
  <2>2. \A s \in Completed : files'[s] = files[s]
    BY <1>2, <2>1 DEF Replace, TypeOK, Completed
  <2>3. markers' = markers /\ Completed' = Completed
    BY <1>2 DEF Replace, Completed
  <2> QED
    BY <2>2, <2>3 DEF MarkerHonest
<1>3. ASSUME NEW w \in Workers, Publish(w) PROVE MarkerHonest'
  <2>1. /\ Completed' = Completed \cup {job[w]} /\ job[w] \in Shards
    BY <1>3, PublishMarks
  <2>2. /\ files' = files /\ job[w] # NoShard /\ part[w] = Done
        /\ markers' = [markers EXCEPT ![job[w]] = files[job[w]]]
    BY <1>3 DEF Publish
  <2>3. files[job[w]] = Pure(run.ver) /\ run.ver \in Versions
    <3>1. \A f \in Files : files[job[w]][f] = run.ver
      BY <2>2, ShardsAssumption DEF WorkInv, PartsWritten, Files, Done
    <3> QED
      BY <2>1, <3>1 DEF TypeOK, Hashes, Pure, Runs
  <2>4. \A s \in Shards : markers'[s] = IF s = job[w] THEN files[s] ELSE markers[s]
    BY <2>1, <2>2 DEF TypeOK
  <2>5. Completed \subseteq Shards
    BY DEF Completed
  <2> HIDE DEF Completed
  <2> QED
    BY <2>1, <2>2, <2>3, <2>4, <2>5 DEF MarkerHonest
<1> QED
  BY <1>1, <1>2, <1>3, WhoWrites

\* A marker's hashes stay those of the shard's files, all of one version.
THEOREM MarkersAreHonest == ASSUME ~StartOver PROVE Spec => []MarkerHonest
<1>1. Init => MarkerHonest
  BY DEF Init, MarkerHonest, Completed
<1>2. TypeOK /\ WorkInv /\ UnmarkedInv /\ MarkerHonest /\ [Next]_vars => MarkerHonest'
  BY HonestNext
<1> QED
  BY <1>1, <1>2, TypeCorrect, WorkAlways, UnmarkedAlways, PTL DEF Spec

LEMMA PromiseInit == Init => Promise!Init
BY DEF Init, Promise!Init, Visible

LEMMA PromiseNext ==
  ASSUME ~StartOver, TypeOK, WorkInv, UnmarkedInv, MarkerHonest, WindowInv, [Next]_vars
  PROVE  [Promise!Next]_(Promise!vars)
<1>a. Completed \subseteq Shards
  BY DEF Completed
<1>b. \A s \in Shards : Visible[s] = Absent <=> s \notin Completed
  <2>1. \A s \in Shards : files[s] # Absent
    BY MarkAssumption DEF TypeOK, Hashes
  <2> QED
    BY <2>1 DEF Visible, Completed
<1>1. CASE UNCHANGED <<files, markers>>
  <2>1. Visible' = Visible
    BY <1>1 DEF Visible
  <2>2. CASE complete' = complete
    BY <2>1, <2>2 DEF Promise!vars
  <2>3. CASE complete' # complete
    <3>1. WriteComplete
      BY <2>3
      DEF Next, vars, disk, Command, Writing, StartGenerate, StartCorrelate, Start, Truncate,
          Fill, WriteInstantiation, Estimate, WriteGraphs, Plan, Take, OpenTemp, Replace,
          Publish, Cancel, Failed, ShardsDone, WriteLabels, WriteViews, TruncateManifest,
          WriteManifest, Raise, Crash, WorkerDies, Stopped
    <3>2. complete' = TRUE /\ Bounds(run.ver) \subseteq Completed /\ run.ver \in Versions
      BY <3>1 DEF WriteComplete, WindowInv, TypeOK, Runs, Early
    <3>3. \A s \in Bounds(run.ver) : Visible[s] # Absent
      BY <1>a, <1>b, <3>2
    <3> QED
      BY <2>1, <3>2, <3>3 DEF Promise!Next, Promise!Seal
  <2> QED
    BY <2>2, <2>3
<1>2. ASSUME NEW w \in Workers, Replace(w) PROVE UNCHANGED Promise!vars
  <2>1. job[w] \notin Completed /\ job[w] \in Shards
    BY <1>2 DEF Replace, UnmarkedInv, Skips, TypeOK
  <2>2. \A s \in Completed : files'[s] = files[s]
    BY <1>2, <2>1 DEF Replace, TypeOK, Completed
  <2>3. markers' = markers /\ complete' = complete
    BY <1>2 DEF Replace
  <2>4. Visible' = Visible
    BY <2>2, <2>3 DEF Visible, Completed
  <2> QED
    BY <2>3, <2>4 DEF Promise!vars
<1>3. ASSUME NEW w \in Workers, Publish(w) PROVE Promise!Put(job[w]) /\ job[w] \in Shards
  <2>1. /\ job[w] \in Shards /\ job[w] # NoShard /\ files' = files
        /\ markers' = [markers EXCEPT ![job[w]] = files[job[w]]]
        /\ complete' = complete /\ part[w] = Done
    BY <1>3 DEF Publish, TypeOK
  <2>2. job[w] \notin Completed
    BY <2>1 DEF UnmarkedInv, Skips
  <2>3. files[job[w]] = Pure(run.ver) /\ run.ver \in Versions
    <3>1. \A f \in Files : files[job[w]][f] = run.ver
      BY <2>1, ShardsAssumption DEF WorkInv, PartsWritten, Files, Done
    <3> QED
      BY <2>1, <3>1 DEF TypeOK, Hashes, Pure, Runs
  <2>4. files[job[w]] # Absent
    BY <2>1, MarkAssumption DEF TypeOK, Hashes
  <2>5. Visible' = [Visible EXCEPT ![job[w]] = files[job[w]]]
    BY <2>1, <2>4 DEF Visible, TypeOK
  <2>6. \E whole \in {Pure(v) : v \in Versions} :
          Visible' = [Visible EXCEPT ![job[w]] = whole]
    BY <2>3, <2>5
  <2> QED
    BY <1>b, <2>1, <2>2, <2>6 DEF Promise!Put
<1> QED
  BY <1>1, <1>2, <1>3, WhoWrites DEF Promise!Next

\* When no run starts over, the shards the markers show implement AtomicStore:
\* they appear whole, from one run, and never change.
THEOREM ShardsAreAtomic == ASSUME ~StartOver PROVE Spec => AtomicShards
<1>1. Init => Promise!Init
  BY PromiseInit
<1>2. TypeOK /\ WorkInv /\ UnmarkedInv /\ MarkerHonest /\ WindowInv /\ [Next]_vars
        => [Promise!Next]_(Promise!vars)
  BY PromiseNext
<1>3. Spec => []WindowInv
  BY WindowInit, WindowNext, TypeCorrect, WorkAlways, PTL DEF Spec
<1> QED
  BY <1>1, <1>2, <1>3, TypeCorrect, WorkAlways, UnmarkedAlways, MarkersAreHonest, PTL
  DEF Spec, AtomicShards, Promise!Spec
=============================================================================
