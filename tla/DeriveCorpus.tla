---------------------------- MODULE DeriveCorpus ----------------------------
(***************************************************************************)
(* A derived corpus and its source: `derive`, alone or in a pipeline job   *)
(* that generates (or fetches) the source first.                           *)
(*                                                                         *)
(* The derived corpus holds hard links to the files of its source: what is *)
(* written in place under one name changes under the other, what is        *)
(* written beside and renamed does not.  A file holds the version of the   *)
(* inputs it was made from.  Versions need not have the same files (shards *)
(* of the window, partitions of a view, regimes), and neither command      *)
(* removes what an earlier version left behind.  The files of a shard of   *)
(* the metrics channel are numbered: samples, changes, marker of shard 0,  *)
(* then of shard 1...                                                      *)
(***************************************************************************)
EXTENDS Integers, FiniteSets

CONSTANTS
  Versions, Absent, Torn,
  InPlace,       \* the source's files that commands write in place
  Replaced,      \* those that are written beside and renamed
  Inst,          \* instantiation.json
  GraphFiles,    \* graphs/*: in the source and in the derived corpus, of their own
  Has,           \* Has[v]: the files a source of version v has
  NumShards,
  Shards,        \* Shards[v]: shards of its metrics channel, at most NumShards
  CanLink,       \* whether the file system links; files are copied otherwise
  MaxJobs,       \* bound: pipeline jobs
  MaxFaults      \* bound: crashes

Linkable == InPlace \cup Replaced
Source == Linkable \cup GraphFiles
Content == Versions \cup {Absent, Torn}
Exposed(c) == <<c>>   \* the graphs of c under the derived variant's exposure
DerivedContent == Content \cup {Exposed(c) : c \in Content}
Parts == 0 .. 3 * NumShards - 1
PartsOf(v) == 0 .. 3 * Shards[v] - 1
Marker(n) == 3 * (n \div 3) + 2   \* the marker of part n's shard

ASSUME DeriveAssumption ==
  /\ Inst \in InPlace /\ InPlace \cap Replaced = {} /\ GraphFiles \cap Linkable = {}
  /\ Has \in [Versions -> SUBSET Source] /\ \A v \in Versions : Inst \in Has[v]
  /\ Absent \notin Versions /\ Torn \notin Versions /\ Absent # Torn
  /\ NumShards \in Nat \ {0} /\ Shards \in [Versions -> 1 .. NumShards]
  /\ CanLink \in BOOLEAN
  /\ MaxJobs \in Nat /\ MaxFaults \in Nat

VARIABLES
  src,        \* the source's files
  srcSeen,    \* what the source's manifest lists, or Absent
  srcComplete,
  dst,        \* the files the derived corpus has from its source, and its graphs
  linked,     \* those that are links to the source's
  channel,    \* channel[n]: part n of the metrics channel
  temps,      \* parts with a temporary file beside them
  summary,    \* sampling.json and series.json
  dstSeen,    \* what the derived corpus's manifest lists, or Absent
  complete,   \* whether the derived corpus has COMPLETE
  cmd,        \* the command under way
  jobs, faults

srcVars == <<src, srcSeen, srcComplete>>
ownVars == <<channel, temps, summary, dstSeen, complete>>
vars == <<srcVars, dst, linked, ownVars, cmd, jobs, faults>>

None == [f \in Source |-> Absent]
NoChannel == [n \in Parts |-> Absent]

\* A corpus of v: whatever else it holds was left by other versions.
Made(v, files) == \A f \in Has[v] : files[f] = v
Corpora == {x \in [Source -> Versions \cup {Absent}] : \E v \in Versions : Made(v, x)}
GraphsOf(v) == {f \in GraphFiles : v \in Versions /\ f \in Has[v]}

Listing == [files |-> dst, parts |-> channel, temps |-> temps, summary |-> summary]
SourceVerifies == srcComplete /\ srcSeen = src
Verifies == dstSeen = Listing

Idle == [pc |-> "idle", job |-> FALSE, skip |-> FALSE, resume |-> FALSE, ver |-> Absent,
         todo |-> {}, at |-> 0]

Init ==
  /\ src = None /\ srcSeen = Absent /\ srcComplete = FALSE
  /\ dst = None /\ linked = {}
  /\ channel = NoChannel /\ temps = {} /\ summary = Absent
  /\ dstSeen = Absent /\ complete = FALSE
  /\ cmd = Idle /\ jobs = 0 /\ faults = 0

Running == cmd.pc \notin {"idle", "ok", "failed"}
At(pc) == cmd.pc = pc
Goto(pc) == cmd' = [cmd EXCEPT !.pc = pc]

(***************************************************************************)
(* The pipeline job: the source is generated, or fetched, and verified.    *)
(***************************************************************************)
\* A job with the source's variant generates it, unless it skips what is
\* complete; one without fetches it when it is not there, or fails.
StartJob(v, generates, skip, fetches) ==
  /\ ~Running /\ jobs < MaxJobs
  /\ cmd' = [Idle EXCEPT !.job = TRUE, !.skip = skip, !.ver = v, !.todo = Has[v],
               !.pc = IF generates
                      THEN IF skip /\ srcComplete THEN "verify" ELSE "generate"
                      ELSE IF srcComplete THEN "derive" ELSE IF fetches THEN "fetch" ELSE "failed"]
  /\ jobs' = jobs + 1
  /\ UNCHANGED <<srcVars, dst, linked, ownVars, faults>>

\* One file of the source; a complete source stays marked meanwhile, and what v
\* has no file for stays.
GenerateFile(f) ==
  /\ At("generate") /\ f \in cmd.todo
  /\ src' = [src EXCEPT ![f] = cmd.ver]
  /\ IF f \in Replaced
     THEN linked' = linked \ {f} /\ UNCHANGED dst
     ELSE /\ dst' = IF f \in linked THEN [dst EXCEPT ![f] = cmd.ver] ELSE dst
          /\ UNCHANGED linked
  /\ cmd' = [cmd EXCEPT !.todo = @ \ {f}]
  /\ UNCHANGED <<srcSeen, srcComplete, ownVars, jobs, faults>>

FinishGenerate ==
  /\ At("generate") /\ cmd.todo = {}
  /\ srcSeen' = src /\ srcComplete' = TRUE
  /\ Goto("verify")
  /\ UNCHANGED <<src, dst, linked, ownVars, jobs, faults>>

\* A whole corpus lands in the place of what was there (DatasetHost).
FetchSource(x) ==
  /\ At("fetch")
  /\ src' = x /\ srcSeen' = x /\ srcComplete' = TRUE
  /\ linked' = {}
  /\ Goto("verify")
  /\ UNCHANGED <<dst, ownVars, jobs, faults>>

VerifySource ==
  /\ At("verify")
  /\ Goto(IF srcSeen = src THEN "derive" ELSE "failed")
  /\ UNCHANGED <<srcVars, dst, linked, ownVars, jobs, faults>>

SkipDerive ==
  /\ At("derive") /\ cmd.job /\ cmd.skip /\ complete
  /\ Goto("check")
  /\ UNCHANGED <<srcVars, dst, linked, ownVars, jobs, faults>>

(***************************************************************************)
(* derive.                                                                 *)
(***************************************************************************)
StartDerive(resume) ==
  /\ ~Running
  /\ cmd' = [Idle EXCEPT !.pc = "derive", !.resume = resume]
  /\ UNCHANGED <<srcVars, dst, linked, ownVars, jobs, faults>>

\* Mutant: the graphs are linked like any file.
Validate_Graphs ==
  /\ At("derive") /\ ~(cmd.job /\ cmd.skip /\ complete)
  /\ cmd' = IF SourceVerifies /\ ~complete
            THEN [cmd EXCEPT !.pc = "link", !.todo = {f \in Source : src[f] # Absent}]
            ELSE [cmd EXCEPT !.pc = "failed"]
  /\ UNCHANGED <<srcVars, dst, linked, ownVars, jobs, faults>>

\* validate_source, and the refusal of what is already complete.
Validate ==
  /\ At("derive") /\ ~(cmd.job /\ cmd.skip /\ complete)
  /\ cmd' = IF SourceVerifies /\ ~complete
            THEN [cmd EXCEPT !.pc = "link", !.todo = {f \in Linkable : src[f] # Absent}]
            ELSE [cmd EXCEPT !.pc = "failed"]
  /\ UNCHANGED <<srcVars, dst, linked, ownVars, jobs, faults>>

\* Mutant: a file that is there is kept.
LinkFile_Keep(f) ==
  /\ At("link") /\ f \in cmd.todo
  /\ IF dst[f] # Absent
     THEN UNCHANGED <<dst, linked>>
     ELSE /\ dst' = [dst EXCEPT ![f] = src[f]]
          /\ linked' = IF CanLink THEN linked \cup {f} ELSE linked \ {f}
  /\ cmd' = [cmd EXCEPT !.todo = @ \ {f}]
  /\ UNCHANGED <<srcVars, ownVars, jobs, faults>>

\* link_source walks the files of the source: one that is there alike is kept, any
\* other is unlinked first.  Files the source does not have stay in the derived corpus.
LinkFile(f) ==
  /\ At("link") /\ f \in cmd.todo
  /\ IF dst[f] = src[f]
     THEN UNCHANGED <<dst, linked>>
     ELSE /\ dst' = [dst EXCEPT ![f] = src[f]]
          /\ linked' = IF CanLink THEN linked \cup {f} ELSE linked \ {f}
  /\ cmd' = [cmd EXCEPT !.todo = @ \ {f}]
  /\ UNCHANGED <<srcVars, ownVars, jobs, faults>>

\* The system is instantiated from the corpus: what follows is of its version.
LoadInstantiation ==
  /\ At("link") /\ cmd.todo = {}
  /\ cmd' = [cmd EXCEPT !.pc = "graphs", !.ver = dst[Inst],
                       !.todo = GraphsOf(dst[Inst])]
  /\ UNCHANGED <<srcVars, dst, linked, ownVars, jobs, faults>>

\* Written in place, in the derived corpus: the graphs its version has.
WriteGraph(f) ==
  /\ At("graphs") /\ f \in cmd.todo
  /\ dst' = [dst EXCEPT ![f] = Exposed(cmd.ver)]
  /\ src' = IF f \in linked THEN [src EXCEPT ![f] = Exposed(cmd.ver)] ELSE src
  /\ cmd' = [cmd EXCEPT !.todo = @ \ {f}]
  /\ UNCHANGED <<srcSeen, srcComplete, linked, ownVars, jobs, faults>>

StartChannel ==
  /\ At("graphs") /\ cmd.todo = {}
  /\ cmd' = [cmd EXCEPT !.pc = "flush", !.at = 0]
  /\ UNCHANGED <<srcVars, dst, linked, ownVars, jobs, faults>>

\* Whether a part of the channel is left to pass.
More == At("flush") /\ cmd.at \in PartsOf(cmd.ver)

\* Mutant: a shard is kept for its samples.
KeepsShard_Samples(n) == cmd.resume /\ n % 3 = 0 /\ channel[n] # Absent

\* With --resume a shard whose marker is there is kept.
KeepsShard(n) == cmd.resume /\ n % 3 = 0 /\ channel[Marker(n)] # Absent

KeepShard ==
  /\ More /\ KeepsShard(cmd.at)
  /\ cmd' = [cmd EXCEPT !.at = @ + 3]
  /\ UNCHANGED <<srcVars, dst, linked, ownVars, jobs, faults>>

WriteTemp ==
  /\ More /\ ~KeepsShard(cmd.at)
  /\ temps' = temps \cup {cmd.at}
  /\ Goto("rename")
  /\ UNCHANGED <<srcVars, dst, linked, channel, summary, dstSeen, complete, jobs, faults>>

RenamePart ==
  /\ At("rename")
  /\ channel' = [channel EXCEPT ![cmd.at] = cmd.ver]
  /\ temps' = temps \ {cmd.at}
  /\ cmd' = [cmd EXCEPT !.pc = "flush", !.at = @ + 1]
  /\ UNCHANGED <<srcVars, dst, linked, summary, dstSeen, complete, jobs, faults>>

WriteSummary ==
  /\ At("flush") /\ ~More
  /\ summary' = cmd.ver
  /\ Goto("manifest")
  /\ UNCHANGED <<srcVars, dst, linked, channel, temps, dstSeen, complete, jobs, faults>>

\* Mutant: the manifest of an earlier derivation is kept.
WriteManifest_Keep ==
  /\ At("manifest")
  /\ dstSeen' = IF dstSeen = Absent THEN Listing ELSE dstSeen
  /\ Goto("complete")
  /\ UNCHANGED <<srcVars, dst, linked, channel, temps, summary, complete, jobs, faults>>

WriteManifest ==
  /\ At("manifest")
  /\ dstSeen' = Listing
  /\ Goto("complete")
  /\ UNCHANGED <<srcVars, dst, linked, channel, temps, summary, complete, jobs, faults>>

\* A job goes on to verify the corpus; `derive` ends.
WriteComplete ==
  /\ At("complete")
  /\ complete' = TRUE
  /\ Goto(IF cmd.job THEN "check" ELSE "ok")
  /\ UNCHANGED <<srcVars, dst, linked, channel, temps, summary, dstSeen, jobs, faults>>

CheckDerived ==
  /\ At("check")
  /\ Goto(IF Verifies THEN "ok" ELSE "failed")
  /\ UNCHANGED <<srcVars, dst, linked, ownVars, jobs, faults>>

\* Killed: a file being written in place, or copied, is left torn.
Crash ==
  /\ Running /\ faults < MaxFaults
  /\ \/ UNCHANGED <<srcVars, dst, linked, summary, dstSeen>>
     \/ /\ At("link") /\ ~CanLink
        /\ \E f \in cmd.todo : /\ dst[f] # src[f]
                               /\ dst' = [dst EXCEPT ![f] = Torn] /\ linked' = linked \ {f}
        /\ UNCHANGED <<srcVars, summary, dstSeen>>
     \/ /\ At("generate")
        /\ \E f \in cmd.todo \ Replaced :
             /\ src' = [src EXCEPT ![f] = Torn]
             /\ dst' = IF f \in linked THEN [dst EXCEPT ![f] = Torn] ELSE dst
        /\ UNCHANGED <<srcSeen, srcComplete, linked, summary, dstSeen>>
     \/ /\ At("graphs")
        /\ \E f \in cmd.todo :
             /\ dst' = [dst EXCEPT ![f] = Torn]
             /\ src' = IF f \in linked THEN [src EXCEPT ![f] = Torn] ELSE src
        /\ UNCHANGED <<srcSeen, srcComplete, linked, summary, dstSeen>>
     \/ /\ At("flush") /\ ~More /\ summary' = Torn
        /\ UNCHANGED <<srcVars, dst, linked, dstSeen>>
     \/ /\ At("manifest") /\ dstSeen' = Torn
        /\ UNCHANGED <<srcVars, dst, linked, summary>>
  /\ Goto("failed")
  /\ faults' = faults + 1
  /\ UNCHANGED <<channel, temps, complete, jobs>>

JobStep ==
  \/ \E v \in Versions, generates, skip, fetches \in BOOLEAN : StartJob(v, generates, skip, fetches)
  \/ \E f \in Source : GenerateFile(f)
  \/ FinishGenerate
  \/ \E x \in Corpora : FetchSource(x)
  \/ VerifySource
  \/ SkipDerive
  \/ CheckDerived

DeriveStep ==
  \/ \E resume \in BOOLEAN : StartDerive(resume)
  \/ Validate
  \/ \E f \in Source : LinkFile(f)
  \/ LoadInstantiation
  \/ \E f \in GraphFiles : WriteGraph(f)
  \/ StartChannel
  \/ KeepShard
  \/ WriteTemp
  \/ RenamePart
  \/ WriteSummary
  \/ WriteManifest
  \/ WriteComplete

Next == JobStep \/ DeriveStep \/ Crash

Spec == Init /\ [][Next]_vars

(***************************************************************************)
(* The properties.                                                         *)
(***************************************************************************)
Pcs == {"idle", "generate", "fetch", "verify", "derive", "link", "graphs", "flush", "rename",
        "manifest", "complete", "check", "ok", "failed"}

Listings == [files : [Source -> DerivedContent], parts : [Parts -> Content],
             temps : SUBSET Parts, summary : Content]

TypeOK ==
  /\ src \in [Source -> Content] /\ srcSeen \in [Source -> Content] \cup {Absent}
  /\ srcComplete \in BOOLEAN
  /\ dst \in [Source -> DerivedContent] /\ \A f \in Linkable : dst[f] \in Content
  /\ linked \subseteq Linkable
  /\ channel \in [Parts -> Content] /\ temps \subseteq Parts /\ summary \in Content
  /\ dstSeen \in Listings \cup {Absent, Torn} /\ complete \in BOOLEAN
  /\ cmd \in [pc : Pcs, job : BOOLEAN, skip : BOOLEAN, resume : BOOLEAN,
              ver : Content, todo : SUBSET Source, at : 0 .. 3 * NumShards]
  /\ jobs \in 0 .. MaxJobs /\ faults \in 0 .. MaxFaults

\* The source is as derive found it: derive writes only files of its own,
\* although most of the derived corpus is shared with the source.
SourceKept == [][DeriveStep => UNCHANGED src]_vars

\* Every file a derived corpus of v has was made from v.
OfVersion(v) ==
  /\ \A f \in Has[v] : dst[f] = IF f \in GraphFiles THEN Exposed(v) ELSE v
  /\ summary = v /\ \A n \in PartsOf(v) : channel[n] = v

\* It has the files of its source, and of its own no others.
NothingElse(v) ==
  /\ \A f \in Linkable : dst[f] = src[f]
  /\ \A f \in GraphFiles \ Has[v] : dst[f] = Absent
  /\ \A n \in Parts \ PartsOf(v) : channel[n] = Absent

\* A derivation that does not resume is complete only when every file of its version
\* is there and was made from it, no temporary file is left beside one, and every file
\* of the source is there as it is in the source, whatever crashed, and whatever the
\* source was, before it.  What else there is, earlier versions left.
DerivedOnceIsFresh ==
  [][~complete /\ complete' /\ ~cmd.resume =>
       /\ \E v \in Versions : OfVersion(v) /\ temps \cap PartsOf(v) = {}
       /\ \A f \in Linkable : src[f] # Absent => dst[f] = src[f]
       /\ Verifies]_vars

\* One that resumes gives the same files, and no others, while the source stays what
\* it was.
ResumedIsPure ==
  [][~complete /\ complete' /\ jobs <= 1 =>
       (\E v \in Versions : OfVersion(v) /\ NothingElse(v)) /\ Verifies]_vars

\* A marker of the channel means the files of its shard, after any crash.
MarkedShardIsThere == \A n \in Parts : channel[Marker(n)] # Absent => channel[n] # Absent

\* A complete derived corpus stops verifying only through a file it shares.
OnlySharedFilesChange ==
  complete =>
    /\ dstSeen \in Listings
    /\ (\A f \in linked \cap InPlace : dst[f] = dstSeen.files[f]) => Verifies

\* "The derived corpus is complete on its own: it verifies against its own
\* manifest."
DerivedVerifies == complete => Verifies
=============================================================================
