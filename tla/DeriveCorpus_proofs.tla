------------------------- MODULE DeriveCorpus_proofs -------------------------
(***************************************************************************)
(* Theorems about DeriveCorpus, for any files, versions, shards, jobs and  *)
(* crashes, on a file system that links and on one that does not.          *)
(***************************************************************************)
EXTENDS DeriveCorpus, TLAPS

(***************************************************************************)
(* Types.                                                                  *)
(***************************************************************************)
CmdType == [pc : Pcs, job : BOOLEAN, skip : BOOLEAN, resume : BOOLEAN,
            ver : Content, todo : SUBSET Source, at : 0 .. 3 * NumShards]

LEMMA ContentFacts ==
  /\ Versions \subseteq Content /\ Absent \in Content /\ Torn \in Content
  /\ Content \subseteq DerivedContent
  /\ \A c \in Content : Exposed(c) \in DerivedContent
BY DEF Content, DerivedContent

LEMMA SourceFacts ==
  /\ Inst \in Linkable /\ Linkable \subseteq Source /\ GraphFiles \subseteq Source
  /\ GraphFiles \cap Linkable = {}
  /\ InPlace \subseteq Linkable /\ Replaced \subseteq Linkable
  /\ \A f \in Linkable : f \in InPlace \/ f \in Replaced
  /\ \A f \in Source : f \in Linkable \/ f \in GraphFiles
  /\ \A v \in Versions : Inst \in Has[v] /\ Has[v] \subseteq Source
BY DeriveAssumption DEF Source, Linkable

\* Parts are whole shards of three.
LEMMA PartFacts ==
  ASSUME NEW n \in Parts
  PROVE  /\ Marker(n) \in Parts /\ n + 1 \in 0 .. 3 * NumShards
         /\ n % 3 = 0 => n + 3 \in 0 .. 3 * NumShards
BY DeriveAssumption DEF Parts, Marker

LEMMA PartsOfFacts ==
  ASSUME NEW v \in Versions
  PROVE  PartsOf(v) \subseteq Parts
<1>1. Shards[v] \in Int /\ Shards[v] <= NumShards /\ NumShards \in Int
  BY DeriveAssumption
<1> QED
  BY <1>1 DEF Parts, PartsOf

LEMMA CmdSteps ==
  ASSUME NEW c \in CmdType
  PROVE  /\ \A p \in Pcs : [c EXCEPT !.pc = p] \in CmdType
         /\ \A p \in Pcs, T \in SUBSET Source : [c EXCEPT !.pc = p, !.todo = T] \in CmdType
         /\ \A T \in SUBSET Source : [c EXCEPT !.todo = T] \in CmdType
         /\ \A p \in Pcs, v \in Content, T \in SUBSET Source :
              [c EXCEPT !.pc = p, !.ver = v, !.todo = T] \in CmdType
         /\ \A p \in Pcs, n \in 0 .. 3 * NumShards : [c EXCEPT !.pc = p, !.at = n] \in CmdType
         /\ \A n \in 0 .. 3 * NumShards : [c EXCEPT !.at = n] \in CmdType
BY DEF CmdType

LEMMA IdleType == Idle \in CmdType
BY DeriveAssumption DEF Idle, CmdType, Pcs, Content

LEMMA ListingType ==
  ASSUME TypeOK
  PROVE  Listing \in Listings
BY DEF TypeOK, Listing, Listings

LEMMA DeriveTypeInit == Init => TypeOK
<1> SUFFICES ASSUME Init PROVE TypeOK
  OBVIOUS
<1>1. jobs \in 0 .. MaxJobs /\ faults \in 0 .. MaxFaults
  BY DeriveAssumption DEF Init
<1>2. None \in [Source -> Content] /\ None \in [Source -> DerivedContent]
      /\ NoChannel \in [Parts -> Content]
  BY ContentFacts DEF None, NoChannel
<1> QED
  BY <1>1, <1>2, IdleType, ContentFacts, SourceFacts DEF Init, TypeOK, CmdType, None

\* The steps of a job.
LEMMA JobTyped ==
  ASSUME TypeOK, JobStep
  PROVE  TypeOK'
<1>0. cmd \in CmdType
  BY DEF TypeOK, CmdType
<1>1. ASSUME NEW v \in Versions, NEW generates \in BOOLEAN, NEW skip \in BOOLEAN,
             NEW fetches \in BOOLEAN, StartJob(v, generates, skip, fetches)
      PROVE  TypeOK'
  <2>1. cmd' \in CmdType
    BY <1>1, IdleType, ContentFacts, SourceFacts DEF StartJob, CmdType, Pcs
  <2>2. jobs' \in 0 .. MaxJobs
    BY <1>1, DeriveAssumption DEF StartJob, TypeOK
  <2> QED
    BY <1>1, <2>1, <2>2 DEF StartJob, TypeOK, CmdType, srcVars, ownVars
<1>2. ASSUME NEW f \in Source, GenerateFile(f)
      PROVE  TypeOK'
  <2>1. cmd' \in CmdType
    <3>1. cmd.todo \ {f} \in SUBSET Source
      BY <1>0 DEF CmdType
    <3> QED
      BY <1>0, <1>2, <3>1, CmdSteps DEF GenerateFile
  <2>2. cmd.ver \in Content /\ cmd.ver \in DerivedContent
    BY <1>0, ContentFacts DEF CmdType
  <2>3. src' \in [Source -> Content]
    BY <1>2, <2>2 DEF GenerateFile, TypeOK
  <2>4. dst' \in [Source -> DerivedContent] /\ \A g \in Linkable : dst'[g] \in Content
    BY <1>2, <2>2, SourceFacts DEF GenerateFile, TypeOK
  <2>5. linked' \subseteq Linkable
    BY <1>2 DEF GenerateFile, TypeOK
  <2> QED
    BY <1>2, <2>1, <2>3, <2>4, <2>5 DEF GenerateFile, TypeOK, CmdType, ownVars
<1>3. CASE FinishGenerate
  <2>1. cmd' \in CmdType
    BY <1>0, <1>3, CmdSteps DEF FinishGenerate, Goto, Pcs
  <2> QED
    BY <1>3, <2>1 DEF FinishGenerate, TypeOK, CmdType, ownVars
<1>4. ASSUME NEW x \in Corpora, FetchSource(x)
      PROVE  TypeOK'
  <2>1. cmd' \in CmdType
    BY <1>0, <1>4, CmdSteps DEF FetchSource, Goto, Pcs
  <2>2. x \in [Source -> Content]
    BY <1>4, ContentFacts DEF Corpora
  <2> QED
    BY <1>4, <2>1, <2>2 DEF FetchSource, TypeOK, CmdType, ownVars
<1>5. CASE VerifySource \/ SkipDerive \/ CheckDerived
  <2>1. cmd' \in CmdType
    BY <1>0, <1>5, CmdSteps DEF VerifySource, SkipDerive, CheckDerived, Goto, Pcs
  <2> QED
    BY <1>5, <2>1 DEF VerifySource, SkipDerive, CheckDerived, TypeOK, CmdType, srcVars, ownVars
<1> QED
  BY <1>1, <1>2, <1>3, <1>4, <1>5 DEF JobStep

\* The part under way is one of the channel's.
AtPart == At("rename") => cmd.at \in PartsOf(cmd.ver)

\* The graphs are never linked.
GraphsApart == At("link") => cmd.todo \subseteq Linkable

LEMMA GraphsStayApart ==
  ASSUME TypeOK, GraphsApart, [Next]_vars
  PROVE  GraphsApart'
<1> USE DEF GraphsApart, At
<1>0. cmd \in CmdType
  BY DEF TypeOK, CmdType
<1>1. CASE Validate
  BY <1>0, <1>1 DEF Validate, CmdType
<1>2. ASSUME NEW f \in Source, LinkFile(f)
      PROVE  GraphsApart'
  BY <1>0, <1>2 DEF LinkFile, CmdType
<1>3. CASE JobStep
  <2>1. ASSUME NEW v \in Versions, NEW generates \in BOOLEAN, NEW skip \in BOOLEAN,
               NEW fetches \in BOOLEAN, StartJob(v, generates, skip, fetches)
        PROVE  GraphsApart'
    BY <2>1 DEF StartJob, Idle
  <2>2. ASSUME NEW f \in Source, GenerateFile(f)
        PROVE  GraphsApart'
    BY <1>0, <2>2 DEF GenerateFile, CmdType
  <2>3. CASE FinishGenerate \/ VerifySource \/ SkipDerive \/ CheckDerived
    BY <1>0, <2>3 DEF FinishGenerate, VerifySource, SkipDerive, CheckDerived, Goto, CmdType
  <2>4. ASSUME NEW x \in Corpora, FetchSource(x)
        PROVE  GraphsApart'
    BY <1>0, <2>4 DEF FetchSource, Goto, CmdType
  <2> QED
    BY <1>3, <2>1, <2>2, <2>3, <2>4 DEF JobStep
<1>4. CASE LoadInstantiation \/ StartChannel \/ KeepShard \/ WriteTemp \/ RenamePart
           \/ WriteSummary \/ WriteManifest \/ WriteComplete \/ Crash
  BY <1>0, <1>4 DEF LoadInstantiation, StartChannel, More, KeepShard, WriteTemp, RenamePart,
     WriteSummary, WriteManifest, WriteComplete, Crash, Goto, CmdType
<1>5. ASSUME NEW resume \in BOOLEAN, StartDerive(resume)
      PROVE  GraphsApart'
  BY <1>0, <1>5 DEF StartDerive, CmdType, Idle
<1>6. CASE UNCHANGED vars
  BY <1>6 DEF vars
<1>7. ASSUME NEW f \in GraphFiles, WriteGraph(f)
      PROVE  GraphsApart'
  BY <1>0, <1>7 DEF WriteGraph, CmdType
<1> QED
  BY <1>1, <1>2, <1>3, <1>4, <1>5, <1>6, <1>7 DEF Next, DeriveStep

LEMMA AtPartStays ==
  ASSUME TypeOK, AtPart, [Next]_vars
  PROVE  AtPart'
<1> USE DEF AtPart, At
<1>0. cmd \in CmdType
  BY DEF TypeOK, CmdType
<1>1. CASE WriteTemp
  BY <1>0, <1>1 DEF WriteTemp, More, Goto, CmdType
<1>2. CASE JobStep
  <2>1. ASSUME NEW v \in Versions, NEW generates \in BOOLEAN, NEW skip \in BOOLEAN,
               NEW fetches \in BOOLEAN, StartJob(v, generates, skip, fetches)
        PROVE  AtPart'
    BY <2>1 DEF StartJob, Idle
  <2>2. ASSUME NEW f \in Source, GenerateFile(f)
        PROVE  AtPart'
    BY <1>0, <2>2 DEF GenerateFile, CmdType
  <2>3. CASE FinishGenerate \/ VerifySource \/ SkipDerive \/ CheckDerived
    BY <1>0, <2>3 DEF FinishGenerate, VerifySource, SkipDerive, CheckDerived, Goto, CmdType
  <2>4. ASSUME NEW x \in Corpora, FetchSource(x)
        PROVE  AtPart'
    BY <1>0, <2>4 DEF FetchSource, Goto, CmdType
  <2> QED
    BY <1>2, <2>1, <2>2, <2>3, <2>4 DEF JobStep
<1>3. CASE Validate \/ LoadInstantiation \/ StartChannel \/ KeepShard \/ RenamePart
           \/ WriteSummary \/ WriteManifest \/ WriteComplete \/ Crash
  BY <1>0, <1>3 DEF Validate, LoadInstantiation, StartChannel, More, KeepShard, RenamePart,
     WriteSummary, WriteManifest, WriteComplete, Crash, Goto, CmdType
<1>4. ASSUME NEW f \in Source, LinkFile(f)
      PROVE  AtPart'
  BY <1>0, <1>4 DEF LinkFile, CmdType
<1>5. ASSUME NEW resume \in BOOLEAN, StartDerive(resume)
      PROVE  AtPart'
  BY <1>0, <1>5 DEF StartDerive, CmdType, Idle
<1>6. CASE UNCHANGED vars
  BY <1>6 DEF vars
<1>7. ASSUME NEW f \in GraphFiles, WriteGraph(f)
      PROVE  AtPart'
  BY <1>0, <1>7 DEF WriteGraph, CmdType
<1> QED
  BY <1>1, <1>2, <1>3, <1>4, <1>5, <1>6, <1>7 DEF Next, DeriveStep

\* What is written after the instantiation is loaded is of a version.
Loaded == cmd.pc \in {"graphs", "flush", "rename", "manifest", "complete"}
OfAVersion == Loaded => cmd.ver \in Versions

\* The steps of derive.
LEMMA DeriveTyped ==
  ASSUME TypeOK, GraphsApart, AtPart, OfAVersion, DeriveStep
  PROVE  TypeOK'
<1>0. cmd \in CmdType
  BY DEF TypeOK, CmdType
<1>1. ASSUME NEW resume \in BOOLEAN, StartDerive(resume)
      PROVE  TypeOK'
  <2>1. cmd' \in CmdType
    BY <1>1, IdleType, ContentFacts DEF StartDerive, CmdType, Pcs
  <2> QED
    BY <1>1, <2>1 DEF StartDerive, TypeOK, CmdType, srcVars, ownVars
<1>2. CASE Validate
  <2>1. {f \in Linkable : src[f] # Absent} \in SUBSET Source
    BY SourceFacts
  <2>2. cmd' \in CmdType
    BY <1>0, <1>2, <2>1, CmdSteps DEF Validate, Pcs
  <2> QED
    BY <1>2, <2>2 DEF Validate, TypeOK, CmdType, srcVars, ownVars
<1>3. ASSUME NEW f \in Source, LinkFile(f)
      PROVE  TypeOK'
  <2>1. cmd' \in CmdType
    <3>1. cmd.todo \ {f} \in SUBSET Source
      BY <1>0 DEF CmdType
    <3> QED
      BY <1>0, <1>3, <3>1, CmdSteps DEF LinkFile
  <2>2. src[f] \in Content /\ src[f] \in DerivedContent
    BY ContentFacts DEF TypeOK
  <2>3. dst' \in [Source -> DerivedContent] /\ \A g \in Linkable : dst'[g] \in Content
    BY <1>3, <2>2, SourceFacts DEF LinkFile, TypeOK
  <2>4. linked' \subseteq Linkable
    BY <1>3 DEF LinkFile, TypeOK, GraphsApart
  <2> QED
    BY <1>3, <2>1, <2>3, <2>4 DEF LinkFile, TypeOK, CmdType, srcVars, ownVars
<1>4. CASE LoadInstantiation
  <2>1. dst[Inst] \in Content
    BY SourceFacts DEF TypeOK
  <2>2. cmd' \in CmdType
    <3>1. GraphsOf(dst[Inst]) \in SUBSET Source
      BY SourceFacts DEF GraphsOf
    <3> QED
      BY <1>0, <1>4, <2>1, <3>1, CmdSteps DEF LoadInstantiation, Pcs
  <2> QED
    BY <1>4, <2>2 DEF LoadInstantiation, TypeOK, CmdType, srcVars, ownVars
<1>5. ASSUME NEW f \in GraphFiles, WriteGraph(f)
      PROVE  TypeOK'
  <2>1. cmd.ver \in Content /\ Exposed(cmd.ver) \in DerivedContent
    BY <1>0, ContentFacts DEF CmdType
  <2>2. cmd' \in CmdType
    <3>1. cmd.todo \ {f} \in SUBSET Source
      BY <1>0 DEF CmdType
    <3> QED
      BY <1>0, <1>5, <3>1, CmdSteps DEF WriteGraph
  <2>3. f \in Source /\ f \notin Linkable
    BY SourceFacts
  <2>4. dst' \in [Source -> DerivedContent] /\ \A g \in Linkable : dst'[g] \in Content
    BY <1>5, <2>1, <2>3, SourceFacts DEF WriteGraph, TypeOK
  <2>5. src' = src
    BY <1>5, <2>3 DEF WriteGraph, TypeOK
  <2> QED
    BY <1>5, <2>2, <2>4, <2>5 DEF WriteGraph, TypeOK, CmdType, ownVars
<1>12. CASE StartChannel
  <2>1. cmd' \in CmdType
    <3>1. 0 \in 0 .. 3 * NumShards /\ "flush" \in Pcs
      BY DeriveAssumption DEF Pcs
    <3> QED
      BY <1>0, <1>12, <3>1, CmdSteps DEF StartChannel
  <2> QED
    BY <1>12, <2>1 DEF StartChannel, TypeOK, CmdType, srcVars, ownVars
<1>6. CASE KeepShard
  <2>1. cmd.at + 3 \in 0 .. 3 * NumShards
    <3>1. cmd.at \in Parts
      BY <1>6, PartsOfFacts DEF KeepShard, More, OfAVersion, Loaded, At
    <3> QED
      BY <1>6, <3>1, PartFacts DEF KeepShard, KeepsShard
  <2>2. cmd' \in CmdType
    BY <1>0, <1>6, <2>1, CmdSteps DEF KeepShard
  <2> QED
    BY <1>6, <2>2 DEF KeepShard, TypeOK, CmdType, srcVars, ownVars
<1>7. CASE WriteTemp
  <2>1. cmd' \in CmdType
    BY <1>0, <1>7, CmdSteps DEF WriteTemp, Goto, Pcs
  <2> QED
    BY <1>7, <2>1, PartsOfFacts DEF WriteTemp, More, OfAVersion, Loaded, At, TypeOK, CmdType, srcVars
<1>8. CASE RenamePart
  <2>1. cmd.at \in Parts /\ cmd.at + 1 \in 0 .. 3 * NumShards
    BY <1>8, PartFacts, PartsOfFacts DEF RenamePart, AtPart, OfAVersion, Loaded, At
  <2>2. cmd' \in CmdType
    BY <1>0, <1>8, <2>1, CmdSteps DEF RenamePart, Pcs
  <2>3. cmd.ver \in Content
    BY <1>0 DEF CmdType
  <2> QED
    BY <1>8, <2>1, <2>2, <2>3 DEF RenamePart, TypeOK, CmdType, srcVars
<1>9. CASE WriteSummary
  <2>1. cmd' \in CmdType
    BY <1>0, <1>9, CmdSteps DEF WriteSummary, Goto, Pcs
  <2>2. cmd.ver \in Content
    BY <1>0 DEF CmdType
  <2> QED
    BY <1>9, <2>1, <2>2 DEF WriteSummary, TypeOK, CmdType, srcVars
<1>10. CASE WriteManifest
  <2>1. cmd' \in CmdType
    BY <1>0, <1>10, CmdSteps DEF WriteManifest, Goto, Pcs
  <2> QED
    BY <1>10, <2>1, ListingType DEF WriteManifest, TypeOK, CmdType, srcVars
<1>11. CASE WriteComplete
  <2>1. cmd' \in CmdType
    BY <1>0, <1>11, CmdSteps DEF WriteComplete, Goto, Pcs
  <2> QED
    BY <1>11, <2>1 DEF WriteComplete, TypeOK, CmdType, srcVars
<1> QED
  BY <1>1, <1>2, <1>3, <1>4, <1>5, <1>6, <1>7, <1>8, <1>9, <1>10, <1>11, <1>12 DEF DeriveStep

LEMMA CrashTyped ==
  ASSUME TypeOK, Crash
  PROVE  TypeOK'
<1>0. cmd \in CmdType
  BY DEF TypeOK, CmdType
<1>1. cmd' \in CmdType
  BY <1>0, CmdSteps DEF Crash, Goto, Pcs
<1>2. faults' \in 0 .. MaxFaults
  BY DeriveAssumption DEF Crash, TypeOK
<1>3. src' \in [Source -> Content]
  BY ContentFacts DEF Crash, TypeOK, srcVars
<1>4. dst' \in [Source -> DerivedContent] /\ \A g \in Linkable : dst'[g] \in Content
  BY ContentFacts, SourceFacts DEF Crash, TypeOK
<1>5. linked' \subseteq Linkable
  BY DEF Crash, TypeOK
<1>6. summary' \in Content /\ dstSeen' \in Listings \cup {Absent, Torn}
  BY ContentFacts DEF Crash, TypeOK
<1>7. srcSeen' = srcSeen /\ srcComplete' = srcComplete
  BY DEF Crash, srcVars
<1> QED
  BY <1>1, <1>2, <1>3, <1>4, <1>5, <1>6, <1>7 DEF Crash, TypeOK, CmdType


(***************************************************************************)
(* The invariant.                                                          *)
(***************************************************************************)
\* The source: what it was complete with has every file of one version, a fetch
\* never replaces a complete source, a generation knows what it has written.
SourceInv ==
  /\ srcComplete => \E v \in Versions : Made(v, srcSeen)
  /\ complete => srcComplete
  /\ At("fetch") => ~srcComplete
  /\ At("generate") => cmd.ver \in Versions /\ \A f \in Has[cmd.ver] \ cmd.todo : src[f] = cmd.ver

\* The files derive has linked are the source's, which has every file of a version;
\* what it has yet to link the source has.
FilesInv ==
  /\ OfAVersion
  /\ At("link") \/ Loaded => srcComplete /\ srcSeen = src /\ ~complete
  /\ At("link") => /\ \A f \in cmd.todo : src[f] # Absent
                   /\ \A f \in Linkable : f \in cmd.todo \/ src[f] = Absent \/ dst[f] = src[f]
  /\ Loaded => Made(cmd.ver, src) /\ \A f \in Linkable : src[f] # Absent => dst[f] = src[f]
  /\ At("graphs") => cmd.todo \subseteq GraphsOf(cmd.ver)
  /\ Loaded => \A f \in GraphsOf(cmd.ver) :
                 (At("graphs") /\ f \in cmd.todo) \/ dst[f] = Exposed(cmd.ver)

\* The parts of the channel that derive has passed.
Flushing == cmd.pc \in {"flush", "rename"}
ChannelInv ==
  /\ Flushing => \A k \in Parts : k < cmd.at => channel[k] # Absent
  /\ Flushing /\ ~cmd.resume => \A k \in Parts : k < cmd.at => channel[k] = cmd.ver /\ k \notin temps
  /\ At("manifest") \/ At("complete") => summary = cmd.ver
  /\ (At("manifest") \/ At("complete")) /\ ~cmd.resume =>
       \A k \in PartsOf(cmd.ver) : channel[k] = cmd.ver /\ k \notin temps
  /\ At("complete") => dstSeen = Listing

\* What a complete derived corpus does not share is as listed.
SharedInv ==
  complete =>
    /\ dstSeen \in Listings
    /\ dstSeen.parts = channel /\ dstSeen.temps = temps /\ dstSeen.summary = summary
    /\ \A f \in Source : f \notin linked \cap InPlace => dst[f] = dstSeen.files[f]

DeriveInv ==
  TypeOK /\ GraphsApart /\ AtPart /\ SourceInv /\ FilesInv /\ ChannelInv /\ MarkedShardIsThere
  /\ SharedInv

LEMMA DeriveInvInit == Init => DeriveInv
<1> SUFFICES ASSUME Init PROVE DeriveInv
  OBVIOUS
<1>1. TypeOK
  BY DeriveTypeInit
<1>2. cmd.pc = "idle"
  BY DEF Init, Idle
<1>3. MarkedShardIsThere
  BY PartFacts DEF Init, NoChannel, MarkedShardIsThere
<1>4. SourceInv /\ SharedInv
  BY <1>2 DEF Init, SourceInv, SharedInv, At
<1> QED
  BY <1>1, <1>2, <1>3, <1>4 DEF DeriveInv, GraphsApart, AtPart, OfAVersion, FilesInv, ChannelInv, At, Loaded, Flushing

LEMMA SourceInvStep ==
  ASSUME DeriveInv, [Next]_vars
  PROVE  SourceInv'
<1>0. TypeOK /\ SourceInv /\ FilesInv /\ cmd \in CmdType
  BY DEF DeriveInv, TypeOK, CmdType
<1> USE DEF SourceInv, At
<1>1. ASSUME NEW v \in Versions, NEW generates \in BOOLEAN, NEW skip \in BOOLEAN,
             NEW fetches \in BOOLEAN, StartJob(v, generates, skip, fetches)
      PROVE  SourceInv'
  BY <1>0, <1>1 DEF StartJob, Idle, srcVars, ownVars
<1>2. ASSUME NEW f \in Source, GenerateFile(f)
      PROVE  SourceInv'
  <2>1. \A g \in Has[cmd.ver] \ cmd'.todo : src'[g] = cmd.ver
    BY SourceFacts, <1>0, <1>2 DEF GenerateFile, CmdType, TypeOK
  <2>2. cmd'.pc = cmd.pc /\ cmd'.ver = cmd.ver
    BY <1>0, <1>2 DEF GenerateFile, CmdType
  <2> QED
    BY <1>0, <1>2, <2>1, <2>2 DEF GenerateFile, ownVars
<1>3. CASE FinishGenerate
  <2>1. Made(cmd.ver, src) /\ cmd.ver \in Versions
    BY <1>0, <1>3 DEF FinishGenerate, Made
  <2>2. cmd'.pc = "verify"
    BY <1>0, <1>3 DEF FinishGenerate, Goto, CmdType
  <2> QED
    BY <1>0, <1>3, <2>1, <2>2 DEF FinishGenerate, ownVars
<1>4. ASSUME NEW x \in Corpora, FetchSource(x)
      PROVE  SourceInv'
  <2>1. cmd'.pc = "verify"
    BY <1>0, <1>4 DEF FetchSource, Goto, CmdType
  <2> QED
    BY <1>0, <1>4, <2>1 DEF FetchSource, Corpora, ownVars
<1>5. ASSUME UNCHANGED <<srcSeen, srcComplete, complete>>, cmd'.pc \notin {"fetch", "generate"}
      PROVE  SourceInv'
  BY <1>0, <1>5
<1>6. CASE VerifySource \/ SkipDerive \/ CheckDerived
  BY <1>0, <1>5, <1>6 DEF VerifySource, SkipDerive, CheckDerived, Goto, CmdType, srcVars, ownVars
<1>7. ASSUME NEW resume \in BOOLEAN, StartDerive(resume)
      PROVE  SourceInv'
  BY <1>0, <1>5, <1>7 DEF StartDerive, Idle, srcVars, ownVars
<1>14. ASSUME NEW f \in GraphFiles, WriteGraph(f)
       PROVE  SourceInv'
  BY <1>0, <1>5, <1>14 DEF WriteGraph, CmdType, ownVars
<1>8. CASE Validate \/ LoadInstantiation \/ StartChannel \/ KeepShard
  BY <1>0, <1>5, <1>8 DEF Validate, LoadInstantiation, StartChannel, KeepShard, More, Goto, CmdType,
     srcVars, ownVars
<1>9. ASSUME NEW f \in Source, LinkFile(f)
      PROVE  SourceInv'
  BY <1>0, <1>5, <1>9 DEF LinkFile, CmdType, srcVars, ownVars
<1>10. CASE WriteTemp \/ RenamePart \/ WriteSummary \/ WriteManifest
  BY <1>0, <1>5, <1>10 DEF WriteTemp, More, RenamePart, WriteSummary, WriteManifest, Goto, CmdType,
     srcVars
<1>11. CASE WriteComplete
  <2>1. srcComplete
    BY <1>0, <1>11 DEF FilesInv, Loaded, WriteComplete
  <2>2. cmd'.pc \notin {"fetch", "generate"}
    BY <1>0, <1>11 DEF WriteComplete, Goto, CmdType
  <2> QED
    BY <1>0, <1>11, <2>1, <2>2 DEF WriteComplete, srcVars
<1>12. CASE Crash
  <2>1. cmd'.pc = "failed"
    BY <1>0, <1>12 DEF Crash, Goto, CmdType
  <2>2. UNCHANGED <<srcSeen, srcComplete, complete>>
    BY <1>12 DEF Crash, srcVars
  <2> QED
    BY <1>5, <2>1, <2>2
<1>13. CASE UNCHANGED vars
  BY <1>0, <1>13 DEF vars, srcVars, ownVars
<1> QED
  BY <1>1, <1>2, <1>3, <1>4, <1>6, <1>7, <1>8, <1>9, <1>10, <1>11, <1>12, <1>13, <1>14
  DEF Next, JobStep, DeriveStep

LEMMA FilesInvStep ==
  ASSUME DeriveInv, [Next]_vars
  PROVE  FilesInv'
<1>0. TypeOK /\ SourceInv /\ FilesInv /\ GraphsApart /\ cmd \in CmdType
  BY DEF DeriveInv, TypeOK, CmdType
<1> USE DEF FilesInv, OfAVersion, At, Loaded
<1> DEFINE Elsewhere == {"idle", "generate", "fetch", "verify", "derive", "check", "ok", "failed"}
<1>1. ASSUME cmd'.pc \in Elsewhere
      PROVE  FilesInv'
  BY <1>1
<1>2. CASE JobStep
  <2>1. ASSUME NEW v \in Versions, NEW generates \in BOOLEAN, NEW skip \in BOOLEAN,
               NEW fetches \in BOOLEAN, StartJob(v, generates, skip, fetches)
        PROVE  FilesInv'
    BY <1>1, <2>1 DEF StartJob, Idle
  <2>2. ASSUME NEW f \in Source, GenerateFile(f)
        PROVE  FilesInv'
    BY <1>0, <1>1, <2>2 DEF GenerateFile, CmdType
  <2>3. CASE FinishGenerate \/ VerifySource \/ SkipDerive \/ CheckDerived
    BY <1>0, <1>1, <2>3 DEF FinishGenerate, VerifySource, SkipDerive, CheckDerived, Goto, CmdType
  <2>4. ASSUME NEW x \in Corpora, FetchSource(x)
        PROVE  FilesInv'
    BY <1>0, <1>1, <2>4 DEF FetchSource, Goto, CmdType
  <2> QED
    BY <1>2, <2>1, <2>2, <2>3, <2>4 DEF JobStep
<1>3. ASSUME NEW resume \in BOOLEAN, StartDerive(resume)
      PROVE  FilesInv'
  BY <1>1, <1>3 DEF StartDerive, Idle
<1>4. CASE Validate
  <2>1. CASE SourceVerifies /\ ~complete
    <3>1. cmd' = [cmd EXCEPT !.pc = "link", !.todo = {f \in Linkable : src[f] # Absent}]
      BY <1>4, <2>1 DEF Validate
    <3>2. cmd'.pc = "link" /\ cmd'.todo = {f \in Linkable : src[f] # Absent}
      BY <1>0, <3>1 DEF CmdType
    <3>3. srcComplete' /\ srcSeen' = src' /\ ~complete'
      BY <1>4, <2>1 DEF Validate, SourceVerifies, srcVars, ownVars
    <3>4. src' = src
      BY <1>4 DEF Validate, srcVars
    <3> QED
      BY <3>2, <3>3, <3>4
  <2>2. CASE ~(SourceVerifies /\ ~complete)
    BY <1>0, <1>1, <1>4, <2>2 DEF Validate, CmdType
  <2> QED
    BY <2>1, <2>2
<1>5. ASSUME NEW f \in Source, LinkFile(f)
      PROVE  FilesInv'
  <2>1. cmd'.pc = "link" /\ cmd'.todo = cmd.todo \ {f}
    BY <1>0, <1>5 DEF LinkFile, CmdType
  <2>2. srcComplete' /\ srcSeen' = src' /\ ~complete'
    BY <1>0, <1>5 DEF LinkFile, srcVars, ownVars
  <2>3. \A g \in Linkable : g \in cmd'.todo \/ src[g] = Absent \/ dst'[g] = src[g]
    BY <1>0, <1>5, <2>1, SourceFacts DEF LinkFile, TypeOK
  <2> QED
    BY <1>0, <1>5, <2>1, <2>2, <2>3 DEF LinkFile, srcVars
<1>6. CASE LoadInstantiation
  <2>1. PICK v \in Versions : Made(v, src)
    BY <1>0, <1>6 DEF LoadInstantiation, SourceInv
  <2>2. \A f \in Linkable : src[f] # Absent => dst[f] = src[f]
    BY <1>0, <1>6 DEF LoadInstantiation
  <2>3. src[Inst] = v /\ v # Absent
    BY <2>1, SourceFacts, DeriveAssumption DEF Made
  <2>4. dst[Inst] = v
    BY <2>2, <2>3, SourceFacts
  <2>5. cmd'.pc = "graphs" /\ cmd'.ver = v /\ cmd'.todo = GraphsOf(v)
    BY <1>0, <1>6, <2>4 DEF LoadInstantiation, CmdType
  <2>6. UNCHANGED <<src, srcSeen, srcComplete, dst, complete>>
    BY <1>6 DEF LoadInstantiation, srcVars, ownVars
  <2>7. cmd.pc = "link"
    BY <1>6 DEF LoadInstantiation
  <2> QED
    BY <1>0, <2>1, <2>2, <2>5, <2>6, <2>7 DEF Made
<1>7. ASSUME NEW f \in GraphFiles, WriteGraph(f)
      PROVE  FilesInv'
  <2>0. f \in Source /\ f \notin Linkable
    BY SourceFacts
  <2>1. UNCHANGED <<src, srcSeen, srcComplete, complete>>
    BY <1>0, <1>7, <2>0 DEF WriteGraph, TypeOK, ownVars
  <2>2. cmd.pc = "graphs" /\ cmd'.pc = "graphs" /\ cmd'.ver = cmd.ver /\ cmd'.todo = cmd.todo \ {f}
    BY <1>0, <1>7 DEF WriteGraph, CmdType
  <2>3. dst'[f] = Exposed(cmd.ver) /\ \A g \in Source : g # f => dst'[g] = dst[g]
    BY <1>0, <1>7, <2>0 DEF WriteGraph, TypeOK
  <2>4. \A g \in Linkable : dst'[g] = dst[g]
    BY <2>0, <2>3, SourceFacts
  <2>5. \A g \in GraphsOf(cmd.ver) : g \in Source
    BY SourceFacts DEF GraphsOf
  <2>6. \A g \in GraphsOf(cmd.ver) : g \in cmd'.todo \/ dst'[g] = Exposed(cmd.ver)
    BY <1>0, <2>2, <2>3, <2>5
  <2> QED
    BY <1>0, <2>1, <2>2, <2>4, <2>6 DEF Made
<1>13. CASE StartChannel
  <2>1. cmd.pc = "graphs" /\ cmd'.pc = "flush" /\ cmd'.ver = cmd.ver /\ cmd.todo = {}
    BY <1>0, <1>13 DEF StartChannel, CmdType
  <2> QED
    BY <1>0, <1>13, <2>1 DEF StartChannel, srcVars, ownVars, Made
<1>8. ASSUME Loaded, ~At("graphs"), cmd'.pc \in {"flush", "rename", "manifest", "complete"},
             cmd'.ver = cmd.ver, UNCHANGED <<srcVars, dst, complete>>
      PROVE  FilesInv'
  BY <1>0, <1>8 DEF srcVars, Made
<1>9. CASE KeepShard \/ WriteTemp \/ RenamePart \/ WriteSummary \/ WriteManifest
  <2>1. CASE KeepShard
    BY <1>0, <1>8, <2>1 DEF KeepShard, More, CmdType, ownVars
  <2>2. CASE WriteTemp
    BY <1>0, <1>8, <2>2 DEF WriteTemp, More, Goto, CmdType
  <2>3. CASE RenamePart
    BY <1>0, <1>8, <2>3 DEF RenamePart, CmdType
  <2>4. CASE WriteSummary
    BY <1>0, <1>8, <2>4 DEF WriteSummary, Goto, CmdType
  <2>5. CASE WriteManifest
    BY <1>0, <1>8, <2>5 DEF WriteManifest, Goto, CmdType
  <2> QED
    BY <1>9, <2>1, <2>2, <2>3, <2>4, <2>5
<1>10. CASE WriteComplete
  BY <1>0, <1>1, <1>10 DEF WriteComplete, Goto, CmdType
<1>11. CASE Crash
  BY <1>0, <1>1, <1>11 DEF Crash, Goto, CmdType
<1>12. CASE UNCHANGED vars
  BY <1>0, <1>12 DEF vars, srcVars, ownVars, Made
<1> QED
  BY <1>2, <1>3, <1>4, <1>5, <1>6, <1>7, <1>9, <1>10, <1>11, <1>12, <1>13 DEF Next, DeriveStep

\* A part's marker is its own marker's, and no earlier than the part.
LEMMA MarkerFacts ==
  ASSUME NEW n \in Parts
  PROVE  /\ Marker(n) \in Parts /\ n <= Marker(n)
         /\ \A k \in Parts : n % 3 = 0 /\ n <= k /\ k < n + 3 => Marker(k) = Marker(n)
BY PartFacts DEF Parts, Marker

LEMMA MarkedShardStep ==
  ASSUME DeriveInv, [Next]_vars
  PROVE  MarkedShardIsThere'
<1>0. TypeOK /\ FilesInv /\ ChannelInv /\ MarkedShardIsThere /\ AtPart /\ cmd \in CmdType
  BY DEF DeriveInv, TypeOK, CmdType
<1>1. CASE RenamePart
  <2>1. cmd.at \in Parts /\ cmd.ver # Absent
    BY <1>0, <1>1, PartsOfFacts, DeriveAssumption DEF RenamePart, At, AtPart, FilesInv, OfAVersion, Loaded
  <2>2. \A k \in Parts : k < cmd.at => channel[k] # Absent
    BY <1>0, <1>1 DEF RenamePart, At, ChannelInv, Flushing
  <2>3. channel' = [channel EXCEPT ![cmd.at] = cmd.ver] /\ channel \in [Parts -> Content]
    BY <1>0, <1>1 DEF RenamePart, TypeOK
  <2>4. ASSUME NEW n \in Parts, channel'[Marker(n)] # Absent
        PROVE  channel'[n] # Absent
    <3>1. Marker(n) \in Parts /\ n <= Marker(n)
      BY MarkerFacts
    <3>2. CASE n = cmd.at
      BY <2>1, <2>3, <3>2
    <3>3. CASE n # cmd.at /\ Marker(n) = cmd.at
      <4>1. n < cmd.at
        BY <2>1, <3>1, <3>3 DEF Parts
      <4> QED
        BY <2>2, <2>3, <3>3, <4>1
    <3>4. CASE n # cmd.at /\ Marker(n) # cmd.at
      BY <1>0, <2>3, <2>4, <3>1, <3>4 DEF MarkedShardIsThere
    <3> QED
      BY <3>2, <3>3, <3>4
  <2> QED
    BY <2>4 DEF MarkedShardIsThere
<1>2. ASSUME ~RenamePart
      PROVE  channel' = channel
  BY <1>2 DEF Next, JobStep, DeriveStep, StartJob, GenerateFile, FinishGenerate, FetchSource,
     VerifySource, SkipDerive, CheckDerived, StartDerive, Validate, LinkFile, LoadInstantiation,
     WriteGraph, StartChannel, KeepShard, WriteTemp, WriteSummary, WriteManifest, WriteComplete, Crash,
     vars, ownVars
<1> QED
  BY <1>0, <1>1, <1>2 DEF MarkedShardIsThere

\* When no part is left to pass, every part of the version was passed.
LEMMA AllPassed ==
  ASSUME TypeOK, At("flush"), ~More, cmd.ver \in Versions
  PROVE  \A k \in PartsOf(cmd.ver) : k \in Parts /\ k < cmd.at
<1>1. cmd.at \in Nat /\ Shards[cmd.ver] \in Nat
  BY DeriveAssumption DEF TypeOK
<1>2. cmd.at \notin PartsOf(cmd.ver)
  BY DEF More
<1> QED
  BY <1>1, <1>2, PartsOfFacts DEF PartsOf

LEMMA ChannelInvStep ==
  ASSUME DeriveInv, [Next]_vars
  PROVE  ChannelInv'
<1>0. TypeOK /\ FilesInv /\ ChannelInv /\ MarkedShardIsThere /\ AtPart /\ cmd \in CmdType
  BY DEF DeriveInv, TypeOK, CmdType
<1> USE DEF ChannelInv, At, Flushing
<1> DEFINE Elsewhere == {"idle", "generate", "fetch", "verify", "derive", "link", "graphs", "check",
                         "ok", "failed"}
<1>1. ASSUME cmd'.pc \in Elsewhere
      PROVE  ChannelInv'
  BY <1>1
<1>2. CASE JobStep
  <2>1. ASSUME NEW v \in Versions, NEW generates \in BOOLEAN, NEW skip \in BOOLEAN,
               NEW fetches \in BOOLEAN, StartJob(v, generates, skip, fetches)
        PROVE  ChannelInv'
    BY <1>1, <2>1 DEF StartJob, Idle
  <2>2. ASSUME NEW f \in Source, GenerateFile(f)
        PROVE  ChannelInv'
    BY <1>0, <1>1, <2>2 DEF GenerateFile, CmdType
  <2>3. CASE FinishGenerate \/ VerifySource \/ SkipDerive \/ CheckDerived
    BY <1>0, <1>1, <2>3 DEF FinishGenerate, VerifySource, SkipDerive, CheckDerived, Goto, CmdType
  <2>4. ASSUME NEW x \in Corpora, FetchSource(x)
        PROVE  ChannelInv'
    BY <1>0, <1>1, <2>4 DEF FetchSource, Goto, CmdType
  <2> QED
    BY <1>2, <2>1, <2>2, <2>3, <2>4 DEF JobStep
<1>3. ASSUME NEW resume \in BOOLEAN, StartDerive(resume)
      PROVE  ChannelInv'
  BY <1>1, <1>3 DEF StartDerive, Idle
<1>4. CASE Validate \/ LoadInstantiation \/ Crash
  BY <1>0, <1>1, <1>4 DEF Validate, LoadInstantiation, Crash, Goto, CmdType
<1>5. ASSUME NEW f \in Source, LinkFile(f)
      PROVE  ChannelInv'
  BY <1>0, <1>1, <1>5 DEF LinkFile, CmdType
<1>14. ASSUME NEW f \in GraphFiles, WriteGraph(f)
       PROVE  ChannelInv'
  BY <1>0, <1>1, <1>14 DEF WriteGraph, CmdType
<1>6. CASE StartChannel
  <2>1. cmd'.pc = "flush" /\ cmd'.at = 0
    BY <1>0, <1>6 DEF StartChannel, CmdType
  <2> QED
    BY <2>1 DEF Parts
<1>7. CASE KeepShard
  <2>1. cmd'.pc = "flush" /\ cmd'.at = cmd.at + 3 /\ cmd'.resume = cmd.resume /\ cmd.resume
    BY <1>0, <1>7 DEF KeepShard, More, KeepsShard, CmdType
  <2>3. cmd.pc = "flush" /\ cmd.at \in Parts
    BY <1>0, <1>7, PartsOfFacts DEF KeepShard, More, FilesInv, OfAVersion, Loaded
  <2>2. \A k \in Parts : k < cmd.at + 3 => channel[k] # Absent
    <3> SUFFICES ASSUME NEW k \in Parts, k < cmd.at + 3
                 PROVE  channel[k] # Absent
      OBVIOUS
    <3>1. CASE k < cmd.at
      BY <1>0, <2>3, <3>1
    <3>2. CASE cmd.at <= k
      <4>1. Marker(k) = Marker(cmd.at)
        BY <1>7, <2>3, <3>2, MarkerFacts DEF KeepShard, KeepsShard
      <4> QED
        BY <1>0, <1>7, <4>1 DEF KeepShard, KeepsShard, MarkedShardIsThere
    <3> QED
      BY <2>3, <3>1, <3>2 DEF Parts
  <2> QED
    BY <1>7, <2>1, <2>2 DEF KeepShard, ownVars
<1>8. CASE WriteTemp
  <2>1. cmd'.pc = "rename" /\ cmd'.at = cmd.at /\ cmd'.resume = cmd.resume /\ cmd'.ver = cmd.ver
    BY <1>0, <1>8 DEF WriteTemp, Goto, CmdType
  <2>2. cmd.pc = "flush" /\ cmd.at \in Parts
    BY <1>0, <1>8, PartsOfFacts DEF WriteTemp, More, FilesInv, OfAVersion, Loaded
  <2>3. \A k \in Parts : k < cmd.at => (k \in temps' <=> k \in temps)
    BY <1>8, <2>2 DEF WriteTemp, Parts
  <2> QED
    BY <1>0, <1>8, <2>1, <2>2, <2>3 DEF WriteTemp
<1>9. CASE RenamePart
  <2>1. cmd'.pc = "flush" /\ cmd'.at = cmd.at + 1 /\ cmd'.resume = cmd.resume /\ cmd'.ver = cmd.ver
    BY <1>0, <1>9 DEF RenamePart, CmdType
  <2>2. cmd.at \in Parts /\ cmd.ver # Absent
    BY <1>0, <1>9, PartsOfFacts, DeriveAssumption DEF RenamePart, AtPart, FilesInv, OfAVersion, Loaded
  <2>3. \A k \in Parts : k < cmd.at + 1 => k < cmd.at \/ k = cmd.at
    BY <2>2 DEF Parts
  <2>4. \A k \in Parts : channel'[k] = IF k = cmd.at THEN cmd.ver ELSE channel[k]
    BY <1>0, <1>9 DEF RenamePart, TypeOK
  <2>5. \A k \in Parts : k \in temps' <=> k \in temps /\ k # cmd.at
    BY <1>9 DEF RenamePart
  <2> QED
    BY <1>0, <1>9, <2>1, <2>2, <2>3, <2>4, <2>5 DEF RenamePart
<1>10. CASE WriteSummary
  <2>1. cmd'.pc = "manifest" /\ cmd'.resume = cmd.resume /\ cmd'.ver = cmd.ver
    BY <1>0, <1>10 DEF WriteSummary, Goto, CmdType
  <2>2. cmd.pc = "flush"
    BY <1>10 DEF WriteSummary
  <2>3. \A k \in PartsOf(cmd.ver) : k \in Parts /\ k < cmd.at
    BY <1>0, <1>10, AllPassed DEF WriteSummary, FilesInv, OfAVersion, Loaded
  <2> QED
    BY <1>0, <1>10, <2>1, <2>2, <2>3 DEF WriteSummary
<1>11. CASE WriteManifest
  <2>1. cmd'.pc = "complete" /\ cmd'.resume = cmd.resume /\ cmd'.ver = cmd.ver
    BY <1>0, <1>11 DEF WriteManifest, Goto, CmdType
  <2>2. dstSeen' = Listing'
    BY <1>11 DEF WriteManifest, Listing
  <2> QED
    BY <1>0, <1>11, <2>1, <2>2 DEF WriteManifest
<1>12. CASE WriteComplete
  BY <1>0, <1>1, <1>12 DEF WriteComplete, Goto, CmdType
<1>13. CASE UNCHANGED vars
  <2>1. Listing' = Listing
    BY <1>13 DEF vars, ownVars, Listing
  <2> QED
    BY <1>0, <1>13, <2>1 DEF vars, ownVars
<1> QED
  BY <1>2, <1>3, <1>4, <1>5, <1>6, <1>7, <1>8, <1>9, <1>10, <1>11, <1>12, <1>13, <1>14
  DEF Next, DeriveStep

LEMMA SharedInvStep ==
  ASSUME DeriveInv, [Next]_vars
  PROVE  SharedInv'
<1>0. TypeOK /\ SourceInv /\ FilesInv /\ ChannelInv /\ SharedInv /\ cmd \in CmdType
  BY DEF DeriveInv, TypeOK, CmdType
<1> USE DEF SharedInv, At
<1>1. ASSUME ~complete' PROVE SharedInv'
  BY <1>1
<1>2. ASSUME UNCHANGED <<dst, linked, ownVars>> PROVE SharedInv'
  BY <1>0, <1>2 DEF ownVars
<1>3. ASSUME UNCHANGED ownVars, UNCHANGED linked \/ linked' \cap InPlace = linked \cap InPlace,
             \A f \in Source : f \notin linked \cap InPlace => dst'[f] = dst[f]
      PROVE  SharedInv'
  BY <1>0, <1>3 DEF ownVars
<1>4. ASSUME NEW v \in Versions, NEW generates \in BOOLEAN, NEW skip \in BOOLEAN,
             NEW fetches \in BOOLEAN, StartJob(v, generates, skip, fetches)
      PROVE  SharedInv'
  BY <1>2, <1>4 DEF StartJob
<1>5. ASSUME NEW f \in Source, GenerateFile(f)
      PROVE  SharedInv'
  <2>1. CASE f \in Replaced
    <3>1. UNCHANGED ownVars /\ dst' = dst /\ linked' = linked \ {f}
      BY <1>5, <2>1 DEF GenerateFile
    <3>2. linked' \cap InPlace = linked \cap InPlace
      BY <2>1, <3>1, DeriveAssumption
    <3> QED
      BY <1>3, <3>1, <3>2
  <2>2. CASE f \notin Replaced
    <3>1. UNCHANGED ownVars /\ linked' = linked
          /\ dst' = IF f \in linked THEN [dst EXCEPT ![f] = cmd.ver] ELSE dst
      BY <1>5, <2>2 DEF GenerateFile
    <3>2. f \in linked => f \in InPlace
      BY <1>0, <2>2, SourceFacts DEF TypeOK
    <3>3. \A g \in Source : g \notin linked \cap InPlace => dst'[g] = dst[g]
      BY <1>0, <3>1, <3>2 DEF TypeOK
    <3> QED
      BY <1>3, <3>1, <3>3
  <2> QED
    BY <2>1, <2>2
<1>6. CASE FinishGenerate \/ VerifySource \/ SkipDerive \/ CheckDerived
  BY <1>2, <1>6 DEF FinishGenerate, VerifySource, SkipDerive, CheckDerived
<1>7. ASSUME NEW x \in Corpora, FetchSource(x)
      PROVE  SharedInv'
  BY <1>0, <1>1, <1>7 DEF FetchSource, SourceInv, ownVars
<1>8. ASSUME NEW resume \in BOOLEAN, StartDerive(resume)
      PROVE  SharedInv'
  BY <1>2, <1>8 DEF StartDerive
<1>9. CASE Validate \/ LoadInstantiation \/ StartChannel \/ KeepShard
  BY <1>2, <1>9 DEF Validate, LoadInstantiation, StartChannel, KeepShard
<1>10. ASSUME NEW f \in Source, LinkFile(f)
       PROVE  SharedInv'
  BY <1>0, <1>1, <1>10 DEF LinkFile, FilesInv, ownVars
<1>15. ASSUME NEW f \in GraphFiles, WriteGraph(f)
       PROVE  SharedInv'
  BY <1>0, <1>1, <1>15 DEF WriteGraph, FilesInv, Loaded, ownVars
<1>11. CASE WriteTemp \/ RenamePart \/ WriteSummary \/ WriteManifest
  BY <1>0, <1>1, <1>11 DEF WriteTemp, More, RenamePart, WriteSummary, WriteManifest,
     FilesInv, Loaded, ownVars
<1>12. CASE WriteComplete
  <2>1. dstSeen = Listing /\ Listing \in Listings
    BY <1>0, <1>12, ListingType DEF WriteComplete, ChannelInv
  <2>2. UNCHANGED <<dst, channel, temps, summary, dstSeen>>
    BY <1>12 DEF WriteComplete
  <2> QED
    BY <2>1, <2>2 DEF Listing
<1>13. CASE Crash
  <2>1. CASE ~complete
    BY <1>1, <1>13, <2>1 DEF Crash
  <2>2. CASE complete
    <3>1. ~At("link") /\ ~At("graphs") /\ ~At("manifest") /\ ~At("flush")
      BY <1>0, <2>2 DEF FilesInv, Loaded
    <3>2. UNCHANGED <<linked, ownVars>>
      BY <1>13, <3>1 DEF Crash, ownVars
    <3>3. \A g \in Source : g \notin linked \cap InPlace => dst'[g] = dst[g]
      BY <1>0, <1>13, <3>1, SourceFacts DEF Crash, TypeOK
    <3> QED
      BY <1>3, <3>2, <3>3
  <2> QED
    BY <2>1, <2>2
<1>14. CASE UNCHANGED vars
  BY <1>2, <1>14 DEF vars
<1> QED
  BY <1>4, <1>5, <1>6, <1>7, <1>8, <1>9, <1>10, <1>11, <1>12, <1>13, <1>14, <1>15
  DEF Next, JobStep, DeriveStep

LEMMA TypedStep ==
  ASSUME DeriveInv, [Next]_vars
  PROVE  TypeOK'
<1>1. TypeOK /\ GraphsApart /\ AtPart /\ OfAVersion
  BY DEF DeriveInv, FilesInv
<1>2. CASE UNCHANGED vars
  BY <1>1, <1>2 DEF vars, srcVars, ownVars, TypeOK
<1> QED
  BY <1>1, <1>2, JobTyped, DeriveTyped, CrashTyped DEF Next

LEMMA DeriveInvStep ==
  ASSUME DeriveInv, [Next]_vars
  PROVE  DeriveInv'
<1>1. TypeOK /\ GraphsApart /\ AtPart
  BY DEF DeriveInv
<1>2. GraphsApart' /\ AtPart'
  BY <1>1, GraphsStayApart, AtPartStays
<1> QED
  BY <1>2, TypedStep, SourceInvStep, FilesInvStep, ChannelInvStep, MarkedShardStep, SharedInvStep
  DEF DeriveInv

LEMMA DeriveInvAlways == Spec => []DeriveInv
<1>1. DeriveInv /\ [Next]_vars => DeriveInv'
  BY DeriveInvStep
<1> QED
  BY <1>1, DeriveInvInit, PTL DEF Spec

(***************************************************************************)
(* What derive promises.                                                   *)
(***************************************************************************)
\* Every state the commands reach is of its type.
THEOREM DeriveTypeCorrect == Spec => []TypeOK
<1>1. DeriveInv => TypeOK
  BY DEF DeriveInv
<1> QED
  BY <1>1, DeriveInvAlways, PTL

\* Whatever was killed, and resumed or not, a marker in the metrics channel
\* means that its samples and changes are there (the flush order of `derive`).
THEOREM ChannelMarkersAreHonest == Spec => []MarkedShardIsThere
<1>1. DeriveInv => MarkedShardIsThere
  BY DEF DeriveInv
<1> QED
  BY <1>1, DeriveInvAlways, PTL

\* No step of `derive` changes a file of its source, though it links most of
\* them: the one kind it writes in place, the graphs, it never links.
THEOREM SourceIsKept == Spec => SourceKept
<1>1. DeriveInv /\ [Next]_vars => [DeriveStep => UNCHANGED src]_vars
  <2> SUFFICES ASSUME DeriveInv, DeriveStep
               PROVE  src' = src
    OBVIOUS
  <2>1. linked \subseteq Linkable
    BY DEF DeriveInv, TypeOK
  <2> QED
    BY <2>1, SourceFacts
       DEF DeriveStep, StartDerive, Validate, LinkFile, LoadInstantiation, WriteGraph, StartChannel, KeepShard,
       WriteTemp, RenamePart, WriteSummary, WriteManifest, WriteComplete, srcVars
<1> QED
  BY <1>1, DeriveInvAlways, PTL DEF Spec, SourceKept

\* A complete derived corpus verifies for as long as the files it shares with
\* its source, of the kind that is written in place, are left alone.
THEOREM OnlySharedFilesCanChange == Spec => []OnlySharedFilesChange
<1>1. DeriveInv => OnlySharedFilesChange
  <2> SUFFICES ASSUME DeriveInv, complete
               PROVE  /\ dstSeen \in Listings
                      /\ (\A f \in linked \cap InPlace : dst[f] = dstSeen.files[f]) => Verifies
    BY DEF OnlySharedFilesChange
  <2>1. SharedInv /\ dst \in [Source -> DerivedContent] /\ linked \subseteq Source
    BY SourceFacts DEF DeriveInv, TypeOK
  <2>2. dstSeen \in Listings
    BY <2>1 DEF SharedInv
  <2>3. ASSUME \A f \in linked \cap InPlace : dst[f] = dstSeen.files[f]
        PROVE  Verifies
    <3>1. dstSeen.files \in [Source -> DerivedContent]
      BY <2>2 DEF Listings
    <3>2. \A f \in Source : dst[f] = dstSeen.files[f]
      BY <2>1, <2>3 DEF SharedInv
    <3>3. dstSeen.files = dst
      BY <2>1, <3>1, <3>2
    <3> QED
      BY <2>1, <2>2, <3>3 DEF SharedInv, Verifies, Listing, Listings
  <2> QED
    BY <2>2, <2>3
<1> QED
  BY <1>1, DeriveInvAlways, PTL

\* Only the last step of a derivation completes the corpus.
LEMMA CompletesOnce ==
  ASSUME Next, ~complete, complete'
  PROVE  WriteComplete
BY DEF Next, JobStep, DeriveStep, StartJob, GenerateFile, FinishGenerate, FetchSource,
   VerifySource, SkipDerive, CheckDerived, StartDerive, Validate, LinkFile, LoadInstantiation,
   WriteGraph, StartChannel, KeepShard, WriteTemp, RenamePart, WriteSummary, WriteManifest, Crash,
   ownVars

\* By then every file the version has was made from it.
LEMMA LoadedIsMade ==
  ASSUME DeriveInv, At("complete")
  PROVE  /\ cmd.ver \in Versions
         /\ \A f \in Has[cmd.ver] : dst[f] = IF f \in GraphFiles THEN Exposed(cmd.ver) ELSE cmd.ver
         /\ \A f \in Linkable : src[f] # Absent => dst[f] = src[f]
<1>1. cmd.ver \in Versions /\ Made(cmd.ver, src) /\ \A f \in Linkable : src[f] # Absent => dst[f] = src[f]
  BY DEF DeriveInv, FilesInv, OfAVersion, Loaded, At
<1>2. \A f \in GraphsOf(cmd.ver) : dst[f] = Exposed(cmd.ver)
  BY DEF DeriveInv, FilesInv, Loaded, At
<1>3. ASSUME NEW f \in Has[cmd.ver]
      PROVE  dst[f] = IF f \in GraphFiles THEN Exposed(cmd.ver) ELSE cmd.ver
  <2>1. CASE f \in GraphFiles
    BY <1>1, <1>2, <2>1 DEF GraphsOf
  <2>2. CASE f \notin GraphFiles
    <3>1. f \in Linkable
      BY <1>1, <2>2, SourceFacts
    <3>2. src[f] = cmd.ver /\ cmd.ver # Absent
      BY <1>1, DeriveAssumption DEF Made
    <3> QED
      BY <1>1, <2>2, <3>1, <3>2
  <2> QED
    BY <2>1, <2>2
<1> QED
  BY <1>1, <1>3

\* A `derive` without --resume that completes has every file of its version,
\* made from it, links every file of its source, leaves no temporary file beside
\* those it wrote, and verifies.  That nothing else is there is not said: what
\* earlier versions left, no command removes.
THEOREM DerivationsAreFresh == Spec => DerivedOnceIsFresh
<1>1. DeriveInv /\ [Next]_vars =>
        [~complete /\ complete' /\ ~cmd.resume =>
           /\ \E v \in Versions : OfVersion(v) /\ temps \cap PartsOf(v) = {}
           /\ \A f \in Linkable : src[f] # Absent => dst[f] = src[f]
           /\ Verifies]_vars
  <2> SUFFICES ASSUME DeriveInv, Next, ~complete, complete', ~cmd.resume
               PROVE  /\ \E v \in Versions : OfVersion(v) /\ temps \cap PartsOf(v) = {}
                      /\ \A f \in Linkable : src[f] # Absent => dst[f] = src[f]
                      /\ Verifies
    OBVIOUS
  <2>1. WriteComplete
    BY CompletesOnce
  <2>2. ChannelInv /\ At("complete")
    BY <2>1 DEF DeriveInv, WriteComplete
  <2>3. /\ cmd.ver \in Versions
        /\ \A f \in Has[cmd.ver] : dst[f] = IF f \in GraphFiles THEN Exposed(cmd.ver) ELSE cmd.ver
        /\ \A f \in Linkable : src[f] # Absent => dst[f] = src[f]
    BY <2>2, LoadedIsMade
  <2>4. summary = cmd.ver /\ \A n \in PartsOf(cmd.ver) : channel[n] = cmd.ver /\ n \notin temps
    BY <2>2 DEF ChannelInv
  <2>5. Verifies
    BY <2>2 DEF ChannelInv, Verifies
  <2>6. OfVersion(cmd.ver) /\ temps \cap PartsOf(cmd.ver) = {}
    BY <2>3, <2>4 DEF OfVersion
  <2> QED
    BY <2>3, <2>5, <2>6
<1> QED
  BY <1>1, DeriveInvAlways, PTL DEF Spec, DerivedOnceIsFresh

(***************************************************************************)
(* Resuming, with one job.  The source is completed once: before that no   *)
(* derivation goes on, after it all it writes is of the source's version,  *)
(* and under the names the source, or its version, has.                    *)
(***************************************************************************)
Now == srcSeen[Inst]

OwnInv ==
  /\ \A f \in Linkable : dst[f] # Absent => srcComplete /\ srcSeen[f] # Absent
  /\ \A f \in GraphFiles : dst[f] # Absent => srcComplete /\ f \in GraphsOf(Now)
  /\ linked # {} => srcComplete
  /\ \A n \in Parts : channel[n] # Absent => srcComplete /\ n \in PartsOf(Now) /\ channel[n] = Now

OneJobInv ==
  /\ Loaded => Now = cmd.ver
  /\ At("manifest") \/ At("complete") => \A n \in PartsOf(cmd.ver) : channel[n] # Absent
  /\ jobs = 0 => ~srcComplete /\ ~At("generate") /\ ~At("fetch")
  /\ At("generate") /\ srcComplete => jobs > 1
  /\ jobs <= 1 => OwnInv

LEMMA OneJobInvInit == Init => OneJobInv
BY SourceFacts DEF Init, OneJobInv, OwnInv, Idle, At, Loaded, None, NoChannel

\* The version loaded is the one the source's manifest was made of.
LEMMA LoadsNow ==
  ASSUME DeriveInv, Loaded \/ (At("link") /\ cmd.todo = {})
  PROVE  Now \in Versions /\ dst[Inst] = Now /\ (Loaded => Now = cmd.ver)
<1>1. SourceInv /\ FilesInv /\ srcComplete /\ srcSeen = src
  BY DEF DeriveInv, FilesInv
<1>2. PICK v \in Versions : Made(v, src)
  BY <1>1 DEF SourceInv
<1>3. src[Inst] = v /\ v # Absent
  BY <1>2, SourceFacts, DeriveAssumption DEF Made
<1>4. dst[Inst] = src[Inst]
  BY <1>1, <1>3, SourceFacts DEF FilesInv
<1>5. Loaded => src[Inst] = cmd.ver
  BY <1>1, SourceFacts DEF FilesInv, OfAVersion, Made
<1> QED
  BY <1>1, <1>3, <1>4, <1>5 DEF Now

LEMMA OneJobInvStep ==
  ASSUME DeriveInv, OneJobInv, [Next]_vars
  PROVE  OneJobInv'
<1>0. TypeOK /\ SourceInv /\ FilesInv /\ ChannelInv /\ AtPart /\ GraphsApart /\ cmd \in CmdType
      /\ jobs \in Nat
  BY DeriveAssumption DEF DeriveInv, TypeOK, CmdType
<1> USE DEF OneJobInv, At, Loaded
<1>s. ASSUME UNCHANGED <<srcSeen, srcComplete, dst, linked, channel>>, OwnInv
      PROVE  OwnInv'
  BY <1>s DEF OwnInv, Now
\* Steps that leave the source, the files and the jobs, and load nothing.
<1>1. ASSUME UNCHANGED <<srcSeen, srcComplete, jobs>>, jobs <= 1 => OwnInv',
             cmd'.pc \in {"verify", "derive", "link", "check", "ok", "failed"}
      PROVE  OneJobInv'
  BY <1>0, <1>1
<1>2. ASSUME UNCHANGED <<srcSeen, srcComplete, jobs>>, cmd'.ver = cmd.ver, jobs <= 1 => OwnInv',
             cmd.pc \in {"graphs", "flush", "rename", "manifest", "complete"},
             cmd'.pc \in {"graphs", "flush", "rename"}
               \/ (cmd'.pc = "complete" /\ cmd.pc = "manifest" /\ channel' = channel)
      PROVE  OneJobInv'
  BY <1>0, <1>2 DEF Now
<1>3. ASSUME NEW v \in Versions, NEW generates \in BOOLEAN, NEW skip \in BOOLEAN,
             NEW fetches \in BOOLEAN, StartJob(v, generates, skip, fetches)
      PROVE  OneJobInv'
  <2>1. UNCHANGED <<srcSeen, srcComplete, dst, linked, channel>> /\ jobs' = jobs + 1
    BY <1>3 DEF StartJob, srcVars, ownVars
  <2>2. cmd'.pc \in {"verify", "generate", "derive", "fetch", "failed"}
    BY <1>3 DEF StartJob, Idle
  <2>3. jobs' # 0 /\ (jobs' <= 1 => jobs = 0)
    BY <1>0, <2>1
  <2>4. jobs' <= 1 => OwnInv'
    BY <1>0, <1>s, <2>1, <2>3
  <2> QED
    BY <1>0, <2>1, <2>2, <2>3, <2>4
<1>4. ASSUME NEW f \in Source, GenerateFile(f)
      PROVE  OneJobInv'
  <2>1. UNCHANGED <<srcSeen, srcComplete, channel, jobs>> /\ cmd.pc = "generate" /\ cmd'.pc = "generate"
    BY <1>0, <1>4 DEF GenerateFile, ownVars, CmdType
  <2>2. ASSUME jobs <= 1 PROVE OwnInv'
    <3>1. OwnInv /\ ~srcComplete /\ linked = {}
      BY <1>0, <2>1, <2>2 DEF OwnInv
    <3>2. dst' = dst /\ linked' = {}
      BY <1>4, <3>1 DEF GenerateFile
    <3> QED
      BY <1>s, <2>1, <3>1, <3>2
  <2> QED
    BY <1>0, <2>1, <2>2
<1>5. CASE FinishGenerate
  <2>1. UNCHANGED <<channel, dst, linked, jobs>> /\ cmd'.pc = "verify" /\ cmd.pc = "generate"
    BY <1>0, <1>5 DEF FinishGenerate, Goto, ownVars, CmdType
  <2>2. jobs <= 1 => ~srcComplete
    BY <1>0, <2>1
  <2> QED
    BY <1>0, <2>1, <2>2 DEF OwnInv
<1>6. ASSUME NEW x \in Corpora, FetchSource(x)
      PROVE  OneJobInv'
  <2>1. UNCHANGED <<channel, dst, jobs>> /\ cmd'.pc = "verify" /\ cmd.pc = "fetch" /\ linked' = {}
    BY <1>0, <1>6 DEF FetchSource, Goto, ownVars, CmdType
  <2>2. ~srcComplete
    BY <1>0, <2>1 DEF SourceInv
  <2> QED
    BY <1>0, <2>1, <2>2 DEF OwnInv
<1>7. CASE VerifySource \/ SkipDerive \/ CheckDerived \/ Validate
  BY <1>0, <1>s, <1>1, <1>7 DEF VerifySource, SkipDerive, CheckDerived, Validate, Goto, srcVars,
     ownVars, CmdType
<1>8. ASSUME NEW resume \in BOOLEAN, StartDerive(resume)
      PROVE  OneJobInv'
  BY <1>s, <1>1, <1>8 DEF StartDerive, srcVars, ownVars, Idle
<1>9. ASSUME NEW f \in Source, LinkFile(f)
      PROVE  OneJobInv'
  <2>1. UNCHANGED <<srcSeen, srcComplete, channel, jobs>> /\ cmd.pc = "link" /\ cmd'.pc = "link"
    BY <1>0, <1>9 DEF LinkFile, srcVars, ownVars, CmdType
  <2>2. srcComplete /\ f \in Linkable /\ f \notin GraphFiles /\ srcSeen[f] # Absent
    BY <1>0, <1>9, <2>1, SourceFacts DEF LinkFile, FilesInv, GraphsApart
  <2>3. \A g \in Source : g # f => dst'[g] = dst[g]
    BY <1>0, <1>9 DEF LinkFile, TypeOK
  <2>4. jobs <= 1 => OwnInv'
    BY <2>1, <2>2, <2>3, SourceFacts DEF OwnInv, Now
  <2> QED
    BY <1>1, <2>1, <2>4
<1>10. CASE LoadInstantiation
  <2>1. UNCHANGED <<srcSeen, srcComplete, dst, linked, channel, jobs>> /\ cmd'.pc = "graphs"
        /\ cmd'.ver = dst[Inst] /\ cmd.pc = "link" /\ cmd.todo = {}
    BY <1>0, <1>10 DEF LoadInstantiation, srcVars, ownVars, CmdType
  <2>2. dst[Inst] = Now
    BY <2>1, LoadsNow
  <2> QED
    BY <1>0, <1>s, <2>1, <2>2 DEF Now
<1>11. ASSUME NEW f \in GraphFiles, WriteGraph(f)
       PROVE  OneJobInv'
  <2>1. UNCHANGED <<srcSeen, srcComplete, linked, channel, jobs>> /\ cmd.pc = "graphs"
        /\ cmd'.pc = "graphs" /\ cmd'.ver = cmd.ver /\ f \in cmd.todo
    BY <1>0, <1>11 DEF WriteGraph, ownVars, CmdType
  <2>2. srcComplete /\ f \in GraphsOf(Now) /\ f \notin Linkable
    BY <1>0, <2>1, SourceFacts DEF FilesInv
  <2>3. \A g \in Source : g # f => dst'[g] = dst[g]
    BY <1>0, <1>11 DEF WriteGraph, TypeOK
  <2>4. jobs <= 1 => OwnInv'
    BY <2>1, <2>2, <2>3, SourceFacts DEF OwnInv, Now
  <2> QED
    BY <1>2, <2>1, <2>4
<1>12. CASE RenamePart
  <2>1. UNCHANGED <<srcSeen, srcComplete, dst, linked, jobs>> /\ cmd'.pc = "flush"
        /\ cmd'.ver = cmd.ver /\ cmd.pc = "rename"
    BY <1>0, <1>12 DEF RenamePart, srcVars, CmdType
  <2>2. srcComplete /\ Now = cmd.ver /\ cmd.at \in PartsOf(Now)
    BY <1>0, <2>1 DEF FilesInv, AtPart
  <2>3. \A n \in Parts : n # cmd.at => channel'[n] = channel[n]
    BY <1>0, <1>12 DEF RenamePart, TypeOK
  <2>4. cmd.at \in Parts => channel'[cmd.at] = cmd.ver
    BY <1>0, <1>12 DEF RenamePart, TypeOK
  <2>5. jobs <= 1 => OwnInv'
    BY <2>1, <2>2, <2>3, <2>4 DEF OwnInv, Now
  <2> QED
    BY <1>2, <2>1, <2>5
<1>13. CASE WriteSummary
  <2>1. UNCHANGED <<srcSeen, srcComplete, dst, linked, channel, jobs>> /\ cmd'.pc = "manifest"
        /\ cmd'.ver = cmd.ver /\ cmd.pc = "flush"
    BY <1>0, <1>13 DEF WriteSummary, Goto, srcVars, CmdType
  <2>2. \A n \in PartsOf(cmd.ver) : n \in Parts /\ n < cmd.at
    BY <1>0, <1>13, <2>1, AllPassed DEF WriteSummary, FilesInv, OfAVersion
  <2>3. \A n \in PartsOf(cmd.ver) : channel[n] # Absent
    BY <1>0, <2>1, <2>2 DEF ChannelInv, Flushing
  <2> QED
    BY <1>0, <1>s, <2>1, <2>3 DEF Now
<1>14. CASE WriteComplete
  BY <1>0, <1>s, <1>1, <1>14 DEF WriteComplete, Goto, srcVars, CmdType
<1>15. CASE Crash
  <2>1. UNCHANGED <<srcSeen, srcComplete, channel, jobs>> /\ cmd'.pc = "failed"
    BY <1>0, <1>15 DEF Crash, Goto, srcVars, CmdType
  <2>2. ASSUME jobs <= 1 PROVE OwnInv'
    <3>0. OwnInv
      BY <2>2
    <3>1. CASE UNCHANGED <<dst, linked>>
      BY <1>s, <2>1, <3>0, <3>1
    <3>2. CASE cmd.pc = "link" /\ \E f \in cmd.todo : dst' = [dst EXCEPT ![f] = Torn] /\ linked' = linked \ {f}
      <4>1. PICK f \in cmd.todo : dst' = [dst EXCEPT ![f] = Torn] /\ linked' = linked \ {f}
        BY <3>2
      <4>2. srcComplete /\ f \in Linkable /\ f \notin GraphFiles /\ srcSeen[f] # Absent
        BY <1>0, <3>2, SourceFacts DEF FilesInv, GraphsApart
      <4>3. \A g \in Source : g # f => dst'[g] = dst[g]
        BY <1>0, <4>1 DEF TypeOK
      <4> QED
        BY <2>1, <3>0, <4>2, <4>3, SourceFacts DEF OwnInv, Now
    <3>3. CASE cmd.pc = "generate" /\ linked' = linked
               /\ \E f \in cmd.todo : dst' = IF f \in linked THEN [dst EXCEPT ![f] = Torn] ELSE dst
      <4>1. linked = {}
        BY <1>0, <2>2, <3>0, <3>3 DEF OwnInv
      <4> QED
        BY <1>s, <2>1, <3>0, <3>3, <4>1
    <3>4. CASE cmd.pc = "graphs" /\ linked' = linked
               /\ \E f \in cmd.todo : dst' = [dst EXCEPT ![f] = Torn]
      <4>1. PICK f \in cmd.todo : dst' = [dst EXCEPT ![f] = Torn]
        BY <3>4
      <4>2. srcComplete /\ f \in GraphsOf(Now) /\ f \notin Linkable
        BY <1>0, <3>4, SourceFacts DEF FilesInv, GraphsOf
      <4>3. \A g \in Source : g # f => dst'[g] = dst[g]
        BY <1>0, <4>1 DEF TypeOK
      <4> QED
        BY <2>1, <3>0, <3>4, <4>2, <4>3, SourceFacts DEF OwnInv, Now
    <3> QED
      BY <1>15, <3>1, <3>2, <3>3, <3>4 DEF Crash
  <2> QED
    BY <1>1, <2>1, <2>2
<1>16. CASE UNCHANGED vars
  BY <1>s, <1>16 DEF vars, srcVars, ownVars, Now
<1>17. CASE StartChannel \/ KeepShard \/ WriteTemp \/ WriteManifest
  BY <1>0, <1>s, <1>2, <1>17 DEF StartChannel, KeepShard, WriteTemp, More, WriteManifest, Goto,
     srcVars, ownVars, CmdType
<1> QED
  BY <1>3, <1>4, <1>5, <1>6, <1>7, <1>8, <1>9, <1>10, <1>11, <1>12, <1>13, <1>14, <1>15, <1>16, <1>17
  DEF Next, JobStep, DeriveStep

\* While only one job has run, a derivation that completes has the files of one
\* version, and no others, though it was killed and resumed any number of times:
\* the shards `--resume` keeps were made from the source it links to.
THEOREM ResumedDerivationsArePure == Spec => ResumedIsPure
<1>1. DeriveInv /\ OneJobInv /\ [Next]_vars => OneJobInv'
  BY OneJobInvStep
<1>2. DeriveInv /\ OneJobInv /\ [Next]_vars =>
        [~complete /\ complete' /\ jobs <= 1 =>
           (\E v \in Versions : OfVersion(v) /\ NothingElse(v)) /\ Verifies]_vars
  <2> SUFFICES ASSUME DeriveInv, OneJobInv, Next, ~complete, complete', jobs <= 1
               PROVE  (\E v \in Versions : OfVersion(v) /\ NothingElse(v)) /\ Verifies
    OBVIOUS
  <2>1. WriteComplete
    BY CompletesOnce
  <2>2. TypeOK /\ FilesInv /\ ChannelInv /\ OwnInv /\ At("complete")
    BY <2>1 DEF DeriveInv, OneJobInv, WriteComplete
  <2>3. /\ cmd.ver \in Versions
        /\ \A f \in Has[cmd.ver] : dst[f] = IF f \in GraphFiles THEN Exposed(cmd.ver) ELSE cmd.ver
        /\ \A f \in Linkable : src[f] # Absent => dst[f] = src[f]
    BY <2>2, LoadedIsMade
  <2>4. summary = cmd.ver /\ Verifies
    BY <2>2 DEF ChannelInv, Verifies
  <2>5. Now = cmd.ver /\ srcSeen = src
    BY <2>2 DEF OneJobInv, FilesInv, Loaded, At
  <2>6. \A n \in PartsOf(cmd.ver) : channel[n] = cmd.ver
    BY <2>2, <2>3, <2>5, PartsOfFacts DEF OneJobInv, OwnInv, At
  <2>7. \A n \in Parts \ PartsOf(cmd.ver) : channel[n] = Absent
    BY <2>2, <2>5 DEF OwnInv
  <2>8. \A f \in Linkable : dst[f] = src[f]
    BY <2>2, <2>3, <2>5 DEF OwnInv
  <2>9. \A f \in GraphFiles \ Has[cmd.ver] : dst[f] = Absent
    BY <2>2, <2>5 DEF OwnInv, GraphsOf
  <2>10. OfVersion(cmd.ver) /\ NothingElse(cmd.ver)
    BY <2>3, <2>4, <2>6, <2>7, <2>8, <2>9 DEF OfVersion, NothingElse
  <2> QED
    BY <2>3, <2>4, <2>10
<1> QED
  BY <1>1, <1>2, OneJobInvInit, DeriveInvAlways, PTL DEF Spec, ResumedIsPure
=============================================================================
