\* Three jobs with two versions of the inputs, two crashes.
SPECIFICATION Spec
CONSTANTS
  v1 = v1  v2 = v2  shard = shard  partition = partition  graph = graph  regime = regime
  Absent = Absent  Torn = Torn  Inst = Inst
  Versions <- TwoVersions
  InPlace <- OneRecord
  Replaced <- OneShard
  GraphFiles <- TwoGraphs
  Has <- HasFewer
  NumShards = 2
  Shards <- OneShorter
  CanLink = TRUE
  MaxJobs = 3
  MaxFaults = 2
INVARIANT OnlySharedFilesChange
PROPERTIES SourceKept DerivedOnceIsFresh ResumedIsPure
CHECK_DEADLOCK FALSE
