\* A job repeated with other inputs over a complete derived corpus.
SPECIFICATION Spec
CONSTANTS
  v1 = v1  v2 = v2  shard = shard  partition = partition  graph = graph  regime = regime
  Absent = Absent  Torn = Torn  Inst = Inst
  Versions <- TwoVersions
  InPlace <- OneRecord
  Replaced <- OneShard
  GraphFiles <- TwoGraphs
  Has <- HasFewer
  NumShards = 2
  Shards <- OneShorter
  CanLink = TRUE
  MaxJobs = 2
  MaxFaults = 0
INVARIANT DerivedVerifies
CHECK_DEADLOCK FALSE
