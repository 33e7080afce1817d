\* Two versions of the inputs under one directory, runs that only resume once a shard
\* is finished, one version over the cap; any fault happens. Commands are fair and an
\* operator keeps resuming.
SPECIFICATION OperatorSpec
CONSTANTS
  v1 = v1  v2 = v2  w1 = w1  w2 = w2
  Absent = Absent  Torn = Torn  Other = Other
  Versions <- TwoVersions
  NumShards <- TwoShards
  NumFiles = 2
  NumPieces = 2
  Pieces <- RegimeOrDate
  Workers <- TwoWorkers
  OverCap <- BigVersion
  Commands <- LiveRuns
  StartOver = FALSE
  MaxFaults = 2
PROPERTIES AtomicShards RunEnds EventuallyComplete
