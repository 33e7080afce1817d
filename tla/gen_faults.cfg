\* Two versions, two shards, a pool and the sequential loop; runs resume or start
\* over what others left, stop early, skip the correlator; any one fault happens.
SPECIFICATION Spec
CONSTANTS
  v1 = v1  v2 = v2  w1 = w1  w2 = w2
  Absent = Absent  Torn = Torn  Other = Other
  Versions <- TwoVersions
  NumShards <- TwoShards
  NumFiles = 2
  NumPieces = 2
  Pieces <- RegimeOrDate
  Workers <- TwoWorkers
  OverCap <- NoVersion
  Commands <- AllRuns
  StartOver = TRUE
  MaxFaults = 1
SYMMETRY Symmetry
INVARIANTS TypeOK OkMeansVerified CompleteMeansAllShards StartedOverIsFresh
