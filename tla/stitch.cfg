\* Three records of a device and one of a session, cut into three shards in every way.
SPECIFICATION Spec
CONSTANTS
  r1 = r1  r2 = r2  r3 = r3  r4 = r4
  device = device  session = session
  Records = {r1, r2, r3, r4}
  Groups = {device, session}
  SessionGroups = {session}
  GroupOf <- DeviceRecords
  NumShards = 3
  ShardLen = 2
  Margin = 1
  Gap = 2
  Bucket = 2
  LatestTs = 5
SYMMETRY DeviceSymmetry
INVARIANTS ShardingIndependent OpenRunsAreRecent LoopGivesRuns
CHECK_DEADLOCK FALSE
