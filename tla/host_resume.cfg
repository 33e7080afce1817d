\* An upload that dies and is run again.
SPECIFICATION Spec
CONSTANTS
  a = a  b = b  u1 = u1  u2 = u2  f1 = f1  f2 = f2  t1 = t1
  shard = shard  view = view  v1 = v1  v2 = v2
  Manifest = Manifest  Complete = Complete  Absent = Absent  None = None
  Data <- OneData
  Rewritten <- InPlace
  Versions <- TwoVersions
  Corpora = {a, b}
  Uploaders = {u1}
  Owns <- OneOwner
  Fetchers = {}
  Wanted = {}
  Leftovers <- NoLeftovers
  Tags = {}
  HashShown = TRUE
  ReleaseAlone = TRUE
  AllowReplace = FALSE
  ReplaceAfresh = TRUE
  AllowKeep = FALSE
  MaxRegens = 0
  MaxFaults = 1
INVARIANTS RefusedOnlyWhenServed
SYMMETRY Symmetry
CHECK_DEADLOCK FALSE
