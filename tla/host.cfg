\* A corpus generated anew and replaced on the host, uploads that die or keep their stage, a
\* release and a fetch of whatever is on the branch by then or under the tag, which may mix the
\* two versions.
SPECIFICATION Spec
CONSTANTS
  a = a  b = b  u1 = u1  u2 = u2  f1 = f1  f2 = f2  t1 = t1
  shard = shard  view = view  v1 = v1  v2 = v2
  Manifest = Manifest  Complete = Complete  Absent = Absent  None = None
  Data <- TwoData
  Rewritten <- InPlace
  Versions <- TwoVersions
  Corpora = {a, b}
  Uploaders = {u1}
  Owns <- OwnsOne
  Fetchers = {f1}
  Wanted = {a, b}
  Leftovers <- NoLeftovers
  Tags = {t1}
  HashShown = TRUE
  ReleaseAlone = TRUE
  AllowReplace = TRUE
  ReplaceAfresh = TRUE
  AllowKeep = TRUE
  MaxRegens = 2
  MaxFaults = 2
INVARIANTS TypeOK OkMeansServed TagsVerify FetchedIsWhole
SYMMETRY Symmetry
CHECK_DEADLOCK FALSE
