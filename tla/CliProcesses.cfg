SPECIFICATION Spec
CONSTANTS
  p1 = p1
  p2 = p2
  Proc = {p1, p2}
  None = None
  Dir = Dir
  Key = {1, 2}
  Value = {"v1", "v2"}
  Mounts <- MCMounts
  Setting <- MCSetting
  Given <- MCGiven
  MaxRuns <- MCMaxRuns
INVARIANTS TypeOK KvKept CountMatches UrisLawful
PROPERTY Exits
CHECK_DEADLOCK FALSE
