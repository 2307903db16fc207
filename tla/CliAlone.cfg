SPECIFICATION Spec
CONSTANTS
  p1 = p1
  p2 = p2
  Proc = {p1}
  None = None
  Dir = Dir
  Key = {1, 2}
  Value = {"v1", "v2"}
  Mounts <- MCMounts
  Setting <- MCAlone
  Given <- AloneGiven
  MaxRuns <- AloneRuns
INVARIANT ServedAlone
CHECK_DEADLOCK FALSE
