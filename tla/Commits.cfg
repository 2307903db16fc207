SPECIFICATION Spec
CONSTANTS
  Dir = Dir
  Panic = Panic
  MaxAbstract = 1
  MaxOverview = 21
  Meaningful = 4
  Committer = {k1, k2}
  Folder <- MCFolder
  Name <- MCName
  ContentsOf <- MCContentsOf
  MaxSize = 6
  MaxChanges = 3
  MaxCommits = 2
INVARIANTS TypeOK AbstractsFresh OverviewComplete
PROPERTY Returns
CHECK_DEADLOCK FALSE
