SPECIFICATION Spec
CONSTANTS
  t1 = t1
  t2 = t2
  Thread = {t1, t2}
  Id = {0, 1, 2}
  Vec = {"v", "w", "W", "x"}
  Fits = {"v", "w", "W"}
  Prepared <- MCPrepared
  Level = {0, 1, 2}
  CallsOf <- OwnedCalls
  MaxCalls = 4
  MaxSaves = 2
CONSTRAINT CallsAndSaves
INVARIANTS MapsInverse Searchable FreshNodes KeptHeld LevelsAsGiven
CHECK_DEADLOCK FALSE
