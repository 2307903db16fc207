SPECIFICATION Spec
CONSTANTS
  t1 = t1
  t2 = t2
  Thread = {t1, t2}
  Id = {1, 2, 3}
  Vec = {"u", "v", "x"}
  Fits = {"u", "v"}
  Level = {0, 1, 2}
  Centroid <- MCCentroid
  Zero = 0
  Distance <- MCDistance
  Sample = {"none", "spread", "back"}
  Means <- MCMeans
  Partitions = 11
  CallsOf <- ChangingCalls
  MaxCalls = 3
  UpkeepCalls <- ChangingUpkeep
  MaxUpkeep = 2
INVARIANTS KeysPaired SelfFound KeptHeld
PROPERTIES SaveExact
CHECK_DEADLOCK FALSE
