SPECIFICATION IndexedSpec
CONSTANTS
  NoUri = NoUri
  Task = {t1}
  Id = {1, 2, 3, 4}
  Vec = {"v", "w", "bad"}
  Fits = {"v", "w"}
  Requests <- SerialCalls
  MaxRequests = 8
  Uri <- MCUri
  IdOf <- MCIdOf
  Distance <- MCDistance
INVARIANTS CountExact SearchesAgree
PROPERTIES ActsLikeMemory ServesAsAsked
CHECK_DEADLOCK FALSE
