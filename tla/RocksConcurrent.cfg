SPECIFICATION Spec
CONSTANTS
  NoUri = NoUri
  Task = {t1, t2}
  Id = {1, 2, 3, 4}
  Vec = {"v", "w", "bad"}
  Fits = {"v", "w"}
  Requests <- SyncCalls
  MaxRequests = 5
  Uri <- MCUri
  IdOf <- MCIdOf
  Distance <- MCDistance
SYMMETRY Tasks
INVARIANTS TypeOK IndexInverse CommittedSurvives
PROPERTY RemovalsMatch
CHECK_DEADLOCK FALSE
