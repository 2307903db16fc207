SPECIFICATION Spec
CONSTANTS
  NoUri = NoUri
  c1 = c1
  c2 = c2
  Client = {c1, c2}
  NoClient = NoClient
  Id = {1, 2, 3, 4}
  Usable = {1, 2, 3}
  Vec = {"v", "w", "bad"}
  Fits = {"v", "w"}
  Requests = {}
  Uri <- MCUri
  IdOf <- MCIdOf
  Distance <- MCDistance
  CallsOf <- MCCallsOf
  Page = 2
  Stock <- MCStock
  MaxCalls = 3
INVARIANTS KeepsItsWord RemovedUnseen FiltersAgree
PROPERTY Returns
CHECK_DEADLOCK FALSE
