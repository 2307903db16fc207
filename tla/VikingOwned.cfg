SPECIFICATION Spec
CONSTANTS
  NoUri = NoUri
  Dir = Dir
  c1 = c1
  c2 = c2
  Client = {c1, c2}
  Id = {1, 2, 3, 4, 5, 6}
  Vec = {"v1", "v2", "vs"}
  Fits = {"v1", "v2", "vs"}
  Requests = {}
  Uri <- MCUri
  IdOf <- MCIdOf
  Text = {"t1", "t2", "s"}
  Embed <- MCEmbed
  Summary <- MCSummary
  CallsOf <- OwnedCalls
  MaxCalls = 5
  MayFail = TRUE
INVARIANTS NoOrphans FilesIndexed VectorsFresh
CHECK_DEADLOCK FALSE
