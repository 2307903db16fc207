SPECIFICATION SteadySpec
CONSTANTS
  NoUri = NoUri
  Dir = Dir
  c1 = c1
  c2 = c2
  Client = {c1, c2}
  Id = {1, 2, 3, 4, 5, 6}
  Vec = {"v1", "v2", "vs"}
  Fits = {"v1", "v2", "vs"}
  Requests = {}
  Uri <- MCUri
  IdOf <- MCIdOf
  Text = {"t1", "t2", "s"}
  Embed <- MCEmbed
  Summary <- MCSummary
  CallsOf <- RewriteCalls
  MaxCalls = 3
  MayFail = FALSE
INVARIANT FilesFound
CHECK_DEADLOCK FALSE
