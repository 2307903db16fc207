SPECIFICATION Spec
CONSTANTS
  Dir = Dir
  disk = disk
  mem = mem
  c1 = c1
  c2 = c2
  Client = {c1, c2}
  Plugin = {disk, mem}
  IsLocal <- MCIsLocal
  Standard <- MCStandard
  MountPath <- MCMountPath
  Request <- MCRequest
  MaxCalls = 3
  MaxMounts = 1
SYMMETRY Swap
INVARIANTS TypeOK Promised PluginsAgree
PROPERTY FilesReachable
CHECK_DEADLOCK FALSE
