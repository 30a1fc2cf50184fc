SPECIFICATION Spec
CONSTANTS
  NumFd = 5
  ProcFd = 4
  Volumes = {v1, v2}
  RootVolume = v1
  Root <- MCRoot
  Targets <- MCTargets
  Paths <- MCPaths
  DirPaths <- MCDirPaths
  Inum <- MCInum
  Files <- MCFiles
  MaxMounts = 2
  MaxOpens = 2
INVARIANTS InUseExact HeldIsOpen ConsoleReached InodesKept
PROPERTY HandlesKept
CHECK_DEADLOCK FALSE
