SPECIFICATION Spec
CONSTANTS
  BITMAP_BITS = 3
  Words = 2
  BlockSize = 64
  InodeSize = 64
  BytesPerInode = 192
  Sectors = 13
  PerBlock = 2
  NumDirect = 3
  Paths <- MCPaths
INVARIANTS NamesRight InodesExact BlocksExact
PROPERTY RefusedChangesNothing
CHECK_DEADLOCK FALSE
