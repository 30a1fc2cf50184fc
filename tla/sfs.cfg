SPECIFICATION SeekSpec
CONSTANTS
  NumDirect = 1
  Ptrs = 2
  NumBlocks = 7
  Files = {f1, f2}
  NoFile = NoFile
  Desc = {d1, d2}
  Bytes = 4
  WriteCounts = {7}
  ReadCounts = {8}
  MaxSize = 14
  MaxAfter = 1
  SeekSize = 2
  Offsets = {1, 7}
  MaxSeeks = 2
SYMMETRY Symmetry
INVARIANTS TypeOK NoSharing NoLeak ReadBack NextByteRight RefusedMeansFull
CHECK_DEADLOCK FALSE
