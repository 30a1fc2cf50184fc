SPECIFICATION Spec
CONSTANTS
  PageBytes = 8
  SlabPages = 2
  HeapPages = 9
  Sizes <- MCSizes
  HeaderSize = 2
  RecordSize = 1
  Requests <- MCRequests
  MaxObjects = 2
INVARIANT RowsServe
CHECK_DEADLOCK FALSE
