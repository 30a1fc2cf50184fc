SPECIFICATION Spec
CONSTANTS
  Frames <- MCFrames
  UserFrames <- MCUserFrames
  L2Pages = 2
  PerPage = 2
  L1Tables = 2
  L1Frames = 2
  L1Align = 4
  Entries1 = 5
  Private = 2
  Entries2 = 2
  Sections <- MCSections
  StackEntry = 2
  Statics <- MCStatics
  MapPages = {0, 1, 2, 4, 8}
INVARIANTS OneOwner Translates FindsBack StacksSafe
CHECK_DEADLOCK FALSE
