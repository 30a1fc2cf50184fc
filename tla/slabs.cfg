SPECIFICATION Spec
CONSTANTS
  NumPts = 9
  Frames = {f1, f2, f3, f4, f5, f6, f7}
  NoFrame = NoFrame
  Requests <- MCSizes
SYMMETRY Symmetry
INVARIANTS SlabsMapped FramesOnce
PROPERTY KeepsPromise
CHECK_DEADLOCK FALSE
