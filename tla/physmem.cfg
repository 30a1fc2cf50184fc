SPECIFICATION FairSpec
CONSTANTS
  NumPages = 14
  NoProbe <- MCNoProbe
  Kernel <- MCKernel
  Ram <- MCRam
  Requests <- MCRequests
INVARIANTS FramesConserved SearchInBounds RefusalJustified
PROPERTIES KeepsPromise AnsweredUnlessFragmented
