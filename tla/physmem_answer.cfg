SPECIFICATION FairSpec
CONSTANTS
  NumPages = 14
  NoProbe <- MCNoProbe
  Kernel <- MCKernel
  Ram <- MCRam
  Requests <- MCRequests
PROPERTY Answered
