SPECIFICATION FairSpec
CONSTANTS
  Slots <- MCSlots
  Values <- MCValues
INVARIANTS NobodyLost ContextKept
PROPERTIES IsRoundRobin EveryoneRuns
