SPECIFICATION Spec
CONSTANTS
  a = a
  b = b
  Items <- MCItems
  Values = {"p"}
  Seed = 2
  LeftMin = 0
  RingFrames = 3
  Capacity = 1
  MemDone = 1
  DeltaBudget = 2
  BurstMax = 1
  LeadMax = 2
  MaxSeq = 5
  MaxEvents = 3
INVARIANT NoFrameLost
