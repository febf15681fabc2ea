SPECIFICATION Spec
CONSTANTS
  a = a
  b = b
  Items <- MCItems
  Values = {"p"}
  Seed = 2
  LeftMin = 1
  RingFrames = 3
  Capacity = 1
  MemDone = 1
  DeltaBudget = 2
  BurstMax = 1
  LeadMax = 2
  MaxSeq = 6
  MaxEvents = 3
INVARIANTS TypeOK ToldIsTruth NoFrameLost FoldIsReplay
PROPERTY DeltaKnowsItsRow
SYMMETRY Alike
