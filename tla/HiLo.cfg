SPECIFICATION MCSpec
CONSTANTS
  Block <- MCBlock
  MaxValue = 3
  MaxBoots = 2
  Failing = TRUE
  ImCmd = {1, 2}
  ImLegacies <- MCLegacies
  ImFaults = 1
  RdRing = 2
  RdChanges = 3
  RdBoots = 2
  RdOrds = 4
  RdLimit = 2
  RdFlips = 1
  FlStarts = 2
  FlFaults = 2
  HrTimeouts = {1, 10}
  HrRetries = {0, 1, 2, 3}
  HrRuns = 2
INVARIANTS TypeOK InsertsSucceed NeverReissued ImportHolds ReadsHold HookRunsHold
PROPERTIES BootSkipsOneBlock FilesFollowTheRow
CHECK_DEADLOCK FALSE
