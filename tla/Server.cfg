CONSTANTS
  t1 = t1
  t2 = t2
  Token = {t1, t2}
  Owner <- MCOwner
  ApInbox = 2
  ApEvents = 4
  ApFaults = 1
  GrChildren = 2
  GrBatch = 1
  GrWindow = 2
  GrCommands = 3
  GrFaults = 2
  BdJob = {1, 2}
  BdInbox = 2
  BdMessages = 3
  BdTurns = 5
  BdFaults = 1
SPECIFICATION MCSpec
INVARIANTS
  ServerTypeOK ShutdownIsOrderly
PROPERTIES
  ApnsFollow GroupsKeepAndExpand BoardFollowsJobs ShutdownEnds
CHECK_DEADLOCK FALSE
