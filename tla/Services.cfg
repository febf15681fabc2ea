CONSTANTS
  s1 = s1
  s2 = s2
  m1 = m1
  m2 = m2
  Sub = {s1, s2}
  RawUrl = {"a", "A", "b"}
  Canon <- MCCanon
  Media = {m1, m2}
  SubPermits = 1
  SubKeep = 1
  SubAsks = 2
  SubFaults = 1
  HkItem = {1, 2, 3}
  HkPre = 1
  HkInbox = 2
  HkJobs = 2
  HkChains = 1
  HkFlights = 1
  HkWindow = 1
  HkMaxWait = 2
  DdRows = 2
  DdUrl = {"u", "v"}
  DdMedia = {"m", "n"}
  DdSteps = 2
  WrCall = {"a", "b", "c"}
  WrOps <- MCOps
  WrSyncs = {"b"}
  WrRow = {"r"}
  WrPermits = 2
  WrBatch = 2
  WrWindow = TRUE
  WrFaults = 1
  PtMax = 2
  PtProbes = 2
  PtWindow = 3
  PtHealthy = 2
  PtDelays <- MCDelays
  PtRestarts = 4
  JbKinds = {"plugin", "shim", "nm3u8", "ffmpeg"}
  JbLines = 3
  JbBudget = 2
  JbFaults = 1
  OpBackends = {"works", "deaf", "absent"}
  OpCalls = {"hup", "api", "upload", "remove"}
  OpEdits = 2
  OpBoots = 2
SPECIFICATION MCSpec
INVARIANTS
  ServicesTypeOK
  DedupeFindsLive WriterSyncIsSafe PotIsHonest
PROPERTIES
  SubsFollow HooksDeliver WriterIsTable JobsReportAndEnd OptionsHold
CHECK_DEADLOCK FALSE
