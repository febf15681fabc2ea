SPECIFICATION FairSpec
CONSTANTS
  Items <- MCRows
  Ord <- MCOrd
  Origin <- MCOrigin
  Subs = {}
  Hooked = {}
  Providers = {"web", "sc"}
  ProviderOf <- MCRoute
  OwnSlots <- MCPools
  Flaky = {"sc"}
  MaxConcurrent = 1
  Lookahead = 1
  AutoRetryMax = 1
  Policies = {"resume", "pause"}
  Clearing = FALSE
  HardTimeout = FALSE
  MaxHops = 0
  MaxAttempt = 1
  MaxFrames = 0
  MaxStale = 0
  MaxBoots = 0
  Commands = {"start", "pause"}
  Faults = {}
INVARIANT NoIdlePermit
PROPERTIES EventuallySettles
