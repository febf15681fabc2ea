SPECIFICATION Spec
CONSTANTS
  Items <- MCOneRow
  Ord <- MCOneOrd
  Origin <- MCOneOrigin
  Subs <- MCOneRow
  Hooked <- MCOneRow
  Providers = {"web"}
  ProviderOf <- MCOneRoute
  OwnSlots <- MCGlobalOnly
  Flaky = {}
  MaxConcurrent = 1
  Lookahead = 1
  AutoRetryMax = 1
  Policies = {"resume", "pause"}
  Clearing = TRUE
  HardTimeout = TRUE
  MaxHops = 1
  MaxAttempt = 2
  MaxFrames = 1
  MaxStale = 1
  MaxBoots = 1
  Commands = {"start", "pause", "cancel", "retry", "delete", "clear", "cancel_resolve"}
  Faults = {"shutdown_in_grace"}
PROPERTIES OnlyStartUnparks
