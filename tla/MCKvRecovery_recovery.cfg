SPECIFICATION FairSpec
CONSTANTS
  r1 = r1
  r2 = r2
  r3 = r3
  NoKey = NoKey
  Requests = {r1, r2, r3}
  Blocks = {1, 2, 3, 4, 5, 6, 7}
  BlockSize = 2
  PromptLen = 5
  SharedBlocks = 1
  Twin <- Twins23
  MaxOutput = 2
  MaxRunning = 3
  TokenBudget = 6
  PrefillThreshold = 0
  SyncLoaders = {r1, r2}
  AsyncLoaders = {r3}
  Policies = {"recompute", "fail"}
  MaxFailures = 2
  MayAbort = {r1}
INVARIANTS TypeOK FailedLoadsEvicted LoadsAccounted BlocksHeldForUse
PROPERTIES SampledUnlessInterrupted EveryRequestEnds
CHECK_DEADLOCK FALSE
