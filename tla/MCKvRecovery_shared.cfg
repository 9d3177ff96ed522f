SPECIFICATION Spec
CONSTANTS
  r1 = r1
  r2 = r2
  r3 = r3
  NoKey = NoKey
  Requests = {r1, r2, r3}
  Blocks = {1, 2, 3, 4, 5, 6, 7}
  BlockSize = 2
  PromptLen = 5
  SharedBlocks = 1
  Twin <- Twins23
  MaxOutput = 2
  MaxRunning = 3
  TokenBudget = 6
  PrefillThreshold = 0
  SyncLoaders = {r1, r2}
  AsyncLoaders = {r3}
  Policies = {"recompute"}
  MaxFailures = 2
  MayAbort = {r1}
PROPERTIES SampledFromRightKv
CHECK_DEADLOCK FALSE
