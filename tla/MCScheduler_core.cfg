SPECIFICATION Spec
CONSTANTS
  r1 = r1
  r2 = r2
  r3 = r3
  Requests = {r1, r2, r3}
  Policy = "FCFS"
  Rank <- Rank123
  NoReq = NoReq
  PromptLen <- All2
  MaxOutput <- All2
  MaxModelLen = 6
  NumBlocks = 3
  BlockSize = 2
  MaxRunning = 2
  TokenBudget = 4
  PrefillThreshold = 1
  ChunkedPrefill = TRUE
  ReserveFullPrompt = FALSE
  Lora <- None
  MaxLoras = 0
  GrammarUsers = {r3}
  Resumable = {}
  MaxUpdates = 0
  ToolUsers = {}
  MaxToolCalls = 0
  RemoteLoaders = {r1}
  DelayedSenders = {r2}
  MaxInFlight = 2
  PauseStates = {}
  MayAbort = {r1, r2}
  MayReset = FALSE
INVARIANTS TypeOK QueueAgreement InFlightSamplesFit ComputedTokensHaveBlocks BlocksReclaimed AssertionsHold
CHECK_DEADLOCK FALSE
