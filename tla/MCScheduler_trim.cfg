SPECIFICATION Spec
CONSTANTS
  r1 = r1
  r2 = r2
  r3 = r3
  Requests = {r1, r2}
  Policy = "FCFS"
  Rank <- Rank123
  NoReq = NoReq
  PromptLen <- All2
  MaxOutput <- All2
  MaxModelLen = 6
  NumBlocks = 3
  BlockSize = 2
  MaxRunning = 2
  TokenBudget = 4
  PrefillThreshold = 0
  ChunkedPrefill = TRUE
  ReserveFullPrompt = FALSE
  Lora <- None
  MaxLoras = 0
  GrammarUsers = {}
  Resumable = {r1, r2}
  MaxUpdates = 1
  ToolUsers = {}
  MaxToolCalls = 0
  RemoteLoaders = {}
  DelayedSenders = {}
  MaxInFlight = 2
  PauseStates = {}
  MayAbort = {}
  MayReset = FALSE
INVARIANTS TokensAddUp
CHECK_DEADLOCK FALSE
