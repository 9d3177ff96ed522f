SPECIFICATION Spec
CONSTANTS
  r1 = r1
  r2 = r2
  r3 = r3
  Requests = {r1, r2}
  Policy = "FCFS"
  Rank <- Rank123
  NoReq = NoReq
  PromptLen <- All2
  MaxOutput <- All2
  MaxModelLen = 8
  NumBlocks = 6
  BlockSize = 2
  MaxRunning = 2
  TokenBudget = 4
  PrefillThreshold = 1
  ChunkedPrefill = TRUE
  ReserveFullPrompt = FALSE
  Lora <- Loras112
  MaxLoras = 1
  GrammarUsers = {}
  Resumable = {}
  MaxUpdates = 0
  ToolUsers = {}
  MaxToolCalls = 0
  RemoteLoaders = {}
  DelayedSenders = {}
  MaxInFlight = 2
  PauseStates = {}
  MayAbort = {}
  MayReset = FALSE
INVARIANTS LorasFit
CHECK_DEADLOCK FALSE
