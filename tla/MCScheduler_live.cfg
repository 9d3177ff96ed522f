SPECIFICATION FairSpec
CONSTANTS
  r1 = r1
  r2 = r2
  r3 = r3
  Requests = {r1, r2}
  Policy = "FCFS"
  Rank <- Rank123
  NoReq = NoReq
  PromptLen <- All2
  MaxOutput <- All2
  MaxModelLen = 6
  NumBlocks = 3
  BlockSize = 2
  MaxRunning = 2
  TokenBudget = 4
  PrefillThreshold = 1
  ChunkedPrefill = TRUE
  ReserveFullPrompt = FALSE
  Lora <- None
  MaxLoras = 0
  GrammarUsers = {r2}
  Resumable = {}
  MaxUpdates = 0
  ToolUsers = {r1}
  MaxToolCalls = 1
  RemoteLoaders = {r1}
  DelayedSenders = {}
  MaxInFlight = 2
  PauseStates = {}
  MayAbort = {r2}
  MayReset = FALSE
INVARIANTS QueueAgreement
PROPERTIES ToolPauseHeld EveryRequestFinishes AnsweredToolRuns
CHECK_DEADLOCK FALSE
