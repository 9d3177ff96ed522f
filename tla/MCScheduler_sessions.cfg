SPECIFICATION Spec
CONSTANTS
  r1 = r1
  r2 = r2
  r3 = r3
  Requests = {r1, r2, r3}
  Policy = "PRIORITY"
  Rank <- Rank321
  NoReq = NoReq
  PromptLen <- Prompts214
  MaxOutput <- Outputs322
  MaxModelLen = 12
  NumBlocks = 4
  BlockSize = 2
  MaxRunning = 3
  TokenBudget = 5
  PrefillThreshold = 0
  ChunkedPrefill = FALSE
  ReserveFullPrompt = TRUE
  Lora <- Loras112
  MaxLoras = 1
  GrammarUsers = {}
  Resumable = {r1}
  MaxUpdates = 2
  ToolUsers = {}
  MaxToolCalls = 0
  RemoteLoaders = {}
  DelayedSenders = {}
  MaxInFlight = 1
  PauseStates = {"UNPAUSED", "PAUSED_NEW", "PAUSED_ALL"}
  MayAbort = {r1}
  MayReset = TRUE
INVARIANTS QueueAgreement TokensAddUp NoSleepWithWork AssertionsHold PreemptedNotScheduled LorasFit
CHECK_DEADLOCK FALSE
