SPECIFICATION Spec
CONSTANTS
  r1 = r1
  r2 = r2
  a = a
  b = b
  c = c
  d = d
  Requests = {r1, r2}
  Order <- InOrder
  Rank <- ByRank
  Items = {a, b, c, d}
  Size <- Sizes
  PromptLen <- Prompts
  MaxOutput <- Outputs
  MaxModelLen = 9
  TokenBudget = 5
  EncoderBudget = 4
  RemoteItems = {c}
  BlockSize = 2
  MaxDraft = 2
  Hits = {0, 2}
  Configs <- AllConfigs
  MaxFailures = 2
INVARIANTS TypeOK EncoderCacheFits ComputedWithinTokens MambaStatesCached
PROPERTIES FeaturesReady EveryRequestEnds
CHECK_DEADLOCK FALSE
