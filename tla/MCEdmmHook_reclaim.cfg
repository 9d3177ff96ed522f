SPECIFICATION Spec
CONSTANTS
  Requests = {r1}
  Handles = {h1, h2}
  MaxCalls = 1
  MaxTokens = 2
  Window = 2
  NoReq = NoReq
INVARIANT SpeculationIsReclaimed
CHECK_DEADLOCK FALSE
