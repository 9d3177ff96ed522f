SPECIFICATION FairSpec
CONSTANTS
  Requests = {r1, r2}
  Handles = {h1, h2}
  MaxCalls = 1
  MaxTokens = 2
  Window = 2
  NoReq = NoReq
INVARIANTS TypeOK HandleOwnership NoHandleForgotten
PROPERTIES ImplementsToolPause AnswerKeptUntilUsed HandlesTried ShutdownCompletes
CHECK_DEADLOCK FALSE
