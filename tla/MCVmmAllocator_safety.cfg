SPECIFICATION Spec
CONSTANTS
  VAs = {v1, v2}
  Objs = {o1, o2}
  NumPages = 2
  Handles = {h1, h2, h3, h4, h5}
  Threads = {t1, t2}
  MayFail = TRUE
  Overlap = FALSE
  NoObj = NoObj
  NoHandle = NoHandle
  NoVA = NoVA
SYMMETRY Symmetry
INVARIANTS TypeOK PagesBacked HandlesAccounted
PROPERTIES ImplementsPageTable
CHECK_DEADLOCK FALSE
