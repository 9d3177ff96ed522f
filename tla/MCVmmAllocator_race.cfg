SPECIFICATION Spec
CONSTANTS
  VAs = {v1}
  Objs = {o1, o2}
  NumPages = 2
  Handles = {h1, h2, h3, h4, h5}
  Threads = {t1, t2}
  MayFail = FALSE
  Overlap = TRUE
  NoObj = NoObj
  NoHandle = NoHandle
  NoVA = NoVA
SYMMETRY Symmetry
INVARIANTS PagesBacked
CHECK_DEADLOCK FALSE
