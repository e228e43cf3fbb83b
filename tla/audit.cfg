SPECIFICATION Spec
CONSTANTS
  w1 = w1  w2 = w2  w3 = w3  w4 = w4  k1 = k1  k2 = k2
  NULL = NULL
  Witnesses = {w1, w2, w3}
  Members <- Fixed
  Workers = {k1}
  BatchLimit = 1
  MaxAppends = 1
  MaxHeartbeats = 2
  MaxFaults = 1
  MaxRestores = 1
INVARIANTS ChainCovers NoEquivocation CertifiedIsRetained OneQuorum
SYMMETRY AlikeFixed
CHECK_DEADLOCK FALSE
