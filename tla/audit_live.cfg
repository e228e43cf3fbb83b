SPECIFICATION FairSpec
CONSTANTS
  w1 = w1  w2 = w2  w3 = w3  w4 = w4  k1 = k1  k2 = k2
  NULL = NULL
  Witnesses = {w1, w2, w3, w4}
  Members <- Rotated
  Workers = {k1}
  BatchLimit = 1
  MaxAppends = 1
  MaxHeartbeats = 1
  MaxFaults = 1
  MaxRestores = 0
INVARIANT OldQuorumsVerify
PROPERTY EventsCertified
CHECK_DEADLOCK FALSE
