CONSTANTS
  w1 = w1  w2 = w2  r1 = r1  n1 = n1
  Workers = {w1, w2}
  Receipts = {r1}
  Notices = {n1}
  MaxAttempts = 2
  MaxFaults = 3
  MaxRetries = 2
SPECIFICATION OneOutboxSpec
INVARIANTS
  NoSilentDuplicate
PROPERTIES
  SignedOnce
  OutboxDrains
CHECK_DEADLOCK FALSE
