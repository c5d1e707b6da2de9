SPECIFICATION FairSpec
CONSTANTS
  Msgs = {m1}
  Workers = {w1, w2}
  NoMsg = NoMsg
  RetryBudget = 1
  MaxOutstanding = 1
  OverHttp = TRUE
  MaxGen = 7
  MaxAttempts = 4
  MaxConn = 1
  MaxFaults = 1
INVARIANTS RejectionsWithinBudget OneCopyPerRetry
PROPERTIES SendingIsLeft EventuallyResolved
CHECK_DEADLOCK FALSE
