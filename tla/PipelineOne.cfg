SPECIFICATION Spec
CONSTANTS
  Msgs = {m1}
  Workers = {w1, w2}
  NoMsg = NoMsg
  RetryBudget = 1
  MaxOutstanding = 1
  OverHttp = TRUE
  MaxGen = 3
  MaxAttempts = 2
  MaxConn = 2
  MaxFaults = 2
SYMMETRY WorkerSymmetry
INVARIANTS PipelineInv OnlyDeniedIsResent
PROPERTIES AuthorizationFence PromiseKept
CHECK_DEADLOCK FALSE
