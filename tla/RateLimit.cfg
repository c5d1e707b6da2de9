SPECIFICATION Spec
CONSTANTS
  Tasks = {t1, t2}
  Limits = {1, 2}
  Window = 2
  Spacing = 1
  MaxClock = 2
  MaxFaults = 2
INVARIANTS UsableLimiterRemembers CapHeld
PROPERTIES VerifiedIsCounted LostRedisIsRebuilt
CHECK_DEADLOCK FALSE
