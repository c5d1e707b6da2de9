SPECIFICATION Spec
CONSTANTS
    Gens = {g1}
    Workers = {w1, w2}
    MaxAttempts = 2
    MaxErrors = 1
    Cap = 2
    MaxFaults = 3
    MaxPauses = 2
INVARIANTS GenerationMatchesMessage BilledBounded
PROPERTY EveryJobDecided
CHECK_DEADLOCK FALSE
