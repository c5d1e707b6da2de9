SPECIFICATION Spec
CONSTANTS
    Workers = {w1, w2}
    Audiences = {"a1"}
    NumLeads = 2
    NumSteps = 2
    BatchSize = 1
    NumIds = 2
    MaxFaults = 1
INVARIANTS OneStepAtATime JobMatchesAudience NobodyMissed
PROPERTY EveryPlanEnds
CHECK_DEADLOCK FALSE
