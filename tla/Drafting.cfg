SPECIFICATION DraftingSpec
CONSTANTS
    Users = {u1, u2}
    e1 = e1
    e2 = e2
    e3 = e3
    w1 = w1
    w2 = w2
    Emails <- MCEmails
    Waits <- MCWaits
    Texts = {s, t}
    Configs = {c}
    Batches = {b1}
    Samplers = {k1, k2}
    None = None
    Starts <- Both
    Places = {1, 4}
    MaxEdits = 2
    MaxSlips = 1
INVARIANT ActivatedWasReviewed
PROPERTIES NothingOverwritten EveryBatchEnds
CHECK_DEADLOCK FALSE
