SPECIFICATION Spec
CONSTANTS
    Workspaces = {w1, w2}
    Requests = {r1, r2}
    Flows = {f1}
    Accounts = {a1, a2}
    Callers = {c1, c2}
    Keys = {k1}
    Identities <- MCIdentities
    Asked <- MCAsked
    MaxGen = 3
    MaxFaults = 1
CHECK_DEADLOCK FALSE
PROPERTY FailedWasNotTaken
