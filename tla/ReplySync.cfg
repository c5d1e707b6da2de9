SPECIFICATION Spec
CONSTANTS
    Workers = {w1, w2}
    Owners = {o1, o2}
    Mails <- Mails2
    Kind <- StrayThenReply
    MaxPages = 1
    ReconcileLimit = 2
    MaxGen = 3
    MaxFaults = 2
INVARIANT CheckpointCoversRead
PROPERTIES NoFollowUpAfterReply EveryReplyStops
CHECK_DEADLOCK FALSE
