SPECIFICATION FairSpec
CONSTANTS
    a1 = a1
    a2 = a2
    d1 = d1
    q1 = q1
    op1 = op1
    op2 = op2
    None = None
    FirstConf = FirstConf
    Accepts = {a1}
    Declines = {d1}
    Ops = {op1, op2}
    OpOf <- OldDecline
    Polls = {}
    Route = "screening"
    Aging = FALSE
    MaxAttempts = 0
    RecoveryAttempts = 0
    MaxFaults = 1
    LegacyProducer = TRUE
INVARIANTS
    MessageExcludesPickup
    TakingMessageWasAnnounced
PROPERTY HoldEnds
CHECK_DEADLOCK FALSE
