SPECIFICATION AnsweringSpec
CONSTANTS
    a1 = a1
    a2 = a2
    d1 = d1
    q1 = q1
    op1 = op1
    op2 = op2
    None = None
    FirstConf = FirstConf
    Accepts = {a1}
    Declines = {}
    Ops = {op1, op2}
    OpOf <- OneDevice
    Polls = {}
    Route = "ring"
    Aging = FALSE
    MaxAttempts = 2
    RecoveryAttempts = 2
    MaxFaults = 1
    LegacyProducer = TRUE
INVARIANTS
    TypeOK
    ServedStreamOwnsToken
PROPERTIES
    PickupIsKept
    RingIsAnswered
CHECK_DEADLOCK FALSE
