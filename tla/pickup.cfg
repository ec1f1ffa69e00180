SPECIFICATION Spec
CONSTANTS
    a1 = a1
    a2 = a2
    d1 = d1
    q1 = q1
    op1 = op1
    op2 = op2
    None = None
    FirstConf = FirstConf
    Accepts = {a1, a2}
    Declines = {}
    Ops = {op1, op2}
    OpOf <- RetriedOp
    Polls = {q1}
    Route = "screening"
    Aging = TRUE
    MaxAttempts = 0
    RecoveryAttempts = 0
    MaxFaults = 1
    LegacyProducer = FALSE
INVARIANTS
    OnePickupRedirect
    AnswersAreTrue
PROPERTIES
    DecisionIsFinal
    ArbitrationSpec
CHECK_DEADLOCK FALSE
