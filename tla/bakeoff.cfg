CONSTANTS
    Slots = {1}
    MaxActs = 4
    PermitLimit = 4
    MaxTurns = 2
    MaxBreaks = 1
SPECIFICATION BakeoffSpec
INVARIANTS
    AnswerStopsTheClock
CHECK_DEADLOCK FALSE
