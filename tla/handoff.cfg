SPECIFICATION MCSpec
CONSTANTS
    s1 = s1 s2 = s2 w1 = w1 l1 = l1 o1 = o1
    None = None
    Calls = {1, 2}
    Streams = {s1, s2}
    Sweepers = {w1, l1}
    Workers = {w1}
    Operators = {o1}
    PageSize = 1
    MaxFaults = 2
INVARIANTS TypeOK AtMostOnce EffectsAreDue MirrorNeverOverstates
PROPERTIES SettledStays ReadyIsNotQuarantined DueIsSettled
