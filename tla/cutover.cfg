SPECIFICATION FairSpec
CONSTANTS
    a1 = a1 a2 = a2
    r1 = r1 r2 = r2
    j1 = j1
    g1 = g1 g2 = g2
    None = None
    Apis = {a1, a2}
    ExternalApis = {a1}
    Jobs = {j1}
    Requests = {r1, r2}
    JobOf <- TwoDeliveries
    Generations = {g1, g2}
    Generation = g1
    MaxPrepares = 2
    MaxFaults = 2
INVARIANTS TypeOK EmbeddedIsAlone UncertainIsNotReplayed CompletedIsNotHeld
PROPERTIES WorkSpec RecoveryResumes
