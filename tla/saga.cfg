CONSTANTS
    c1 = c1
    c2 = c2
    c3 = c3
    c4 = c4
    m1 = m1
    m2 = m2
    x1 = x1
    a1 = a1
    a2 = a2
    a3 = a3
    l1 = l1
    n1 = n1
    g1 = g1
    o1 = o1
    w1 = w1
    s0 = s0
    s1 = s1
    s2 = s2
    v1 = v1
    v2 = v2
    k1 = k1
    k2 = k2
    k3 = k3
    k4 = k4
    None = None
    Callers = {c1, c2, c3, c4, m1, m2, x1, a1, a2, a3, l1, n1, g1, o1}
    Cmd <- MCCmd
    Workers = {w1}
    Slots = {s0, s1, s2}
    Labels = {v1, v2}
    Keys = {k1, k2, k3, k4}
    Casts <- MCCasts
    FirstSlot = s0
    MaxAttempts = 2
    MaxFaults = 1
SPECIFICATION FairSpec
INVARIANTS
    RequestIsTrue
PROPERTIES
    ProposalIsOwned
    PendingIsSettled
CHECK_DEADLOCK FALSE
