CONSTANTS
    r1 = r1
    r2 = r2
    r3 = r3
    r4 = r4
    p1 = p1
    call = call
    renewal = renewal
    n1 = n1
    n2 = n2
    t1 = t1
    t2 = t2
    b1 = b1
    q1 = q1
    m1 = m1
    c1 = c1
    d1 = d1
    d2 = d2
    page1 = page1
    a1 = a1
    a2 = a2
    u1 = u1
    u2 = u2
    f1 = f1
    g1 = g1
    w1 = w1
    w2 = w2
    None = None
    Releases = {r1, r2, r3, r4}
    Kind <- ReleaseKinds
    ReleaseCasts <- NumberCasts
    Purchases = {p1}
    Safety = {call, renewal}
    Calls = {call}
    Numbers = {n1, n2}
    MaxFaults = 1
    Handlers = {t1, t2, b1, q1, m1, c1, d1, d2}
    HandlerKind <- HandlerKinds
    Asks <- AsksOf
    ConsentPages = {page1}
    PageOf <- Answers
    GrantCasts <- HandlerCasts
    MaxGrantFaults = 1
    JobberContractors = 2
    JobberAccounts = {a1, a2}
    BoundTo <- OnAccount
    Unreadable = {2}
    TokenUses = {u1, u2}
    OAuthFlows = {f1}
    Removals = {g1}
    DisconnectWorkers = {w1, w2}
    JobberCasts <- Meetings
    PageSize = 1
    MaxReceipts = 2
    MaxJobberAttempts = 2
    MaxJobberFaults = 1
SPECIFICATION MCSpec
INVARIANTS
    NumberIsReleasedOnce
    GrantIsFenced
    DisconnectFencesAccount
PROPERTIES
    ChangesAreJustified
CHECK_DEADLOCK FALSE
