CONSTANTS
    Slots = {1}
    None = None
    Enrolls = {e1, e2}
    NoCreate = {e2}
    Words = {w1, w2}
    Texts = {t1}
    Consents = {c1}
    Uploads = {v1, p1}
    Photos = {p1}
    Sweepers = {s1, s2}
    Strict = {s2}
    MaxTime = 1
    OrdinaryCap = 64
    ControlCap = 4
    Questions = 1
    Retries = 1
    Deletions = 1
    MaxDrifts = 1
    MaxChanges = 1
    MaxActs = 4
    PermitLimit = 4
    MaxTurns = 2
    MaxBreaks = 1
    MaxLeases = 3
    MAX_ANALYSIS_ATTEMPTS = 3
    MaxFaults = 1
    DemoCalls = {d1, d2}
    Replayed = {d1}
    Deliveries = {r1, r2}
    ConcurrencyLimit = 1
    DailyLimit = 2
    MaxDuration = 1
    Setup = 2
    LeaseTTL = 3
    MaxAge = 2
    Skew = 1
    LastInstant = 5
    MaxDemoFaults = 1
    Turns = {1, 2}
    Segments = 1
    ResponseMs = 1
    MaxSpeechMs = 1
    FinalizationMs = 1
    TtlMs = 1
    HistoryLimit = 2
    LastMs = 2
    MaxInputs = 4
SPECIFICATION ShortSpec
INVARIANTS
    DeskIsOnRecord
    SpeechIsAnswerable
PROPERTIES
    DecisionsStand
CHECK_DEADLOCK FALSE
