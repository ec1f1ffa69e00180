CONSTANTS
    None = None
    Casts = {{}, {"talk", "barge", "hold", "bye", "tool"}, {"desk", "talk", "barge", "hold", "owner"}, {"break", "mic"}, {"break", "tool", "talk"}, {"quiet", "owner", "break"}, {"desk", "break"}, {"demo", "talk", "barge", "bye", "break"}}
    MaxSessions = 2
    MaxTurns = 2
    MaxFrames = 2
    MaxBacklog = 1
    MaxRecoveries = 1
    MaxMic = 2
    MaxHeld = 1
    MaxWords = 1
    MaxDeliveries = 1
    MaxPrompts = 3
    MaxFailures = 2
    MaxHeard = 2
    MaxBuffer = 2
    MaxChunks = 2
    MaxReconnects = 1
    MaxFaults = 1
    Spent <- OneOrTheOther
SPECIFICATION VoiceFairSpec
INVARIANTS
    HoldIsHonest
PROPERTIES
    SpeechKeepsItsOrder
    CallerIsNotLeft
CHECK_DEADLOCK FALSE
