SPECIFICATION ScansSpec
CONSTANTS
    f1 = f1
    g1 = g1
    c1 = c1
    w1 = w1
    w2 = w2
    t1 = t1
    t2 = t2
    NoToken = NoToken
    NoHolder = NoHolder
    Profiles = {1}
    Chats = {c1}
    Bound <- AnySession
    Filters = {f1}
    Groups = {g1}
    FilterOf <- OneGroup
    ChatOf <- OneChat
    Workers = {w1, w2}
    Tokens = {t1, t2}
    Matching <- AllMatch
    MaxMsgs = 2
    Limit = 2
    Interval = 1
    CursorVanishes = TRUE
    ResetsRace = FALSE
    SlowScans = FALSE
    ScanOps = {"activate", "pause", "trigger", "delete", "reset", "select"}
    MaxOps = 2
    MaxFaults = 1
    Rows = 4
    Stride = 3
    MaxTail = 9
    MaxArrivals = 1
    MaxLimit = 6
    WordlessRuns = FALSE
    Session = 2
    Access = 1
    Refresh = 5
    CodeLife = 2
    TryLimit = 2
    MaxTime = 5
    MaxAuthCalls = 5
    MaxTokenPairs = 3
    Links = {k1, k2}
    MaxInserts = 2
    MaxUsers = 2
CHECK_DEADLOCK FALSE
SYMMETRY ScanSymmetry
INVARIANTS
    OneScanPerProfile
    ForwardedOncePerFault
    CheckpointCovers
    NoGapBeforeCheckpoint
    SessionsEndOnTime
    

    
