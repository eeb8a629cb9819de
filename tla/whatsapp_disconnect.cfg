SPECIFICATION DeviceSpec
CONSTANTS
    f1 = f1
    g1 = g1
    c1 = c1
    w1 = w1
    t1 = t1
    r1 = r1
    r2 = r2
    v1 = v1
    v2 = v2
    NoToken = NoToken
    NoHolder = NoHolder
    NoWatch = NoWatch
    Profiles = {1}
    Device = 1
    Requests = {r1, r2}
    Watches = {v1, v2}
    SharedHost = TRUE
    LongBrowsing = FALSE
    BrowserOps = {"disconnect"}
    MaxEvents = 1
    MaxRestarts = 1
    Chats = {c1}
    Bound <- AnySession
    Filters = {f1}
    Groups = {g1}
    FilterOf <- OneGroup
    ChatOf <- OneChat
    Workers = {w1}
    Tokens = {t1}
    Matching = {}
    MaxMsgs = 0
    Limit = 1
    Interval = 1
    CursorVanishes = FALSE
    ResetsRace = FALSE
    SlowScans = FALSE
    ScanOps = {}
    MaxOps = 1
    MaxFaults = 0
CHECK_DEADLOCK FALSE
INVARIANT
    DisconnectRemovesProfile
