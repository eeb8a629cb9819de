SPECIFICATION BrowsersSpec
CONSTANTS
    f1 = f1
    g1 = g1
    c1 = c1
    w1 = w1
    t1 = t1
    r1 = r1
    r2 = r2
    v1 = v1
    v2 = v2
    NoToken = NoToken
    NoHolder = NoHolder
    NoWatch = NoWatch
    Profiles = {1}
    Device = 1
    Requests = {r1, r2}
    Watches = {v1, v2}
    SharedHost = TRUE
    LongBrowsing = FALSE
    BrowserOps = {"connect", "capture", "disconnect", "groups", "live", "stopLive", "stopView"}
    MaxEvents = 3
    MaxRestarts = 1
    Chats = {c1}
    Bound <- AnySession
    Filters = {f1}
    Groups = {g1}
    FilterOf <- OneGroup
    ChatOf <- OneChat
    Workers = {w1}
    Tokens = {t1}
    Matching = {}
    MaxMsgs = 0
    Limit = 1
    Interval = 1
    CursorVanishes = FALSE
    ResetsRace = FALSE
    SlowScans = FALSE
    ScanOps = {"activate", "select", "delete", "reset"}
    MaxOps = 1
    MaxFaults = 0
    a = a
    b = b
    q1 = q1
    q2 = q2
    q3 = q3
    m1 = m1
    m2 = m2
    Users = {a, b}
    DeviceUser = a
    Asks = {q1, q2, q3}
    MaxAsks = 5
    Threads = {m1, m2}
    Nobody = Nobody
    NoChat = NoChat
    Elsewhere = Elsewhere
    Impatient = FALSE
    PageFaults = FALSE
CHECK_DEADLOCK FALSE
SYMMETRY BrowsersSymmetry
INVARIANTS
    NothingLeftBehind
    LiveOwnsProfile
PROPERTIES
    OwnBrowserOnly
    TextStaysInChat
