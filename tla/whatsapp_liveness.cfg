SPECIFICATION BothSpec
CONSTANTS
    f1 = f1
    g1 = g1
    c1 = c1
    w1 = w1
    w2 = w2
    t1 = t1
    t2 = t2
    NoToken = NoToken
    NoHolder = NoHolder
    Profiles = {1}
    Chats = {c1}
    Bound <- AnySession
    Filters = {f1}
    Groups = {g1}
    FilterOf <- OneGroup
    ChatOf <- OneChat
    Workers = {w1}
    Tokens = {t1, t2}
    Matching <- FirstMatches
    MaxMsgs = 1
    Limit = 1
    Interval = 1
    CursorVanishes = FALSE
    ResetsRace = FALSE
    SlowScans = FALSE
    ScanOps = {"activate", "pause", "reset"}
    MaxOps = 2
    MaxFaults = 1
    ja = ja
    ua = ua
    ub = ub
    Jobs = {ja}
    Owners = {ua, ub}
    OwnerOf <- OwnerOfJob
    TaskIds = {k1, k2}
    NoTask = NoTask
    Orphan = Orphan
    Admin = Admin
    Pages = {"activate", "deactivate", "force", "cleanup", "purge", "revoke", "locks", "keys"}
    MaxPageOps = 2
    MaxDeaths = 1
CHECK_DEADLOCK FALSE
PROPERTIES
    MatchIsForwarded
    DueIsWorkedOff
