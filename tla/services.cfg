SPECIFICATION ServicesSpec
CONSTANTS
    r1 = r1
    r2 = r2
    s1 = s1
    o1 = o1
    e1 = e1
    e2 = e2
    j1 = j1
    Profiles = {1, 2}
    NoHolder = NoHolder
    Emails = {e1, e2}
    Logins = {r1, r2}
    Sessions = {s1}
    Others = {o1}
    NoAccount = NoAccount
    NoSession = NoSession
    EditsRace = FALSE
    LoginOps = {"add", "verify", "code", "delete", "password", "suspend", "rename"}
    MaxLoginOps = 3
    MaxApiRestarts = 1
    MaxSlots = 1
    FeedJobs = {j1}
    FeedProfile <- FeedsOnOne
    FeedWorkers = {"w1", "w2"}
    FeedTokens = {"t1"}
    NoFeedToken = NoFeedToken
    FeedCards <- Cards
    FeedCriteria = {"c1", "c2"}
    FeedMatches <- OnlyFirst
    SlowFeedScans = FALSE
    CriteriaRace = FALSE
    FeedOps = {"create", "activate", "pause", "criteria", "status", "delete", "scan", "dismiss", "restore", "apply", "unapply"}
    MaxFeedOps = 2
    MaxFeedCrashes = 1
    Texts = {"t1"}
    NoText = NoText
    LostClicks = FALSE
    MaxActions = 2
INVARIANTS
    
    RowsMatchCriteria
    
PROPERTIES
    
    PendingIsClosed
    DueFeedIsScanned
    
CHECK_DEADLOCK FALSE
