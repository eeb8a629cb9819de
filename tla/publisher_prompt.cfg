SPECIFICATION PublishingSpec
CONSTANTS
    yt = yt
    fb = fb
    w1 = w1
    w2 = w2
    t1 = t1
    t2 = t2
    NoPost = NoPost
    NoToken = NoToken
    Posts = {p1}
    Platforms = {yt, fb}
    YouTube = yt
    Uploads = {f1}
    Workers = {w1, w2}
    Tokens = {t1}
    Requests = {r1}
    ApiOps = {"retry", "reschedule", "delete"}
    Kinds = {"now", "scheduled"}
    StaleTicks = 1
    SlowUploads = FALSE
    MaxDelay = 1
    MaxFaults = 1
    MaxHandouts = 2
    u1 = u1
    u2 = u2
    PublishCalls = {u1, u2}
    Listings = {l1}
    SignIns = {c1}
    LostReplies = FALSE
    MaxTokens = 2
    MaxUploadCalls = 2
SYMMETRY PublishingSymmetry
INVARIANTS
    OneRunAtATime
    PostedMeansEveryPlatform
    RetryableKeepsFile
    
    StoredTokenRenews
PROPERTY PostedIsFinal
