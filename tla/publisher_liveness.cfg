SPECIFICATION FairSpec
CONSTANTS
    yt = yt
    fb = fb
    w1 = w1
    w2 = w2
    t1 = t1
    t2 = t2
    NoPost = NoPost
    NoToken = NoToken
    Posts = {p1}
    Platforms = {yt}
    YouTube = yt
    Uploads = {u1}
    Workers = {w1, w2}
    Tokens = {t1, t2}
    Requests = {r1}
    ApiOps = {"cancel", "retarget"}
    Kinds = {"scheduled"}
    StaleTicks = 1
    SlowUploads = FALSE
    MaxDelay = 1
    MaxFaults = 1
    MaxHandouts = 3

PROPERTIES
    NeverEarly
    DueIsResolved
