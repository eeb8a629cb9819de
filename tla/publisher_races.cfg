SPECIFICATION Spec
CONSTANTS
    yt = yt
    fb = fb
    w1 = w1
    w2 = w2
    t1 = t1
    t2 = t2
    NoPost = NoPost
    NoToken = NoToken
    Posts = {p1}
    Platforms = {yt, fb}
    YouTube = yt
    Uploads = {u1}
    Workers = {w1, w2}
    Tokens = {t1}
    Requests = {r1}
    ApiOps = {"retry", "reschedule", "delete"}
    Kinds = {"now"}
    StaleTicks = 1
    SlowUploads = TRUE
    MaxDelay = 0
    MaxFaults = 1
    MaxHandouts = 2
SYMMETRY Symmetry
INVARIANTS
    NoSecondCopyPerHandout
    ResultsAreHonest
PROPERTY PublishesOncePerHandout
