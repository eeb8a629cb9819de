SPECIFICATION FairSpec
CONSTANTS
    l1 = l1
    l2 = l2
    c1 = c1
    w1 = w1
    w2 = w2
    t1 = t1
    NoToken = NoToken
    Nobody = Nobody
    User = User
    Campaigns = {c1}
    Leads = {l1}
    CampaignOf <- OneCampaign
    NumSteps = 3
    StepType <- ConnectLikeMessage
    Condition <- LastIfAccepted
    Delayed = {2}
    Workers = {w1, w2}
    Tokens = {t1}
    MaxPageLoadRetries = 1
    SlowSessions = FALSE
    UserOps = {"start", "pause"}
    PatchStatuses = {}
    PatchSteps = {}
    MaxResets = 0
    MaxFaults = 1
CHECK_DEADLOCK FALSE
INVARIANTS
    DelayHonoured
PROPERTY DueLeadIsHandled
