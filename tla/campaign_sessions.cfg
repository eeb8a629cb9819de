SPECIFICATION Spec
CONSTANTS
    l1 = l1
    l2 = l2
    c1 = c1
    w1 = w1
    w2 = w2
    t1 = t1
    NoToken = NoToken
    Nobody = Nobody
    User = User
    Campaigns = {c1}
    Leads = {l1, l2}
    CampaignOf <- OneCampaign
    NumSteps = 2
    StepType <- VisitConnect
    Condition <- Unconditional
    Delayed = {2}
    Workers = {w1, w2}
    Tokens = {t1}
    MaxPageLoadRetries = 2
    SlowSessions = FALSE
    UserOps = {"start", "pause", "add"}
    PatchStatuses = {}
    PatchSteps = {}
    MaxResets = 0
    MaxFaults = 0
CHECK_DEADLOCK FALSE
SYMMETRY Symmetry
INVARIANTS
    NoRepeatWithoutFault
    PauseStopsSession
