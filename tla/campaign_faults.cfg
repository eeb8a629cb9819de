SPECIFICATION Spec
CONSTANTS
    l1 = l1
    l2 = l2
    c1 = c1
    w1 = w1
    w2 = w2
    t1 = t1
    NoToken = NoToken
    Nobody = Nobody
    User = User
    Campaigns = {c1}
    Leads = {l1, l2}
    CampaignOf <- OneCampaign
    NumSteps = 2
    StepType <- VisitConnect
    Condition <- Unconditional
    Delayed = {}
    Workers = {w1, w2}
    Tokens = {}
    MaxPageLoadRetries = 2
    SlowSessions = FALSE
    UserOps = {"start", "profile", "reconnect", "deletestep", "delete", "patch"}
    PatchStatuses = {}
    PatchSteps = {2}
    MaxResets = 1
    MaxFaults = 1
CHECK_DEADLOCK FALSE
SYMMETRY Symmetry
INVARIANTS
    ProfileExclusive
    SuspendedActsNoMore
