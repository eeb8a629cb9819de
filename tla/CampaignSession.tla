---------------------------- MODULE CampaignSession ----------------------------
(***************************************************************************)
(* The drip engine of one LinkedIn account: the REST handlers that start,  *)
(* pause, restart and delete its campaigns and edit their leads and steps, *)
(* Beat's dispatcher, and the account session, a Celery task that takes a  *)
(* snapshot of all due leads and works through it in one browser.          *)
(*                                                                         *)
(* Sources: worker/tasks/campaign_tasks.py (run_account_session,           *)
(* _process_leads_session, dispatch_due_account_sessions),                 *)
(* api/v1/campaigns.py, api/v1/leads.py, worker/dispatch_lease.py,         *)
(* worker/profile_lock.py.                                                 *)
(*                                                                         *)
(* The lead rows of a session are loaded once and never refreshed, so a    *)
(* worker keeps a copy (seen) and decides by it; only the campaign is      *)
(* re-read before each lead.  Time is a choice: a delay is over when       *)
(* TimePasses says so, a lock expires when nobody living holds it, or, if  *)
(* SlowSessions, at any moment.                                            *)
(***************************************************************************)
EXTENDS Integers, FiniteSets

CONSTANTS
    Campaigns,
    Leads,
    CampaignOf,     \* the campaign of each lead
    NumSteps,       \* the length of every campaign's step list
    StepType,       \* what each step does
    Condition,      \* each step's condition
    Delayed,        \* the steps with a positive delay_hours
    Workers,
    Tokens,         \* dispatch-lease tokens (uuid4)
    NoToken,        \* a message sent by the API, and a free lease
    Nobody,         \* the owner of a free lock
    User,           \* an interactive login or check that opens the profile
    MaxPageLoadRetries,
    SlowSessions,   \* may a session outlive its locks?
    UserOps,        \* the requests users make in this instance
    PatchStatuses,  \* the statuses users set on leads by hand
    PatchSteps,     \* the steps users set on leads by hand
    MaxResets,      \* bound: restarts of campaigns and edits of leads by hand
    MaxFaults       \* bound: deaths, exceptions and invalid sessions

AllOps == {"start", "pause", "restart", "delete", "add", "patch",
           "deletestep", "reconnect", "profile"}
Steps  == 1..NumSteps
Types  == {"visit", "connect", "message", "followup"}
Conditions == {"none", "accepted", "not_accepted"}

Workable == {"pending", "visiting", "requested", "accepted", "messaged",
             "replied"}
LeadStatus == Workable \cup {"absent", "skipped", "failed", "complete"}

ASSUME ConstantsAssumption ==
    /\ CampaignOf \in [Leads -> Campaigns]
    /\ NumSteps \in Nat \ {0}
    /\ StepType \in [Steps -> Types]
    /\ Condition \in [Steps -> Conditions]
    /\ Delayed \subseteq Steps
    /\ NoToken \notin Tokens
    /\ Nobody \notin Workers
    /\ User \notin Workers
    /\ User # Nobody
    /\ MaxPageLoadRetries \in Nat \ {0}
    /\ SlowSessions \in BOOLEAN
    /\ UserOps \subseteq AllOps
    /\ PatchStatuses \subseteq LeadStatus \ {"absent"}
    /\ PatchSteps \subseteq 0..NumSteps
    /\ MaxResets \in Nat
    /\ MaxFaults \in Nat

VARIABLES
    account,      \* linkedin_accounts.status: active or suspended
    campaign,     \* campaigns: status ("deleted" when gone) and step orders
    lead,         \* leads, with the counts of their running and failed jobs
    lease,        \* Redis: linkeasy:scheduler:account:<email>
    sessionLock,  \* Redis: session_lock:<email>
    profileLock,  \* Redis: profile_lock:<account id>
    queue,        \* run_account_session messages, by their lease token
    beat,         \* the dispatcher has found the account due
    worker,       \* what each worker process is doing
    userBrowser,  \* a user's request has the profile open
    faults,
    resets,
    performed,    \* history: how often LinkedIn saw each step of each lead
    passed,       \* history: steps done or passed over since its restart
    waited,       \* history: the delay of the lead's current step is over
    late          \* history: actions of a campaign since it left active

dbVars    == <<account, campaign, lead>>
redisVars == <<lease, sessionLock, profileLock, queue>>
history   == <<performed, passed, waited, late>>
vars == <<dbVars, redisVars, beat, worker, userBrowser, faults, resets, history>>

-----------------------------------------------------------------------------
Campaign == [status: {"draft", "active", "paused", "deleted"},
             plan: SUBSET Steps]
Lead == [status: LeadStatus, step: 0..NumSteps, due: {"none", "later", "now"},
         touched: BOOLEAN, running: Int, failed: [Types -> Nat]]
WorkerState ==
    [pc: {"idle", "locked", "opening", "verifying", "leads", "acting",
          "recording", "closing", "releasing"},
     token: Tokens \cup {NoToken},
     todo: SUBSET Leads,
     seen: [Leads -> [status: LeadStatus, step: 0..NumSteps]],
     fresh: BOOLEAN,      \* a rollback has expired the loaded rows
     cur: SUBSET Leads,   \* the lead being acted on
     result: {"none", "ok", "fail", "blank", "stale", "error", "invalid"}]

NoLead  == [status |-> "absent", step |-> 0, due |-> "none", touched |-> FALSE,
            running |-> 0, failed |-> [ty \in Types |-> 0]]
NewLead == [NoLead EXCEPT !.status = "pending", !.step = 1, !.due = "now"]
Unseen  == [status |-> "absent", step |-> 0]
Idle == [pc |-> "idle", token |-> NoToken, todo |-> {},
         seen |-> [l \in Leads |-> Unseen], fresh |-> FALSE, cur |-> {},
         result |-> "none"]

TypeOK ==
    /\ account \in {"active", "suspended"}
    /\ campaign \in [Campaigns -> Campaign]
    /\ lead \in [Leads -> Lead]
    /\ lease \in Tokens \cup {NoToken}
    /\ sessionLock \in Workers \cup {Nobody}
    /\ profileLock \in Workers \cup {Nobody, User}
    /\ queue \subseteq Tokens \cup {NoToken}
    /\ beat \in BOOLEAN
    /\ worker \in [Workers -> WorkerState]
    /\ userBrowser \in BOOLEAN
    /\ faults \in Nat /\ resets \in Nat
    /\ performed \in [Leads -> [Steps -> Nat]]
    /\ passed \in [Leads -> SUBSET Steps]
    /\ waited \in [Leads -> BOOLEAN]
    /\ late \in [Campaigns -> Nat]

Init ==
    /\ account = "active"
    /\ campaign = [c \in Campaigns |-> [status |-> "draft", plan |-> Steps]]
    /\ lead \in [Leads -> {NoLead, NewLead}]
    /\ lease = NoToken /\ sessionLock = Nobody /\ profileLock = Nobody
    /\ queue = {} /\ beat = FALSE
    /\ worker = [w \in Workers |-> Idle]
    /\ userBrowser = FALSE
    /\ faults = 0 /\ resets = 0
    /\ performed = [l \in Leads |-> [n \in Steps |-> 0]]
    /\ passed = [l \in Leads |-> {}]
    /\ waited = [l \in Leads |-> FALSE]
    /\ late = [c \in Campaigns |-> 0]

PlanOf(l)   == campaign[CampaignOf[l]].plan
StatusOf(l) == campaign[CampaignOf[l]].status

-----------------------------------------------------------------------------
(* Requests.  Starting and restarting commit first and then send a message *)
(* without a lease; sending may fail, and Beat finds the work then.        *)
(* UserStep says what no request changes.                                  *)

Of(c) == {l \in Leads : CampaignOf[l] = c}

Activate(c) ==
    /\ campaign' = [campaign EXCEPT ![c].status = "active"]
    /\ late' = [late EXCEPT ![c] = 0]
    /\ queue' \in {queue, queue \cup {NoToken}}

StartCampaign(c) ==
    /\ "start" \in UserOps
    /\ campaign[c].status \notin {"active", "deleted"}
    /\ sessionLock = Nobody
    /\ 1 \in campaign[c].plan
    /\ lead' = [l \in Leads |->
         IF l \in Of(c) /\ lead[l].status = "pending" /\ ~lead[l].touched
         THEN [lead[l] EXCEPT !.step = 1, !.due = "now"] ELSE lead[l]]
    /\ Activate(c)
    /\ UNCHANGED <<account, lease, profileLock, userBrowser, resets, passed>>

\* The lease goes whoever owns it: a session may be running under it.
PauseCampaign(c) ==
    /\ "pause" \in UserOps
    /\ campaign[c].status = "active"
    /\ campaign' = [campaign EXCEPT ![c].status = "paused"]
    /\ lease' \in {lease, NoToken}
    /\ UNCHANGED <<account, lead, profileLock, queue, userBrowser, resets,
                   passed, late>>

\* Failed and skipped leads begin again; every other lead that is on its way
\* becomes due at once.
Restarted(c) == {l \in Of(c) : lead[l].status \in {"failed", "skipped"}}
Waiting(c)   == {l \in Of(c) : lead[l].status = "pending" /\ lead[l].step = 0}
OnTheWay(c)  == {l \in Of(c) : lead[l].status \in Workable \ {"pending"}
                                /\ lead[l].step > 0}

RestartCampaign(c) ==
    /\ "restart" \in UserOps
    /\ campaign[c].status \notin {"active", "deleted"}
    /\ 1 \in campaign[c].plan
    /\ resets < MaxResets
    /\ resets' = resets + 1
    /\ lead' = [l \in Leads |->
         CASE l \in Restarted(c) -> [lead[l] EXCEPT !.status = "pending",
                                                    !.step = 1, !.due = "now"]
           [] l \in Waiting(c)   -> [lead[l] EXCEPT !.step = 1, !.due = "now"]
           [] l \in OnTheWay(c)  -> [lead[l] EXCEPT !.due = "now"]
           [] OTHER              -> lead[l]]
    /\ passed' = [l \in Leads |->
                    IF l \in Restarted(c) THEN {} ELSE passed[l]]
    /\ Activate(c)
    /\ UNCHANGED <<account, lease, profileLock, userBrowser>>

DeleteCampaign(c) ==
    /\ "delete" \in UserOps
    /\ campaign[c].status # "deleted"
    /\ campaign' = [campaign EXCEPT ![c] = [status |-> "deleted", plan |-> {}]]
    /\ lead' = [l \in Leads |-> IF l \in Of(c) THEN NoLead ELSE lead[l]]
    /\ lease' = NoToken
    /\ UNCHANGED <<account, profileLock, queue, userBrowser, resets, passed,
                   late>>

\* A lead joins a campaign in any state, due for step 1 at once.
AddLead(l) ==
    /\ "add" \in UserOps
    /\ lead[l].status = "absent"
    /\ StatusOf(l) # "deleted"
    /\ lead' = [lead EXCEPT ![l] = NewLead]
    /\ UNCHANGED <<account, campaign, lease, profileLock, queue, userBrowser,
                   resets, passed, late>>

\* PATCH of a lead: its status, its step, or both; never when it is due.  Who
\* sets a step passes over those before it.
PatchLead(l, st, n) ==
    /\ "patch" \in UserOps
    /\ lead[l].status # "absent"
    /\ resets < MaxResets
    /\ resets' = resets + 1
    /\ lead' = [lead EXCEPT ![l].status = st, ![l].step = n]
    /\ passed' = IF n = lead[l].step THEN passed
                 ELSE [passed EXCEPT ![l] = @ \cup 1..(n - 1)]
    /\ UNCHANGED <<account, campaign, lease, profileLock, queue, userBrowser,
                   late>>

DeleteStep(c, n) ==
    /\ "deletestep" \in UserOps
    /\ n \in campaign[c].plan
    /\ campaign' = [campaign EXCEPT ![c].plan = @ \ {n}]
    /\ UNCHANGED <<account, lead, lease, profileLock, queue, userBrowser,
                   resets, passed, late>>

\* A verified login makes the account active again.
Reconnect ==
    /\ "reconnect" \in UserOps
    /\ account = "suspended"
    /\ account' = "active"
    /\ UNCHANGED <<campaign, lead, lease, profileLock, queue, userBrowser,
                   resets, passed, late>>

\* An interactive login or session check has the account's profile open.
UserOpens ==
    /\ "profile" \in UserOps
    /\ ~userBrowser
    /\ profileLock = Nobody
    /\ profileLock' = User
    /\ userBrowser' = TRUE
    /\ UNCHANGED <<dbVars, lease, queue, resets, passed, late>>

UserCloses ==
    /\ userBrowser
    /\ userBrowser' = FALSE
    /\ profileLock' = IF profileLock = User THEN Nobody ELSE profileLock
    /\ UNCHANGED <<dbVars, lease, sessionLock, queue, beat, worker, faults,
                   resets, history>>

-----------------------------------------------------------------------------
(* Beat's dispatcher: first the query and the look at the session lock,    *)
(* then the lease and the message.  It does not ask for the account.       *)

IsDue(l) ==
    /\ lead[l].status \in Workable
    /\ \/ lead[l].due = "now"
       \/ lead[l].step = 0 /\ lead[l].due = "none"

DueLeads == {l \in Leads : IsDue(l) /\ StatusOf(l) = "active"}

BeatFrame == UNCHANGED <<dbVars, sessionLock, profileLock, worker,
                         userBrowser, faults, resets, history>>

BeatFinds ==
    /\ ~beat
    /\ DueLeads # {}
    /\ sessionLock = Nobody
    /\ beat' = TRUE
    /\ UNCHANGED <<lease, queue>> /\ BeatFrame

FreshTokens == Tokens \ ({lease} \cup queue
                          \cup {worker[w].token : w \in Workers})

BeatSends(t) ==
    /\ beat
    /\ lease = NoToken
    /\ t \in FreshTokens
    /\ lease' = t
    /\ queue' = queue \cup {t}
    /\ beat' = FALSE
    /\ BeatFrame

\* The lease is taken, or sending fails and the lease is given back.
BeatGivesUp ==
    /\ beat
    /\ beat' = FALSE
    /\ UNCHANGED <<lease, queue>> /\ BeatFrame

-----------------------------------------------------------------------------
(* The session task.  TaskFrame is what its steps outside the loop over    *)
(* the leads leave alone, LeadFrame what the steps of the loop do.         *)

TaskFrame == UNCHANGED <<dbVars, beat, userBrowser, resets, history>>
LeadFrame == UNCHANGED <<campaign, redisVars, beat, userBrowser, resets>>

ReleaseLease(t) ==
    lease' = IF t # NoToken /\ lease = t THEN NoToken ELSE lease

MutSessionFree == TRUE
SessionFree    == sessionLock = Nobody

TakeSession(w, t) ==
    /\ worker[w] = Idle
    /\ t \in queue
    /\ SessionFree
    /\ queue' = queue \ {t}
    /\ sessionLock' = w
    /\ worker' = [worker EXCEPT ![w] = [Idle EXCEPT !.pc = "locked",
                                                    !.token = t]]
    /\ UNCHANGED <<lease, profileLock, faults>> /\ TaskFrame

SkipSession(w, t) ==
    /\ worker[w] = Idle
    /\ t \in queue
    /\ ~SessionFree
    /\ queue' = queue \ {t}
    /\ ReleaseLease(t)
    /\ UNCHANGED <<sessionLock, profileLock, worker, faults>> /\ TaskFrame

\* The due leads the session will work on: a step row of their order exists.
Snapshot ==
    {l \in DueLeads : IF lead[l].due = "now" THEN lead[l].step \in PlanOf(l)
                                             ELSE 1 \in PlanOf(l)}

Goto(w, pc) == worker' = [worker EXCEPT ![w].pc = pc]
Leave(w, result) ==
    worker' = [worker EXCEPT ![w] = [Idle EXCEPT !.pc = "closing",
                     !.token = worker[w].token, !.result = result]]

LoadDue(w) ==
    /\ worker[w].pc = "locked"
    /\ IF account # "active" \/ Snapshot = {} THEN Goto(w, "releasing")
       ELSE worker' = [worker EXCEPT ![w].pc = "opening",
              ![w].todo = Snapshot,
              ![w].seen = [l \in Leads |->
                 IF l \in Snapshot
                 THEN [status |-> lead[l].status, step |-> lead[l].step]
                 ELSE Unseen]]
    /\ UNCHANGED <<redisVars, faults>> /\ TaskFrame

MutProfileFree == TRUE
ProfileFree    == profileLock = Nobody

OpenProfile(w) ==
    /\ worker[w].pc = "opening"
    /\ ProfileFree
    /\ profileLock' = w
    /\ Goto(w, "verifying")
    /\ UNCHANGED <<lease, sessionLock, queue, faults>> /\ TaskFrame

\* ProfileInUseError: the session ends, Beat will try again.
ProfileBusy(w) ==
    /\ worker[w].pc = "opening"
    /\ ~ProfileFree
    /\ Goto(w, "releasing")
    /\ UNCHANGED <<redisVars, faults>> /\ TaskFrame

SessionValid(w) ==
    /\ worker[w].pc = "verifying"
    /\ Goto(w, "leads")
    /\ UNCHANGED <<redisVars, faults>> /\ TaskFrame

\* The browser does not start, or LinkedIn asks for a login: the exception
\* leaves _process_leads_session from outside the loop over the leads.
SessionInvalid(w) ==
    /\ worker[w].pc = "verifying"
    /\ faults < MaxFaults
    /\ faults' = faults + 1
    /\ Leave(w, "invalid")
    /\ UNCHANGED redisVars /\ TaskFrame

LeadsDone(w) ==
    /\ worker[w].pc = "leads" /\ worker[w].todo = {}
    /\ Leave(w, "none")
    /\ UNCHANGED <<redisVars, faults>> /\ TaskFrame

\* The browser closes, then the profile lock is given back if still owned.
CloseProfile(w) ==
    /\ worker[w].pc = "closing"
    /\ profileLock' = IF profileLock = w THEN Nobody ELSE profileLock
    /\ Goto(w, "releasing")
    /\ UNCHANGED <<lease, sessionLock, queue, faults>> /\ TaskFrame

EndSession(w) ==
    /\ worker[w].pc = "releasing"
    /\ sessionLock' = IF sessionLock = w THEN Nobody ELSE sessionLock
    /\ ReleaseLease(worker[w].token)
    /\ worker' = [worker EXCEPT ![w] = Idle]
    /\ UNCHANGED <<profileLock, queue, faults>> /\ TaskFrame

-----------------------------------------------------------------------------
(* The loop over the leads.                                                *)

\* What the session knows of a lead: the row it loaded, or, after a rollback
\* has expired it, the row as it is when the lead's turn comes.  The step it
\* is paired with stays the one of the query.
Seen(w, l) == IF worker[w].fresh
              THEN [status |-> lead[l].status, step |-> lead[l].step]
              ELSE worker[w].seen[l]
FromOne(n)   == IF n = 0 THEN 1 ELSE n
StepOf(w, l) == FromOne(worker[w].seen[l].step)

\* The next lead, in any order: the query has none.
Turn(w, l) == worker[w].pc = "leads" /\ l \in worker[w].todo
StillThere(w, l) ==
    worker[w].fresh => lead[l].status # "absent" /\ StepOf(w, l) \in PlanOf(l)
Mismatch(w, l) == FromOne(Seen(w, l).step) # StepOf(w, l)
Begun(w, l) == IF Seen(w, l).step = 0 /\ lead[l].status # "absent"
               THEN [lead EXCEPT ![l].step = 1] ELSE lead

\* Done with a lead, and with what was loaded of it.
NextLead(w, l, fresh) ==
    worker' = [worker EXCEPT ![w] = [worker[w] EXCEPT
                 !.pc = "leads", !.todo = worker[w].todo \ {l}, !.cur = {},
                 !.seen[l] = Unseen, !.result = "none", !.fresh = fresh]]

\* An expired row that is gone, or whose step is, raises outside the handler
\* of the lead.
RowsGone(w, l) ==
    /\ Turn(w, l)
    /\ ~StillThere(w, l)
    /\ Leave(w, "none")
    /\ UNCHANGED <<account, lead, faults, history>> /\ LeadFrame

SkipMismatch(w, l) ==
    /\ Turn(w, l)
    /\ StillThere(w, l) /\ Mismatch(w, l)
    /\ lead' = Begun(w, l)
    /\ NextLead(w, l, worker[w].fresh)
    /\ UNCHANGED <<account, faults, history>> /\ LeadFrame

\* The campaign is re-read before each lead; when it is no longer active the
\* session ends, the lead's move to step 1 committed.
MutCampaignGoesOn(l) == StatusOf(l) # "deleted"
CampaignGoesOn(l)    == StatusOf(l) = "active"

Ready(w, l) == Turn(w, l) /\ StillThere(w, l) /\ ~Mismatch(w, l)

StopSession(w, l) ==
    /\ Ready(w, l) /\ ~CampaignGoesOn(l)
    /\ lead' = Begun(w, l)
    /\ Leave(w, "none")
    /\ UNCHANGED <<account, faults, history>> /\ LeadFrame

ConditionMet(l, n, st) ==
    CASE Condition[n] = "none"         -> TRUE
      [] Condition[n] = "not_accepted" -> st # "accepted"
      [] Condition[n] = "accepted"     ->
           st = "accepted" \/ ~ \E k \in PlanOf(l) : k < n /\ StepType[k] = "connect"

\* After a step: on to the next one if there is one, else complete.
MutDueAfter(n) == "now"
DueAfter(n)    == IF n \in Delayed THEN "later" ELSE "now"

MutAdvance(row, l, n, status) ==
    [row EXCEPT !.status = status, !.step = n + 1, !.due = "later"]
Advance(row, l, n, status) ==
    IF n + 1 \in PlanOf(l)
    THEN [row EXCEPT !.status = status, !.step = n + 1,
                     !.due = DueAfter(n + 1)]
    ELSE [row EXCEPT !.status = "complete", !.due = "none"]

Passes(l, n) ==
    /\ passed' = [passed EXCEPT ![l] = @ \cup {n}]
    /\ waited' = [waited EXCEPT ![l] = FALSE]

\* The condition does not hold: wait for acceptance, or skip the step.
SkipLead(w, l) ==
    LET n   == StepOf(w, l)
        row == Begun(w, l)[l] IN
    /\ Ready(w, l) /\ CampaignGoesOn(l)
    /\ ~ConditionMet(l, n, Seen(w, l).status)
    /\ IF Condition[n] = "accepted"
       THEN /\ lead' = [lead EXCEPT ![l] = [row EXCEPT !.due = "later"]]
            /\ UNCHANGED <<passed, waited>>
       ELSE /\ lead' = [lead EXCEPT ![l] = Advance(row, l, n, row.status)]
            /\ Passes(l, n)
    /\ NextLead(w, l, worker[w].fresh)
    /\ UNCHANGED <<account, faults, performed, late>> /\ LeadFrame

\* The job is committed as running before LinkedIn is touched.
BeginAction(w, l) ==
    /\ Ready(w, l) /\ CampaignGoesOn(l)
    /\ ConditionMet(l, StepOf(w, l), Seen(w, l).status)
    /\ lead' = [Begun(w, l) EXCEPT ![l].running = @ + 1]
    /\ worker' = [worker EXCEPT ![w].pc = "acting", ![w].cur = {l}]
    /\ UNCHANGED <<account, faults, history>> /\ LeadFrame

\* The browser acts.  LinkedIn may carry the action out and the worker still
\* see it fail; a page that stays blank or a dead session carries out nothing.
Act(w, l, result, landed) ==
    /\ worker[w].pc = "acting"
    /\ l \in worker[w].cur
    /\ landed => result \notin {"blank", "stale"}
    /\ result = "error" => faults < MaxFaults
    /\ faults' = IF result = "error" THEN faults + 1 ELSE faults
    /\ worker' = [worker EXCEPT ![w].pc = "recording", ![w].result = result]
    /\ performed' = IF landed
                    THEN [performed EXCEPT ![l][StepOf(w, l)] = @ + 1]
                    ELSE performed
    /\ late' = IF StatusOf(l) = "active" THEN late
               ELSE [late EXCEPT ![CampaignOf[l]] = @ + 1]
    /\ UNCHANGED <<account, lead, passed, waited>> /\ LeadFrame

\* The result is written while the lead's rows exist.
Records(w, l, result) ==
    /\ worker[w].pc = "recording"
    /\ l \in worker[w].cur
    /\ worker[w].result = result
    /\ StatusOf(l) # "deleted"
    /\ UNCHANGED <<faults, performed, late>> /\ LeadFrame

StatusAfter(n, st) ==
    CASE StepType[n] = "visit"    -> "visiting"
      [] StepType[n] = "connect"  -> "requested"
      [] StepType[n] = "message"  -> "messaged"
      [] StepType[n] = "followup" -> st

\* Only a status that differs from the loaded one is written.
Written(l, seen, new) == IF new = seen THEN lead[l].status ELSE new

JobEnds(row)     == [row EXCEPT !.running = @ - 1]
JobFails(row, n) == [row EXCEPT !.failed[StepType[n]] = @ + 1]

MutMoved(w, l, n) == [JobEnds(lead[l]) EXCEPT !.touched = TRUE]
Moved(w, l, n) ==
    LET st == Seen(w, l).status
        row == Advance(lead[l], l, n, Written(l, st, StatusAfter(n, st))) IN
    [JobEnds(row) EXCEPT !.touched = TRUE]

RecordSuccess(w, l) ==
    LET n == StepOf(w, l) IN
    /\ Records(w, l, "ok")
    /\ lead' = [lead EXCEPT ![l] = Moved(w, l, n)]
    /\ Passes(l, n)
    /\ NextLead(w, l, worker[w].fresh)
    /\ UNCHANGED account

\* A blank page is tried again later: the count already holds this job.
MutMayRetry(l, n) == TRUE
MayRetry(l, n)    == lead[l].failed[StepType[n]] + 1 < MaxPageLoadRetries

RecordRetry(w, l) ==
    LET n == StepOf(w, l) IN
    /\ Records(w, l, "blank")
    /\ MayRetry(l, n)
    /\ lead' = [lead EXCEPT ![l] = [JobFails(JobEnds(lead[l]), n) EXCEPT
                                      !.due = "later", !.touched = TRUE]]
    /\ NextLead(w, l, worker[w].fresh)
    /\ UNCHANGED <<account, passed, waited>>

MutStopped(w, l, n) == Moved(w, l, n)
Stopped(w, l, n) ==
    [JobFails(JobEnds(lead[l]), n) EXCEPT !.status = "failed", !.due = "none",
                                          !.touched = TRUE]

RecordFailure(w, l) ==
    LET n == StepOf(w, l) IN
    /\ \/ Records(w, l, "fail")
       \/ Records(w, l, "blank") /\ ~MayRetry(l, n)
    /\ lead' = [lead EXCEPT ![l] = Stopped(w, l, n)]
    /\ NextLead(w, l, worker[w].fresh)
    /\ UNCHANGED <<account, passed, waited>>

\* A dead session suspends the account and ends the task.
MutAfterStale(w, l) == NextLead(w, l, TRUE)
AfterStale(w, l)    == Leave(w, "stale")

RecordStale(w, l) ==
    /\ Records(w, l, "stale")
    /\ account' = "suspended"
    /\ lead' = [lead EXCEPT ![l] = [JobFails(JobEnds(lead[l]), StepOf(w, l))
                                      EXCEPT !.status = "failed"]]
    /\ AfterStale(w, l)
    /\ UNCHANGED <<passed, waited>>

\* An exception during the action or the commit: everything not yet
\* committed is rolled back, a second job is recorded as failed, the first
\* stays running, and the lead is left as it is.
RecordError(w, l) ==
    /\ Records(w, l, "error")
    /\ lead' = [lead EXCEPT ![l] = JobFails(lead[l], StepOf(w, l))]
    /\ NextLead(w, l, TRUE)
    /\ UNCHANGED <<account, passed, waited>>

\* The campaign was deleted meanwhile: there is no row left to write.
RecordNothing(w, l) ==
    /\ worker[w].pc = "recording"
    /\ l \in worker[w].cur
    /\ StatusOf(l) = "deleted"
    /\ NextLead(w, l, TRUE)
    /\ UNCHANGED <<account, lead, faults, history>> /\ LeadFrame

-----------------------------------------------------------------------------
(* Failures and time.                                                      *)

\* The worker's locks stay behind; acks_late puts its message back.
Crash(w) ==
    /\ worker[w] # Idle
    /\ faults < MaxFaults
    /\ faults' = faults + 1
    /\ worker' = [worker EXCEPT ![w] = Idle]
    /\ queue' = queue \cup {worker[w].token}
    /\ UNCHANGED <<dbVars, lease, sessionLock, profileLock, beat, userBrowser,
                   resets, history>>

TimeFrame == UNCHANGED <<account, campaign, queue, beat, worker, userBrowser,
                         faults, resets, performed, passed, late>>

TimePasses(l) ==
    /\ lead[l].due = "later"
    /\ lead' = [lead EXCEPT ![l].due = "now"]
    /\ waited' = [waited EXCEPT ![l] = TRUE]
    /\ UNCHANGED <<lease, sessionLock, profileLock>> /\ TimeFrame

\* A message may wait for a worker longer than the lease lives.
LeaseExpires ==
    /\ lease # NoToken
    /\ lease' = NoToken
    /\ UNCHANGED <<lead, waited, sessionLock, profileLock>> /\ TimeFrame

SessionLockExpires ==
    /\ sessionLock # Nobody
    /\ SlowSessions \/ worker[sessionLock] = Idle
    /\ sessionLock' = Nobody
    /\ UNCHANGED <<lead, waited, lease, profileLock>> /\ TimeFrame

Browses(w) == worker[w].pc \in {"verifying", "leads", "acting", "recording",
                                "closing"}

ProfileLockExpires ==
    /\ profileLock \in Workers
    /\ SlowSessions \/ ~Browses(profileLock)
    /\ profileLock' = Nobody
    /\ UNCHANGED <<lead, waited, lease, sessionLock>> /\ TimeFrame

-----------------------------------------------------------------------------
UserStep ==
    /\ \/ \E c \in Campaigns :
             \/ StartCampaign(c) \/ PauseCampaign(c) \/ RestartCampaign(c)
             \/ DeleteCampaign(c)
             \/ \E n \in Steps : DeleteStep(c, n)
       \/ \E l \in Leads :
             \/ AddLead(l)
             \/ \E st \in PatchStatuses \cup {lead[l].status},
                   n \in PatchSteps \cup {lead[l].step} : PatchLead(l, st, n)
       \/ Reconnect \/ UserOpens
    /\ UNCHANGED <<sessionLock, beat, worker, faults, performed, waited>>

BeatStep == (\E t \in Tokens : BeatSends(t)) \/ BeatGivesUp

TakeMessage(w) ==
    \E t \in queue : TakeSession(w, t) \/ SkipSession(w, t)

LeadStep(w, l) ==
    \/ RowsGone(w, l) \/ SkipMismatch(w, l) \/ StopSession(w, l)
    \/ SkipLead(w, l) \/ BeginAction(w, l)
    \/ \E result \in {"ok", "fail", "blank", "stale", "error"},
          landed \in BOOLEAN : Act(w, l, result, landed)
    \/ RecordSuccess(w, l) \/ RecordRetry(w, l) \/ RecordFailure(w, l)
    \/ RecordStale(w, l) \/ RecordError(w, l) \/ RecordNothing(w, l)

SessionStep(w) ==
    \/ LoadDue(w) \/ OpenProfile(w) \/ ProfileBusy(w)
    \/ SessionValid(w) \/ SessionInvalid(w)
    \/ \E l \in Leads : LeadStep(w, l)
    \/ LeadsDone(w) \/ CloseProfile(w) \/ EndSession(w)

TimeStep == \/ \E l \in Leads : TimePasses(l)
            \/ LeaseExpires \/ SessionLockExpires \/ ProfileLockExpires

Next ==
    \/ UserStep \/ UserCloses
    \/ BeatFinds \/ BeatStep
    \/ \E w \in Workers : TakeMessage(w) \/ SessionStep(w) \/ Crash(w)
    \/ TimeStep

Spec == Init /\ [][Next]_vars

(***************************************************************************)
(* Fairness.  Beat ticks every minute and a tick runs to its end; an idle  *)
(* worker comes to each message; a session goes on until it ends or its    *)
(* worker dies; timers run out; a lease is taken when it is free time and  *)
(* again; users owe nothing but to close a browser they opened.            *)
(***************************************************************************)
Fairness ==
    /\ SF_vars(BeatFinds)
    /\ WF_vars(BeatStep)
    /\ SF_vars(\E t \in Tokens : BeatSends(t))
    /\ SF_vars(\E w \in Workers : TakeMessage(w))
    /\ \A w \in Workers : WF_vars(SessionStep(w))
    /\ \A l \in Leads : WF_vars(TimePasses(l))
    /\ WF_vars(LeaseExpires)
    /\ WF_vars(SessionLockExpires)
    /\ WF_vars(ProfileLockExpires)
    /\ WF_vars(UserCloses)

FairSpec == Spec /\ Fairness

-----------------------------------------------------------------------------
(* The walk of the leads: what LinkedIn saw, and how far each lead came.    *)

Walk == INSTANCE LeadWalk WITH asked <- performed, behind <- passed,
                               lapses <- faults + resets

-----------------------------------------------------------------------------
(* Properties *)

\* The engine implements LeadWalk: whatever sessions, redeliveries, crashes,
\* late delays and requests meet, LinkedIn is asked for a step only when the
\* steps before it are behind the lead, and again only after a lapse.
WalksInOrder == Walk!Spec

\* One browser at most has the account's profile open, whoever crashes or
\* restarts: run_account_session and the interactive logins share one
\* profile directory and only the profile lock keeps them apart.
ProfileExclusive ==
    /\ \A v, w \in Workers : Browses(v) /\ Browses(w) => v = w
    /\ userBrowser => \A w \in Workers : ~Browses(w)

\* Without restarts and manual edits, LinkedIn sees each step of a lead once,
\* plus once for every fault: no overlap of sessions repeats an action.
NoRepeatWithoutFault ==
    \A l \in Leads, n \in Steps : performed[l][n] <= 1 + faults

\* A step is acted on only after every earlier step of the lead was done,
\* skipped by its condition or passed over by hand since the lead was last
\* reset: no session goes on behind a step that failed.
StepsInOrder ==
    \A w \in Workers, l \in Leads :
        l \in worker[w].cur => 1..(StepOf(w, l) - 1) \subseteq passed[l]

\* models/lead.py: complete means that all campaign steps are completed.
CompleteMeansAllSteps ==
    \A l \in Leads : lead[l].status = "complete" =>
        PlanOf(l) \subseteq passed[l]

\* A campaign that was paused or deleted does at most one more action, the
\* one under way: the session re-reads it before every lead.
PauseStopsSession == \A c \in Campaigns : late[c] <= 1

\* Actions of one type on a lead fail at most MAX_PAGE_LOAD_RETRIES times, and once
\* more per restart, edit by hand or fault.
AttemptsBounded ==
    \A l \in Leads, ty \in Types :
        lead[l].failed[ty] <= MaxPageLoadRetries + resets + faults

\* No session acts for a suspended account.
SuspendedActsNoMore ==
    account = "suspended" => \A w \in Workers : worker[w].pc # "acting"

\* models/campaign.py: a step fires delay_hours after the previous step.
DelayHonoured ==
    \A w \in Workers, l \in Leads :
        l \in worker[w].cur /\ StepOf(w, l) \in Delayed \ {1} => waited[l]

\* A session found invalid leaves the account suspended.
InvalidSuspends ==
    \A w \in Workers : worker[w].result = "invalid" /\ worker[w].pc = "releasing"
                           => account = "suspended"

\* A job shown as running belongs to a session that is acting on its lead.
RunningJobsAreLive ==
    \A l \in Leads :
        lead[l].running <= Cardinality({w \in Workers : l \in worker[w].cur})

\* A lead marked as accepted while it is on its way gets the message that
\* waits for its acceptance, unless it fails or its campaign stops.
AcceptedIsMessaged ==
    \A l \in Leads :
        lead[l].status = "accepted" /\ lead[l].due # "none"
            ~> \/ \E n \in Steps : StepType[n] = "message"
                                  /\ performed[l][n] > 0
               \/ lead[l].status \in {"failed", "absent"}
               \/ ~CampaignGoesOn(l) \/ account # "active"

\* A due lead of an active campaign does not wait forever: it is acted on or
\* deferred, its campaign is stopped or its account is suspended.
DueLeadIsHandled ==
    \A l \in Leads :
        IsDue(l) /\ CampaignGoesOn(l) /\ account = "active"
            ~> ~IsDue(l) \/ ~CampaignGoesOn(l) \/ account # "active"
==============================================================================
