------------------------------- MODULE FeedScans -------------------------------
(***************************************************************************)
(* Scheduled scans of the LinkedIn feed: the REST handlers of a job        *)
(* (api/v1/feed_scroll.py), Beat's dispatcher and the scan task            *)
(* (worker/tasks/feed_scroll_tasks.py), which takes a browser slot and the *)
(* profile lock, collects cards (automation/actions/feed_scroll.py) and    *)
(* stores the posts that match the job's criteria.                         *)
(*                                                                         *)
(* A card is what the page shows of one post; a post is its identity.      *)
(***************************************************************************)
EXTENDS Integers, FiniteSets, ProfileLocks, PlaywrightSlots

CONSTANTS
    FeedJobs, FeedProfile,      \* jobs, and the account profile of each
    FeedWorkers, FeedTokens,    \* worker processes, dispatch lease tokens
    NoFeedToken,
    FeedCards,                  \* cards the feed may show
    FeedCriteria, FeedMatches,  \* pairs <<post, criteria>> scoring above 1
    SlowFeedScans,              \* a scan may outlive its lock and its slot, or
                                \* the key expire between an INCR and its DECR
    CriteriaRace,               \* an edit may land within the transaction
                                \* that stores a scan
    FeedOps, MaxFeedOps, MaxFeedCrashes

VARIABLES
    feedJob,     \* rows: [st, due, left, crit]
    feedRow,     \* results of a job: "none", "shown" or "dismissed" by post
    feedApplied, \* posts the owner applied to, by the job that recorded it
    feedLease,   \* linkeasy:scheduler:feed:<job>
    feedMsg,     \* messages in Celery: [job, tok, force]
    feedFound,   \* the dispatcher has found these jobs due
    feedTask,    \* what each worker does
    feedOps, feedCrashes

feedVars == <<profileLock, slotCount, feedJob, feedRow, feedApplied, feedLease,
              feedMsg, feedFound, feedTask, feedOps, feedCrashes>>

FeedPosts == {c.post : c \in FeedCards}
FeedMessages == [job: FeedJobs, tok: FeedTokens \cup {NoFeedToken},
                 force: BOOLEAN]
IdleFeed == [pc |-> "idle", msg |-> {}, got |-> {}, n |-> 0]

FeedTypeOK ==
    /\ feedJob \in [FeedJobs ->
         [st: {"absent", "draft", "active", "paused", "deleted"},
          due: {"none", "later", "now"}, left: {"none", "zero", "some"},
          crit: FeedCriteria]]
    /\ feedRow \in [FeedJobs -> [FeedPosts -> {"none", "shown", "dismissed"}]]
    /\ feedApplied \in [FeedJobs -> SUBSET FeedPosts]
    /\ feedLease \in [FeedJobs -> FeedTokens \cup {NoFeedToken}]
    /\ feedMsg \subseteq FeedMessages
    /\ feedFound \subseteq FeedJobs
    /\ slotCount \in Int
    /\ feedTask \in [FeedWorkers ->
         [pc: {"idle", "slot", "counted", "lock", "scan", "store", "save",
               "free"},
          msg: SUBSET FeedMessages, got: SUBSET FeedPosts, n: Int]]

FeedInit ==
    /\ LocksInit /\ SlotsInit
    /\ feedJob \in [FeedJobs -> {[st |-> st, left |-> "none", crit |-> c,
                                  due |-> IF st = "active" THEN "later"
                                          ELSE "none"] :
                        st \in {"absent", "active"}, c \in FeedCriteria}]
    /\ feedRow = [j \in FeedJobs |-> [p \in FeedPosts |-> "none"]]
    /\ feedApplied = [j \in FeedJobs |-> {}]
    /\ feedLease = [j \in FeedJobs |-> NoFeedToken]
    /\ feedMsg = {} /\ feedFound = {}
    /\ feedTask = [w \in FeedWorkers |-> IdleFeed]
    /\ feedOps = 0 /\ feedCrashes = 0

-----------------------------------------------------------------------------
(* Cards: what is extracted, what is kept. *)

\* A card without text, permalink or author profile is of no use.
CardLinks(c) == c.permalink /\ c.profile
CardKept(c)  == c.text /\ CardLinks(c)

\* Two wrappers of one post have one identity: each post is collected once.
\* Scrolling stops at the target, at the last pass or at an error, with what
\* has been collected so far.
Collectable == {c.post : c \in {d \in FeedCards : CardKept(d)}}

FeedLive(j)  == feedJob[j].st \in {"draft", "active", "paused"}
FeedIsDue(j) == feedJob[j].st = "active" /\ feedJob[j].due = "now"
FeedJobOf(w) == (CHOOSE m \in feedTask[w].msg : TRUE).job
FeedTokOf(w) == (CHOOSE m \in feedTask[w].msg : TRUE).tok
Relevant(j, P)  == {p \in P : <<p, feedJob[j].crit>> \in FeedMatches}
AppliedAnywhere == UNION {feedApplied[j] : j \in FeedJobs}

FeedUser(op) ==
    /\ op \in FeedOps /\ feedOps < MaxFeedOps
    /\ feedOps' = feedOps + 1
    /\ UNCHANGED <<profileLock, slotCount, feedFound, feedTask, feedCrashes>>
FeedFrame == UNCHANGED <<feedOps, feedCrashes>>

ForceMessage(j) == [job |-> j, tok |-> NoFeedToken, force |-> TRUE]

-----------------------------------------------------------------------------
(* Requests *)

CreateFeedJob(j) ==
    /\ feedJob[j].st = "absent"
    /\ feedJob' = [feedJob EXCEPT ![j].st = "draft"]
    /\ UNCHANGED <<feedRow, feedApplied, feedLease, feedMsg>>
    /\ FeedUser("create")

\* The countdown of a pause goes on; a first or overdue scan is due now and
\* sent at once, after the commit.
ActivateFeedJob(j) ==
    /\ feedJob[j].st \in {"draft", "paused"}
    /\ LET resumes == feedJob[j].left = "some" IN
       /\ feedJob' = [feedJob EXCEPT ![j].st = "active", ![j].left = "none",
                        ![j].due = IF resumes THEN "later" ELSE "now"]
       /\ feedMsg' = IF resumes THEN feedMsg
                     ELSE feedMsg \cup {ForceMessage(j)}
    /\ UNCHANGED <<feedRow, feedApplied, feedLease>>
    /\ FeedUser("activate")

\* The rest of the interval is kept, and the dispatch lease is dropped.
PauseFeedJob(j) ==
    /\ feedJob[j].st = "active"
    /\ feedJob' = [feedJob EXCEPT ![j].st = "paused",
                     ![j].left = IF feedJob[j].due = "now" THEN "zero"
                                 ELSE "some"]
    /\ feedLease' = [feedLease EXCEPT ![j] = NoFeedToken]
    /\ UNCHANGED <<feedRow, feedApplied, feedMsg>>
    /\ FeedUser("pause")

\* Criteria edits score the stored rows again and delete what no longer
\* matches, dismissed rows too.
RescoreResults(j, c) ==
    [p \in FeedPosts |-> IF <<p, c>> \in FeedMatches THEN feedRow[j][p]
                         ELSE "none"]
EditFeedCriteria(j, c) ==
    /\ FeedLive(j) /\ c # feedJob[j].crit
    /\ CriteriaRace \/ \A w \in FeedWorkers :
          feedTask[w].pc = "save" => FeedJobOf(w) # j
    /\ feedJob' = [feedJob EXCEPT ![j].crit = c]
    /\ feedRow' = [feedRow EXCEPT ![j] = RescoreResults(j, c)]
    /\ UNCHANGED <<feedApplied, feedLease, feedMsg>>
    /\ FeedUser("criteria")

\* The same handler writes the status as it is given: nothing is scheduled.
PatchFeedStatus(j, st) ==
    /\ FeedLive(j) /\ st # feedJob[j].st
    /\ feedJob' = [feedJob EXCEPT ![j].st = st]
    /\ UNCHANGED <<feedRow, feedApplied, feedLease, feedMsg>>
    /\ FeedUser("status")

\* Lease, results, job and, by cascade, the applied posts.
DeleteFeedJob(j) ==
    /\ FeedLive(j)
    /\ feedJob' = [feedJob EXCEPT ![j].st = "deleted"]
    /\ feedRow' = [feedRow EXCEPT ![j] = [p \in FeedPosts |-> "none"]]
    /\ feedApplied' = [feedApplied EXCEPT ![j] = {}]
    /\ feedLease' = [feedLease EXCEPT ![j] = NoFeedToken]
    /\ UNCHANGED feedMsg
    /\ FeedUser("delete")

\* A manual scan is sent whatever the status; the task will look at it.
ScanFeedNow(j) ==
    /\ FeedLive(j)
    /\ feedMsg' = feedMsg \cup {ForceMessage(j)}
    /\ UNCHANGED <<feedJob, feedRow, feedApplied, feedLease>>
    /\ FeedUser("scan")

DismissResult(j, p) ==
    /\ feedRow[j][p] = "shown"
    /\ feedRow' = [feedRow EXCEPT ![j][p] = "dismissed"]
    /\ UNCHANGED <<feedJob, feedApplied, feedLease, feedMsg>>
    /\ FeedUser("dismiss")

RestoreResult(j, p) ==
    /\ feedRow[j][p] = "dismissed"
    /\ feedRow' = [feedRow EXCEPT ![j][p] = "shown"]
    /\ UNCHANGED <<feedJob, feedApplied, feedLease, feedMsg>>
    /\ FeedUser("restore")

MarkApplied(j, p) ==
    /\ feedRow[j][p] # "none" /\ p \notin feedApplied[j]
    /\ feedApplied' = [feedApplied EXCEPT ![j] = @ \cup {p}]
    /\ UNCHANGED <<feedJob, feedRow, feedLease, feedMsg>>
    /\ FeedUser("apply")

DeleteApplied(j, p) ==
    /\ p \in feedApplied[j]
    /\ feedApplied' = [feedApplied EXCEPT ![j] = @ \ {p}]
    /\ UNCHANGED <<feedJob, feedRow, feedLease, feedMsg>>
    /\ FeedUser("unapply")

-----------------------------------------------------------------------------
(* Beat *)

FeedDispatchFinds ==
    /\ feedFound = {}
    /\ \E j \in FeedJobs : FeedIsDue(j)
    /\ feedFound' = {j \in FeedJobs : FeedIsDue(j)}
    /\ UNCHANGED <<profileLock, slotCount, feedJob, feedRow, feedApplied,
                   feedLease, feedMsg, feedTask>>
    /\ FeedFrame

FeedTokenFree(t) ==
    /\ \A j \in FeedJobs : feedLease[j] # t
    /\ \A m \in feedMsg : m.tok # t
    /\ \A w \in FeedWorkers : \A m \in feedTask[w].msg : m.tok # t

\* The lease is claimed before the message is sent; a lease already there
\* means that a scan is on its way.
FeedDispatches(j, t) ==
    /\ j \in feedFound /\ feedLease[j] = NoFeedToken /\ FeedTokenFree(t)
    /\ feedLease' = [feedLease EXCEPT ![j] = t]
    /\ feedMsg' = feedMsg \cup {[job |-> j, tok |-> t, force |-> FALSE]}
    /\ feedFound' = feedFound \ {j}
    /\ UNCHANGED <<profileLock, slotCount, feedJob, feedRow, feedApplied,
                   feedTask>>
    /\ FeedFrame

FeedDispatchSkips(j) ==
    /\ j \in feedFound /\ feedLease[j] # NoFeedToken
    /\ feedFound' = feedFound \ {j}
    /\ UNCHANGED <<profileLock, slotCount, feedJob, feedRow, feedApplied,
                   feedLease, feedMsg, feedTask>>
    /\ FeedFrame

\* Beat's task dies after it has claimed the lease and before it sends.
FeedDispatchDies(j, t) ==
    /\ j \in feedFound /\ feedLease[j] = NoFeedToken /\ FeedTokenFree(t)
    /\ feedCrashes < MaxFeedCrashes
    /\ feedLease' = [feedLease EXCEPT ![j] = t]
    /\ feedFound' = {}
    /\ feedCrashes' = feedCrashes + 1
    /\ UNCHANGED <<profileLock, slotCount, feedJob, feedRow, feedApplied,
                   feedMsg, feedTask, feedOps>>

-----------------------------------------------------------------------------
(* The scan task *)

FeedGoes(w, pc) == feedTask' = [feedTask EXCEPT ![w].pc = pc]
FeedRests(w)    == feedTask' = [feedTask EXCEPT ![w] = IdleFeed]
\* The scan gives up: its empty result is stored like any other.
FeedEmpty(w)    == feedTask' = [feedTask EXCEPT ![w].pc = "store",
                                                ![w].got = {}, ![w].n = 0]
ReleaseFeedLease(j, t) ==
    feedLease' = IF t # NoFeedToken /\ feedLease[j] = t
                 THEN [feedLease EXCEPT ![j] = NoFeedToken] ELSE feedLease

FeedMayScan(m) == /\ feedJob[m.job].st = "active"
                  /\ m.force \/ feedJob[m.job].due # "later"

FeedStarts(w, m) ==
    /\ feedTask[w].pc = "idle" /\ m \in feedMsg /\ FeedMayScan(m)
    /\ feedTask' = [feedTask EXCEPT ![w].pc = "slot", ![w].msg = {m}]
    /\ feedMsg' = feedMsg \ {m}
    /\ UNCHANGED <<profileLock, slotCount, feedJob, feedRow, feedApplied,
                   feedLease, feedFound>>
    /\ FeedFrame

\* Deleted, not active or not due any more: an old message is harmless.
FeedSkips(w, m) ==
    /\ feedTask[w].pc = "idle" /\ m \in feedMsg /\ ~FeedMayScan(m)
    /\ feedMsg' = feedMsg \ {m}
    /\ ReleaseFeedLease(m.job, m.tok)
    /\ UNCHANGED <<profileLock, slotCount, feedJob, feedRow, feedApplied,
                   feedFound, feedTask>>
    /\ FeedFrame

FeedCounts(w) ==
    /\ feedTask[w].pc = "slot"
    /\ SlotIncr
    /\ feedTask' = [feedTask EXCEPT ![w].pc = "counted", ![w].n = slotCount']
    /\ UNCHANGED <<profileLock, feedJob, feedRow, feedApplied, feedLease,
                   feedMsg, feedFound>>
    /\ FeedFrame

FeedAdmitted(w) ==
    /\ feedTask[w].pc = "counted" /\ SlotGranted(feedTask[w].n)
    /\ feedTask' = [feedTask EXCEPT ![w].pc = "lock", ![w].n = 0]
    /\ UNCHANGED <<profileLock, slotCount, feedJob, feedRow, feedApplied,
                   feedLease, feedMsg, feedFound>>
    /\ FeedFrame

\* The count goes back, and the worker tries again or has waited too long.
FeedRefused(w) ==
    /\ feedTask[w].pc = "counted" /\ ~SlotGranted(feedTask[w].n)
    /\ SlotDecr
    /\ feedTask' = [feedTask EXCEPT ![w].n = 0, ![w].pc = "slot"]
    /\ UNCHANGED <<profileLock, feedJob, feedRow, feedApplied, feedLease,
                   feedMsg, feedFound>>
    /\ FeedFrame

\* Five minutes without a slot, or the account row is gone.
MutFeedGivesUp(w) ==
    /\ feedTask[w].pc = "slot" /\ SlotDecr
    /\ FeedEmpty(w)
    /\ UNCHANGED <<profileLock, feedJob, feedRow, feedApplied, feedLease,
                   feedMsg, feedFound>>
    /\ FeedFrame
FeedGivesUp(w) ==
    /\ \/ feedTask[w].pc = "slot" /\ UNCHANGED slotCount
       \/ feedTask[w].pc = "counted" /\ ~SlotGranted(feedTask[w].n) /\ SlotDecr
    /\ FeedEmpty(w)
    /\ UNCHANGED <<profileLock, feedJob, feedRow, feedApplied, feedLease,
                   feedMsg, feedFound>>
    /\ FeedFrame

FeedOpens(w) ==
    /\ feedTask[w].pc = "lock"
    /\ AcquireLock(FeedProfile[FeedJobOf(w)], w)
    /\ FeedGoes(w, "scan")
    /\ UNCHANGED <<slotCount, feedJob, feedRow, feedApplied, feedLease,
                   feedMsg, feedFound>>
    /\ FeedFrame

\* A minute without the profile raises; the finally clause gives the slot up.
FeedProfileInUse(w) ==
    /\ feedTask[w].pc = "lock" /\ ~LockFree(FeedProfile[FeedJobOf(w)])
    /\ SlotDecr /\ FeedEmpty(w)
    /\ UNCHANGED <<profileLock, feedJob, feedRow, feedApplied, feedLease,
                   feedMsg, feedFound>>
    /\ FeedFrame

\* An invalid session, an unexpected page or an exception collects nothing.
FeedCollects(w, P) ==
    /\ feedTask[w].pc = "scan" /\ P \subseteq Collectable
    /\ ReleaseLock(FeedProfile[FeedJobOf(w)], w)
    /\ SlotDecr
    /\ feedTask' = [feedTask EXCEPT ![w].pc = "store", ![w].got = P]
    /\ UNCHANGED <<feedJob, feedRow, feedApplied, feedLease, feedMsg, feedFound>>
    /\ FeedFrame

\* The job is loaded again: what is kept matches its criteria of now, is not
\* there yet and was never applied to, the best twenty of them.
MutNewRows(j, P) == {p \in P : feedRow[j][p] = "none"} \ AppliedAnywhere
NewRows(j, P) ==
    {p \in Relevant(j, P) : feedRow[j][p] = "none"} \ AppliedAnywhere
FeedScores(w) ==
    LET new == NewRows(FeedJobOf(w), feedTask[w].got) IN
    /\ feedTask[w].pc = "store"
    /\ IF FeedLive(FeedJobOf(w))
       THEN \E K \in SUBSET new :
              /\ K = {} => new = {}
              /\ feedTask' = [feedTask EXCEPT ![w].pc = "save", ![w].got = K]
       ELSE FeedGoes(w, "free")
    /\ UNCHANGED <<profileLock, slotCount, feedJob, feedRow, feedApplied,
                   feedLease, feedMsg, feedFound>>
    /\ FeedFrame

\* The commit writes the timestamps whatever the status has become: a job
\* paused meanwhile loses the countdown of its pause.
MutReschedules(w) ==
    IF feedTask[w].got = {} THEN UNCHANGED feedJob
    ELSE feedJob' = [feedJob EXCEPT ![FeedJobOf(w)].due = "later"]
Reschedules(w) ==
    feedJob' = [feedJob EXCEPT ![FeedJobOf(w)].due = "later",
                               ![FeedJobOf(w)].left = "none"]
FeedStores(w) ==
    LET j == FeedJobOf(w) IN
    /\ feedTask[w].pc = "save" /\ FeedLive(j)
    /\ feedRow' = [feedRow EXCEPT ![j] =
         [p \in FeedPosts |-> IF p \in feedTask[w].got THEN "shown" ELSE @[p]]]
    /\ Reschedules(w)
    /\ FeedGoes(w, "free")
    /\ UNCHANGED <<profileLock, slotCount, feedApplied, feedLease, feedMsg,
                   feedFound>>
    /\ FeedFrame

\* The job was deleted in between: the commit raises, and the lease stays.
FeedStoreRaises(w) ==
    /\ feedTask[w].pc = "save" /\ ~FeedLive(FeedJobOf(w))
    /\ FeedRests(w)
    /\ UNCHANGED <<profileLock, slotCount, feedJob, feedRow, feedApplied,
                   feedLease, feedMsg, feedFound>>
    /\ FeedFrame

FeedEnds(w) ==
    /\ feedTask[w].pc = "free"
    /\ FeedRests(w)
    /\ ReleaseFeedLease(FeedJobOf(w), FeedTokOf(w))
    /\ UNCHANGED <<profileLock, slotCount, feedJob, feedRow, feedApplied,
                   feedMsg, feedFound>>
    /\ FeedFrame

-----------------------------------------------------------------------------
(* Time and faults *)

FeedTimePasses(j) ==
    /\ feedJob[j].due = "later"
    /\ feedJob' = [feedJob EXCEPT ![j].due = "now"]
    /\ UNCHANGED <<profileLock, slotCount, feedRow, feedApplied, feedLease,
                   feedMsg, feedFound, feedTask>>
    /\ FeedFrame

\* The worker dies with its browser; the slot and the locks stay behind, and
\* Celery, which acknowledges late, delivers the message again.
FeedWorkerDies(w) ==
    /\ feedTask[w].pc # "idle" /\ feedCrashes < MaxFeedCrashes
    /\ feedCrashes' = feedCrashes + 1
    /\ feedMsg' = feedMsg \cup feedTask[w].msg
    /\ FeedRests(w)
    /\ UNCHANGED <<profileLock, slotCount, feedJob, feedRow, feedApplied,
                   feedLease, feedFound, feedOps>>

FeedHolds(w) == feedTask[w].pc \in {"lock", "scan"}
FeedInFlight(j, t) ==
    \/ \E m \in feedMsg : m.job = j /\ m.tok = t
    \/ \E w \in FeedWorkers : \E m \in feedTask[w].msg :
          m.job = j /\ m.tok = t

FeedLockExpires(p) ==
    /\ SlowFeedScans
       \/ \A w \in FeedWorkers : LockHeldBy(p, w) => feedTask[w].pc # "scan"
    /\ LockExpires(p)
    /\ UNCHANGED <<slotCount, feedJob, feedRow, feedApplied, feedLease,
                   feedMsg, feedFound, feedTask>>
    /\ FeedFrame

\* An hour after the last grant: nobody holds a slot that long, and the key
\* does not expire just between a refused INCR and its DECR.
FeedSlotsExpire ==
    /\ SlowFeedScans \/ \A w \in FeedWorkers :
          ~FeedHolds(w) /\ feedTask[w].pc # "counted"
    /\ SlotKeyExpires
    /\ UNCHANGED <<profileLock, feedJob, feedRow, feedApplied, feedLease,
                   feedMsg, feedFound, feedTask>>
    /\ FeedFrame

\* Two hours outlast every scan: only the lease of a lost one expires.
FeedLeaseExpires(j) ==
    /\ feedLease[j] # NoFeedToken
    /\ ~FeedInFlight(j, feedLease[j])
    /\ feedLease' = [feedLease EXCEPT ![j] = NoFeedToken]
    /\ UNCHANGED <<profileLock, slotCount, feedJob, feedRow, feedApplied,
                   feedMsg, feedFound, feedTask>>
    /\ FeedFrame

-----------------------------------------------------------------------------
FeedStep(w) ==
    \/ \E m \in feedMsg : FeedStarts(w, m) \/ FeedSkips(w, m)
    \/ FeedCounts(w) \/ FeedAdmitted(w) \/ FeedRefused(w)
    \/ FeedOpens(w) \/ FeedProfileInUse(w)
    \/ \E P \in SUBSET Collectable : FeedCollects(w, P)
    \/ FeedScores(w) \/ FeedStores(w) \/ FeedStoreRaises(w) \/ FeedEnds(w)

FeedBeat ==
    \/ FeedDispatchFinds
    \/ \E j \in FeedJobs : FeedDispatchSkips(j)
    \/ \E j \in FeedJobs, t \in FeedTokens : FeedDispatches(j, t)

FeedRequest(j) ==
    \/ CreateFeedJob(j) \/ ActivateFeedJob(j) \/ PauseFeedJob(j)
    \/ DeleteFeedJob(j) \/ ScanFeedNow(j)
    \/ \E c \in FeedCriteria : EditFeedCriteria(j, c)
    \/ \E st \in {"active", "paused", "draft"} : PatchFeedStatus(j, st)
    \/ \E p \in FeedPosts : \/ DismissResult(j, p) \/ RestoreResult(j, p)
                            \/ MarkApplied(j, p) \/ DeleteApplied(j, p)

FeedNext ==
    \/ \E w \in FeedWorkers : FeedStep(w) \/ FeedGivesUp(w) \/ FeedWorkerDies(w)
    \/ FeedBeat
    \/ \E j \in FeedJobs, t \in FeedTokens : FeedDispatchDies(j, t)
    \/ \E j \in FeedJobs : FeedRequest(j) \/ FeedTimePasses(j)
                             \/ FeedLeaseExpires(j)
    \/ \E p \in Profiles : FeedLockExpires(p)
    \/ FeedSlotsExpire

FeedSpec == FeedInit /\ [][FeedNext]_feedVars

\* Beat ticks every minute, workers go on, waits end, TTLs run out.
FeedFairness ==
    /\ WF_feedVars(FeedBeat)
    /\ \A w \in FeedWorkers :
         /\ WF_feedVars(FeedStep(w))
         /\ WF_feedVars(FeedGivesUp(w))
    /\ \A j \in FeedJobs : WF_feedVars(FeedLeaseExpires(j))
    /\ WF_feedVars(FeedSlotsExpire)

-----------------------------------------------------------------------------
(* Properties *)

\* No more than MAX_CONCURRENT_PLAYWRIGHT browsers run, whatever workers die
\* with a slot, are refused one or let the key expire.
SlotsBounded == Cardinality({w \in FeedWorkers : FeedHolds(w)}) <= MaxSlots

\* Every stored post matches the criteria the job has now: an edit that lands
\* in the middle of a scan counts for what the scan will store.  One that
\* lands within the transaction that stores it does not (CriteriaRace).
RowsMatchCriteria ==
    \A j \in FeedJobs, p \in FeedPosts :
       feedRow[j][p] # "none" => <<p, feedJob[j].crit>> \in FeedMatches

\* A due scan is not forgotten: it runs, or the job stops.
DueFeedIsScanned == \A j \in FeedJobs : FeedIsDue(j) ~> ~FeedIsDue(j)
=============================================================================
